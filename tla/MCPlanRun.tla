------------------------------ MODULE MCPlanRun ------------------------------
(***************************************************************************)
(* Small models for PlanRun: each family varies what one question is about *)
(* and holds the rest still.                                               *)
(***************************************************************************)
EXTENDS PlanRun

Scales == 1 .. 3
ThreePoints == 0 .. 2
TwoOutside == {"u", "w"}

Wide(size) == [l \in Outside |-> [gaussian |-> TRUE, built |-> TRUE, size |-> size]]
Still == [x \in Points |-> 1]
Moving == [x \in Points |-> IF x = 0 THEN 1 ELSE 2]
Home == [s \in Scales |-> 0]

Model(all, rule, solve, independent, eps, centre, swept, coupling) ==
  [groups |-> "one", all |-> all, rule |-> rule, solve |-> solve, independent |-> independent,
   eps |-> eps, centre |-> centre, swept |-> swept, coupling |-> coupling, a |-> 1]

World(facts, strategy) == [model |-> facts, strategy |-> strategy]

\* Scoreboards: condition numbers equal, apart, infinite or none, correlations up
\* to one and beyond it by rounding, a block solved once or three times.
Roots == {1, 10, Infinity}
Couplings ==
  {Uncoupled} \cup
  {[rho |-> r, cond |-> c, marg |-> g, joint |-> j] :
     r \in {<<0, 1>>, <<1, 2>>, <<1, 1>>, <<9, 8>>}, c \in Roots, g \in Roots \cup {3, NaN}, j \in Roots}

Scored ==
  {World([Model(FALSE, r, Home, r = Still, 16, k, Wide(0), c) EXCEPT !.a = a], "cost") :
     r \in {Still, Moving}, k \in {0, 1, Infinity, NaN}, c \in Couplings, a \in {1, 5}}

\* Condition numbers: at the centre and where each outside latent is probed.
Sizes == {0, 1, 2, Infinity, NaN}
Probes == [gaussian : BOOLEAN, built : BOOLEAN, size : Sizes]
Swept ==
  {World(Model(FALSE, r, Home, r = Still, e, k, s, Uncoupled), "declared") :
     r \in {Still}, e \in {7, 16}, k \in Sizes, s \in [Outside -> Probes]}

\* Whole graphs: every covariance rule, the centre's scale called 1, and every
\* solution map.
Rules == {r \in [Points -> Scales] : r[0] = 1}
Whole ==
  {World(Model(TRUE, r, s, i, 16, k, Wide(0), Uncoupled), "declared") :
     r \in Rules, s \in [Scales -> Points \cup {NoPoint}], k \in {0, 8},
     i \in {FALSE}}
  \cup
  {World(Model(TRUE, r, s, TRUE, 16, 0, Wide(0), Uncoupled), "declared") :
     r \in {Still}, s \in [Scales -> Points \cup {NoPoint}]}

\* No exact block, or several.
Others ==
  {World([Model(FALSE, Still, Home, TRUE, 16, 0, Wide(0), Uncoupled) EXCEPT !.groups = g], s) :
     g \in {"none", "many"}, s \in {"declared", "cost"}}

SomeWorlds == {Scored, Swept, Whole, Others}

\* Landings: convex and not, slopes and solutions of any direction, floors proved,
\* claimed below the truth or probed wrong.
Spots == {[H |-> [a |-> a, b |-> b], g |-> <<s, t>>] :
            a \in 1 .. 3, b \in {-1, 0, 2}, s \in 0 .. 2, t \in -2 .. 2}
Guesses == {<<0, 0>>, <<1, 0>>, <<1, 1>>, <<1, -1>>}

Landing(p, solve, resolved, limit) ==
  [point |-> p, solve |-> solve, resolved |-> resolved, limit |-> limit]

SomeLandings ==
  UNION {{Landing(p, DenseSolve(p, x), r, l) : x \in Guesses, r \in BOOLEAN, l \in 1 .. 2}
           \cup {Landing(p, IterativeSolve(p, x, f, "supplied", m, FALSE, l), TRUE, l) :
                   x \in Guesses, f \in {0, 2}, m \in 1 .. Least(p.H), l \in 1 .. 2}
           \cup {Landing(p, IterativeSolve(p, x, f, "probe", m, met, l), TRUE, l) :
                   x \in Guesses, f \in {0, 2}, m \in {0, 2}, l \in 1 .. 2,
                   met \in {FALSE, ~Convex(p.H)}} :
         p \in Spots}
=============================================================================
