----------------------------- MODULE MCRequests -----------------------------
(***************************************************************************)
(* What a caller can ask of a graph: a task, compiled and executed         *)
(* (TaskRun); an evaluation (Evaluation), over every shape of three        *)
(* latents, one of them with an arbitrary conditional prior, and priors    *)
(* with every kind of tail; draws pushed forward through it (Predictive);  *)
(* its latents integrated out (Reduction); a look at it before it is       *)
(* sampled (Preflight), or a fit (Fitting). While one is asked the others  *)
(* are as they begin.                                                      *)
(***************************************************************************)
EXTENDS Evaluation, TaskRun, Reduction, Predictive, Preflight, Fitting

ThreeLatents == 1 .. 3
CentreAndProbes == 0 .. 2

Prior(m) == [scope |-> "one dimension", masses |-> m, refined |-> m[5]]

\* A tail whose increments shrink or grow by p / q, beginning with a * q^3.
Shrinking(first, a, p, q) ==
  LET step(k) == a * p ^ (k - 1) * q ^ (4 - k)
  IN Prior([k \in 1 .. 5 |-> first + (IF k > 1 THEN step(1) ELSE 0) + (IF k > 2 THEN step(2) ELSE 0)
                               + (IF k > 3 THEN step(3) ELSE 0) + (IF k > 4 THEN step(4) ELSE 0)])

Normal == Prior(<<One, One, One, One, One>>)
Flat == Shrinking(2, 2, 2, 1)
Wrong == {Prior(<<One, One + 1, One + 1, One + 1, One + 1>>), Prior(<<0, 0, 0, 0, 0>>),
          [Normal EXCEPT !.refined = One - 1], [Normal EXCEPT !.scope = "joint"],
          Prior(<<One, One, One, One, Undefined>>), Prior(<<1, 1, 1, 1, One>>), Flat}
Tails == {Shrinking(f, a, p, q) : f \in 0 .. One, a \in {0, 1, 2}, p \in 1 .. 3, q \in 1 .. 3}
           \cup {Prior(<<a, b, c, d, One>>) : a \in {One - 3}, b, c, d \in One - 3 .. One + 1}

Shapes == {r \in [PriorLatents -> SUBSET PriorLatents] : \A l \in PriorLatents : r[l] \subseteq 1 .. l - 1}

Graph(r, fixed, covered, centred, mute, prior) ==
  [reads |-> r, fixed |-> fixed, covered |-> covered, centred |-> centred, mute |-> mute, prior |-> prior]

Everywhere(r, x) == [l \in PriorLatents |-> [at \in [r[l] -> Values] |-> x]]

\* The last latent's conditional is anything, the others' are densities.
Conditionals ==
  {Graph(r, {}, {}, TRUE, {}, [Everywhere(r, Normal) EXCEPT ![3] = f]) :
     r \in {s \in Shapes : Cardinality(s[3]) < 2}, f \in UNION {[[s -> Values] -> {Normal, Flat}] : s \in {{}, {1}, {2}}}}

Fitting == {g \in Conditionals : DOMAIN g.prior[3] = [g.reads[3] -> Values]}

Pairs(r) == {Graph(r, {}, {}, TRUE, {}, [Everywhere(r, Normal) EXCEPT ![3] = f]) :
               f \in [[{1, 2} -> Values] -> {Normal, Flat}]}

\* One latent's prior is something else, one is declared elsewhere, cannot be
\* probed, or reads a constant only.
Odd(r, l) ==
  {Graph(r, {}, {}, TRUE, {}, [Everywhere(r, Normal) EXCEPT ![l] = [at \in [r[l] -> Values] |-> x]]) :
     x \in Wrong}
  \cup {Graph(r, f, c, b, m, Everywhere(r, Normal)) :
          f \in {{}, {l} \ {k \in PriorLatents : r[k] # {}}}, c \in {{}, {l}}, b \in BOOLEAN, m \in {{}, {l}}}

Alone == [l \in PriorLatents |-> {}]
OfTails == {Graph(Alone, {}, {}, TRUE, {}, [Everywhere(Alone, Normal) EXCEPT ![1] = [at \in [{} -> Values] |-> x]]) :
              x \in Tails}

SomeQuestions ==
  {Fitting, OfTails} \cup {Pairs(r) : r \in {s \in Shapes : s[3] = {1, 2}}}
    \cup {Odd(r, l) : r \in Shapes, l \in PriorLatents}

\* Looks: graphs and what a caller may say about them.
Linear(x, w) == [linear |-> [l \in Inspected |-> IF l = "x" THEN x ELSE w], square |-> [l \in Inspected |-> 0], joint |-> 0]
Bent(row, x, w, both) == [row EXCEPT !.square = [l \in Inspected |-> IF l = "x" THEN x ELSE w], !.joint = both]

Origin == [l \in Inspected |-> 0]
Ample == [parameters |-> 2, elements |-> 6, prior |-> 2]
Inquiry(rows, blocks) ==
  [rows |-> rows, blocks |-> blocks, masked |-> {}, family |-> "gaussian", traits |-> {"hierarchical"}, opaque |-> {},
   trouble |-> "none", supplied |-> <<[l \in {} |-> 0]>>, start |-> "fine",
   factors |-> {}, normal |-> Inspected, plan |-> "blocks", policy |-> Ample]

BlockTables == {<<Inspected>>, <<{"x"}, {"w"}>>, <<{"w"}, {"x"}>>, <<{"w"}>>}
With(trait, holds) == IF holds THEN {trait} ELSE {}
GraphTroubles == {"none", "float32", "mixed families", "data read data", "clipped", "moving cutoff", "not differentiable"}

RowShapes == {Bent(Linear(a, b), s, 0, j) : a, b \in 0 .. 1, s, j \in 0 .. 1}
Looked ==
  {[Inquiry(<<r, Linear(1, c)>>, p) EXCEPT !.family = f, !.traits = With("noisy", n), !.opaque = o, !.masked = m,
                                            !.factors = {"evidence"}, !.supplied = <<a>>] :
     r \in RowShapes, c \in 0 .. 1, p \in BlockTables, f \in Families, n \in BOOLEAN, o \in {{}, {"x"}}, m \in {{}, {1}},
     a \in {[l \in Inspected |-> 0], [l \in Inspected |-> IF l = "x" THEN 0 ELSE 1]}}
Plain == <<Bent(Linear(1, 0), 0, 1, 0), Linear(1, 1)>>
RefusedInquiries == {[Inquiry(Plain, p) EXCEPT !.family = f, !.trouble = t, !.factors = {"evidence"}] : p \in BlockTables, f \in Families, t \in GraphTroubles}
Budgets ==
  {[Inquiry(Plain \o <<Linear(0, 1)>>, p) EXCEPT
      !.supplied = <<Origin>>, !.normal = {}, !.traits = With("disabled", ~e),
                                       !.policy = [parameters |-> n, elements |-> m, prior |-> k]] :
     p \in BlockTables, e \in BOOLEAN, n \in 1 .. 2, m \in {2, 3, 4, 6}, k \in 0 .. 2}
Priors ==
  {[Inquiry(Plain, p) EXCEPT !.supplied = <<Origin>>, !.factors = f, !.normal = n, !.masked = m] :
     p \in BlockTables, f \in SUBSET {"joint prior", "evidence"}, n \in SUBSET Inspected, m \in {{}, {1}}}
Unseen ==
  {[Inquiry(Plain, p) EXCEPT !.traits = With("noisy", n), !.masked = {1, 2}, !.factors = {"evidence"}] :
     p \in BlockTables, n \in BOOLEAN}
Partial == UNION {[s -> Coordinate] : s \in SUBSET Inspected}
Starts ==
  {[Inquiry(Plain, p) EXCEPT !.traits = With("ordered", o) \cup With("singular", s), !.supplied = k, !.start = t,
                        !.factors = {"evidence"}] :
     p \in {<<Inspected>>, <<{"w"}, {"x"}>>}, o, s \in BOOLEAN, k \in {<<a, b>> : a \in Partial, b \in {[l \in {"w"} |-> 1]}},
     t \in {"fine", "discrete"}}
Plans ==
  {[Inquiry(Plain, <<{"x"}, {"w"}>>) EXCEPT !.plan = p, !.traits = With("collapse", c) \cup With("hierarchical", h),
                                              !.normal = {}] :
     p \in {"two blocks", "blocks", "factor over blocks", "factor over two blocks"}, c, h \in BOOLEAN}
SomeInquiries == {Looked, Unseen, RefusedInquiries, Budgets, Priors, Starts, Plans}

-----------------------------------------------------------------------------
\* Fits: every log density of one parameter, the other's being linear, each thing
\* that is refused, and families of two targets over the same draws.
Model(prior, support, likelihood, seen, measure) ==
  [prior |-> prior, support |-> support, likelihood |-> <<likelihood, [x \in BankDraws |-> 2]>>, seen |-> seen,
   measure |-> measure, latents |-> {"x"}, data |-> <<1, 2>>]
Even == [x \in BankDraws |-> 1]
Ramp == [x \in BankDraws |-> IF x = 0 THEN 1 ELSE 2]
Steep == [x \in BankDraws |-> 1 + x]

BankOf(a, b, c) == [x \in BankDraws |-> IF x = 0 THEN a ELSE IF x = 1 THEN b ELSE c]

GraphJob(h, moving, start, steps, asks, flaw) ==
  [what |-> "graph", height |-> h, moving |-> moving, steps |-> steps, asks |-> asks, flaw |-> flaw,
   environment |-> [l \in {"a", "b"} |-> IF l = "a" THEN start ELSE 1]]

Heights == [Spots -> {0, 1, 2, Unknown}]
GraphJobs(h) ==
  {GraphJob(h, m, s, n, a, "none") :
     m \in {{"a"}, {"b"}, {"a", "b"}, {}, {"c"}}, s \in Spots, n \in 1 .. 2, a \in SUBSET {"certificate", "polish"}}
Refusals == {GraphJob([s \in Spots |-> s], {"a"}, 0, 1, {}, f) : f \in FlawsOfAFit}

HyperJob(reference, bank, target, valid, min, hyperprior) ==
  [what |-> "hyperparameter", reference |-> reference, bank |-> bank, bankNames |-> {"x"}, target |-> target,
   valid |-> valid, min |-> min, hyperprior |-> hyperprior, moving |-> {"eta"}, steps |-> 1,
   asks |-> {}, flaw |-> "none", environment |-> [l \in {"eta"} |-> 0]]
AnyModels ==
  {Model(p, s, l, k, m) : p \in {Even, Steep}, s \in {BankDraws, {0, 1}, {2}}, l \in {Even, Ramp}, k \in {{1}, {1, 2}},
                          m \in {"real", "counting"}}
References == {Model(Even, s, l, {1}, "real") : s \in {BankDraws, {0, 1}}, l \in {Even, Ramp}}
HyperJobs(r) ==
  {HyperJob(r, b, [e \in Spots |-> IF e = 0 THEN t ELSE u], {e \in Spots : v \/ e = 0}, n,
            [e \in Spots |-> IF e = 1 THEN h ELSE 1]) :
     b \in {FaithfulBank(r), BankOf(1, 0, 0), BankOf(0, 2, 1), BankOf(0, 0, 0)}, t \in {Model(Ramp, BankDraws, Even, {1}, "real")},
     u \in AnyModels, v \in BOOLEAN, n \in {0, 2}, h \in {0, 1}}

SomeFits == {GraphJobs(h) : h \in Heights} \cup {Refusals} \cup {HyperJobs(r) : r \in References}

SomeChanges == -2 .. 4
SomeTolerances == 1 .. 8

-----------------------------------------------------------------------------
VARIABLE subject

NoTask ==
  /\ taskGraph = [route |-> Single(None, FALSE), odd |-> "fine", structured |-> "none"]
  /\ x64 = TRUE /\ planned = NoPlanned /\ source = NoSource /\ answer = NothingAnswered

NoGraph ==
  /\ kind = [n \in Node |-> "deterministic"] /\ parents = [n \in Node |-> {}]
  /\ graph = [nodes |-> {}, joint |-> {}, terms |-> << >>]
  /\ handle = "graph" /\ compiled = FALSE /\ plan = NoPlan

NoDraws ==
  /\ forwardGraph = <<>> /\ call = "none" /\ wanted = 0 /\ given = <<>>
  /\ position = 1 /\ streams = {} /\ counted = {} /\ drawing = "none"

NotEvaluated == EvaluationInit /\ troubles = {} /\ phase = "carried"

NoLook == Unexamined /\ examined = CHOOSE inquiry \in Plans : TRUE
NoFitting == job \in {j \in Refusals : j.flaw = "none"} /\ NoFit

RequestsInit ==
  \/ subject = "task" /\ NotEvaluated /\ TaskInit /\ NoGraph /\ NoDraws /\ NoLook /\ NoFitting
  \/ subject = "evaluation" /\ EvaluationInit /\ NoTask /\ NoGraph /\ NoDraws /\ NoLook /\ NoFitting
  \/ subject = "graph" /\ NotEvaluated /\ NoTask /\ Init /\ NoDraws /\ NoLook /\ NoFitting
  \/ subject = "draws" /\ NotEvaluated /\ NoTask /\ NoGraph /\ PredictiveInit /\ NoLook /\ NoFitting
  \/ subject = "look" /\ NotEvaluated /\ NoTask /\ NoGraph /\ NoDraws /\ PreflightInit /\ NoFitting
  \/ subject = "fit" /\ NotEvaluated /\ NoTask /\ NoGraph /\ NoDraws /\ NoLook /\ FittingInit

RequestsNext ==
  /\ UNCHANGED subject
  /\ \/ subject = "task" /\ TaskNext /\ UNCHANGED <<allVars, vars, predictiveVars, preflightVars, fittingVars>>
     \/ subject = "evaluation" /\ EvaluationNext /\ UNCHANGED <<taskVars, vars, predictiveVars, preflightVars, fittingVars>>
     \/ subject = "graph" /\ Next /\ UNCHANGED <<allVars, taskVars, predictiveVars, preflightVars, fittingVars>>
     \/ subject = "draws" /\ PredictiveNext /\ UNCHANGED <<allVars, taskVars, vars, preflightVars, fittingVars>>
     \/ subject = "look" /\ PreflightNext /\ UNCHANGED <<allVars, taskVars, vars, predictiveVars, fittingVars>>
     \/ subject = "fit" /\ FittingNext /\ UNCHANGED <<allVars, taskVars, vars, predictiveVars, preflightVars>>
     \/ subject \notin {"task", "evaluation"}   \* nobody has to ask a graph anything more
        /\ UNCHANGED <<allVars, taskVars, vars, predictiveVars, preflightVars, fittingVars>>

RequestsSpec ==
  RequestsInit
    /\ [][RequestsNext]_<<subject, allVars, taskVars, vars, predictiveVars, preflightVars, fittingVars>>
=============================================================================
