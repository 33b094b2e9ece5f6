----------------------------- MODULE MCSamplers -----------------------------
(***************************************************************************)
(* From a model function to its draws: the function is traced (Trace), and *)
(* what samples the graph goes block by block: the factor sweep of         *)
(* FactorSweep, the law a chain of proposals or of frozen draws leaves     *)
(* (ChainLaw), the selection of a plan's proposal blocks and the loop that *)
(* runs them (Proposals), and the log determinants a density needs at      *)
(* every draw (LogDet) over two points, at one of which warmup measures.   *)
(* One of them is looked at at a time; the others are as they begin.       *)
(***************************************************************************)
EXTENDS Trace, FactorSweep, ChainLaw, Proposals, LogDet

CONSTANTS a, b, c, y, z

ThreeLatents == <<a, b, c>>

Shapes == {s \in [reach : [Observed -> SUBSET LatentSet],
                  sigma : [Observed -> SUBSET LatentSet]] :
             \A o \in Observed : s.sigma[o] \subseteq s.reach[o]}

\* Which latents are affine, and which pairs of them are affine together.
Affinities == {p \in (SUBSET LatentSet) \X (SUBSET Pairs) :
                 \A pair \in p[2] : pair \subseteq p[1]}

Fact(s, linear, log, translated, ancestors, covered, probed) ==
  [reach |-> s.reach, sigma |-> s.sigma, ancestors |-> ancestors, covered |-> covered,
   linear |-> linear[1], together |-> linear[2], probed |-> probed,
   translated |-> translated, logLinear |-> log[1], logTogether |-> log[2]]

All == <<LatentSet, Pairs>>
None == <<{}, {}>>
One == <<{a}, {}>>

\* Partitioning: everything a model of one observed node may be; where the joint
\* probes fail, or one latent is over another, or one under evidence, all of the
\* latents are affine in the logarithm or none is.
PartitionFacts ==
  {Fact(s, l, x[4], t, x[1], x[2], x[3]) :
     s \in {shape \in Shapes : shape.reach[z] = {}}, l \in Affinities, t \in SUBSET {y},
     x \in {<<{}, {}, TRUE, g>> : g \in Affinities} \cup
           {<<w[1], w[2], w[3], g>> : w \in {<<{}, {}, FALSE>>, <<{a}, {}, TRUE>>, <<{}, {a}, TRUE>>},
                                     g \in {All, None}}}

\* Sweeping: latents that are roots, affine or not, one under evidence or not,
\* the third with data at one node only, and one observed node whose covariance
\* may depend on the other two.
SweepShapes ==
  {s \in Shapes : /\ s.sigma[z] = {} /\ c \notin s.sigma[y]
                  /\ c \in s.reach[y] \ s.reach[z]
                  /\ s.reach[z] # {}}

SweepFacts ==
  {Fact(s, l, g, t, {}, v, TRUE) :
     s \in SweepShapes, l \in {All, None}, g \in {All, None, One},
     t \in SUBSET Observed, v \in {{}, {a}}}

SomeFacts == {PartitionFacts, SweepFacts}

\* Declared tables: everything in one block, or two blocks that fit, overlap or
\* leave a latent out.
Method == {"gcr", "log-gcr", "nuts"}
SomeTables ==
  {<<Block(LatentSet, m)>> : m \in Method}
    \cup {<<Block(n, m), Block({b}, k)>> : n \in {{a}, {a, c}, {b, c}}, m, k \in Method}

-----------------------------------------------------------------------------
VARIABLE subject

-----------------------------------------------------------------------------
\* Two latents of two values: joint densities with holes, and everything a
\* block of a alone may prefer.
Targets == {t \in [S -> 0 .. 2] : t[0] > 0}
Positive(t) == {x \in S : t[x] > 0}

ChainBlock(names, prefers, broken, corrected, steps) ==
  [names |-> names, prefers |-> prefers, broken |-> broken, corrected |-> corrected, steps |-> steps]

PrefersA == {[x \in S |-> State(f[x], B(x))] : f \in [S -> {0, 1}]}
PrefersB == {[x \in S |-> State(A(x), IF A(x) = B(x) THEN v ELSE Flip(v))] : v \in {0, 1}}

Proposals(kind, target, support, blocks, shifts) ==
  [kind |-> kind, target |-> target, support |-> support, blocks |-> blocks, shifts |-> shifts]

\* A block of a, NUTS on b; a block of each, the second not always corrected; one
\* block of both.
Alone ==
  {{Proposals("interleaved", t, Positive(t), <<ChainBlock({"a"}, p, k, TRUE, n)>>, h) :
      p \in PrefersA, k \in {{}, {1}}, n \in 1 .. 2, h \in BOOLEAN} : t \in Targets}

TwoBlocks ==
  {{Proposals("proposal", t, S, <<ChainBlock({"a"}, p, k, TRUE, 1), ChainBlock({"b"}, q, {}, h, 2)>>, FALSE) :
      p \in PrefersA, k \in {{}, {1}}, q \in PrefersB, h \in BOOLEAN} : t \in Targets}

Jointly ==
  {{Proposals("proposal", t, S, <<ChainBlock({"a", "b"}, [x \in S |-> IF x \in m THEN u ELSE w], k, TRUE, 1)>>, FALSE) :
      m \in SUBSET {0, 1, 3}, u, w \in S, k \in {{}, {1}}} : t \in Targets}

Prefer(v) == [x \in {0, 1} |-> IF x = v THEN 2 ELSE 1]
Solutions == [{0, 1} -> [{0, 1} -> {Prefer(0), Prefer(1)}]]
Noises == [{0, 1} -> {0, 1}]

Frozen(method, target, noise, rebuild, solved) ==
  [kind |-> "gibbs", target |-> target, blocks |-> <<>>, shifts |-> FALSE,
   method |-> method, noise |-> noise, rebuild |-> rebuild, solved |-> solved]

\* Drawn as they are: the joint density is the one the solve says, at b's own
\* covariance, which is rebuilt there or does not move.
Conjugate ==
  {Frozen("gcr", [x \in S |-> w[B(x)] * s[B(x)][n[B(x)]][A(x)]], n, n[0] # n[1], s) :
     w \in [{0, 1} -> 1 .. 2], s \in Solutions, n \in Noises}

\* Accepted or rejected: the solve may say anything.
Corrected ==
  {{Frozen("gcr+mh", t, n, r, s) : n \in {[v \in {0, 1} |-> v]}, r \in BOOLEAN, s \in Solutions} : t \in Targets}

SomeChains == Alone \cup TwoBlocks \cup Jointly \cup {Conjugate} \cup Corrected

-----------------------------------------------------------------------------
\* Three latents and two data nodes, the first read by everything.
Model(seed, prior, under, reads, curved, logged, confounded) ==
  [standard |-> TRUE, point |-> TRUE, moving |-> TRUE, seed |-> seed, prior |-> prior,
   size |-> [l \in LatentSet |-> IF l = c THEN 2 ELSE 1], under |-> under, reads |-> reads,
   moves |-> reads, logged |-> logged, curved |-> curved, confounded |-> confounded]

Curved(log, linear) == [m \in {"bias_corrected_log_linear", "iterative_gls"} |->
                          IF m = "iterative_gls" THEN linear ELSE log]

\* Only one latent is discrete, and only where it is no block's.
Priors == {p \in [LatentSet -> {"normal", "uniform", "discrete"}] : p[b] # "discrete" /\ p[c] # "discrete"}

Structured ==
  {Model(s, p, [l \in LatentSet |-> IF l = c THEN u ELSE {}], [o \in Observed |-> IF o = y THEN LatentSet ELSE r],
         Curved(g, f), d, x) :
     s \in {{}, {b}, {b, c}}, p \in Priors, u \in {{}, {a}}, r \in {{}, {a}},
     g \in {{}, {{a}, {b, c}}}, f \in {{}, {{a, b}}, {{a}, {c}}}, d \in {{}, {y}, Observed},
     x \in {{}, {{b, c}}}}

Plain == Model({b}, [l \in LatentSet |-> "normal"], [l \in LatentSet |-> {}], [o \in Observed |-> LatentSet],
               Curved({}, {}), Observed, {})

\* What is not select_proposals' to choose, and latents that move no mean.
Barred == {[Plain EXCEPT !.standard = FALSE], [Plain EXCEPT !.point = FALSE], [Plain EXCEPT !.moving = FALSE]}
Unmoving == {[Plain EXCEPT !.moves = m] : m \in {[o \in Observed |-> s] : s \in SUBSET LatentSet}}

SomeSelections == {Structured, Barred, Unmoving}

-----------------------------------------------------------------------------
Orders2 == [p \in {0, 1} \X {1, 2} |-> p[1] * p[2]]

-----------------------------------------------------------------------------
NoChain == Proposals("proposal", [x \in S |-> 1], S, <<>>, FALSE)
Unstructured == Plain
Quiet == CHOOSE f \in SweepFacts : TRUE

NoLaw == chain = NoChain /\ law = NoChain.target
NoCollect == collect = Called(CHOOSE p \in Loop!Policy : TRUE, FALSE)
NoSelection == model = Unstructured /\ choice = Undecided

NoLogDet == NoLadder /\ NoWorld

NoTrace ==
  /\ crew = Threads /\ stack = <<>> /\ recorders = <<>> /\ outcome = <<>>
  /\ frames = [t \in Threads |-> <<>>] /\ call = [t \in Threads |-> NoCall]

SamplersInit ==
  \/ subject = "sweep" /\ Init /\ NoLaw /\ NoCollect /\ NoSelection /\ NoLogDet /\ NoTrace
  \/ /\ Fresh /\ facts = Quiet
     /\ \/ subject = "law" /\ LawInit /\ NoCollect /\ NoSelection /\ NoLogDet /\ NoTrace
        \/ subject = "loop" /\ NoLaw /\ CollectInit /\ NoSelection /\ NoLogDet /\ NoTrace
        \/ subject = "selection" /\ NoLaw /\ SelectInit /\ NoCollect /\ NoLogDet /\ NoTrace
        \/ subject = "determinant" /\ NoLaw /\ NoCollect /\ NoSelection /\ LogDetInit /\ NoTrace
        \/ subject = "trace" /\ NoLaw /\ NoCollect /\ NoSelection /\ NoLogDet /\ TraceInit

SamplersNext ==
  /\ UNCHANGED subject
  /\ \/ /\ subject = "sweep" /\ Next
        /\ UNCHANGED <<chain, law, collect, model, choice, logDetVars, traceVars>>
     \/ /\ subject = "law" /\ Draw
        /\ UNCHANGED <<vars, collect, model, choice, logDetVars, traceVars>>
     \/ /\ subject = "loop" /\ CollectNext
        /\ UNCHANGED <<vars, chain, law, model, choice, logDetVars, traceVars>>
     \/ /\ subject = "selection" /\ SelectNext
        /\ UNCHANGED <<vars, chain, law, collect, logDetVars, traceVars>>
     \/ /\ subject = "determinant" /\ LogDetNext
        /\ UNCHANGED <<vars, chain, law, collect, model, choice, traceVars>>
     \/ /\ subject = "trace" /\ TraceNext
        /\ UNCHANGED <<vars, chain, law, collect, model, choice, logDetVars>>

SamplersSpec ==
  SamplersInit
    /\ [][SamplersNext]_<<subject, vars, chain, law, collect, model, choice, logDetVars, traceVars>>
=============================================================================
