----------------------------- MODULE Preflight -----------------------------
(***************************************************************************)
(* dispatch/preflight.py and dispatch/initialization.py: what a posterior   *)
(* task is told about its graph before it samples. A diagnostic point is    *)
(* drawn, the expected information of the likelihood is looked at there,    *)
(* once over all latents and once per block of the plan, at a second point  *)
(* where only the block has moved, and each look ends in a finding. The     *)
(* graph is a polynomial in two latents, so that every information matrix   *)
(* can be computed and a finding compared with what is so.                  *)
(***************************************************************************)
EXTENDS Integers, Sequences, FiniteSetsExt

CONSTANTS
  Coordinate,    \* bound: values of a latent
  MaxAttempts,   \* InitializationPolicy.max_attempts
  Bands,         \* bound: roundoff bands of two determinants, in units of one
  Inquiries      \* families of graphs, and what their callers say of them

ASSUME PreflightAssumption ==
  Coordinate \subseteq 0 .. 3 /\ MaxAttempts \in Nat \ {0} /\ Bands \subseteq Nat

Inspected == {"x", "w"}
Locations == [Inspected -> Coordinate]
Other(l) == IF l = "x" THEN "w" ELSE "x"

\* A row of the prediction: linear, quadratic and joint terms of the latents.
MaxRows == 3       \* bound: rows of a graph
Rows == [linear : [Inspected -> Int], square : [Inspected -> Int], joint : Int]
Families == {"gaussian", "bernoulli", "pareto"}

IsInquiry(q) ==
  /\ q.rows \in Seq(Rows) /\ Len(q.rows) \in 1 .. MaxRows
  /\ q.blocks \in Seq(SUBSET Inspected) /\ q.blocks # <<>> /\ \A i \in DOMAIN q.blocks : q.blocks[i] # {}
  /\ Len(q.supplied) \in Nat \ {0}   \* at least one chain is started
  /\ q.family \in Families /\ q.opaque \subseteq Inspected
  /\ q.policy.parameters \in Nat /\ q.policy.elements \in Nat /\ q.policy.prior \in Nat

ASSUME InquiriesAssumption == \A F \in Inquiries : \A q \in F : IsInquiry(q)

NoBand == 99       \* a condition number past which the band is no number

VARIABLES
  examined,    \* the graph, its plan, the task and its policies
  looking,     \* what is looked at: the anchor, the joint geometry, a question of a block ...
  draw,        \* complete_initial_values at work: chain, attempts, the points it has
  anchor,      \* the diagnostic point
  reported,    \* the findings of the report, in their order
  formed       \* elements of the largest matrix that was built

preflightVars == <<examined, looking, draw, anchor, reported, formed>>

\* A finding is about the graph, or about a block; so is a look.
Says(about, block, status) == [about |-> about, block |-> block, status |-> status]
LooksAt(question, block) == [question |-> question, block |-> block]
NoPlace == [l \in {} |-> 0]

-----------------------------------------------------------------------------
\* The prediction of a row and its derivatives.
Slope(row, l, at) == row.linear[l] + 2 * row.square[l] * at[l] + row.joint * at[Other(l)]
Prediction(row, at) ==
  row.linear["x"] * at["x"] + row.square["x"] * at["x"] * at["x"] + row.linear["w"] * at["w"]
    + row.square["w"] * at["w"] * at["w"] + row.joint * at["x"] * at["w"]

Slopes(at) == [r \in DOMAIN examined.rows |-> [l \in Inspected |-> Slope(examined.rows[r], l, at)]]

\* What differentiation returns: a rule that is not the derivative says nothing
\* moves.
Derivatives(at) ==
  [r \in DOMAIN examined.rows |-> [l \in Inspected |-> IF l \in examined.opaque THEN 0 ELSE Slopes(at)[r][l]]]

\* The expected information of one row about what it predicts: the precision of a
\* Gaussian, the variance of a Bernoulli at its logit, one of a Pareto at the
\* logarithm of its shape.
Doubled == <<1, 2, 4, 8>>
GaussianWeight(at) == IF "noisy" \in examined.traits THEN Doubled[at["x"] + 1] ELSE 1
BernoulliWeight(logit) == IF logit = 0 THEN 4 ELSE IF logit \in {1, -1} THEN 3 ELSE 1
RowWeight(row, at) ==
  IF examined.family = "gaussian" THEN GaussianWeight(at)
  ELSE IF examined.family = "bernoulli" THEN BernoulliWeight(Prediction(row, at)) ELSE 1

Seen == DOMAIN examined.rows \ examined.masked
OverRows(f) == f[1] + f[2] + f[3]

\* How the logarithm of a weight moves with a latent, in units of one doubling.
Loudness(l) == IF examined.family = "gaussian" /\ "noisy" \in examined.traits /\ l = "x" THEN 1 ELSE 0

\* (bug) the covariance is there whether a sample was taken or not
SpectrumSlope_Unmasked(r, l) == IF r \in DOMAIN examined.rows THEN Loudness(l) ELSE 0

\* MaskedPrecision.log_spectrum: of an unseen sample it is a constant.
SpectrumSlope(r, l) == IF r \in Seen THEN Loudness(l) ELSE 0

\* _log_spectrum_curvature: its slopes, squared over the samples.
SpectrumCurvature(l, k) == OverRows([r \in 1 .. MaxRows |-> SpectrumSlope(r, l) * SpectrumSlope(r, k)])

Weighing(at) == [r \in 1 .. MaxRows |-> IF r \in Seen THEN RowWeight(examined.rows[r], at) ELSE 0]
InformationAt(names, at, slopes) ==
  [l \in names |-> [k \in names |->
     SpectrumCurvature(l, k)
       + OverRows([r \in 1 .. MaxRows |->
           IF r \in DOMAIN examined.rows THEN Weighing(at)[r] * (slopes[r][l] * slopes[r][k]) ELSE 0])]]

-----------------------------------------------------------------------------
\* complete_initial_values. A prior draw lies in its support; a value the caller
\* supplied is put in its place as it is, and may not.
InSupport(at) == "ordered" \in examined.traits => at["w"] >= at["x"]
Finite(at)    == "singular" \in examined.traits => at["x"] # 0

Supplied(purpose, chain) ==
  IF purpose = 0   \* the anchor
  THEN examined.supplied[chain]
  ELSE [l \in Inspected \ examined.blocks[purpose] |-> anchor[l]]

Candidates(supplied) ==
  {at \in Locations : /\ \A l \in DOMAIN supplied : at[l] = supplied[l]
                      /\ "w" \in DOMAIN supplied \/ InSupport(at)
                      /\ \A l \in DOMAIN supplied : supplied[l] \in Coordinate}

StartDraw(purpose, chains) ==
  [purpose |-> purpose, chains |-> chains, attempt |-> 1, points |-> <<>>, attempts |-> <<>>,
   state |-> IF examined.start = "fine" THEN "drawing" ELSE "failed"]
NoDraw == [purpose |-> 0, chains |-> 0, attempt |-> 0, points |-> <<>>, attempts |-> <<>>, state |-> "idle"]

\* One attempt at a point for the next chain.
Attempt ==
  /\ draw.state = "drawing"
  /\ LET chain == Len(draw.points) + 1
         last  == draw.attempt = MaxAttempts
     IN \/ \E at \in Candidates(Supplied(draw.purpose, chain)) :
             IF InSupport(at) /\ Finite(at)
             THEN draw' = [draw EXCEPT !.points = Append(@, at), !.attempts = Append(@, draw.attempt), !.attempt = 1,
                                       !.state = IF chain = draw.chains THEN "found" ELSE "drawing"]
             ELSE draw' = [draw EXCEPT !.attempt = @ + 1, !.state = IF last THEN "failed" ELSE "drawing"]
        \/ /\ Candidates(Supplied(draw.purpose, chain)) = {}
           /\ draw' = [draw EXCEPT !.attempt = @ + 1, !.state = IF last THEN "failed" ELSE "drawing"]
  /\ UNCHANGED <<examined, looking, anchor, reported, formed>>

-----------------------------------------------------------------------------
\* What the trace of the program says of a block: that no derivative rule in it
\* is unknown, and that the mean is affine in it and the covariance is without it.
Trusted(names) == names \cap examined.opaque = {} /\ examined.trouble # "not differentiable"

AffineIn(names) ==
  \A r \in DOMAIN examined.rows :
    /\ \A l \in names : examined.rows[r].square[l] = 0
    /\ examined.rows[r].joint # 0 => names # Inspected

\* (bug) a covariance that moves with the block is not looked at
Certified_Mean(names) ==
  /\ examined.family = "gaussian" /\ examined.trouble \notin {"data read data", "not differentiable"}
  /\ Trusted(names) /\ AffineIn(names)

\* gaussian_flatness_certificate.
Certified(names) ==
  /\ examined.family = "gaussian" /\ examined.trouble \notin {"data read data", "not differentiable"}
  /\ Trusted(names) /\ AffineIn(names) /\ ("noisy" \in examined.traits => "x" \notin names)

\* A probability clipped at an end has no logit; a Pareto has an information only
\* by trusted rules and under a cutoff that does not move.
RefusesBernoulli(at)  == examined.trouble = "clipped" /\ at["x"] = 0
RefusesPareto(names) == ~Trusted(names) \/ (examined.trouble = "moving cutoff" /\ "x" \in names)

\* likelihood_information and the routes it takes: what each refuses.
RefusesInformation(names, at) ==
  \/ examined.trouble \in {"float32", "mixed families", "data read data"}
  \/ examined.family # "gaussian" /\ examined.trouble = "not differentiable"
  \/ examined.family = "bernoulli" /\ RefusesBernoulli(at)
  \/ examined.family = "pareto" /\ RefusesPareto(names)

Determinant(names, M) ==
  IF names = {"x"} THEN M["x"]["x"] ELSE IF names = {"w"} THEN M["w"]["w"]
  ELSE M["x"]["x"] * M["w"]["w"] - M["x"]["w"] * M["w"]["x"]

\* The determinant _geometry returns, none where the rank is short of it.
NoDeterminant == 0 - 1
Geometry(names, at) ==
  LET d == Determinant(names, InformationAt(names, at, Derivatives(at))) IN IF d > 0 THEN d ELSE NoDeterminant

Breadth(names) == IF names = Inspected THEN 2 ELSE 1

\* (bug) only the square matrix is within the budget
Allowed_Square(names) ==
  Breadth(names) <= examined.policy.parameters /\ Breadth(names) * Breadth(names) <= examined.policy.elements

Elements(names) == Max({Breadth(names) * Len(examined.rows), Breadth(names) * Breadth(names)})
Allowed(names) == Breadth(names) <= examined.policy.parameters /\ Elements(names) <= examined.policy.elements

Form(names) == formed' = Max({formed, Elements(names)})

-----------------------------------------------------------------------------
BlockNumbers == DOMAIN examined.blocks

\* The run a collapse is asked of: that of the plan behind a factor partition.
BehindTwo == examined.plan \in {"two blocks", "factor over two blocks"}
CollapseRuns == "collapse" \in examined.traits /\ BehindTwo

\* The latent_treatment finding looks at the plan in hand, which a factor
\* partition is, and has no one exact block.
TreatmentMode == IF "collapse" \in examined.traits /\ examined.plan = "two blocks" THEN "conditional_reconstruction" ELSE "joint_sampling"

Begin ==
  /\ looking = LooksAt("nothing", 0)
  /\ IF "disabled" \in examined.traits
     THEN /\ reported' = <<Says("automatic", 0, "disabled")>> /\ looking' = LooksAt("done", 0) /\ UNCHANGED draw
     ELSE /\ reported' = <<Says("prior_policy", 0, "passed")>>
                           \o (IF "hierarchical" \in examined.traits THEN <<Says("treatment", 0, TreatmentMode)>> ELSE <<>>)
          /\ looking' = LooksAt("anchor", 0) /\ draw' = StartDraw(0, Len(examined.supplied))
  /\ UNCHANGED <<examined, anchor, formed>>

\* Without a point nothing is looked at, and a finding per question says so.
NoAnchor ==
  /\ looking = LooksAt("anchor", 0) /\ draw.state = "failed"
  /\ reported' = reported \o (<<Says("initial_point", 0, "unresolved"), Says("joint", 0, "unresolved")>>
                               \o [i \in BlockNumbers |-> Says("jeffreys", i, "unresolved")])
  /\ looking' = LooksAt("done", 0) /\ draw' = NoDraw
  /\ UNCHANGED <<examined, anchor, formed>>

Anchor ==
  /\ looking = LooksAt("anchor", 0) /\ draw.state = "found"
  /\ anchor' = draw.points[1] /\ draw' = NoDraw /\ looking' = LooksAt("joint", 0)
  /\ reported' = reported \o <<Says("initial_point", 0, "passed"), Says("budget", 0, "passed")>>
  /\ UNCHANGED <<examined, formed>>

\* (bug) a rank is a rank
JointStatus_Untrusted(d) == IF d # NoDeterminant THEN "passed" ELSE "rank_deficient"

JointStatus(d) ==
  IF ~Trusted(Inspected) THEN "unresolved" ELSE IF d # NoDeterminant THEN "passed" ELSE "rank_deficient"

JointGeometry ==
  /\ looking = LooksAt("joint", 0)
  /\ LET say(status) == reported' = Append(reported, Says("joint", 0, status))
     IN IF ~Allowed(Inspected) THEN say("skipped_budget") /\ UNCHANGED formed
        ELSE IF RefusesInformation(Inspected, anchor) THEN say("unresolved") /\ UNCHANGED formed
        ELSE say(JointStatus(Geometry(Inspected, anchor))) /\ Form(Inspected)
  /\ looking' = LooksAt("jeffreys", 1)
  /\ UNCHANGED <<examined, draw, anchor>>

-----------------------------------------------------------------------------
\* What a block's look ends in, and the question after it.
Concludes(i, status) ==
  /\ reported' = Append(reported, Says("jeffreys", i, status))
  /\ looking' = LooksAt("shift", i)

\* The information of a block where the analysis stands. Where it has a
\* determinant a second point is drawn, at which only the block has moved.
JeffreysAtAnchor(i) ==
  /\ looking = LooksAt("jeffreys", i)
  /\ LET names == examined.blocks[i]
     IN IF ~Allowed(names)
        THEN Concludes(i, "skipped_budget") /\ UNCHANGED <<draw, formed>>
        ELSE IF RefusesInformation(names, anchor)
        THEN Concludes(i, "unresolved") /\ UNCHANGED <<draw, formed>>
        ELSE IF Geometry(names, anchor) = NoDeterminant
        THEN Concludes(i, IF Trusted(names) THEN "rank_deficient" ELSE "unresolved") /\ Form(names) /\ UNCHANGED draw
        ELSE /\ draw' = StartDraw(i, 1) /\ Form(names)
             /\ looking' = LooksAt("probe", i) /\ UNCHANGED reported
  /\ UNCHANGED <<examined, anchor>>

\* Two determinants, and a band within which they are the same.
FlatnessStatus(names, here, there, band) ==
  LET compared == there # NoDeterminant /\ band # NoBand
      apart    == compared /\ (here - there > band \/ there - here > band)
  IN IF Certified(names) /\ compared /\ ~apart THEN "flat"
     ELSE IF Trusted(names) /\ apart THEN "nonflat" ELSE "unresolved"

JeffreysAtProbe(i) ==
  /\ looking = LooksAt("probe", i) /\ draw.state \in {"found", "failed"}
  /\ LET names == examined.blocks[i]
     IN IF draw.state = "failed" \/ RefusesInformation(names, draw.points[1])
        THEN Concludes(i, "unresolved") /\ UNCHANGED formed
        ELSE \E band \in Bands \cup {NoBand} :
               /\ Concludes(i, FlatnessStatus(names, Geometry(names, anchor), Geometry(names, draw.points[1]), band))
               /\ Form(names)
  /\ draw' = NoDraw
  /\ UNCHANGED <<examined, anchor>>

\* (bug) a mask is no reason
ShiftIsAsked_Masked(names) == examined.factors = {}

ShiftIsAsked(names) == examined.factors = {} /\ examined.masked = {}

\* prior_sensitivity of one block; its own verdict may be any.
PriorShift(i) ==
  /\ looking = LooksAt("shift", i)
  /\ LET names == examined.blocks[i]
         say(status) == reported' = Append(reported, Says("shift", i, status))
     IN IF Breadth(names) > examined.policy.prior \/ ~Allowed(names) THEN say("skipped_budget")
        ELSE IF ~(names \subseteq examined.normal) THEN say("not_applicable")
        ELSE IF ~ShiftIsAsked(names) THEN say("unresolved")
        ELSE \E status \in {"unresolved", "passed", "failed"} : say(status)
  /\ looking' = IF i + 1 \in BlockNumbers THEN LooksAt("jeffreys", i + 1) ELSE LooksAt("order", 0)
  /\ UNCHANGED <<examined, draw, anchor, formed>>

Order ==
  /\ looking = LooksAt("order", 0)
  /\ reported' = Append(reported, Says("order", 0, IF CollapseRuns THEN "marginal_nuts_then_conditional_reconstruction"
                                                     ELSE "fixed_compiler_order"))
  /\ looking' = LooksAt("done", 0)
  /\ UNCHANGED <<examined, draw, anchor, formed>>

-----------------------------------------------------------------------------
Unexamined == looking = LooksAt("nothing", 0) /\ draw = NoDraw /\ anchor = NoPlace /\ reported = <<>> /\ formed = 0
PreflightInit == (\E F \in Inquiries : examined \in F) /\ Unexamined

PreflightNext ==
  \/ Begin \/ Attempt \/ NoAnchor \/ Anchor \/ JointGeometry \/ Order
  \/ \E i \in BlockNumbers : JeffreysAtAnchor(i) \/ JeffreysAtProbe(i) \/ PriorShift(i)

PreflightSpec == PreflightInit /\ [][PreflightNext]_preflightVars

-----------------------------------------------------------------------------
\* What is so: each row that was seen informs of its mean, by true derivatives,
\* and of its noise; one that was not informs of nothing.
RowInformation(r, l, k, at) ==
  RowWeight(examined.rows[r], at) * (Slopes(at)[r][l] * Slopes(at)[r][k]) + Loudness(l) * Loudness(k)
TrueInformation(names, at) ==
  [l \in names |-> [k \in names |-> OverRows([r \in 1 .. MaxRows |-> IF r \in Seen THEN RowInformation(r, l, k, at) ELSE 0])]]
TrueDeterminant(names, at) == Determinant(names, TrueInformation(names, at))
SameElsewhere(names, at) == \A l \in Inspected \ names : at[l] = anchor[l]

\* Every start keeps what its chain was given, lies in the support, and has a
\* density.
StartsAreStarts ==
  /\ Len(draw.points) <= draw.chains
  /\ \A c \in DOMAIN draw.points :
       /\ InSupport(draw.points[c]) /\ Finite(draw.points[c]) /\ draw.attempts[c] \in 1 .. MaxAttempts
       /\ LET kept == Supplied(draw.purpose, c) IN \A l \in DOMAIN kept : draw.points[c][l] = kept[l]

\* A finding about a rank is about the rank at the anchor, and where the information
\* could be had there no short rank is left unresolved; a block called flat has
\* one information wherever it moves, and one called nonflat has another where
\* only the block has moved.
GeometryIsSo(f) ==
  LET names == IF f.about = "joint" THEN Inspected ELSE examined.blocks[f.block]
  IN /\ f.status = "rank_deficient" => TrueDeterminant(names, anchor) = 0
     /\ f.status \in {"passed", "flat", "nonflat"} => TrueDeterminant(names, anchor) # 0
     /\ f.status = "unresolved" /\ anchor \in Locations /\ Trusted(names) /\ ~RefusesInformation(names, anchor) =>
          TrueDeterminant(names, anchor) # 0
     /\ f.status = "flat" =>
          \A at \in Locations : SameElsewhere(names, at) => TrueInformation(names, at) = TrueInformation(names, anchor)
     /\ f.status = "nonflat" =>
          \E at \in Locations : SameElsewhere(names, at) /\ TrueDeterminant(names, at) # TrueDeterminant(names, anchor)

\* What a posterior task is told before it samples is so. Besides: a prior shift
\* is measured only where it is one, no matrix past the budget is built, the
\* order is that of the run, and each question is answered once.
FindingsAreSo ==
  /\ StartsAreStarts
  /\ formed <= examined.policy.elements
  /\ \A n \in DOMAIN reported :
       LET f == reported[n]
       IN /\ f.about \in {"joint", "jeffreys"} => GeometryIsSo(f)
          /\ f.about = "shift" /\ f.status \in {"passed", "failed"} =>
               examined.factors = {} /\ examined.masked = {} /\ examined.blocks[f.block] \subseteq examined.normal
          /\ f.about = "order" =>
               (f.status = "fixed_compiler_order" <=> ~("collapse" \in examined.traits /\ BehindTwo))
          /\ \A k \in DOMAIN reported : reported[k].about = f.about /\ reported[k].block = f.block => k = n
  /\ looking.question = "done" /\ "disabled" \notin examined.traits =>
       \A i \in BlockNumbers : \E n \in DOMAIN reported : reported[n].about = "jeffreys" /\ reported[n].block = i
=============================================================================
