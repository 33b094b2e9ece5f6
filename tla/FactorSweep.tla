----------------------------- MODULE FactorSweep -----------------------------
(***************************************************************************)
(* dispatch/factor.py: sweeping a factor plan. sample_factors draws each   *)
(* exact block in turn given the latest values of all the others, and      *)
(* leaves the rest to NUTS; estimate_factors solves where it draws. Values *)
(* are time stamps: a latent's value is the step that last wrote it, 0 for *)
(* the prior centre, so that what a draw has read can be told.             *)
(***************************************************************************)
EXTENDS Naturals, Sequences, FiniteSets

-----------------------------------------------------------------------------
(***************************************************************************)
(* dispatch/factor.py and dispatch/affinity.py: which latents a model's    *)
(* structure lets the Gibbs sweep solve in closed form, and in which       *)
(* blocks. What the certificates and the numerical probes find out about a *)
(* model is a record of facts; how the blocks follow from it is modelled.  *)
(***************************************************************************)

CONSTANTS
  Latents,    \* the latents, in declaration order
  Observed    \* the observed nodes

LatentSet == {Latents[i] : i \in DOMAIN Latents}

\* Every latent is declared once.
ASSUME LatentsAssumption ==
  /\ Latents \in Seq(LatentSet)
  /\ \A i, j \in DOMAIN Latents : Latents[i] = Latents[j] => i = j

Pairs == {p \in SUBSET LatentSet : \E x, y \in p : x # y /\ p = {x, y}}

(***************************************************************************)
(* A model's facts:                                                        *)
(*   reach       the latents an observed node descends from;               *)
(*   sigma       those of them that its covariance reads;                  *)
(*   ancestors   the latents another latent's distribution descends from;  *)
(*   covered     the latents a graph-level evidence term is over;          *)
(*   linear      the latents affine, Gaussian and certified on their own,  *)
(*   together    the pairs of them affine jointly;                         *)
(*   probed      do the numerical probes of a joint group agree?           *)
(*   translated  the observed nodes that have a log-Gaussian reading;      *)
(*   logLinear, logTogether   as linear and together, on the log graph.    *)
(***************************************************************************)

\* The entries of a sequence that are in a set, in their order.
Only(seq, set) ==
  LET among[n \in 0 .. Len(seq)] ==
        IF n = 0 THEN <<>>
        ELSE IF seq[n] \in set THEN Append(among[n - 1], seq[n]) ELSE among[n - 1]
  IN among[Len(seq)]

\* (bug) a name joins a group for one member's sake
Joint_One(pairs, group, name) == \E member \in group : {member, name} \in pairs

\* Affine on their own, names are affine together exactly pairwise.
Joint(pairs, group, name) == \A member \in group : {member, name} \in pairs

\* The first group the name may join, or a new one.
Place(groups, name, pairs) ==
  LET fit == {i \in DOMAIN groups : Joint(pairs, groups[i], name)}
  IN IF fit = {} THEN Append(groups, {name})
     ELSE LET first == CHOOSE i \in fit : \A j \in fit : i <= j
          IN [groups EXCEPT ![first] = @ \cup {name}]

\* first_fit: a greedy colouring of some of the latents, in declaration order.
FirstFit(names, pairs) ==
  LET after[n \in 0 .. Len(Latents)] ==
        IF n = 0 THEN <<>>
        ELSE IF Latents[n] \in names THEN Place(after[n - 1], Latents[n], pairs) ELSE after[n - 1]
  IN after[Len(Latents)]

\* discover_affinity: certified candidates in certified groups; a joint group
\* the probes do not confirm is dropped whole.
Candidates(f) == f.linear \ (f.covered \cup f.ancestors)

LinearGroups(f) ==
  Only(FirstFit(Candidates(f), f.together),
       {group \in SUBSET LatentSet : Cardinality(group) = 1 \/ f.probed})

Members(groups) == UNION {groups[i] : i \in DOMAIN groups}

\* (bug) a latent may reach data that log_space left as they were
LogAlone_Anywhere(f) == f.logLinear

\* log_alone: affine in the log graph, and everything it reaches is translated.
LogAlone(f) ==
  {x \in f.logLinear : \A o \in Observed : x \in f.reach[o] => o \in f.translated}

\* (bug) the log pass looks again at what the linear one placed
Remaining_All(f) == LatentSet \ f.ancestors

\* The log pass takes what remains of the linear one, if log_space translates
\* anything at all.
Remaining(f) ==
  IF f.translated = {} THEN {}
  ELSE LatentSet \ (f.ancestors \cup Members(LinearGroups(f)))

LogGroups(f) == FirstFit(Remaining(f) \cap LogAlone(f), f.logTogether)

\* (bug) the movement of sigma is not looked at
SigmaMoves_Ignored(f, group) == FALSE

\* Does the covariance move with the group's own members?
SigmaMoves(f, group) == \E o \in Observed : f.sigma[o] \cap group # {}

Block(latents, method) == [latents |-> latents, method |-> method]
Blocks(groups, method) == [i \in DOMAIN groups |-> Block(groups[i], method)]

\* The blocks of factor_partition: linear, then log, then what neither solved.
Solved(f) ==
  Blocks(Only(LinearGroups(f), {g \in SUBSET LatentSet : ~SigmaMoves(f, g)}), "gcr")
    \o Blocks(LogGroups(f), "log-gcr")

Unsolved(f) == LatentSet \ UNION {Solved(f)[i].latents : i \in DOMAIN Solved(f)}

DerivedBlocks(f) ==
  Solved(f) \o (IF Unsolved(f) = {} THEN <<>> ELSE <<Block(Unsolved(f), "nuts")>>)

\* FactorPlan.exact and FactorPlan.nuts.
Exact(plan) == Only(plan, {plan[i] : i \in {j \in DOMAIN plan : plan[j].method # "nuts"}})
Nuts(plan) == UNION {plan[i].latents : i \in {j \in DOMAIN plan : plan[j].method = "nuts"}}

\* (bug) an exact block may solve a latent an evidence term is over
WithinBoundary_Always(f, plan) == TRUE

\* check_evidence_nuts_boundary.
WithinBoundary(f, plan) == f.covered \subseteq Nuts(plan)

\* declared_partition's bookkeeping: each latent in one block of a known
\* method, and at most one block for NUTS.
Declarable(plan) ==
  /\ \A i \in DOMAIN plan : plan[i].latents # {} /\ plan[i].latents \subseteq LatentSet
  /\ \A i \in DOMAIN plan : plan[i].method \in {"gcr", "log-gcr", "nuts"}
  /\ \A i, j \in DOMAIN plan : i # j => plan[i].latents \cap plan[j].latents = {}
  /\ UNION {plan[i].latents : i \in DOMAIN plan} = LatentSet
  /\ Cardinality({i \in DOMAIN plan : plan[i].method = "nuts"}) <= 1

-----------------------------------------------------------------------------

CONSTANTS
  Facts,        \* families of models considered
  Probe,        \* an observed node; see Swept
  Tables,       \* the block tables a caller may declare
  NumWarmup, NumSamples

\* A covariance reads what its node descends from; a table is a list of blocks.
ASSUME FactsAssumption ==
  \A family \in Facts : \A f \in family : \A o \in Observed : f.sigma[o] \subseteq f.reach[o]
ASSUME TablesAssumption == \A t \in Tables : t \in Seq({t[i] : i \in DOMAIN t})
ASSUME ProbeAssumption == Probe \in Observed
ASSUME CountsAssumption == NumWarmup \in Nat /\ NumSamples \in Nat

VARIABLES
  facts,        \* the model
  origin,       \* "none", "derived" or "declared"
  plan,         \* FactorPlan.blocks
  mode,         \* "sample", "estimate" or "none"
  phase,        \* "planning", "planned", "refused", "sweep", "remainder", "done"
  turn,         \* position of the next exact block of this sweep
  swept,        \* sweeps completed
  values,       \* the stamp of each latent
  clock,        \* block updates so far
  last,         \* (history) what the last draw read
  kept          \* the rows kept

vars == <<facts, origin, plan, mode, phase, turn, swept, values, clock, last, kept>>
sweeping == <<mode, turn, swept, values, clock, last, kept>>

\* Bound: only models with a latent above Probe go on to tables and sweeps.
Swept == facts.reach[Probe] # {}

Centres == [l \in LatentSet |-> 0]
NoDraw == [block |-> Block({}, "none"), at |-> Centres, noise |-> Centres]

Fresh ==
  /\ origin = "none" /\ plan = <<>> /\ mode = "none" /\ phase = "planning"
  /\ turn = 1 /\ swept = 0 /\ values = Centres /\ clock = 0
  /\ last = NoDraw /\ kept = <<>>

Init == Fresh /\ \E family \in Facts : facts \in family

\* factor_partition: its plan, or GraphError.
Derive ==
  /\ phase = "planning" /\ origin' = "derived"
  /\ plan' = DerivedBlocks(facts)
  /\ phase' = IF WithinBoundary(facts, plan') THEN "planned" ELSE "refused"
  /\ UNCHANGED <<facts, sweeping>>

\* declared_partition: the caller's table, or StructureError, NotLogLinear where
\* log_space has nothing to translate, or GraphError.
Declare ==
  /\ phase = "planning" /\ Swept /\ origin' = "declared"
  /\ plan' \in Tables
  /\ phase' = IF /\ Declarable(plan') /\ WithinBoundary(facts, plan')
                  /\ \A i \in DOMAIN plan' : plan'[i].method = "log-gcr" => facts.translated # {}
                THEN "planned" ELSE "refused"
  /\ UNCHANGED <<facts, sweeping>>

\* sample_factors refuses a plan with nothing exact; estimate_factors does not,
\* but must have a sweep to make.
Refuses(m) ==
  \/ m = "sample" /\ Exact(plan) = <<>>
  \/ m = "estimate" /\ NumSamples = 0

Start(m) ==
  /\ phase = "planned" /\ Swept
  /\ mode' = m
  /\ phase' = IF Refuses(m) THEN "refused" ELSE "sweep"
  /\ UNCHANGED <<facts, origin, plan, turn, swept, values, clock, last, kept>>

\* (bug) a covariance is taken as fixed when it does not move with the block
NeedsRebuild_Own(block) == \E o \in Observed : facts.sigma[o] \cap block.latents # {}

\* _sigma_needs_rebuild: a latent outside the block reaches some observed node.
NeedsRebuild(block) == \E o \in Observed : facts.reach[o] \ block.latents # {}

\* Where the block's precision is evaluated: hoisted at the prior centres, or
\* rebuilt at the current values. An estimate always rebuilds.
NoiseAt(block) ==
  IF mode = "sample" /\ (block.method = "log-gcr" \/ ~NeedsRebuild(block))
    THEN Centres ELSE values

\* One block of the sweep: drawn (or solved) given all the others as they are.
Update ==
  /\ phase = "sweep" /\ turn <= Len(Exact(plan))
  /\ LET block == Exact(plan)[turn]
     IN /\ values' = [l \in LatentSet |-> IF l \in block.latents THEN clock + 1 ELSE values[l]]
        /\ last' = [block |-> block, at |-> values, noise |-> NoiseAt(block)]
  /\ clock' = clock + 1 /\ turn' = turn + 1
  /\ UNCHANGED <<facts, origin, plan, mode, phase, swept, kept>>

\* A sample keeps what follows the warmup; an estimate's history is every sweep.
Keeps(sweep) == mode = "estimate" \/ sweep >= NumWarmup

Sweeps == IF mode = "estimate" THEN NumSamples ELSE NumWarmup + NumSamples

\* What ends a sweep: the state is recorded, and the next begins.
EndWith(state) ==
  /\ kept' = IF Keeps(swept) THEN Append(kept, state) ELSE kept
  /\ swept' = swept + 1 /\ turn' = 1
  /\ phase' = IF swept + 1 >= Sweeps THEN "done" ELSE "sweep"

\* Every exact block had its turn and nothing else is left.
EndSweep ==
  /\ phase = "sweep" /\ turn > Len(Exact(plan)) /\ Nuts(plan) = {}
  /\ EndWith(values)
  /\ UNCHANGED <<facts, origin, plan, mode, values, clock, last>>

ToRemainder ==
  /\ phase = "sweep" /\ turn > Len(Exact(plan)) /\ Nuts(plan) # {}
  /\ phase' = "remainder"
  /\ UNCHANGED <<facts, origin, plan, sweeping>>

\* The NUTS remainder moves: HMCGibbs after its gibbs_fn, or fit after a solve.
Remainder ==
  /\ phase = "remainder"
  /\ values' = [l \in LatentSet |-> IF l \in Nuts(plan) THEN clock + 1 ELSE values[l]]
  /\ clock' = clock + 1
  /\ EndWith(values')
  /\ UNCHANGED <<facts, origin, plan, mode, last>>

Stop ==
  /\ \/ phase \in {"done", "refused"}
     \/ phase = "planned" /\ ~Swept
  /\ UNCHANGED vars

Next ==
  \/ Derive \/ Declare
  \/ \E m \in {"sample", "estimate"} : Start(m)
  \/ Update \/ EndSweep \/ ToRemainder \/ Remainder
  \/ Stop

Spec == Init /\ [][Next]_vars

-----------------------------------------------------------------------------
Accepted == phase \notin {"planning", "refused"}

\* Every latent is updated by one block, and a block is one a closed-form draw is
\* right for: none, derived or declared, solves a latent that a graph-level
\* evidence term is over, which would leave the term out; and a derived one is
\* affine jointly on the graph it is solved on, with a covariance that does not
\* move with it.
SolvedBlocksAreExact ==
  /\ Accepted =>
       /\ UNION {plan[i].latents : i \in DOMAIN plan} = LatentSet
       /\ \A i, j \in DOMAIN plan : i # j => plan[i].latents \cap plan[j].latents = {}
  /\ Accepted => \A i \in DOMAIN Exact(plan) : Exact(plan)[i].latents \cap facts.covered = {}
  /\ origin = "derived" =>
    \A i \in DOMAIN plan :
      LET group == plan[i].latents
          pairs == {p \in Pairs : p \subseteq group}
      IN /\ plan[i].method = "gcr" =>
              /\ pairs \subseteq facts.together /\ group \subseteq facts.linear
              /\ \A o \in Observed : facts.sigma[o] \cap group = {}
         /\ plan[i].method = "log-gcr" =>
              pairs \subseteq facts.logTogether /\ group \subseteq facts.logLinear

\* The data a block's draw conditions on: what it reaches on the graph it is
\* solved on. A log block was checked there only where it was translated.
Conditions(block, o) ==
  /\ facts.reach[o] \cap block.latents # {}
  /\ block.method = "log-gcr" /\ origin = "declared" => o \in facts.translated

\* The latents that node's covariance reads there; a translated scale is constant.
CovarianceOf(block, o) ==
  IF block.method = "log-gcr" /\ o \in facts.translated THEN {} ELSE facts.sigma[o]

\* No draw is made from a covariance that is out of date: at every observed
\* node the block reaches, the precision was evaluated with each latent outside
\* the block at the value the draw was conditioned on, hoisted or not.
DrawsReadTheState ==
  \A o \in Observed : Conditions(last.block, o) =>
    \A l \in CovarianceOf(last.block, o) \ last.block.latents : last.noise[l] = last.at[l]

=============================================================================
