-------------------------- MODULE Samplers_proofs --------------------------
(***************************************************************************)
(* What is proved about the samplers that go block by block, and about the *)
(* log determinants their densities ask for.                               *)
(***************************************************************************)
EXTENDS Proposals, LogDet, FactorSweep, FiniteSetTheorems, SequenceTheorems,
        WellFoundedInduction, TLAPS

(***************************************************************************)
(* The loop of the proposals is a sampling loop.                           *)
(***************************************************************************)
Calls ==
  [at : {"sampling", "prepared", "stopped", "raised"}, policy : Loop!Policy, remainder : BOOLEAN,
   count : Nat, consecutive : Nat, divergences : Nat, checkpoints : Seq(Loop!Verdict),
   batches : Seq([from : Nat, to : Nat]), mcmc : [at : Nat, warmups : Nat], expired : BOOLEAN,
   reason : {"fixed_budget", "draw_cap", "time_cap", "diagnostics_converged"}]

\* Nothing is drawn before the chains are prepared, and nothing warmed up
\* before something is drawn.
CollectInv ==
  /\ collect \in Calls
  /\ collect.at = "sampling" => collect.count = 0
  /\ collect.count = 0 => collect.mcmc.warmups = 0

\* What the assumptions on the constants say of one call's settings.
LEMMA CallSettings ==
  ASSUME NEW p \in Loop!Policy
  PROVE  /\ p.cap \in Nat /\ p.min \in Nat /\ p.min >= 4
         /\ p.batch \in Nat /\ p.batch >= 1 /\ p.need \in Nat /\ p.need >= 1 /\ p.maxdiv \in Nat
         /\ p.mode \in {"fixed", "checkpoints"} /\ p.timed \in BOOLEAN
<1>1. /\ p.cap \in Caps /\ p.min \in MinDraws /\ p.batch \in BatchSizes /\ p.need \in Needed
      /\ p.maxdiv \in MaxDivergences /\ p.mode \in {"fixed", "checkpoints"} /\ p.timed \in BOOLEAN
  BY DEF Loop!Policy
<1>2. p.cap \in Nat
  BY <1>1, PoliciesAssumption
<1>3. p.min \in {n \in Nat : n >= 4}
  BY <1>1, PoliciesAssumption
<1>4. p.batch \in Nat \ {0} /\ p.need \in Nat \ {0}
  BY <1>1, PoliciesAssumption
<1>5. p.maxdiv \in Nat
  BY <1>1, PoliciesAssumption
<1> QED BY <1>1, <1>2, <1>3, <1>4, <1>5

\* A call begins as the other loop does.
LEMMA CallBegins ==
  ASSUME CollectInit
  PROVE  CollectInv /\ Loop!Init
<1>1. PICK p \in Loop!Policy, remainder \in BOOLEAN : collect = Called(p, remainder)
  BY DEF CollectInit
<1>2. << >> \in Seq(Loop!Verdict) /\ << >> \in Seq([from : Nat, to : Nat])
  OBVIOUS
<1>3. [at |-> 0, warmups |-> 0] \in [at : Nat, warmups : Nat]
  OBVIOUS
<1>4. collect \in Calls
  BY <1>1, <1>2, <1>3 DEF Called, Calls
<1>5. CollectInv
  BY <1>1, <1>4 DEF CollectInv, Called
<1>6. Loop!Init
  BY <1>1 DEF Loop!Init, Called
<1> QED BY <1>5, <1>6

\* A batch is of the size the other loop would draw, and of one draw at least.
LEMMA NextBatch ==
  ASSUME CollectInv, collect.count < collect.policy.cap
  PROVE  NextSize \in Nat /\ 1 <= NextSize /\ NextSize = Loop!BatchSize
<1>1. collect.policy \in Loop!Policy /\ collect.count \in Nat
  BY DEF CollectInv, Calls
<1>2. /\ collect.policy.cap \in Nat /\ collect.policy.min \in Nat /\ collect.policy.min >= 4
      /\ collect.policy.batch \in Nat /\ collect.policy.batch >= 1
  BY <1>1, CallSettings
<1> QED BY <1>1, <1>2 DEF NextSize, Loop!BatchSize, Loop!Unbatched, Loop!Smaller

\* The chain moves as the other loop's does.
LEMMA ChainMoves ==
  ASSUME CollectInv, NEW size \in Nat, 1 <= size
  PROVE  /\ Ran(size) = Loop!RunChain(size)
         /\ Ran(size) \in [at : Nat, warmups : Nat]
         /\ Ran(size).at - size \in Nat
<1>1. collect.count \in Nat /\ collect.mcmc \in [at : Nat, warmups : Nat]
  BY DEF CollectInv, Calls
<1>2. CASE collect.count > 0
  <2>1. Ran(size) = [collect.mcmc EXCEPT !.at = @ + size]
    BY <1>2 DEF Ran
  <2>2. Ran(size) = [at |-> collect.mcmc.at + size, warmups |-> collect.mcmc.warmups]
    BY <1>1, <2>1
  <2> QED BY <1>1, <1>2, <2>2 DEF Loop!RunChain
<1>3. CASE collect.count = 0
  <2>1. collect.mcmc.warmups = 0
    BY <1>3 DEF CollectInv
  <2> QED BY <1>1, <1>3, <2>1 DEF Loop!RunChain, Ran
<1> QED BY <1>1, <1>2, <1>3

\* A turn of the loop is a batch of the other one.
LEMMA TurnIsABatch ==
  ASSUME CollectInv, Turn
  PROVE  CollectInv' /\ Loop!Batch
<1>1. PICK seen \in Divergences, owned \in BOOLEAN, within \in BOOLEAN, late \in BOOLEAN :
        LET p == collect.policy
            whole == p.mode = "fixed" /\ ~p.timed
            size == NextSize
            count == collect.count + size
            divergences == collect.divergences + seen
            judged == count >= 4 /\ owned
            passed == judged /\ within /\ divergences <= p.maxdiv
            passes == IF whole THEN collect.consecutive ELSE Passes(passed, count)
            converged == p.mode = "checkpoints" /\ passes >= p.need
            stopped == ~whole /\ ~converged /\ late
        IN /\ collect.remainder \/ seen = 0
           /\ late => p.timed
           /\ collect' = [collect EXCEPT
                !.count = count, !.mcmc = Ran(size),
                !.batches = Append(@, [from |-> Ran(size).at - size, to |-> Ran(size).at]),
                !.divergences = divergences,
                !.checkpoints = Append(@, [draws |-> count, owned |-> judged, passed |-> passed]),
                !.consecutive = passes, !.expired = late,
                !.reason = IF converged THEN "diagnostics_converged"
                           ELSE IF stopped THEN "time_cap"
                           ELSE IF p.mode = "checkpoints" THEN "draw_cap" ELSE "fixed_budget",
                !.at = IF whole \/ converged \/ stopped \/ count >= p.cap
                         THEN "stopped" ELSE "prepared"]
  BY DEF Turn
<1> DEFINE p == collect.policy
           whole == p.mode = "fixed" /\ ~p.timed
           size == NextSize
           count == collect.count + size
           divergences == collect.divergences + seen
           judged == count >= 4 /\ owned
           passed == judged /\ within /\ divergences <= p.maxdiv
           passes == IF whole THEN collect.consecutive ELSE Passes(passed, count)
           converged == p.mode = "checkpoints" /\ passes >= p.need
           stopped == ~whole /\ ~converged /\ late
           segment == [from |-> Ran(size).at - size, to |-> Ran(size).at]
           verdict == [draws |-> count, owned |-> judged, passed |-> passed]
           why == IF converged THEN "diagnostics_converged"
                  ELSE IF stopped THEN "time_cap"
                  ELSE IF p.mode = "checkpoints" THEN "draw_cap" ELSE "fixed_budget"
           where == IF whole \/ converged \/ stopped \/ count >= p.cap THEN "stopped" ELSE "prepared"
           chain == Ran(size)
           batches == Append(collect.batches, segment)
           checkpoints == Append(collect.checkpoints, verdict)
<1>2. collect' = [collect EXCEPT
        !.count = count, !.mcmc = chain, !.batches = batches, !.divergences = divergences,
        !.checkpoints = checkpoints, !.consecutive = passes, !.expired = late, !.reason = why, !.at = where]
  BY <1>1
<1>3. late => p.timed
  BY <1>1
<1>4. /\ collect \in Calls /\ collect.at = "prepared" /\ collect.count < p.cap
      /\ p \in Loop!Policy /\ collect.count \in Nat /\ collect.consecutive \in Nat
      /\ collect.divergences \in Nat /\ collect.checkpoints \in Seq(Loop!Verdict)
      /\ collect.batches \in Seq([from : Nat, to : Nat])
  BY DEF Turn, CollectInv, Calls
<1>5. size \in Nat /\ 1 <= size /\ size = Loop!BatchSize
  BY <1>4, NextBatch
<1>6. seen \in Nat
  BY PoliciesAssumption
<1>7. chain = Loop!RunChain(size) /\ chain \in [at : Nat, warmups : Nat] /\ chain.at - size \in Nat
  BY <1>5, ChainMoves
<1>8. /\ p.cap \in Nat /\ p.need \in Nat /\ p.maxdiv \in Nat /\ p.min \in Nat
      /\ p.mode \in {"fixed", "checkpoints"} /\ p.timed \in BOOLEAN
  BY <1>4, CallSettings
<1>9. count \in Nat /\ count >= 1 /\ divergences \in Nat
  BY <1>4, <1>5, <1>6
<1>10. judged \in BOOLEAN /\ passed \in BOOLEAN
  OBVIOUS
<1>11. passes \in Nat
  BY <1>4 DEF Passes
<1>12. segment \in [from : Nat, to : Nat] /\ verdict \in Loop!Verdict
  BY <1>7, <1>9, <1>10 DEF Loop!Verdict
<1>13. batches \in Seq([from : Nat, to : Nat]) /\ checkpoints \in Seq(Loop!Verdict)
  <2> HIDE DEF segment, verdict
  <2> QED BY <1>4, <1>12
<1>14. /\ why \in {"fixed_budget", "draw_cap", "time_cap", "diagnostics_converged"}
       /\ where \in {"stopped", "prepared"}
  OBVIOUS
<1>15. /\ verdict = Loop!Judge(count, Loop!Accumulate(seen), owned, within)
       /\ divergences = Loop!Accumulate(seen)
  <2>1. divergences = Loop!Accumulate(seen) /\ divergences # Loop!Unknown
    BY <1>4, <1>6, <1>9 DEF Loop!Accumulate, Loop!Unknown
  <2>2. passed = (count >= 4 /\ owned /\ within /\ divergences # Loop!Unknown /\ divergences <= p.maxdiv)
    BY <2>1
  <2> HIDE DEF divergences, passed, judged, count
  <2>3. verdict = Loop!Judge(count, divergences, owned, within)
    BY <2>2 DEF Loop!Judge, judged
  <2> QED BY <2>1, <2>3
<1>16. passes = Loop!Streak(verdict)
  BY <1>4, <1>8, <1>9 DEF Loop!Streak, Loop!Unbatched, Passes
<1>17. /\ converged = Loop!Converged(passes) /\ whole = Loop!Unbatched
       /\ stopped = Loop!TimedOut(passes, late)
       /\ why = Loop!StopReason(passes, late)
  BY DEF Loop!Converged, Loop!Unbatched, Loop!TimedOut, Loop!StopReason
<1>18. where = IF Loop!Unbatched \/ count >= p.cap \/ Loop!Converged(passes) \/ Loop!TimedOut(passes, late)
                 THEN "stopped" ELSE "prepared"
  BY <1>17
<1>19. batches = Append(collect.batches, [from |-> chain.at - size, to |-> chain.at])
  OBVIOUS
<1>20. checkpoints = Append(collect.checkpoints, Loop!Judge(count, Loop!Accumulate(seen), owned, within))
  BY <1>15
<1>21. passes = Loop!Streak(Loop!Judge(count, Loop!Accumulate(seen), owned, within))
  BY <1>15, <1>16
<1> HIDE DEF divergences, judged, passed, passes, converged, stopped, segment, verdict, why, where,
             chain, batches, checkpoints, count
<1>22. collect' \in Calls
  BY <1>2, <1>4, <1>7, <1>9, <1>11, <1>13, <1>14 DEF Calls
<1>23. /\ collect'.count = count /\ collect'.mcmc = chain /\ collect'.batches = batches
       /\ collect'.divergences = divergences /\ collect'.checkpoints = checkpoints
       /\ collect'.consecutive = passes /\ collect'.expired = late /\ collect'.reason = why
       /\ collect'.at = where /\ collect'.policy = p
  BY <1>2, <1>4 DEF Calls
<1>24. CollectInv'
  BY <1>9, <1>14, <1>22, <1>23 DEF CollectInv
<1>25. count = collect.count + size
  BY DEF count
<1>26. Loop!Collect(size, seen, owned, within, late)
  BY <1>4, <1>7, <1>15, <1>17, <1>18, <1>19, <1>20, <1>21, <1>23, <1>25 DEF Loop!Collect
<1>27. Loop!Batch
  BY <1>3, <1>4, <1>5, <1>23, <1>26 DEF Loop!Batch
<1> QED BY <1>24, <1>27

\* The preparation is no step of the other loop, or its refusal.
LEMMA PreparationRefuses ==
  ASSUME CollectInv, Prepare
  PROVE  CollectInv' /\ (Loop!Refuse \/ UNCHANGED Loop!vars)
<1>1. PICK where \in {"prepared", "raised"} : collect' = [collect EXCEPT !.at = where]
  BY DEF Prepare
<1>2. /\ collect \in Calls /\ collect.at = "sampling" /\ collect.count = 0
  BY DEF Prepare, CollectInv
<1>3. /\ collect'.at = where /\ collect'.policy = collect.policy /\ collect'.count = collect.count
      /\ collect'.consecutive = collect.consecutive /\ collect'.divergences = collect.divergences
      /\ collect'.checkpoints = collect.checkpoints /\ collect'.batches = collect.batches
      /\ collect'.mcmc = collect.mcmc /\ collect'.expired = collect.expired /\ collect'.reason = collect.reason
  BY <1>1, <1>2 DEF Calls
<1>4. collect' \in Calls
  BY <1>1, <1>2 DEF Calls
<1>5. CollectInv'
  BY <1>3, <1>4 DEF CollectInv
<1>6. CASE where = "prepared"
  BY <1>2, <1>3, <1>5, <1>6 DEF Loop!vars
<1>7. CASE where = "raised"
  BY <1>2, <1>3, <1>5, <1>7 DEF Loop!Refuse
<1> QED BY <1>5, <1>6, <1>7

\* For all settings: the loop that drives proposals, written apart from the
\* posterior's loop, takes none but its steps.
THEOREM TheProposalLoopIsASamplingLoop == CollectSpec => CollectIsASamplingLoop
<1>1. CollectInit => CollectInv /\ Loop!Init
  BY CallBegins
<1>2. CollectInv /\ [CollectNext]_collect => CollectInv'
  <2> SUFFICES ASSUME CollectInv, [CollectNext]_collect PROVE CollectInv'
    OBVIOUS
  <2>1. CASE UNCHANGED collect
    BY <2>1 DEF CollectInv
  <2> QED BY <2>1, TurnIsABatch, PreparationRefuses DEF CollectNext
<1>3. CollectInv /\ [CollectNext]_collect => [Loop!Next]_(Loop!vars)
  <2> SUFFICES ASSUME CollectInv, [CollectNext]_collect PROVE [Loop!Next]_(Loop!vars)
    OBVIOUS
  <2>1. CASE UNCHANGED collect
    BY <2>1 DEF Loop!vars
  <2> QED BY <2>1, TurnIsABatch, PreparationRefuses DEF CollectNext, Loop!Next
<1> QED BY <1>1, <1>2, <1>3, PTL DEF CollectSpec, CollectIsASamplingLoop

--------------------------------------------------------------------------------
(***************************************************************************)
(* The log determinants: the ladder.                                       *)
(***************************************************************************)
\* Whatever a premise says of a problem, it says of the method that runs: a
\* compact Sigma is symmetric, and that is all the premises leave to it.
Sound(q) ==
  /\ {"compact", "finite", "positive", "resolved", "payloadRho", "symmetry"} \subseteq DOMAIN q
  /\ q.symmetry \in {"exact", "roundoff", "none"}
  /\ q.compact => q.symmetry = "exact"

\* The lemma's factors, or the symmetric representative without them.
LEMMA FiniteIsEnough ==
  ASSUME NEW q, Sound(q), Finite(q)
  PROVE  FiniteRuns(q)
<1>1. q.payloadRho <= OneLevel \/ LemmaPayload(q)
  BY DEF Finite
<1>2. CASE LemmaPayload(q)
  BY <1>2 DEF FiniteRuns, NewtonRuns, ExactlyDefinite, LemmaPayload, Finite
<1>3. CASE ~ LemmaPayload(q)
  <2> DEFINE r == Representative(q)
  <2>1. /\ r.finite = q.finite /\ r.positive = q.positive /\ r.compact = q.compact
        /\ r.resolved = q.resolved /\ r.payloadRho = q.payloadRho
        /\ r.symmetry = IF q.symmetry = "roundoff" THEN "exact" ELSE q.symmetry
    BY DEF Sound, Representative
  <2> HIDE DEF r
  <2>2. q.symmetry \in {"exact", "roundoff", "none"}
    BY DEF Sound
  <2>3. Definite(q) /\ Arithmetic(q)
    BY <1>3 DEF Finite
  <2>4. ExactlyDefinite(r)
    BY <2>1, <2>2, <2>3 DEF ExactlyDefinite, Definite
  <2>5. r.compact \/ Resolved(r)
    BY <2>1, <2>3 DEF Arithmetic, Resolved
  <2>6. NewtonRuns(r, FALSE, TRUE)
    BY <1>1, <1>3, <2>1, <2>4, <2>5 DEF NewtonRuns
  <2> QED BY <1>3, <2>6 DEF FiniteRuns, r
<1> QED BY <1>2, <1>3

\* A low rank that the evidence covers can be run.
LEMMA LowRankIsEnough ==
  ASSUME NEW q, Sound(q), LowRank(q)
  PROVE  LowRankRuns(q)
<1>1. /\ RankEvidence(q) /\ (q.compact \/ LemmaPayload(q)) /\ Definite(q)
  BY DEF LowRank
<1>2. q.symmetry = "exact"
  BY <1>1 DEF Sound, LemmaPayload
<1>3. ~ q.factors => q.compact
  BY <1>1 DEF LemmaPayload, FactorsCertified
<1> QED BY <1>1, <1>2, <1>3 DEF LowRankRuns, NewtonRuns, ExactlyDefinite

\* So can a structure that holds.
LEMMA StructureIsEnough ==
  ASSUME NEW q, StructuredRung(q)
  PROVE  StructuredRuns(q)
BY DEF StructuredRung, StructureHolds, StructuredRuns

\* A spectral radius that the evidence covers is below one.
LEMMA RadiusIsEnough ==
  ASSUME NEW q, RhoCovered(q)
  PROVE  StrictRho(q)
BY DEF RhoCovered, StrictRho, Unmeasured, OneLevel

\* A premise that holds is enough for its method, but for a chain's pivots.
LEMMA PremiseIsEnough ==
  ASSUME NEW q, Sound(q), NEW k \in 1 .. 9, Premise(q)[k]
  PROVE  Executes(q)[k] \/ (k = 3 /\ ~ q.pivots)
<1>1. CASE k = 1
  BY <1>1 DEF Executes
<1>2. CASE k = 2
  <2>1. Premise(q)[2] = LowRank(q) /\ Executes(q)[2] = LowRankRuns(q)
    BY DEF Premise, Executes
  <2> QED BY <1>2, <2>1, LowRankIsEnough
<1>3. CASE k = 3
  <2>1. Premise(q)[3] = Chain(q) /\ Executes(q)[3] = ChainRuns(q)
    BY DEF Premise, Executes
  <2> QED BY <1>3, <2>1 DEF Chain, ChainRuns
<1>4. CASE k = 4
  <2>1. Premise(q)[4] = StructuredRung(q) /\ Executes(q)[4] = StructuredRuns(q)
    BY DEF Premise, Executes
  <2> QED BY <1>4, <2>1, StructureIsEnough
<1>5. CASE k = 5
  <2>1. Premise(q)[5] = Dense(q) /\ Executes(q)[5] = DenseRuns(q)
    BY DEF Premise, Executes
  <2> QED BY <1>5, <2>1 DEF Dense, DenseRuns
<1>6. CASE k = 6
  <2>1. Premise(q)[6] = Finite(q) /\ Executes(q)[6] = FiniteRuns(q)
    BY DEF Premise, Executes
  <2> QED BY <1>6, <2>1, FiniteIsEnough
<1>7. CASE k = 7
  <2>1. Premise(q)[7] = TraceLog(q) /\ Executes(q)[7] = TraceRuns(q)
    BY DEF Premise, Executes
  <2> QED BY <1>7, <2>1, RadiusIsEnough DEF TraceLog, TraceRuns
<1>8. CASE k = 8
  <2>1. Premise(q)[8] = FrozenRung(q) /\ Executes(q)[8] = FrozenRuns(q)
    BY DEF Premise, Executes
  <2> QED BY <1>8, <2>1, RadiusIsEnough DEF FrozenRung, FrozenRuns
<1>9. CASE k = 9
  BY <1>9 DEF Premise
<1> QED BY <1>1, <1>2, <1>3, <1>4, <1>5, <1>6, <1>7, <1>8, <1>9

\* The dispatcher stays on the ladder and rejects only what does not hold.
LadderInv ==
  /\ ladder # Missing => Sound(problem)
  /\ ladder = Missing => verdicts = << >>
  /\ verdicts # << >> => verdicts = Premise(problem)
  /\ ladder \in {Missing, "asked", "judged", "value", "raised", "refused"}
  /\ ladder \in {"judged", "value", "raised", "refused"} => verdicts = Premise(problem)
  /\ rung \in 1 .. 9 /\ \A k \in 1 .. (rung - 1) : ~ verdicts[k]
  /\ ladder = "raised" => verdicts[rung] /\ ~ Executes(problem)[rung]

\* The invariant says that every premise that holds has what its method needs.
LEMMA LadderSettles == LadderInv => SatisfiedPayloadsExecute
<1> SUFFICES ASSUME LadderInv PROVE SatisfiedPayloadsExecute
  OBVIOUS
<1>1. ASSUME verdicts # << >>, NEW k \in 1 .. 9, verdicts[k], ~ Executes(problem)[k]
      PROVE  k = 3 /\ ~ problem.pivots
  <2>1. Sound(problem) /\ Premise(problem)[k]
    BY <1>1 DEF LadderInv
  <2> QED BY <1>1, <2>1, PremiseIsEnough
<1>2. ASSUME ladder = "raised" PROVE rung = 3 /\ ~ problem.pivots
  <2>1. Sound(problem) /\ Premise(problem)[rung] /\ ~ Executes(problem)[rung] /\ rung \in 1 .. 9
    BY <1>2 DEF LadderInv, Missing
  <2> QED BY <2>1, PremiseIsEnough
<1> QED BY <1>1, <1>2 DEF SatisfiedPayloadsExecute

\* What the ladder is asked about is a sound problem.
LEMMA AskedIsSound == AskLadder => Sound(problem)
<1> SUFFICES ASSUME AskLadder PROVE Sound(problem)
  OBVIOUS
<1>1. PICK offers \in {o \in SUBSET Offers : Cardinality(o) <= MaxOffers}, n \in Sizes :
    \E s \in Sums(n),
       doubts \in Given(offers, "factors", {{}} \cup {{d} : d \in Doubts}, {}),
       chain \in Given(offers, "chain", {"chain", "broken"}, Missing), pivots \in BOOLEAN,
       structure \in Given(offers, "structure", Structures, <<Missing, "false">>),
       traces \in Given(offers, "traces", {"match", "wrong"}, Missing),
       probes \in Given(offers, "probes", {"width n", "other width"}, Missing),
       order \in Given(offers, IF "traces" \in offers THEN "traces" ELSE "probes", {NoBound, 0, 1}, NoBound),
       certified \in Given(offers, IF "traces" \in offers THEN "traces" ELSE "probes",
                           {NoBound, 0, 1, OneLevel}, NoBound) :
      /\ "factors" \in offers /\ (s.compact \/ ~s.finite) => doubts = {"rows"}
      /\ ~pivots => chain = "chain"
      /\ problem = [compact |-> s.compact, n |-> s.n, rank |-> s.rank, finite |-> s.finite,
           same |-> s.same, symmetry |-> s.symmetry, positive |-> s.positive,
           resolved |-> s.resolved, rho |-> s.rho, payloadRho |-> s.payloadRho,
           factors |-> "factors" \in offers, doubts |-> doubts, chain |-> chain, pivots |-> pivots, kind |-> structure[1],
           claim |-> structure[2], traces |-> traces, probes |-> probes, order |-> order,
           certified |-> certified]
  BY DEF AskLadder
<1>2. PICK s \in Sums(n),
       doubts \in Given(offers, "factors", {{}} \cup {{d} : d \in Doubts}, {}),
       chain \in Given(offers, "chain", {"chain", "broken"}, Missing), pivots \in BOOLEAN,
       structure \in Given(offers, "structure", Structures, <<Missing, "false">>),
       traces \in Given(offers, "traces", {"match", "wrong"}, Missing),
       probes \in Given(offers, "probes", {"width n", "other width"}, Missing),
       order \in Given(offers, IF "traces" \in offers THEN "traces" ELSE "probes", {NoBound, 0, 1}, NoBound),
       certified \in Given(offers, IF "traces" \in offers THEN "traces" ELSE "probes",
                           {NoBound, 0, 1, OneLevel}, NoBound) :
      /\ "factors" \in offers /\ (s.compact \/ ~s.finite) => doubts = {"rows"}
      /\ ~pivots => chain = "chain"
      /\ problem = [compact |-> s.compact, n |-> s.n, rank |-> s.rank, finite |-> s.finite,
           same |-> s.same, symmetry |-> s.symmetry, positive |-> s.positive,
           resolved |-> s.resolved, rho |-> s.rho, payloadRho |-> s.payloadRho,
           factors |-> "factors" \in offers, doubts |-> doubts, chain |-> chain, pivots |-> pivots, kind |-> structure[1],
           claim |-> structure[2], traces |-> traces, probes |-> probes, order |-> order,
           certified |-> certified]
  BY <1>1
<1>3. /\ s \in [compact : BOOLEAN, n : {n}, finite : BOOLEAN, same : BOOLEAN, positive : BOOLEAN,
          resolved : BOOLEAN, symmetry : {"exact", "roundoff", "none"}, rho : Radii,
          payloadRho : Radii, rank : 1 .. n]
      /\ s.compact => s.symmetry = "exact"
  BY DEF Sums
<1>4. s.symmetry \in {"exact", "roundoff", "none"}
  BY <1>3
<1>5. problem.symmetry = s.symmetry /\ problem.compact = s.compact
  BY <1>2
<1>6. {"compact", "finite", "positive", "resolved", "payloadRho", "symmetry"} \subseteq DOMAIN problem
  BY <1>2
<1> QED BY <1>3, <1>4, <1>5, <1>6 DEF Sound

\* Dispatching a determinant keeps the ladder as it was settled.
LEMMA DispatchKeepsTheLadder ==
  ASSUME LadderInv, Dispatch
  PROVE  LadderInv'
<1>1. CASE JudgePremises
  <2>1. /\ verdicts' = Premise(problem) /\ ladder' = "judged" /\ rung' = 1 /\ problem' = problem
        /\ Sound(problem)
    BY <1>1 DEF JudgePremises, LadderInv, Missing
  <2>2. Sound(problem)'
    BY <2>1 DEF Sound
  <2>3. \A k \in 1 .. (rung' - 1) : FALSE
    BY <2>1
  <2>4. Premise(problem)' = Premise(problem)
    BY <2>1
  <2> QED BY <2>1, <2>2, <2>3, <2>4 DEF LadderInv, Missing
<1>2. ASSUME ladder \in {"judged"}, UNCHANGED <<problem, verdicts>>
      PROVE  Sound(problem)' /\ verdicts' = Premise(problem)'
  BY <1>2 DEF LadderInv, Missing, Sound
<1>3. CASE Reject
  <2>1. /\ ladder = "judged" /\ ~ verdicts[rung] /\ rung' = rung + 1
        /\ UNCHANGED <<problem, verdicts, ladder>>
    BY <1>3 DEF Reject
  <2>2. PICK k \in 1 .. 9 : verdicts[k]
    BY <1>3 DEF Reject
  <2>3. rung \in 1 .. 9 /\ \A j \in 1 .. (rung - 1) : ~ verdicts[j]
    BY DEF LadderInv
  <2>4. \A j \in 1 .. rung : ~ verdicts[j]
    BY <2>1, <2>3
  <2>5. rung + 1 \in 1 .. 9
    BY <2>2, <2>3, <2>4
  <2>6. rung' \in 1 .. 9 /\ \A j \in 1 .. (rung' - 1) : ~ verdicts'[j]
    BY <2>1, <2>3, <2>4, <2>5
  <2> QED BY <1>2, <2>1, <2>6 DEF LadderInv, Missing
<1>4. CASE Execute
  <2>1. /\ ladder = "judged" /\ verdicts[rung]
        /\ ladder' = IF Executes(problem)[rung] THEN "value" ELSE "raised"
        /\ UNCHANGED <<problem, verdicts, rung>>
    BY <1>4 DEF Execute
  <2>2. Executes(problem)' = Executes(problem)
    BY <2>1
  <2>3. ladder' = "raised" => verdicts'[rung'] /\ ~ Executes(problem)'[rung']
    BY <2>1, <2>2
  <2>4. rung' \in 1 .. 9 /\ \A j \in 1 .. (rung' - 1) : ~ verdicts'[j]
    BY <2>1 DEF LadderInv
  <2> QED BY <1>2, <2>1, <2>3, <2>4 DEF LadderInv, Missing
<1>5. CASE RefuseAll
  <2>1. ladder = "judged" /\ ladder' = "refused" /\ UNCHANGED <<problem, verdicts, rung>>
    BY <1>5 DEF RefuseAll
  <2> QED BY <1>2, <2>1 DEF LadderInv, Missing
<1> QED BY <1>1, <1>3, <1>4, <1>5 DEF Dispatch

--------------------------------------------------------------------------------
(***************************************************************************)
(* The log determinants: the planned series.                               *)
(***************************************************************************)
CertificateStands ==
  /\ certificate.rho \in Certifiable /\ certificate.mult \in Ranks
  /\ certificate.order = TraceOrder[<<certificate.rho, certificate.mult>>]

\* The plan runs at the certified order, in a precision that fits, and whatever
\* was audited passed under the certificate the plan was made with.
PlanStands ==
  /\ tracePlan.kind \in {"trace", "frozen"} /\ tracePlan.dtype \in Dtypes
  /\ tracePlan.order = certificate.order
  /\ Fits(tracePlan.dtype, certificate.tolerance)
  /\ \A s \in retained : s.at \in Thetas /\ Fits(s.dtype, certificate.tolerance)

PlanInv ==
  /\ ladder = Missing => world \in [Thetas -> Measures]
  /\ ladder # Missing => certificate = NoCertificate
  /\ certificate # NoCertificate => CertificateStands
  /\ certificate = NoCertificate => tracePlan = NoTracePlan
  /\ tracePlan # NoTracePlan => PlanStands
  /\ tracePlan = NoTracePlan => retained = {} /\ audited = [a \in Audits |-> {}]
  /\ DOMAIN audited = Audits /\ wide \in BOOLEAN
  /\ \A a \in Audits : \A t \in audited[a] : PassesAudit(a, t)

DeterminantInv == LadderInv /\ PlanInv

\* What the four audits say, one by one.
LEMMA AuditsSay ==
  ASSUME NEW t
  PROVE  /\ PassesAudit("rho", t) => world[t].rho <= certificate.rho
         /\ PassesAudit("base", t) => world[t].base <= certificate.base
         /\ PassesAudit("norm", t) => world[t].norm <= certificate.norm
         /\ PassesAudit("traces", t) => world[t].honest /\ world[t].rank <= certificate.mult
BY DEF PassesAudit, RankCovered

\* The invariant keeps every audited draw within the tolerance.
LEMMA AuditsAreEnough == PlanInv => AuditedRunsKeepTheTolerance
<1> SUFFICES ASSUME PlanInv, tracePlan # NoTracePlan, NEW s \in retained, s.at \in Audited
             PROVE  WithinTolerance(s)
  BY DEF AuditedRunsKeepTheTolerance
<1> DEFINE t == s.at
<1>1. /\ certificate # NoCertificate /\ CertificateStands /\ PlanStands
      /\ world \in [Thetas -> Measures] /\ t \in Thetas
  BY DEF PlanInv, PlanStands
<1>2. world[t] \in Measures
  BY <1>1
<1> HIDE DEF t
<1>3. world[t].rho \in Radii /\ world[t].rank \in Ranks
  BY <1>2 DEF Measures
<1>4. \A a \in RequiredAudits(tracePlan.kind) : t \in audited[a]
  BY DEF Audited, t
<1>5. RequiredAudits(tracePlan.kind) \subseteq Audits
  BY DEF RequiredAudits, Audits
<1>6. \A a \in RequiredAudits(tracePlan.kind) : PassesAudit(a, t)
  BY <1>4, <1>5 DEF PlanInv
<1>7. world[t].base <= certificate.base
  BY <1>6, AuditsSay DEF RequiredAudits
<1>8. tracePlan.kind = "frozen" => world[t].norm <= certificate.norm
  BY <1>6, AuditsSay DEF RequiredAudits
<1>9. ASSUME tracePlan.kind = "trace"
      PROVE  /\ world[t].honest
             /\ world[t].rho < OneLevel /\ TraceOrder[<<world[t].rho, world[t].rank>>] <= tracePlan.order
  <2>1. /\ world[t].rho <= certificate.rho /\ world[t].honest /\ world[t].rank <= certificate.mult
    BY <1>6, <1>9, AuditsSay DEF RequiredAudits
  <2>2. certificate.rho \in Radii /\ certificate.rho < OneLevel /\ certificate.mult \in Ranks
    BY <1>1 DEF CertificateStands, Certifiable
  <2>3. world[t].rho \in Certifiable
    BY <1>3, <2>1, <2>2 DEF Radii, OneLevel, Certifiable, Unmeasured
  <2> DEFINE here == <<world[t].rho, world[t].rank>>
             warm == <<certificate.rho, certificate.mult>>
  <2>4. here \in Certifiable \X Ranks /\ warm \in Certifiable \X Ranks
    BY <1>1, <1>3, <2>3 DEF CertificateStands
  <2>5. here[1] <= warm[1] /\ here[2] <= warm[2]
    BY <2>1
  <2>6. TraceOrder[here] <= TraceOrder[warm]
    <3> HIDE DEF here, warm
    <3> QED BY <2>4, <2>5, Orders
  <2>7. TraceOrder[warm] = tracePlan.order
    BY <1>1 DEF CertificateStands, PlanStands
  <2>8. world[t].rho < OneLevel
    BY <2>3 DEF Certifiable
  <2> QED BY <2>1, <2>6, <2>7, <2>8
<1>10. Fits(s.dtype, certificate.tolerance)
  BY <1>1 DEF PlanStands
<1> QED BY <1>7, <1>8, <1>9, <1>10 DEF WithinTolerance, t

\* The ladder and the plan begin with their invariants.
LEMMA DeterminantsBegin == LogDetInit => DeterminantInv
<1> SUFFICES ASSUME LogDetInit PROVE DeterminantInv
  OBVIOUS
<1>1. CASE PlanInit /\ NoLadder
  <2>1. world \in [Thetas -> Measures]
    BY <1>1 DEF PlanInit, Worlds
  <2>2. \A k \in 1 .. (rung - 1) : FALSE
    BY <1>1 DEF NoLadder
  <2>3. LadderInv
    BY <1>1, <2>2 DEF NoLadder, LadderInv, Missing
  <2>4. \A a \in Audits : audited[a] = {}
    BY <1>1 DEF PlanInit
  <2>5. PlanInv
    BY <1>1, <2>1, <2>4 DEF PlanInit, NoLadder, PlanInv
  <2> QED BY <2>3, <2>5 DEF DeterminantInv
<1>2. CASE LadderInit /\ NoWorld
  <2>1. Sound(problem)
    BY <1>2, AskedIsSound DEF LadderInit
  <2>2. \A k \in 1 .. (rung - 1) : FALSE
    BY <1>2 DEF LadderInit
  <2>3. LadderInv
    BY <1>2, <2>1, <2>2 DEF LadderInit, LadderInv, Missing
  <2>4. \A a \in Audits : audited[a] = {}
    BY <1>2 DEF NoWorld
  <2>5. PlanInv
    BY <1>2, <2>4 DEF NoWorld, LadderInit, PlanInv, Missing
  <2> QED BY <2>3, <2>5 DEF DeterminantInv
<1> QED BY <1>1, <1>2 DEF LogDetInit

\* Every step keeps them.
LEMMA DeterminantsGoOn == DeterminantInv /\ [LogDetNext]_logDetVars => DeterminantInv'
<1> SUFFICES ASSUME DeterminantInv, [LogDetNext]_logDetVars PROVE DeterminantInv'
  OBVIOUS
<1> USE DEF DeterminantInv
<1>1. ASSUME UNCHANGED ladderVars PROVE LadderInv'
  <2>1. Executes(problem)' = Executes(problem) /\ Premise(problem)' = Premise(problem)
    BY <1>1 DEF ladderVars
  <2> QED BY <1>1, <2>1 DEF ladderVars, LadderInv, Sound
<1>2. ASSUME UNCHANGED <<world, certificate>>
      PROVE  \A a, t : PassesAudit(a, t)' = PassesAudit(a, t)
  BY <1>2 DEF PassesAudit, RankCovered
<1>3. CASE Dispatch /\ UNCHANGED planVars
  <2>1. LadderInv'
    BY <1>3, DispatchKeepsTheLadder
  <2>2. ladder # Missing /\ certificate = NoCertificate /\ tracePlan = NoTracePlan
    BY <1>3 DEF Dispatch, JudgePremises, Reject, Execute, RefuseAll, Missing, PlanInv
  <2>3. ladder' # Missing
    BY <1>3, <2>2 DEF Dispatch, JudgePremises, Reject, Execute, RefuseAll, Missing
  <2>4. UNCHANGED <<world, wide, certificate, tracePlan, retained, audited>>
    BY <1>3 DEF planVars
  <2> QED BY <1>2, <2>1, <2>2, <2>3, <2>4 DEF PlanInv
<1>4. ASSUME NEW points \in (SUBSET Thetas) \ {{}}, NEW margin \in Margins, NEW mult \in Ranks,
             NEW base \in BOOLEAN, NEW norm \in BOOLEAN, NEW tolerance \in Tolerances,
             Certify(points, margin, mult, base, norm, tolerance)
      PROVE  DeterminantInv'
  <2>1. UNCHANGED <<ladderVars, world, wide, tracePlan, retained, audited>>
    BY <1>4 DEF Certify
  <2>2. certificate = NoCertificate /\ ladder = Missing
    BY <1>4 DEF Certify
  <2>3. PICK bound : bound = Largest({world[t].rho : t \in points}) + margin
    OBVIOUS
  <2>4. bound \in Certifiable
    BY <1>4, <2>3 DEF Certify
  <2>5. certificate' =
          [rho |-> bound, mult |-> mult, order |-> TraceOrder[<<bound, mult>>],
           base |-> IF base THEN Largest({world[t].base : t \in points}) + margin ELSE NoBound,
           norm |-> IF norm THEN Largest({world[t].norm : t \in points}) + margin ELSE NoBound,
           tolerance |-> tolerance]
    BY <1>4, <2>3 DEF Certify
  <2>6. certificate'.rho = bound /\ certificate'.mult = mult /\ certificate'.order = TraceOrder[<<bound, mult>>]
    BY <2>5
  <2>7. CertificateStands'
    BY <2>4, <2>6 DEF CertificateStands
  <2>8. tracePlan = NoTracePlan /\ audited = [a \in Audits |-> {}] /\ retained = {}
    BY <2>2 DEF PlanInv
  <2>9. LadderInv' /\ ladder' = Missing
    BY <1>1, <2>1, <2>2 DEF ladderVars
  <2>10. \A a \in Audits : audited'[a] = {}
    BY <2>1, <2>8
  <2>11. certificate' # NoCertificate
    <3>1. "mult" \in DOMAIN certificate' /\ "mult" \notin DOMAIN NoCertificate
      BY <2>5 DEF NoCertificate
    <3> QED BY <3>1
  <2> QED BY <2>1, <2>2, <2>7, <2>8, <2>9, <2>10, <2>11 DEF PlanInv
<1>5. ASSUME NEW kind \in {"trace", "frozen"}, NEW t \in Thetas, NEW dtype \in Dtypes, NEW order,
             MakePlan(kind, t, order, dtype)
      PROVE  DeterminantInv'
  <2>1. UNCHANGED <<ladderVars, world, wide, certificate, retained, audited>>
    BY <1>5 DEF MakePlan
  <2>2. certificate # NoCertificate /\ tracePlan = NoTracePlan /\ order = certificate.order
    BY <1>5 DEF MakePlan, CertificateHolds
  <2>3. Fits(Canonical(dtype), certificate.tolerance) /\ Canonical(dtype) \in Dtypes
    BY <1>5 DEF MakePlan, Canonical, Dtypes
  <2>4. tracePlan' = [kind |-> kind, order |-> order, dtype |-> Canonical(dtype)]
    BY <1>5 DEF MakePlan
  <2>5. tracePlan'.kind = kind /\ tracePlan'.order = order /\ tracePlan'.dtype = Canonical(dtype)
    BY <2>4
  <2>6. retained = {} /\ audited = [a \in Audits |-> {}]
    BY <2>2 DEF PlanInv
  <2>7. PlanStands'
    BY <2>1, <2>2, <2>3, <2>5, <2>6 DEF PlanStands, Fits
  <2>8. CertificateStands'
    BY <2>1, <2>2 DEF PlanInv, CertificateStands
  <2>9. LadderInv' /\ ladder' = ladder
    BY <1>1, <2>1 DEF ladderVars
  <2>10. tracePlan' # NoTracePlan
    <3>1. "order" \in DOMAIN tracePlan' /\ "order" \notin DOMAIN NoTracePlan
      BY <2>4 DEF NoTracePlan
    <3> QED BY <3>1
  <2>11. \A a \in Audits : audited'[a] = {}
    BY <2>1, <2>6
  <2> QED BY <2>1, <2>2, <2>7, <2>8, <2>9, <2>10, <2>11 DEF PlanInv
<1>6. ASSUME NEW t \in Thetas, NEW dtype \in Dtypes, Evaluate(t, dtype)
      PROVE  DeterminantInv'
  <2>1. UNCHANGED <<ladderVars, world, wide, certificate, tracePlan, audited>>
    BY <1>6 DEF Evaluate
  <2>2. /\ tracePlan # NoTracePlan /\ Canonical(dtype) >= tracePlan.dtype
        /\ retained' = retained \cup {[at |-> t, dtype |-> Canonical(dtype)]}
    BY <1>6 DEF Evaluate, PrecisionKept
  <2>3. PlanStands
    BY <2>2 DEF PlanInv
  <2>4. Fits(Canonical(dtype), certificate.tolerance)
    BY <2>2, <2>3 DEF PlanStands, Fits, Canonical, Dtypes
  <2>5. \A s \in retained' : s.at \in Thetas /\ Fits(s.dtype, certificate.tolerance)
    BY <2>2, <2>3, <2>4 DEF PlanStands
  <2>6. PlanStands'
    BY <2>1, <2>3, <2>5 DEF PlanStands, Fits
  <2>7. LadderInv' /\ ladder' = ladder
    BY <1>1, <2>1 DEF ladderVars
  <2>8. CertificateStands' = CertificateStands
    BY <2>1 DEF CertificateStands
  <2> QED BY <1>2, <2>1, <2>2, <2>6, <2>7, <2>8 DEF PlanInv
<1>7. CASE SwitchPrecision
  <2>1. UNCHANGED <<ladderVars, world, certificate, tracePlan, retained, audited>> /\ wide' \in BOOLEAN
    BY <1>7 DEF SwitchPrecision
  <2>2. LadderInv' /\ ladder' = ladder
    BY <1>1, <2>1 DEF ladderVars
  <2>3. CertificateStands' = CertificateStands /\ PlanStands' = PlanStands
    BY <2>1 DEF CertificateStands, PlanStands, Fits
  <2> QED BY <1>2, <2>1, <2>2, <2>3 DEF PlanInv
<1>8. ASSUME NEW audit \in RequiredAudits(tracePlan.kind), tracePlan # NoTracePlan, AuditPoints(audit)
      PROVE  DeterminantInv'
  <2>1. UNCHANGED <<ladderVars, world, wide, certificate, tracePlan, retained>>
    BY <1>8 DEF AuditPoints
  <2>2. (\A t \in Kept : PassesAudit(audit, t)) /\ audited' = [audited EXCEPT ![audit] = Kept]
    BY <1>8 DEF AuditPoints
  <2>3. LadderInv' /\ ladder' = ladder
    BY <1>1, <2>1 DEF ladderVars
  <2>4. CertificateStands' = CertificateStands /\ PlanStands' = PlanStands
    BY <2>1 DEF CertificateStands, PlanStands, Fits
  <2>5. DOMAIN audited' = Audits
    BY <2>2 DEF PlanInv
  <2>6. ASSUME NEW a \in Audits, NEW t \in audited'[a]
        PROVE  PassesAudit(a, t)
    <3>1. CASE a = audit
      BY <2>2, <2>6, <3>1 DEF PlanInv
    <3>2. CASE a # audit
      BY <2>2, <2>6, <3>2 DEF PlanInv
    <3> QED BY <3>1, <3>2
  <2>7. \A a \in Audits : \A t \in audited'[a] : PassesAudit(a, t)'
    BY <1>2, <2>1, <2>6
  <2> QED BY <1>8, <2>1, <2>3, <2>4, <2>5, <2>7 DEF PlanInv
<1>9. CASE UNCHANGED logDetVars
  <2>1. UNCHANGED <<ladderVars, world, wide, certificate, tracePlan, retained, audited>>
    BY <1>9 DEF logDetVars, planVars
  <2>2. LadderInv' /\ ladder' = ladder
    BY <1>1, <2>1 DEF ladderVars
  <2>3. CertificateStands' = CertificateStands /\ PlanStands' = PlanStands
    BY <2>1 DEF CertificateStands, PlanStands, Fits
  <2> QED BY <1>2, <2>1, <2>2, <2>3 DEF PlanInv
<1> QED BY <1>3, <1>4, <1>5, <1>6, <1>7, <1>8, <1>9 DEF LogDetNext, PlanStep

(* Whichever way a log determinant is asked for, it can be relied on: the      *)
(* method a ladder settles on does not raise, whatever the problem and the     *)
(* configuration of the ladder, and a planned series is within the certified   *)
(* tolerance at every sample that was audited, however far the sampler went    *)
(* from the points of the warmup (check_logdet_premises, TraceLogPlan,         *)
(* the audit_retained functions).                                              *)
THEOREM DeterminantsCanBeReliedOn == LogDetSpec => []DeterminantsHold
<1>1. DeterminantInv => DeterminantsHold
  BY LadderSettles, AuditsAreEnough DEF DeterminantInv, DeterminantsHold
<1> QED BY <1>1, DeterminantsBegin, DeterminantsGoOn, PTL DEF LogDetSpec

--------------------------------------------------------------------------------
(***************************************************************************)
(* The selection of the blocks.                                            *)
(***************************************************************************)
SelectSpec == SelectInit /\ [][SelectNext]_<<model, choice>>

\* A policy is a block that compiles by itself; those tried are apart.
Policies == [names : SUBSET Names, method : {"bias_corrected_log_linear", "iterative_gls"}]

Apart(blocks) == \A i, j \in DOMAIN blocks : i # j => blocks[i].names \cap blocks[j].names = {}
Standing(blocks) == \A i \in DOMAIN blocks : Compiles(<<blocks[i]>>)
Holding(l, blocks, upto) == \E i \in DOMAIN blocks : i < upto /\ l \in blocks[i].names

Selecting ==
  [at : {"gates", "legacy", "seed", "singles", "merging", "automatic", "raised"}, turn : Nat,
   policies : Seq(Policies), groups : Seq(Policies)]

\* The groups of a merge hold what was merged so far, each in one of them.
Merged ==
  /\ choice.policies # << >> /\ Standing(choice.groups) /\ Apart(choice.groups)
  /\ choice.turn \in 1 .. Len(choice.policies) + 1
  /\ choice.turn > 1 => choice.groups # << >>
  /\ \A l \in Names :
       (\E i \in DOMAIN choice.groups : l \in choice.groups[i].names)
         <=> Holding(l, choice.policies, choice.turn)

SelectInv ==
  /\ model.seed \subseteq Names /\ choice \in Selecting /\ choice.at # "raised"
  /\ Standing(choice.policies) /\ Apart(choice.policies)
  /\ choice.at \in {"gates", "seed"} => choice.policies = << >> /\ choice.turn = 1
  /\ choice.at \in {"gates", "seed", "singles"} => choice.groups = << >>
  /\ choice.at = "singles" =>
       /\ choice.turn \in 1 .. Len(Parameters) + 1
       /\ \A i \in DOMAIN choice.policies : \A l \in choice.policies[i].names :
            l \in model.seed \/ \E k \in 1 .. (choice.turn - 1) : l = Parameters[k]
  /\ choice.at \in {"merging", "automatic"} => Merged
  /\ choice.at = "automatic" =>
       /\ choice.turn = Len(choice.policies) + 1
       /\ model.seed = {} \/ Enlarged

\* A compile of one block is of its names alone.
LEMMA CompileOfOne ==
  ASSUME NEW b
  PROVE  Compiles(<<b>>) <=>
           /\ \A l \in Others(b.names) : model.prior[l] # "discrete"
           /\ \A l \in b.names : model.prior[l] \in {"normal", "uniform"}
           /\ Within(b.names) /\ HasTerms(b) /\ Affine(b) /\ ~ Singular(b.names)
<1> DEFINE s == <<b>>
<1>1. DOMAIN s = {1} /\ s[1] = b /\ s # << >>
  OBVIOUS
<1> HIDE DEF s
<1>2. ToSet(s) = {b}
  BY <1>1 DEF ToSet
<1>3. UNION {x.names : x \in ToSet(s)} = b.names
  BY <1>2
<1>4. \A i, j \in DOMAIN s : i # j => s[i].names \cap s[j].names = {}
  BY <1>1
<1>5. Compiles(s) <=>
        /\ \A l \in Others(b.names) : model.prior[l] # "discrete"
        /\ \A x \in {b} :
             /\ \A l \in x.names : model.prior[l] \in {"normal", "uniform"}
             /\ Within(x.names) /\ HasTerms(x) /\ Affine(x) /\ ~ Singular(x.names)
  BY <1>1, <1>2, <1>3, <1>4 DEF Compiles
<1> QED BY <1>5 DEF s

\* Blocks that compile one by one, and are apart, compile together.
LEMMA CompileOfAll ==
  ASSUME NEW blocks \in Seq(Policies), blocks # << >>, Standing(blocks), Apart(blocks)
  PROVE  Compiles(blocks)
<1> DEFINE named == UNION {b.names : b \in ToSet(blocks)}
<1>1. 1 \in DOMAIN blocks
  OBVIOUS
<1>2. \A b \in ToSet(blocks) : Compiles(<<b>>)
  BY DEF Standing, ToSet
<1>3. blocks[1] \in ToSet(blocks)
  BY <1>1 DEF ToSet
<1>4. blocks[1].names \subseteq named
  BY <1>3
<1>5. \A l \in Others(named) : model.prior[l] # "discrete"
  <2> HIDE DEF named
  <2> QED BY <1>2, <1>3, <1>4, CompileOfOne DEF Others
<1>6. \A b \in ToSet(blocks) :
        /\ \A l \in b.names : model.prior[l] \in {"normal", "uniform"}
        /\ Within(b.names) /\ HasTerms(b) /\ Affine(b) /\ ~ Singular(b.names)
  BY <1>2, CompileOfOne
<1> QED BY <1>5, <1>6 DEF Compiles, Apart

\* A block more, apart from the others.
LEMMA OneMore ==
  ASSUME NEW blocks \in Seq(Policies), NEW b \in Policies, Standing(blocks), Apart(blocks),
         Compiles(<<b>>), \A i \in DOMAIN blocks : blocks[i].names \cap b.names = {}
  PROVE  LET more == Append(blocks, b)
         IN /\ more \in Seq(Policies) /\ Standing(more) /\ Apart(more)
            /\ Len(more) = Len(blocks) + 1 /\ DOMAIN more = 1 .. Len(blocks) + 1
            /\ more[Len(blocks) + 1] = b /\ \A i \in DOMAIN blocks : more[i] = blocks[i]
<1> DEFINE more == Append(blocks, b)
<1>1. /\ more \in Seq(Policies) /\ Len(more) = Len(blocks) + 1 /\ DOMAIN more = 1 .. Len(blocks) + 1
      /\ more[Len(blocks) + 1] = b /\ \A i \in DOMAIN blocks : more[i] = blocks[i]
      /\ DOMAIN blocks = 1 .. Len(blocks) /\ Len(blocks) \in Nat
  OBVIOUS
<1> HIDE DEF more
<1>2. \A i \in DOMAIN more : i \in DOMAIN blocks \/ i = Len(blocks) + 1
  BY <1>1
<1>3. Standing(more)
  BY <1>1, <1>2 DEF Standing
<1>4. Apart(more)
  BY <1>1, <1>2 DEF Apart
<1> QED BY <1>1, <1>3, <1>4 DEF more

\* Two blocks joined, and apart from the others still.
LEMMA OneLarger ==
  ASSUME NEW blocks \in Seq(Policies), NEW b \in Policies, NEW i \in DOMAIN blocks,
         Standing(blocks), Apart(blocks), Joins(blocks[i], b),
         \A j \in DOMAIN blocks : blocks[j].names \cap b.names = {}
  PROVE  LET joined == [blocks EXCEPT ![i].names = @ \cup b.names]
         IN /\ joined \in Seq(Policies) /\ Standing(joined) /\ Apart(joined)
            /\ DOMAIN joined = DOMAIN blocks
            /\ joined[i].names = blocks[i].names \cup b.names
            /\ \A j \in DOMAIN blocks \ {i} : joined[j] = blocks[j]
<1> DEFINE joined == [blocks EXCEPT ![i].names = @ \cup b.names]
           union == Proposes(blocks[i].names \cup b.names, b.method)
<1>1. blocks[i] \in Policies
  OBVIOUS
<1>2. union \in Policies /\ union.names = blocks[i].names \cup b.names
  BY <1>1 DEF Policies, Proposes
<1>3. [blocks[i] EXCEPT !.names = @ \cup b.names] = union
  <2>1. blocks[i] = [names |-> blocks[i].names, method |-> blocks[i].method]
    BY <1>1 DEF Policies
  <2>2. blocks[i].method = b.method
    BY DEF Joins
  <2>3. \A n, m, k : [[names |-> n, method |-> m] EXCEPT !.names = k] = [names |-> k, method |-> m]
    OBVIOUS
  <2>4. PICK n : n = blocks[i].names
    OBVIOUS
  <2>5. PICK m : m = blocks[i].method
    OBVIOUS
  <2>6. blocks[i] = [names |-> n, method |-> m]
    BY <2>1, <2>4, <2>5
  <2>7. PICK k : k = n \cup b.names
    OBVIOUS
  <2>8. [blocks[i] EXCEPT !.names = k] = [names |-> k, method |-> m]
    BY <2>3, <2>6
  <2> QED BY <2>2, <2>4, <2>5, <2>7, <2>8 DEF Proposes
<1>4. joined = [blocks EXCEPT ![i] = union]
  BY <1>3
<1> HIDE DEF union
<1>5. /\ joined \in Seq(Policies) /\ DOMAIN joined = DOMAIN blocks /\ joined[i] = union
      /\ \A j \in DOMAIN blocks \ {i} : joined[j] = blocks[j]
  <2>1. i \in 1 .. Len(blocks) /\ DOMAIN blocks = 1 .. Len(blocks)
    OBVIOUS
  <2>2. /\ joined \in Seq(Policies) /\ Len(joined) = Len(blocks)
        /\ \A j \in 1 .. Len(blocks) : joined[j] = IF j = i THEN union ELSE blocks[j]
    <3> HIDE DEF joined
    <3> QED BY <1>2, <1>4, <2>1, ExceptSeq
  <2> HIDE DEF joined
  <2>3. DOMAIN joined = 1 .. Len(joined)
    BY <2>2
  <2> QED BY <2>1, <2>2, <2>3
<1> HIDE DEF joined
<1>6. Compiles(<<union>>)
  BY DEF Joins, union
<1>7. Standing(joined)
  BY <1>5, <1>6 DEF Standing
<1>8. Apart(joined)
  BY <1>2, <1>5 DEF Apart
<1> QED BY <1>2, <1>5, <1>7, <1>8 DEF joined

\* Nothing is selected at the beginning.
LEMMA SelectionBegins == SelectInit => SelectInv
<1> SUFFICES ASSUME SelectInit PROVE SelectInv
  OBVIOUS
<1>1. model.seed \subseteq Names
  BY SeedsAssumption DEF SelectInit, Names
<1>2. << >> \in Seq(Policies)
  OBVIOUS
<1>3. choice \in Selecting
  BY <1>2 DEF SelectInit, Undecided, Selecting
<1>4. choice.at = "gates" /\ choice.turn = 1 /\ choice.policies = << >> /\ choice.groups = << >>
  BY DEF SelectInit, Undecided
<1>5. Standing(choice.policies) /\ Apart(choice.policies)
  BY <1>4 DEF Standing, Apart
<1> QED BY <1>1, <1>3, <1>4, <1>5 DEF SelectInv

\* What the model's facts do not change.
LEMMA SameFacts ==
  ASSUME model' = model
  PROVE  /\ \A blocks : Compiles(blocks)' = Compiles(blocks)
         /\ \A blocks : Standing(blocks)' = Standing(blocks)
<1>1. \A blocks : Compiles(blocks)' = Compiles(blocks)
  BY DEF Compiles, Others, Within, SizeOf, Elements, Below, Reached, HasTerms, Affine, Singular
<1> QED BY <1>1 DEF Standing

\* The fields of a choice.
LEMMA TypeOfChoice ==
  ASSUME choice \in Selecting
  PROVE  /\ choice.turn \in Nat /\ choice.policies \in Seq(Policies) /\ choice.groups \in Seq(Policies)
         /\ choice = [at |-> choice.at, turn |-> choice.turn, policies |-> choice.policies,
                      groups |-> choice.groups]
BY DEF Selecting

\* Selecting a single latent keeps the invariant.
LEMMA SingleKeeps ==
  ASSUME SelectInv, Single, model' = model
  PROVE  SelectInv'
<1>1. choice.at = "singles" /\ choice.turn <= Len(Parameters)
  BY DEF Single
<1> DEFINE l == Parameters[choice.turn]
           open == {k \in DOMAIN Methods : l \notin model.seed /\ Supports(l, Methods[k])}
<1>2. \/ choice' = [choice EXCEPT !.turn = @ + 1]
      \/ \E k \in open : choice' = [choice EXCEPT !.turn = @ + 1,
                                 !.policies = Append(@, Proposes({l}, Methods[k]))]
  BY DEF Single
<1>3. /\ choice.turn \in Nat /\ choice.policies \in Seq(Policies) /\ choice.groups = << >>
      /\ choice \in Selecting /\ choice.turn \in 1 .. Len(Parameters)
      /\ Standing(choice.policies) /\ Apart(choice.policies) /\ model'.seed \subseteq Names
      /\ \A i \in DOMAIN choice.policies : \A m \in choice.policies[i].names :
           m \in model.seed \/ \E k \in 1 .. (choice.turn - 1) : m = Parameters[k]
  BY <1>1, TypeOfChoice DEF SelectInv
<1>4. DOMAIN Parameters = 1 .. Len(Parameters) /\ Len(Parameters) \in Nat
  BY ParametersAssumption
<1>5. l \in Names
  BY <1>3, <1>4 DEF Names, ToSet
<1>6. CASE choice' = [choice EXCEPT !.turn = @ + 1]
  <2>1. /\ choice'.at = "singles" /\ choice'.turn = choice.turn + 1
        /\ choice'.policies = choice.policies /\ choice'.groups = << >> /\ choice' \in Selecting
    BY <1>1, <1>3, <1>6 DEF Selecting
  <2>2. choice'.turn \in 1 .. Len(Parameters) + 1
    BY <1>3, <1>4, <2>1
  <2>3. \A k \in 1 .. (choice.turn - 1) : k \in 1 .. (choice'.turn - 1)
    BY <1>3, <2>1
  <2>4. \A i \in DOMAIN choice'.policies : \A m \in choice'.policies[i].names :
           m \in model'.seed \/ \E k \in 1 .. (choice'.turn - 1) : m = Parameters[k]
    BY <1>3, <2>1, <2>3
  <2>5. Standing(choice.policies)' /\ Apart(choice.policies)'
    BY <1>3, <2>1, SameFacts DEF Apart, Standing
  <2> QED BY <1>3, <2>1, <2>2, <2>4, <2>5 DEF SelectInv
<1>7. ASSUME NEW k \in open,
             choice' = [choice EXCEPT !.turn = @ + 1,
                          !.policies = Append(@, Proposes({l}, Methods[k]))]
      PROVE  SelectInv'
  <2> DEFINE b == Proposes({l}, Methods[k])
  <2>1. Methods[k] \in {"bias_corrected_log_linear", "iterative_gls"}
    BY DEF Methods
  <2>2. b \in Policies /\ b.names = {l} /\ Compiles(<<b>>) /\ l \notin model.seed
    BY <1>5, <2>1 DEF Policies, Proposes, Supports
  <2> HIDE DEF b
  <2>3. \A j \in 1 .. (choice.turn - 1) : l # Parameters[j]
    BY <1>3, <1>4, ParametersAssumption
  <2>4. \A i \in DOMAIN choice.policies : choice.policies[i].names \cap b.names = {}
    <3> HIDE DEF l
    <3> QED BY <1>3, <2>2, <2>3
  <2> DEFINE more == Append(choice.policies, b)
  <2>5. /\ more \in Seq(Policies) /\ Standing(more) /\ Apart(more)
        /\ Len(more) = Len(choice.policies) + 1 /\ DOMAIN more = 1 .. Len(choice.policies) + 1
        /\ more[Len(choice.policies) + 1] = b
        /\ \A i \in DOMAIN choice.policies : more[i] = choice.policies[i]
    BY <1>3, <2>2, <2>4, OneMore
  <2> HIDE DEF more
  <2>6. choice' = [at |-> "singles", turn |-> choice.turn + 1, policies |-> more, groups |-> << >>]
    BY <1>1, <1>3, <1>7, TypeOfChoice DEF more, b
  <2>7. /\ choice'.at = "singles" /\ choice'.turn = choice.turn + 1
        /\ choice'.policies = more /\ choice'.groups = << >>
    BY <2>6
  <2>8. choice' \in Selecting
    <3>1. << >> \in Seq(Policies) /\ choice.turn + 1 \in Nat
      BY <1>3
    <3> QED BY <2>5, <2>6, <3>1 DEF Selecting
  <2>9. choice'.turn \in 1 .. Len(Parameters) + 1
    BY <1>3, <1>4, <2>7
  <2>10. ASSUME NEW i \in DOMAIN more, NEW m \in more[i].names
         PROVE  m \in model.seed \/ \E j \in 1 .. (choice.turn + 1 - 1) : m = Parameters[j]
    <3>1. CASE i \in DOMAIN choice.policies
      <4>1. m \in model.seed \/ \E j \in 1 .. (choice.turn - 1) : m = Parameters[j]
        BY <1>3, <2>5, <2>10, <3>1
      <4>2. \A j \in 1 .. (choice.turn - 1) : j \in 1 .. (choice.turn + 1 - 1)
        BY <1>3
      <4> QED BY <4>1, <4>2
    <3>2. CASE i = Len(choice.policies) + 1
      <4>1. m = Parameters[choice.turn]
        BY <2>2, <2>5, <2>10, <3>2
      <4>2. choice.turn \in 1 .. (choice.turn + 1 - 1)
        BY <1>3
      <4> QED BY <4>1, <4>2
    <3>3. i \in DOMAIN choice.policies \/ i = Len(choice.policies) + 1
      <4>1. DOMAIN choice.policies = 1 .. Len(choice.policies) /\ Len(choice.policies) \in Nat
        BY <1>3
      <4> QED BY <2>5, <4>1
    <3> QED BY <3>1, <3>2, <3>3
  <2>11. Standing(choice.policies)' /\ Apart(choice.policies)'
    BY <2>5, <2>7, SameFacts DEF Apart, Standing
  <2> QED BY <1>3, <2>7, <2>8, <2>9, <2>10, <2>11 DEF SelectInv
<1> QED BY <1>2, <1>6, <1>7

\* Merging two groups keeps the invariant.
LEMMA MergeKeeps ==
  ASSUME SelectInv, Merge, model' = model
  PROVE  SelectInv'
<1>1. choice.at = "merging" /\ choice.turn <= Len(choice.policies)
  BY DEF Merge
<1> DEFINE policies == choice.policies
           groups == choice.groups
           policy == policies[choice.turn]
           open == {i \in DOMAIN groups : Joins(groups[i], policy)}
           Wider(i) == [groups EXCEPT ![i].names = @ \cup policy.names]
<1>2. \/ choice' = [choice EXCEPT !.turn = @ + 1, !.groups = Append(@, policy)]
      \/ \E i \in open : choice' = [choice EXCEPT !.turn = @ + 1, !.groups = Wider(i)]
  BY DEF Merge
<1>3. /\ choice.turn \in Nat /\ policies \in Seq(Policies) /\ groups \in Seq(Policies)
      /\ choice \in Selecting /\ model'.seed \subseteq Names
      /\ Standing(policies) /\ Apart(policies) /\ Merged
  BY <1>1, TypeOfChoice DEF SelectInv
<1>4. /\ policies # << >> /\ Standing(groups) /\ Apart(groups)
      /\ choice.turn \in 1 .. Len(policies) + 1
      /\ \A l \in Names : (\E i \in DOMAIN groups : l \in groups[i].names)
                           <=> Holding(l, policies, choice.turn)
  BY <1>3 DEF Merged
<1>5. /\ choice = [at |-> "merging", turn |-> choice.turn, policies |-> policies, groups |-> groups]
  BY <1>1, <1>3, TypeOfChoice
<1> HIDE DEF policies, groups
<1>6. choice.turn \in DOMAIN policies /\ DOMAIN policies = 1 .. Len(policies) /\ Len(policies) \in Nat
  BY <1>1, <1>3, <1>4 DEF policies
<1>7. policy \in Policies /\ policy.names \subseteq Names /\ Compiles(<<policy>>)
  <2>1. policy \in Policies
    BY <1>3, <1>6
  <2>2. Compiles(<<policy>>)
    BY <1>3, <1>6 DEF Standing
  <2> HIDE DEF policy
  <2> QED BY <2>1, <2>2 DEF Policies
<1>8. \A i \in DOMAIN groups : groups[i] \in Policies /\ groups[i].names \subseteq Names
  <2>1. \A i \in DOMAIN groups : groups[i] \in Policies
    BY <1>3
  <2>2. \A b \in Policies : b.names \subseteq Names
    BY DEF Policies
  <2> QED BY <2>1, <2>2
<1>9. \A i \in DOMAIN groups : groups[i].names \cap policy.names = {}
  <2> SUFFICES ASSUME NEW i \in DOMAIN groups, NEW l \in groups[i].names, l \in policy.names
               PROVE  FALSE
    OBVIOUS
  <2>1. Holding(l, policies, choice.turn)
    BY <1>4, <1>8
  <2>2. PICK j \in DOMAIN policies : j < choice.turn /\ l \in policies[j].names
    BY <2>1 DEF Holding
  <2> QED BY <1>3, <1>6, <2>2 DEF Apart
<1>10. \A l \in Names : Holding(l, policies, choice.turn + 1)
                          <=> Holding(l, policies, choice.turn) \/ l \in policy.names
  BY <1>6 DEF Holding
<1>11. ASSUME NEW next \in Seq(Policies), Standing(next), Apart(next), next # << >>,
              \A l \in Names : (\E i \in DOMAIN next : l \in next[i].names)
                <=> (\E i \in DOMAIN groups : l \in groups[i].names) \/ l \in policy.names,
              choice' = [choice EXCEPT !.turn = @ + 1, !.groups = next]
       PROVE  SelectInv'
  <2>1. choice' = [at |-> "merging", turn |-> choice.turn + 1, policies |-> policies, groups |-> next]
    BY <1>1, <1>3, <1>11, TypeOfChoice DEF policies, Selecting
  <2>2. /\ choice'.at = "merging" /\ choice'.turn = choice.turn + 1
        /\ choice'.policies = policies /\ choice'.groups = next
    BY <2>1
  <2>3. choice' \in Selecting
    <3>1. choice.turn + 1 \in Nat
      BY <1>3
    <3> QED BY <1>3, <1>11, <2>1, <3>1 DEF Selecting
  <2>4. choice'.turn \in 1 .. Len(policies) + 1
    BY <1>1, <1>6, <2>2 DEF policies
  <2>5. \A l \in Names : (\E i \in DOMAIN next : l \in next[i].names)
                           <=> Holding(l, policies, choice.turn + 1)
    BY <1>4, <1>10, <1>11
  <2>6. Merged'
    <3>1. Standing(next)'
      BY <1>11, SameFacts DEF Standing
    <3>2. \A l \in Names : Holding(l, choice.policies, choice.turn)' = Holding(l, policies, choice.turn + 1)
      BY <2>2 DEF Holding
    <3>3. Standing(choice.groups)' /\ Apart(choice.groups)'
      BY <1>11, <2>2, SameFacts DEF Apart, Standing
    <3> QED BY <1>4, <1>11, <2>2, <2>4, <2>5, <3>2, <3>3 DEF Merged
  <2>7. Standing(choice.policies)' /\ Apart(choice.policies)'
    BY <1>3, <2>2, SameFacts DEF Apart, Standing
  <2> QED BY <1>3, <2>2, <2>3, <2>6, <2>7 DEF SelectInv
<1>12. CASE choice' = [choice EXCEPT !.turn = @ + 1, !.groups = Append(@, policy)]
  <2> DEFINE more == Append(groups, policy)
  <2> HIDE DEF policy
  <2>1. /\ more \in Seq(Policies) /\ Standing(more) /\ Apart(more)
        /\ Len(more) = Len(groups) + 1 /\ DOMAIN more = 1 .. Len(groups) + 1
        /\ more[Len(groups) + 1] = policy /\ \A i \in DOMAIN groups : more[i] = groups[i]
    BY <1>3, <1>4, <1>7, <1>9, OneMore
  <2> HIDE DEF more
  <2>2. more # << >> /\ Len(groups) \in Nat /\ DOMAIN groups = 1 .. Len(groups)
    BY <1>3, <2>1
  <2>3. DOMAIN more = DOMAIN groups \cup {Len(groups) + 1}
    BY <2>1, <2>2
  <2>4. \A l \in Names : (\E i \in DOMAIN more : l \in more[i].names)
                <=> (\E i \in DOMAIN groups : l \in groups[i].names) \/ l \in policy.names
    BY <2>1, <2>3
  <2>5. choice' = [choice EXCEPT !.turn = @ + 1, !.groups = more]
    BY <1>12 DEF more, groups
  <2> QED BY <1>11, <2>1, <2>2, <2>4, <2>5 DEF policy
<1>13. ASSUME NEW i \in open,
              choice' = [choice EXCEPT !.turn = @ + 1, !.groups = Wider(i)]
       PROVE  SelectInv'
  <2> DEFINE joined == Wider(i)
  <2>0. i \in DOMAIN groups /\ Joins(groups[i], policy)
    OBVIOUS
  <2> HIDE DEF policy
  <2>1. /\ joined \in Seq(Policies) /\ Standing(joined) /\ Apart(joined)
        /\ DOMAIN joined = DOMAIN groups
        /\ joined[i].names = groups[i].names \cup policy.names
        /\ \A j \in DOMAIN groups \ {i} : joined[j] = groups[j]
    BY <1>3, <1>4, <1>7, <1>9, <2>0, OneLarger
  <2>2. choice' = [choice EXCEPT !.turn = @ + 1, !.groups = joined]
    BY <1>13
  <2> HIDE DEF joined
  <2>3. joined # << >>
    BY <2>0, <2>1
  <2>4. \A l \in Names : (\E j \in DOMAIN joined : l \in joined[j].names)
                <=> (\E j \in DOMAIN groups : l \in groups[j].names) \/ l \in policy.names
    BY <2>0, <2>1
  <2> QED BY <1>11, <2>1, <2>2, <2>3, <2>4 DEF policy
<1> QED BY <1>2, <1>12, <1>13 DEF groups

\* Every step of the selection keeps it.
LEMMA SelectionGoesOn == SelectInv /\ [SelectNext]_<<model, choice>> => SelectInv'
<1> SUFFICES ASSUME SelectInv, [SelectNext]_<<model, choice>> PROVE SelectInv'
  OBVIOUS
<1>1. ASSUME UNCHANGED <<model, choice>> PROVE SelectInv'
  BY <1>1, SameFacts DEF SelectInv, Merged, Standing, Apart, Holding, Enlarged
<1>2. /\ choice \in Selecting /\ choice.policies \in Seq(Policies) /\ model.seed \subseteq Names
      /\ choice.turn \in Nat /\ choice.groups \in Seq(Policies) /\ Standing(choice.policies) /\ Apart(choice.policies)
      /\ choice = [at |-> choice.at, turn |-> choice.turn, policies |-> choice.policies,
                   groups |-> choice.groups]
  BY TypeOfChoice DEF SelectInv
\* A step that touches neither the policies nor the groups.
<1>3. ASSUME model' = model, NEW at \in {"legacy", "seed", "singles", "merging", "automatic"}, NEW next \in Nat,
             choice' = [at |-> at, turn |-> next, policies |-> choice.policies, groups |-> choice.groups]
      PROVE  /\ choice'.at = at /\ choice'.turn = next /\ choice'.policies = choice.policies
             /\ choice'.groups = choice.groups /\ choice' \in Selecting
             /\ model'.seed \subseteq Names /\ Standing(choice.policies)' /\ Apart(choice.policies)'
  <2>1. /\ choice'.at = at /\ choice'.turn = next /\ choice'.policies = choice.policies
        /\ choice'.groups = choice.groups
    BY <1>3
  <2>2. choice' \in Selecting
    BY <1>2, <1>3 DEF Selecting
  <2>3. Standing(choice.policies)' /\ Apart(choice.policies)'
    BY <1>2, <1>3, <2>1, SameFacts DEF Standing, Apart
  <2> QED BY <1>2, <1>3, <2>1, <2>2, <2>3
<1>4. CASE Gates /\ model' = model
  <2> DEFINE at == IF model.standard /\ model.point /\ model.moving THEN "seed" ELSE "legacy"
  <2>1. choice' = [choice EXCEPT !.at = at] /\ choice.at = "gates"
    BY <1>4 DEF Gates
  <2>2. at \in {"legacy", "seed"}
    OBVIOUS
  <2> HIDE DEF at
  <2>3. choice' = [at |-> at, turn |-> choice.turn, policies |-> choice.policies, groups |-> choice.groups]
    BY <1>2, <2>1
  <2> QED BY <1>2, <1>3, <1>4, <2>1, <2>2, <2>3 DEF SelectInv
<1>5. CASE Seed /\ model' = model
  <2> DEFINE block == Proposes(model.seed, "iterative_gls")
  <2>1. choice.at = "seed" /\ choice.policies = << >> /\ choice.turn = 1 /\ choice.groups = << >>
    BY <1>5 DEF Seed, SelectInv
  <2>2. \/ choice' = [choice EXCEPT !.at = "singles"]
        \/ Compiles(<<block>>) /\ choice' = [choice EXCEPT !.at = "singles", !.policies = <<block>>]
        \/ choice' = [choice EXCEPT !.at = "legacy"]
    BY <1>5 DEF Seed
  <2>3. Len(Parameters) \in Nat
    BY ParametersAssumption
  <2>4. CASE choice' = [choice EXCEPT !.at = "legacy"]
    <3>1. choice' = [at |-> "legacy", turn |-> choice.turn, policies |-> choice.policies, groups |-> choice.groups]
      BY <1>2, <2>4
    <3> QED BY <1>2, <1>3, <1>5, <3>1 DEF SelectInv
  <2>5. CASE choice' = [choice EXCEPT !.at = "singles"]
    <3>1. choice' = [at |-> "singles", turn |-> choice.turn, policies |-> choice.policies, groups |-> choice.groups]
      BY <1>2, <2>5
    <3> QED BY <1>2, <1>3, <1>5, <2>1, <2>3, <3>1 DEF SelectInv
  <2>6. CASE Compiles(<<block>>) /\ choice' = [choice EXCEPT !.at = "singles", !.policies = <<block>>]
    <3>1. block \in Policies /\ block.names = model.seed
      BY <1>2 DEF Policies, Proposes
    <3> HIDE DEF block
    <3>2. choice' = [at |-> "singles", turn |-> 1, policies |-> <<block>>, groups |-> << >>]
      BY <1>2, <2>1, <2>6
    <3>3. /\ choice'.at = "singles" /\ choice'.turn = 1 /\ choice'.policies = <<block>> /\ choice'.groups = << >>
      BY <3>2
    <3>4. <<block>> \in Seq(Policies) /\ << >> \in Seq(Policies) /\ DOMAIN <<block>> = {1} /\ <<block>>[1] = block
      BY <3>1
    <3>5. choice' \in Selecting
      BY <3>2, <3>4 DEF Selecting
    <3>6. Standing(<<block>>) /\ Apart(<<block>>)
      BY <2>6, <3>4 DEF Standing, Apart
    <3>7. Standing(choice.policies)' /\ Apart(choice.policies)'
      BY <1>5, <3>3, <3>6, SameFacts DEF Standing, Apart
    <3>8. \A i \in DOMAIN choice'.policies : \A l \in choice'.policies[i].names : l \in model'.seed
      BY <1>5, <3>1, <3>3, <3>4
    <3> QED BY <1>2, <1>5, <2>3, <3>3, <3>5, <3>7, <3>8 DEF SelectInv
  <2> QED BY <2>2, <2>4, <2>5, <2>6
<1>6. CASE Single /\ model' = model
  BY <1>6, SingleKeeps
<1>7. CASE Singles /\ model' = model
  <2> DEFINE at == IF choice.policies = << >> THEN "legacy" ELSE "merging"
  <2>1. choice' = [choice EXCEPT !.turn = 1, !.at = at] /\ choice.at = "singles"
    BY <1>7 DEF Singles
  <2>2. at \in {"legacy", "merging"} /\ (at = "merging" => choice.policies # << >>)
    OBVIOUS
  <2> HIDE DEF at
  <2>3. choice' = [at |-> at, turn |-> 1, policies |-> choice.policies, groups |-> choice.groups]
    BY <1>2, <2>1
  <2>4. /\ choice'.at = at /\ choice'.turn = 1 /\ choice'.policies = choice.policies
        /\ choice'.groups = << >> /\ choice' \in Selecting
        /\ model'.seed \subseteq Names /\ Standing(choice.policies)' /\ Apart(choice.policies)'
    BY <1>3, <1>7, <2>1, <2>2, <2>3 DEF SelectInv
  <2>5. ASSUME at = "merging" PROVE Merged'
    <3>1. Standing(choice.groups)' /\ Apart(choice.groups)'
      BY <2>4 DEF Standing, Apart
    <3>2. \A l \in Names : ~ Holding(l, choice.policies, choice.turn)'
      <4>1. \A i \in DOMAIN choice.policies : ~ (i < 1)
        BY <1>2
      <4> QED BY <2>4, <4>1 DEF Holding
    <3>3. 1 \in 1 .. Len(choice.policies) + 1
      BY <1>2
    <3> QED BY <2>2, <2>4, <2>5, <3>1, <3>2, <3>3 DEF Merged
  <2> QED BY <2>2, <2>4, <2>5 DEF SelectInv
<1>8. CASE Merge /\ model' = model
  BY <1>8, MergeKeeps
<1>9. CASE Settle /\ model' = model
  <2> DEFINE at == IF model.seed # {} /\ ~ Enlarged THEN "legacy"
                   ELSE IF Compiles(choice.groups) THEN "automatic" ELSE "raised"
  <2>1. choice' = [choice EXCEPT !.at = at] /\ choice.at = "merging" /\ choice.turn > Len(choice.policies)
    BY <1>9 DEF Settle
  <2>2. Merged
    BY <2>1 DEF SelectInv
  <2>3. choice.turn = Len(choice.policies) + 1 /\ choice.groups # << >>
    <3>1. choice.policies # << >> /\ Len(choice.policies) \in Nat /\ choice.turn \in 1 .. Len(choice.policies) + 1
      BY <1>2, <2>2 DEF Merged
    <3>2. Len(choice.policies) # 0
      BY <1>2, <3>1
    <3>3. choice.turn > 1 /\ choice.turn = Len(choice.policies) + 1
      BY <2>1, <3>1, <3>2
    <3> QED BY <2>2, <3>3 DEF Merged
  <2>4. Compiles(choice.groups)
    BY <1>2, <2>2, <2>3, CompileOfAll DEF Merged
  <2>5. at \in {"legacy", "automatic"} /\ (at = "automatic" => model.seed = {} \/ Enlarged)
    BY <2>4
  <2> HIDE DEF at
  <2>6. choice' = [at |-> at, turn |-> choice.turn, policies |-> choice.policies, groups |-> choice.groups]
    BY <1>2, <2>1
  <2>7. /\ choice'.at = at /\ choice'.turn = choice.turn /\ choice'.policies = choice.policies
        /\ choice'.groups = choice.groups /\ choice' \in Selecting
        /\ model'.seed \subseteq Names /\ Standing(choice.policies)' /\ Apart(choice.policies)'
    BY <1>2, <1>3, <1>9, <2>5, <2>6
  <2>8. Merged'
    BY <1>9, <2>2, <2>7, SameFacts DEF Merged, Standing, Apart, Holding
  <2>9. Enlarged' = Enlarged
    BY <1>9, <2>7 DEF Enlarged
  <2> QED BY <1>9, <2>3, <2>5, <2>7, <2>8, <2>9 DEF SelectInv
<1> QED BY <1>1, <1>4, <1>5, <1>6, <1>7, <1>8, <1>9 DEF SelectNext

\* The invariant says what is checked of the selection.
LEMMA SelectionIsSound == SelectInv => SelectionHolds
<1> SUFFICES ASSUME SelectInv PROVE SelectionHolds
  OBVIOUS
<1>1. /\ choice.at # "raised" /\ choice.policies \in Seq(Policies) /\ choice.groups \in Seq(Policies)
  BY TypeOfChoice DEF SelectInv
<1>2. ASSUME choice.at = "automatic", model.seed # {}
      PROVE  \E g \in ToSet(choice.groups) :
               model.seed \subseteq g.names /\ Cardinality(g.names) > Cardinality(model.seed)
  <2>1. PICK g \in ToSet(choice.groups) : model.seed \subseteq g.names /\ model.seed # g.names
    BY <1>2 DEF SelectInv, Enlarged
  <2>2. g.names \subseteq Names
    <3>1. \A i \in DOMAIN choice.groups : choice.groups[i] \in Policies
      BY <1>1
    <3>2. g \in Policies
      BY <3>1 DEF ToSet
    <3> QED BY <3>2 DEF Policies
  <2>3. IsFiniteSet(Names)
    <3> DEFINE n == Len(Parameters)
               at == [i \in 1 .. n |-> Parameters[i]]
    <3>1. n \in Nat /\ DOMAIN Parameters = 1 .. n
      BY ParametersAssumption
    <3>2. IsFiniteSet(1 .. n)
      BY <3>1, FS_Interval
    <3>3. at \in Surjection(1 .. n, Names)
      BY <3>1 DEF Surjection, Names, ToSet
    <3> QED BY <3>2, <3>3, FS_Surjection
  <2>4. IsFiniteSet(g.names)
    BY <2>2, <2>3, FS_Subset
  <2>5. Cardinality(model.seed) <= Cardinality(g.names) /\ Cardinality(model.seed) # Cardinality(g.names)
    BY <2>1, <2>4, FS_Subset
  <2>6. Cardinality(model.seed) \in Nat /\ Cardinality(g.names) \in Nat
    BY <2>1, <2>4, FS_Subset, FS_CardinalityType
  <2> QED BY <2>1, <2>5, <2>6
<1>3. ASSUME choice.at = "automatic", NEW l \in Names
      PROVE  Cardinality({i \in DOMAIN choice.groups : l \in choice.groups[i].names})
               = (IF \E p \in ToSet(choice.policies) : l \in p.names THEN 1 ELSE 0)
  <2> DEFINE holders == {i \in DOMAIN choice.groups : l \in choice.groups[i].names}
  <2>1. Merged /\ choice.turn = Len(choice.policies) + 1
    BY <1>3 DEF SelectInv
  <2>2. Holding(l, choice.policies, choice.turn) <=> \E p \in ToSet(choice.policies) : l \in p.names
    <3>1. \A i \in DOMAIN choice.policies : i < choice.turn
      BY <1>1, <2>1
    <3> QED BY <3>1 DEF Holding, ToSet
  <2>3. holders # {} <=> \E p \in ToSet(choice.policies) : l \in p.names
    BY <1>3, <2>1, <2>2 DEF Merged
  <2>4. \A i, j \in holders : i = j
    BY <2>1 DEF Merged, Apart
  <2> HIDE DEF holders
  <2>5. Cardinality(holders) = (IF holders = {} THEN 0 ELSE 1)
    <3>1. CASE holders = {}
      BY <3>1, FS_EmptySet
    <3>2. CASE holders # {}
      <4>1. PICK i : holders = {i}
        BY <2>4, <3>2
      <4> QED BY <4>1, FS_Singleton
    <3> QED BY <3>1, <3>2
  <2>6. Cardinality(holders)
          = (IF \E p \in ToSet(choice.policies) : l \in p.names THEN 1 ELSE 0)
    BY <2>3, <2>5
  <2> QED BY <2>6 DEF holders
<1> QED BY <1>1, <1>2, <1>3 DEF SelectionHolds

(* However many latents there are, and whatever is known of them: the blocks   *)
(* chosen for a posterior compile together if they were tried one by one, each *)
(* latent a policy was found for is in exactly one of them, and the block the  *)
(* legacy plan solves gives way only to a larger one (select_proposals,        *)
(* compile_proposals).                                                         *)
THEOREM SelectionIsSafe == SelectSpec => []SelectionHolds
<1> QED BY SelectionBegins, SelectionGoesOn, SelectionIsSound, PTL DEF SelectSpec

-----------------------------------------------------------------------------
\* Every nonempty set of natural numbers has a least element.
LEMMA LeastNumber ==
  ASSUME NEW T, T \subseteq Nat, T # {}
  PROVE  \E x \in T : \A y \in T : x <= y
<1> DEFINE R == OpToRel(<, Nat)
<1>1. IsWellFoundedOn(R, Nat)
  BY NatLessThanWellFounded
<1>2. \A x, y \in Nat : x < y => <<x, y>> \in R
  BY DEF OpToRel
<1> HIDE DEF R
<1>3. PICK x \in T : \A y \in T : ~(<<y, x>> \in R)
  BY <1>1, WFMin
<1>4. \A y \in T : x <= y
  <2> TAKE y \in T
  <2>1. x \in Nat /\ y \in Nat
    OBVIOUS
  <2>2. ~(y < x)
    BY <1>2, <1>3, <2>1
  <2> QED BY <2>1, <2>2
<1> QED BY <1>4

\* What holds of zero, and of a number if it holds of the one before, holds of
\* all the numbers up to a bound: P is the set of those it holds of.
LEMMA UpTo ==
  ASSUME NEW N \in Nat, NEW P, 0 \in P,
         \A n \in 1 .. N : n - 1 \in P => n \in P
  PROVE  \A n \in 0 .. N : n \in P
<1> DEFINE T == {n \in 0 .. N : n \notin P}
<1> SUFFICES ASSUME T # {} PROVE FALSE
  OBVIOUS
<1>0. T \subseteq Nat
  OBVIOUS
<1>1. PICK x \in T : \A y \in T : x <= y
  <2> HIDE DEF T
  <2> QED BY <1>0, LeastNumber
<1>2. x \in 1 .. N /\ x \notin P
  OBVIOUS
<1>3. x - 1 \in 0 .. N /\ ~(x <= x - 1)
  BY <1>2
<1>4. x - 1 \in P
  BY <1>1, <1>3
<1> QED BY <1>2, <1>4

-----------------------------------------------------------------------------
(***************************************************************************)
(* The two recursive functions, entry by entry.                            *)
(***************************************************************************)
Among(seq, set) ==
  CHOOSE f : f = [n \in 0 .. Len(seq) |->
    IF n = 0 THEN <<>>
    ELSE IF seq[n] \in set THEN Append(f[n - 1], seq[n]) ELSE f[n - 1]]

AmongUpTo(seq, set, m, f) ==
  f = [n \in 0 .. m |->
    IF n = 0 THEN <<>>
    ELSE IF seq[n] \in set THEN Append(f[n - 1], seq[n]) ELSE f[n - 1]]

LEMMA AmongIs ==
  ASSUME NEW seq, Len(seq) \in Nat, NEW set
  PROVE  AmongUpTo(seq, set, Len(seq), Among(seq, set))
<1> DEFINE P == {m \in Nat : \E f : AmongUpTo(seq, set, m, f)}
<1>1. 0 \in P
  <2>1. AmongUpTo(seq, set, 0, [n \in 0 .. 0 |-> <<>>])
    BY DEF AmongUpTo
  <2> QED BY <2>1
<1>2. ASSUME NEW m \in 1 .. Len(seq), m - 1 \in P
      PROVE  m \in P
  <2>1. PICK f : AmongUpTo(seq, set, m - 1, f)
    BY <1>2
  <2> DEFINE g == [n \in 0 .. m |-> IF n < m THEN f[n]
                     ELSE IF seq[m] \in set THEN Append(f[m - 1], seq[m]) ELSE f[m - 1]]
  <2>2. ASSUME NEW n \in 0 .. m
        PROVE  g[n] = IF n = 0 THEN <<>>
                      ELSE IF seq[n] \in set THEN Append(g[n - 1], seq[n]) ELSE g[n - 1]
    <3>1. CASE n = 0
      BY <2>1, <3>1 DEF AmongUpTo
    <3>2. CASE n # 0 /\ n < m
      <4>1. n \in 0 .. m - 1 /\ n - 1 \in 0 .. m /\ n - 1 < m
        BY <3>2
      <4>2. f[n] = IF seq[n] \in set THEN Append(f[n - 1], seq[n]) ELSE f[n - 1]
        BY <2>1, <3>2, <4>1 DEF AmongUpTo
      <4>3. g[n] = f[n] /\ g[n - 1] = f[n - 1]
        BY <3>2, <4>1
      <4> QED BY <3>2, <4>2, <4>3
    <3>3. CASE n = m
      <4>1. m - 1 \in 0 .. m /\ m - 1 < m /\ ~(m < m) /\ m # 0
        OBVIOUS
      <4>2. g[m - 1] = f[m - 1]
        BY <4>1
      <4> QED BY <3>3, <4>1, <4>2
    <3> QED BY <3>1, <3>2, <3>3
  <2>3. AmongUpTo(seq, set, m, g)
    <3> HIDE DEF g
    <3>1. g = [n \in 0 .. m |-> g[n]]
      BY DEF g
    <3> QED BY <2>2, <3>1 DEF AmongUpTo
  <2> QED BY <2>3
<1>3. Len(seq) \in P
  <2>1. \A n \in 0 .. Len(seq) : n \in P
    BY <1>1, <1>2, UpTo
  <2> QED BY <2>1
<1>4. PICK f : AmongUpTo(seq, set, Len(seq), f)
  BY <1>3
<1> QED BY <1>4 DEF Among, AmongUpTo

\* A filter picks entries of the sequence that are in the set, in their order.
Picks(seq, set, n, picked) ==
  /\ picked \in Seq({seq[j] : j \in 1 .. n})
  /\ \A i \in 1 .. Len(picked) : picked[i] \in set
  /\ \A i, k \in 1 .. Len(picked) : i < k =>
       \E j, l \in 1 .. n : j < l /\ picked[i] = seq[j] /\ picked[k] = seq[l]

LEMMA PicksOneMore ==
  ASSUME NEW seq, NEW set, NEW n \in Nat, n # 0, NEW picked, Picks(seq, set, n - 1, picked)
  PROVE  /\ Picks(seq, set, n, picked)
         /\ seq[n] \in set => Picks(seq, set, n, Append(picked, seq[n]))
<1> DEFINE Before == {seq[j] : j \in 1 .. n - 1}
           Now    == {seq[j] : j \in 1 .. n}
<1>1. Before \subseteq Now /\ seq[n] \in Now
  OBVIOUS
<1>2. picked \in Seq(Before) /\ picked \in Seq(Now)
  <2>1. picked \in Seq(Before)
    BY DEF Picks
  <2> HIDE DEF Before, Now
  <2> QED BY <1>1, <2>1, SeqMonotonic
<1>3. Picks(seq, set, n, picked)
  <2>1. \A i, k \in 1 .. Len(picked) : i < k =>
          \E j, l \in 1 .. n : j < l /\ picked[i] = seq[j] /\ picked[k] = seq[l]
    BY DEF Picks
  <2> QED BY <1>2, <2>1 DEF Picks
<1>4. ASSUME seq[n] \in set
      PROVE  Picks(seq, set, n, Append(picked, seq[n]))
  <2> DEFINE more == Append(picked, seq[n])
  <2>1. /\ more \in Seq(Now) /\ Len(more) = Len(picked) + 1 /\ Len(picked) \in Nat
        /\ \A i \in 1 .. Len(picked) : more[i] = picked[i]
        /\ more[Len(picked) + 1] = seq[n]
    <3> HIDE DEF Now
    <3> QED BY <1>1, <1>2, AppendProperties
  <2> HIDE DEF more
  <2>2. \A i \in 1 .. Len(more) : more[i] \in set
    <3> TAKE i \in 1 .. Len(more)
    <3>1. CASE i \in 1 .. Len(picked)
      BY <2>1, <3>1 DEF Picks
    <3>2. CASE i = Len(picked) + 1
      BY <2>1, <3>2, <1>4
    <3> QED BY <2>1, <3>1, <3>2
  <2>3. ASSUME NEW i \in 1 .. Len(more), NEW k \in 1 .. Len(more), i < k
        PROVE  \E j, l \in 1 .. n : j < l /\ more[i] = seq[j] /\ more[k] = seq[l]
    <3>1. CASE k \in 1 .. Len(picked)
      <4>1. i \in 1 .. Len(picked)
        BY <2>1, <2>3, <3>1
      <4>2. PICK j \in 1 .. n - 1, l \in 1 .. n - 1 : j < l /\ picked[i] = seq[j] /\ picked[k] = seq[l]
        BY <2>3, <3>1, <4>1 DEF Picks
      <4> QED BY <2>1, <3>1, <4>1, <4>2
    <3>2. CASE k = Len(picked) + 1
      <4>1. i \in 1 .. Len(picked)
        BY <2>1, <2>3, <3>2
      <4>2. PICK j \in 1 .. n - 1 : picked[i] = seq[j]
        <5>1. picked[i] \in Before
          <6> HIDE DEF Before
          <6> QED BY <1>2, <4>1, ElementOfSeq
        <5> QED BY <5>1
      <4>3. j \in 1 .. n /\ n \in 1 .. n /\ j < n
        OBVIOUS
      <4> QED BY <2>1, <3>2, <4>1, <4>2, <4>3
    <3> QED BY <2>1, <3>1, <3>2
  <2>4. Picks(seq, set, n, more)
    BY <2>1, <2>2, <2>3 DEF Picks
  <2> QED BY <2>4 DEF more
<1> QED BY <1>3, <1>4

LEMMA OnlyPicks ==
  ASSUME NEW X, NEW seq \in Seq(X), NEW set
  PROVE  Picks(seq, set, Len(seq), Only(seq, set))
<1>1. Len(seq) \in Nat
  OBVIOUS
<1> DEFINE f == Among(seq, set)
           P == {n \in Nat : Picks(seq, set, n, f[n])}
<1>2. AmongUpTo(seq, set, Len(seq), f)
  BY <1>1, AmongIs
<1>3. /\ f[0] = <<>>
      /\ \A n \in 1 .. Len(seq) :
           f[n] = IF seq[n] \in set THEN Append(f[n - 1], seq[n]) ELSE f[n - 1]
  <2> HIDE DEF f
  <2>1. \A n \in 0 .. Len(seq) :
          f[n] = IF n = 0 THEN <<>>
                 ELSE IF seq[n] \in set THEN Append(f[n - 1], seq[n]) ELSE f[n - 1]
    <3> TAKE m \in 0 .. Len(seq)
    <3> QED BY <1>2 DEF AmongUpTo
  <2>2. 0 \in 0 .. Len(seq) /\ \A n \in 1 .. Len(seq) : n \in 0 .. Len(seq) /\ n # 0
    BY <1>1
  <2> QED BY <2>1, <2>2
<1>4. Only(seq, set) = f[Len(seq)]
  BY DEF Only, Among
<1> HIDE DEF f
<1>5. 0 \in P
  <2>1. /\ <<>> \in Seq({seq[j] : j \in 1 .. 0}) /\ Len(<<>>) = 0
        /\ \A i \in 1 .. 0 : FALSE
    OBVIOUS
  <2>2. Picks(seq, set, 0, <<>>)
    BY <2>1 DEF Picks
  <2> QED BY <1>3, <2>2
<1>6. ASSUME NEW n \in 1 .. Len(seq), n - 1 \in P
      PROVE  n \in P
  <2>1. n \in Nat /\ n # 0 /\ Picks(seq, set, n - 1, f[n - 1])
    BY <1>6
  <2>2. /\ Picks(seq, set, n, f[n - 1])
        /\ seq[n] \in set => Picks(seq, set, n, Append(f[n - 1], seq[n]))
    BY <2>1, PicksOneMore
  <2>3. f[n] = IF seq[n] \in set THEN Append(f[n - 1], seq[n]) ELSE f[n - 1]
    BY <1>3
  <2>4. Picks(seq, set, n, f[n])
    BY <2>2, <2>3
  <2> QED BY <2>1, <2>4
<1>7. \A n \in 0 .. Len(seq) : n \in P
  <2> HIDE DEF P
  <2> QED BY <1>1, <1>5, <1>6, UpTo
<1> QED BY <1>1, <1>4, <1>7

\* What a filter leaves are entries of the sequence that are in the set, from
\* positions of their own.
LEMMA OnlyIs ==
  ASSUME NEW X, NEW seq \in Seq(X), NEW set
  PROVE  /\ Only(seq, set) \in Seq(X)
         /\ \A i \in DOMAIN Only(seq, set) :
              Only(seq, set)[i] \in set /\ \E j \in DOMAIN seq : Only(seq, set)[i] = seq[j]
         /\ \A i, k \in DOMAIN Only(seq, set) : i # k =>
              \E j, l \in DOMAIN seq :
                j # l /\ Only(seq, set)[i] = seq[j] /\ Only(seq, set)[k] = seq[l]
<1> DEFINE picked == Only(seq, set)
           Entries == {seq[j] : j \in 1 .. Len(seq)}
<1>1. Picks(seq, set, Len(seq), picked)
  BY OnlyPicks
<1> HIDE DEF picked
<1>2. DOMAIN seq = 1 .. Len(seq) /\ Len(seq) \in Nat /\ Entries \subseteq X
  OBVIOUS
<1>3. picked \in Seq(Entries)
  BY <1>1 DEF Picks
<1>4. picked \in Seq(X) /\ DOMAIN picked = 1 .. Len(picked) /\ Len(picked) \in Nat
  <2> HIDE DEF Entries
  <2>1. picked \in Seq(X)
    BY <1>2, <1>3, SeqMonotonic
  <2> QED BY <2>1
<1>5. ASSUME NEW i \in DOMAIN picked
      PROVE  picked[i] \in set /\ \E j \in DOMAIN seq : picked[i] = seq[j]
  <2>1. picked[i] \in Entries
    <3> HIDE DEF Entries
    <3> QED BY <1>3, <1>4, ElementOfSeq
  <2> QED BY <1>1, <1>2, <1>4, <2>1 DEF Picks
<1>6. ASSUME NEW i \in DOMAIN picked, NEW k \in DOMAIN picked, i # k
      PROVE  \E j, l \in DOMAIN seq : j # l /\ picked[i] = seq[j] /\ picked[k] = seq[l]
  <2>1. i \in Nat /\ k \in Nat /\ (i < k \/ k < i)
    BY <1>4, <1>6
  <2>0. \A x, w \in 1 .. Len(picked) : x < w =>
          \E j, l \in 1 .. Len(seq) : j < l /\ picked[x] = seq[j] /\ picked[w] = seq[l]
    BY <1>1 DEF Picks
  <2>4. i \in 1 .. Len(picked) /\ k \in 1 .. Len(picked)
    BY <1>4, <1>6
  <2>2. CASE i < k
    <3>1. PICK j \in 1 .. Len(seq), l \in 1 .. Len(seq) :
            j < l /\ picked[i] = seq[j] /\ picked[k] = seq[l]
      BY <2>0, <2>4, <2>2
    <3>2. j # l
      BY <1>2, <3>1
    <3> QED BY <1>2, <3>1, <3>2
  <2>3. CASE k < i
    <3>1. PICK j \in 1 .. Len(seq), l \in 1 .. Len(seq) :
            j < l /\ picked[k] = seq[j] /\ picked[i] = seq[l]
      BY <2>0, <2>4, <2>3
    <3>2. j # l
      BY <1>2, <3>1
    <3> QED BY <1>2, <3>1, <3>2
  <2> QED BY <2>1, <2>2, <2>3
<1>7. /\ picked \in Seq(X)
      /\ \A i \in DOMAIN picked : picked[i] \in set /\ \E j \in DOMAIN seq : picked[i] = seq[j]
      /\ \A i, k \in DOMAIN picked : i # k =>
           \E j, l \in DOMAIN seq : j # l /\ picked[i] = seq[j] /\ picked[k] = seq[l]
  BY <1>4, <1>5, <1>6
<1> QED BY <1>7 DEF picked

After(names, pairs) ==
  CHOOSE f : f = [n \in 0 .. Len(Latents) |->
    IF n = 0 THEN <<>>
    ELSE IF Latents[n] \in names THEN Place(f[n - 1], Latents[n], pairs) ELSE f[n - 1]]

AfterUpTo(names, pairs, m, f) ==
  f = [n \in 0 .. m |->
    IF n = 0 THEN <<>>
    ELSE IF Latents[n] \in names THEN Place(f[n - 1], Latents[n], pairs) ELSE f[n - 1]]

LEMMA AfterIs ==
  ASSUME NEW names, NEW pairs
  PROVE  AfterUpTo(names, pairs, Len(Latents), After(names, pairs))
<1>0. Len(Latents) \in Nat
  BY LatentsAssumption
<1> DEFINE P == {m \in Nat : \E f : AfterUpTo(names, pairs, m, f)}
<1>1. 0 \in P
  <2>1. AfterUpTo(names, pairs, 0, [n \in 0 .. 0 |-> <<>>])
    BY DEF AfterUpTo
  <2> QED BY <2>1
<1>2. ASSUME NEW m \in 1 .. Len(Latents), m - 1 \in P
      PROVE  m \in P
  <2>1. PICK f : AfterUpTo(names, pairs, m - 1, f)
    BY <1>2
  <2> DEFINE g == [n \in 0 .. m |-> IF n < m THEN f[n]
                     ELSE IF Latents[m] \in names THEN Place(f[m - 1], Latents[m], pairs) ELSE f[m - 1]]
  <2>2. ASSUME NEW n \in 0 .. m
        PROVE  g[n] = IF n = 0 THEN <<>>
                      ELSE IF Latents[n] \in names THEN Place(g[n - 1], Latents[n], pairs) ELSE g[n - 1]
    <3>1. CASE n = 0
      BY <2>1, <3>1 DEF AfterUpTo
    <3>2. CASE n # 0 /\ n < m
      <4>1. n \in 0 .. m - 1 /\ n - 1 \in 0 .. m /\ n - 1 < m
        BY <3>2
      <4>2. f[n] = IF Latents[n] \in names THEN Place(f[n - 1], Latents[n], pairs) ELSE f[n - 1]
        BY <2>1, <3>2, <4>1 DEF AfterUpTo
      <4>3. g[n] = f[n] /\ g[n - 1] = f[n - 1]
        BY <3>2, <4>1
      <4> QED BY <3>2, <4>2, <4>3
    <3>3. CASE n = m
      <4>1. m - 1 \in 0 .. m /\ m - 1 < m /\ ~(m < m) /\ m # 0
        OBVIOUS
      <4>2. g[m - 1] = f[m - 1]
        BY <4>1
      <4> QED BY <3>3, <4>1, <4>2
    <3> QED BY <3>1, <3>2, <3>3
  <2>3. AfterUpTo(names, pairs, m, g)
    <3> HIDE DEF g
    <3>1. g = [n \in 0 .. m |-> g[n]]
      BY DEF g
    <3> QED BY <2>2, <3>1 DEF AfterUpTo
  <2> QED BY <2>3
<1>3. Len(Latents) \in P
  <2>1. \A n \in 0 .. Len(Latents) : n \in P
    BY <1>0, <1>1, <1>2, UpTo
  <2> QED BY <1>0, <2>1
<1>4. PICK f : AfterUpTo(names, pairs, Len(Latents), f)
  BY <1>3
<1> QED BY <1>4 DEF After, AfterUpTo

\* The groups of the latents met so far: a group holds only what was asked for,
\* no two share a latent, and what is in one group goes together in pairs.
GroupsFit(names, pairs, n, groups) ==
  /\ groups \in Seq(SUBSET LatentSet)
  /\ \A i \in 1 .. Len(groups) : groups[i] \subseteq names \cap {Latents[k] : k \in 1 .. n}
  /\ \A i \in 1 .. Len(groups) : \A p \in Pairs : p \subseteq groups[i] => p \in pairs
  /\ \A i, j \in 1 .. Len(groups) : i # j => groups[i] \cap groups[j] = {}

\* A latent that is placed joins a group it goes together with, or opens one.
LEMMA PlaceFits ==
  ASSUME NEW names, NEW pairs, NEW n \in 1 .. Len(Latents), Latents[n] \in names,
         NEW groups, GroupsFit(names, pairs, n - 1, groups)
  PROVE  GroupsFit(names, pairs, n, Place(groups, Latents[n], pairs))
<1> DEFINE name == Latents[n]
           fit == {i \in DOMAIN groups : Joint(pairs, groups[i], name)}
           Before == {Latents[k] : k \in 1 .. n - 1}
           Now == {Latents[k] : k \in 1 .. n}
<1>1. /\ Latents \in Seq(LatentSet) /\ DOMAIN Latents = 1 .. Len(Latents) /\ Len(Latents) \in Nat
      /\ name \in LatentSet
  BY LatentsAssumption DEF LatentSet
<1>2. name \notin Before /\ Before \subseteq Now /\ name \in Now
  <2>1. \A k \in 1 .. n - 1 : k \in DOMAIN Latents /\ k # n /\ k \in 1 .. n
    BY <1>1
  <2>2. n \in DOMAIN Latents /\ n \in 1 .. n
    BY <1>1
  <2> QED BY <2>1, <2>2, LatentsAssumption
<1> HIDE DEF Before, Now
<1>3. /\ groups \in Seq(SUBSET LatentSet) /\ DOMAIN groups = 1 .. Len(groups) /\ Len(groups) \in Nat
      /\ \A i \in DOMAIN groups : groups[i] \subseteq LatentSet
  <2>1. groups \in Seq(SUBSET LatentSet)
    BY DEF GroupsFit
  <2>2. \A i \in 1 .. Len(groups) : groups[i] \in SUBSET LatentSet
    BY <2>1, ElementOfSeq
  <2> QED BY <2>1, <2>2
<1>4. /\ \A i \in DOMAIN groups : groups[i] \subseteq names \cap Before
      /\ \A i \in DOMAIN groups : \A p \in Pairs : p \subseteq groups[i] => p \in pairs
      /\ \A i, j \in DOMAIN groups : i # j => groups[i] \cap groups[j] = {}
  BY <1>3 DEF GroupsFit, Before
\* A pair within a group and one more.
<1>5. ASSUME NEW group, Joint(pairs, group, name), name \notin group,
             \A p \in Pairs : p \subseteq group => p \in pairs,
             NEW p \in Pairs, p \subseteq group \cup {name}
      PROVE  p \in pairs
  <2>1. PICK x \in p, y \in p : x # y /\ p = {x, y}
    BY DEF Pairs
  <2>2. CASE x \in group /\ y \in group
    BY <1>5, <2>1, <2>2
  <2>3. CASE x = name
    BY <1>5, <2>1, <2>3 DEF Joint
  <2>4. CASE y = name
    <3>1. p = {x, name}
      BY <2>1, <2>4
    <3>2. x \in group
      BY <1>5, <2>1, <2>4
    <3> QED BY <1>5, <3>1, <3>2 DEF Joint
  <2> QED BY <1>5, <2>1, <2>2, <2>3, <2>4
<1>6. CASE fit = {}
  <2> DEFINE more == Append(groups, {name})
  <2>1. Place(groups, name, pairs) = more
    BY <1>6 DEF Place
  <2>2. /\ more \in Seq(SUBSET LatentSet) /\ Len(more) = Len(groups) + 1
        /\ \A i \in 1 .. Len(groups) : more[i] = groups[i]
        /\ more[Len(groups) + 1] = {name}
    <3>1. {name} \in SUBSET LatentSet
      BY <1>1
    <3> HIDE DEF name
    <3> QED BY <1>3, <3>1, AppendProperties
  <2> HIDE DEF more
  <2>3. \A i \in 1 .. Len(more) : i \in DOMAIN groups \/ (more[i] = {name} /\ i = Len(groups) + 1)
    BY <1>3, <2>2
  <2>4. \A i \in 1 .. Len(more) : more[i] \subseteq names \cap Now
    BY <1>2, <1>3, <1>4, <2>2, <2>3
  <2>5. \A i \in 1 .. Len(more) : \A p \in Pairs : p \subseteq more[i] => p \in pairs
    <3> TAKE i \in 1 .. Len(more)
    <3> TAKE p \in Pairs
    <3> HAVE p \subseteq more[i]
    <3>1. PICK x \in p, y \in p : x # y
      BY DEF Pairs
    <3>2. i \in DOMAIN groups
      BY <2>3, <3>1
    <3> QED BY <1>3, <1>4, <2>2, <3>2
  <2>6. \A i, j \in 1 .. Len(more) : i # j => more[i] \cap more[j] = {}
    <3> TAKE i, j \in 1 .. Len(more)
    <3> HAVE i # j
    <3>1. CASE i \in DOMAIN groups /\ j \in DOMAIN groups
      BY <1>3, <1>4, <2>2, <3>1
    <3>2. CASE i \in DOMAIN groups /\ j \notin DOMAIN groups
      BY <1>2, <1>3, <1>4, <2>2, <2>3, <3>2
    <3>3. CASE i \notin DOMAIN groups /\ j \in DOMAIN groups
      BY <1>2, <1>3, <1>4, <2>2, <2>3, <3>3
    <3> QED BY <2>3, <3>1, <3>2, <3>3
  <2> QED BY <2>1, <2>2, <2>4, <2>5, <2>6 DEF GroupsFit, Now
<1>7. CASE fit # {}
  <2> DEFINE first == CHOOSE i \in fit : \A j \in fit : i <= j
             more == [groups EXCEPT ![first] = @ \cup {name}]
  <2>1. first \in fit
    <3>1. fit \subseteq Nat
      BY <1>3
    <3>2. \E i \in fit : \A j \in fit : i <= j
      <4> HIDE DEF fit
      <4> QED BY <1>7, <3>1, LeastNumber
    <3> HIDE DEF fit
    <3> QED BY <3>2
  <2>2. Place(groups, name, pairs) = more
    BY <1>7 DEF Place
  <2> HIDE DEF first
  <2>3. first \in DOMAIN groups /\ Joint(pairs, groups[first], name)
    BY <2>1
  <2>4. more \in Seq(SUBSET LatentSet) /\ DOMAIN more = DOMAIN groups /\ Len(more) = Len(groups)
    <3>1. groups[first] \cup {name} \in SUBSET LatentSet
      BY <1>1, <1>3, <2>3
    <3> HIDE DEF name
    <3> QED BY <1>3, <2>3, <3>1, ExceptSeq
  <2>5. \A i \in DOMAIN groups : more[i] = IF i = first THEN groups[i] \cup {name} ELSE groups[i]
    BY <2>3
  <2> HIDE DEF more
  <2>6. name \notin groups[first]
    BY <1>2, <1>4, <2>3
  <2>7. \A i \in 1 .. Len(more) : more[i] \subseteq names \cap Now
    BY <1>2, <1>3, <1>4, <2>4, <2>5
  <2>8. \A i \in 1 .. Len(more) : \A p \in Pairs : p \subseteq more[i] => p \in pairs
    <3> TAKE i \in 1 .. Len(more)
    <3>1. i \in DOMAIN groups
      BY <1>3, <2>4
    <3>2. CASE i = first
      <4>1. more[i] = groups[first] \cup {name}
        BY <2>5, <3>1, <3>2
      <4>2. \A p \in Pairs : p \subseteq groups[first] => p \in pairs
        BY <1>4, <2>3
      <4> QED BY <1>5, <2>3, <2>6, <4>1, <4>2
    <3>3. CASE i # first
      BY <1>4, <2>5, <3>1, <3>3
    <3> QED BY <3>2, <3>3
  <2>9. \A i, j \in 1 .. Len(more) : i # j => more[i] \cap more[j] = {}
    BY <1>2, <1>3, <1>4, <2>4, <2>5
  <2> QED BY <2>2, <2>4, <2>7, <2>8, <2>9 DEF GroupsFit, Now
<1> QED BY <1>6, <1>7

LEMMA FirstFitFits ==
  ASSUME NEW names, NEW pairs
  PROVE  GroupsFit(names, pairs, Len(Latents), FirstFit(names, pairs))
<1>1. Len(Latents) \in Nat
  BY LatentsAssumption
<1> DEFINE f == After(names, pairs)
           P == {n \in Nat : GroupsFit(names, pairs, n, f[n])}
<1>2. AfterUpTo(names, pairs, Len(Latents), f)
  BY AfterIs
<1>3. /\ f[0] = <<>>
      /\ \A n \in 1 .. Len(Latents) :
           f[n] = IF Latents[n] \in names THEN Place(f[n - 1], Latents[n], pairs) ELSE f[n - 1]
  <2> HIDE DEF f
  <2>1. \A n \in 0 .. Len(Latents) :
          f[n] = IF n = 0 THEN <<>>
                 ELSE IF Latents[n] \in names THEN Place(f[n - 1], Latents[n], pairs) ELSE f[n - 1]
    <3> TAKE m \in 0 .. Len(Latents)
    <3> QED BY <1>2 DEF AfterUpTo
  <2>2. 0 \in 0 .. Len(Latents) /\ \A n \in 1 .. Len(Latents) : n \in 0 .. Len(Latents) /\ n # 0
    BY <1>1
  <2> QED BY <2>1, <2>2
<1>4. FirstFit(names, pairs) = f[Len(Latents)]
  BY DEF FirstFit, After
<1> HIDE DEF f
<1>5. 0 \in P
  <2>1. <<>> \in Seq(SUBSET LatentSet) /\ Len(<<>>) = 0 /\ \A i \in 1 .. 0 : FALSE
    OBVIOUS
  <2>2. GroupsFit(names, pairs, 0, <<>>)
    BY <2>1 DEF GroupsFit
  <2> QED BY <1>3, <2>2
<1>6. ASSUME NEW n \in 1 .. Len(Latents), n - 1 \in P
      PROVE  n \in P
  <2>1. n \in Nat /\ GroupsFit(names, pairs, n - 1, f[n - 1])
    BY <1>6
  <2>2. f[n] = IF Latents[n] \in names THEN Place(f[n - 1], Latents[n], pairs) ELSE f[n - 1]
    BY <1>3
  <2>3. CASE Latents[n] \in names
    BY <2>1, <2>2, <2>3, PlaceFits
  <2>4. CASE Latents[n] \notin names
    <3>1. {Latents[k] : k \in 1 .. n - 1} \subseteq {Latents[k] : k \in 1 .. n}
      BY <2>1
    <3> QED BY <2>1, <2>2, <2>4, <3>1 DEF GroupsFit
  <2> QED BY <2>1, <2>3, <2>4
<1>7. \A n \in 0 .. Len(Latents) : n \in P
  <2> HIDE DEF P
  <2> QED BY <1>1, <1>5, <1>6, UpTo
<1> QED BY <1>1, <1>4, <1>7

-----------------------------------------------------------------------------
(***************************************************************************)
(* The blocks of a derived plan.                                           *)
(***************************************************************************)
PairsOf(group) == {p \in Pairs : p \subseteq group}

\* A block the linear pass, or the log pass, may solve in closed form.
SolvableLinear(f, group) ==
  /\ group \subseteq Candidates(f) /\ PairsOf(group) \subseteq f.together
  /\ ~SigmaMoves(f, group)

SolvableLog(f, group) ==
  /\ group \subseteq Remaining(f) \cap LogAlone(f)
  /\ PairsOf(group) \subseteq f.logTogether

Disjoint(groups) == \A i, j \in DOMAIN groups : i # j => groups[i] \cap groups[j] = {}

LEMMA FirstFitIs ==
  ASSUME NEW names, NEW pairs
  PROVE  LET groups == FirstFit(names, pairs)
         IN /\ groups \in Seq(SUBSET LatentSet) /\ Disjoint(groups)
            /\ \A i \in DOMAIN groups : groups[i] \subseteq names /\ PairsOf(groups[i]) \subseteq pairs
<1> DEFINE groups == FirstFit(names, pairs)
<1>1. GroupsFit(names, pairs, Len(Latents), groups)
  BY FirstFitFits
<1> HIDE DEF groups
<1>2. groups \in Seq(SUBSET LatentSet)
  BY <1>1 DEF GroupsFit
<1>3. DOMAIN groups = 1 .. Len(groups)
  BY <1>2
<1>4. Disjoint(groups)
  BY <1>1, <1>3 DEF GroupsFit, Disjoint
<1>5. \A i \in DOMAIN groups : groups[i] \subseteq names /\ PairsOf(groups[i]) \subseteq pairs
  BY <1>1, <1>3 DEF GroupsFit, PairsOf
<1> QED BY <1>2, <1>4, <1>5 DEF groups

\* Filtered groups keep what holds of them.
LEMMA FilteredGroups ==
  ASSUME NEW groups \in Seq(SUBSET LatentSet), Disjoint(groups), NEW set
  PROVE  LET left == Only(groups, set)
         IN /\ left \in Seq(SUBSET LatentSet) /\ Disjoint(left)
            /\ \A i \in DOMAIN left : left[i] \in set /\ \E j \in DOMAIN groups : left[i] = groups[j]
<1> DEFINE left == Only(groups, set)
<1>1. /\ left \in Seq(SUBSET LatentSet)
      /\ \A i \in DOMAIN left : left[i] \in set /\ \E j \in DOMAIN groups : left[i] = groups[j]
      /\ \A i, k \in DOMAIN left : i # k =>
           \E j, l \in DOMAIN groups : j # l /\ left[i] = groups[j] /\ left[k] = groups[l]
  BY OnlyIs
<1> HIDE DEF left
<1>2. Disjoint(left)
  BY <1>1 DEF Disjoint
<1> QED BY <1>1, <1>2 DEF left

LEMMA LinearGroupsAre ==
  ASSUME NEW f
  PROVE  /\ LinearGroups(f) \in Seq(SUBSET LatentSet) /\ Disjoint(LinearGroups(f))
         /\ \A i \in DOMAIN LinearGroups(f) :
              /\ LinearGroups(f)[i] \subseteq Candidates(f)
              /\ PairsOf(LinearGroups(f)[i]) \subseteq f.together
<1> DEFINE first == FirstFit(Candidates(f), f.together)
           set == {group \in SUBSET LatentSet : Cardinality(group) = 1 \/ f.probed}
<1>1. /\ first \in Seq(SUBSET LatentSet) /\ Disjoint(first)
      /\ \A i \in DOMAIN first :
           first[i] \subseteq Candidates(f) /\ PairsOf(first[i]) \subseteq f.together
  BY FirstFitIs
<1>2. LinearGroups(f) = Only(first, set)
  BY DEF LinearGroups
<1> HIDE DEF first, set
<1>3. /\ Only(first, set) \in Seq(SUBSET LatentSet) /\ Disjoint(Only(first, set))
      /\ \A i \in DOMAIN Only(first, set) : \E j \in DOMAIN first : Only(first, set)[i] = first[j]
  BY <1>1, FilteredGroups
<1> QED BY <1>1, <1>2, <1>3

LEMMA BlocksAre ==
  ASSUME NEW groups \in Seq(SUBSET LatentSet), NEW method
  PROVE  /\ Blocks(groups, method) \in Seq([latents : SUBSET LatentSet, method : {method}])
         /\ DOMAIN Blocks(groups, method) = DOMAIN groups
         /\ Len(Blocks(groups, method)) = Len(groups)
         /\ \A i \in DOMAIN groups : Blocks(groups, method)[i] = Block(groups[i], method)
<1>1. DOMAIN groups = 1 .. Len(groups) /\ Len(groups) \in Nat
  OBVIOUS
<1>2. \A i \in 1 .. Len(groups) : groups[i] \in SUBSET LatentSet
  BY ElementOfSeq
<1>3. \A i \in 1 .. Len(groups) :
        Block(groups[i], method) \in [latents : SUBSET LatentSet, method : {method}]
  BY <1>2 DEF Block
<1>4. Blocks(groups, method) = [i \in 1 .. Len(groups) |-> Block(groups[i], method)]
  BY <1>1 DEF Blocks
<1>5. Blocks(groups, method) \in Seq([latents : SUBSET LatentSet, method : {method}])
  BY <1>1, <1>3, <1>4
<1> QED BY <1>1, <1>4, <1>5

Solvable(f, block) ==
  \/ block.method = "gcr" /\ SolvableLinear(f, block.latents)
  \/ block.method = "log-gcr" /\ SolvableLog(f, block.latents)

BlockSet == [latents : SUBSET LatentSet, method : {"gcr", "log-gcr", "nuts"}]

SeparateBlocks(blocks) ==
  \A i, j \in DOMAIN blocks : i # j => blocks[i].latents \cap blocks[j].latents = {}

\* The solved blocks: each solvable by its own pass, and no latent in two.
LEMMA SolvedIs ==
  ASSUME NEW f
  PROVE  /\ Solved(f) \in Seq(BlockSet) /\ SeparateBlocks(Solved(f))
         /\ \A i \in DOMAIN Solved(f) : Solvable(f, Solved(f)[i])
<1> DEFINE still == {g \in SUBSET LatentSet : ~SigmaMoves(f, g)}
           linear == Only(LinearGroups(f), still)
           logs == LogGroups(f)
           first == Blocks(linear, "gcr")
           second == Blocks(logs, "log-gcr")
<1>1. /\ linear \in Seq(SUBSET LatentSet) /\ Disjoint(linear)
      /\ \A i \in DOMAIN linear : SolvableLinear(f, linear[i]) /\ linear[i] \subseteq Members(LinearGroups(f))
  <2>1. /\ linear \in Seq(SUBSET LatentSet) /\ Disjoint(linear)
        /\ \A i \in DOMAIN linear :
             linear[i] \in still /\ \E j \in DOMAIN LinearGroups(f) : linear[i] = LinearGroups(f)[j]
    <3> DEFINE all == LinearGroups(f)
    <3>1. all \in Seq(SUBSET LatentSet) /\ Disjoint(all)
      BY LinearGroupsAre
    <3> HIDE DEF still, all
    <3>2. /\ Only(all, still) \in Seq(SUBSET LatentSet) /\ Disjoint(Only(all, still))
          /\ \A i \in DOMAIN Only(all, still) :
               Only(all, still)[i] \in still /\ \E j \in DOMAIN all : Only(all, still)[i] = all[j]
      BY <3>1, FilteredGroups
    <3> QED BY <3>2 DEF all
  <2> HIDE DEF linear
  <2>2. ASSUME NEW i \in DOMAIN linear
        PROVE  SolvableLinear(f, linear[i]) /\ linear[i] \subseteq Members(LinearGroups(f))
    <3>1. PICK j \in DOMAIN LinearGroups(f) : linear[i] = LinearGroups(f)[j]
      BY <2>1
    <3>2. ~SigmaMoves(f, linear[i])
      BY <2>1
    <3>3. linear[i] \subseteq Candidates(f) /\ PairsOf(linear[i]) \subseteq f.together
      BY <3>1, LinearGroupsAre
    <3>4. linear[i] \subseteq Members(LinearGroups(f))
      BY <3>1 DEF Members
    <3> QED BY <3>2, <3>3, <3>4 DEF SolvableLinear
  <2> QED BY <2>1, <2>2
<1>2. /\ logs \in Seq(SUBSET LatentSet) /\ Disjoint(logs)
      /\ \A i \in DOMAIN logs : SolvableLog(f, logs[i]) /\ logs[i] \cap Members(LinearGroups(f)) = {}
  <2>1. /\ logs \in Seq(SUBSET LatentSet) /\ Disjoint(logs)
        /\ \A i \in DOMAIN logs :
             logs[i] \subseteq Remaining(f) \cap LogAlone(f) /\ PairsOf(logs[i]) \subseteq f.logTogether
    BY FirstFitIs DEF LogGroups
  <2>2. Remaining(f) \cap Members(LinearGroups(f)) = {}
    BY DEF Remaining
  <2> HIDE DEF logs
  <2> QED BY <2>1, <2>2 DEF SolvableLog
<1>3. Solved(f) = first \o second
  BY DEF Solved
<1> HIDE DEF linear, logs
<1>4. /\ first \in Seq(BlockSet) /\ DOMAIN first = 1 .. Len(linear) /\ Len(first) = Len(linear)
      /\ \A i \in 1 .. Len(linear) : first[i] = Block(linear[i], "gcr")
      /\ DOMAIN linear = 1 .. Len(linear) /\ Len(linear) \in Nat
  <2>1. [latents : SUBSET LatentSet, method : {"gcr"}] \subseteq BlockSet
    BY DEF BlockSet
  <2>2. /\ first \in Seq([latents : SUBSET LatentSet, method : {"gcr"}]) /\ DOMAIN first = DOMAIN linear
        /\ Len(first) = Len(linear) /\ \A i \in DOMAIN linear : first[i] = Block(linear[i], "gcr")
    BY <1>1, BlocksAre
  <2> HIDE DEF first
  <2>3. DOMAIN linear = 1 .. Len(linear) /\ Len(linear) \in Nat
    BY <1>1
  <2>4. first \in Seq(BlockSet)
    BY <2>1, <2>2, SeqMonotonic
  <2> QED BY <2>2, <2>3, <2>4
<1>5. /\ second \in Seq(BlockSet) /\ DOMAIN second = 1 .. Len(logs) /\ Len(second) = Len(logs)
      /\ \A i \in 1 .. Len(logs) : second[i] = Block(logs[i], "log-gcr")
      /\ DOMAIN logs = 1 .. Len(logs) /\ Len(logs) \in Nat
  <2>1. [latents : SUBSET LatentSet, method : {"log-gcr"}] \subseteq BlockSet
    BY DEF BlockSet
  <2>2. /\ second \in Seq([latents : SUBSET LatentSet, method : {"log-gcr"}]) /\ DOMAIN second = DOMAIN logs
        /\ Len(second) = Len(logs) /\ \A i \in DOMAIN logs : second[i] = Block(logs[i], "log-gcr")
    BY <1>2, BlocksAre
  <2> HIDE DEF second
  <2>3. DOMAIN logs = 1 .. Len(logs) /\ Len(logs) \in Nat
    BY <1>2
  <2>4. second \in Seq(BlockSet)
    BY <2>1, <2>2, SeqMonotonic
  <2> QED BY <2>2, <2>3, <2>4
<1> HIDE DEF first, second
<1> DEFINE both == first \o second
<1>6. /\ both \in Seq(BlockSet) /\ Len(both) = Len(linear) + Len(logs)
      /\ DOMAIN both = 1 .. (Len(linear) + Len(logs))
      /\ \A i \in 1 .. Len(both) : both[i] = IF i <= Len(linear) THEN first[i] ELSE second[i - Len(linear)]
  <2>1. /\ both \in Seq(BlockSet) /\ Len(both) = Len(first) + Len(second)
        /\ \A i \in 1 .. Len(first) + Len(second) :
             both[i] = IF i <= Len(first) THEN first[i] ELSE second[i - Len(first)]
    <3>1. first \in Seq(BlockSet) /\ second \in Seq(BlockSet)
      BY <1>4, <1>5
    <3> QED BY <3>1, ConcatProperties
  <2> HIDE DEF both
  <2> QED BY <1>4, <1>5, <2>1
<1> HIDE DEF both
<1>7. \A i \in DOMAIN both :
        \/ i \in DOMAIN linear /\ both[i] = Block(linear[i], "gcr")
        \/ i - Len(linear) \in DOMAIN logs /\ i > Len(linear)
             /\ both[i] = Block(logs[i - Len(linear)], "log-gcr")
  <2> TAKE i \in DOMAIN both
  <2>1. CASE i <= Len(linear)
    BY <1>4, <1>5, <1>6, <2>1
  <2>2. CASE ~(i <= Len(linear))
    <3>1. i - Len(linear) \in 1 .. Len(logs) /\ i > Len(linear)
      BY <1>4, <1>5, <1>6, <2>2
    <3> QED BY <1>5, <1>6, <2>2, <3>1
  <2> QED BY <2>1, <2>2
<1>8. \A i \in DOMAIN both : Solvable(f, both[i])
  BY <1>1, <1>2, <1>7 DEF Solvable, Block
<1>9. SeparateBlocks(both)
  <2>1. ASSUME NEW i \in DOMAIN both, NEW j \in DOMAIN both, i # j
        PROVE  both[i].latents \cap both[j].latents = {}
    <3>0. i \in Nat /\ j \in Nat
      BY <1>4, <1>5, <1>6
    <3>1. CASE i \in DOMAIN linear /\ j \in DOMAIN linear
      BY <1>1, <1>4, <1>7, <2>1, <3>0, <3>1 DEF Disjoint, Block
    <3>2. CASE i \notin DOMAIN linear /\ j \notin DOMAIN linear
      <4>1. i - Len(linear) # j - Len(linear)
        BY <1>4, <2>1, <3>0
      <4> QED BY <1>2, <1>7, <3>2, <4>1 DEF Disjoint, Block
    <3>3. CASE i \in DOMAIN linear /\ j \notin DOMAIN linear
      <4>1. both[i].latents \subseteq Members(LinearGroups(f))
        BY <1>1, <1>4, <1>7, <3>0, <3>3 DEF Block
      <4> QED BY <1>2, <1>7, <3>3, <4>1 DEF Block
    <3>4. CASE i \notin DOMAIN linear /\ j \in DOMAIN linear
      <4>1. both[j].latents \subseteq Members(LinearGroups(f))
        BY <1>1, <1>4, <1>7, <3>0, <3>4 DEF Block
      <4> QED BY <1>2, <1>7, <3>4, <4>1 DEF Block
    <3> QED BY <3>1, <3>2, <3>3, <3>4
  <2> QED BY <2>1 DEF SeparateBlocks
<1> QED BY <1>3, <1>6, <1>8, <1>9 DEF both

\* A derived plan: every latent in one block, and one that is not NUTS's own
\* solvable by the pass that made it.
LEMMA DerivedIs ==
  ASSUME NEW f
  PROVE  LET blocks == DerivedBlocks(f)
         IN /\ blocks \in Seq(BlockSet) /\ SeparateBlocks(blocks)
            /\ UNION {blocks[i].latents : i \in DOMAIN blocks} = LatentSet
            /\ \A i \in DOMAIN blocks : Solvable(f, blocks[i]) \/ blocks[i].method = "nuts"
<1> DEFINE s == Solved(f)
           left == Unsolved(f)
           blocks == DerivedBlocks(f)
<1>1. s \in Seq(BlockSet) /\ SeparateBlocks(s) /\ \A i \in DOMAIN s : Solvable(f, s[i])
  BY SolvedIs
<1>2. left = LatentSet \ UNION {s[i].latents : i \in DOMAIN s}
  BY DEF Unsolved
<1>3. blocks = s \o (IF left = {} THEN <<>> ELSE <<Block(left, "nuts")>>)
  BY DEF DerivedBlocks
<1> HIDE DEF s, left, blocks
<1>4. DOMAIN s = 1 .. Len(s) /\ Len(s) \in Nat /\ \A i \in DOMAIN s : s[i] \in BlockSet
  <2>1. \A i \in 1 .. Len(s) : s[i] \in BlockSet
    BY <1>1, ElementOfSeq
  <2> QED BY <1>1, <2>1
<1>5. UNION {s[i].latents : i \in DOMAIN s} \subseteq LatentSet
  BY <1>4 DEF BlockSet
<1>6. CASE left = {}
  <2>1. blocks = s
    BY <1>1, <1>3, <1>6, ConcatEmptySeq
  <2>2. UNION {s[i].latents : i \in DOMAIN s} = LatentSet
    BY <1>2, <1>5, <1>6
  <2> QED BY <1>1, <2>1, <2>2 DEF blocks
<1>7. CASE left # {}
  <2> DEFINE b == Block(left, "nuts")
  <2>1. blocks = Append(s, b) /\ b \in BlockSet
    <3>1. b \in BlockSet
      BY <1>2 DEF Block, BlockSet
    <3>2. blocks = s \o <<b>>
      BY <1>3, <1>7
    <3> HIDE DEF b
    <3>3. s \o <<b>> = Append(s, b)
      BY <1>1, <3>1, AppendIsConcat
    <3> QED BY <3>1, <3>2, <3>3
  <2>2. b.latents = left /\ b.method = "nuts"
    BY DEF Block
  <2> HIDE DEF b
  <2>3. /\ blocks \in Seq(BlockSet) /\ Len(blocks) = Len(s) + 1
        /\ \A i \in 1 .. Len(s) : blocks[i] = s[i]
        /\ blocks[Len(s) + 1] = b
    BY <1>1, <2>1, AppendProperties
  <2>4. DOMAIN blocks = 1 .. Len(s) + 1
    BY <2>3
  <2>5. \A i \in DOMAIN blocks : (i \in DOMAIN s /\ blocks[i] = s[i]) \/ (i = Len(s) + 1 /\ blocks[i] = b)
    BY <1>4, <2>3, <2>4
  <2>6. \A i \in DOMAIN s : s[i].latents \cap left = {}
    BY <1>2
  <2>7. SeparateBlocks(blocks)
    BY <1>1, <2>2, <2>5, <2>6 DEF SeparateBlocks
  <2>8. UNION {blocks[i].latents : i \in DOMAIN blocks} = LatentSet
    <3>1. \A i \in DOMAIN blocks : blocks[i].latents \subseteq LatentSet
      BY <1>2, <1>5, <2>2, <2>5
    <3>2. ASSUME NEW l \in LatentSet
          PROVE  \E i \in DOMAIN blocks : l \in blocks[i].latents
      <4>1. CASE l \in left
        BY <1>4, <2>2, <2>3, <2>4, <4>1
      <4>2. CASE l \notin left
        <5>1. PICK i \in DOMAIN s : l \in s[i].latents
          BY <1>2, <4>2
        <5>2. i \in DOMAIN blocks /\ blocks[i] = s[i]
          BY <1>4, <2>3, <2>4
        <5> QED BY <5>1, <5>2
      <4> QED BY <4>1, <4>2
    <3> QED BY <3>1, <3>2
  <2>9. \A i \in DOMAIN blocks : Solvable(f, blocks[i]) \/ blocks[i].method = "nuts"
    BY <1>1, <2>2, <2>5
  <2> QED BY <2>3, <2>7, <2>8, <2>9 DEF blocks
<1> QED BY <1>6, <1>7

\* The exact blocks of a plan are those of its blocks that are not NUTS's.
LEMMA ExactIs ==
  ASSUME NEW X, NEW blocks \in Seq(X)
  PROVE  \A i \in DOMAIN Exact(blocks) :
           \E j \in DOMAIN blocks : Exact(blocks)[i] = blocks[j] /\ blocks[j].method # "nuts"
<1> DEFINE set == {blocks[i] : i \in {j \in DOMAIN blocks : blocks[j].method # "nuts"}}
<1>1. Exact(blocks) = Only(blocks, set)
  BY DEF Exact
<1>2. \A b \in set : \E j \in DOMAIN blocks : b = blocks[j] /\ blocks[j].method # "nuts"
  OBVIOUS
<1> HIDE DEF set
<1>3. \A i \in DOMAIN Only(blocks, set) : Only(blocks, set)[i] \in set
  BY OnlyIs
<1> QED BY <1>1, <1>2, <1>3

-----------------------------------------------------------------------------
(***************************************************************************)
(* The sweep.                                                              *)
(***************************************************************************)

\* A plan that is not refused partitions the latents and leaves what a term is
\* over to NUTS; a derived one has its blocks from the passes; nothing has been
\* drawn before there is a plan.
SweepInv ==
  /\ \E family \in Facts : facts \in family
  /\ phase = "planning" => origin = "none" /\ last = NoDraw
  /\ phase # "planning" => origin \in {"derived", "declared"}
  /\ plan \in Seq({plan[i] : i \in DOMAIN plan})
  /\ turn \in Nat \ {0}
  /\ origin = "derived" => plan = DerivedBlocks(facts)
  /\ Accepted => WithinBoundary(facts, plan)
  /\ Accepted /\ origin = "declared" => Declarable(plan)

\* A sequence is one of its own entries.
LEMMA OwnEntries ==
  ASSUME NEW X, NEW s \in Seq(X)
  PROVE  s \in Seq({s[i] : i \in DOMAIN s})
<1> DEFINE own == {s[i] : i \in DOMAIN s}
<1>1. DOMAIN s = 1 .. Len(s) /\ Len(s) \in Nat
  OBVIOUS
<1>2. \A i \in 1 .. Len(s) : s[i] \in own
  BY <1>1
<1>3. s = [i \in 1 .. Len(s) |-> s[i]]
  OBVIOUS
<1> HIDE DEF own
<1>4. s \in Seq(own)
  BY <1>1, <1>2, <1>3
<1> QED BY <1>4 DEF own

LEMMA SweepInvInit == Init => SweepInv
<1> SUFFICES ASSUME Init PROVE SweepInv
  OBVIOUS
<1>1. plan \in Seq({plan[i] : i \in DOMAIN plan})
  <2>1. plan \in Seq({})
    BY DEF Init, Fresh
  <2> QED BY <2>1, OwnEntries
<1> QED BY <1>1 DEF Init, Fresh, SweepInv, Accepted

LEMMA SweepInvStep == SweepInv /\ [Next]_vars => SweepInv'
<1> SUFFICES ASSUME SweepInv, [Next]_vars PROVE SweepInv'
  OBVIOUS
<1>1. CASE Derive
  <2>1. plan' \in Seq({plan'[i] : i \in DOMAIN plan'})
    <3>1. plan' \in Seq(BlockSet)
      BY <1>1, DerivedIs DEF Derive
    <3> QED BY <3>1, OwnEntries
  <2> QED BY <1>1, <2>1 DEF Derive, SweepInv, Accepted, sweeping
<1>2. CASE Declare
  <2>1. plan' \in Seq({plan'[i] : i \in DOMAIN plan'})
    BY <1>2, TablesAssumption DEF Declare
  <2> QED BY <1>2, <2>1 DEF Declare, SweepInv, Accepted, sweeping
<1>3. ASSUME NEW m \in {"sample", "estimate"}, Start(m)
      PROVE  SweepInv'
  BY <1>3 DEF Start, SweepInv, Accepted
<1>4. CASE Update
  BY <1>4 DEF Update, SweepInv, Accepted
<1>5. CASE EndSweep
  BY <1>5 DEF EndSweep, EndWith, SweepInv, Accepted
<1>6. CASE ToRemainder
  BY <1>6 DEF ToRemainder, SweepInv, Accepted, sweeping
<1>7. CASE Remainder
  BY <1>7 DEF Remainder, EndWith, SweepInv, Accepted
<1>8. CASE UNCHANGED vars
  BY <1>8 DEF vars, SweepInv, Accepted
<1> QED BY <1>1, <1>2, <1>3, <1>4, <1>5, <1>6, <1>7, <1>8 DEF Next, Stop

\* The blocks of a plan that is not refused.
LEMMA PlanIs ==
  ASSUME SweepInv, Accepted
  PROVE  /\ SeparateBlocks(plan) /\ UNION {plan[i].latents : i \in DOMAIN plan} = LatentSet
         /\ \A i \in DOMAIN Exact(plan) :
              \E j \in DOMAIN plan : Exact(plan)[i] = plan[j] /\ plan[j].method # "nuts"
<1>1. SeparateBlocks(plan) /\ UNION {plan[i].latents : i \in DOMAIN plan} = LatentSet
  <2>1. CASE origin = "derived"
    BY <2>1, DerivedIs DEF SweepInv
  <2>2. CASE origin = "declared"
    BY <2>2 DEF SweepInv, Declarable, SeparateBlocks
  <2> QED BY <2>1, <2>2 DEF SweepInv, Accepted
<1>2. plan \in Seq({plan[i] : i \in DOMAIN plan})
  BY DEF SweepInv
<1> QED BY <1>1, <1>2, ExactIs

LEMMA SolvedBlocksHold == SweepInv => SolvedBlocksAreExact
<1> SUFFICES ASSUME SweepInv PROVE SolvedBlocksAreExact
  OBVIOUS
<1>1. ASSUME Accepted
      PROVE  /\ UNION {plan[i].latents : i \in DOMAIN plan} = LatentSet
             /\ \A i, j \in DOMAIN plan : i # j => plan[i].latents \cap plan[j].latents = {}
             /\ \A i \in DOMAIN Exact(plan) : Exact(plan)[i].latents \cap facts.covered = {}
  <2>1. /\ SeparateBlocks(plan) /\ UNION {plan[i].latents : i \in DOMAIN plan} = LatentSet
        /\ \A i \in DOMAIN Exact(plan) :
             \E j \in DOMAIN plan : Exact(plan)[i] = plan[j] /\ plan[j].method # "nuts"
    BY <1>1, PlanIs
  <2>2. facts.covered \subseteq Nuts(plan)
    BY <1>1 DEF SweepInv, WithinBoundary
  <2>3. ASSUME NEW i \in DOMAIN Exact(plan)
        PROVE  Exact(plan)[i].latents \cap facts.covered = {}
    <3>1. PICK j \in DOMAIN plan : Exact(plan)[i] = plan[j] /\ plan[j].method # "nuts"
      BY <2>1
    <3>2. plan[j].latents \cap Nuts(plan) = {}
      <4>1. \A k \in DOMAIN plan : plan[k].method = "nuts" => plan[j].latents \cap plan[k].latents = {}
        BY <2>1, <3>1 DEF SeparateBlocks
      <4> QED BY <4>1 DEF Nuts
    <3> QED BY <2>2, <3>1, <3>2
  <2> QED BY <2>1, <2>3 DEF SeparateBlocks
<1>2. ASSUME origin = "derived", NEW i \in DOMAIN plan
      PROVE  /\ plan[i].method = "gcr" =>
                  /\ PairsOf(plan[i].latents) \subseteq facts.together
                  /\ plan[i].latents \subseteq facts.linear
                  /\ \A o \in Observed : facts.sigma[o] \cap plan[i].latents = {}
             /\ plan[i].method = "log-gcr" =>
                  /\ PairsOf(plan[i].latents) \subseteq facts.logTogether
                  /\ plan[i].latents \subseteq facts.logLinear
  <2>1. Solvable(facts, plan[i]) \/ plan[i].method = "nuts"
    BY <1>2, DerivedIs DEF SweepInv
  <2>2. CASE plan[i].method = "gcr"
    <3>1. SolvableLinear(facts, plan[i].latents)
      BY <2>1, <2>2 DEF Solvable
    <3> QED BY <2>2, <3>1 DEF SolvableLinear, Candidates, SigmaMoves
  <2>3. CASE plan[i].method = "log-gcr"
    <3>1. SolvableLog(facts, plan[i].latents)
      BY <2>1, <2>3 DEF Solvable
    <3> QED BY <2>3, <3>1 DEF SolvableLog, LogAlone
  <2> QED BY <2>2, <2>3
<1> QED BY <1>1, <1>2 DEF SolvedBlocksAreExact, PairsOf

\* Whatever model a plan is derived for or declared for, an exact block solves
\* what a closed form is right for (dispatch/factor.py).
THEOREM SweepSolvesExactly == Spec => []SolvedBlocksAreExact
<1>1. Init => SweepInv
  BY SweepInvInit
<1>2. SweepInv /\ [Next]_vars => SweepInv'
  BY SweepInvStep
<1>3. SweepInv => SolvedBlocksAreExact
  BY SolvedBlocksHold
<1> QED BY <1>1, <1>2, <1>3, PTL DEF Spec

\* The draw an update makes reads its covariance where it draws from: a block
\* whose precision is hoisted has a covariance that reads no other latent.
LEMMA UpdateReadsTheState ==
  ASSUME SweepInv, Update
  PROVE  DrawsReadTheState'
<1> DEFINE block == Exact(plan)[turn]
<1>1. Accepted
  BY DEF Update, Accepted
<1>2. turn \in DOMAIN Exact(plan)
  <2>1. Exact(plan) \in Seq({plan[i] : i \in DOMAIN plan})
    <3> DEFINE own == {plan[i] : i \in DOMAIN plan}
               set == {plan[i] : i \in {j \in DOMAIN plan : plan[j].method # "nuts"}}
    <3>1. plan \in Seq(own) /\ Exact(plan) = Only(plan, set)
      BY DEF SweepInv, Exact
    <3> HIDE DEF own, set
    <3>2. Only(plan, set) \in Seq(own)
      BY <3>1, OnlyIs
    <3> QED BY <3>1, <3>2 DEF own
  <2>2. DOMAIN Exact(plan) = 1 .. Len(Exact(plan))
    BY <2>1
  <2> QED BY <2>2 DEF Update, SweepInv
<1>3. PICK j \in DOMAIN plan : block = plan[j] /\ plan[j].method # "nuts"
  BY <1>1, <1>2, PlanIs
<1>4. /\ last' = [block |-> block, at |-> values, noise |-> NoiseAt(block)]
      /\ facts' = facts /\ origin' = origin /\ origin \in {"derived", "declared"}
  BY DEF Update, SweepInv
<1> HIDE DEF block
<1>5. ASSUME NEW o \in Observed, NEW l,
             facts.reach[o] \cap block.latents # {},
             block.method = "log-gcr" /\ origin = "declared" => o \in facts.translated,
             l \in CovarianceOf(block, o) \ block.latents
      PROVE  NoiseAt(block)[l] = values[l]
  <2>1. facts.sigma[o] \subseteq facts.reach[o]
    BY FactsAssumption DEF SweepInv
  <2>2. CASE block.method = "log-gcr"
    <3>1. o \in facts.translated
      <4>1. CASE origin = "derived"
        <5>1. Solvable(facts, block)
          BY <1>3, <4>1, DerivedIs DEF SweepInv
        <5>2. block.latents \subseteq LogAlone(facts)
          BY <2>2, <5>1 DEF Solvable, SolvableLog
        <5> QED BY <1>5, <5>2 DEF LogAlone
      <4> QED BY <1>4, <1>5, <2>2, <4>1
    <3> QED BY <1>5, <2>2, <3>1 DEF CovarianceOf
  <2>3. CASE block.method # "log-gcr" /\ ~NeedsRebuild(block)
    <3>1. facts.reach[o] \subseteq block.latents
      BY <2>3 DEF NeedsRebuild
    <3>2. l \in facts.sigma[o]
      BY <1>5, <2>3 DEF CovarianceOf
    <3> QED BY <1>5, <2>1, <3>1, <3>2
  <2>4. CASE block.method # "log-gcr" /\ NeedsRebuild(block)
    BY <2>4 DEF NoiseAt
  <2> QED BY <2>2, <2>3, <2>4
<1>6. /\ last'.block = block /\ last'.at = values /\ last'.noise = NoiseAt(block)
  BY <1>4
<1> QED BY <1>4, <1>5, <1>6 DEF DrawsReadTheState, Conditions, CovarianceOf

LEMMA StepsReadTheState ==
  SweepInv /\ DrawsReadTheState /\ [Next]_vars => DrawsReadTheState'
<1> SUFFICES ASSUME SweepInv, DrawsReadTheState, [Next]_vars PROVE DrawsReadTheState'
  OBVIOUS
<1>1. CASE Update
  BY <1>1, UpdateReadsTheState
<1>2. CASE UNCHANGED <<facts, origin, last>>
  BY <1>2 DEF DrawsReadTheState, Conditions, CovarianceOf
<1>3. CASE Derive \/ Declare
  <2>1. last' = NoDraw /\ facts' = facts
    BY <1>3 DEF Derive, Declare, SweepInv, sweeping
  <2>2. last'.block.latents = {}
    BY <2>1 DEF NoDraw, Block
  <2> QED BY <2>2 DEF DrawsReadTheState, Conditions
<1>4. CASE \E m \in {"sample", "estimate"} : Start(m)
  BY <1>2, <1>4 DEF Start
<1>5. CASE EndSweep \/ Remainder
  BY <1>2, <1>5 DEF EndSweep, Remainder
<1>6. CASE ToRemainder
  BY <1>2, <1>6 DEF ToRemainder, sweeping
<1>7. CASE UNCHANGED vars
  BY <1>2, <1>7 DEF vars
<1> QED BY <1>1, <1>3, <1>4, <1>5, <1>6, <1>7 DEF Next, Stop

\* Whatever the model and the plan, no block of a sweep is drawn from a
\* covariance that is out of date (sample_factors, _sigma_needs_rebuild).
THEOREM SweepReadsTheState == Spec => []DrawsReadTheState
<1>1. Init => SweepInv /\ DrawsReadTheState
  <2>1. Init => DrawsReadTheState
    <3> SUFFICES ASSUME Init PROVE DrawsReadTheState
      OBVIOUS
    <3>1. last.block.latents = {}
      BY DEF Init, Fresh, NoDraw, Block
    <3> QED BY <3>1 DEF DrawsReadTheState, Conditions
  <2> QED BY <2>1, SweepInvInit
<1>2. SweepInv /\ DrawsReadTheState /\ [Next]_vars => (SweepInv /\ DrawsReadTheState)'
  BY SweepInvStep, StepsReadTheState
<1> QED BY <1>1, <1>2, PTL DEF Spec
=============================================================================
