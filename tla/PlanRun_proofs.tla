--------------------------- MODULE PlanRun_proofs ---------------------------
(***************************************************************************)
(* What is proved about the batched posterior run for every policy, and    *)
(* about the compiled plan around it for every family of models.           *)
(***************************************************************************)
EXTENDS PlanRun, WellFoundedInduction, TLAPS

\* What the assumptions on the constants say of one run's settings.
LEMMA Settings ==
  ASSUME policy \in Policy
  PROVE  /\ policy.cap \in Nat /\ policy.min \in Nat /\ policy.min >= 4
         /\ policy.batch \in Nat /\ policy.batch >= 1
         /\ policy.need \in Nat /\ policy.need >= 1
<1>1. /\ policy.cap \in Caps /\ policy.min \in MinDraws
      /\ policy.batch \in BatchSizes /\ policy.need \in Needed
  BY DEF Policy
<1>2. policy.cap \in Nat
  BY <1>1, PolicyAssumption
<1>3. policy.min \in {n \in Nat : n >= 4}
  BY <1>1, PolicyAssumption
<1>4. policy.batch \in Nat \ {0} /\ policy.need \in Nat \ {0}
  BY <1>1, PolicyAssumption
<1> QED BY <1>2, <1>3, <1>4

\* A batch draws at least one sample and never goes past the cap.
LEMMA BatchFits ==
  ASSUME TypeOK, count < policy.cap
  PROVE  BatchSize \in Nat /\ 1 <= BatchSize /\ count + BatchSize <= policy.cap
<1>1. policy \in Policy /\ count \in Nat
  BY DEF TypeOK
<1> QED BY <1>1, Settings DEF BatchSize, Smaller

\* A turn of the loop keeps the types of what it assigns.
LEMMA CollectTypes ==
  ASSUME TypeOK, NEW size \in Nat, NEW seen \in Divergences \cup {Unknown},
         NEW owned \in BOOLEAN, NEW within \in BOOLEAN, NEW late \in BOOLEAN,
         Collect(size, seen, owned, within, late),
         UNCHANGED <<policy, termination, warnings>>
  PROVE  TypeOK'
<1> DEFINE verdict == Judge(count + size, Accumulate(seen), owned, within)
           segment == [from |-> RunChain(size).at - size, to |-> RunChain(size).at]
<1>1. Accumulate(seen) \in Nat \cup {Unknown}
  BY PolicyAssumption DEF Accumulate, TypeOK, Unknown
<1>2. verdict \in Verdict
  BY <1>1 DEF Judge, Verdict, TypeOK
<1>3. Streak(verdict) \in Nat
  BY DEF Streak, TypeOK
<1>4. RunChain(size) \in [at : Nat, warmups : Nat]
  BY DEF RunChain, TypeOK
<1>5. RunChain(size).at - size \in Nat
  BY DEF RunChain, TypeOK
<1>6. segment \in [from : Nat, to : Nat]
  BY <1>4, <1>5
<1>7. kept' \in Seq([from : Nat, to : Nat])
  BY <1>6 DEF TypeOK, Collect
<1>8. checkpoints' \in Seq(Verdict)
  BY <1>2 DEF TypeOK, Collect
<1>9. StopReason(Streak(verdict), late)
        \in {"fixed_budget", "draw_cap", "time_cap", "diagnostics_converged"}
  BY DEF StopReason
<1> QED
  BY <1>1, <1>3, <1>4, <1>7, <1>8, <1>9 DEF TypeOK, Collect

\* The loop begins with its types.
LEMMA InitTypes == Init => TypeOK
<1> SUFFICES ASSUME Init PROVE TypeOK
  OBVIOUS
<1>1. checkpoints \in Seq(Verdict) /\ kept \in Seq([from : Nat, to : Nat])
  BY DEF Init
<1> QED BY <1>1 DEF Init, TypeOK

\* A turn of the loop keeps them.
LEMMA TypeStep == TypeOK /\ [Next]_vars => TypeOK'
<1> SUFFICES ASSUME TypeOK, [Next]_vars PROVE TypeOK'
  OBVIOUS
<1>1. CASE Refuse
  BY <1>1 DEF Refuse, TypeOK
<1>2. CASE Batch
  BY <1>2, BatchFits, CollectTypes DEF Batch
<1>3. CASE Report
  BY <1>3 DEF Report, TypeOK, RunTermination, SampleTermination, SampleWarnings
<1>4. CASE Done \/ UNCHANGED vars
  BY <1>4 DEF Done, vars, TypeOK
<1> QED BY <1>1, <1>2, <1>3, <1>4 DEF Next

\* Every reachable state has the types the loop works with.
THEOREM Typing == Spec => []TypeOK
BY InitTypes, TypeStep, PTL DEF Spec

-----------------------------------------------------------------------------
\* What makes the converged stop inductive: the counter never claims a pass
\* the trail does not hold, and nothing is recorded before the loop is over.
ConvergedInv ==
  /\ TypeOK
  /\ TailPassed(consecutive)
  /\ Unbatched => consecutive = 0
  /\ reason = "diagnostics_converged" =>
       policy.mode = "checkpoints" /\ consecutive >= policy.need
  /\ pc \in {"sampling", "stopped"} => termination = "none"
  /\ ConvergedIsEarned

\* A longer passed tail contains every shorter one.
LEMMA ShorterTail ==
  ASSUME TypeOK, NEW n \in Nat, NEW m \in Nat, m <= n, TailPassed(n)
  PROVE  TailPassed(m)
BY DEF TailPassed, TypeOK

\* The inductive invariant says what the two checked properties say.
LEMMA ConvergedInvImplies == ConvergedInv => ConvergedTail /\ ConvergedIsEarned
<1> SUFFICES ASSUME ConvergedInv, reason = "diagnostics_converged"
             PROVE  policy.mode = "checkpoints" /\ TailPassed(policy.need)
  BY DEF ConvergedInv, ConvergedTail
<1>1. policy.need \in Nat /\ consecutive \in Nat /\ TypeOK
  BY Settings DEF ConvergedInv, TypeOK
<1> QED BY <1>1, ShorterTail DEF ConvergedInv

\* One turn of the loop: the counter and the trail move together.
LEMMA CollectKeepsTail ==
  ASSUME ConvergedInv, NEW size \in Nat, NEW seen \in Divergences \cup {Unknown},
         NEW owned \in BOOLEAN, NEW within \in BOOLEAN, NEW late \in BOOLEAN,
         Collect(size, seen, owned, within, late), policy' = policy
  PROVE  TailPassed(consecutive)'
<1> DEFINE verdict == Judge(count + size, Accumulate(seen), owned, within)
<1>1. checkpoints \in Seq(Verdict) /\ consecutive \in Nat
  BY DEF ConvergedInv, TypeOK
<1>2. checkpoints' = Append(checkpoints, verdict) /\ consecutive' = Streak(verdict)
  BY DEF Collect
<1> HIDE DEF verdict
<1>3. /\ Len(checkpoints') = Len(checkpoints) + 1
      /\ checkpoints'[Len(checkpoints) + 1] = verdict
      /\ \A i \in 1 .. Len(checkpoints) : checkpoints'[i] = checkpoints[i]
  BY <1>1, <1>2
<1>4. Len(checkpoints) \in Nat
  BY <1>1
<1>5. CASE consecutive' = 0
  BY <1>3, <1>4, <1>5 DEF TailPassed
<1>6. CASE consecutive' = consecutive + 1 /\ verdict.passed /\ verdict.draws >= policy.min
  <2>1. TailPassed(consecutive)
    BY DEF ConvergedInv
  <2>2. \A i \in (Len(checkpoints) - consecutive + 1) .. Len(checkpoints) :
          checkpoints'[i].passed /\ checkpoints'[i].draws >= policy.min
    BY <1>1, <1>3, <1>4, <2>1 DEF TailPassed
  <2> QED BY <1>1, <1>3, <1>4, <1>6, <2>1, <2>2 DEF TailPassed
<1>7. CASE Unbatched
  BY <1>2, <1>5, <1>7 DEF Streak, ConvergedInv
<1> QED BY <1>2, <1>5, <1>6, <1>7 DEF Streak

\* Every step of the run preserves the invariant.
LEMMA ConvergedInvStep == ConvergedInv /\ TypeOK' /\ [Next]_vars => ConvergedInv'
<1> SUFFICES ASSUME ConvergedInv, TypeOK', [Next]_vars PROVE ConvergedInv'
  OBVIOUS
<1>1. CASE Refuse
  BY <1>1 DEF Refuse, ConvergedInv, TailPassed, Unbatched, ConvergedIsEarned
<1>2. CASE Batch
  <2>1. TypeOK /\ BatchSize \in Nat /\ pc = "sampling"
        /\ UNCHANGED <<policy, termination, warnings>>
    BY <1>2, BatchFits DEF Batch, ConvergedInv
  <2>2. PICK seen \in Divergences \cup {Unknown}, owned \in BOOLEAN,
             within \in BOOLEAN, late \in BOOLEAN :
          Collect(BatchSize, seen, owned, within, late)
    BY <1>2 DEF Batch
  <2> DEFINE verdict == Judge(count + BatchSize, Accumulate(seen), owned, within)
  <2>3. consecutive' = Streak(verdict) /\ reason' = StopReason(Streak(verdict), late)
    BY <2>2 DEF Collect
  <2> HIDE DEF verdict
  <2>4. TailPassed(consecutive)'
    BY <2>1, <2>2, CollectKeepsTail
  <2>5. (Unbatched => consecutive = 0)'
    BY <2>1, <2>3 DEF Streak, Unbatched, ConvergedInv
  <2>6. (reason = "diagnostics_converged" =>
           policy.mode = "checkpoints" /\ consecutive >= policy.need)'
    BY <2>1, <2>3 DEF StopReason, Converged
  <2>7. termination' = "none"
    BY <2>1 DEF ConvergedInv
  <2> QED BY <2>4, <2>5, <2>6, <2>7 DEF ConvergedInv, ConvergedIsEarned
<1>3. CASE Report
  <2>1. UNCHANGED <<policy, consecutive, checkpoints, reason>>
        /\ pc' = "reported" /\ termination' = RunTermination
    BY <1>3 DEF Report
  <2>2. CASE reason = "diagnostics_converged"
    <3>1. policy.need \in Nat /\ policy.need >= 1 /\ consecutive \in Nat
          /\ checkpoints \in Seq(Verdict)
      BY Settings DEF ConvergedInv, TypeOK
    <3>2. TailPassed(consecutive) /\ consecutive >= 1
      BY <2>2, <3>1 DEF ConvergedInv
    <3>3. Len(checkpoints) \in Nat
      BY <3>1
    <3>4. checkpoints[Len(checkpoints)].passed
      BY <3>1, <3>2, <3>3 DEF TailPassed
    <3> QED BY <2>1, <3>4 DEF ConvergedInv, TailPassed, Unbatched, ConvergedIsEarned, Last
  <2>3. CASE reason # "diagnostics_converged"
    <3>1. RunTermination = "converged" => Last(checkpoints).passed
      BY <2>3 DEF RunTermination
    <3> QED BY <2>1, <2>3, <3>1 DEF ConvergedInv, TailPassed, Unbatched, ConvergedIsEarned, Last
  <2> QED BY <2>2, <2>3
<1>4. CASE Done \/ UNCHANGED vars
  BY <1>4 DEF Done, vars, ConvergedInv, TailPassed, Unbatched, ConvergedIsEarned, Last
<1> QED BY <1>1, <1>2, <1>3, <1>4 DEF Next

\* Before the first batch nothing is claimed.
LEMMA ConvergedInvBegins == Init /\ TypeOK => ConvergedInv
<1> SUFFICES ASSUME Init, TypeOK PROVE ConvergedInv
  OBVIOUS
<1>1. checkpoints = <<>> /\ consecutive = 0 /\ reason = "fixed_budget"
      /\ termination = "none"
  BY DEF Init
<1>2. TailPassed(0)
  BY <1>1 DEF TailPassed
<1> QED BY <1>1, <1>2 DEF ConvergedInv, ConvergedIsEarned

\* The invariant holds of every run.
LEMMA ConvergedInvHolds == Spec => []ConvergedInv
BY ConvergedInvBegins, Typing, ConvergedInvStep, PTL DEF Spec

\* For every policy: a run that stopped on its diagnostics passed its last
\* `consecutive` checkpoints, each with at least min_draws draws.
THEOREM ConvergedStopIsJustified == Spec => []ConvergedTail
BY ConvergedInvHolds, ConvergedInvImplies, PTL

\* For every policy: a run recorded as converged holds a passed last checkpoint.
THEOREM ConvergedRecordIsEarned == Spec => []ConvergedIsEarned
BY ConvergedInvHolds, ConvergedInvImplies, PTL

-----------------------------------------------------------------------------
\* What makes one chain inductive: the sampler stands where the count says.
ChainInv ==
  /\ TypeOK
  /\ OneChain
  /\ kept = <<>> => count = 0 /\ mcmc.warmups = 0
  /\ kept # <<>> => count > 0 /\ mcmc.at = count

\* A batch begins where the chain stands, and the first one warms it up.
LEMMA CollectKeepsChain ==
  ASSUME ChainInv, TypeOK', policy' = policy,
         NEW size \in Nat, 1 <= size, count + size <= policy.cap,
         NEW seen, NEW owned, NEW within, NEW late,
         Collect(size, seen, owned, within, late)
  PROVE  ChainInv'
<1> DEFINE segment == [from |-> RunChain(size).at - size, to |-> RunChain(size).at]
<1>1. kept \in Seq([from : Nat, to : Nat]) /\ count \in Nat
      /\ mcmc \in [at : Nat, warmups : Nat]
  BY DEF ChainInv, TypeOK
<1>2. /\ kept' = Append(kept, segment) /\ count' = count + size
      /\ mcmc' = RunChain(size)
  BY DEF Collect
<1>3. RunChain(size).at = count + size /\ RunChain(size).warmups = 1
      /\ segment.from = count /\ segment.to = count + size
  <2>1. CASE kept = <<>>
    BY <2>1, <1>1 DEF ChainInv, RunChain
  <2>2. CASE kept # <<>>
    BY <2>2, <1>1 DEF ChainInv, RunChain, OneChain
  <2> QED BY <2>1, <2>2
<1> HIDE DEF segment
<1>4. /\ Len(kept) \in Nat /\ Len(kept') = Len(kept) + 1
      /\ kept'[Len(kept) + 1] = segment
      /\ \A i \in 1 .. Len(kept) : kept'[i] = kept[i]
      /\ kept' # <<>>
      /\ kept # <<>> => Len(kept) >= 1
  BY <1>1, <1>2
<1>5. kept'[1].from = 0
  <2>1. CASE kept = <<>>
    BY <2>1, <1>3, <1>4 DEF ChainInv
  <2>2. CASE kept # <<>>
    BY <2>2, <1>4 DEF ChainInv, OneChain
  <2> QED BY <2>1, <2>2
<1>6. \A i \in 2 .. Len(kept') : kept'[i].from = kept'[i - 1].to
  <2> SUFFICES ASSUME NEW i \in 2 .. Len(kept')
               PROVE  kept'[i].from = kept'[i - 1].to
    OBVIOUS
  <2>1. CASE i \in 2 .. Len(kept)
    BY <2>1, <1>4 DEF ChainInv, OneChain
  <2>2. CASE i = Len(kept) + 1
    <3>1. kept # <<>> /\ kept'[i - 1] = kept[Len(kept)]
      BY <2>2, <1>4
    <3> QED BY <3>1, <2>2, <1>3, <1>4 DEF ChainInv, OneChain, Last
  <2> QED BY <2>1, <2>2, <1>4
<1>7. Last(kept').to = count' /\ count' <= policy'.cap
  BY <1>2, <1>3, <1>4 DEF Last
<1> QED BY <1>1, <1>2, <1>3, <1>4, <1>5, <1>6, <1>7 DEF ChainInv, OneChain

\* Every step of the run preserves the invariant.
LEMMA ChainInvStep == ChainInv /\ TypeOK' /\ [Next]_vars => ChainInv'
<1> SUFFICES ASSUME ChainInv, TypeOK', [Next]_vars PROVE ChainInv'
  OBVIOUS
<1>1. CASE Batch
  BY <1>1, BatchFits, CollectKeepsChain DEF Batch, ChainInv
<1>2. CASE Refuse \/ Report \/ Done \/ UNCHANGED vars
  BY <1>2 DEF Refuse, Report, Done, vars, ChainInv, OneChain, Last
<1> QED BY <1>1, <1>2 DEF Next

\* Before the first batch there is no chain.
LEMMA ChainInvBegins == Init /\ TypeOK => ChainInv
BY DEF Init, ChainInv, OneChain

\* For every policy and every number of batches: the draws handed back are one
\* warmed chain, in order, without a gap, and no longer than the cap.
THEOREM DrawsAreOneChain == Spec => []OneChain
<1>1. ChainInv => OneChain
  BY DEF ChainInv
<1> QED BY <1>1, ChainInvBegins, ChainInvStep, Typing, PTL DEF Spec

-----------------------------------------------------------------------------
\* What makes spent inductive: the loop is left as soon as the clock expires.
ExpiredInv == TypeOK /\ (expired => pc # "sampling")

\* A clock is watched by every loop that has one, so a batch that comes back
\* late ends it.
LEMMA LateEnds ==
  ASSUME NEW size, NEW seen, NEW owned, NEW within, NEW late,
         late => policy.timed, Collect(size, seen, owned, within, late)
  PROVE  expired' => pc' # "sampling"
BY DEF Collect, TimedOut, Converged, Unbatched

\* A checkpoint that passes has counted its divergences, and within the bound.
LEMMA PassIsWithin ==
  ASSUME TypeOK, divergences = Unknown \/ divergences > policy.maxdiv,
         NEW size, NEW seen \in Divergences \cup {Unknown}, NEW owned, NEW within, NEW late,
         Collect(size, seen, owned, within, late)
  PROVE  ~Last(checkpoints').passed
<1> DEFINE verdict == Judge(count + size, Accumulate(seen), owned, within)
<1>1. policy.maxdiv \in Nat
  BY PolicyAssumption DEF TypeOK, Policy
<1>2. Accumulate(seen) = Unknown \/ Accumulate(seen) > policy.maxdiv
  <2>1. seen \in Nat \cup {Unknown} /\ divergences \in Nat \cup {Unknown}
    BY PolicyAssumption DEF TypeOK
  <2> QED BY <2>1, <1>1 DEF Accumulate, Unknown
<1>3. Accumulate(seen) \in Nat \cup {Unknown}
  BY PolicyAssumption DEF Accumulate, TypeOK, Unknown
<1>4. ~verdict.passed
  BY <1>1, <1>2, <1>3 DEF Judge, Unknown
<1>5. checkpoints' = Append(checkpoints, verdict)
  BY DEF Collect
<1> HIDE DEF verdict
<1>6. checkpoints \in Seq(Verdict)
  BY DEF TypeOK
<1>7. Len(checkpoints') = Len(checkpoints) + 1 /\ checkpoints'[Len(checkpoints) + 1] = verdict
  BY <1>5, <1>6
<1> QED BY <1>4, <1>7 DEF Last

\* Every step of the run preserves the invariant.
LEMMA ExpiredInvStep == ExpiredInv /\ TypeOK' /\ [Next]_vars => ExpiredInv'
<1> SUFFICES ASSUME ExpiredInv, TypeOK', [Next]_vars PROVE expired' => pc' # "sampling"
  BY DEF ExpiredInv
<1>1. CASE Batch
  BY <1>1, LateEnds DEF Batch
<1>2. CASE Refuse \/ Report \/ Done \/ UNCHANGED vars
  BY <1>2 DEF Refuse, Report, Done, vars, ExpiredInv
<1> QED BY <1>1, <1>2 DEF Next

\* No batch after the clock has expired, and none that passes once the
\* divergences are spent.
SpentStep ==
  [/\ ~expired
   /\ divergences = Unknown \/ divergences > policy.maxdiv
        => ~Last(checkpoints').passed]_checkpoints

\* Only a batch adds a checkpoint, and it is judged with all divergences.
LEMMA SpentStepHolds == ExpiredInv /\ [Next]_vars => SpentStep
<1> SUFFICES ASSUME ExpiredInv, [Next]_vars, checkpoints' # checkpoints
             PROVE  /\ ~expired
                    /\ divergences = Unknown \/ divergences > policy.maxdiv
                         => ~Last(checkpoints').passed
  BY DEF SpentStep
<1>1. Batch
  BY DEF Next, Refuse, Report, Done, vars
<1> QED BY <1>1, PassIsWithin DEF Batch, ExpiredInv

\* Before the first batch no clock has been read.
LEMMA ExpiredInvBegins == Init /\ TypeOK => ExpiredInv
BY DEF Init, ExpiredInv

\* For every policy, every pace of the clock and every number of divergences:
\* no batch is drawn after the clock was seen to expire, and no checkpoint
\* passes once the divergences are too many or could not be read.
THEOREM SpentStaysSpent == Spec => SpentIsSpent
BY ExpiredInvBegins, ExpiredInvStep, SpentStepHolds, Typing, PTL DEF Spec, SpentIsSpent, SpentStep

-----------------------------------------------------------------------------
\* Until a chain is asked for, the loop stands at its beginning.
Waiting == phase \in {"start", "planned", "reweighting"} => Init

\* Asking for a chain chooses the policy and leaves the loop at its beginning.
LEMMA AskedAnew ==
  ASSUME Init, policy' \in Policy, UnchangedLoop
  PROVE  Init'
BY DEF Init, UnchangedLoop

\* A step of the plan is a step of the loop, or begins it with a new policy.
LEMMA PlanStepsTheLoop == Waiting /\ [PlanNext]_everything => ([Next]_vars \/ (Init /\ Init')) /\ Waiting'
<1> SUFFICES ASSUME Waiting, [PlanNext]_everything PROVE ([Next]_vars \/ (Init /\ Init')) /\ Waiting'
  OBVIOUS
<1>1. ASSUME UNCHANGED vars, phase' \notin {"start", "planned", "reweighting"} PROVE [Next]_vars /\ Waiting'
  BY <1>1 DEF Waiting
<1>2. ASSUME UNCHANGED vars, phase \in {"start", "planned", "reweighting"} PROVE [Next]_vars /\ Waiting'
  BY <1>2 DEF Waiting, vars, Init
<1>3. ASSUME NEW method, NEW controlled, phase \in {"planned", "reweighting"},
             Chain(method, controlled), UnchangedLoop
      PROVE  ([Next]_vars \/ (Init /\ Init')) /\ Waiting'
  <2>1. CASE controlled
    BY <1>3, <2>1, AskedAnew DEF Chain, Waiting
  <2>2. CASE ~controlled
    <3>1. UNCHANGED vars /\ phase' = "done"
      BY <1>3, <2>2 DEF Chain, Finish, UnchangedLoop, vars
    <3> QED BY <3>1, <1>1
  <2> QED BY <2>1, <2>2
<1>4. CASE Compile \/ Fit
  BY <1>4, <1>2 DEF Compile, Fit
<1>5. ASSUME NEW collapse, NEW controlled, SampleByChain(collapse, controlled)
      PROVE  ([Next]_vars \/ (Init /\ Init')) /\ Waiting'
  <2>1. phase = "planned" /\ UnchangedLoop
    BY <1>5 DEF SampleByChain
  <2>2. CASE UNCHANGED policy /\ Finish(Raised("GraphError"))
    <3>1. UNCHANGED vars /\ phase' = "done"
      BY <2>1, <2>2 DEF UnchangedLoop, vars, Finish
    <3> QED BY <3>1, <1>1
  <2> QED BY <1>5, <2>1, <2>2, <1>3 DEF SampleByChain
<1>6. ASSUME NEW guarded, SampleExactly(guarded) PROVE [Next]_vars /\ Waiting'
  BY <1>6, <1>2 DEF SampleExactly
<1>7. ASSUME NEW entry, NEW guarded, NEW atLeast, NEW atMost, StartGLS(entry, guarded, atLeast, atMost)
      PROVE  [Next]_vars /\ Waiting'
  BY <1>7, <1>2 DEF StartGLS
<1>8. CASE EstimateRefused
  BY <1>8, <1>2 DEF EstimateRefused
<1>9. CASE Reweight
  BY <1>9, <1>2 DEF Reweight
<1>10. CASE EndGLS
  <2>1. phase = "reweighting" /\ UnchangedLoop
    BY <1>10 DEF EndGLS
  <2>2. ASSUME NEW result, UNCHANGED policy, Finish(result) PROVE [Next]_vars /\ Waiting'
    <3>1. UNCHANGED vars /\ phase' = "done"
      BY <2>1, <2>2 DEF UnchangedLoop, vars, Finish
    <3> QED BY <3>1, <1>1
  <2> QED BY <1>10, <2>1, <2>2, <1>3 DEF EndGLS
<1>11. CASE ChainStep
  BY <1>11 DEF ChainStep, Next, planning, Waiting
<1>12. CASE Regress \/ ChainEnds
  BY <1>12, <1>1 DEF Regress, ChainEnds, Finish
<1>13. CASE Quiet \/ UNCHANGED everything
  BY <1>13 DEF Quiet, everything, vars, planning, Waiting, Init
<1> QED BY <1>4, <1>5, <1>6, <1>7, <1>8, <1>9, <1>10, <1>11, <1>12, <1>13 DEF PlanNext, Run

\* For every family of models and every policy: what is proved of a run of the
\* loop on its own holds of the chains that plans ask for.
THEOREM PlannedChainsKeepTheLoop ==
  PlanSpec => [](ConvergedTail /\ ConvergedIsEarned /\ OneChain) /\ SpentIsSpent
<1> DEFINE Kept == TypeOK /\ ConvergedInv /\ ChainInv /\ ExpiredInv
<1>1. PlanInit => Init /\ Waiting
  BY DEF PlanInit, Waiting
<1>2. Init => Kept
  BY InitTypes, ConvergedInvBegins, ChainInvBegins, ExpiredInvBegins
<1>3. Kept /\ [Next]_vars => Kept'
  BY TypeStep, ConvergedInvStep, ChainInvStep, ExpiredInvStep
<1>4. Kept => ConvergedTail /\ ConvergedIsEarned /\ OneChain
  BY ConvergedInvImplies DEF ChainInv
<1>5. Kept /\ [Next]_vars => SpentStep
  BY SpentStepHolds
<1>6. Init /\ Init' => SpentStep
  BY DEF Init, SpentStep
<1> HIDE DEF Kept
<1> QED BY <1>1, <1>2, <1>3, <1>4, <1>5, <1>6, PlanStepsTheLoop, PTL DEF PlanSpec, SpentIsSpent, SpentStep

-----------------------------------------------------------------------------
\* A plan in hand was compiled from the model in hand, which has a strategy of
\* its family and a price for its coupling, if one is asked.
Compiled ==
  \E family \in Worlds : \E world \in family :
    /\ world.model = model /\ plan = Plan(model, world.strategy) /\ Prices(model, world.strategy)

\* What makes the solves inductive: what the plan says is true of the model, a
\* call has no answer while it runs, and a loop that stands still does so at a
\* solve of its own point.
SolveInv ==
  /\ plan # Nothing \/ phase \in {"planned", "reweighting"} => Compiled
  /\ phase \in {"start", "planned", "reweighting"} => answer = Nothing
  /\ phase = "chain" => answer.kind = "pending"
  /\ phase = "reweighting" =>
       /\ plan.shape = "exact"
       /\ gls.depends <=> plan.method # "gcr"
       /\ gls.delta = "still" => gls.latent = SolveAt(model, RuleAt(model, gls.latent))
  /\ SolvesAreCurrent

\* A block that is solved once has a covariance that does not move at its answer.
LEMMA SolvedOnceStandsStill ==
  ASSUME Compiled, plan.shape = "exact", plan.method = "gcr",
         NEW point, point = SolveAt(model, RuleAt(model, 0)), point # NoPoint
  PROVE  RuleAt(model, point) = RuleAt(model, 0)
<1>1. PICK strategy : plan = Plan(model, strategy)
  BY DEF Compiled
<1>2. model.groups # "none" /\ Method(model) = "gcr"
  <2>1. plan.shape = IF model.groups = "none" THEN "sampled" ELSE IF model.all THEN "exact" ELSE "mixed"
    BY <1>1 DEF Plan
  <2>2. plan.method = IF model.groups = "none" THEN "nuts" ELSE Method(model)
    BY <1>1 DEF Plan
  <2> QED BY <2>1, <2>2
<1>3. ~Moves(model)
  BY <1>2 DEF Method
<1>4. 0 # NoPoint
  BY DEF NoPoint
<1>5. point = SolveAt(model, model.rule[0])
  BY <1>4 DEF RuleAt
<1>6. model.rule[point] = model.rule[0]
  BY <1>3, <1>5 DEF Moves
<1> QED BY <1>4, <1>6 DEF RuleAt

\* What the loop reports as converged is solved at the covariance that the model
\* has at the solution.
LEMMA ConvergedIsFixed ==
  ASSUME SolveInv, phase = "reweighting", GLSResult.converged, GLSResult.solution # NoPoint
  PROVE  /\ GLSResult.precision = RuleAt(model, GLSResult.solution)
         /\ GLSResult.solution = SolveAt(model, GLSResult.precision)
<1> DEFINE scale == RuleAt(model, IF gls.depends THEN gls.latent ELSE 0)
<1>1. /\ GLSResult.precision = scale /\ GLSResult.solution = SolveAt(model, scale)
      /\ GLSResult.converged <=> (~gls.depends \/ gls.delta = "still")
  BY DEF GLSResult
<1>2. CASE gls.depends
  <2>1. scale = RuleAt(model, gls.latent) /\ gls.delta = "still"
    BY <1>1, <1>2
  <2>2. gls.latent = SolveAt(model, RuleAt(model, gls.latent))
    BY <2>1 DEF SolveInv
  <2> QED BY <1>1, <2>1, <2>2
<1>3. CASE ~gls.depends
  <2>1. scale = RuleAt(model, 0)
    BY <1>3
  <2>2. Compiled /\ plan.shape = "exact" /\ plan.method = "gcr"
    BY <1>3 DEF SolveInv
  <2> QED BY <1>1, <2>1, <2>2, SolvedOnceStandsStill
<1> QED BY <1>2, <1>3

\* The initial state, where nothing is planned and nothing is answered.
LEMMA SolveInvBegins == PlanInit => SolveInv
BY DEF PlanInit, SolveInv, SolvesAreCurrent, Nothing

\* A call that ends with no estimate and no draws, and leaves the plan alone.
LEMMA FinishPlainly ==
  ASSUME SolveInv, NEW result, Finish(result), UNCHANGED <<model, plan>>,
         result.kind \notin {"estimate", "posterior"}
  PROVE  SolveInv'
BY DEF SolveInv, Finish, SolvesAreCurrent, Compiled

\* A call that ends with draws whose weights are of the density they came from.
LEMMA FinishWithDraws ==
  ASSUME SolveInv, NEW result, Finish(result), UNCHANGED <<model, plan>>,
         result.kind = "posterior", result.drawn = result.weighed
  PROVE  SolveInv'
BY DEF SolveInv, Finish, SolvesAreCurrent, Compiled

\* A chain is started or run to its end.
LEMMA ChainKeepsSolves ==
  ASSUME SolveInv, NEW method, NEW controlled, Chain(method, controlled)
  PROVE  SolveInv'
<1>1. CASE controlled
  <2>1. /\ phase' = "chain" /\ answer' = [kind |-> "pending", collapsed |-> method = "collapse"]
        /\ plan' = Nothing
    BY <1>1 DEF Chain
  <2>2. answer'.kind = "pending"
    BY <2>1
  <2> QED BY <2>1, <2>2 DEF SolveInv, SolvesAreCurrent
<1>2. CASE ~controlled
  <2>1. Finish(ChainPosterior(method)) /\ UNCHANGED <<model, plan>>
    BY <1>2 DEF Chain
  <2>2. /\ ChainPosterior(method).kind = "posterior"
        /\ ChainPosterior(method).drawn = ChainPosterior(method).weighed
    BY DEF ChainPosterior, Posterior
  <2> QED BY <2>1, <2>2, FinishWithDraws
<1> QED BY <1>1, <1>2

\* Compiling leaves a plan that is what Plan makes of the model.
LEMMA CompileKeepsSolves ==
  ASSUME SolveInv, Compile
  PROVE  SolveInv'
<1>1. phase = "start" /\ UNCHANGED gls /\ answer = Nothing
  BY DEF Compile, SolveInv
<1>2. PICK family \in Worlds : \E world \in family :
        LET m == world.model
        IN IF m.groups = "many"
             THEN /\ Finish(IF world.strategy = "cost" THEN Raised("ValueError") ELSE [kind |-> "factor plan"])
                  /\ UNCHANGED <<model, plan>>
           ELSE IF ~Prices(m, world.strategy)
             THEN Finish(Raised("ArithmeticError")) /\ UNCHANGED <<model, plan>>
           ELSE /\ model' = m /\ plan' = Plan(m, world.strategy)
                /\ phase' = "planned" /\ UNCHANGED answer
  BY DEF Compile
<1>3. PICK world \in family :
        LET m == world.model
        IN IF m.groups = "many"
             THEN /\ Finish(IF world.strategy = "cost" THEN Raised("ValueError") ELSE [kind |-> "factor plan"])
                  /\ UNCHANGED <<model, plan>>
           ELSE IF ~Prices(m, world.strategy)
             THEN Finish(Raised("ArithmeticError")) /\ UNCHANGED <<model, plan>>
           ELSE /\ model' = m /\ plan' = Plan(m, world.strategy)
                /\ phase' = "planned" /\ UNCHANGED answer
  BY <1>2
<1>4. CASE UNCHANGED <<model, plan>> /\ Finish(Raised("ValueError"))
  BY <1>4, FinishPlainly DEF Raised
<1>5. CASE UNCHANGED <<model, plan>> /\ Finish([kind |-> "factor plan"])
  BY <1>5, FinishPlainly
<1>6. CASE UNCHANGED <<model, plan>> /\ Finish(Raised("ArithmeticError"))
  BY <1>6, FinishPlainly DEF Raised
<1>7. CASE /\ Prices(world.model, world.strategy)
           /\ model' = world.model /\ plan' = Plan(world.model, world.strategy)
           /\ phase' = "planned" /\ UNCHANGED answer
  <2>1. Prices(model', world.strategy)
    BY <1>7
  <2>2. (\E f \in Worlds : \E w \in f :
           /\ w.model = model /\ plan = Plan(model, w.strategy) /\ Prices(model, w.strategy))'
    BY <1>7, <2>1
  <2>3. Compiled'
    BY <2>2 DEF Compiled
  <2>4. answer' = Nothing
    BY <1>1, <1>7
  <2> QED BY <1>7, <2>3, <2>4 DEF SolveInv, SolvesAreCurrent, Nothing
<1> QED BY <1>3, <1>4, <1>5, <1>6, <1>7

\* A sample of a whole graph that is solved once.
LEMMA ExactSampleKeepsSolves ==
  ASSUME SolveInv, NEW guarded \in BOOLEAN, SampleExactly(guarded)
  PROVE  SolveInv'
<1> DEFINE scale == RuleAt(model, 0)
           point == SolveAt(model, scale)
<1>1. PICK residual \in Residuals(point) :
        Finish(IF Passes(residual, guarded)
                 THEN Posterior("gcr", Nothing, <<point, scale>>, <<point, scale>>)
                 ELSE Raised("RuntimeError"))
  BY DEF SampleExactly
<1>2. UNCHANGED <<model, plan>>
  BY DEF SampleExactly
<1>3. CASE Passes(residual, guarded)
  BY <1>1, <1>2, <1>3, FinishWithDraws DEF Posterior
<1>4. CASE ~Passes(residual, guarded)
  BY <1>1, <1>2, <1>4, FinishPlainly DEF Raised
<1> QED BY <1>3, <1>4

\* The loop of reweighting begins and turns.
LEMMA ReweightingKeepsSolves ==
  ASSUME SolveInv,
         \/ \E entry \in {"sample", "estimate"}, guarded \in BOOLEAN, atLeast \in 1 .. 2, atMost \in 1 .. 3 :
              StartGLS(entry, guarded, atLeast, atMost)
         \/ Reweight
  PROVE  SolveInv'
<1>1. ASSUME NEW entry, NEW guarded, NEW atLeast, NEW atMost, StartGLS(entry, guarded, atLeast, atMost)
      PROVE  SolveInv'
  <2>1. phase = "planned" /\ plan.shape = "exact" /\ UNCHANGED <<model, plan>>
    BY <1>1 DEF StartGLS
  <2>2. CASE atMost < atLeast
    BY <1>1, <2>1, <2>2, FinishPlainly DEF StartGLS, Raised
  <2>3. CASE ~(atMost < atLeast)
    <3>1. /\ phase' = "reweighting" /\ UNCHANGED answer
          /\ gls' = [entry |-> entry, guarded |-> guarded, atLeast |-> atLeast, atMost |-> atMost,
                     depends |-> plan.method # "gcr",
                     count |-> 1, latent |-> SolveAt(model, RuleAt(model, 0)), delta |-> "infinite"]
      BY <1>1, <2>3 DEF StartGLS
    <3>2. gls'.depends = (plan.method # "gcr") /\ gls'.delta = "infinite"
      BY <3>1
    <3> QED BY <2>1, <3>1, <3>2 DEF SolveInv, Compiled, SolvesAreCurrent
  <2> QED BY <2>2, <2>3
<1>2. CASE Reweight
  <2> DEFINE updated == SolveAt(model, RuleAt(model, gls.latent))
             delta == IF updated = NoPoint THEN "not finite"
                      ELSE IF updated = gls.latent THEN "still" ELSE "moved"
  <2>1. /\ phase = "reweighting" /\ UNCHANGED <<phase, model, plan, answer>>
        /\ gls' = [gls EXCEPT !.count = Smaller(@ + 1, gls.atMost), !.latent = updated, !.delta = delta]
    BY <1>2 DEF Reweight
  <2>2. gls'.depends = gls.depends /\ gls'.latent = updated /\ gls'.delta = delta
    BY <2>1
  <2>3. delta = "still" => updated = gls.latent
    OBVIOUS
  <2> HIDE DEF delta
  <2>4. gls'.delta = "still" => gls'.latent = SolveAt(model, RuleAt(model, gls'.latent))
    BY <2>2, <2>3
  <2> QED BY <2>1, <2>2, <2>4 DEF SolveInv, Compiled, SolvesAreCurrent
<1> QED BY <1>1, <1>2

\* The loop ends, in an error, an estimate, weighted draws or a chain.
LEMMA EndKeepsSolves ==
  ASSUME SolveInv, EndGLS
  PROVE  SolveInv'
<1> DEFINE result == GLSResult
           pair == <<result.solution, result.precision>>
<1>1. PICK residual \in Residuals(result.solution) :
        IF ~Passes(residual, gls.guarded)
          THEN Finish(Raised("RuntimeError")) /\ UNCHANGED <<policy, model, plan, gls>>
        ELSE IF gls.entry = "estimate"
          THEN Finish(Estimated(result)) /\ UNCHANGED <<policy, model, plan, gls>>
        ELSE \/ /\ Finish(Posterior("gcr+snis", Nothing,
                                    <<SolveAt(model, result.precision), result.precision>>, pair))
                /\ UNCHANGED <<policy, model, plan, gls>>
             \/ \E controlled \in BOOLEAN : Chain("nuts", controlled)
  BY DEF EndGLS
<1>2. phase = "reweighting"
  BY DEF EndGLS
<1>3. CASE Finish(Raised("RuntimeError")) /\ UNCHANGED <<model, plan>>
  BY <1>3, FinishPlainly DEF Raised
<1>4. CASE Finish(Estimated(result)) /\ UNCHANGED <<model, plan>>
  <2>1. CASE result.converged
    <3>1. Estimated(result) = [kind |-> "estimate", solution |-> result.solution, precision |-> result.precision]
      BY <2>1 DEF Estimated
    <3>2. result.solution # NoPoint =>
            /\ result.precision = RuleAt(model, result.solution)
            /\ result.solution = SolveAt(model, result.precision)
      BY <1>2, <2>1, ConvergedIsFixed
    <3> HIDE DEF result
    <3>3. phase' = "done" /\ answer'.kind = "estimate"
          /\ answer'.solution = result.solution /\ answer'.precision = result.precision
      BY <1>4, <3>1 DEF Finish
    <3> QED BY <1>4, <3>2, <3>3 DEF SolveInv, SolvesAreCurrent, Compiled
  <2>2. CASE ~result.converged
    BY <1>4, <2>2, FinishPlainly DEF Estimated, Raised
  <2> QED BY <2>1, <2>2
<1>5. CASE /\ Finish(Posterior("gcr+snis", Nothing,
                               <<SolveAt(model, result.precision), result.precision>>, pair))
           /\ UNCHANGED <<model, plan>>
  <2>1. result.solution = SolveAt(model, result.precision)
    BY DEF GLSResult
  <2> HIDE DEF result
  <2> QED BY <1>5, <2>1, FinishWithDraws DEF Posterior
<1>6. CASE \E controlled \in BOOLEAN : Chain("nuts", controlled)
  BY <1>6, ChainKeepsSolves
<1> HIDE DEF result, pair
<1> QED BY <1>1, <1>3, <1>4, <1>5, <1>6

\* A chain that was begun is run, and ends.
LEMMA RunningKeepsSolves ==
  ASSUME SolveInv, ChainStep \/ Regress \/ ChainEnds
  PROVE  SolveInv'
<1>1. CASE ChainStep
  BY <1>1 DEF ChainStep, planning, SolveInv, Compiled, SolvesAreCurrent
<1>2. CASE Regress
  <2>1. UNCHANGED <<model, plan>>
    BY <1>2 DEF Regress
  <2>2. CASE Finish(Posterior("collapse", Nothing, Nothing, Nothing))
    BY <2>1, <2>2, FinishWithDraws DEF Posterior
  <2>3. CASE Finish(Raised("RuntimeError"))
    BY <2>1, <2>3, FinishPlainly DEF Raised
  <2> QED BY <1>2, <2>2, <2>3 DEF Regress
<1>3. CASE ChainEnds
  <2>1. UNCHANGED <<model, plan>>
    BY <1>3 DEF ChainEnds
  <2>2. CASE Finish(Posterior("chain", Nothing, Nothing, Nothing))
    BY <2>1, <2>2, FinishWithDraws DEF Posterior
  <2>3. CASE Finish(Raised("ValueError"))
    BY <2>1, <2>3, FinishPlainly DEF Raised
  <2> QED BY <1>3, <2>2, <2>3 DEF ChainEnds
<1> QED BY <1>1, <1>2, <1>3

\* Every step of a call preserves the invariant.
LEMMA SolveInvStep == SolveInv /\ [PlanNext]_everything => SolveInv'
<1> SUFFICES ASSUME SolveInv, [PlanNext]_everything PROVE SolveInv'
  OBVIOUS
<1>1. CASE Compile
  BY <1>1, CompileKeepsSolves
<1>2. CASE Fit
  <2>1. UNCHANGED <<model, plan>>
    BY <1>2 DEF Fit
  <2>2. CASE Finish(Raised("RuntimeError"))
    BY <2>1, <2>2, FinishPlainly DEF Raised
  <2>3. ASSUME NEW landing, NEW refusal,
               Finish([kind |-> "fit", landing |-> landing, refusal |-> refusal])
        PROVE  SolveInv'
    BY <2>1, <2>3, FinishPlainly
  <2> QED BY <1>2, <2>2, <2>3 DEF Fit
<1>3. ASSUME NEW collapse \in BOOLEAN, NEW controlled \in BOOLEAN, SampleByChain(collapse, controlled)
      PROVE  SolveInv'
  <2>1. CASE Finish(Raised("GraphError")) /\ UNCHANGED <<policy, model, plan, gls>>
    BY <2>1, FinishPlainly DEF Raised
  <2>2. ASSUME NEW method, Chain(method, controlled) PROVE SolveInv'
    BY <2>2, ChainKeepsSolves
  <2> QED BY <1>3, <2>1, <2>2 DEF SampleByChain
<1>4. CASE \E guarded \in BOOLEAN : SampleExactly(guarded)
  BY <1>4, ExactSampleKeepsSolves
<1>5. CASE \/ \E entry \in {"sample", "estimate"}, guarded \in BOOLEAN, atLeast \in 1 .. 2, atMost \in 1 .. 3 :
                StartGLS(entry, guarded, atLeast, atMost)
           \/ Reweight
  BY <1>5, ReweightingKeepsSolves
<1>6. CASE EstimateRefused
  BY <1>6, FinishPlainly DEF EstimateRefused, Raised
<1>7. CASE EndGLS
  BY <1>7, EndKeepsSolves
<1>8. CASE ChainStep \/ Regress \/ ChainEnds
  BY <1>8, RunningKeepsSolves
<1>9. CASE Quiet \/ UNCHANGED everything
  BY <1>9 DEF Quiet, everything, planning, SolveInv, Compiled, SolvesAreCurrent
<1> QED BY <1>1, <1>2, <1>3, <1>4, <1>5, <1>6, <1>7, <1>8, <1>9 DEF PlanNext, Run

\* For every family of models: an estimate is solved at the covariance that is
\* reported with it and that the model has there, whatever the reweighting did,
\* and importance weights are of the density the draws came from.
THEOREM AnswersBelongTogether == PlanSpec => []SolvesAreCurrent
<1>1. SolveInv => SolvesAreCurrent
  BY DEF SolveInv
<1> QED BY <1>1, SolveInvBegins, SolveInvStep, PTL DEF PlanSpec

-----------------------------------------------------------------------------
\* Every nonempty set of natural numbers has a least element.
LEMMA LeastNat ==
  ASSUME NEW T, T \subseteq Nat, T # {}
  PROVE  \E x \in T : \A y \in T : x <= y
<1> DEFINE R == OpToRel(<, Nat)
<1>1. IsWellFoundedOn(R, Nat)
  BY NatLessThanWellFounded
<1>2. \A x, y \in Nat : x < y => <<x, y>> \in R
  BY DEF OpToRel
<1> HIDE DEF R
<1>3. PICK x \in T : \A y \in T : ~(<<y, x>> \in R)
  BY <1>1, WFMin
<1>4. \A y \in T : x <= y
  <2> TAKE y \in T
  <2>1. x \in Nat /\ y \in Nat
    OBVIOUS
  <2>2. ~(y < x)
    BY <1>2, <1>3, <2>1
  <2> QED BY <2>1, <2>2
<1> QED BY <1>4

\* A nonempty set of integers that is bounded above has a maximum.
LEMMA MaxIsGreatest ==
  ASSUME NEW S, S \subseteq Int, S # {}, NEW bound \in Int, \A s \in S : s <= bound
  PROVE  Max(S) \in S /\ \A s \in S : Max(S) >= s
<1> DEFINE T == {bound - s : s \in S}
<1>1. T \subseteq Nat
  <2>1. \A s \in S : bound - s \in Nat
    OBVIOUS
  <2> QED BY <2>1
<1>2. T # {}
  OBVIOUS
<1>3. PICK x \in T : \A y \in T : x <= y
  BY <1>2, <1>1, LeastNat
<1>4. PICK top \in S : x = bound - top
  OBVIOUS
<1>5. \A s \in S : top >= s
  <2> TAKE s \in S
  <2>1. bound - top <= bound - s
    BY <1>3, <1>4
  <2> QED BY <2>1
<1> QED BY <1>5 DEF Max

\* An attainable plan without a note measured every size, and its kappa is the
\* largest of them.
LEMMA KappaCovers ==
  ASSUME NEW m, m.centre \in Measurements, \A l \in Outside : m.swept[l].size \in Measurements,
         IsFinite(KappaUpper(m)), SweepNote(m) = {},
         NEW size \in {m.centre} \cup {m.swept[l].size : l \in Outside}
  PROVE  /\ KappaUpper(m) \in 0 .. Largest
         /\ size \in 0 .. Largest /\ size <= KappaUpper(m)
<1>1. Held(m) = {} /\ Dropped(m) = {}
  BY DEF SweepNote
<1>2. Measured(m) = {m.centre} \cup {m.swept[l].size : l \in Outside}
  BY <1>1 DEF Measured
<1>3. NaN \notin Measured(m) /\ KappaUpper(m) = Max(Measured(m))
  BY DEF KappaUpper, IsFinite
<1>4. Measured(m) \subseteq (0 .. Largest) \cup {Infinity}
  BY <1>2, <1>3 DEF Measurements
<1>5. Measured(m) \subseteq Int /\ Measured(m) # {} /\ \A s \in Measured(m) : s <= Infinity
  <2>1. \A s \in (0 .. Largest) \cup {Infinity} : s \in Int /\ s <= Infinity
    BY DEF Largest, Infinity
  <2>2. m.centre \in Measured(m)
    BY <1>2
  <2> QED BY <1>4, <2>1, <2>2
<1>6. /\ Max(Measured(m)) \in Measured(m)
      /\ \A s \in Measured(m) : Max(Measured(m)) >= s
  BY <1>5, MaxIsGreatest DEF Infinity
<1>7. Max(Measured(m)) \in 0 .. Largest
  BY <1>3, <1>4, <1>6 DEF IsFinite
<1>8. size \in Measured(m) /\ Max(Measured(m)) >= size
  BY <1>2, <1>6
<1>9. size # Infinity
  BY <1>7, <1>8 DEF Infinity, Largest
<1> QED BY <1>3, <1>4, <1>7, <1>8, <1>9 DEF Largest

\* Conjugate gradients run to the larger of the tolerance and the dtype's limit.
LEMMA ReachedIsTheLarger ==
  ASSUME NEW p, p.tol \in Int, p.tol # NaN, p.eps \in Int
  PROVE  /\ Reached(p) \in {p.tol, -p.eps}
         /\ Reached(p) >= p.tol /\ Reached(p) >= -p.eps
<1>1. Reached(p) = Max({p.tol, -p.eps})
  BY DEF Reached
<1>2. CASE p.tol >= -p.eps
  <2>1. \A s \in {p.tol, -p.eps} : s <= p.tol
    BY <1>2
  <2>2. Max({p.tol, -p.eps}) \in {p.tol, -p.eps} /\ \A s \in {p.tol, -p.eps} : Max({p.tol, -p.eps}) >= s
    BY <2>1, MaxIsGreatest
  <2> QED BY <1>1, <2>2
<1>3. CASE p.tol <= -p.eps
  <2>1. \A s \in {p.tol, -p.eps} : s <= -p.eps
    BY <1>3
  <2>2. Max({p.tol, -p.eps}) \in {p.tol, -p.eps} /\ \A s \in {p.tol, -p.eps} : Max({p.tol, -p.eps}) >= s
    BY <2>1, MaxIsGreatest
  <2> QED BY <1>1, <2>2
<1> QED BY <1>2, <1>3

\* Such a residual passes the guard of the solver at every size up to kappa.
LEMMA GuardPasses ==
  ASSUME NEW kappa \in 0 .. Largest, NEW eps \in Nat, 2 * kappa - eps < Target,
         NEW size \in 0 .. Largest, size <= kappa,
         NEW residual \in Int, residual \in {Target - 2 * kappa, -eps},
         residual >= Target - 2 * kappa, residual >= -eps
  PROVE  Guard(size, residual, eps, Target) = "passed"
<1>1. size # Infinity /\ residual # NaN
  BY DEF Infinity, NaN, Largest, Target
<1>2. 2 * size + residual <= Target
  BY DEF Target, Largest
<1>3. ~(2 * size + residual > Target)
  BY <1>2 DEF Target, Largest
<1> QED BY <1>1, <1>3 DEF Guard

\* What one plan promises, it keeps.
LEMMA CompiledDelivers ==
  ASSUME Compiled, plan.shape = "mixed", TolAttainable(plan), plan.note = {},
         NEW size \in {model.centre} \cup {model.swept[l].size : l \in Outside}
  PROVE  Guard(size, Reached(plan), plan.eps, Target) = "passed"
<1>1. PICK family \in Worlds : \E world \in family :
        world.model = model /\ plan = Plan(model, world.strategy)
  BY DEF Compiled
<1>2. PICK world \in family : world.model = model /\ plan = Plan(model, world.strategy)
  BY <1>1
<1>3. /\ model.centre \in Measurements /\ model.eps \in Nat
      /\ \A l \in Outside : model.swept[l].size \in Measurements
  BY <1>2, WorldsAssumption
<1>4. /\ plan.kappa = KappaUpper(model) /\ plan.eps = model.eps
      /\ plan.tol = TolFor(KappaUpper(model)) /\ plan.note = SweepNote(model)
  BY <1>2 DEF Plan
<1> DEFINE kappa == KappaUpper(model)
<1>5. IsFinite(kappa) /\ 2 * kappa - plan.eps < Target
  BY <1>4 DEF TolAttainable
<1>6. kappa \in 0 .. Largest /\ size \in 0 .. Largest /\ size <= kappa
  BY <1>3, <1>4, <1>5, KappaCovers
<1> HIDE DEF kappa
<1>7. plan.tol = Target - 2 * kappa
  BY <1>4, <1>5 DEF TolFor, kappa
<1>8. plan.tol \in Int /\ plan.tol # NaN /\ plan.eps \in Nat
  BY <1>3, <1>4, <1>6, <1>7 DEF NaN, Target, Largest
<1>9. Reached(plan) \in {plan.tol, -plan.eps} /\ Reached(plan) >= plan.tol /\ Reached(plan) >= -plan.eps
  BY <1>8, ReachedIsTheLarger
<1>10. Reached(plan) \in Int
  BY <1>8, <1>9
<1> QED BY <1>5, <1>6, <1>7, <1>8, <1>9, <1>10, GuardPasses

\* For every family of models with condition numbers a float can hold: a plan
\* that calls its tolerance attainable and leaves no latent out can be carried
\* out at every value of the outside latents that was probed.
THEOREM PlansDeliver == PlanSpec => []AttainablePlansDeliver
<1>1. SolveInv => AttainablePlansDeliver
  <2> SUFFICES ASSUME SolveInv, plan # Nothing, plan.shape = "mixed", TolAttainable(plan), plan.note = {},
                      NEW size \in {model.centre} \cup {model.swept[l].size : l \in Outside}
               PROVE  Guard(size, Reached(plan), plan.eps, Target) = "passed"
    BY DEF AttainablePlansDeliver
  <2>1. Compiled
    BY DEF SolveInv
  <2> QED BY <2>1, CompiledDelivers
<1> QED BY <1>1, SolveInvBegins, SolveInvStep, PTL DEF PlanSpec

-----------------------------------------------------------------------------
\* Cauchy and Schwarz for the inverse of ((a, b), (b, a)), cleared of its
\* determinant a^2 - b^2.
LEMMA Schwarz ==
  ASSUME NEW a \in Int, NEW b \in Int, a * a - b * b >= 0,
         NEW u \in Int, NEW v \in Int, NEW s \in Int, NEW t \in Int
  PROVE  (a * (u * s + v * t) - b * (u * t + v * s)) * (a * (u * s + v * t) - b * (u * t + v * s))
           <= (a * (u * u + v * v) - 2 * b * u * v) * (a * (s * s + t * t) - 2 * b * s * t)
<1>1. (a * (u * u + v * v) - 2 * b * u * v) * (a * (s * s + t * t) - 2 * b * s * t)
        - (a * (u * s + v * t) - b * (u * t + v * s)) * (a * (u * s + v * t) - b * (u * t + v * s))
        = (a * a - b * b) * ((u * t - v * s) * (u * t - v * s))
  OBVIOUS
<1>2. (u * t - v * s) * (u * t - v * s) >= 0
  OBVIOUS
<1>3. (a * a - b * b) * ((u * t - v * s) * (u * t - v * s)) >= 0
  BY <1>2
<1> QED BY <1>1, <1>3

\* The quadratic form of ((a, -b), (-b, a)) is at most a + |b| times the square.
LEMMA FormIsBounded ==
  ASSUME NEW a \in Int, NEW b \in Int, NEW s \in Int, NEW t \in Int
  PROVE  a * (s * s + t * t) - 2 * b * s * t <= (a + AbsOf(b)) * (s * s + t * t)
<1>1. CASE b >= 0
  <2>1. AbsOf(b) = b
    BY <1>1 DEF AbsOf
  <2>2. (a + b) * (s * s + t * t) - (a * (s * s + t * t) - 2 * b * s * t) = b * ((s + t) * (s + t))
    OBVIOUS
  <2>3. b * ((s + t) * (s + t)) >= 0
    BY <1>1
  <2> QED BY <2>1, <2>2, <2>3
<1>2. CASE b < 0
  <2>1. AbsOf(b) = -b
    BY <1>2 DEF AbsOf
  <2>2. (a - b) * (s * s + t * t) - (a * (s * s + t * t) - 2 * b * s * t) = (-b) * ((s - t) * (s - t))
    OBVIOUS
  <2>3. (-b) * ((s - t) * (s - t)) >= 0
    BY <1>2
  <2> QED BY <2>1, <2>2, <2>3
<1> QED BY <1>1, <1>2

\* g H^-1 g is gx and g H^-1 r, for the r = g - H x that a solve leaves.
LEMMA FormSplits ==
  ASSUME NEW a \in Int, NEW b \in Int, NEW u \in Int, NEW v \in Int, NEW x \in Int, NEW y \in Int
  PROVE  LET s == u - (a * x + b * y)
             t == v - (b * x + a * y)
         IN a * (u * u + v * v) - 2 * b * u * v
              = (a * a - b * b) * (u * x + v * y) + (a * (u * s + v * t) - b * (u * t + v * s))
OBVIOUS

\* The last step of the argument, for a decrement n = N / D that would be
\* beyond the limit.
LEMMA BoundIsMonotone ==
  ASSUME NEW N \in Int, NEW D \in Nat \ {0}, NEW P \in Nat, NEW L \in Nat \ {0},
         P <= L * L, N > D * (L * L)
  PROVE  L * L * ((N - D * P) * (N - D * P)) > N * D * ((L * L - P) * (L * L - P))
<1>1. L * L * ((N - D * P) * (N - D * P)) - N * D * ((L * L - P) * (L * L - P))
        = (N - D * (L * L)) * (L * L * N - D * (P * P))
  OBVIOUS
<1>2. L * L * N > D * (P * P)
  <2> DEFINE Q == L * L
  <2>1. Q \in Nat \ {0} /\ P <= Q /\ N > D * Q
    OBVIOUS
  <2> HIDE DEF Q
  <2>2. Q * N > Q * (D * Q)
    BY <2>1
  <2>3. P * P <= Q * Q
    BY <2>1
  <2>4. D * (P * P) <= D * (Q * Q)
    BY <2>1, <2>3
  <2>5. Q * (D * Q) = D * (Q * Q)
    BY <2>1
  <2> QED BY <2>1, <2>2, <2>4, <2>5 DEF Q
<1>3. (N - D * (L * L)) * (L * L * N - D * (P * P)) > 0
  <2> DEFINE A == N - D * (L * L)
             B == L * L * N - D * (P * P)
  <2>1. A \in Int /\ B \in Int /\ A > 0 /\ B > 0
    BY <1>2
  <2> HIDE DEF A, B
  <2>2. A * B > 0
    BY <2>1
  <2> QED BY <2>2 DEF A, B
<1> QED BY <1>1, <1>3

\* The form is not negative where H is convex.
LEMMA FormIsPositive ==
  ASSUME NEW a \in Int, NEW b \in Int, a - AbsOf(b) >= 0, NEW u \in Int, NEW v \in Int
  PROVE  a * (u * u + v * v) - 2 * b * u * v >= 0
<1>1. (a - b) * ((u + v) * (u + v)) + (a + b) * ((u - v) * (u - v))
        = 2 * (a * (u * u + v * v) - 2 * b * u * v)
  OBVIOUS
<1>2. a - b >= 0 /\ a + b >= 0
  BY DEF AbsOf
<1>3. \A p, q \in Int : p >= 0 => p * (q * q) >= 0
  OBVIOUS
<1>4. (a - b) * ((u + v) * (u + v)) >= 0 /\ (a + b) * ((u - v) * (u - v)) >= 0
  BY <1>2, <1>3
<1> QED BY <1>1, <1>4

\* Products keep an order between numbers that are not negative.
LEMMA ProductsKeepOrder ==
  ASSUME NEW p \in Nat, NEW q \in Int, NEW r \in Int, q <= r
  PROVE  p * q <= p * r
<1>1. r - q \in Nat
  OBVIOUS
<1>2. p * (r - q) \in Nat
  BY <1>1
<1>3. p * (r - q) = p * r - p * q
  OBVIOUS
<1> QED BY <1>2, <1>3

\* Squares of natural numbers are ordered as the numbers are.
LEMMA SquaresKeepOrder ==
  ASSUME NEW p \in Nat, NEW q \in Nat, p <= q
  PROVE  p * p <= q * q
<1>1. p * p <= p * q /\ p * q <= q * q
  BY ProductsKeepOrder
<1> QED BY <1>1

\* A positive factor may be cancelled from an inequality.
LEMMA FactorsCancel ==
  ASSUME NEW m \in Nat \ {0}, NEW p \in Int, NEW q \in Int, m * p <= m * q
  PROVE  p <= q
<1> SUFFICES ASSUME q < p PROVE FALSE
  OBVIOUS
<1>1. p - q \in Nat \ {0}
  OBVIOUS
<1>2. m * (p - q) > 0
  BY <1>1
<1>3. m * (p - q) = m * p - m * q
  OBVIOUS
<1> QED BY <1>2, <1>3

\* How far the residual moves the decrement: G^2 <= N D room^2 / L^2.
LEMMA ResidualIsBounded ==
  ASSUME NEW N \in Nat, NEW D \in Nat, NEW G \in Int, NEW Q \in Int, NEW R \in Nat, NEW k \in Nat,
         NEW m \in Nat \ {0}, NEW S \in Nat, NEW room \in Nat,
         G * G <= N * Q, Q <= k * R, m * k <= D, R * S <= m * (room * room)
  PROVE  S * (G * G) <= N * D * (room * room)
<1>1. G * G <= N * (k * R)
  <2>1. N * Q <= N * (k * R)
    BY ProductsKeepOrder
  <2> QED BY <2>1
<1>2. m * (G * G) <= N * D * R
  <2>1. m * (G * G) <= m * (N * (k * R))
    BY <1>1, ProductsKeepOrder
  <2>2. N * R \in Nat
    OBVIOUS
  <2>3. (N * R) * (m * k) <= (N * R) * D
    BY <2>2, ProductsKeepOrder
  <2>4. m * (N * (k * R)) = (N * R) * (m * k) /\ (N * R) * D = N * D * R
    OBVIOUS
  <2> QED BY <2>1, <2>3, <2>4
<1>3. m * (S * (G * G)) <= m * (N * D * (room * room))
  <2>1. S * (m * (G * G)) <= S * (N * D * R)
    BY <1>2, ProductsKeepOrder
  <2>2. (N * D) * (R * S) <= (N * D) * (m * (room * room))
    <3>1. N * D \in Nat
      OBVIOUS
    <3> QED BY <3>1, ProductsKeepOrder
  <2>3. S * (m * (G * G)) = m * (S * (G * G)) /\ S * (N * D * R) = (N * D) * (R * S)
    OBVIOUS
  <2>4. (N * D) * (m * (room * room)) = m * (N * D * (room * room))
    OBVIOUS
  <2> QED BY <2>1, <2>2, <2>3, <2>4
<1>4. S * (G * G) \in Int /\ N * D * (room * room) \in Int
  OBVIOUS
<1> QED BY <1>3, <1>4, FactorsCancel

\* What Within checks bounds the decrement, whatever x is.
LEMMA WithinBounds ==
  ASSUME NEW a \in Int, NEW b \in Int, NEW u \in Int, NEW v \in Int, NEW x \in Int, NEW y \in Int,
         NEW m \in Nat \ {0}, m <= a - AbsOf(b), NEW L \in Nat \ {0},
         NEW s \in Int, s = u - (a * x + b * y), NEW t \in Int, t = v - (b * x + a * y),
         Within(s * s + t * t, m, u * x + v * y, L)
  PROVE  a * (u * u + v * v) - 2 * b * u * v <= L * L * (a * a - b * b)
<1> DEFINE N == a * (u * u + v * v) - 2 * b * u * v
           Q == a * (s * s + t * t) - 2 * b * s * t
           G == a * (u * s + v * t) - b * (u * t + v * s)
           X == u * x + v * y
           P == NonNegative(X)
           D == a * a - b * b
           k == a + AbsOf(b)
           R == s * s + t * t
           room == L * L - P
<1>1. P \in Nat /\ P >= X /\ X \in Int
  BY DEF NonNegative
<1>2. room \in Nat /\ R * (L * L) <= m * (room * room)
  <2>1. room >= 0 /\ R * L * L <= m * room * room
    BY DEF Within
  <2>2. R * L * L = R * (L * L) /\ m * room * room = m * (room * room) /\ room \in Int
    BY <1>1
  <2> QED BY <2>1, <2>2
<1>3. k \in Nat /\ m * k <= D /\ D \in Nat \ {0}
  <2>1. AbsOf(b) \in Nat /\ AbsOf(b) * AbsOf(b) = b * b
    BY DEF AbsOf
  <2>2. k \in Nat /\ k >= 1 /\ a - AbsOf(b) \in Nat /\ a - AbsOf(b) >= 1
    BY <2>1
  <2>3. D = k * (a - AbsOf(b))
    <3>1. \A z \in Int : (a + z) * (a - z) = a * a - z * z
      OBVIOUS
    <3>2. k * (a - AbsOf(b)) = a * a - AbsOf(b) * AbsOf(b)
      BY <2>1, <3>1
    <3> QED BY <2>1, <3>2
  <2>4. k * m <= k * (a - AbsOf(b))
    BY <2>2, ProductsKeepOrder
  <2>5. k * (a - AbsOf(b)) >= 1
    BY <2>2
  <2> QED BY <2>2, <2>3, <2>4, <2>5
<1>4. N = D * X + G
  BY FormSplits
<1>5. N \in Nat
  <2>1. a - AbsOf(b) >= 0
    BY DEF AbsOf
  <2>2. N >= 0
    BY <2>1, FormIsPositive
  <2> QED BY <2>2
<1>6. G * G <= N * Q
  <2>1. a * a - b * b >= 0
    BY <1>3
  <2> HIDE DEF D, P, X, k, R, room
  <2> QED BY <2>1, Schwarz, Zenon
<1>7. Q <= k * R
  BY FormIsBounded
<1>8. G \in Int /\ Q \in Int /\ R \in Nat
  OBVIOUS
<1> HIDE DEF N, Q, G, X, P, D, k, R, room
<1>9. (L * L) * (G * G) <= N * D * (room * room)
  <2>1. L * L \in Nat
    OBVIOUS
  <2> QED BY <2>1, <1>2, <1>3, <1>5, <1>6, <1>7, <1>8, ResidualIsBounded
<1>10. ~(N > D * (L * L))
  <2> SUFFICES ASSUME N > D * (L * L) PROVE FALSE
    OBVIOUS
  <2>1. P <= L * L /\ room = L * L - P
    BY <1>1, <1>2 DEF room
  <2>2. (L * L) * ((N - D * P) * (N - D * P)) > N * D * (room * room)
    BY <2>1, <1>1, <1>3, <1>5, BoundIsMonotone
  <2>3. N - D * P \in Nat /\ N - D * P <= G /\ G \in Nat
    <3>1. D * X <= D * P
      BY <1>1, <1>3, ProductsKeepOrder
    <3>2. D * P <= D * (L * L)
      BY <2>1, <1>1, <1>3, ProductsKeepOrder
    <3>3. D * P \in Int /\ D * X \in Int /\ D * (L * L) \in Int
      BY <1>1, <1>3
    <3> QED BY <3>1, <3>2, <3>3, <1>4, <1>5, <1>8
  <2>4. (N - D * P) * (N - D * P) <= G * G
    BY <2>3, SquaresKeepOrder
  <2>5. (L * L) * ((N - D * P) * (N - D * P)) <= (L * L) * (G * G)
    <3>1. L * L \in Nat /\ (N - D * P) * (N - D * P) \in Int /\ G * G \in Int
      BY <2>3
    <3> QED BY <3>1, <2>4, ProductsKeepOrder
  <2>6. /\ (L * L) * ((N - D * P) * (N - D * P)) \in Int
        /\ (L * L) * (G * G) \in Int /\ N * D * (room * room) \in Int
    BY <2>3, <1>2, <1>3, <1>5
  <2> QED BY <2>2, <2>5, <2>6, <1>9
<1>11. N <= L * L * D
  <2>1. D * (L * L) = L * L * D /\ D * (L * L) \in Int
    BY <1>3
  <2> QED BY <2>1, <1>5, <1>10
<1> QED BY <1>11 DEF N, D

\* A landing that is refused nothing is within its limit.
LEMMA CertifiedLandings ==
  ASSUME NEW landing \in Landings,
         Refusal(landing.point, landing.solve, landing.resolved, landing.limit) = "none"
  PROVE  Convex(landing.point.H) /\ DecrementWithin(landing.point, landing.limit)
<1> DEFINE point == landing.point
           solve == landing.solve
           H == point.H
<1>1. /\ landing.limit \in Nat \ {0}
      /\ H.a \in Int /\ H.b \in Int /\ point.g \in Int \X Int
      /\ solve.x \in Int \X Int /\ solve.floor \in Int
      /\ solve.source \in Proven => solve.floor <= Least(H)
  BY LandingsAssumption
<1>2. Certifies(point, solve, landing.resolved, landing.limit)
  BY DEF Refusal
<1>3. /\ solve.floor > 0 /\ solve.floor <= Least(H)
      /\ Within(Remainder(point, solve), solve.floor, Dot(point.g, solve.x), landing.limit)
  BY <1>1, <1>2 DEF Certifies
<1>4. Convex(H)
  <2>1. Least(H) \in Int
    BY <1>1 DEF Least, AbsOf
  <2> QED BY <1>1, <1>3, <2>1 DEF Convex
<1> DEFINE a == H.a
           b == H.b
           u == point.g[1]
           v == point.g[2]
           x == solve.x[1]
           y == solve.x[2]
           s == u - (a * x + b * y)
           t == v - (b * x + a * y)
           L == landing.limit
           m == solve.floor
<1>5. a \in Int /\ b \in Int /\ u \in Int /\ v \in Int /\ x \in Int /\ y \in Int
  BY <1>1
<1>6. m \in Nat \ {0} /\ m <= a - AbsOf(b) /\ L \in Nat \ {0}
  BY <1>1, <1>3 DEF Least
<1>7. Remainder(point, solve) = s * s + t * t /\ Dot(point.g, solve.x) = u * x + v * y
  BY DEF Remainder, Minus, Apply, Dot
<1>8. Within(s * s + t * t, m, u * x + v * y, L)
  BY <1>3, <1>7
<1>9. Dot(point.g, point.g) = u * u + v * v
  BY DEF Dot
<1>10. DecrementWithin(point, L) <=> a * (u * u + v * v) - 2 * b * u * v <= L * L * (a * a - b * b)
  BY <1>9 DEF DecrementWithin
<1>11. s \in Int /\ t \in Int /\ s = u - (a * x + b * y) /\ t = v - (b * x + a * y)
  BY <1>5
<1> HIDE DEF a, b, u, v, x, y, s, t, L, m
<1>12. a * (u * u + v * v) - 2 * b * u * v <= L * L * (a * a - b * b)
  BY <1>5, <1>6, <1>8, <1>11, WithinBounds
<1> QED BY <1>4, <1>10, <1>12 DEF L

-----------------------------------------------------------------------------
\* What makes the certificate inductive: a fit is judged where it landed.
FitInv ==
  answer.kind = "fit" =>
    \E landing \in Landings :
      answer = [kind |-> "fit", landing |-> landing,
                refusal |-> Refusal(landing.point, landing.solve, landing.resolved, landing.limit)]

\* A call that ends in anything but a fit.
LEMMA FinishUnfitted ==
  ASSUME NEW result, Finish(result), result.kind # "fit"
  PROVE  FitInv'
BY DEF Finish, FitInv

\* A chain is not a fit.
LEMMA ChainIsNoFit ==
  ASSUME NEW method, NEW controlled, Chain(method, controlled)
  PROVE  FitInv'
<1>1. CASE controlled
  <2>1. answer' = [kind |-> "pending", collapsed |-> method = "collapse"]
    BY <1>1 DEF Chain
  <2>2. answer'.kind # "fit"
    BY <2>1
  <2> QED BY <2>2 DEF FitInv
<1>2. CASE ~controlled
  BY <1>2, FinishUnfitted DEF Chain, ChainPosterior, Posterior
<1> QED BY <1>1, <1>2

\* Every step of a call preserves the invariant.
LEMMA FitInvStep == FitInv /\ [PlanNext]_everything => FitInv'
<1> SUFFICES ASSUME FitInv, [PlanNext]_everything PROVE FitInv'
  OBVIOUS
<1>1. CASE UNCHANGED answer
  BY <1>1 DEF FitInv
<1>2. ASSUME NEW result, Finish(result), result.kind # "fit" PROVE FitInv'
  BY <1>2, FinishUnfitted
<1>3. ASSUME NEW method, NEW controlled, Chain(method, controlled) PROVE FitInv'
  BY <1>3, ChainIsNoFit
<1>4. CASE Fit
  <2>1. CASE Finish(Raised("RuntimeError"))
    BY <2>1, FinishUnfitted DEF Raised
  <2>2. ASSUME NEW landing \in Landings,
               Finish([kind |-> "fit", landing |-> landing,
                       refusal |-> Refusal(landing.point, landing.solve, landing.resolved, landing.limit)])
        PROVE  FitInv'
    BY <2>2 DEF Finish, FitInv
  <2> QED BY <1>4, <2>1, <2>2 DEF Fit
<1>5. ASSUME NEW error, Finish(Raised(error)) PROVE FitInv'
  BY <1>5, <1>2 DEF Raised
<1>6. ASSUME NEW method, NEW cost, NEW drawn, NEW weighed, Finish(Posterior(method, cost, drawn, weighed))
      PROVE  FitInv'
  BY <1>6, <1>2 DEF Posterior
<1>7. CASE Compile
  <2>1. CASE Finish([kind |-> "factor plan"])
    BY <2>1, <1>2
  <2> QED BY <1>7, <2>1, <1>1, <1>5 DEF Compile
<1>8. ASSUME NEW collapse, NEW controlled, SampleByChain(collapse, controlled) PROVE FitInv'
  BY <1>8, <1>3, <1>5 DEF SampleByChain
<1>9. ASSUME NEW guarded, SampleExactly(guarded) PROVE FitInv'
  BY <1>9, <1>5, <1>6 DEF SampleExactly
<1>10. CASE EndGLS
  <2>1. CASE Finish(Estimated(GLSResult))
    BY <2>1, <1>2, <1>5 DEF Estimated
  <2> QED BY <1>10, <2>1, <1>3, <1>5, <1>6 DEF EndGLS
<1>11. CASE EstimateRefused \/ Regress \/ ChainEnds
  BY <1>11, <1>5, <1>6 DEF EstimateRefused, Regress, ChainEnds
<1>12. CASE Reweight \/ ChainStep \/ Quiet \/ UNCHANGED everything
  BY <1>12, <1>1 DEF Reweight, ChainStep, Quiet, everything, planning
<1>13. ASSUME NEW entry, NEW guarded, NEW atLeast, NEW atMost, StartGLS(entry, guarded, atLeast, atMost)
       PROVE  FitInv'
  BY <1>13, <1>1, <1>5 DEF StartGLS
<1> QED BY <1>4, <1>7, <1>8, <1>9, <1>10, <1>11, <1>12, <1>13 DEF PlanNext, Run

\* For every slope and Hessian of integers, every limit, and every x that a solve
\* may leave: a fit that is certified is convex where it ended and within the
\* limit of its minimum.
THEOREM CertificatesBound == PlanSpec => []CertificateIsABound
<1>1. PlanInit => FitInv
  BY DEF PlanInit, FitInv, Nothing
<1>2. FitInv => CertificateIsABound
  <2> SUFFICES ASSUME FitInv, answer.kind = "fit", answer.refusal = "none"
               PROVE  Convex(answer.landing.point.H) /\ DecrementWithin(answer.landing.point, answer.landing.limit)
    BY DEF CertificateIsABound
  <2>1. PICK landing \in Landings :
          answer = [kind |-> "fit", landing |-> landing,
                    refusal |-> Refusal(landing.point, landing.solve, landing.resolved, landing.limit)]
    BY DEF FitInv
  <2>2. /\ answer.landing = landing
        /\ answer.refusal = Refusal(landing.point, landing.solve, landing.resolved, landing.limit)
    BY <2>1
  <2> QED BY <2>2, CertifiedLandings
<1> QED BY <1>1, <1>2, FitInvStep, PTL DEF PlanSpec

-----------------------------------------------------------------------------
\* What a row costs with its timing constants down, as they are, and up.
Tenths == {9, 10, 11}

\* The inputs of a scoreboard, as the assumption on the worlds has them.
Scorable(i) ==
  /\ i.a \in Nat /\ i.m \in Nat \ {0} /\ i.rho \in Nat \X Nat
  /\ i.x \in Nat /\ IsFinite(i.x)
  /\ i.cond \in Nat \cup {Infinity, NaN} /\ i.marg \in Nat \cup {Infinity, NaN} /\ i.joint \in Nat \cup {Infinity, NaN}
  /\ WithinReach(i) /\ TauUnder(i.rho) > 0

\* A row is proportional to its timing constants, or infinite, or no number.
CostShape(i, s) ==
  \/ \E K \in Nat : 11 * K < Infinity /\ \A f \in Tenths : Cost(i, s, f) = f * K
  \/ \A f \in Tenths : Cost(i, s, f) = Infinity
  \/ \A f \in Tenths : Cost(i, s, f) = NaN

\* The gradients of a row are proportional to the constant they cost.
LEMMA GradientShape ==
  ASSUME NEW a \in Nat, NEW constant \in Nat, NEW root \in Nat \cup {Infinity, NaN}
  PROVE  \/ IsFinite(root) /\ root \in Nat /\ \A f \in Tenths : Gradient(a, root, constant, f) = f * (constant * (a * root))
         \/ \A f \in Tenths : Gradient(a, root, constant, f) = Infinity
         \/ \A f \in Tenths : Gradient(a, root, constant, f) = NaN
<1>1. CASE IsFinite(root)
  <2>1. root \in Nat
    BY <1>1 DEF IsFinite
  <2>2. \A f \in Tenths : Gradient(a, root, constant, f) = (a * constant * f) * root
    BY <1>1 DEF Gradient, Times
  <2>3. \A f \in Tenths : (a * constant * f) * root = f * (constant * (a * root))
    BY <2>1 DEF Tenths
  <2> QED BY <1>1, <2>1, <2>2, <2>3
<1>2. CASE root = NaN
  BY <1>2 DEF Gradient, Times, IsFinite
<1>3. CASE root = Infinity
  <2>1. ~IsFinite(root) /\ root # NaN
    BY <1>3 DEF IsFinite, Infinity, NaN
  <2>2. CASE a * constant = 0
    <3>1. \A f \in Tenths : a * constant * f = 0
      BY <2>2 DEF Tenths
    <3> QED BY <3>1, <2>1 DEF Gradient, Times
  <2>3. CASE a * constant # 0
    <3>1. a * constant \in Nat
      OBVIOUS
    <3>2. \A f \in Tenths : a * constant * f # 0 /\ ~(a * constant * f < 0)
      BY <2>3, <3>1 DEF Tenths
    <3>3. 1 * Infinity = Infinity
      BY DEF Infinity
    <3> QED BY <1>3, <3>2, <3>3, <2>1 DEF Gradient, Times, Sign
  <2> QED BY <2>2, <2>3
<1>4. root = NaN \/ root = Infinity \/ IsFinite(root)
  BY DEF IsFinite, Infinity
<1> QED BY <1>1, <1>2, <1>3, <1>4

\* Conjugate gradients take a number of iterations.
LEMMA IterationsAreNat ==
  ASSUME NEW x \in Nat
  PROVE  Iterations(x) \in Nat
BY DEF Iterations


\* A product of natural numbers is one.
LEMMA ProductIsNat ==
  ASSUME NEW u \in Nat, NEW v \in Nat
  PROVE  u * v \in Nat
OBVIOUS

\* A larger factor makes a larger product.
LEMMA ProductIsMonotone ==
  ASSUME NEW k \in Nat, NEW u \in Nat, NEW v \in Nat, u <= v
  PROVE  k * u <= k * v
<1>1. PICK d \in Nat : v = u + d
  <2>1. v - u \in Nat /\ v = u + (v - u)
    OBVIOUS
  <2> QED BY <2>1
<1>2. k * (u + d) = k * u + k * d
  OBVIOUS
<1>3. k * d \in Nat /\ k * u \in Nat
  OBVIOUS
<1> QED BY <1>1, <1>2, <1>3

\* The amplification is a positive number, and more than what the other rows are
\* scaled by.
LEMMA Amplification ==
  ASSUME NEW i, Scorable(i)
  PROVE  /\ TauOver(i.rho) \in Nat /\ TauOver(i.rho) >= 1
         /\ Scale(i) \in Nat /\ Scale(i) >= 1 /\ Scale(i) <= TauOver(i.rho)
         /\ Sign(TauUnder(i.rho)) = 1
<1> DEFINE p == i.rho[1]
           q == i.rho[2]
<1>1. p \in Nat /\ q \in Nat
  BY DEF Scorable
<1>2. TauOver(i.rho) = p * p + q * q /\ TauUnder(i.rho) = q * q - p * p
  BY DEF TauOver, TauUnder
<1>3. p * p \in Nat /\ q * q \in Nat
  BY <1>1
<1>4. TauUnder(i.rho) > 0
  BY DEF Scorable
<1> HIDE DEF p, q
<1>5. ~(TauUnder(i.rho) < 0)
  BY <1>2, <1>3, <1>4
<1>6. Sign(TauUnder(i.rho)) = 1
  BY <1>5 DEF Sign
<1>7. Scale(i) = TauUnder(i.rho)
  BY <1>6, <1>2, <1>3 DEF Scale
<1> QED BY <1>2, <1>3, <1>4, <1>6, <1>7

\* What is below the dearest row, and amplified less, is below what it is below.
LEMMA BelowTheDearest ==
  ASSUME NEW most \in Nat, NEW T \in Nat, T * most < Infinity,
         NEW t \in Nat, 1 <= t, t <= T, NEW parts \in Nat, parts <= most
  PROVE  parts < Infinity /\ t * parts < Infinity /\ t * parts \in Nat
<1>1. t * parts <= t * most
  BY ProductIsMonotone
<1>2. most * t <= most * T /\ most * 1 <= most * t
  BY ProductIsMonotone
<1>3. t * most <= T * most /\ most <= t * most /\ t * most \in Nat /\ T * most \in Nat /\ t * parts \in Nat
  BY <1>2
<1> QED BY <1>1, <1>3 DEF Infinity

\* Nothing a row of finite parts amounts to overflows.
LEMMA Reach ==
  ASSUME NEW i, Scorable(i),
         NEW root \in Nat, root \in {0, i.cond, i.marg, i.joint} \ {Infinity, NaN},
         NEW t \in Nat, 1 <= t, t <= TauOver(i.rho), NEW parts \in Nat,
         parts <= 5324 * (i.a * root) + 748 * (i.m * Iterations(i.x))
  PROVE  parts < Infinity /\ t * parts < Infinity /\ t * parts \in Nat
<1> DEFINE most == 5324 * (i.a * root) + 748 * (i.m * Iterations(i.x))
<1>1. i.a \in Nat /\ i.m \in Nat /\ i.x \in Nat
  BY DEF Scorable
<1>2. Iterations(i.x) \in Nat /\ TauOver(i.rho) \in Nat
  BY <1>1, IterationsAreNat, Amplification
<1>3. i.a * root \in Nat /\ i.m * Iterations(i.x) \in Nat
  <2> DEFINE a == i.a
             m == i.m
             I == Iterations(i.x)
  <2>1. a \in Nat /\ m \in Nat /\ I \in Nat
    BY <1>1, <1>2
  <2> HIDE DEF a, m, I
  <2>2. a * root \in Nat
    BY <2>1, ProductIsNat
  <2>3. m * I \in Nat
    BY <2>1, ProductIsNat
  <2> QED BY <2>2, <2>3 DEF a, m, I
<1>4. most \in Nat
  BY <1>3
<1>5. 11 * Timing.all * (i.a * root) + 11 * Timing.A * (i.m * Iterations(i.x)) = most
  BY <1>3 DEF Timing
<1>6. TauOver(i.rho) * most < Infinity
  BY <1>5 DEF Scorable, WithinReach
<1> HIDE DEF most
<1>7. parts <= most
  BY DEF most
<1> QED BY <1>2, <1>4, <1>6, <1>7, BelowTheDearest

\* The solves of a row are proportional to the constant they cost.
LEMMA SolvesShape ==
  ASSUME NEW i, Scorable(i), NEW m \in Nat, m <= i.m
  PROVE  /\ \A f \in Tenths : Solves(i, m, f) = f * (68 * (m * Iterations(i.x)))
         /\ m * Iterations(i.x) \in Nat /\ m * Iterations(i.x) <= i.m * Iterations(i.x)
<1> DEFINE I == Iterations(i.x)
<1>1. i.x \in Nat /\ i.m \in Nat \ {0} /\ I \in Nat
  BY IterationsAreNat DEF Scorable
<1>2. 748 * (i.m * I) < Infinity
  <2>1. 748 * (i.m * I) \in Nat /\ 748 * (i.m * I) <= 5324 * (i.a * 0) + 748 * (i.m * I)
    <3>1. i.a * 0 = 0 /\ i.m * I \in Nat
      BY <1>1 DEF Scorable
    <3> HIDE DEF I
    <3> QED BY <3>1
  <2> QED BY <2>1, Reach, Amplification DEF Infinity, NaN
<1> HIDE DEF I
<1>3. m * I \in Nat /\ m * I <= i.m * I
  <2>1. I * m <= I * i.m /\ I * m = m * I /\ I * i.m = i.m * I /\ m * I \in Nat
    BY <1>1, ProductIsMonotone
  <2> QED BY <2>1
<1>4. I < Infinity
  <2>1. I * 1 <= I * i.m /\ I * i.m = i.m * I /\ i.m * I \in Nat
    BY <1>1, ProductIsMonotone
  <2> QED BY <1>1, <1>2, <2>1 DEF Infinity
<1>5. IsFinite(I)
  BY <1>1, <1>4 DEF IsFinite, Infinity, NaN
<1>6. \A f \in Tenths : (m * 68 * f) * I = f * (68 * (m * I))
  BY <1>1 DEF Tenths
<1>7. \A f \in Tenths : Solves(i, m, f) = (m * 68 * f) * I
  BY <1>5 DEF Solves, Times, Timing, I
<1> QED BY <1>3, <1>6, <1>7 DEF I

\* A row of gradients and solves, amplified: proportional to its timing constants
\* where its root is finite, and as infinite as the root otherwise.
AmountShape(t, g, s) ==
  \/ \E K \in Nat : 11 * K < Infinity /\ \A f \in Tenths : Times(t, Add(g[f], s[f])) = f * K
  \/ \A f \in Tenths : Times(t, Add(g[f], s[f])) = Infinity
  \/ \A f \in Tenths : Times(t, Add(g[f], s[f])) = NaN

LEMMA AmountsShape ==
  ASSUME NEW i, Scorable(i), NEW root \in {i.cond, i.marg, i.joint}, NEW constant \in Nat, constant <= 484,
         NEW m \in Nat, m <= i.m,
         NEW t \in Nat, 1 <= t, t <= TauOver(i.rho),
         NEW g, NEW s,
         \A f \in Tenths : g[f] = Gradient(i.a, root, constant, f),
         \A f \in Tenths : s[f] = f * (68 * (m * Iterations(i.x)))
  PROVE  AmountShape(t, g, s)
<1> DEFINE V == m * Iterations(i.x)
           U == i.a * root
<1>1. i.a \in Nat /\ i.m \in Nat /\ root \in Nat \cup {Infinity, NaN}
  BY DEF Scorable
<1>2. V \in Nat /\ V <= i.m * Iterations(i.x)
  BY SolvesShape
<1>3. \A f \in Tenths : s[f] = f * (68 * V)
  OBVIOUS
<1> HIDE DEF V
<1>4. i.m * Iterations(i.x) \in Nat
  <2>1. i.m <= i.m
    BY <1>1
  <2> QED BY <1>1, <2>1, SolvesShape
<1>5. \A f \in Tenths : s[f] \in Nat /\ IsFinite(s[f])
  <2> TAKE f \in Tenths
  <2>1. f * (68 * V) \in Nat /\ f * (68 * V) <= 748 * V
    BY <1>2 DEF Tenths
  <2>2. i.a * 0 = 0
    BY <1>1
  <2>3. 0 \in {0, i.cond, i.marg, i.joint} \ {Infinity, NaN}
    BY DEF Infinity, NaN
  <2> DEFINE parts == f * (68 * V)
             W == i.m * Iterations(i.x)
  <2>4. parts <= 5324 * (i.a * 0) + 748 * W
    <3> HIDE DEF W, parts
    <3>1. V <= W /\ W \in Nat
      BY <1>2, <1>4 DEF W
    <3>2. parts \in Nat /\ parts <= 748 * V
      BY <2>1 DEF parts
    <3> QED BY <2>2, <3>1, <3>2, <1>2
  <2>5. parts < Infinity
    <3> HIDE DEF parts
    <3>1. parts \in Nat
      BY <2>1 DEF parts
    <3> QED BY <2>3, <2>4, <3>1, Reach
  <2> QED BY <1>3, <2>1, <2>5 DEF IsFinite, Infinity, NaN
<1>6. CASE \A f \in Tenths : g[f] = Infinity
  <2>1. \A f \in Tenths : Add(g[f], s[f]) = Infinity
    BY <1>5, <1>6 DEF Add, IsFinite, Infinity, NaN
  <2>2. Times(t, Infinity) = Infinity
    <3>1. ~IsFinite(Infinity) /\ Infinity # NaN /\ t # 0 /\ ~(t < 0) /\ 1 * Infinity = Infinity
      BY DEF IsFinite, Infinity, NaN
    <3> QED BY <3>1 DEF Times, Sign
  <2> QED BY <2>1, <2>2 DEF AmountShape
<1>7. CASE \A f \in Tenths : g[f] = NaN
  <2>1. \A f \in Tenths : Add(g[f], s[f]) = NaN
    BY <1>7 DEF Add
  <2>2. Times(t, NaN) = NaN
    BY DEF Times, IsFinite
  <2> QED BY <2>1, <2>2 DEF AmountShape
<1>8. CASE IsFinite(root) /\ root \in Nat /\ \A f \in Tenths : g[f] = f * (constant * U)
  <2>1. U \in Nat
    BY <1>1, <1>8, ProductIsNat
  <2>2. root \in {0, i.cond, i.marg, i.joint} \ {Infinity, NaN}
    BY <1>8 DEF IsFinite
  <2> DEFINE part == constant * U + 68 * V
             K == t * part
  <2>3. constant * U \in Nat /\ constant * U <= 484 * U
    <3> HIDE DEF U
    <3>1. U * constant <= U * 484 /\ U * constant = constant * U
      BY <2>1, ProductIsMonotone
    <3>2. constant * U \in Nat
      BY <2>1, ProductIsNat
    <3>3. U * 484 = 484 * U
      BY <2>1
    <3> QED BY <3>1, <3>2, <3>3
  <2>4. part \in Nat /\ 11 * part <= 5324 * U + 748 * (i.m * Iterations(i.x))
    <3> DEFINE W == i.m * Iterations(i.x)
               C == constant * U
    <3>1. W \in Nat /\ V <= W
      BY <1>2, <1>4
    <3> HIDE DEF W
    <3>2. C \in Nat /\ C <= 484 * U
      BY <2>3
    <3> HIDE DEF C, U
    <3>3. C + 68 * V \in Nat /\ 11 * (C + 68 * V) <= 5324 * U + 748 * W
      BY <1>2, <2>1, <3>1, <3>2
    <3> QED BY <3>3 DEF C, W
  <2> HIDE DEF part
  <2>5. 11 * part \in Nat /\ 11 * part < Infinity /\ t * (11 * part) < Infinity
    <3>1. 11 * part \in Nat
      BY <2>4
    <3> HIDE DEF U
    <3>2. 11 * part <= 5324 * (i.a * root) + 748 * (i.m * Iterations(i.x))
      BY <2>4 DEF U
    <3> QED BY <1>8, <2>2, <3>1, <3>2, Reach
  <2>6. K \in Nat /\ 11 * K < Infinity
    <3>1. t * part \in Nat /\ t * (11 * part) = 11 * (t * part)
      BY <2>4
    <3> QED BY <2>5, <3>1
  <2>7. \A f \in Tenths : Add(g[f], s[f]) = f * part
    <3> TAKE f \in Tenths
    <3>1. g[f] = f * (constant * U) /\ s[f] = f * (68 * V)
      BY <1>3, <1>8
    <3>2. f * (constant * U) + f * (68 * V) = f * part
      <4> DEFINE C == constant * U
      <4>1. C \in Nat
        BY <2>3
      <4> HIDE DEF C
      <4>2. f * C + f * (68 * V) = f * (C + 68 * V)
        BY <1>2, <4>1 DEF Tenths
      <4> QED BY <4>2 DEF part, C
    <3>3. f * part \in Nat /\ f * part <= 11 * part
      BY <2>4 DEF Tenths
    <3>4. g[f] \in Nat /\ g[f] <= f * part
      <4> DEFINE C == constant * U
      <4>1. C \in Nat
        BY <2>3
      <4> HIDE DEF C
      <4>2. f * C \in Nat /\ f * (68 * V) \in Nat
        BY <1>2, <4>1 DEF Tenths
      <4>3. f * C + f * (68 * V) = f * part
        BY <3>2 DEF C
      <4>4. g[f] = f * C
        BY <3>1 DEF C
      <4> QED BY <4>2, <4>3, <4>4
    <3>5. g[f] \notin {Infinity, NaN} /\ s[f] \notin {Infinity, NaN}
      <4>1. s[f] \notin {Infinity, NaN}
        BY <1>5 DEF IsFinite
      <4>2. g[f] < Infinity /\ g[f] # NaN
        BY <2>5, <3>3, <3>4 DEF Infinity, NaN, Tenths
      <4> QED BY <3>4, <4>1, <4>2 DEF Infinity
    <3> QED BY <3>1, <3>2, <3>5 DEF Add
  <2>8. \A f \in Tenths : Times(t, f * part) = f * K
    <3> TAKE f \in Tenths
    <3>1. f * part \in Nat /\ f * part <= 11 * part
      BY <2>4 DEF Tenths
    <3>2. IsFinite(f * part)
      BY <2>5, <3>1 DEF IsFinite, Infinity, NaN
    <3>3. t * (f * part) = f * (t * part)
      BY <2>4 DEF Tenths
    <3> QED BY <3>2, <3>3 DEF Times
  <2> HIDE DEF K
  <2> QED BY <2>6, <2>7, <2>8 DEF AmountShape
<1>9. \/ IsFinite(root) /\ root \in Nat /\ \A f \in Tenths : Gradient(i.a, root, constant, f) = f * (constant * U)
      \/ \A f \in Tenths : Gradient(i.a, root, constant, f) = Infinity
      \/ \A f \in Tenths : Gradient(i.a, root, constant, f) = NaN
  BY <1>1, GradientShape
<1> QED BY <1>6, <1>7, <1>8, <1>9

\* So is every row of a scoreboard.
LEMMA CostsShape ==
  ASSUME NEW i, Scorable(i), NEW s \in {"split", "collapse", "joint"}
  PROVE  CostShape(i, s)
<1>1. /\ TauOver(i.rho) \in Nat /\ TauOver(i.rho) >= 1 /\ Sign(TauUnder(i.rho)) = 1
      /\ Scale(i) \in Nat /\ Scale(i) >= 1 /\ Scale(i) <= TauOver(i.rho)
  BY Amplification
<1>2. i.m \in Nat /\ 1 <= i.m /\ 0 <= i.m /\ i.m <= i.m
  BY DEF Scorable
<1>3. CASE s = "split"
  <2> DEFINE g == [f \in Tenths |-> Gradient(i.a, i.cond, 52, f)]
             p == [f \in Tenths |-> f * (68 * (i.m * Iterations(i.x)))]
  <2>1. AmountShape(TauOver(i.rho), g, p)
    BY <1>1, <1>2, AmountsShape
  <2>2. \A f \in Tenths : Solves(i, i.m, f) = p[f]
    BY <1>2, SolvesShape
  <2>3. 1 * TauOver(i.rho) = TauOver(i.rho)
    BY <1>1
  <2>4. \A f \in Tenths : Cost(i, s, f) = Times(TauOver(i.rho), Add(g[f], p[f]))
    BY <1>1, <1>3, <2>2, <2>3 DEF Cost, SplitCost, Timing
  <2> HIDE DEF g, p
  <2> QED BY <2>1, <2>4 DEF AmountShape, CostShape
<1>4. CASE s = "collapse"
  <2> DEFINE g == [f \in Tenths |-> Gradient(i.a, i.marg, 432, f)]
             p == [f \in Tenths |-> f * (68 * (1 * Iterations(i.x)))]
  <2>1. AmountShape(Scale(i), g, p)
    BY <1>1, <1>2, AmountsShape
  <2>2. \A f \in Tenths : Solves(i, 1, f) = p[f]
    BY <1>2, SolvesShape
  <2>3. \A f \in Tenths : Cost(i, s, f) = Times(Scale(i), Add(g[f], p[f]))
    BY <1>4, <2>2 DEF Cost, CollapseCost, Timing
  <2> HIDE DEF g, p
  <2> QED BY <2>1, <2>3 DEF AmountShape, CostShape
<1>5. CASE s = "joint"
  <2> DEFINE g == [f \in Tenths |-> Gradient(i.a, i.joint, 484, f)]
             p == [f \in Tenths |-> f * (68 * (0 * Iterations(i.x)))]
  <2>1. AmountShape(Scale(i), g, p)
    BY <1>1, <1>2, AmountsShape
  <2>2. \A f \in Tenths : p[f] = 0
    <3>1. Iterations(i.x) \in Nat
      BY IterationsAreNat DEF Scorable
    <3>2. 0 * Iterations(i.x) = 0
      BY <3>1
    <3> QED BY <3>2 DEF Tenths
  <2>3. \A f \in Tenths : g[f] \in Int
    <3>1. i.a \in Nat /\ i.joint \in Nat \cup {Infinity, NaN} /\ 484 \in Nat
      BY DEF Scorable
    <3> DEFINE j == i.joint
               a == i.a
    <3> HIDE DEF g, p, a, j
    <3>0. \/ IsFinite(i.joint) /\ i.joint \in Nat /\ \A f \in Tenths : Gradient(i.a, i.joint, 484, f) = f * (484 * (i.a * i.joint))
          \/ \A f \in Tenths : Gradient(i.a, i.joint, 484, f) = Infinity
          \/ \A f \in Tenths : Gradient(i.a, i.joint, 484, f) = NaN
      <4>1. a \in Nat /\ j \in Nat \cup {Infinity, NaN} /\ 484 \in Nat
        BY <3>1 DEF a, j
      <4>2. \/ IsFinite(j) /\ j \in Nat /\ \A f \in Tenths : Gradient(a, j, 484, f) = f * (484 * (a * j))
            \/ \A f \in Tenths : Gradient(a, j, 484, f) = Infinity
            \/ \A f \in Tenths : Gradient(a, j, 484, f) = NaN
        BY <4>1, GradientShape
      <4> QED BY <4>2 DEF a, j
    <3> TAKE f \in Tenths
    <3>2. \/ IsFinite(i.joint) /\ i.joint \in Nat /\ Gradient(i.a, i.joint, 484, f) = f * (484 * (i.a * i.joint))
          \/ Gradient(i.a, i.joint, 484, f) = Infinity
          \/ Gradient(i.a, i.joint, 484, f) = NaN
      BY <3>0
    <3>6. g[f] = Gradient(i.a, i.joint, 484, f)
      BY DEF g
    <3>3. CASE i.joint \in Nat /\ Gradient(i.a, i.joint, 484, f) = f * (484 * (i.a * i.joint))
      <4>1. i.a * i.joint \in Nat
        BY <3>1, <3>3, ProductIsNat
      <4> DEFINE U == i.a * i.joint
      <4> HIDE DEF U
      <4>2. f * (484 * U) \in Int
        BY <4>1 DEF U, Tenths
      <4> QED BY <3>3, <3>6, <4>2 DEF U
    <3>5. Infinity \in Int /\ NaN \in Int
      BY DEF Infinity, NaN
    <3> QED BY <3>2, <3>3, <3>5, <3>6
  <2>4. \A f \in Tenths : Add(g[f], p[f]) = g[f]
    <3> TAKE f \in Tenths
    <3>1. g[f] \in Int /\ p[f] = 0
      BY <2>2, <2>3
    <3> HIDE DEF g, p
    <3> QED BY <3>1 DEF Add, Infinity, NaN
  <2>5. \A f \in Tenths : Cost(i, s, f) = Times(Scale(i), Add(g[f], p[f]))
    BY <1>5, <2>4 DEF Cost, JointCost, Timing
  <2> HIDE DEF g, p
  <2> QED BY <2>1, <2>5 DEF AmountShape, CostShape
<1> QED BY <1>3, <1>4, <1>5

\* A row that some constants within their bands make the only cheapest has a
\* finite cost, and so has its place in the board.
LEMMA VerdictStands ==
  ASSUME NEW i, Scorable(i), NEW k \in 1 .. 3, NEW f \in [{"split", "collapse", "joint"} -> Tenths],
         \A t \in {"split", "collapse", "joint"} \ {Strategies[k]} :
           /\ IsFinite(Cost(i, Strategies[k], f[Strategies[k]]))
           /\ \/ Cost(i, t, f[t]) = NaN
              \/ Cost(i, Strategies[k], f[Strategies[k]]) < Cost(i, t, f[t])
  PROVE  Strategies[k] \in {Scoreboard(Rows(i)).winner} \cup Scoreboard(Rows(i)).contested
<1> DEFINE rows == Rows(i)
           s == Strategies[k]
           all == {"split", "collapse", "joint"}
           finite == {j \in 1 .. 3 : IsFinite(rows[j].hi)}
           least == {j \in finite : \A l \in finite : rows[j].hi <= rows[l].hi}
           best == Min(least)
<1>1. \A j \in 1 .. 3 : Strategies[j] \in all
  BY DEF Strategies
<1>2. \A j, l \in 1 .. 3 : j # l => Strategies[j] # Strategies[l]
  BY DEF Strategies
<1>3. /\ DOMAIN rows = 1 .. 3
      /\ \A j \in 1 .. 3 : /\ rows[j].strategy = Strategies[j]
                           /\ rows[j].lo = Cost(i, Strategies[j], 9) /\ rows[j].hi = Cost(i, Strategies[j], 11)
  BY DEF Rows, Strategies
<1>4. \A j \in 1 .. 3 : CostShape(i, Strategies[j])
  BY <1>1, CostsShape
<1> HIDE DEF rows
<1>5. \A j \in 1 .. 3, c \in Tenths :
        IsFinite(Cost(i, Strategies[j], c)) =>
          \E K \in Nat : 11 * K < Infinity /\ \A d \in Tenths : Cost(i, Strategies[j], d) = d * K
  <2> SUFFICES ASSUME NEW j \in 1 .. 3, NEW c \in Tenths, IsFinite(Cost(i, Strategies[j], c))
               PROVE  \E K \in Nat : 11 * K < Infinity /\ \A d \in Tenths : Cost(i, Strategies[j], d) = d * K
    OBVIOUS
  <2> QED BY <1>4 DEF CostShape, IsFinite
<1>6. \E t \in all \ {s} : TRUE
  BY <1>1
<1>7. IsFinite(Cost(i, s, f[s])) /\ f[s] \in Tenths
  BY <1>1, <1>6
<1>8. PICK K \in Nat : 11 * K < Infinity /\ \A d \in Tenths : Cost(i, s, d) = d * K
  BY <1>5, <1>7
<1>9. /\ rows[k].lo = 9 * K /\ rows[k].hi = 11 * K /\ Cost(i, s, f[s]) = f[s] * K
  BY <1>3, <1>7, <1>8 DEF Tenths
<1>10. k \in finite
  <2>1. IsFinite(11 * K)
    BY <1>8 DEF IsFinite, Infinity, NaN
  <2> QED BY <1>9, <2>1
<1>11. \A j \in finite : rows[j].hi \in Nat
  <2> TAKE j \in finite
  <2>1. 11 \in Tenths /\ IsFinite(Cost(i, Strategies[j], 11))
    BY <1>3 DEF Tenths
  <2>2. PICK L \in Nat : \A d \in Tenths : Cost(i, Strategies[j], d) = d * L
    BY <1>5, <2>1
  <2>3. rows[j].hi = 11 * L
    BY <1>3, <2>1, <2>2
  <2> QED BY <2>3
<1>12. best \in least
  <2> DEFINE H == {rows[j].hi : j \in finite}
  <2>1. H \subseteq Nat /\ H # {}
    BY <1>10, <1>11
  <2> HIDE DEF H
  <2>2. PICK h \in H : \A y \in H : h <= y
    BY <2>1, LeastNat
  <2>3. PICK j \in finite : h = rows[j].hi
    BY DEF H
  <2>4. \A l \in finite : rows[l].hi \in H
    BY DEF H
  <2>5. j \in least
    BY <2>2, <2>3, <2>4
  <2>6. least \subseteq Nat /\ least # {}
    BY <2>5
  <2> HIDE DEF least
  <2>7. \E b \in least : \A y \in least : b <= y
    BY <2>6, LeastNat
  <2> QED BY <2>7 DEF Min
<1>13. best \in 1 .. 3 /\ IsFinite(rows[best].hi)
  BY <1>12
<1> HIDE DEF best
<1>14. /\ Scoreboard(rows).winner = rows[best].strategy
       /\ Scoreboard(rows).contested =
            {rows[j].strategy : j \in {l \in (1 .. 3) \ {best} : rows[l].hi # Infinity /\ Overlaps(rows[l], rows[best])}}
  <2>1. finite # {}
    BY <1>10
  <2>2. Scoreboard(rows) = [winner |-> rows[best].strategy, abstained |-> FALSE,
           contested |-> {rows[l].strategy : l \in
                            {j \in (1 .. 3) \ {best} : rows[j].hi # Infinity /\ Overlaps(rows[j], rows[best])}}]
    BY <1>3, <2>1 DEF Scoreboard, best
  <2> QED BY <2>2
<1>15. CASE best = k
  BY <1>3, <1>14, <1>15 DEF rows
<1>16. CASE best # k
  <2> DEFINE t == Strategies[best]
  <2>1. t \in all \ {s}
    BY <1>1, <1>2, <1>13, <1>16
  <2>2. 11 \in Tenths /\ 9 \in Tenths
    BY DEF Tenths
  <2>3. IsFinite(Cost(i, t, 11))
    BY <1>3, <1>13
  <2>4. PICK L \in Nat : 11 * L < Infinity /\ \A d \in Tenths : Cost(i, t, d) = d * L
    BY <1>5, <1>13, <2>2, <2>3
  <2>5. f[t] \in Tenths
    BY <2>1
  <2>6. Cost(i, t, f[t]) = f[t] * L /\ f[t] * L \in Nat
    BY <2>4, <2>5 DEF Tenths
  <2>7. Cost(i, t, f[t]) # NaN
    BY <2>6 DEF NaN
  <2>8. Cost(i, s, f[s]) < Cost(i, t, f[t])
    BY <2>1, <2>7
  <2>9. f[s] * K < f[t] * L
    BY <1>9, <2>6, <2>8
  <2>10. 9 * K < 11 * L
    BY <1>7, <2>5, <2>9 DEF Tenths
  <2>11. rows[best].hi = 11 * L
    BY <1>3, <1>13, <2>2, <2>4
  <2>12. Less(rows[k].lo, rows[best].hi)
    <3>1. 9 * K # NaN /\ 11 * L # NaN
      BY DEF NaN
    <3> QED BY <1>9, <2>10, <2>11, <3>1 DEF Less
  <2>13. rows[k].hi # Infinity
    BY <1>8, <1>9 DEF Infinity
  <2>14. Overlaps(rows[k], rows[best])
    BY <2>12 DEF Overlaps
  <2>15. rows[k].strategy \in Scoreboard(rows).contested
    BY <1>14, <1>16, <2>13, <2>14
  <2> QED BY <1>3, <2>15 DEF rows
<1> QED BY <1>15, <1>16

\* A plan with a scoreboard made it from the inputs of its model, each of which
\* is of the kind the assumption on the costs says.
LEMMA LadderIsScored ==
  ASSUME Compiled, plan.ladder # Nothing, TauUnder(plan.ladder.inputs.rho) > 0
  PROVE  Scorable(plan.ladder.inputs) /\ plan.ladder.verdict = Scoreboard(Rows(plan.ladder.inputs))
<1>1. PICK family \in Worlds : \E world \in family :
        world.model = model /\ plan = Plan(model, world.strategy) /\ Prices(model, world.strategy)
  BY DEF Compiled
<1>2. PICK world \in family :
        world.model = model /\ plan = Plan(model, world.strategy) /\ Prices(model, world.strategy)
  BY <1>1
<1> DEFINE i == LadderInputs(model)
<1>3. HasLadder(model, world.strategy) /\ plan.ladder = Ladder(i)
  BY <1>2 DEF Plan
<1>4. plan.ladder.inputs = i /\ plan.ladder.verdict = Scoreboard(Rows(i))
  BY <1>3 DEF Ladder
<1>5. Priced(i)
  BY <1>2, <1>3 DEF Prices
<1>6. i.m \in Nat \ {0}
  <2>1. i.m = IF Method(model) = "gcr+mh" THEN 3 ELSE 1
    BY DEF LadderInputs
  <2> QED BY <2>1
<1>7. /\ i.a \in Nat /\ i.rho \in Nat \X Nat
      /\ {i.x, i.cond, i.marg, i.joint} \subseteq Nat \cup {Infinity, NaN}
      /\ WithinReach(i)
  BY <1>2, <1>3, <1>5, CostsAssumption
<1>8. IsFinite(i.x) /\ i.x \in Nat
  BY <1>5, <1>7 DEF Priced, IsFinite
<1>9. TauUnder(i.rho) > 0
  BY <1>4
<1> HIDE DEF i
<1>10. Scorable(i)
  BY <1>6, <1>7, <1>8, <1>9 DEF Scorable
<1> QED BY <1>4, <1>10

\* For every family of models whose couplings are measured in numbers a float
\* holds: no strategy that the timing constants could make the only cheapest is
\* left unsaid by the scoreboard of a plan.
THEOREM VerdictsAreSound == PlanSpec => []TheVerdictIsSound
<1>1. SolveInv => TheVerdictIsSound
  <2> SUFFICES ASSUME SolveInv, plan # Nothing, plan.ladder # Nothing, TauUnder(plan.ladder.inputs.rho) > 0
               PROVE  LET inputs == plan.ladder.inputs
                          verdict == plan.ladder.verdict
                          all == {Strategies[k] : k \in DOMAIN Strategies}
                          Cheapest(s) == \E f \in [all -> {9, 10, 11}] : \A t \in all \ {s} :
                            LET mine == Cost(inputs, s, f[s])
                                other == Cost(inputs, t, f[t])
                            IN IsFinite(mine) /\ (other = NaN \/ mine < other)
                      IN \A s \in all : Cheapest(s) => s \in {verdict.winner} \cup verdict.contested
    BY DEF TheVerdictIsSound
  <2> DEFINE i == plan.ladder.inputs
             all == {Strategies[k] : k \in DOMAIN Strategies}
  <2>1. Scorable(i) /\ plan.ladder.verdict = Scoreboard(Rows(i))
    BY LadderIsScored DEF SolveInv
  <2>2. all = {"split", "collapse", "joint"} /\ DOMAIN Strategies = 1 .. 3
    BY DEF Strategies
  <2> HIDE DEF i, all
  <2>3. SUFFICES ASSUME NEW s \in all, NEW f \in [all -> {9, 10, 11}],
                        \A t \in all \ {s} : /\ IsFinite(Cost(i, s, f[s]))
                                             /\ Cost(i, t, f[t]) = NaN \/ Cost(i, s, f[s]) < Cost(i, t, f[t])
                 PROVE  s \in {plan.ladder.verdict.winner} \cup plan.ladder.verdict.contested
    BY DEF i, all
  <2>4. PICK k \in 1 .. 3 : s = Strategies[k]
    BY <2>2 DEF all
  <2>5. f \in [{"split", "collapse", "joint"} -> Tenths]
    BY <2>2 DEF Tenths
  <2>6. Strategies[k] \in {Scoreboard(Rows(i)).winner} \cup Scoreboard(Rows(i)).contested
    BY <2>1, <2>2, <2>3, <2>4, <2>5, VerdictStands
  <2> QED BY <2>1, <2>4, <2>6
<1> QED BY <1>1, SolveInvBegins, SolveInvStep, PTL DEF PlanSpec
=============================================================================
