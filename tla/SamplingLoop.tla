---------------------------- MODULE SamplingLoop ----------------------------
(***************************************************************************)
(* The batched posterior run: dispatch/sampling.py:run_mcmc drives one     *)
(* numpyro MCMC object batch by batch, judges the accumulated draws after  *)
(* every batch, and stops on convergence, on the draw cap or on the clock; *)
(* dispatch/task.py:_run_posterior then turns how the loop stopped into a  *)
(* TerminationRecord and the warnings that travel with it.                 *)
(*                                                                         *)
(* A chain is abstracted to positions: draw number i of the chain is i.    *)
(* What a diagnostic measures is a nondeterministic verdict; what the loop *)
(* does with it is kept exactly.                                           *)
(***************************************************************************)
EXTENDS Integers, SequencesExt

CONSTANTS
  Caps,            \* requested draws per chain (budget.draws); 0 is refused
  MinDraws,        \* StoppingPolicy.min_draws
  BatchSizes,      \* StoppingPolicy.batch_size
  Needed,          \* StoppingPolicy.consecutive
  MaxDivergences,  \* StoppingPolicy.max_divergences
  Divergences      \* divergent transitions one batch may report

ASSUME PolicyAssumption ==
  /\ Caps \subseteq Nat
  /\ MinDraws \subseteq {n \in Nat : n >= 4}
  /\ BatchSizes \subseteq Nat \ {0}
  /\ Needed \subseteq Nat \ {0}
  /\ MaxDivergences \subseteq Nat
  /\ Divergences \subseteq Nat

VARIABLES
  policy,       \* the run's settings, fixed for its whole life
  pc,           \* "sampling", "stopped", "reported" or "raised"
  count,        \* draws per chain collected so far
  consecutive,  \* checkpoints passed in a row
  divergences,  \* divergent transitions so far, or Unknown
  checkpoints,  \* control.checkpoints: one verdict per batch
  kept,         \* the batches concatenated into the result, as chain segments
  mcmc,         \* the external MCMC object: where its chain stands
  expired,      \* the clock has passed max_seconds
  reason,       \* stop_reason
  termination,  \* TerminationRecord.reason
  warnings      \* codes of the run's warnings

vars == <<policy, pc, count, consecutive, divergences, checkpoints, kept,
          mcmc, expired, reason, termination, warnings>>

\* extra fields absent: divergence_count is None, and stays None
Unknown == -1

Smaller(a, b) == IF a <= b THEN a ELSE b

Policy == [mode : {"fixed", "checkpoints"}, timed : BOOLEAN, cap : Caps,
           min : MinDraws, batch : BatchSizes, need : Needed,
           maxdiv : MaxDivergences, certify : BOOLEAN]

Verdict == [draws : Nat, owned : BOOLEAN, passed : BOOLEAN]

-----------------------------------------------------------------------------
\* One unbroken call of mcmc.run: a fixed budget with no clock to watch.
Unbatched == policy.mode = "fixed" /\ ~policy.timed

\* The size of the next batch.
BatchSize ==
  LET remaining == policy.cap - count
      wanted    == IF count = 0 /\ policy.mode = "checkpoints"
                     THEN policy.min ELSE policy.batch
  IN IF Unbatched THEN remaining ELSE Smaller(remaining, wanted)

\* (bug) every batch restarts the chain
RunChain_Restart(size) == [at |-> size, warmups |-> mcmc.warmups + 1]

\* mcmc.run(...): a first call warms up and starts the chain; a later one
\* continues from post_warmup_state, which the loop sets to last_state.
RunChain(size) ==
  IF count > 0
    THEN [at |-> mcmc.at + size, warmups |-> mcmc.warmups]
    ELSE [at |-> size, warmups |-> mcmc.warmups + 1]

\* (bug) only the newest batch is counted
Accumulate_Latest(seen) == seen

\* divergence_count after a batch that reported `seen`.
Accumulate(seen) ==
  IF seen = Unknown \/ divergences = Unknown THEN Unknown
                                             ELSE divergences + seen

\* checkpoint_diagnostics: fewer than four draws are never judged; `owned` is
\* chain_diagnostics on every site, `within` the finite metrics and the
\* policy's own ess/rhat/mcse bounds, and the divergences have to be counted.
Judge(draws, seen, owned, within) ==
  [draws  |-> draws,
   owned  |-> draws >= 4 /\ owned,
   passed |-> /\ draws >= 4 /\ owned /\ within
              /\ seen # Unknown /\ seen <= policy.maxdiv]

\* (bug) a failed checkpoint does not reset the counter
Streak_Kept(verdict) ==
  consecutive + (IF verdict.passed /\ verdict.draws >= policy.min THEN 1 ELSE 0)

\* consecutive after a checkpoint.
Streak(verdict) ==
  IF Unbatched THEN consecutive
  ELSE IF verdict.passed /\ verdict.draws >= policy.min THEN consecutive + 1
  ELSE 0

Converged(streak) == policy.mode = "checkpoints" /\ streak >= policy.need

\* The clock is read after the diagnostics, and not by an unbatched run.
TimedOut(streak, late) == ~Unbatched /\ ~Converged(streak) /\ late

StopReason(streak, late) ==
  IF Converged(streak) THEN "diagnostics_converged"
  ELSE IF TimedOut(streak, late) THEN "time_cap"
  ELSE IF policy.mode = "checkpoints" THEN "draw_cap"
  ELSE "fixed_budget"

Init ==
  /\ policy \in Policy
  /\ pc = "sampling"
  /\ count = 0
  /\ consecutive = 0
  /\ divergences = 0
  /\ checkpoints = <<>>
  /\ kept = <<>>
  /\ mcmc = [at |-> 0, warmups |-> 0]
  /\ expired = FALSE
  /\ reason = "fixed_budget"
  /\ termination = "none"
  /\ warnings = {}

\* run_mcmc refuses a cap below one, and prepare_initial_params refuses a
\* point it cannot complete: nothing has been drawn in either case.
Refuse ==
  /\ pc = "sampling" /\ count = 0
  /\ pc' = "raised"
  /\ UNCHANGED <<policy, count, consecutive, divergences, checkpoints, kept,
                 mcmc, expired, reason, termination, warnings>>

\* One turn of the loop: draw, concatenate, judge, decide whether to stop.
\* The size of the batch is settled before the chain runs.
Collect(size, seen, owned, within, late) ==
  LET total   == count + size
      run     == RunChain(size)
      verdict == Judge(total, Accumulate(seen), owned, within)
      streak  == Streak(verdict)
  IN /\ count' = total
     /\ mcmc' = run
     /\ kept' = Append(kept, [from |-> run.at - size, to |-> run.at])
     /\ divergences' = Accumulate(seen)
     /\ checkpoints' = Append(checkpoints, verdict)
     /\ consecutive' = streak
     /\ expired' = late
     /\ reason' = StopReason(streak, late)
     /\ pc' = IF \/ Unbatched \/ total >= policy.cap
                 \/ Converged(streak) \/ TimedOut(streak, late)
                THEN "stopped" ELSE "sampling"

Batch ==
  /\ pc = "sampling" /\ count < policy.cap
  /\ \E seen \in Divergences \cup {Unknown}, owned, within, late \in BOOLEAN :
       /\ late => policy.timed
       /\ Collect(BatchSize, seen, owned, within, late)
  /\ UNCHANGED <<policy, termination, warnings>>

-----------------------------------------------------------------------------
\* _sample_termination on a chain: every site's own diagnostic converged.
SampleTermination ==
  IF count >= 4 /\ Last(checkpoints).owned THEN "converged" ELSE "completed"

\* (bug) a failed last checkpoint of a fixed budget is not looked at
RunTermination_Owned ==
  IF reason \in {"draw_cap", "time_cap"} THEN "budget_exhausted"
  ELSE IF reason = "diagnostics_converged" THEN "converged"
  ELSE SampleTermination

\* _run_posterior: how the loop stopped overrides what the draws look like.
RunTermination ==
  IF reason \in {"draw_cap", "time_cap"} THEN "budget_exhausted"
  ELSE IF reason = "diagnostics_converged" THEN "converged"
  ELSE IF ~Last(checkpoints).passed THEN "completed"
  ELSE SampleTermination

\* _sample_warnings, for a run that was a chain.
SampleWarnings(stop) ==
  {w \in {"chain_diagnostics_unavailable"} : count < 4}
    \cup {w \in {"chain_not_converged"} : count >= 4 /\ ~Last(checkpoints).owned}
    \cup {w \in {"convergence_not_certified"} :
            policy.certify /\ stop # "converged"}

Report ==
  /\ pc = "stopped"
  /\ pc' = "reported"
  /\ termination' = RunTermination
  /\ warnings' = SampleWarnings(RunTermination)
  /\ UNCHANGED <<policy, count, consecutive, divergences, checkpoints, kept,
                 mcmc, expired, reason>>

\* The caller holds the result, or the exception: nothing more happens.
Done == pc \in {"reported", "raised"} /\ UNCHANGED vars

Next == Refuse \/ Batch \/ Report \/ Done

Spec == Init /\ [][Next]_vars

\* The loop is plain sequential code: whatever is enabled is executed.
FairSpec == Spec /\ WF_vars(Batch) /\ WF_vars(Report) /\ WF_vars(Refuse)

-----------------------------------------------------------------------------
TypeOK ==
  /\ policy \in Policy
  /\ pc \in {"sampling", "stopped", "reported", "raised"}
  /\ count \in Nat
  /\ consecutive \in Nat
  /\ divergences \in Nat \cup {Unknown}
  /\ checkpoints \in Seq(Verdict)
  /\ kept \in Seq([from : Nat, to : Nat])
  /\ mcmc \in [at : Nat, warmups : Nat]
  /\ expired \in BOOLEAN
  /\ reason \in {"fixed_budget", "draw_cap", "time_cap",
                 "diagnostics_converged"}
  /\ termination \in {"none", "completed", "converged", "budget_exhausted"}
  /\ warnings \subseteq {"chain_diagnostics_unavailable",
                         "chain_not_converged", "convergence_not_certified"}

\* The last n checkpoints all passed, each on at least min_draws draws.
TailPassed(n) ==
  /\ n <= Len(checkpoints)
  /\ \A i \in (Len(checkpoints) - n + 1) .. Len(checkpoints) :
       checkpoints[i].passed /\ checkpoints[i].draws >= policy.min

\* A run that stopped because it converged passed its last `consecutive`
\* checkpoints in a row, none of them below min_draws (run_mcmc's counter).
ConvergedTail ==
  reason = "diagnostics_converged" =>
    policy.mode = "checkpoints" /\ TailPassed(policy.need)

\* However many batches it took, what is handed back is one warmed chain: the
\* batches follow one another with no gap, no overlap and no second warmup.
OneChain ==
  /\ kept # <<>> => mcmc.warmups = 1 /\ kept[1].from = 0
  /\ \A i \in 2 .. Len(kept) : kept[i].from = kept[i - 1].to
  /\ kept # <<>> => Last(kept).to = count /\ count <= policy.cap

\* A run recorded as converged holds a final judgement that passed on every
\* site: neither a fixed budget nor the overrides of _run_posterior can
\* certify draws the last checkpoint did not.
ConvergedIsEarned ==
  termination = "converged" => Last(checkpoints).passed

\* What is spent stays spent: once the clock has been seen to expire no batch
\* follows, and once the divergences of the whole chain exceed the policy's
\* bound, or could not be read once, no later checkpoint passes.
SpentIsSpent ==
  [][/\ ~expired
     /\ divergences = Unknown \/ divergences > policy.maxdiv
          => ~Last(checkpoints').passed]_checkpoints

\* Every run ends, in a result or in an exception.
Ends == <>(pc \in {"reported", "raised"})
=============================================================================
