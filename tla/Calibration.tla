----------------------------- MODULE Calibration -----------------------------
(***************************************************************************)
(* evaluation/sbc.py: simulation-based calibration. Parameters are drawn   *)
(* from the prior and data from the model at each; every replicate infers  *)
(* the parameters of its own data again, by a task or by the caller's      *)
(* sampler, and leaves the rank of the truth among its draws, or is        *)
(* counted as refused, unconverged or undrawn. The report judges the ranks *)
(* of all of them or abstains. A rank is here the pair of the replicate    *)
(* whose parameters were ranked and the one whose data the draws came      *)
(* from; whether the ranks are uniform is free.                            *)
(***************************************************************************)
EXTENDS Integers, Sequences

CONSTANTS
  Replicates,   \* replicates a call may ask for
  Floor         \* REPLICATE_FLOOR

ASSUME ReplicatesAssumption == Replicates \subseteq Int /\ Floor \in Nat

VARIABLES
  sbc,          \* the progress of sbc_ranks
  report        \* the EvaluationReport, a Refusal, an exception, or none yet

calibration == <<sbc, report>>

NoAnswer == [is |-> "nothing"]
Failure(is) == [is |-> is]

\* Before the loop; subject is the artifact the report is about.
Opening(arm, count) ==
  [arm |-> arm, count |-> count, index |-> 0, collected |-> <<>>, refused |-> 0,
   unconverged |-> 0, undrawn |-> 0, route |-> "", subject |-> "none"]

Closed == Opening("none", 0)

\* sbc_ranks is called with a sampler or with a graph builder; a sampler needs a
\* subject to report on and a number of draws.
Call(arm, count, wellFormed) ==
  /\ sbc = Closed /\ report = NoAnswer
  /\ IF count < 1 \/ ~wellFormed
       THEN report' = Failure("raised") /\ UNCHANGED sbc
       ELSE \/ report' = Failure("refused") /\ UNCHANGED sbc
            \/ /\ sbc' = [Opening(arm, count) EXCEPT
                            !.subject = IF arm = "sampler" THEN "caller's" ELSE "none",
                            !.route = IF arm = "sampler" THEN "sampler" ELSE ""]
               /\ UNCHANGED report

Replicating == sbc.index < sbc.count /\ report = NoAnswer /\ sbc # Closed

\* (bug) the truth is looked up by how many ranks there are
Truth_Packed == Len(sbc.collected) + 1

\* _accumulate ranks the truth of the replicate itself.
Truth == sbc.index + 1

\* A replicate that came to draws of every latent. Bound: Method is how its
\* posterior was represented; the first to draw names the route and the subject.
Draw(method) ==
  /\ Replicating
  /\ sbc' = [sbc EXCEPT !.index = @ + 1,
               !.collected = Append(@, [truth |-> Truth, data |-> sbc.index + 1]),
               !.route = IF @ = "" THEN method ELSE @,
               !.subject = IF @ = "none" THEN "posterior" ELSE @]
  /\ UNCHANGED report

\* One that did not: the task was refused, it stopped early, or its result has
\* no draws of some latent. A sampler can only leave latents out.
Lost(bucket) ==
  /\ Replicating
  /\ sbc.arm = "sampler" => bucket = "undrawn"
  /\ sbc' = [sbc EXCEPT !.index = @ + 1, ![bucket] = @ + 1]
  /\ UNCHANGED report

\* An exception of a task or of the sampler ends the call.
Break == Replicating /\ report' = Failure("raised") /\ UNCHANGED sbc

\* SbcRanks.
Unusable == sbc.refused + sbc.unconverged + sbc.undrawn
Usable == sbc.count - Unusable

\* sbc_report.
Conclusions == IF Unusable > 0 \/ Usable < Floor THEN {"abstain"} ELSE {"pass", "fail"}

\* Where no replicate drew anything, the report is about the simulation.
ReportRanks ==
  /\ sbc # Closed /\ sbc.index = sbc.count /\ report = NoAnswer
  /\ \E conclusion \in Conclusions :
       report' = [is |-> "report", conclusion |-> conclusion, ranks |-> sbc.collected,
                  subject |-> IF sbc.subject = "none" THEN "simulation" ELSE sbc.subject,
                  route |-> IF sbc.route = "" THEN "unnamed" ELSE sbc.route]
  /\ UNCHANGED sbc

CalibrationInit == sbc = Closed /\ report = NoAnswer

CalibrationStep ==
  \/ \E arm \in {"route", "sampler"}, count \in Replicates, ok \in BOOLEAN : Call(arm, count, ok)
  \/ \E method \in {"exact", "weighted", "chain"} : Draw(IF sbc.arm = "sampler" THEN "sampler" ELSE method)
  \/ \E bucket \in {"refused", "unconverged", "undrawn"} : Lost(bucket)
  \/ Break \/ ReportRanks

-----------------------------------------------------------------------------
\* A calibration is judged over all of its replicates: one rank each, of the
\* parameters that made the very data the draws were inferred from, whatever
\* became of the others; else it abstains.
JudgedOverEveryReplicate ==
  report.is = "report" =>
    /\ \A k \in DOMAIN report.ranks : report.ranks[k].truth = report.ranks[k].data
    /\ report.conclusion # "abstain" =>
         /\ Len(report.ranks) = sbc.count /\ sbc.count >= Floor
         /\ \A k \in DOMAIN report.ranks : report.ranks[k].truth = k
=============================================================================
