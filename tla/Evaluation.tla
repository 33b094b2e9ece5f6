----------------------------- MODULE Evaluation -----------------------------
(***************************************************************************)
(* The evaluation layer as its callers meet it: one call of the model      *)
(* checking runner or of a gate (ModelChecking), one simulation-based      *)
(* calibration (Calibration), or one evidence that is asked for and, if    *)
(* computed, put to its own gate (EvidenceAdmission, evaluation/           *)
(* evidence.py).                                                           *)
(***************************************************************************)
EXTENDS ModelChecking, Calibration, EvidenceAdmission

CONSTANT Questions   \* families of graphs an evidence is asked of

NoQuestion == [asked |-> FALSE]

\* A graph's priors read its latents, and a mass is a number or undefined.
ASSUME QuestionsAssumption ==
  \A family \in Questions : \A g \in family :
    /\ g # NoQuestion
    /\ g.reads \in [PriorLatents -> SUBSET PriorLatents]
    /\ \A l \in PriorLatents : \A at \in DOMAIN g.prior[l] : \A k \in 1 .. 5 :
         g.prior[l][at].masses[k] \in Nat \cup {Undefined}

VARIABLES
  question,     \* the graph in question, or NoQuestion
  residual,     \* are some latents left to a residual integral?
  admitted,     \* "pending", the premise that failed, or "none"
  judged        \* the evidence gate's answer, or Pending

evidence == <<question, residual, admitted, judged>>
allVars == <<checkingVars, calibration, evidence>>

EvaluationInit ==
  /\ CheckingInit /\ CalibrationInit
  /\ question = NoQuestion /\ residual = FALSE /\ admitted = "pending" /\ judged = Pending

\* The calls are independent: one is made where no other has been begun.
Fresh ==
  /\ troubles = {} /\ phase = "carried" /\ accepted = 0
  /\ sbc = Closed /\ report = NoAnswer /\ question = NoQuestion

\* The gates compile_task asks of an evidence before it looks for a sampler.
AskForEvidence ==
  /\ Fresh
  /\ \E family \in Questions : question' \in family
  /\ residual' \in BOOLEAN
  /\ admitted' = AdmissionRefusal(question', residual')
  /\ UNCHANGED <<checkingVars, calibration, judged>>

\* The evidence gate of evaluation/evidence.py.
EVIDENCE ==
  <<[name |-> "evidence_normalization_audit", weight |-> "required"],
    [name |-> "evidence_prior_sensitivity", weight |-> "optional"],
    [name |-> "evidence_comparability", weight |-> "optional"]>>

\* prior_sensitivity_report: the slopes are reported, if some prior has a width
\* to move. comparability_report: of the same data as another result or not; a
\* result whose fingerprints are not its run's has no data to compare.
SensitivityReports == {Pass, Inapplicable}
ComparabilityReports == {Pass, Inapplicable, Unverifiable}

\* An evidence without a residual integral is computed; its three reports, the
\* optional ones if the caller wants them, go to the gate.
GateTheEvidence ==
  /\ admitted = "none" /\ ~residual /\ judged = Pending
  /\ \E sensitivity \in {NotAttempted} \cup {File(axes) : axes \in SensitivityReports},
        comparability \in {NotAttempted} \cup {File(axes) : axes \in ComparabilityReports} :
       judged' = Aggregate(EVIDENCE,
                   [name \in {EVIDENCE[k].name : k \in 1 .. 3} |->
                      CASE name = EVIDENCE[1].name -> File(NormalizationAxes(question))
                        [] name = EVIDENCE[2].name -> sensitivity
                        [] name = EVIDENCE[3].name -> comparability], TRUE, TRUE)
  /\ UNCHANGED <<checkingVars, calibration, question, residual, admitted>>

Judge ==
  /\ question = NoQuestion /\ sbc = Closed /\ report = NoAnswer
  /\ CheckingNext
  /\ UNCHANGED <<calibration, evidence>>

Calibrate ==
  /\ Fresh \/ sbc # Closed
  /\ CalibrationStep
  /\ UNCHANGED <<checkingVars, evidence>>

Over == (report # NoAnswer \/ question # NoQuestion) /\ UNCHANGED allVars

EvaluationNext == Judge \/ Calibrate \/ AskForEvidence \/ GateTheEvidence \/ Over

EvaluationSpec == EvaluationInit /\ [][EvaluationNext]_allVars

-----------------------------------------------------------------------------
\* An increment that shrinks or grows by one factor p / q from window to window.
Regular(m, p, q) ==
  /\ \A k \in 1 .. 5 : m[k] # Undefined
  /\ Increment(m, 1) > 0
  /\ \A k \in 2 .. 4 : q * Increment(m, k) = p * Increment(m, k - 1)

\* The five windows tell a density from what is none: a tail that shrinks
\* regularly is proper and its mass is that of the whole series, so a prior is
\* normalised exactly if that is one; one that does not shrink is improper.
WindowsTell(prior) ==
  LET m == prior.masses
      found == AuditPrior(prior)
  IN \A p, q \in 1 .. 4 :
       prior.scope = "one dimension" /\ prior.refined = m[5] /\ Regular(m, p, q) =>
         /\ (found.verdict = "proper") = (p < q)
         /\ p < q => found.normalised = ((q - p) * (One - m[5]) = p * Increment(m, 4))

\* An evidence is admitted only of densities: every latent's prior has a mass of
\* one at the prior centre, and where a residual integral moves latents, every
\* conditional prior is proper wherever the latents it descends from are probed,
\* all of them at once. Its own gate then agrees.
AdmittedAreDensities ==
  admitted = "none" =>
    /\ \A l \in PriorLatents :
         /\ LatentAudit(question, l).normalised
         /\ residual /\ question.reads[l] # {} =>
              \A env \in [PriorLatents -> Probed] : AuditPrior(PriorAt(question, l, env)).verdict = "proper"
    /\ judged = Pending \/ judged.verdict = "pass"

\* An evidence is of densities: the audit of a prior decides rightly, and what it
\* has not found to be one is refused.
EvidenceIsOfDensities ==
  /\ question # NoQuestion =>
       \A l \in PriorLatents : \A at \in DOMAIN question.prior[l] : WindowsTell(question.prior[l][at])
  /\ AdmittedAreDensities
=============================================================================
