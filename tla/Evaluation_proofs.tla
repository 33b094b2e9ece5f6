-------------------------- MODULE Evaluation_proofs --------------------------
(***************************************************************************)
(* What a gate's pass is worth, whoever filed its slots; what a            *)
(* calibration's judgement rests on; of what an evidence is admitted; and  *)
(* that what a posterior task is told of its graph is so. For every number *)
(* of requirements, carried reports, troubles and replicates, and every    *)
(* family of graphs.                                                       *)
(***************************************************************************)
EXTENDS Evaluation, Preflight, TLAPS

(***************************************************************************)
(* The gate.                                                               *)
(***************************************************************************)
Filed == Slots \cup {Absent}

(* A required requirement adds no finding only if its report passed.       *)
LEMMA SilentIsAPass ==
  ASSUME NEW slot \in Filed,
         Finding("required", slot) \notin Abstaining \cup {"required_report_failed"}
  PROVE  slot.is = "report" /\ slot.axes = Pass /\ slot.stale \in BOOLEAN
         /\ slot = [is |-> "report", stale |-> slot.stale, axes |-> Pass]
<1>1. slot.is = "report"
  BY DEF Finding, Abstaining
<1>2. slot \in Reports
  BY <1>1 DEF Filed, Slots, Absent, NotAttempted, Errored
<1> DEFINE p == slot.axes
<1>3. slot.stale \in BOOLEAN /\ p \in LegalPairs
      /\ slot = [is |-> "report", stale |-> slot.stale, axes |-> p]
  BY <1>2 DEF Reports
<1>4. p \in {Pass, Fail, Abstain, Inapplicable, Unverifiable}
  BY <1>3 DEF LegalPairs, Pass, Fail, Abstain, Inapplicable, Unverifiable
<1>5. Finding("required", slot) = RequiredFinding(p)
  BY <1>1, <1>3 DEF Finding
<1>6. p # Fail
  <2>1. RequiredFinding(Fail) = "required_report_failed"
    BY DEF RequiredFinding, Fail
  <2> QED BY <2>1, <1>5
<1>7. p # Abstain
  <2>1. RequiredFinding(Abstain) = "required_report_abstained"
    BY DEF RequiredFinding, Abstain
  <2> QED BY <2>1, <1>5 DEF Abstaining
<1>8. p # Inapplicable
  <2>1. RequiredFinding(Inapplicable) = "required_report_inapplicable"
    BY DEF RequiredFinding, Inapplicable
  <2> QED BY <2>1, <1>5 DEF Abstaining
<1>9. p # Unverifiable
  <2>1. RequiredFinding(Unverifiable) = "required_report_unverifiable"
    BY DEF RequiredFinding, Unverifiable
  <2> QED BY <2>1, <1>5 DEF Abstaining
<1> QED BY <1>3, <1>4, <1>6, <1>7, <1>8, <1>9

(* A pass is given only by an evaluated gate whose every required slot is a *)
(* report that passed and is not stale.                                     *)
LEMMA PassingGate ==
  ASSUME NEW d, NEW filed, NEW isReady \in BOOLEAN, NEW isCurrent \in BOOLEAN,
         \A k \in DOMAIN d : filed[d[k].name] \in Filed,
         Aggregate(d, filed, isReady, isCurrent).verdict = "pass"
  PROVE  /\ isReady /\ isCurrent
         /\ \A k \in DOMAIN d :
              d[k].weight = "required" =>
                filed[d[k].name] = [is |-> "report", stale |-> FALSE, axes |-> Pass]
<1> DEFINE tally == Tally(d, filed)
           status == Status(d, filed, isReady, isCurrent)
<1>1. VerdictUnder(status, tally) = "pass"
  BY DEF Aggregate, Answer
<1>2. status = "evaluated" /\ Verdict(tally) = "pass"
  BY <1>1 DEF VerdictUnder
<1>3. isReady /\ isCurrent /\ \A k \in DOMAIN d : ~ filed[d[k].name].stale
  BY <1>2 DEF Status
<1>4. ~ Has(tally, Abstaining) /\ ~ Has(tally, {"required_report_failed"})
  BY <1>2 DEF Verdict
<1>5. ASSUME NEW k \in DOMAIN d, d[k].weight = "required"
      PROVE  filed[d[k].name] = [is |-> "report", stale |-> FALSE, axes |-> Pass]
  <2>1. DOMAIN tally = DOMAIN d /\ tally[k][1] = Finding("required", filed[d[k].name])
    BY <1>5 DEF Tally
  <2>2. Finding("required", filed[d[k].name]) \notin Abstaining \cup {"required_report_failed"}
    BY <1>4, <2>1 DEF Has
  <2>3. filed[d[k].name] \in Filed
    BY <1>5
  <2> QED BY <1>3, <1>5, <2>2, <2>3, SilentIsAPass
<1> QED BY <1>3, <1>5

--------------------------------------------------------------------------------
(***************************************************************************)
(* The runner, and a gate by hand.                                         *)
(***************************************************************************)
(* What a pass is worth has to be carried from where each part of it is    *)
(* found out: the artifacts from the calls that made or failed to make     *)
(* them, a slot from the check that filed it, the verdict from the slots.  *)
HandInv ==
  /\ definition \in Definitions
  /\ byName \in [Names -> Filed]

ArtifactsTell ==
  phase \in {"simulation", "checks", "answered"} => predictive = PredictiveOutcome

OwnSlot(kind) == byName[kind] # Absent => byName[kind] \in SlotsFor(kind)

RunnerInv ==
  /\ definition = MODEL_CHECKING
  /\ ready = ("dense_noise" \notin troubles) /\ current = ("retired" \notin troubles)
  /\ byName \in [Kinds -> Filed]
  /\ supplied \in [CARRIED_KINDS -> {NoReport} \cup CarriedReport]
  /\ ArtifactsTell
  /\ phase \in {"carried", "predictive", "simulation"} => \A kind \in Kinds : byName[kind] = Absent
  /\ OwnSlot(PPC) /\ OwnSlot(IDENT)

CheckInv ==
  /\ phase \in {"by hand", "carried", "predictive", "simulation", "checks", "answered", "raised"}
  /\ ready \in BOOLEAN /\ current \in BOOLEAN
  /\ IF phase = "by hand" THEN HandInv ELSE RunnerInv
  /\ phase \notin {"by hand", "answered"} => result = Pending
  /\ PassMeansExamined

(* A gate that judges what is filed passes on evidence.                    *)
LEMMA JudgingIsEvidence ==
  ASSUME NEW kinds, byName' \in [kinds -> Filed],
         \A k \in DOMAIN definition : definition[k].name \in kinds,
         ready \in BOOLEAN, current \in BOOLEAN,
         result' = Aggregate(definition, byName', ready, current),
         UNCHANGED <<definition, ready, current>>
  PROVE  PassIsEvidence'
<1> SUFFICES ASSUME result'.verdict = "pass" PROVE
      /\ ready' /\ current'
      /\ \A k \in DOMAIN definition : definition[k].weight = "required" =>
           byName'[definition[k].name] = [is |-> "report", stale |-> FALSE, axes |-> Pass]
  BY DEF PassIsEvidence, SlotsOf, Pass
<1>1. \A k \in DOMAIN definition : byName'[definition[k].name] \in Filed
  OBVIOUS
<1> QED BY <1>1, PassingGate

\* The rows of the schema and the two that must be there.
LEMMA SchemaNames ==
  /\ DOMAIN MODEL_CHECKING = 1 .. 8
  /\ \A k \in DOMAIN MODEL_CHECKING : MODEL_CHECKING[k].name \in Kinds
  /\ MODEL_CHECKING[1] = [name |-> PPC, weight |-> "required"]
  /\ MODEL_CHECKING[2] = [name |-> IDENT, weight |-> "required"]
<1>1. PPC \in Kinds /\ IDENT \in Kinds /\ PRIOR \in Kinds /\ HELD \in Kinds
      /\ LOO \in Kinds /\ SENS \in Kinds /\ SBC \in Kinds /\ CHAIN \in Kinds
  BY DEF Kinds, CARRIED_KINDS, Produced
<1>2. PPC \in Required /\ IDENT \in Required
  BY DEF Required
<1> QED BY <1>1, <1>2 DEF MODEL_CHECKING

(* Every check of the runner's own leaves a slot a gate can be handed.      *)
LEMMA FreeSlots ==
  ASSUME NEW k \in DOMAIN Produced
  PROVE  Produced[k] \in Kinds /\ SlotsFor(Produced[k]) \subseteq Slots
<1>1. Produced[k] \in {PPC, IDENT, PRIOR, HELD, LOO, SENS}
  BY DEF Produced
<1> DEFINE kind == Produced[k]
<1>2. /\ PosteriorPredictiveAxes \subseteq LegalPairs /\ PriorPredictiveAxes \subseteq LegalPairs
      /\ HeldOutAxes \subseteq LegalPairs /\ LooAxes \subseteq LegalPairs
      /\ IdentifiabilityAxes \subseteq LegalPairs /\ SensitivityAxes \subseteq LegalPairs
  BY DEF BandAxes, PosteriorPredictiveAxes, PriorPredictiveAxes, HeldOutAxes, LooAxes, IdentifiabilityAxes,
         SensitivityAxes, LegalPairs, Pass, Fail, Abstain, Inapplicable, Unverifiable
<1>3. Axes(kind) \subseteq LegalPairs
  <2> HIDE DEF kind
  <2>1. kind \in {PPC, IDENT, PRIOR, HELD, LOO, SENS}
    BY <1>1 DEF kind
  <2> QED BY <1>2, <2>1 DEF Axes, PPC, PRIOR, HELD, LOO, IDENT, SENS
<1>4. ASSUME NEW slot \in SlotsFor(kind) PROVE slot \in Slots
  <2>1. slot = Errored \/ \E axes \in Axes(kind) : slot = File(axes)
    BY <1>4 DEF SlotsFor
  <2>2. ASSUME NEW axes \in LegalPairs PROVE File(axes) \in Reports
    BY <2>2 DEF File, Reports
  <2> QED BY <1>3, <2>1, <2>2 DEF Slots
<1> QED BY <1>1, <1>4 DEF Kinds

\* Neither a check that is pending nor one refused has a verdict.
LEMMA Unjudged == Pending.verdict = "none" /\ Refused.verdict = "none"
BY DEF Pending, Refused, Answer

\* No check has run at the beginning.
LEMMA CheckInvInit == CheckingInit => CheckInv
<1> SUFFICES ASSUME CheckingInit PROVE CheckInv
  OBVIOUS
<1>1. result = Pending
  BY DEF CheckingInit, Called, ByHand
<1>4. PassMeansExamined
  BY <1>1, Unjudged DEF PassMeansExamined, PassIsEvidence
<1>2. CASE Called
  <2>1. byName \in [Kinds -> Filed] /\ \A kind \in Kinds : byName[kind] = Absent
    BY <1>2 DEF Called, Filed
  <2>2. supplied \in [CARRIED_KINDS -> {NoReport} \cup CarriedReport]
    BY DEF CheckingInit
  <2>3. OwnSlot(PPC) /\ OwnSlot(IDENT)
    BY <2>1, SchemaNames DEF OwnSlot, Kinds, Produced
  <2> QED BY <1>1, <1>2, <1>4, <2>1, <2>2, <2>3 DEF Called, CheckInv, RunnerInv, ArtifactsTell
<1>3. CASE ByHand /\ troubles = {} /\ phase = "by hand"
  BY <1>1, <1>3, <1>4 DEF ByHand, CheckInv, HandInv, Filed
<1> QED BY <1>2, <1>3 DEF CheckingInit

(* The gate by hand.                                                       *)
LEMMA HandKeeps ==
  ASSUME CheckInv, FileByHand \/ DecideByHand
  PROVE  CheckInv'
<1>1. phase = "by hand" /\ HandInv /\ phase' = phase /\ result = Pending
  BY DEF CheckInv, FileByHand, DecideByHand, Arrive, Decide, runVars
<1>2. definition' = definition /\ ready' = ready /\ current' = current
  BY DEF FileByHand, DecideByHand, Arrive, Decide
<1>3. CASE FileByHand
  <2>1. byName' \in [Names -> Filed]
    BY <1>1, <1>3 DEF FileByHand, Arrive, HandInv, Filed
  <2>2. result'.verdict = "none"
    <3>1. result' \in {Pending, Refused}
      BY <1>1, <1>3 DEF FileByHand, Arrive
    <3> QED BY <3>1, Unjudged
  <2> QED BY <1>1, <1>2, <2>1, <2>2 DEF CheckInv, HandInv, PassMeansExamined, PassIsEvidence
<1>4. CASE DecideByHand
  <2>1. byName' = byName /\ result' = Aggregate(definition, byName', ready, current)
    BY <1>4 DEF DecideByHand, Decide
  <2>2. \A k \in DOMAIN definition : definition[k].name \in Names
    <3>1. PICK n \in 1 .. Cardinality(Names) : definition \in [1 .. n -> Requirement]
      BY <1>1 DEF HandInv, Definitions
    <3>2. \A k \in DOMAIN definition : definition[k] \in Requirement
      BY <3>1
    <3> QED BY <3>2 DEF Requirement
  <2>3. byName' \in [Names -> Filed] /\ ready \in BOOLEAN /\ current \in BOOLEAN
    BY <1>1, <2>1 DEF HandInv, CheckInv
  <2>4. PassIsEvidence'
    BY <1>2, <2>1, <2>2, <2>3, JudgingIsEvidence
  <2> QED BY <1>1, <1>2, <2>3, <2>4 DEF CheckInv, HandInv, PassMeansExamined
<1> QED BY <1>3, <1>4
(* A pass of the runner is earned by the two checks it requires.           *)
LEMMA RunnerPassIsEarned ==
  ASSUME definition = MODEL_CHECKING, ready = ("dense_noise" \notin troubles),
         current = ("retired" \notin troubles), predictive = PredictiveOutcome,
         NEW filed \in [Kinds -> Filed],
         filed[PPC] \in SlotsFor(PPC), filed[IDENT] \in SlotsFor(IDENT),
         Aggregate(definition, filed, ready, current).verdict = "pass"
  PROVE  troubles \cap {"retired", "dense_noise", "other_model", "no_predictive",
                        "few_draws", "float32"} = {}
<1> DEFINE Good == [is |-> "report", stale |-> FALSE, axes |-> Pass]
<1>1. ready /\ current /\ filed[PPC] = Good /\ filed[IDENT] = Good
  <2>1. \A k \in DOMAIN definition : filed[definition[k].name] \in Filed
    BY SchemaNames
  <2>2. ready \in BOOLEAN /\ current \in BOOLEAN
    OBVIOUS
  <2>3. /\ ready /\ current
        /\ \A k \in DOMAIN definition :
             definition[k].weight = "required" => filed[definition[k].name] = Good
    BY <2>1, <2>2, PassingGate
  <2> QED BY <2>3, SchemaNames
<1>2. ASSUME NEW kind, Good \in SlotsFor(kind)
      PROVE  SubjectOf(kind) # "error" /\ Pass \in Axes(kind)
  <2>1. Good.is = "report" /\ Errored.is = "error"
    BY DEF Errored
  <2>2. Good # Errored
    BY <2>1
  <2>3. SubjectOf(kind) # "error" /\ Good \in {File(axes) : axes \in Axes(kind)}
    BY <1>2, <2>2 DEF SlotsFor
  <2>4. PICK axes \in Axes(kind) : Good = File(axes)
    BY <2>3
  <2>5. axes = Good.axes
    BY <2>4 DEF File
  <2> QED BY <2>3, <2>5
<1>3. Good \in SlotsFor(PPC) /\ Good \in SlotsFor(IDENT)
  BY <1>1
<1>4. SubjectOf(PPC) # "error" /\ Pass \in Axes(PPC) /\ Pass \in Axes(IDENT)
  <2> HIDE DEF Good
  <2> QED BY <1>2, <1>3
<1>5. Pass # Abstain /\ Pass # Unverifiable
  BY DEF Pass, Abstain, Unverifiable
<1>6. troubles \cap {"other_model", "dense_noise", "no_predictive"} = {}
  <2>1. SubjectOf(PPC) = predictive
    BY DEF SubjectOf, PPC, HELD, LOO, PRIOR
  <2> QED BY <1>4, <2>1 DEF PredictiveOutcome
<1>7. "few_draws" \notin troubles
  <2>1. Axes(PPC) = PosteriorPredictiveAxes
    BY DEF Axes, IDENT, PPC, PRIOR, HELD, LOO, SENS
  <2> QED BY <1>4, <1>5, <2>1 DEF BandAxes, PosteriorPredictiveAxes
<1>8. "float32" \notin troubles
  <2>1. Axes(IDENT) = IdentifiabilityAxes
    BY DEF Axes, IDENT, PPC, PRIOR, HELD, LOO, SENS
  <2> QED BY <1>4, <1>5, <2>1 DEF IdentifiabilityAxes
<1> QED BY <1>1, <1>6, <1>7, <1>8
(* One step of the runner.                                                 *)
LEMMA RunnerKeeps ==
  ASSUME CheckInv,
         \/ \E carried \in CarriedReport : Carry(carried)
         \/ NoneLeft \/ MakePredictive \/ MakeSimulation \/ Check \/ Conclude
  PROVE  CheckInv'
<1>1. phase \in {"carried", "predictive", "simulation", "checks"}
  BY DEF Carry, NoneLeft, MakePredictive, MakeSimulation, Check, Conclude
<1>2. RunnerInv /\ result = Pending /\ ready \in BOOLEAN /\ current \in BOOLEAN
  BY <1>1 DEF CheckInv
<1>3. definition' = definition /\ ready' = ready /\ current' = current /\ troubles' = troubles
  BY DEF Carry, NoneLeft, MakePredictive, MakeSimulation, Check, Conclude, gateVars, runVars
<1>4. CASE \E carried \in CarriedReport : Carry(carried)
  <2>1. PICK carried \in CarriedReport : Carry(carried)
    BY <1>4
  <2>2. supplied' \in [CARRIED_KINDS -> {NoReport} \cup CarriedReport]
    BY <1>2, <2>1 DEF Carry, RunnerInv
  <2>3. phase' \in {"carried", "raised"} /\ byName' = byName /\ result' = result /\ predictive' = predictive
    BY <2>1 DEF Carry, gateVars
  <2>4. phase = "carried"
    BY <2>1 DEF Carry
  <2>5. PassMeansExamined'
    BY <1>2, <2>3, Unjudged DEF PassMeansExamined, PassIsEvidence
  <2>6. OwnSlot(PPC)' /\ OwnSlot(IDENT)'
    BY <1>2, <2>3, <2>4, SchemaNames DEF RunnerInv, OwnSlot, Kinds, Produced
  <2> QED BY <1>2, <1>3, <2>2, <2>3, <2>4, <2>5, <2>6 DEF CheckInv, RunnerInv, ArtifactsTell
<1>5. CASE NoneLeft \/ MakePredictive \/ MakeSimulation
  <2>1. byName' = byName /\ result' = result /\ supplied' = supplied
    BY <1>5 DEF NoneLeft, MakePredictive, MakeSimulation, gateVars
  <2>2. \/ phase = "carried" /\ phase' = "predictive"
        \/ phase = "predictive" /\ phase' = "simulation" /\ predictive' = PredictiveOutcome
        \/ phase = "simulation" /\ phase' = "checks" /\ predictive' = predictive
    BY <1>5 DEF NoneLeft, MakePredictive, MakeSimulation
  <2>3. PredictiveOutcome' = PredictiveOutcome
    BY <1>3 DEF PredictiveOutcome
  <2>4. ArtifactsTell'
    BY <1>2, <2>2, <2>3 DEF RunnerInv, ArtifactsTell
  <2>5. PassMeansExamined'
    BY <1>2, <2>1, Unjudged DEF PassMeansExamined, PassIsEvidence
  <2>6. \A kind \in Kinds : byName[kind] = Absent
    BY <1>2, <2>2 DEF RunnerInv
  <2>7. OwnSlot(PPC)' /\ OwnSlot(IDENT)'
    BY <2>1, <2>6, SchemaNames DEF OwnSlot, Kinds, Produced
  <2> QED BY <1>2, <1>3, <2>1, <2>2, <2>4, <2>5, <2>6, <2>7 DEF CheckInv, RunnerInv
<1>6. CASE Check
  <2>0. PICK k \in DOMAIN Produced : \E slot \in SlotsFor(Produced[k]) :
          byName' = [byName EXCEPT ![Produced[k]] = slot]
    BY <1>6 DEF Check
  <2>1. PICK slot \in SlotsFor(Produced[k]) : byName' = [byName EXCEPT ![Produced[k]] = slot]
    BY <2>0
  <2>2. phase = "checks" /\ phase' = phase /\ result' = result /\ supplied' = supplied
        /\ predictive' = predictive /\ simulation' = simulation
    BY <1>6 DEF Check, runVars
  <2>3. byName' \in [Kinds -> Filed]
    BY <1>2, <2>1, FreeSlots DEF RunnerInv, Filed
  <2>4. \A kind \in Kinds : (SlotsFor(kind))' = SlotsFor(kind)
    BY <1>3, <2>2 DEF SlotsFor, SubjectOf, Axes, BandAxes, PosteriorPredictiveAxes, PriorPredictiveAxes,
         HeldOutAxes, LooAxes, IdentifiabilityAxes, SensitivityAxes
  <2>5. ASSUME NEW kind \in {PPC, IDENT} PROVE OwnSlot(kind)'
    <3>1. kind \in Kinds /\ OwnSlot(kind)
      BY <1>2 DEF RunnerInv, Kinds, Produced
    <3>2. byName'[kind] = IF kind = Produced[k] THEN slot ELSE byName[kind]
      BY <1>2, <2>1, <3>1 DEF RunnerInv
    <3> QED BY <2>1, <2>4, <3>1, <3>2 DEF OwnSlot
  <2>6. PassMeansExamined'
    BY <1>2, <2>2, Unjudged DEF PassMeansExamined, PassIsEvidence
  <2>7. ArtifactsTell'
    BY <1>2, <1>3, <2>2 DEF RunnerInv, ArtifactsTell, PredictiveOutcome
  <2> QED BY <1>2, <1>3, <2>2, <2>3, <2>5, <2>6, <2>7 DEF CheckInv, RunnerInv
<1>7. CASE Conclude
  <2> DEFINE filed == [k \in Kinds |-> IF k \in CARRIED_KINDS THEN CarriedSlot(k) ELSE byName[k]]
  <2>1. /\ byName' = filed /\ result' = Aggregate(definition, filed, ready, current)
        /\ phase = "checks" /\ phase' = "answered"
        /\ supplied' = supplied /\ predictive' = predictive /\ simulation' = simulation
        /\ \A k \in DOMAIN Produced : byName[Produced[k]] # Absent
    BY <1>7 DEF Conclude
  <2>2. ASSUME NEW k \in CARRIED_KINDS PROVE CarriedSlot(k) \in Filed
    <3>1. supplied[k] \in {NoReport} \cup CarriedReport
      BY <1>2 DEF RunnerInv
    <3>2. ASSUME NEW axes \in {Pass, Fail} PROVE File(axes) \in Reports
      BY DEF File, Reports, LegalPairs, Pass, Fail
    <3>3. supplied[k] = NoReport \/ supplied[k].axes \in {Pass, Fail}
      BY <3>1 DEF CarriedReport
    <3> QED BY <3>2, <3>3 DEF CarriedSlot, Filed, Slots
  <2>3. filed \in [Kinds -> Filed]
    BY <1>2, <2>2 DEF RunnerInv
  <2>4. filed[PPC] = byName[PPC] /\ filed[IDENT] = byName[IDENT]
    <3>1. PPC \in Kinds \ CARRIED_KINDS /\ IDENT \in Kinds \ CARRIED_KINDS
      BY DEF Kinds, CARRIED_KINDS, Produced, PPC, IDENT, SBC, CHAIN
    <3> QED BY <3>1
  <2>5. byName[PPC] # Absent /\ byName[IDENT] # Absent
    <3>1. Produced[1] = PPC /\ Produced[2] = IDENT /\ 1 \in DOMAIN Produced /\ 2 \in DOMAIN Produced
      BY DEF Produced
    <3> QED BY <2>1, <3>1
  <2>6. filed[PPC] \in SlotsFor(PPC) /\ filed[IDENT] \in SlotsFor(IDENT)
    BY <1>2, <2>4, <2>5 DEF RunnerInv, OwnSlot
  <2>7. predictive = PredictiveOutcome
    BY <1>2, <2>1 DEF RunnerInv, ArtifactsTell
  <2> HIDE DEF filed
  <2>8. PassIsEvidence'
    <3>1. \A k \in DOMAIN definition : definition[k].name \in Kinds
      BY <1>2, SchemaNames DEF RunnerInv
    <3> QED BY <1>2, <1>3, <2>1, <2>3, <3>1, JudgingIsEvidence
  <2>9. PassMeansExamined'
    <3>1. ASSUME result'.verdict = "pass"
          PROVE  troubles \cap {"retired", "dense_noise", "other_model", "no_predictive",
                                "few_draws", "float32"} = {}
      BY <1>2, <2>1, <2>3, <2>6, <2>7, <3>1, RunnerPassIsEarned DEF RunnerInv
    <3> QED BY <1>3, <2>8, <3>1 DEF PassMeansExamined
  <2>10. (SlotsFor(PPC))' = SlotsFor(PPC) /\ (SlotsFor(IDENT))' = SlotsFor(IDENT)
    BY <1>3, <2>1 DEF SlotsFor, SubjectOf, Axes, BandAxes, PosteriorPredictiveAxes, PriorPredictiveAxes,
         HeldOutAxes, LooAxes, IdentifiabilityAxes, SensitivityAxes
  <2>11. OwnSlot(PPC)' /\ OwnSlot(IDENT)'
    BY <2>1, <2>6, <2>10 DEF OwnSlot
  <2>12. ArtifactsTell'
    BY <1>3, <2>1, <2>7 DEF ArtifactsTell, PredictiveOutcome
  <2> QED BY <1>2, <1>3, <2>1, <2>3, <2>9, <2>11, <2>12 DEF CheckInv, RunnerInv
<1> QED BY <1>4, <1>5, <1>6, <1>7

\* Every step of a check keeps the invariant.
LEMMA CheckInvStep ==
  ASSUME CheckInv, [CheckingNext]_checkingVars
  PROVE  CheckInv'
<1>1. CASE FileByHand \/ DecideByHand
  BY <1>1, HandKeeps
<1>2. CASE \/ \E carried \in CarriedReport : Carry(carried)
           \/ NoneLeft \/ MakePredictive \/ MakeSimulation \/ Check \/ Conclude
  BY <1>2, RunnerKeeps
<1>3. CASE UNCHANGED checkingVars
  BY <1>3 DEF checkingVars, gateVars, runVars, CheckInv, HandInv, RunnerInv, ArtifactsTell,
       PredictiveOutcome, OwnSlot, SlotsFor, SubjectOf, Axes, BandAxes, PosteriorPredictiveAxes,
       PriorPredictiveAxes, HeldOutAxes, LooAxes, IdentifiabilityAxes, SensitivityAxes,
       PassMeansExamined, PassIsEvidence, SlotsOf
<1> QED BY <1>1, <1>2, <1>3 DEF CheckingNext, Returned

(* A pass is evidence: whatever gate is judged, in whatever order its slots *)
(* arrive and whoever files them, everything it requires was produced,      *)
(* applied, passed and is current; and a pass of the model checking runner  *)
(* was earned on a posterior that could be examined.                        *)
THEOREM PassesAreExamined == EvaluationSpec => []PassMeansExamined
<1>1. EvaluationInit => CheckInv
  BY CheckInvInit DEF EvaluationInit
<1>2. CheckInv /\ [EvaluationNext]_allVars => CheckInv'
  <2>1. [EvaluationNext]_allVars => [CheckingNext]_checkingVars
    BY DEF EvaluationNext, Judge, Calibrate, AskForEvidence, GateTheEvidence, Over, allVars
  <2> QED BY <2>1, CheckInvStep
<1>3. CheckInv => PassMeansExamined
  BY DEF CheckInv
<1> QED BY <1>1, <1>2, <1>3, PTL DEF EvaluationSpec

--------------------------------------------------------------------------------
(***************************************************************************)
(* The calibration.  What a judgement rests on is in the ledger of the     *)
(* loop: every replicate is counted once, as a rank or as one of three     *)
(* kinds of loss, so without a loss the k-th rank is the k-th replicate's. *)
(***************************************************************************)
Rank == [truth : Nat, data : Nat]

Methods == {"exact", "weighted", "chain", "sampler"}
Routes == {"none", ""} \cup Methods
Subjects == {"none", "caller's", "posterior"}

Ledger == [arm : {"none", "route", "sampler"}, count : Int, index : Nat, collected : Seq(Rank),
           refused : Nat, unconverged : Nat, undrawn : Nat, route : Routes, subject : Subjects]

Counted(s) ==
  /\ s.index = Len(s.collected) + s.refused + s.unconverged + s.undrawn
  /\ s.index <= s.count

Matched(s) ==
  /\ \A k \in DOMAIN s.collected : s.collected[k].truth = s.collected[k].data
  /\ s.refused + s.unconverged + s.undrawn = 0 =>
       \A k \in DOMAIN s.collected : s.collected[k].truth = k

Judged(s, answered) ==
  answered.is = "report" =>
    /\ answered.ranks = s.collected
    /\ answered.conclusion # "abstain" =>
         /\ s.index = s.count /\ s.refused + s.unconverged + s.undrawn = 0
         /\ s.count >= Floor

LedgerInv == sbc \in Ledger /\ Counted(sbc) /\ Matched(sbc) /\ Judged(sbc, report)

(* A replicate that drew appends the rank of its own truth.                *)
LEMMA DrawKeeps ==
  ASSUME NEW method \in Methods, sbc \in Ledger, Counted(sbc), Matched(sbc), Draw(method)
  PROVE  sbc' \in Ledger /\ Counted(sbc') /\ Matched(sbc')
<1> DEFINE rank == [truth |-> sbc.index + 1, data |-> sbc.index + 1]
<1>1. /\ sbc.index \in Nat /\ sbc.count \in Int /\ sbc.collected \in Seq(Rank)
      /\ sbc.refused \in Nat /\ sbc.unconverged \in Nat /\ sbc.undrawn \in Nat
      /\ sbc.route \in Routes /\ sbc.subject \in Subjects
  BY DEF Ledger
<1>2. rank \in Rank
  BY <1>1 DEF Rank
<1>3. sbc.index < sbc.count
  BY DEF Draw, Replicating
<1> DEFINE r == IF sbc.route = "" THEN method ELSE sbc.route
           j == IF sbc.subject = "none" THEN "posterior" ELSE sbc.subject
           c == Append(sbc.collected, rank)
<1>4. sbc' = [sbc EXCEPT !.index = sbc.index + 1, !.collected = c, !.route = r, !.subject = j]
  BY DEF Draw, Truth
<1>5. c \in Seq(Rank) /\ r \in Routes /\ j \in Subjects
  <2>1. c \in Seq(Rank)
    <3> HIDE DEF rank
    <3> QED BY <1>1, <1>2
  <2>2. r \in Routes /\ j \in Subjects
    BY <1>1 DEF Routes, Subjects
  <2> QED BY <2>1, <2>2
<1>6. /\ sbc' \in Ledger
      /\ sbc'.index = sbc.index + 1 /\ sbc'.count = sbc.count /\ sbc'.collected = c
      /\ sbc'.refused = sbc.refused /\ sbc'.unconverged = sbc.unconverged /\ sbc'.undrawn = sbc.undrawn
  <2> DEFINE i == sbc.index + 1
  <2>1. sbc' = [sbc EXCEPT !.index = i, !.collected = c, !.route = r, !.subject = j] /\ i \in Nat
    BY <1>1, <1>4
  <2> HIDE DEF c, r, j, i
  <2>2. /\ sbc'.index = i /\ sbc'.count = sbc.count /\ sbc'.collected = c
        /\ sbc'.refused = sbc.refused /\ sbc'.unconverged = sbc.unconverged /\ sbc'.undrawn = sbc.undrawn
    BY <2>1 DEF Ledger
  <2>3. sbc' \in Ledger
    BY <2>1, <1>5 DEF Ledger
  <2> QED BY <2>2, <2>3 DEF i
<1>7. /\ Len(c) = Len(sbc.collected) + 1 /\ DOMAIN c = DOMAIN sbc.collected \cup {Len(sbc.collected) + 1}
      /\ c[Len(sbc.collected) + 1] = rank /\ Len(sbc.collected) \in Nat
      /\ \A k \in DOMAIN sbc.collected : c[k] = sbc.collected[k]
  BY <1>1, <1>2
<1>8. Counted(sbc')
  BY <1>1, <1>3, <1>6, <1>7, SMTT(30) DEF Counted
<1>9. rank.truth = rank.data /\ rank.truth = sbc.index + 1
  OBVIOUS
<1>10. sbc.refused + sbc.unconverged + sbc.undrawn = 0 => sbc.index = Len(sbc.collected)
  BY <1>1, <1>7, SMTT(30) DEF Counted
<1>11. Matched(sbc')
  <2>1. ASSUME NEW k \in DOMAIN c PROVE c[k].truth = c[k].data
    <3> HIDE DEF c, rank
    <3> QED BY <1>7, <1>9 DEF Matched
  <2>2. ASSUME sbc.refused + sbc.unconverged + sbc.undrawn = 0, NEW k \in DOMAIN c PROVE c[k].truth = k
    <3> HIDE DEF c, rank
    <3> QED BY <1>7, <1>9, <1>10, <2>2 DEF Matched
  <2> HIDE DEF c, rank
  <2> QED BY <1>6, <2>1, <2>2 DEF Matched
<1> QED BY <1>6, <1>8, <1>11

(* A replicate that was lost is counted in its bucket.                     *)
LEMMA LostKeeps ==
  ASSUME NEW bucket \in {"refused", "unconverged", "undrawn"},
         sbc \in Ledger, Counted(sbc), Matched(sbc), Lost(bucket)
  PROVE  sbc' \in Ledger /\ Counted(sbc') /\ Matched(sbc')
<1>1. /\ sbc.index \in Nat /\ sbc.count \in Int /\ sbc.collected \in Seq(Rank)
      /\ sbc.refused \in Nat /\ sbc.unconverged \in Nat /\ sbc.undrawn \in Nat
  BY DEF Ledger
<1>2. sbc.index < sbc.count
  BY DEF Lost, Replicating
<1>3. /\ sbc' \in Ledger
      /\ sbc'.index = sbc.index + 1 /\ sbc'.count = sbc.count /\ sbc'.collected = sbc.collected
      /\ \/ /\ sbc'.refused = sbc.refused + 1 /\ sbc'.unconverged = sbc.unconverged
            /\ sbc'.undrawn = sbc.undrawn
         \/ /\ sbc'.refused = sbc.refused /\ sbc'.unconverged = sbc.unconverged + 1
            /\ sbc'.undrawn = sbc.undrawn
         \/ /\ sbc'.refused = sbc.refused /\ sbc'.unconverged = sbc.unconverged
            /\ sbc'.undrawn = sbc.undrawn + 1
  <2> DEFINE i == sbc.index + 1
  <2>1. CASE bucket = "refused"
    <3> DEFINE n == sbc.refused + 1
    <3>1. sbc' = [sbc EXCEPT !.index = i, !["refused"] = n] /\ i \in Nat /\ n \in Nat
      <4>1. sbc' = [sbc EXCEPT !.index = i, !["refused"] = sbc["refused"] + 1]
        BY <2>1 DEF Lost
      <4> QED BY <1>1, <4>1
    <3> HIDE DEF i, n
    <3>2. sbc' \in Ledger /\ sbc'.index = i /\ sbc'.count = sbc.count /\ sbc'.collected = sbc.collected
          /\ sbc'.refused = n /\ sbc'.unconverged = sbc.unconverged /\ sbc'.undrawn = sbc.undrawn
      BY <3>1 DEF Ledger
    <3> QED BY <3>2 DEF i, n
  <2>2. CASE bucket = "unconverged"
    <3> DEFINE n == sbc.unconverged + 1
    <3>1. sbc' = [sbc EXCEPT !.index = i, !["unconverged"] = n] /\ i \in Nat /\ n \in Nat
      <4>1. sbc' = [sbc EXCEPT !.index = i, !["unconverged"] = sbc["unconverged"] + 1]
        BY <2>2 DEF Lost
      <4> QED BY <1>1, <4>1
    <3> HIDE DEF i, n
    <3>2. sbc' \in Ledger /\ sbc'.index = i /\ sbc'.count = sbc.count /\ sbc'.collected = sbc.collected
          /\ sbc'.refused = sbc.refused /\ sbc'.unconverged = n /\ sbc'.undrawn = sbc.undrawn
      BY <3>1 DEF Ledger
    <3> QED BY <3>2 DEF i, n
  <2>3. CASE bucket = "undrawn"
    <3> DEFINE n == sbc.undrawn + 1
    <3>1. sbc' = [sbc EXCEPT !.index = i, !["undrawn"] = n] /\ i \in Nat /\ n \in Nat
      <4>1. sbc' = [sbc EXCEPT !.index = i, !["undrawn"] = sbc["undrawn"] + 1]
        BY <2>3 DEF Lost
      <4> QED BY <1>1, <4>1
    <3> HIDE DEF i, n
    <3>2. sbc' \in Ledger /\ sbc'.index = i /\ sbc'.count = sbc.count /\ sbc'.collected = sbc.collected
          /\ sbc'.refused = sbc.refused /\ sbc'.unconverged = sbc.unconverged /\ sbc'.undrawn = n
      BY <3>1 DEF Ledger
    <3> QED BY <3>2 DEF i, n
  <2> QED BY <2>1, <2>2, <2>3
<1>4. Len(sbc.collected) \in Nat
  BY <1>1
<1>5. Counted(sbc')
  <2> DEFINE n == Len(sbc.collected)
  <2>1. sbc.index = n + sbc.refused + sbc.unconverged + sbc.undrawn /\ sbc.index <= sbc.count
    BY DEF Counted
  <2>2. Len(sbc'.collected) = n /\ n \in Nat
    BY <1>3, <1>4
  <2> HIDE DEF n
  <2>3. sbc'.index = n + sbc'.refused + sbc'.unconverged + sbc'.undrawn
    <3>1. \A a, b, c, i \in Nat : i = n + a + b + c =>
            /\ i + 1 = n + (a + 1) + b + c /\ i + 1 = n + a + (b + 1) + c
            /\ i + 1 = n + a + b + (c + 1)
      BY <2>2
    <3>2. sbc.index + 1 = n + (sbc.refused + 1) + sbc.unconverged + sbc.undrawn
      BY <1>1, <2>1, <3>1
    <3>3. sbc.index + 1 = n + sbc.refused + (sbc.unconverged + 1) + sbc.undrawn
      BY <1>1, <2>1, <3>1
    <3>4. sbc.index + 1 = n + sbc.refused + sbc.unconverged + (sbc.undrawn + 1)
      BY <1>1, <2>1, <3>1
    <3> QED BY <1>3, <3>2, <3>3, <3>4
  <2>4. sbc'.index <= sbc'.count
    BY <1>1, <1>2, <1>3
  <2> QED BY <2>2, <2>3, <2>4 DEF Counted
<1>6. sbc'.refused + sbc'.unconverged + sbc'.undrawn # 0
  BY <1>1, <1>3
<1>7. Matched(sbc')
  BY <1>3, <1>6 DEF Matched
<1> QED BY <1>3, <1>5, <1>7

\* A calibration step keeps the ledger.
LEMMA CalibrationKeeps ==
  ASSUME LedgerInv, CalibrationStep
  PROVE  LedgerInv'
<1>1. CASE \E arm \in {"route", "sampler"}, count \in Replicates, ok \in BOOLEAN : Call(arm, count, ok)
  <2>1. PICK arm \in {"route", "sampler"}, count \in Replicates, ok \in BOOLEAN : Call(arm, count, ok)
    BY <1>1
  <2>2. count \in Int
    BY ReplicatesAssumption
  <2>3. CASE sbc' = sbc
    <3>1. report'.is \in {"raised", "refused"} \/ report' = report
      BY <2>1, <2>3 DEF Call, Failure
    <3> QED BY <2>3, <3>1 DEF LedgerInv, Judged
  <2>4. CASE sbc' # sbc
    <3> DEFINE w == IF arm = "sampler" THEN "caller's" ELSE "none"
               r == IF arm = "sampler" THEN "sampler" ELSE ""
    <3>1. /\ sbc' = [Opening(arm, count) EXCEPT !.subject = w, !.route = r]
          /\ count >= 1 /\ report' = NoAnswer
      BY <2>1, <2>2, <2>4 DEF Call
    <3>2. w \in Subjects /\ r \in Routes
      BY DEF Subjects, Routes, Methods
    <3> HIDE DEF w, r
    <3>3. sbc' = [arm |-> arm, count |-> count, index |-> 0, collected |-> <<>>, refused |-> 0,
                  unconverged |-> 0, undrawn |-> 0, route |-> r, subject |-> w]
      BY <3>1 DEF Opening
    <3>4. sbc' \in Ledger
      BY <2>2, <3>2, <3>3 DEF Ledger
    <3>5. sbc'.collected = <<>> /\ sbc'.index = 0 /\ sbc'.count = count
          /\ sbc'.refused = 0 /\ sbc'.unconverged = 0 /\ sbc'.undrawn = 0
      BY <3>3
    <3>6. Counted(sbc') /\ Matched(sbc')
      BY <2>2, <3>1, <3>5 DEF Counted, Matched
    <3> QED BY <3>1, <3>4, <3>6 DEF LedgerInv, Judged, NoAnswer
  <2> QED BY <2>3, <2>4
<1>2. CASE \E method \in {"exact", "weighted", "chain"} : Draw(IF sbc.arm = "sampler" THEN "sampler" ELSE method)
  <2>1. PICK method \in Methods : Draw(method)
    BY <1>2 DEF Methods
  <2>2. report' = NoAnswer
    BY <2>1 DEF Draw, Replicating
  <2> QED BY <2>1, <2>2, DrawKeeps DEF LedgerInv, Judged, NoAnswer
<1>3. CASE \E bucket \in {"refused", "unconverged", "undrawn"} : Lost(bucket)
  <2>1. PICK bucket \in {"refused", "unconverged", "undrawn"} : Lost(bucket)
    BY <1>3
  <2>2. report' = NoAnswer
    BY <2>1 DEF Lost, Replicating
  <2> QED BY <2>1, <2>2, LostKeeps DEF LedgerInv, Judged, NoAnswer
<1>4. CASE Break
  BY <1>4 DEF Break, LedgerInv, Judged, Failure
<1>5. CASE ReportRanks
  <2>0. PICK conclusion \in Conclusions :
          report' = [is |-> "report", conclusion |-> conclusion, ranks |-> sbc.collected,
                     subject |-> IF sbc.subject = "none" THEN "simulation" ELSE sbc.subject,
                     route |-> IF sbc.route = "" THEN "unnamed" ELSE sbc.route]
    BY <1>5 DEF ReportRanks
  <2>1. /\ report'.is = "report" /\ report'.conclusion = conclusion /\ report'.ranks = sbc.collected
        /\ sbc' = sbc /\ sbc.index = sbc.count
    BY <1>5, <2>0 DEF ReportRanks
  <2>2. /\ sbc.count \in Int /\ sbc.refused \in Nat /\ sbc.unconverged \in Nat /\ sbc.undrawn \in Nat
    BY DEF LedgerInv, Ledger
  <2>3. conclusion # "abstain" => Unusable <= 0 /\ Usable >= Floor
    BY <2>1, <2>2, ReplicatesAssumption DEF Conclusions, Unusable, Usable
  <2>4. conclusion # "abstain" => sbc.refused + sbc.unconverged + sbc.undrawn = 0 /\ sbc.count >= Floor
    BY <2>2, <2>3, ReplicatesAssumption DEF Unusable, Usable
  <2> QED BY <2>1, <2>4 DEF LedgerInv, Judged
<1> QED BY <1>1, <1>2, <1>3, <1>4, <1>5 DEF CalibrationStep

(* A calibration is judged over all of its replicates, for every number    *)
(* that is asked for and whatever becomes of each: one rank per replicate, *)
(* of the truth its own data were made from; else it abstains.             *)
THEOREM CalibrationIsOfAll == EvaluationSpec => []JudgedOverEveryReplicate
<1>1. EvaluationInit => LedgerInv
  <2> SUFFICES ASSUME EvaluationInit PROVE LedgerInv
    OBVIOUS
  <2>1. sbc = [arm |-> "none", count |-> 0, index |-> 0, collected |-> <<>>, refused |-> 0,
               unconverged |-> 0, undrawn |-> 0, route |-> "", subject |-> "none"]
    BY DEF EvaluationInit, CalibrationInit, Closed, Opening
  <2>2. sbc \in Ledger
    <3>1. <<>> \in Seq(Rank) /\ 0 \in Nat /\ 0 \in Int
      OBVIOUS
    <3>2. "" \in Routes /\ "none" \in Subjects
      BY DEF Routes, Subjects
    <3> QED BY <2>1, <3>1, <3>2 DEF Ledger
  <2>3. sbc.collected = <<>> /\ sbc.index = 0 /\ sbc.count = 0
        /\ sbc.refused = 0 /\ sbc.unconverged = 0 /\ sbc.undrawn = 0
    BY <2>1
  <2>4. Counted(sbc) /\ Matched(sbc)
    BY <2>3 DEF Counted, Matched
  <2> QED BY <2>2, <2>4 DEF EvaluationInit, CalibrationInit, LedgerInv, Judged, NoAnswer
<1>2. LedgerInv /\ [EvaluationNext]_allVars => LedgerInv'
  <2> SUFFICES ASSUME LedgerInv, [EvaluationNext]_allVars PROVE LedgerInv'
    OBVIOUS
  <2>1. CASE CalibrationStep
    BY <2>1, CalibrationKeeps
  <2>2. CASE UNCHANGED calibration
    BY <2>2 DEF calibration, LedgerInv
  <2> QED BY <2>1, <2>2 DEF EvaluationNext, Judge, Calibrate, AskForEvidence, GateTheEvidence, Over,
                            allVars, calibration
<1>3. LedgerInv => JudgedOverEveryReplicate
  <2> SUFFICES ASSUME LedgerInv, report.is = "report" PROVE JudgedOverEveryReplicate
    BY DEF JudgedOverEveryReplicate
  <2>1. sbc.collected \in Seq(Rank) /\ sbc.index \in Nat /\ sbc.count \in Int
        /\ sbc.refused \in Nat /\ sbc.unconverged \in Nat /\ sbc.undrawn \in Nat
    BY DEF LedgerInv, Ledger
  <2>2. report.conclusion # "abstain" => Len(sbc.collected) = sbc.count
    BY <2>1 DEF LedgerInv, Counted, Judged
  <2> QED BY <2>1, <2>2 DEF LedgerInv, Matched, Judged, JudgedOverEveryReplicate
<1> QED BY <1>1, <1>2, <1>3, PTL DEF EvaluationSpec

--------------------------------------------------------------------------------
(***************************************************************************)
(* The five windows: arithmetic of a tail that shrinks by one factor.      *)
(***************************************************************************)
(* Four increments in one ratio, in whole numbers.                         *)
LEMMA Shrinks ==
  ASSUME NEW p \in 1 .. 4, NEW q \in 1 .. 4, NEW i \in Nat \ {0}, NEW j \in Int, q * j = p * i
  PROVE  /\ j > 0
         /\ (1000 * j < 995 * i) = (p < q)
         /\ (j < i) = (p < q)
<1>1. p \in {1, 2, 3, 4} /\ q \in {1, 2, 3, 4}
  OBVIOUS
<1>2. \/ j = i /\ p = q
      \/ p # q /\ \E a, b \in {1, 2, 3, 4} : a = p /\ b = q /\ b * j = a * i
  BY <1>1
<1> QED BY <1>1

\* A positive factor cancels from an equation.
LEMMA Cancels ==
  ASSUME NEW a \in Int, NEW b \in Int, NEW i \in Nat \ {0}
  PROVE  (a * i = b * i) = (a = b)
OBVIOUS
(* Both extrapolations of a geometric tail are the sum of the same series.  *)
LEMMA SameSum ==
  ASSUME NEW p \in 1 .. 4, NEW q \in 1 .. 4, NEW a \in Nat \ {0}, NEW b \in Nat \ {0}, NEW c \in Nat \ {0},
         q * b = p * a, q * c = p * b, NEW m \in Int,
         NEW y \in Int, NEW z \in Int, y = b - c, z = a - b
  PROVE  ((m + c) * y + c * c) * z = (m * z + b * b) * y
<1>1. a * c = b * b
  <2>1. q * (a * c) = q * (b * b)
    <3>1. q * (a * c) = a * (q * c) /\ a * (q * c) = a * (p * b)
      OBVIOUS
    <3>2. a * (p * b) = (p * a) * b /\ (p * a) * b = (q * b) * b /\ (q * b) * b = q * (b * b)
      OBVIOUS
    <3> QED BY <3>1, <3>2
  <2>2. (a * c) * q = (b * b) * q
    BY <2>1
  <2>3. a * c \in Int /\ b * b \in Int /\ q \in Nat \ {0}
    OBVIOUS
  <2> QED BY <2>2, <2>3, Cancels
<1>2. (m + c) * y + c * c = m * y + c * b
  OBVIOUS
<1>3. ((m + c) * y + c * c) * z = m * y * z + c * b * z
  BY <1>2
<1>4. c * b * z = b * (a * c) - b * b * c
  OBVIOUS
<1>5. b * b * y = b * (b * b) - b * b * c
  OBVIOUS
<1>6. c * b * z = b * b * y
  BY <1>1, <1>4, <1>5
<1>7. (m * z + b * b) * y = m * y * z + b * b * y
  OBVIOUS
<1> QED BY <1>3, <1>6, <1>7

(* The sum is a whole number of units where the series says so.            *)
LEMMA SumIsWhole ==
  ASSUME NEW p \in 1 .. 4, NEW q \in 1 .. 4, NEW b \in Nat \ {0}, NEW c \in Nat \ {0},
         q * c = p * b, NEW m \in Int, NEW one \in Int,
         NEW x \in Int, NEW y \in Int, y = b - c, x = m * y + c * c
  PROVE  (x = one * y) = ((q - p) * (one - m) = p * c)
<1> DEFINE d == one - m
<1>1. (x = one * y) = (c * c = d * y)
  OBVIOUS
<1>2. (c * c = d * y) = ((c * c) * q = (d * y) * q)
  <2>1. c * c \in Int /\ d * y \in Int /\ q \in Nat \ {0}
    OBVIOUS
  <2> QED BY <2>1, Cancels
<1>3. (c * c) * q = (p * c) * b
  OBVIOUS
<1>4. (d * y) * q = ((q - p) * d) * b
  <2>1. y * q = (q - p) * b
    OBVIOUS
  <2>2. (d * y) * q = d * (y * q)
    OBVIOUS
  <2>3. d * ((q - p) * b) = ((q - p) * d) * b
    OBVIOUS
  <2> QED BY <2>1, <2>2, <2>3
<1>5. ((p * c) * b = ((q - p) * d) * b) = (p * c = (q - p) * d)
  <2>1. p * c \in Int /\ (q - p) * d \in Int
    OBVIOUS
  <2> QED BY <2>1, Cancels
<1> QED BY <1>1, <1>2, <1>3, <1>4, <1>5

(* Four whole numbers: the sum of the tail at the last window, and at the   *)
(* window before.                                                          *)
LEMMA TailSums ==
  ASSUME NEW m, NEW m4 \in Nat, NEW m5 \in Nat, m[4] = m4, m[5] = m5,
         NEW a \in Nat \ {0}, NEW b \in Nat \ {0}, NEW c \in Nat \ {0},
         Increment(m, 2) = a, Increment(m, 3) = b, Increment(m, 4) = c, c < b, b < a,
         NEW y \in Int, NEW z \in Int, y = b - c, z = a - b,
         NEW x \in Int, NEW w \in Int, x = m5 * y + c * c, w = m4 * z + b * b
  PROVE  Total(m, 4, <<c, b>>) = <<x, y>> /\ Total(m, 3, EarlierRatio(m)) = <<w, z>>
<1>1. TailSum(c, <<c, b>>) = <<c * c, y>> /\ TailSum(b, <<b, a>>) = <<b * b, z>>
  BY DEF TailSum
<1>2. EarlierRatio(m) = <<b, a>>
  BY DEF EarlierRatio, Size
<1>3. m[4 + 1] = m5 /\ m[3 + 1] = m4
  OBVIOUS
<1>4. \A v, n, d \in Int : Plus(Whole(v), <<n, d>>) = <<v * d + n, d>>
  <2> SUFFICES ASSUME NEW v \in Int, NEW n \in Int, NEW d \in Int
               PROVE  Plus(Whole(v), <<n, d>>) = <<v * d + n, d>>
    OBVIOUS
  <2>1. n * 1 = n /\ 1 * d = d
    OBVIOUS
  <2> QED BY <2>1 DEF Plus, Whole
<1>5. c * c \in Int /\ b * b \in Int
  OBVIOUS
<1>6. Total(m, 4, <<c, b>>) = Plus(Whole(m5), <<c * c, y>>)
  BY <1>1, <1>3 DEF Total
<1>7. Total(m, 3, EarlierRatio(m)) = Plus(Whole(m4), <<b * b, z>>)
  BY <1>1, <1>2, <1>3 DEF Total
<1> QED BY <1>4, <1>5, <1>6, <1>7

(* Two equal fractions leave no uncertainty: the sum must be exactly One.  *)
LEMMA NoUncertainty ==
  ASSUME NEW x \in Int, NEW y \in Nat \ {0}, NEW w \in Int, NEW z \in Nat \ {0}, NEW one \in Nat,
         x * z = w * y
  PROVE  AtMost(Distance(<<x, y>>, Whole(one)), Distance(<<x, y>>, <<w, z>>)) = (x = one * y)
<1>1. Distance(<<x, y>>, <<w, z>>) = <<0, y * z>>
  <2>1. x * z - w * y = 0
    OBVIOUS
  <2> QED BY <2>1 DEF Distance, Size
<1>2. Distance(<<x, y>>, Whole(one)) = <<Size(x - one * y), y>>
  <2>1. x * 1 - one * y = x - one * y /\ y * 1 = y
    OBVIOUS
  <2> QED BY <2>1 DEF Distance, Whole
<1>3. PICK e \in Int : e = x - one * y
  OBVIOUS
<1>4. PICK k \in Nat \ {0} : k = y * z
  OBVIOUS
<1>5. Size(e) \in Nat /\ (Size(e) = 0) = (e = 0)
  BY DEF Size
<1>6. AtMost(<<Size(e), y>>, <<0, k>>) = (Size(e) * k <= 0)
  BY DEF AtMost
<1>7. (Size(e) * k <= 0) = (Size(e) = 0)
  <2>1. \A n \in Nat : (n * k <= 0) = (n = 0)
    OBVIOUS
  <2> QED BY <1>5, <2>1
<1>8. (e = 0) = (x = one * y)
  BY <1>3
<1> QED BY <1>1, <1>2, <1>3, <1>4, <1>5, <1>6, <1>7, <1>8

(* What the windows of a regular tail say.                                 *)
LEMMA RegularWindows ==
  ASSUME NEW m, NEW m4 \in Nat, NEW m5 \in Nat, m[4] = m4, m[5] = m5,
         m[1] \in Nat, m[2] \in Nat, m[3] \in Nat,
         NEW p \in 1 .. 4, NEW q \in 1 .. 4, Regular(m, p, q)
  PROVE  /\ m5 # 0
         /\ Converges(Ratio(m, 4)) = (p < q)
         /\ p < q =>
              AtMost(Distance(Total(m, 4, Ratio(m, 4)), Whole(One)),
                     Distance(Total(m, 4, Ratio(m, 4)), Total(m, 3, EarlierRatio(m))))
                = ((q - p) * (One - m5) = p * Increment(m, 4))
<1>3. /\ Increment(m, 1) = m[2] - m[1] /\ Increment(m, 2) = m[3] - m[2]
      /\ Increment(m, 3) = m[4] - m[3] /\ Increment(m, 4) = m[5] - m[4]
  BY DEF Increment
<1>5. PICK i \in Int, a \in Int : i = Increment(m, 1) /\ a = Increment(m, 2)
  BY <1>3
<1>6. PICK b \in Int, c \in Int : b = Increment(m, 3) /\ c = Increment(m, 4)
  BY <1>3
<1>7. i \in Nat \ {0} /\ q * a = p * i /\ q * b = p * a /\ q * c = p * b
  <2>1. \A k \in 2 .. 4 : q * Increment(m, k) = p * Increment(m, k - 1)
    BY DEF Regular
  <2>2. 2 \in 2 .. 4 /\ 3 \in 2 .. 4 /\ 4 \in 2 .. 4 /\ 2 - 1 = 1 /\ 3 - 1 = 2 /\ 4 - 1 = 3
    OBVIOUS
  <2>3. Increment(m, 1) > 0
    BY DEF Regular
  <2> QED BY <1>5, <1>6, <2>1, <2>2, <2>3
<1>8. a \in Nat \ {0}
  BY <1>7, Shrinks
<1>9. b \in Nat \ {0} /\ (b < a) = (p < q)
  BY <1>7, <1>8, Shrinks
<1>10. c \in Nat \ {0} /\ (1000 * c < 995 * b) = (p < q) /\ (c < b) = (p < q)
  BY <1>7, <1>9, Shrinks
<1>11. m5 = m4 + c /\ m5 # 0
  BY <1>3, <1>6, <1>10
<1>12. Ratio(m, 4) = <<c, b>>
  <2>1. Increment(m, 4 - 1) = b
    BY <1>6
  <2>2. ~ (c <= 0) /\ b # 0 /\ ~ (b < 0)
    BY <1>9, <1>10
  <2> QED BY <1>6, <2>1, <2>2 DEF Ratio, Size
<1>13. Converges(<<c, b>>) = (p < q)
  BY <1>10 DEF Converges
<1>14. ASSUME p < q
       PROVE  AtMost(Distance(Total(m, 4, Ratio(m, 4)), Whole(One)),
                     Distance(Total(m, 4, Ratio(m, 4)), Total(m, 3, EarlierRatio(m))))
                = ((q - p) * (One - m5) = p * Increment(m, 4))
  <2>2. c < b /\ b < a
    BY <1>9, <1>10, <1>14
  <2>3. PICK x \in Int, y \in Nat \ {0} : x = m5 * y + c * c /\ y = b - c
    BY <1>9, <1>10, <2>2
  <2>4. PICK w \in Int, z \in Nat \ {0} : w = m4 * z + b * b /\ z = a - b
    BY <1>8, <1>9, <2>2
  <2>5. Total(m, 4, <<c, b>>) = <<x, y>> /\ Total(m, 3, EarlierRatio(m)) = <<w, z>>
    <3>1. /\ Increment(m, 2) = a /\ Increment(m, 3) = b /\ Increment(m, 4) = c
          /\ m[4] = m4 /\ m[5] = m5 /\ x = m5 * y + c * c /\ w = m4 * z + b * b
      BY <1>5, <1>6, <2>3, <2>4
    <3>2. a \in Nat \ {0} /\ b \in Nat \ {0} /\ c \in Nat \ {0} /\ y \in Int /\ z \in Int
      BY <1>8, <1>9, <1>10
    <3> QED BY <2>2, <2>3, <2>4, <3>1, <3>2, TailSums, SMTT(60)
  <2>6. x * z = w * y
    BY <1>7, <1>8, <1>9, <1>10, <1>11, <2>3, <2>4, SameSum
  <2>7. AtMost(Distance(<<x, y>>, Whole(One)), Distance(<<x, y>>, <<w, z>>)) = (x = One * y)
    BY <2>6, NoUncertainty, OneAssumption
  <2>8. (x = One * y) = ((q - p) * (One - m5) = p * c)
    BY <1>7, <1>9, <1>10, <2>3, SumIsWhole, OneAssumption
  <2> QED BY <1>6, <1>12, <2>5, <2>7, <2>8
<1> QED BY <1>11, <1>12, <1>13, <1>14

(* The five windows tell, of every prior and every unit of mass.           *)
LEMMA RegularTail ==
  ASSUME NEW prior, \A k \in 1 .. 5 : prior.masses[k] \in Nat \cup {Undefined}
  PROVE  WindowsTell(prior)
<1>1. PICK m : m = prior.masses
  OBVIOUS
<1>2. 1 \in 1 .. 5 /\ 2 \in 1 .. 5 /\ 3 \in 1 .. 5 /\ 4 \in 1 .. 5 /\ 5 \in 1 .. 5
  OBVIOUS
<1>3. \A v, n, t : Audit(v, n, t).verdict = v /\ Audit(v, n, t).normalised = n
  BY DEF Audit
<1>4. ASSUME NEW p \in 1 .. 4, NEW q \in 1 .. 4, Regular(m, p, q),
             prior.scope = "one dimension", prior.refined = m[5]
      PROVE  /\ (AuditPrior(prior).verdict = "proper") = (p < q)
             /\ p < q => AuditPrior(prior).normalised
                           = ((q - p) * (One - m[5]) = p * Increment(m, 4))
  <2>1. \A k \in 1 .. 5 : m[k] \in Nat /\ m[k] # Undefined
    BY <1>1, <1>4 DEF Regular, Undefined
  <2>2. m[1] \in Nat /\ m[2] \in Nat /\ m[3] \in Nat /\ m[4] \in Nat /\ m[5] \in Nat
    BY <1>2, <2>1
  <2>3. PICK m4 \in Nat, m5 \in Nat : m[4] = m4 /\ m[5] = m5
    BY <2>2
  <2>4. PICK ratio : ratio = Ratio(m, 4)
    OBVIOUS
  <2>5. PICK total : total = Total(m, 4, ratio)
    OBVIOUS
  <2>6. PICK normal : normal = AtMost(Distance(total, Whole(One)), Distance(total, Total(m, 3, EarlierRatio(m))))
    OBVIOUS
  <2>7. m5 # 0 /\ Converges(ratio) = (p < q)
        /\ (p < q => normal = ((q - p) * (One - m5) = p * Increment(m, 4)))
    <3>1. /\ m5 # 0 /\ Converges(Ratio(m, 4)) = (p < q)
          /\ p < q =>
              AtMost(Distance(Total(m, 4, Ratio(m, 4)), Whole(One)),
                     Distance(Total(m, 4, Ratio(m, 4)), Total(m, 3, EarlierRatio(m))))
                = ((q - p) * (One - m5) = p * Increment(m, 4))
      <4>1. Regular(m, p, q)
        BY <1>4
      <4> QED BY <2>2, <2>3, <4>1, RegularWindows, SMTT(60)
    <3> QED BY <2>4, <2>5, <2>6, <3>1, Zenon
  <2>8. AuditPrior(prior) = IF p < q THEN Audit("proper", normal, total)
                            ELSE Audit("improper", FALSE, Nothing)
    <3>1. prior.masses[5] = m5 /\ prior.refined = prior.masses[5]
      BY <1>1, <1>4, <2>3
    <3>2. ~ \E k \in 1 .. 5 : prior.masses[k] = Undefined
      BY <1>1, <2>1
    <3> QED BY <1>1, <1>4, <2>4, <2>5, <2>6, <2>7, <3>1, <3>2, Zenon DEF AuditPrior
  <2>9. (AuditPrior(prior).verdict = "proper") = (p < q)
        /\ (p < q => AuditPrior(prior).normalised = normal)
    <3>1. CASE p < q
      <4>1. AuditPrior(prior) = Audit("proper", normal, total)
        BY <2>8, <3>1, Zenon
      <4>2. AuditPrior(prior).verdict = "proper" /\ AuditPrior(prior).normalised = normal
        BY <4>1 DEF Audit
      <4> QED BY <3>1, <4>2, Zenon
    <3>2. CASE ~(p < q)
      <4>1. AuditPrior(prior) = Audit("improper", FALSE, Nothing)
        BY <2>8, <3>2, Zenon
      <4>2. AuditPrior(prior).verdict = "improper" /\ "improper" # "proper"
        BY <4>1 DEF Audit
      <4> QED BY <3>2, <4>2
    <3> QED BY <3>1, <3>2
  <2> QED BY <2>3, <2>7, <2>9, Zenon
<1> QED BY <1>1, <1>4, Zenon DEF WindowsTell

--------------------------------------------------------------------------------
(***************************************************************************)
(* The evidence.                                                           *)
(***************************************************************************)
LEMMA Verdicts ==
  ASSUME NEW g, NEW l
  PROVE  LatentAudit(g, l).verdict \in {"proper", "improper", "undeclared", "unverifiable"}
<1> DEFINE V == {"proper", "improper", "undeclared", "unverifiable"}
<1>1. Undecidable.verdict \in V /\ Audit("undeclared", FALSE, Nothing).verdict \in V
  BY DEF Undecidable, Audit
<1>2. ASSUME NEW prior PROVE AuditPrior(prior).verdict \in V
  <2>1. \A v \in V : \A n, mass : Audit(v, n, mass).verdict = v
    BY DEF Audit
  <2> HIDE DEF V
  <2>2. "proper" \in V /\ "improper" \in V
    BY DEF V
  <2>3. \A n, mass : Audit("proper", n, mass).verdict \in V /\ Audit("improper", n, mass).verdict \in V
    BY <2>1, <2>2
  <2> QED BY <1>1, <2>3 DEF AuditPrior
<1> HIDE DEF V
<1>3. LatentAudit(g, l).verdict \in V
  BY <1>1, <1>2 DEF LatentAudit
<1> QED BY <1>3 DEF V

(* The first gate lets nothing pass but normalised densities.              *)
LEMMA PriorGate ==
  ASSUME NEW g, PriorRefusal(g) = "none"
  PROVE  \A l \in PriorLatents : LatentAudit(g, l).normalised
<1> DEFINE bad == {l \in PriorLatents : ~LatentAudit(g, l).normalised}
           first == CHOOSE l \in bad : \A k \in bad : l <= k
           premise == [proper |-> "evidence_prior_normalised", improper |-> "evidence_prior_proper",
                  undeclared |-> "evidence_prior_undeclared", unverifiable |-> "evidence_prior_proper"]
<1>1. PriorRefusal(g) = IF bad = {} THEN "none" ELSE premise[LatentAudit(g, first).verdict]
  BY DEF PriorRefusal
<1>2. \A v \in {"proper", "improper", "undeclared", "unverifiable"} : premise[v] # "none"
  OBVIOUS
<1>3. premise[LatentAudit(g, first).verdict] # "none"
  BY <1>2, Verdicts
<1>4. bad = {}
  <2> HIDE DEF bad, first, premise
  <2> QED BY <1>1, <1>3
<1> QED BY <1>4

(* The second gate has seen every probed combination of the parents.       *)
LEMMA ConditionalGate ==
  ASSUME NEW g, g.reads \in [PriorLatents -> SUBSET PriorLatents],
         ConditionalRefusal(g) = "none",
         NEW l \in PriorLatents, g.reads[l] # {}, NEW env \in [PriorLatents -> Probed]
  PROVE  AuditPrior(PriorAt(g, l, env)).verdict = "proper"
<1>1. Degenerate(g) = {} /\ Unresolved(g) = {}
  BY DEF ConditionalRefusal
<1>2. l \in Conditioned(g)
  BY DEF Conditioned
<1>3. l \in Conditioned(g) \ Unresolved(g)
  BY <1>1, <1>2
<1> DEFINE ancestors == PriorAncestors(g, l)
           at == [a \in ancestors |-> env[a]]
           c == [k \in PriorLatents |-> IF k \in ancestors THEN at[k] ELSE 0]
<1>4. g.reads[l] \subseteq ancestors /\ ancestors \subseteq PriorLatents
  <2>1. \A k \in PriorLatents : g.reads[k] \subseteq PriorLatents
    OBVIOUS
  <2> QED BY <2>1 DEF PriorAncestors
<1>5. at \in [ancestors -> Probed]
  BY <1>4
<1>6. c \in Combinations(ancestors)
  <2> HIDE DEF ancestors, at
  <2> QED BY <1>5 DEF Combinations
<1>7. PriorAt(g, l, c) = PriorAt(g, l, env)
  <2>1. \A p \in g.reads[l] : c[p] = env[p]
    BY <1>4
  <2> HIDE DEF c, at, ancestors
  <2>2. [p \in g.reads[l] |-> c[p]] = [p \in g.reads[l] |-> env[p]]
    BY <2>1
  <2> QED BY <2>2 DEF PriorAt
<1> HIDE DEF c, at
<1>8. <<l, c>> \in UNION {{k} \X Combinations(PriorAncestors(g, k)) : k \in Conditioned(g) \ Unresolved(g)}
  BY <1>3, <1>6
<1>9. AuditPrior(PriorAt(g, l, c)).verdict = "proper"
  <2>1. \A cell \in UNION {{k} \X Combinations(PriorAncestors(g, k)) : k \in Conditioned(g) \ Unresolved(g)} :
          AuditPrior(PriorAt(g, cell[1], cell[2])).verdict = "proper"
    BY <1>1 DEF Degenerate
  <2>2. <<l, c>>[1] = l /\ <<l, c>>[2] = c
    OBVIOUS
  <2> QED BY <1>8, <2>1, <2>2
<1> QED BY <1>7, <1>9
(* An evidence of densities passes its own gate, whatever else is reported.  *)
LEMMA OwnGatePasses ==
  ASSUME \A l \in PriorLatents : LatentAudit(question, l).normalised,
         NEW sensitivity \in {NotAttempted} \cup {File(axes) : axes \in SensitivityReports},
         NEW comparability \in {NotAttempted} \cup {File(axes) : axes \in ComparabilityReports},
         NEW filed,
         filed[EVIDENCE[1].name] = File(NormalizationAxes(question)),
         filed[EVIDENCE[2].name] = sensitivity, filed[EVIDENCE[3].name] = comparability
  PROVE  Aggregate(EVIDENCE, filed, TRUE, TRUE).verdict = "pass"
<1>1. NormalizationAxes(question) = Pass
  <2> DEFINE unusable == {l \in PriorLatents : ~LatentAudit(question, l).normalised}
  <2>1. unusable = {} /\ {l \in unusable : LatentAudit(question, l).verdict = "unverifiable"} = {}
    OBVIOUS
  <2> HIDE DEF unusable
  <2> QED BY <2>1 DEF NormalizationAxes, Pass, unusable
<1>2. /\ DOMAIN EVIDENCE = {1, 2, 3}
      /\ EVIDENCE[1].weight = "required" /\ EVIDENCE[2].weight = "optional" /\ EVIDENCE[3].weight = "optional"
  BY DEF EVIDENCE
<1> DEFINE slot(k) == filed[EVIDENCE[k].name]
<1>3. \A axes : File(axes).is = "report" /\ File(axes).axes = axes /\ File(axes).stale = FALSE
  BY DEF File
<1>4. NotAttempted.is = "nothing" /\ NotAttempted.stale = FALSE
  BY DEF NotAttempted
<1>5. \A k \in {1, 2, 3} : ~slot(k).stale /\ slot(k).is # "error"
  BY <1>3, <1>4
<1>6. Status(EVIDENCE, filed, TRUE, TRUE) = "evaluated"
  <2> HIDE DEF slot
  <2>1. ~ \E k \in DOMAIN EVIDENCE : filed[EVIDENCE[k].name].stale
    BY <1>2, <1>5 DEF slot
  <2>2. ~ \E k \in DOMAIN EVIDENCE : Blocks(EVIDENCE[k], filed[EVIDENCE[k].name])
    BY <1>2, <1>5 DEF slot, Blocks
  <2> QED BY <2>1, <2>2 DEF Status
<1> DEFINE tally == Tally(EVIDENCE, filed)
<1>7. DOMAIN tally = {1, 2, 3} /\ \A k \in {1, 2, 3} : tally[k][1] = Finding(EVIDENCE[k].weight, slot(k))
  BY <1>2 DEF Tally
<1>8. Finding("required", slot(1)) = "none"
  <2>1. slot(1).is = "report" /\ slot(1).axes = Pass
    BY <1>1, <1>3
  <2>2. RequiredFinding(Pass) = "none"
    BY DEF RequiredFinding, Pass
  <2> HIDE DEF slot
  <2> QED BY <2>1, <2>2 DEF Finding
<1>9. \A s : Finding("optional", s) \in {"optional_report_failed", "none"}
  BY DEF Finding
<1>10. \A k \in DOMAIN tally : tally[k][1] \in {"optional_report_failed", "none"}
  <2> HIDE DEF tally, slot
  <2> QED BY <1>2, <1>7, <1>8, <1>9
<1>11. Verdict(tally) = "pass"
  <2> HIDE DEF tally
  <2> QED BY <1>10 DEF Verdict, Has, Abstaining
<1> QED BY <1>6, <1>11 DEF Aggregate, VerdictUnder, Answer

(***************************************************************************)
(* What is asked is one of the graphs in question, and what is admitted    *)
(* has passed both gates.                                                  *)
(***************************************************************************)
EvidenceInv ==
  /\ question # NoQuestion => \E family \in Questions : question \in family
  /\ question = NoQuestion => admitted = "pending" /\ judged = Pending
  /\ admitted = "none" => AdmissionRefusal(question, residual) = "none"
  /\ residual \in BOOLEAN
  /\ judged = Pending \/ (judged.verdict = "pass" /\ admitted = "none")

\* Every step towards an evidence keeps the invariant.
LEMMA EvidenceStep ==
  ASSUME EvidenceInv, [EvaluationNext]_allVars
  PROVE  EvidenceInv'
<1>1. CASE AskForEvidence
  BY <1>1, QuestionsAssumption DEF AskForEvidence, EvidenceInv, Fresh
<1>2. CASE GateTheEvidence
  <2> USE DEF EvidenceInv
  <2>1. /\ admitted = "none" /\ question' = question /\ residual' = residual /\ admitted' = admitted
    BY <1>2 DEF GateTheEvidence
  <2>2. PriorRefusal(question) = "none"
    BY <2>1 DEF AdmissionRefusal
  <2>3. \A l \in PriorLatents : LatentAudit(question, l).normalised
    BY <2>2, PriorGate
  <2>4. PICK sensitivity \in {NotAttempted} \cup {File(axes) : axes \in SensitivityReports} :
        \E comparability \in {NotAttempted} \cup {File(axes) : axes \in ComparabilityReports} :
          judged' = Aggregate(EVIDENCE,
                   [name \in {EVIDENCE[k].name : k \in 1 .. 3} |->
                      CASE name = EVIDENCE[1].name -> File(NormalizationAxes(question))
                        [] name = EVIDENCE[2].name -> sensitivity
                        [] name = EVIDENCE[3].name -> comparability], TRUE, TRUE)
    BY <1>2 DEF GateTheEvidence
  <2>5. PICK comparability \in {NotAttempted} \cup {File(axes) : axes \in ComparabilityReports} :
          judged' = Aggregate(EVIDENCE,
                   [name \in {EVIDENCE[k].name : k \in 1 .. 3} |->
                      CASE name = EVIDENCE[1].name -> File(NormalizationAxes(question))
                        [] name = EVIDENCE[2].name -> sensitivity
                        [] name = EVIDENCE[3].name -> comparability], TRUE, TRUE)
    BY <2>4
  <2> DEFINE filed == [name \in {EVIDENCE[k].name : k \in 1 .. 3} |->
                      CASE name = EVIDENCE[1].name -> File(NormalizationAxes(question))
                        [] name = EVIDENCE[2].name -> sensitivity
                        [] name = EVIDENCE[3].name -> comparability]
  <2>6. /\ EVIDENCE[1].name # EVIDENCE[2].name /\ EVIDENCE[1].name # EVIDENCE[3].name
        /\ EVIDENCE[2].name # EVIDENCE[3].name
    BY DEF EVIDENCE
  <2>7. \A k \in 1 .. 3 : EVIDENCE[k].name \in {EVIDENCE[j].name : j \in 1 .. 3}
    OBVIOUS
  <2>8. /\ filed[EVIDENCE[1].name] = File(NormalizationAxes(question))
        /\ filed[EVIDENCE[2].name] = sensitivity /\ filed[EVIDENCE[3].name] = comparability
    BY <2>6, <2>7
  <2>9. Aggregate(EVIDENCE, filed, TRUE, TRUE).verdict = "pass"
    <3> HIDE DEF filed
    <3> QED BY <2>3, <2>8, OwnGatePasses
  <2> QED BY <2>1, <2>5, <2>9
<1>3. CASE UNCHANGED evidence
  BY <1>3 DEF evidence, EvidenceInv
<1> QED BY <1>1, <1>2, <1>3 DEF EvaluationNext, Judge, Calibrate, Over, allVars

\* The invariant says what is admitted: normalised priors, and a gate that passed.
LEMMA AdmittedHolds ==
  ASSUME EvidenceInv PROVE AdmittedAreDensities
<1> SUFFICES ASSUME admitted = "none" PROVE AdmittedAreDensities
  BY DEF AdmittedAreDensities
<1>1. PICK family \in Questions : question \in family
  BY DEF EvidenceInv
<1>2. question.reads \in [PriorLatents -> SUBSET PriorLatents]
  BY <1>1, QuestionsAssumption
<1>3. PriorRefusal(question) = "none" /\ (residual => ConditionalRefusal(question) = "none")
  BY DEF EvidenceInv, AdmissionRefusal
<1>4. \A l \in PriorLatents : LatentAudit(question, l).normalised
  BY <1>3, PriorGate
<1>5. ASSUME residual, NEW l \in PriorLatents, question.reads[l] # {}, NEW env \in [PriorLatents -> Probed]
      PROVE  AuditPrior(PriorAt(question, l, env)).verdict = "proper"
  BY <1>2, <1>3, <1>5, ConditionalGate
<1> QED BY <1>4, <1>5 DEF AdmittedAreDensities, EvidenceInv

(* An evidence is of densities, for every family of graphs, every probe and *)
(* every unit of mass: of a tail that shrinks or grows regularly the audit  *)
(* tells exactly whether it is proper and whether its mass is one, and no   *)
(* evidence is admitted whose priors are not densities wherever they are    *)
(* looked at; its own gate agrees.                                          *)
THEOREM EvidencesAreOfDensities == EvaluationSpec => []EvidenceIsOfDensities
<1>1. EvaluationInit => EvidenceInv
  BY DEF EvaluationInit, EvidenceInv
<1>2. EvidenceInv /\ [EvaluationNext]_allVars => EvidenceInv'
  BY EvidenceStep
<1>3. EvidenceInv => EvidenceIsOfDensities
  <2> SUFFICES ASSUME EvidenceInv PROVE EvidenceIsOfDensities
    OBVIOUS
  <2>1. ASSUME question # NoQuestion, NEW l \in PriorLatents, NEW at \in DOMAIN question.prior[l]
        PROVE  WindowsTell(question.prior[l][at])
    <3>1. PICK family \in Questions : question \in family
      BY <2>1 DEF EvidenceInv
    <3>2. \A k \in 1 .. 5 : question.prior[l][at].masses[k] \in Nat \cup {Undefined}
      BY <2>1, <3>1, QuestionsAssumption
    <3> QED BY <3>2, RegularTail
  <2> QED BY <2>1, AdmittedHolds DEF EvidenceIsOfDensities
<1> QED BY <1>1, <1>2, <1>3, PTL DEF EvaluationSpec

-----------------------------------------------------------------------------
\* The look of a posterior task at its graph. Each finding has a place in the
\* report, and what is looked at has one past every finding there is.
Place(f) ==
  IF f.about \in {"automatic", "prior_policy"} THEN 0
  ELSE IF f.about = "treatment" THEN 1
  ELSE IF f.about = "initial_point" THEN 2
  ELSE IF f.about = "budget" THEN 3
  ELSE IF f.about = "joint" THEN 4
  ELSE IF f.about = "jeffreys" THEN 3 + 2 * f.block
  ELSE IF f.about = "shift" THEN 4 + 2 * f.block
  ELSE 5 + 2 * Len(examined.blocks)

PlaceOfLook(k) ==
  IF k.question = "nothing" THEN 0
  ELSE IF k.question = "anchor" THEN 2
  ELSE IF k.question = "joint" THEN 4
  ELSE IF k.question \in {"jeffreys", "probe"} THEN 3 + 2 * k.block
  ELSE IF k.question = "shift" THEN 4 + 2 * k.block
  ELSE IF k.question = "order" THEN 5 + 2 * Len(examined.blocks)
  ELSE 6 + 2 * Len(examined.blocks)

Abouts == {"automatic", "prior_policy", "treatment", "initial_point", "budget", "joint", "jeffreys", "shift", "order"}
Statuses ==
  {"disabled", "passed", "failed", "unresolved", "skipped_budget", "not_applicable", "rank_deficient", "flat", "nonflat",
   "joint_sampling", "conditional_reconstruction", "fixed_compiler_order", "marginal_nuts_then_conditional_reconstruction"}
Findings == [about : Abouts, block : Nat, status : Statuses]
Looks == [question : {"nothing", "anchor", "joint", "jeffreys", "probe", "shift", "order", "done"}, block : Nat]
PointDraws == [purpose : Nat, chains : Nat, attempt : Nat, points : Seq(Locations), attempts : Seq(1 .. MaxAttempts),
          state : {"idle", "drawing", "found", "failed"}]

LookIsWell ==
  /\ IsInquiry(examined) /\ looking \in Looks /\ formed \in Nat /\ formed <= examined.policy.elements
  /\ looking.question \in {"jeffreys", "probe", "shift"} => looking.block \in BlockNumbers
  /\ looking.question \notin {"jeffreys", "probe", "shift"} => looking.block = 0
  /\ looking.question \in {"joint", "jeffreys", "probe", "shift", "order"} => anchor \in Locations
  /\ looking.question \in {"nothing", "anchor"} => anchor = NoPlace
  /\ looking.question = "probe" =>
       LET names == examined.blocks[looking.block] IN Allowed(names) /\ Geometry(names, anchor) # NoDeterminant

\* A draw is of the look it was begun for, and has a point for every chain when it
\* is found.
DrawIsWell ==
  /\ draw \in PointDraws /\ Len(draw.attempts) = Len(draw.points) /\ Len(draw.points) <= draw.chains
  /\ draw.state = "drawing" => Len(draw.points) < draw.chains /\ draw.attempt \in 1 .. MaxAttempts
  /\ draw.state = "found" => Len(draw.points) = draw.chains /\ draw.chains > 0
  /\ draw.state = "idle" => draw = NoDraw
  /\ draw.state # "idle" => draw.purpose = looking.block /\ looking.question \in {"anchor", "probe"}
  /\ looking.question = "probe" => draw.state # "idle"
  /\ \A c \in DOMAIN draw.points :
       /\ InSupport(draw.points[c]) /\ Finite(draw.points[c])
       /\ \A l \in DOMAIN Supplied(draw.purpose, c) : draw.points[c][l] = Supplied(draw.purpose, c)[l]

\* What FindingsAreSo says of one finding.
FindingIsSo(f) ==
  /\ f.about \in {"joint", "jeffreys"} => GeometryIsSo(f)
  /\ f.about = "shift" /\ f.status \in {"passed", "failed"} =>
       examined.factors = {} /\ examined.masked = {} /\ examined.blocks[f.block] \subseteq examined.normal
  /\ f.about = "order" => (f.status = "fixed_compiler_order" <=> ~("collapse" \in examined.traits /\ BehindTwo))

ReportIsWell ==
  /\ reported \in Seq(Findings)
  /\ looking.question = "nothing" => reported = <<>>
  /\ \A n \in DOMAIN reported : FindingIsSo(reported[n]) /\ Place(reported[n]) < PlaceOfLook(looking)
  /\ \A n, k \in DOMAIN reported : n < k => Place(reported[n]) < Place(reported[k])
  /\ "disabled" \notin examined.traits =>
       \A i \in BlockNumbers : 3 + 2 * i < PlaceOfLook(looking) =>
         \E n \in DOMAIN reported : reported[n].about = "jeffreys" /\ reported[n].block = i

LookInv == LookIsWell /\ DrawIsWell /\ ReportIsWell

-----------------------------------------------------------------------------
\* Where the inquiry stays, so does what is said with it alone.
LEMMA PlaceSettles ==
  ASSUME UNCHANGED examined
  PROVE  /\ \A f : Place(f)' = Place(f)
         /\ \A names : Certified(names)' = Certified(names) /\ Allowed(names)' = Allowed(names) /\ Elements(names)' = Elements(names)
         /\ \A names, at : Trusted(names)' = Trusted(names) /\ RefusesInformation(names, at)' = RefusesInformation(names, at)
         /\ \A at : InSupport(at)' = InSupport(at) /\ Finite(at)' = Finite(at)
         /\ IsInquiry(examined)' = IsInquiry(examined) /\ BlockNumbers' = BlockNumbers
  BY DEF Place, Certified, Trusted, AffineIn, Allowed, Elements, Breadth, InSupport, Finite, IsInquiry, BlockNumbers, RefusesInformation,
         RefusesBernoulli, RefusesPareto

LEMMA InformationSettles ==
  ASSUME UNCHANGED examined
  PROVE  /\ \A at : Slopes(at)' = Slopes(at) /\ Derivatives(at)' = Derivatives(at)
         /\ \A names, at, slopes : InformationAt(names, at, slopes)' = InformationAt(names, at, slopes)
         /\ \A names, at : TrueInformation(names, at)' = TrueInformation(names, at)
<1>1. \A at : Slopes(at)' = Slopes(at)
  BY DEF Slopes, Slope
<1>2. \A at : Derivatives(at)' = Derivatives(at)
  BY <1>1 DEF Derivatives
<1>3. Seen' = Seen
  BY DEF Seen
<1>4. \A row, at : RowWeight(row, at)' = RowWeight(row, at)
  BY DEF RowWeight, GaussianWeight
<1>5. \A at : Weighing(at)' = Weighing(at)
  BY <1>3, <1>4 DEF Weighing
<1>6. \A l, k : SpectrumCurvature(l, k)' = SpectrumCurvature(l, k)
  <2>1. \A r, l : SpectrumSlope(r, l)' = SpectrumSlope(r, l)
    BY <1>3 DEF SpectrumSlope, Loudness
  <2>2. QED
    BY <2>1 DEF SpectrumCurvature
<1>7. \A names, at, slopes : InformationAt(names, at, slopes)' = InformationAt(names, at, slopes)
  <2>1. TAKE names, at, slopes
  <2>2. examined' = examined /\ Weighing(at)' = Weighing(at)
    BY <1>5
  <2>3. QED
    BY <2>2, <1>6, Zenon DEF InformationAt
<1>8. \A r, l, k, at : RowInformation(r, l, k, at)' = RowInformation(r, l, k, at)
  BY <1>1, <1>4 DEF RowInformation, Loudness
<1>9. \A names, at : TrueInformation(names, at)' = TrueInformation(names, at)
  BY <1>3, <1>8, Zenon DEF TrueInformation
<1>10. QED
  BY <1>1, <1>2, <1>7, <1>9

LEMMA GeometrySettles ==
  ASSUME UNCHANGED examined
  PROVE  /\ \A names, at : Geometry(names, at)' = Geometry(names, at)
         /\ \A names, at : TrueInformation(names, at)' = TrueInformation(names, at)
         /\ \A names, at : TrueDeterminant(names, at)' = TrueDeterminant(names, at)
  BY InformationSettles DEF Geometry, TrueDeterminant

\* A finding stays so while the graph and the point stay; one that is not about
\* an information does whatever the point.
LEMMA FindingSettles ==
  ASSUME UNCHANGED examined,
         NEW f, f.about \notin {"joint", "jeffreys"} \/ UNCHANGED anchor
  PROVE  FindingIsSo(f)' = FindingIsSo(f)
<1>1. CASE f.about \notin {"joint", "jeffreys"}
  BY <1>1 DEF FindingIsSo, BehindTwo
<1>2. CASE UNCHANGED anchor
  <2>1. GeometryIsSo(f)' = GeometryIsSo(f)
    BY <1>2, GeometrySettles, PlaceSettles DEF GeometryIsSo, SameElsewhere
  <2>2. QED
    BY <2>1 DEF FindingIsSo, BehindTwo
<1>3. QED
  BY <1>1, <1>2

LEMMA Numbered ==
  ASSUME IsInquiry(examined)
  PROVE  Len(examined.blocks) \in Nat /\ BlockNumbers = 1 .. Len(examined.blocks) /\ Len(examined.blocks) > 0
<1>1. examined.blocks \in Seq(SUBSET Inspected) /\ examined.blocks # <<>>
  BY DEF IsInquiry
<1>2. QED
  BY <1>1 DEF BlockNumbers

LEMMA PlaceIsNat ==
  ASSUME IsInquiry(examined), NEW f \in Findings
  PROVE  Place(f) \in Nat /\ (f.about \in {"joint", "jeffreys"} => Place(f) > 2)
<1>1. f.block \in Nat
  BY DEF Findings
<1>2. Len(examined.blocks) \in Nat
  BY Numbered
<1>3. f.about \notin {"joint", "jeffreys"} => Place(f) \in Nat
  <2>1. f.about = "shift" => Place(f) = 4 + 2 * f.block
    BY DEF Place
  <2>2. f.about \notin {"joint", "jeffreys", "shift"} => Place(f) \in {0, 1, 2, 3, 5 + 2 * Len(examined.blocks)}
    BY DEF Place
  <2>3. QED
    BY <1>1, <1>2, <2>1, <2>2
<1>4. f.about = "joint" => Place(f) = 4
  BY DEF Place
<1>5. f.about = "jeffreys" => Place(f) = 3 + 2 * f.block
  BY DEF Place
<1>6. QED
  BY <1>1, <1>3, <1>4, <1>5

LEMMA LookHasAPlace ==
  ASSUME IsInquiry(examined), NEW k \in Looks
  PROVE  PlaceOfLook(k) \in Nat
<1>1. k.block \in Nat
  BY DEF Looks
<1>2. Len(examined.blocks) \in Nat
  BY Numbered
<1>3. QED
  BY <1>1, <1>2 DEF PlaceOfLook

\* What is reported next to a report stays in its place.
LEMMA Told ==
  ASSUME UNCHANGED examined, LookInv,
         looking.question \in {"nothing", "anchor"} \/ UNCHANGED anchor,
         NEW t \in Seq(Findings), reported' = reported \o t, looking' \in Looks,
         PlaceOfLook(looking) <= PlaceOfLook(looking'), looking'.question # "nothing",
         \A n \in DOMAIN t :
           /\ FindingIsSo(t[n])'
           /\ PlaceOfLook(looking) <= Place(t[n]) /\ Place(t[n]) < PlaceOfLook(looking'),
         \A n, k \in DOMAIN t : n < k => Place(t[n]) < Place(t[k]),
         "disabled" \notin examined.traits =>
           \A i \in BlockNumbers :
             PlaceOfLook(looking) <= 3 + 2 * i /\ 3 + 2 * i < PlaceOfLook(looking') =>
               \E n \in DOMAIN t : t[n].about = "jeffreys" /\ t[n].block = i
  PROVE  ReportIsWell'
<1> DEFINE L == Len(reported)
<1>1. reported \in Seq(Findings) /\ reported' \in Seq(Findings) /\ L \in Nat /\ Len(t) \in Nat /\ Len(reported') = L + Len(t)
  BY DEF LookInv, ReportIsWell
<1>2. /\ DOMAIN reported = 1 .. L /\ DOMAIN t = 1 .. Len(t) /\ DOMAIN reported' = 1 .. L + Len(t)
      /\ \A n \in 1 .. L : reported'[n] = reported[n]
      /\ \A n \in L + 1 .. L + Len(t) : reported'[n] = t[n - L]
  BY <1>1
<1>3. Len(examined.blocks) \in Nat /\ BlockNumbers = 1 .. Len(examined.blocks)
  BY Numbered DEF LookInv, LookIsWell
<1>4. \A f \in Findings : Place(f) \in Nat /\ (f.about \in {"joint", "jeffreys"} => Place(f) > 2)
  BY PlaceIsNat DEF LookInv, LookIsWell
<1>5. /\ PlaceOfLook(looking) \in Nat /\ PlaceOfLook(looking') \in Nat
      /\ looking.question \in {"nothing", "anchor"} => PlaceOfLook(looking) <= 2
  BY LookHasAPlace DEF LookInv, LookIsWell, PlaceOfLook
<1>6. \A n \in DOMAIN reported : FindingIsSo(reported[n]) /\ Place(reported[n]) < PlaceOfLook(looking) /\ reported[n] \in Findings
  BY <1>1 DEF LookInv, ReportIsWell
<1>7. \A n \in DOMAIN reported : \A f : f = reported[n] => FindingIsSo(f)'
  <2>1. SUFFICES ASSUME NEW n \in DOMAIN reported, NEW f, f = reported[n] PROVE FindingIsSo(f)'
    OBVIOUS
  <2>2. f \in Findings /\ Place(f) < PlaceOfLook(looking) /\ FindingIsSo(f)
    BY <1>6, <2>1
  <2>3. f.about \notin {"joint", "jeffreys"} \/ UNCHANGED anchor
    <3>1. SUFFICES ASSUME looking.question \in {"nothing", "anchor"}, f.about \in {"joint", "jeffreys"} PROVE FALSE
      OBVIOUS
    <3>2. Place(f) \in Nat /\ Place(f) > 2 /\ PlaceOfLook(looking) \in Nat /\ PlaceOfLook(looking) <= 2
      BY <1>4, <1>5, <2>2, <3>1
    <3>3. QED
      BY <3>2, <2>2
  <2>4. FindingIsSo(f)' = FindingIsSo(f)
    BY <2>3, FindingSettles
  <2>5. QED
    BY <2>4, <2>2
<1>8. (reported \in Seq(Findings))' /\ (looking.question = "nothing" => reported = <<>>)'
  BY <1>1 DEF Findings
<1>9. (PlaceOfLook(looking))' = PlaceOfLook(looking')
  BY DEF PlaceOfLook
<1>10. ASSUME NEW n \in DOMAIN reported'
       PROVE  (FindingIsSo(reported[n]) /\ Place(reported[n]) < PlaceOfLook(looking))'
  <2>1. PICK f : f = reported'[n]
    OBVIOUS
  <2>2. CASE n <= L
    <3>1. f = reported[n] /\ n \in DOMAIN reported
      BY <1>2, <1>1, <2>1, <2>2
    <3>2. FindingIsSo(f)'
      BY <3>1, <1>7
    <3>3. Place(f) < PlaceOfLook(looking) /\ Place(f) \in Nat
      BY <3>1, <1>6, <1>4
    <3>4. Place(f) < PlaceOfLook(looking')
      BY <3>3, <1>5
    <3>5. QED
      BY <3>2, <3>4, <2>1, <1>9, PlaceSettles
  <2>3. CASE n > L
    <3>1. f = t[n - L] /\ n - L \in DOMAIN t
      BY <1>2, <1>1, <2>1, <2>3
    <3>2. FindingIsSo(f)' /\ Place(f) < PlaceOfLook(looking')
      BY <3>1
    <3>5. QED
      BY <3>2, <2>1, <1>9, PlaceSettles
  <2>4. QED
    BY <2>2, <2>3, <1>1, <1>2
<1>11. ASSUME NEW n \in DOMAIN reported', NEW k \in DOMAIN reported', n < k
       PROVE  (Place(reported[n]) < Place(reported[k]))'
  <2>1. PICK f, g : f = reported'[n] /\ g = reported'[k]
    OBVIOUS
  <2>2. Place(f) < Place(g)
    <3>1. CASE k <= L
      <4>1. f = reported[n] /\ g = reported[k] /\ n \in DOMAIN reported /\ k \in DOMAIN reported
        BY <1>1, <1>2, <1>11, <2>1, <3>1
      <4>2. QED
        BY <4>1, <1>11 DEF LookInv, ReportIsWell
    <3>2. CASE n <= L /\ k > L
      <4>1. f = reported[n] /\ n \in DOMAIN reported /\ g = t[k - L] /\ k - L \in DOMAIN t
        BY <1>1, <1>2, <1>11, <2>1, <3>2
      <4>2. Place(f) < PlaceOfLook(looking) /\ PlaceOfLook(looking) <= Place(g) /\ f \in Findings /\ g \in Findings
        BY <4>1, <1>6, <1>1
      <4>3. QED
        BY <4>2, <1>4, <1>5
    <3>3. CASE n > L
      <4>1. f = t[n - L] /\ n - L \in DOMAIN t /\ g = t[k - L] /\ k - L \in DOMAIN t /\ n - L < k - L
        BY <1>1, <1>2, <1>11, <2>1, <3>3
      <4>2. QED
        BY <4>1
    <3>4. QED
      BY <3>1, <3>2, <3>3, <1>1, <1>2
  <2>3. QED
    BY <2>1, <2>2, PlaceSettles
<1>12. ASSUME "disabled" \notin examined'.traits, NEW i \in BlockNumbers', (3 + 2 * i < PlaceOfLook(looking))'
       PROVE  (\E n \in DOMAIN reported : reported[n].about = "jeffreys" /\ reported[n].block = i)'
  <2>1. i \in BlockNumbers /\ i \in Nat /\ 3 + 2 * i < PlaceOfLook(looking') /\ "disabled" \notin examined.traits
    BY <1>12, <1>9, <1>3, PlaceSettles
  <2>2. CASE 3 + 2 * i < PlaceOfLook(looking)
    <3>1. PICK n \in DOMAIN reported : reported[n].about = "jeffreys" /\ reported[n].block = i
      BY <2>1, <2>2 DEF LookInv, ReportIsWell
    <3>2. n \in DOMAIN reported' /\ reported'[n] = reported[n]
      BY <3>1, <1>1, <1>2
    <3>3. QED
      BY <3>1, <3>2
  <2>3. CASE PlaceOfLook(looking) <= 3 + 2 * i
    <3>1. PICK n \in DOMAIN t : t[n].about = "jeffreys" /\ t[n].block = i
      BY <2>1, <2>3
    <3>2. L + n \in DOMAIN reported' /\ reported'[L + n] = t[n]
      BY <3>1, <1>1, <1>2
    <3>3. QED
      BY <3>1, <3>2
  <2>4. QED
    BY <2>1, <2>2, <2>3, <1>5
<1>13. QED
  BY <1>8, <1>10, <1>11, <1>12 DEF ReportIsWell

-----------------------------------------------------------------------------
\* The information of the rows that were seen. Its entries are sums of at most
\* MaxRows products, weighed by numbers that are not negative.
SlopesOf == [DOMAIN examined.rows -> [Inspected -> Int]]

LEMMA RowsAreRows ==
  ASSUME IsInquiry(examined)
  PROVE  /\ DOMAIN examined.rows = 1 .. Len(examined.rows) /\ Len(examined.rows) \in 1 .. 3
         /\ \A r \in DOMAIN examined.rows :
              /\ examined.rows[r].linear \in [Inspected -> Int] /\ examined.rows[r].square \in [Inspected -> Int]
              /\ examined.rows[r].joint \in Int
<1>1. examined.rows \in Seq(Rows) /\ Len(examined.rows) \in 1 .. 3
  BY DEF IsInquiry, MaxRows
<1>2. \A r \in DOMAIN examined.rows : examined.rows[r] \in Rows
  BY <1>1
<1>3. QED
  BY <1>1, <1>2 DEF Rows

LEMMA PlacesAreNumbers ==
  ASSUME NEW at \in Locations
  PROVE  at \in [Inspected -> Int] /\ \A l \in Inspected : at[l] \in Coordinate /\ at[l] \in 0 .. 3
<1>1. at \in [Inspected -> Coordinate] /\ Coordinate \subseteq 0 .. 3
  BY PreflightAssumption DEF Locations
<1>2. \A l \in Inspected : at[l] \in Coordinate /\ at[l] \in 0 .. 3
  BY <1>1
<1>3. at \in [Inspected -> Int]
  BY <1>1, <1>2
<1>4. QED
  BY <1>2, <1>3

LEMMA SlopesAreIntegers ==
  ASSUME IsInquiry(examined), NEW at \in Locations
  PROVE  Slopes(at) \in SlopesOf /\ Derivatives(at) \in SlopesOf
<1>1. ASSUME NEW r \in DOMAIN examined.rows, NEW l \in Inspected
      PROVE  Slope(examined.rows[r], l, at) \in Int
  <2>1. at[l] \in Int /\ at[Other(l)] \in Int
    BY PlacesAreNumbers DEF Other, Inspected
  <2>2. examined.rows[r].linear[l] \in Int /\ examined.rows[r].square[l] \in Int /\ examined.rows[r].joint \in Int
    BY RowsAreRows
  <2>3. QED
    BY <2>1, <2>2 DEF Slope
<1>2. Slopes(at) \in SlopesOf
  BY <1>1 DEF Slopes, SlopesOf
<1>3. QED
  BY <1>2 DEF Derivatives, SlopesOf

LEMMA WeightsAreNatural ==
  ASSUME IsInquiry(examined), NEW at \in Locations
  PROVE  \A r \in 1 .. 3 : Weighing(at)[r] \in Nat
<1>1. at["x"] \in 0 .. 3
  BY PlacesAreNumbers DEF Inspected
<1>2. Doubled[at["x"] + 1] \in Nat
  BY <1>1 DEF Doubled
<1>3. GaussianWeight(at) \in Nat
  BY <1>2 DEF GaussianWeight
<1>4. \A logit : BernoulliWeight(logit) \in Nat
  BY DEF BernoulliWeight
<1>5. \A row : RowWeight(row, at) \in Nat
  BY <1>3, <1>4 DEF RowWeight
<1>6. QED
  BY <1>5 DEF Weighing, MaxRows

\* The slope of a row there may be.
SlopeOf(slopes, r, l) == IF r \in DOMAIN examined.rows THEN slopes[r][l] ELSE 0
Product(slopes, r, l, k) == SlopeOf(slopes, r, l) * SlopeOf(slopes, r, k)

LEMMA EntriesOfInformation ==
  ASSUME IsInquiry(examined), NEW at \in Locations, NEW slopes \in SlopesOf, NEW names \in SUBSET Inspected,
         NEW l \in names, NEW k \in names
  PROVE  InformationAt(names, at, slopes)[l][k] =
           SpectrumCurvature(l, k) + (Weighing(at)[1] * Product(slopes, 1, l, k) + Weighing(at)[2] * Product(slopes, 2, l, k)
                                        + Weighing(at)[3] * Product(slopes, 3, l, k))
<1> DEFINE g == [r \in 1 .. MaxRows |-> IF r \in DOMAIN examined.rows THEN Weighing(at)[r] * (slopes[r][l] * slopes[r][k]) ELSE 0]
<1>1. InformationAt(names, at, slopes)[l][k] = SpectrumCurvature(l, k) + OverRows(g)
  BY DEF InformationAt
<1>2. OverRows(g) = g[1] + g[2] + g[3]
  BY DEF OverRows
<1>3. \A r \in 1 .. 3 : g[r] = IF r \in DOMAIN examined.rows THEN Weighing(at)[r] * (slopes[r][l] * slopes[r][k]) ELSE 0
  BY DEF MaxRows
<1>4. \A r \in 1 .. 3 : g[r] = Weighing(at)[r] * Product(slopes, r, l, k)
  <2>1. TAKE r \in 1 .. 3
  <2>2. Weighing(at)[r] \in Nat
    BY WeightsAreNatural
  <2>3. CASE r \in DOMAIN examined.rows
    BY <2>3, <1>3 DEF Product, SlopeOf
  <2>4. CASE r \notin DOMAIN examined.rows
    BY <2>4, <2>2, <1>3 DEF Product, SlopeOf
  <2>5. QED
    BY <2>3, <2>4
<1> HIDE DEF g
<1>5. g[1] = Weighing(at)[1] * Product(slopes, 1, l, k) /\ g[2] = Weighing(at)[2] * Product(slopes, 2, l, k)
        /\ g[3] = Weighing(at)[3] * Product(slopes, 3, l, k)
  BY <1>4
<1>6. QED
  BY <1>1, <1>2, <1>5

\* The curvature of the spectrum, entry by entry.
LEMMA EntriesOfSpectrum ==
  ASSUME NEW l, NEW k
  PROVE  /\ SpectrumCurvature(l, k) = SpectrumSlope(1, l) * SpectrumSlope(1, k) + SpectrumSlope(2, l) * SpectrumSlope(2, k)
                                         + SpectrumSlope(3, l) * SpectrumSlope(3, k)
         /\ \A r : SpectrumSlope(r, l) \in {0, 1} /\ (l # "x" => SpectrumSlope(r, l) = 0)
         /\ SpectrumCurvature(l, k) \in Nat
<1>1. \A r, n : SpectrumSlope(r, n) \in {0, 1} /\ (n # "x" => SpectrumSlope(r, n) = 0)
  BY DEF SpectrumSlope, Loudness
<1>2. SpectrumCurvature(l, k) = SpectrumSlope(1, l) * SpectrumSlope(1, k) + SpectrumSlope(2, l) * SpectrumSlope(2, k)
                                  + SpectrumSlope(3, l) * SpectrumSlope(3, k)
  BY DEF SpectrumCurvature, OverRows, MaxRows
<1>3. \A r : SpectrumSlope(r, l) * SpectrumSlope(r, k) \in Nat
  BY <1>1
<1>4. QED
  BY <1>1, <1>2, <1>3

\* By true derivatives the information is what the rows that were seen inform of.
LEMMA InformationIsTrue ==
  ASSUME IsInquiry(examined), NEW at \in Locations, NEW names \in SUBSET Inspected
  PROVE  InformationAt(names, at, Slopes(at)) = TrueInformation(names, at)
<1>1. ASSUME NEW l \in names, NEW k \in names
      PROVE  InformationAt(names, at, Slopes(at))[l][k] = TrueInformation(names, at)[l][k]
  <2> DEFINE mean(r)  == Weighing(at)[r] * Product(Slopes(at), r, l, k)
             noise(r) == SpectrumSlope(r, l) * SpectrumSlope(r, k)
             told     == [r \in 1 .. MaxRows |-> IF r \in Seen THEN RowInformation(r, l, k, at) ELSE 0]
  <2>1. Slopes(at) \in SlopesOf
    BY SlopesAreIntegers
  <2>2. \A r \in 1 .. 3 : mean(r) \in Int /\ noise(r) \in Int
    <3>1. TAKE r \in 1 .. 3
    <3>2. SlopeOf(Slopes(at), r, l) \in Int /\ SlopeOf(Slopes(at), r, k) \in Int
      BY <2>1 DEF SlopesOf, SlopeOf
    <3>3. Weighing(at)[r] \in Int
      BY WeightsAreNatural
    <3>4. SpectrumSlope(r, l) \in Int /\ SpectrumSlope(r, k) \in Int
      BY EntriesOfSpectrum
    <3>5. QED
      BY <3>2, <3>3, <3>4 DEF Product
  <2>3. \A r \in 1 .. 3 : told[r] = mean(r) + noise(r)
    <3>1. TAKE r \in 1 .. 3
    <3>2. told[r] = IF r \in Seen THEN RowInformation(r, l, k, at) ELSE 0
      BY DEF MaxRows
    <3>3. CASE r \in Seen
      <4>1. r \in DOMAIN examined.rows /\ Weighing(at)[r] = RowWeight(examined.rows[r], at)
        BY <3>3 DEF Seen, Weighing, MaxRows
      <4>2. mean(r) = RowWeight(examined.rows[r], at) * (Slopes(at)[r][l] * Slopes(at)[r][k])
        BY <4>1 DEF Product, SlopeOf
      <4>3. noise(r) = Loudness(l) * Loudness(k)
        BY <3>3 DEF SpectrumSlope
      <4>4. QED
        BY <3>2, <3>3, <4>2, <4>3 DEF RowInformation
    <3>4. CASE r \notin Seen
      <4>1. Weighing(at)[r] = 0 /\ SpectrumSlope(r, l) = 0 /\ SpectrumSlope(r, k) = 0
        BY <3>4 DEF Weighing, MaxRows, SpectrumSlope
      <4>2. Product(Slopes(at), r, l, k) \in Int
        BY <2>1 DEF SlopesOf, SlopeOf, Product
      <4>3. mean(r) = 0 /\ noise(r) = 0
        BY <4>1, <4>2
      <4>4. QED
        BY <3>2, <3>4, <4>3
    <3>5. QED
      BY <3>3, <3>4
  <2>4. InformationAt(names, at, Slopes(at))[l][k] = (noise(1) + noise(2) + noise(3)) + (mean(1) + mean(2) + mean(3))
    BY <2>1, EntriesOfInformation, EntriesOfSpectrum
  <2>5. TrueInformation(names, at)[l][k] = told[1] + told[2] + told[3]
    BY DEF TrueInformation, OverRows
  <2> HIDE DEF mean, noise, told
  <2>6. QED
    BY <2>2, <2>3, <2>4, <2>5
<1>2. /\ InformationAt(names, at, Slopes(at))
           = [l \in names |-> [k \in names |-> InformationAt(names, at, Slopes(at))[l][k]]]
      /\ TrueInformation(names, at) = [l \in names |-> [k \in names |-> TrueInformation(names, at)[l][k]]]
  BY DEF InformationAt, TrueInformation
<1>3. QED
  BY <1>1, <1>2, Zenon

\* Three weighed products, and what may be added to one of their squares.
LEMMA Lagrange ==
  ASSUME NEW c \in Int, NEW u \in Int, NEW v \in Int, NEW w \in Int, NEW a \in Int, NEW b \in Int, NEW p \in Int, NEW q \in Int,
         NEW s \in Int, NEW t \in Int
  PROVE  (c + (u * (a * a) + v * (p * p) + w * (s * s))) * (u * (b * b) + v * (q * q) + w * (t * t))
           - (u * (a * b) + v * (p * q) + w * (s * t)) * (u * (b * a) + v * (q * p) + w * (t * s))
           = c * (u * (b * b) + v * (q * q) + w * (t * t))
               + ((u * v) * ((a * q - p * b) * (a * q - p * b)) + (u * w) * ((a * t - s * b) * (a * t - s * b))
                    + (v * w) * ((p * t - s * q) * (p * t - s * q)))
  OBVIOUS

LEMMA SquaresAreNatural ==
  /\ \A a \in Int : a * a \in Nat
  /\ \A a, b \in Nat : a * b \in Nat /\ a + b \in Nat
<1>1. ASSUME NEW a \in Int PROVE a * a \in Nat
  OBVIOUS
<1>2. ASSUME NEW a \in Nat, NEW b \in Nat PROVE a * b \in Nat /\ a + b \in Nat
  OBVIOUS
<1>3. QED
  BY <1>1, <1>2

\* So an information has no negative determinant.
LEMMA DeterminantsAreNatural ==
  ASSUME IsInquiry(examined), NEW at \in Locations, NEW slopes \in SlopesOf, NEW names \in SUBSET Inspected, names # {}
  PROVE  Determinant(names, InformationAt(names, at, slopes)) \in Nat
<1> DEFINE M == InformationAt(names, at, slopes)
           s(r, l) == SlopeOf(slopes, r, l)
<1>1. PICK u \in Nat, v \in Nat, w \in Nat : u = Weighing(at)[1] /\ v = Weighing(at)[2] /\ w = Weighing(at)[3]
  BY WeightsAreNatural
<1>2. SpectrumCurvature("x", "x") \in Nat /\ SpectrumCurvature("w", "w") = 0 /\ SpectrumCurvature("x", "w") = 0
        /\ SpectrumCurvature("w", "x") = 0
  <2>1. \A r : SpectrumSlope(r, "x") \in {0, 1} /\ SpectrumSlope(r, "w") = 0
    BY EntriesOfSpectrum
  <2>2. \A r : SpectrumSlope(r, "x") * SpectrumSlope(r, "w") = 0 /\ SpectrumSlope(r, "w") * SpectrumSlope(r, "x") = 0
                 /\ SpectrumSlope(r, "w") * SpectrumSlope(r, "w") = 0
    BY <2>1
  <2>3. QED
    BY <2>2, EntriesOfSpectrum
<1>3. \A r \in 1 .. 3 : \A l \in Inspected : s(r, l) \in Int
  BY DEF SlopesOf, SlopeOf
<1>4. PICK c \in Nat : c = SpectrumCurvature("x", "x")
  BY <1>2
<1>5. PICK a \in Int, b \in Int : a = s(1, "x") /\ b = s(1, "w")
  BY <1>3 DEF Inspected
<1>6. PICK p \in Int, q \in Int : p = s(2, "x") /\ q = s(2, "w")
  BY <1>3 DEF Inspected
<1>7. PICK d \in Int, e \in Int : d = s(3, "x") /\ e = s(3, "w")
  BY <1>3 DEF Inspected
<1>8. \A l, k \in names : M[l][k] = SpectrumCurvature(l, k) + (u * (s(1, l) * s(1, k)) + v * (s(2, l) * s(2, k)) + w * (s(3, l) * s(3, k)))
  BY <1>1, EntriesOfInformation DEF Product
<1> HIDE DEF M, s
<1>9. "x" \in names => M["x"]["x"] = c + (u * (a * a) + v * (p * p) + w * (d * d))
  BY <1>4, <1>5, <1>6, <1>7, <1>8
<1>10. "w" \in names => M["w"]["w"] = u * (b * b) + v * (q * q) + w * (e * e)
  BY <1>2, <1>5, <1>6, <1>7, <1>8
<1>11. {"x", "w"} \subseteq names => /\ M["x"]["w"] = u * (a * b) + v * (p * q) + w * (d * e)
                                     /\ M["w"]["x"] = u * (b * a) + v * (q * p) + w * (e * d)
  BY <1>2, <1>5, <1>6, <1>7, <1>8
<1>12. c + (u * (a * a) + v * (p * p) + w * (d * d)) \in Nat
  BY SquaresAreNatural
<1>13. u * (b * b) + v * (q * q) + w * (e * e) \in Nat
  BY SquaresAreNatural
<1>14. /\ (a * q - p * b) * (a * q - p * b) \in Nat /\ (a * e - d * b) * (a * e - d * b) \in Nat
       /\ (p * e - d * q) * (p * e - d * q) \in Nat
  BY SquaresAreNatural
<1>15. c * (u * (b * b) + v * (q * q) + w * (e * e))
               + ((u * v) * ((a * q - p * b) * (a * q - p * b)) + (u * w) * ((a * e - d * b) * (a * e - d * b))
                    + (v * w) * ((p * e - d * q) * (p * e - d * q))) \in Nat
  <2>1. c * (u * (b * b) + v * (q * q) + w * (e * e)) \in Nat
    BY <1>13, SquaresAreNatural
  <2>2. u * v \in Nat /\ u * w \in Nat /\ v * w \in Nat
    BY SquaresAreNatural
  <2>3. (u * v) * ((a * q - p * b) * (a * q - p * b)) \in Nat /\ (u * w) * ((a * e - d * b) * (a * e - d * b)) \in Nat
          /\ (v * w) * ((p * e - d * q) * (p * e - d * q)) \in Nat
    BY <1>14, <2>2, SquaresAreNatural
  <2>4. QED
    BY <2>1, <2>3, SquaresAreNatural
<1>16. CASE names = {"x"}
  BY <1>16, <1>9, <1>12 DEF Determinant, M
<1>17. CASE names = {"w"}
  BY <1>17, <1>10, <1>13 DEF Determinant, M
<1>18. CASE names = {"x", "w"}
  <2>1. Determinant(names, M) = M["x"]["x"] * M["w"]["w"] - M["x"]["w"] * M["w"]["x"]
    BY <1>18 DEF Determinant
  <2>2. Determinant(names, M) =
          (c + (u * (a * a) + v * (p * p) + w * (d * d))) * (u * (b * b) + v * (q * q) + w * (e * e))
           - (u * (a * b) + v * (p * q) + w * (d * e)) * (u * (b * a) + v * (q * p) + w * (e * d))
    BY <2>1, <1>9, <1>10, <1>11, <1>18
  <2>3. QED
    BY <2>2, <1>15, Lagrange DEF M
<1>19. names = {"x"} \/ names = {"w"} \/ names = {"x", "w"}
  <2>1. names \subseteq Inspected
    OBVIOUS
  <2>2. names # {}
    OBVIOUS
  <2>3. names \subseteq {"x", "w"}
    BY <2>1 DEF Inspected
  <2>4. QED
    BY <2>2, <2>3
<1>20. QED
  BY <1>16, <1>17, <1>18, <1>19

\* An information looks at slopes along its own latents only.
LEMMA InformationLooksAtSlopes ==
  ASSUME NEW names, NEW at, NEW to, NEW slopes, NEW others, Weighing(at) = Weighing(to),
         \A r \in DOMAIN examined.rows : \A l \in names : slopes[r][l] = others[r][l]
  PROVE  InformationAt(names, at, slopes) = InformationAt(names, to, others)
<1> DEFINE Sum(p, s, l, k) ==
             OverRows([r \in 1 .. MaxRows |-> IF r \in DOMAIN examined.rows THEN Weighing(p)[r] * (s[r][l] * s[r][k]) ELSE 0])
<1>1. ASSUME NEW l \in names, NEW k \in names PROVE Sum(at, slopes, l, k) = Sum(to, others, l, k)
  <2>1. ASSUME NEW r \in 1 .. MaxRows
        PROVE  (IF r \in DOMAIN examined.rows THEN Weighing(at)[r] * (slopes[r][l] * slopes[r][k]) ELSE 0)
                 = (IF r \in DOMAIN examined.rows THEN Weighing(to)[r] * (others[r][l] * others[r][k]) ELSE 0)
    OBVIOUS
  <2>2. QED
    BY <2>1
<1>2. /\ InformationAt(names, at, slopes) = [l \in names |-> [k \in names |-> SpectrumCurvature(l, k) + Sum(at, slopes, l, k)]]
      /\ InformationAt(names, to, others) = [l \in names |-> [k \in names |-> SpectrumCurvature(l, k) + Sum(to, others, l, k)]]
  BY DEF InformationAt
<1> HIDE DEF Sum
<1>3. QED
  BY <1>1, <1>2

\* What _geometry returns is the determinant, where there is one.
LEMMA GeometryIsDeterminant ==
  ASSUME IsInquiry(examined), NEW at \in Locations, NEW names \in SUBSET Inspected, names # {}, Trusted(names)
  PROVE  /\ Geometry(names, at) = NoDeterminant => TrueDeterminant(names, at) = 0
         /\ Geometry(names, at) # NoDeterminant => Geometry(names, at) = TrueDeterminant(names, at) /\ TrueDeterminant(names, at) > 0
         /\ TrueDeterminant(names, at) \in Nat
<1>1. InformationAt(names, at, Derivatives(at)) = InformationAt(names, at, Slopes(at))
  <2>1. \A r \in DOMAIN examined.rows : \A l \in names : Derivatives(at)[r][l] = Slopes(at)[r][l]
    BY DEF Derivatives, Trusted
  <2>2. QED
    BY <2>1, InformationLooksAtSlopes
<1>2. TrueDeterminant(names, at) \in Nat
  BY SlopesAreIntegers, DeterminantsAreNatural, InformationIsTrue DEF TrueDeterminant
<1>3. Geometry(names, at) = IF TrueDeterminant(names, at) > 0 THEN TrueDeterminant(names, at) ELSE NoDeterminant
  BY <1>1, InformationIsTrue DEF Geometry, TrueDeterminant
<1>4. QED
  BY <1>2, <1>3 DEF NoDeterminant

\* A certified block has one information wherever it moves.
LEMMA CertifiedIsFlat ==
  ASSUME IsInquiry(examined), NEW names \in SUBSET Inspected, names # {}, Certified(names), anchor \in Locations,
         NEW at \in Locations, SameElsewhere(names, at)
  PROVE  TrueInformation(names, at) = TrueInformation(names, anchor)
<1>1. examined.family = "gaussian" /\ AffineIn(names) /\ ("noisy" \in examined.traits => "x" \notin names)
  BY DEF Certified
<1>2. GaussianWeight(at) = GaussianWeight(anchor)
  BY <1>1 DEF GaussianWeight, SameElsewhere, Inspected
<1>3. Weighing(at) = Weighing(anchor)
  BY <1>1, <1>2 DEF Weighing, RowWeight
<1>4. ASSUME NEW r \in DOMAIN examined.rows, NEW l \in names
      PROVE  Slopes(at)[r][l] = Slopes(anchor)[r][l]
  <2>1. examined.rows[r].square[l] = 0 /\ (examined.rows[r].joint # 0 => names # Inspected)
    BY <1>1 DEF AffineIn
  <2>2. at[l] \in Int /\ anchor[l] \in Int /\ at[Other(l)] \in Int /\ anchor[Other(l)] \in Int
    BY PlacesAreNumbers DEF Other, Inspected
  <2>3. names # Inspected => at[Other(l)] = anchor[Other(l)]
    <3>1. SUFFICES ASSUME names # Inspected PROVE at[Other(l)] = anchor[Other(l)]
      OBVIOUS
    <3>2. l \in names /\ names \subseteq {"x", "w"} /\ names # {"x", "w"}
      BY <3>1 DEF Inspected
    <3>3. Other(l) \in {"x", "w"} \ names
      BY <3>2 DEF Other
    <3>4. QED
      BY <3>3 DEF SameElsewhere, Inspected
  <2>4. examined.rows[r].joint * at[Other(l)] = examined.rows[r].joint * anchor[Other(l)]
    BY <2>1, <2>2, <2>3
  <2>5. examined.rows[r].linear[l] \in Int
    BY RowsAreRows
  <2>6. Slope(examined.rows[r], l, at) = Slope(examined.rows[r], l, anchor)
    BY <2>1, <2>2, <2>4, <2>5 DEF Slope
  <2>7. QED
    BY <2>6 DEF Slopes
<1>5. QED
  BY <1>3, <1>4, InformationLooksAtSlopes, InformationIsTrue

-----------------------------------------------------------------------------
LEMMA BlocksAreBlocks ==
  ASSUME IsInquiry(examined), NEW i \in BlockNumbers
  PROVE  examined.blocks[i] \subseteq Inspected /\ examined.blocks[i] # {} /\ i \in Nat \ {0}
<1>1. examined.blocks \in Seq(SUBSET Inspected) /\ \A k \in DOMAIN examined.blocks : examined.blocks[k] # {}
  BY DEF IsInquiry
<1>2. examined.blocks[i] \in SUBSET Inspected /\ i \in Nat \ {0}
  BY <1>1 DEF BlockNumbers
<1>3. QED
  BY <1>1, <1>2 DEF BlockNumbers

LEMMA LargerIsEither ==
  ASSUME NEW a \in Nat, NEW b \in Nat
  PROVE  Max({a, b}) \in {a, b}
<1>1. \E x \in {a, b} : \A y \in {a, b} : x >= y
  <2>1. CASE a >= b
    BY <2>1
  <2>2. CASE b >= a
    BY <2>2
  <2>3. QED
    BY <2>1, <2>2
<1>2. QED
  BY <1>1 DEF Max

\* A matrix that is formed is one of a look that was allowed.
LEMMA FormedIsAllowed ==
  ASSUME IsInquiry(examined), NEW names, Allowed(names), formed \in Nat, formed <= examined.policy.elements, Form(names)
  PROVE  formed' \in Nat /\ formed' <= examined.policy.elements
<1>1. Len(examined.rows) \in Nat /\ Breadth(names) \in Nat
  BY RowsAreRows DEF Breadth
<1>2. Elements(names) \in Nat
  <2>1. PICK a \in Nat, b \in Nat : a = Breadth(names) * Len(examined.rows) /\ b = Breadth(names) * Breadth(names)
    BY <1>1, SquaresAreNatural
  <2>2. QED
    BY <2>1, LargerIsEither DEF Elements
<1>3. formed' \in {formed, Elements(names)}
  BY <1>2, LargerIsEither DEF Form
<1>4. QED
  BY <1>2, <1>3 DEF Allowed

LEMMA NoDrawIsWell ==
  ASSUME draw' = NoDraw, looking'.question # "probe"
  PROVE  DrawIsWell'
<1>1. (draw \in PointDraws)'
  BY DEF NoDraw, PointDraws
<1>2. draw'.points = <<>> /\ draw'.attempts = <<>> /\ draw'.state = "idle" /\ draw'.chains = 0
  BY DEF NoDraw
<1>3. QED
  BY <1>1, <1>2 DEF DrawIsWell, NoDraw

LEMMA RestingDraw ==
  ASSUME LookInv, looking.question \notin {"anchor", "probe"}
  PROVE  draw = NoDraw
  BY DEF LookInv, DrawIsWell

LEMMA BegunDrawIsWell ==
  ASSUME NEW purpose \in Nat, NEW chains \in Nat \ {0}, draw' = StartDraw(purpose, chains),
         looking'.question \in {"anchor", "probe"}, looking'.block = purpose
  PROVE  DrawIsWell'
<1>1. /\ draw'.purpose = purpose /\ draw'.chains = chains /\ draw'.attempt = 1 /\ draw'.points = <<>> /\ draw'.attempts = <<>>
      /\ draw'.state \in {"drawing", "failed"}
      /\ (draw \in PointDraws)'
  BY DEF StartDraw, PointDraws
<1>2. 1 \in 1 .. MaxAttempts
  BY PreflightAssumption
<1>3. QED
  BY <1>1, <1>2 DEF DrawIsWell

-----------------------------------------------------------------------------
LEMMA LookStarts ==
  ASSUME PreflightInit
  PROVE  LookInv
<1>1. IsInquiry(examined)
  BY InquiriesAssumption DEF PreflightInit
<1>2. looking = LooksAt("nothing", 0) /\ draw = NoDraw /\ reported = <<>> /\ formed = 0 /\ anchor = NoPlace
  BY DEF PreflightInit, Unexamined
<1>3. looking.question = "nothing" /\ looking.block = 0 /\ looking \in Looks
  BY <1>2 DEF LooksAt, Looks
<1>4. LookIsWell
  BY <1>1, <1>2, <1>3 DEF LookIsWell, IsInquiry
<1>5. DrawIsWell
  <2>1. draw \in PointDraws
    BY <1>2 DEF NoDraw, PointDraws
  <2>2. draw.points = <<>> /\ draw.attempts = <<>> /\ draw.state = "idle" /\ draw.chains = 0
    BY <1>2 DEF NoDraw
  <2>3. QED
    BY <2>1, <2>2, <1>2, <1>3 DEF DrawIsWell
<1>6. ReportIsWell
  <2>1. DOMAIN reported = {} /\ reported \in Seq(Findings)
    BY <1>2
  <2>2. PlaceOfLook(looking) = 0
    BY <1>3 DEF PlaceOfLook
  <2>3. \A i \in BlockNumbers : ~(3 + 2 * i < 0)
    BY <1>1, BlocksAreBlocks
  <2>4. QED
    BY <1>2, <2>1, <2>2, <2>3 DEF ReportIsWell
<1>7. QED
  BY <1>4, <1>5, <1>6 DEF LookInv

LEMMA FindingWritten ==
  ASSUME NEW about \in Abouts, NEW block \in Nat, NEW status \in Statuses
  PROVE  \E f \in Findings : f = Says(about, block, status) /\ f.about = about /\ f.block = block /\ f.status = status
<1>1. Says(about, block, status) \in Findings
  BY DEF Says, Findings
<1>2. PICK f \in Findings : f = Says(about, block, status)
  BY <1>1
<1>3. f.about = about /\ f.block = block /\ f.status = status
  BY <1>2 DEF Says
<1>4. QED
  BY <1>2, <1>3

LEMMA Words ==
  /\ 0 \in Nat
  /\ "automatic" \in Abouts /\ "prior_policy" \in Abouts /\ "treatment" \in Abouts /\ "initial_point" \in Abouts
  /\ "budget" \in Abouts /\ "joint" \in Abouts /\ "jeffreys" \in Abouts /\ "shift" \in Abouts /\ "order" \in Abouts
  /\ "disabled" \in Statuses /\ "passed" \in Statuses /\ "failed" \in Statuses /\ "unresolved" \in Statuses
  /\ "skipped_budget" \in Statuses /\ "not_applicable" \in Statuses /\ "rank_deficient" \in Statuses
  /\ "flat" \in Statuses /\ "nonflat" \in Statuses /\ "fixed_compiler_order" \in Statuses
  /\ "marginal_nuts_then_conditional_reconstruction" \in Statuses
  BY DEF Abouts, Statuses

LEMMA BeginKeeps ==
  ASSUME LookInv, Begin
  PROVE  LookInv'
<1>1. looking.question = "nothing" /\ UNCHANGED <<examined, anchor, formed>> /\ draw = NoDraw /\ reported = <<>>
  BY RestingDraw DEF Begin, LooksAt, LookInv, ReportIsWell
<1>2. IsInquiry(examined) /\ Len(examined.blocks) \in Nat /\ Len(examined.blocks) > 0
  BY Numbered DEF LookInv, LookIsWell
<1>3. PlaceOfLook(looking) = 0
  BY <1>1 DEF PlaceOfLook
<1>4. CASE "disabled" \in examined.traits
  <2>1. looking' = LooksAt("done", 0) /\ UNCHANGED draw /\ reported' = <<Says("automatic", 0, "disabled")>>
    BY <1>4 DEF Begin
  <2>2. looking'.question = "done" /\ looking'.block = 0 /\ looking' \in Looks
    BY <2>1 DEF LooksAt, Looks
  <2>3. LookIsWell'
    BY <1>1, <1>2, <2>2 DEF LookIsWell, LookInv, IsInquiry
  <2>4. DrawIsWell'
    BY <1>1, <2>1, <2>2, NoDrawIsWell
  <2>5. ReportIsWell'
    <3> DEFINE t == <<Says("automatic", 0, "disabled")>>
    <3>0. PICK p \in Findings : p = Says("automatic", 0, "disabled") /\ p.about = "automatic"
      <4>1. "automatic" \in Abouts /\ "disabled" \in Statuses /\ 0 \in Nat
        BY Words
      <4>2. QED
        BY <4>1, FindingWritten
    <3>1. t \in Seq(Findings) /\ reported' = reported \o t /\ DOMAIN t = {1} /\ t[1] = p
      BY <1>1, <2>1, <3>0
    <3>2. Place(p) = 0 /\ FindingIsSo(p)'
      BY <3>0 DEF Place, FindingIsSo
    <3>3. PlaceOfLook(looking') = 6 + 2 * Len(examined.blocks)
      BY <2>2 DEF PlaceOfLook
    <3> HIDE DEF t
    <3>4. QED
      BY <3>1, <3>2, <3>3, <1>1, <1>2, <1>3, <1>4, <2>2, Told
  <2>6. QED
    BY <2>3, <2>4, <2>5 DEF LookInv
<1>5. CASE "disabled" \notin examined.traits
  <2> DEFINE t == <<Says("prior_policy", 0, "passed")>>
                    \o (IF "hierarchical" \in examined.traits THEN <<Says("treatment", 0, TreatmentMode)>> ELSE <<>>)
  <2>1. looking' = LooksAt("anchor", 0) /\ draw' = StartDraw(0, Len(examined.supplied)) /\ reported' = t
    BY <1>5 DEF Begin
  <2>2. looking'.question = "anchor" /\ looking'.block = 0 /\ looking' \in Looks
    BY <2>1 DEF LooksAt, Looks
  <2>3. LookIsWell'
    BY <1>1, <1>2, <2>2 DEF LookIsWell, LookInv, IsInquiry
  <2>4. DrawIsWell'
    BY <2>1, <2>2, <1>2, BegunDrawIsWell DEF IsInquiry
  <2>5. ReportIsWell'
    <3>1. TreatmentMode \in Statuses
      BY DEF TreatmentMode, Statuses
    <3>2. PICK p \in Findings : p = Says("prior_policy", 0, "passed") /\ p.about = "prior_policy"
      <4>1. "prior_policy" \in Abouts /\ "passed" \in Statuses /\ 0 \in Nat
        BY Words
      <4>2. QED
        BY <4>1, FindingWritten
    <3>3. PICK q \in Findings : q = Says("treatment", 0, TreatmentMode) /\ q.about = "treatment"
      <4>1. "treatment" \in Abouts /\ 0 \in Nat
        BY Words
      <4>2. QED
        BY <3>1, <4>1, FindingWritten
    <3>4. t \in Seq(Findings) /\ \A n \in DOMAIN t : (n = 1 /\ t[n] = p) \/ (n = 2 /\ t[n] = q)
      <4>1. CASE "hierarchical" \in examined.traits
        <5>1. t = <<p>> \o <<q>>
          BY <3>2, <3>3, <4>1
        <5>2. QED
          BY <5>1
      <4>2. CASE "hierarchical" \notin examined.traits
        BY <3>2, <4>2
      <4>3. QED
        BY <4>1, <4>2
    <3>5. Place(p) = 0 /\ Place(q) = 1 /\ FindingIsSo(p)' /\ FindingIsSo(q)'
      BY <3>2, <3>3 DEF Place, FindingIsSo
    <3>6. PlaceOfLook(looking') = 2
      BY <2>2 DEF PlaceOfLook
    <3>7. \A i \in BlockNumbers : ~(3 + 2 * i < 2)
      BY <1>2, BlocksAreBlocks
    <3> HIDE DEF t
    <3>8. reported' = reported \o t
      BY <3>4, <2>1, <1>1
    <3>9. QED
      BY <3>4, <3>5, <3>6, <3>7, <3>8, <1>1, <1>3, <2>2, Told
  <2>6. QED
    BY <2>3, <2>4, <2>5 DEF LookInv
<1>6. QED
  BY <1>4, <1>5

-----------------------------------------------------------------------------
\* While a point is drawn nothing else moves.
LEMMA LookStays ==
  ASSUME LookInv, UNCHANGED <<examined, looking, anchor, reported, formed>>
  PROVE  LookIsWell' /\ ReportIsWell'
<1>1. LookIsWell'
  BY PlaceSettles, GeometrySettles DEF LookInv, LookIsWell
<1>2. PlaceOfLook(looking)' = PlaceOfLook(looking)
  BY DEF PlaceOfLook
<1>3. \A n \in DOMAIN reported : \A f : f = reported[n] => FindingIsSo(f)' = FindingIsSo(f)
  BY FindingSettles
<1>4. \A n \in DOMAIN reported : FindingIsSo(reported[n])'
  <2>1. TAKE n \in DOMAIN reported
  <2>2. PICK f : f = reported[n]
    OBVIOUS
  <2>3. FindingIsSo(f)'
    BY <1>3, <2>2 DEF LookInv, ReportIsWell
  <2>4. QED
    BY <2>2, <2>3
<1>5. QED
  BY <1>1, <1>2, <1>4, PlaceSettles DEF LookInv, ReportIsWell

LEMMA AttemptKeeps ==
  ASSUME LookInv, Attempt
  PROVE  LookInv'
<1> DEFINE chain == Len(draw.points) + 1
<1>1. draw.state = "drawing" /\ UNCHANGED <<examined, looking, anchor, reported, formed>>
  BY DEF Attempt
<1>2. LookIsWell' /\ ReportIsWell'
  BY <1>1, LookStays
<1>3. /\ \A p, c : Supplied(p, c)' = Supplied(p, c)
      /\ \A at : InSupport(at)' = InSupport(at) /\ Finite(at)' = Finite(at)
  BY <1>1, PlaceSettles DEF Supplied
<1>4. /\ draw \in PointDraws /\ Len(draw.attempts) = Len(draw.points) /\ Len(draw.points) < draw.chains
      /\ draw.attempt \in 1 .. MaxAttempts /\ draw.purpose = looking.block /\ looking.question \in {"anchor", "probe"}
      /\ \A c \in DOMAIN draw.points :
           /\ InSupport(draw.points[c]) /\ Finite(draw.points[c])
           /\ \A l \in DOMAIN Supplied(draw.purpose, c) : draw.points[c][l] = Supplied(draw.purpose, c)[l]
  BY <1>1 DEF LookInv, DrawIsWell
<1>5. /\ draw.points \in Seq(Locations) /\ draw.attempts \in Seq(1 .. MaxAttempts) /\ Len(draw.points) \in Nat
      /\ draw.chains \in Nat /\ draw.attempt \in Nat /\ draw.purpose \in Nat
  BY <1>4 DEF PointDraws
<1>6. ASSUME NEW at \in Candidates(Supplied(draw.purpose, chain)), InSupport(at), Finite(at),
             draw' = [draw EXCEPT !.points = Append(@, at), !.attempts = Append(@, draw.attempt), !.attempt = 1,
                                  !.state = IF chain = draw.chains THEN "found" ELSE "drawing"]
      PROVE  DrawIsWell'
  <2>1. at \in Locations /\ \A l \in DOMAIN Supplied(draw.purpose, chain) : at[l] = Supplied(draw.purpose, chain)[l]
    BY DEF Candidates
  <2>2. /\ draw'.points = Append(draw.points, at) /\ draw'.attempts = Append(draw.attempts, draw.attempt) /\ draw'.attempt = 1
        /\ draw'.state = (IF chain = draw.chains THEN "found" ELSE "drawing")
        /\ draw'.chains = draw.chains /\ draw'.purpose = draw.purpose
    BY <1>6, <1>4 DEF PointDraws
  <2>3. /\ draw'.points \in Seq(Locations) /\ draw'.attempts \in Seq(1 .. MaxAttempts)
        /\ Len(draw'.points) = Len(draw.points) + 1 /\ Len(draw'.attempts) = Len(draw.points) + 1
    BY <1>4, <1>5, <2>1, <2>2
  <2>4. draw' \in PointDraws
    BY <1>4, <1>5, <1>6, <2>1, <2>2, <2>3 DEF PointDraws
  <2>5. ASSUME NEW c \in DOMAIN draw'.points
        PROVE  /\ InSupport(draw'.points[c]) /\ Finite(draw'.points[c])
               /\ \A l \in DOMAIN Supplied(draw.purpose, c) : draw'.points[c][l] = Supplied(draw.purpose, c)[l]
    <3>1. CASE c \in DOMAIN draw.points
      <4>1. draw'.points[c] = draw.points[c]
        BY <1>5, <2>2, <3>1
      <4>2. QED
        BY <4>1, <3>1, <1>4
    <3>2. CASE c = chain
      <4>1. draw'.points[c] = at
        BY <1>5, <2>2, <3>2
      <4>2. QED
        BY <4>1, <3>2, <2>1, <1>6
    <3>3. c \in DOMAIN draw.points \/ c = chain
      BY <1>5, <2>3
    <3>4. QED
      BY <3>1, <3>2, <3>3
  <2>6. (\A c \in DOMAIN draw.points :
           /\ InSupport(draw.points[c]) /\ Finite(draw.points[c])
           /\ \A l \in DOMAIN Supplied(draw.purpose, c) : draw.points[c][l] = Supplied(draw.purpose, c)[l])'
    BY <2>5, <2>2, <1>3
  <2>7. 1 \in 1 .. MaxAttempts
    BY PreflightAssumption
  <2>8. draw'.state = "drawing" => Len(draw'.points) < draw'.chains
    BY <2>2, <2>3, <1>4, <1>5
  <2>9. draw'.state = "found" => Len(draw'.points) = draw'.chains /\ draw'.chains > 0
    BY <2>2, <2>3, <1>4, <1>5
  <2>10. draw'.state # "idle" /\ Len(draw'.points) <= draw'.chains
    BY <2>2, <2>3, <1>4, <1>5
  <2>11. QED
    BY <2>2, <2>3, <2>4, <2>6, <2>7, <2>8, <2>9, <2>10, <1>1, <1>4 DEF DrawIsWell
<1>7. ASSUME draw' = [draw EXCEPT !.attempt = @ + 1, !.state = IF draw.attempt = MaxAttempts THEN "failed" ELSE "drawing"]
      PROVE  DrawIsWell'
  <2>1. /\ draw'.points = draw.points /\ draw'.attempts = draw.attempts /\ draw'.attempt = draw.attempt + 1
        /\ draw'.state = (IF draw.attempt = MaxAttempts THEN "failed" ELSE "drawing")
        /\ draw'.chains = draw.chains /\ draw'.purpose = draw.purpose
    BY <1>7, <1>4 DEF PointDraws
  <2>2. draw' \in PointDraws
    <3>1. draw.attempt + 1 \in Nat
      BY <1>5
    <3>2. (IF draw.attempt = MaxAttempts THEN "failed" ELSE "drawing") \in {"idle", "drawing", "found", "failed"}
      OBVIOUS
    <3>3. QED
      BY <1>4, <1>7, <3>1, <3>2 DEF PointDraws
  <2>3. draw'.state = "drawing" => draw'.attempt \in 1 .. MaxAttempts
    BY <2>1, <1>4, PreflightAssumption
  <2>4. (\A c \in DOMAIN draw.points :
           /\ InSupport(draw.points[c]) /\ Finite(draw.points[c])
           /\ \A l \in DOMAIN Supplied(draw.purpose, c) : draw.points[c][l] = Supplied(draw.purpose, c)[l])'
    BY <2>1, <1>3, <1>4
  <2>5. draw'.state \notin {"idle", "found"} /\ Len(draw'.points) <= draw'.chains
    BY <2>1, <1>4, <1>5
  <2>6. QED
    BY <2>1, <2>2, <2>3, <2>4, <2>5, <1>1, <1>4 DEF DrawIsWell
<1>8. QED
  BY <1>1, <1>2, <1>6, <1>7 DEF Attempt, LookInv

-----------------------------------------------------------------------------
\* A finding by itself at the end of the report.
LEMMA OneMoreFinding ==
  ASSUME LookInv, UNCHANGED <<examined, anchor>>, NEW f \in Findings, reported' = Append(reported, f),
         looking' \in Looks, looking'.question # "nothing", FindingIsSo(f),
         PlaceOfLook(looking) <= Place(f), Place(f) < PlaceOfLook(looking'),
         \A i \in BlockNumbers : PlaceOfLook(looking) <= 3 + 2 * i /\ 3 + 2 * i < PlaceOfLook(looking') =>
           f.about = "jeffreys" /\ f.block = i
  PROVE  ReportIsWell'
<1>1. PICK t \in Seq(Findings) : t = <<f>> /\ DOMAIN t = {1} /\ t[1] = f
  <2>1. <<f>> \in Seq(Findings) /\ DOMAIN <<f>> = {1} /\ <<f>>[1] = f
    OBVIOUS
  <2>2. QED
    BY <2>1
<1>2. reported' = reported \o t
  BY <1>1 DEF LookInv, ReportIsWell
<1>3. FindingIsSo(f)'
  BY FindingSettles
<1>4. PlaceOfLook(looking) <= PlaceOfLook(looking')
  BY PlaceIsNat, LookHasAPlace DEF LookInv, LookIsWell
<1>5. UNCHANGED examined /\ UNCHANGED anchor
  OBVIOUS
<1>6. \A n \in DOMAIN t :
        FindingIsSo(t[n])' /\ PlaceOfLook(looking) <= Place(t[n]) /\ Place(t[n]) < PlaceOfLook(looking')
  BY <1>1, <1>3
<1>7. \A n, k \in DOMAIN t : n < k => Place(t[n]) < Place(t[k])
  BY <1>1
<1>8. \A i \in BlockNumbers :
        PlaceOfLook(looking) <= 3 + 2 * i /\ 3 + 2 * i < PlaceOfLook(looking') =>
          \E n \in DOMAIN t : t[n].about = "jeffreys" /\ t[n].block = i
  BY <1>1
<1>9. QED
  BY <1>2, <1>4, <1>5, <1>6, <1>7, <1>8, Told

LEMMA NoFinding ==
  ASSUME LookInv, UNCHANGED <<examined, anchor, reported>>, looking' \in Looks, looking'.question # "nothing",
         PlaceOfLook(looking) = PlaceOfLook(looking')
  PROVE  ReportIsWell'
<1>1. PICK t \in Seq(Findings) : t = <<>> /\ DOMAIN t = {}
  <2>1. <<>> \in Seq(Findings) /\ DOMAIN <<>> = {}
    OBVIOUS
  <2>2. QED
    BY <2>1
<1>2. reported' = reported \o t
  BY <1>1 DEF LookInv, ReportIsWell
<1>3. PlaceOfLook(looking) \in Nat
  BY LookHasAPlace DEF LookInv, LookIsWell
<1>4. UNCHANGED examined /\ UNCHANGED anchor
  OBVIOUS
<1>5. PlaceOfLook(looking) <= PlaceOfLook(looking')
  BY <1>3
<1>6. \A i \in BlockNumbers : ~(PlaceOfLook(looking) <= 3 + 2 * i /\ 3 + 2 * i < PlaceOfLook(looking'))
  <2>1. \A i \in BlockNumbers : i \in Nat
    BY BlocksAreBlocks DEF LookInv, LookIsWell
  <2>2. QED
    BY <1>3, <2>1
<1>7. QED
  BY <1>1, <1>2, <1>4, <1>5, <1>6, Told

LEMMA NoPlaceIsNoLocation == NoPlace \notin Locations
<1>1. DOMAIN NoPlace = {} /\ \A at \in Locations : DOMAIN at = {"x", "w"}
  BY DEF NoPlace, Locations, Inspected
<1>2. QED
  BY <1>1

LEMMA NoAnchorKeeps ==
  ASSUME LookInv, NoAnchor
  PROVE  LookInv'
<1>1. /\ looking.question = "anchor" /\ looking' = LooksAt("done", 0) /\ draw' = NoDraw /\ UNCHANGED <<examined, anchor, formed>>
      /\ IsInquiry(examined) /\ anchor = NoPlace
  BY DEF NoAnchor, LooksAt, LookInv, LookIsWell
<1>2. looking'.question = "done" /\ looking'.block = 0 /\ looking' \in Looks
  BY <1>1 DEF LooksAt, Looks
<1>3. Len(examined.blocks) \in Nat /\ BlockNumbers = 1 .. Len(examined.blocks) /\ Len(examined.blocks) > 0
  BY <1>1, Numbered
<1>4. LookIsWell'
  BY <1>1, <1>2 DEF LookIsWell, LookInv, IsInquiry
<1>5. DrawIsWell'
  BY <1>1, <1>2, NoDrawIsWell
<1>6. ReportIsWell'
  <2>1. PICK p \in Findings : p = Says("initial_point", 0, "unresolved") /\ p.about = "initial_point"
    <3>1. "initial_point" \in Abouts /\ "unresolved" \in Statuses /\ 0 \in Nat
      BY Words
    <3>2. QED
      BY <3>1, FindingWritten
  <2>2. PICK q \in Findings : q = Says("joint", 0, "unresolved") /\ q.about = "joint" /\ q.status = "unresolved"
    <3>1. "joint" \in Abouts /\ "unresolved" \in Statuses /\ 0 \in Nat
      BY Words
    <3>2. QED
      BY <3>1, FindingWritten
  <2> DEFINE j == [i \in BlockNumbers |-> Says("jeffreys", i, "unresolved")]
  <2>3. \A i \in BlockNumbers : j[i] \in Findings /\ j[i].about = "jeffreys" /\ j[i].block = i /\ j[i].status = "unresolved"
    <3>1. TAKE i \in BlockNumbers
    <3>2. "jeffreys" \in Abouts /\ "unresolved" \in Statuses /\ i \in Nat
      BY Words, <1>3
    <3>3. PICK f \in Findings : f = Says("jeffreys", i, "unresolved") /\ f.about = "jeffreys" /\ f.block = i /\ f.status = "unresolved"
      BY <3>2, FindingWritten
    <3>4. j[i] = f
      BY <3>3
    <3>5. QED
      BY <3>3, <3>4
  <2>4. j \in Seq(Findings) /\ Len(j) = Len(examined.blocks)
    <3>1. j \in [1 .. Len(examined.blocks) -> Findings]
      BY <2>3, <1>3
    <3>2. QED
      BY <3>1, <1>3
  <2>5. reported' = reported \o (<<p, q>> \o j)
    BY <2>1, <2>2 DEF NoAnchor
  <2> HIDE DEF j
  <2>6. PICK t \in Seq(Findings) :
           /\ reported' = reported \o t /\ DOMAIN t = 1 .. Len(examined.blocks) + 2 /\ t[1] = p /\ t[2] = q
           /\ \A n \in 3 .. Len(examined.blocks) + 2 : t[n] = j[n - 2]
    <3>1. PICK t : t = <<p, q>> \o j
      OBVIOUS
    <3>2. t \in Seq(Findings) /\ DOMAIN t = 1 .. Len(examined.blocks) + 2 /\ t[1] = p /\ t[2] = q
            /\ \A n \in 3 .. Len(examined.blocks) + 2 : t[n] = j[n - 2]
      BY <3>1, <2>4, <1>3
    <3>3. QED
      BY <3>1, <3>2, <2>5
  <2>7. Place(p) = 2 /\ Place(q) = 4 /\ FindingIsSo(p)' /\ FindingIsSo(q)'
    BY <1>1, <2>1, <2>2, NoPlaceIsNoLocation DEF Place, FindingIsSo, GeometryIsSo
  <2>8. PlaceOfLook(looking) = 2 /\ PlaceOfLook(looking') = 6 + 2 * Len(examined.blocks)
    BY <1>1, <1>2 DEF PlaceOfLook
  <2>9. ASSUME NEW n \in 3 .. Len(examined.blocks) + 2
        PROVE  Place(t[n]) = 2 * n - 1 /\ FindingIsSo(t[n])' /\ t[n].about = "jeffreys" /\ t[n].block = n - 2
    <3>1. n - 2 \in BlockNumbers /\ n \in Nat /\ n - 2 \in Nat
      BY <1>3
    <3>2. PICK f \in Findings : f = t[n] /\ f.about = "jeffreys" /\ f.block = n - 2 /\ f.status = "unresolved"
      BY <3>1, <2>3, <2>6
    <3>3. Place(f) = 3 + 2 * (n - 2)
      BY <3>2 DEF Place
    <3>4. FindingIsSo(f)'
      BY <1>1, <3>2, NoPlaceIsNoLocation DEF FindingIsSo, GeometryIsSo
    <3>5. QED
      BY <3>1, <3>2, <3>3, <3>4
  <2>10. \A n \in DOMAIN t : n = 1 \/ n = 2 \/ n \in 3 .. Len(examined.blocks) + 2
    BY <2>6, <1>3
  <2>11. \A n \in DOMAIN t : /\ FindingIsSo(t[n])'
                             /\ 2 <= Place(t[n]) /\ Place(t[n]) < 6 + 2 * Len(examined.blocks)
    BY <2>6, <2>7, <2>9, <2>10, <1>3
  <2>12. \A n, k \in DOMAIN t : n < k => Place(t[n]) < Place(t[k])
    BY <2>6, <2>7, <2>9, <2>10, <1>3, SMTT(30)
  <2>13. \A i \in BlockNumbers : \E n \in DOMAIN t : t[n].about = "jeffreys" /\ t[n].block = i
    <3>1. TAKE i \in BlockNumbers
    <3>2. i + 2 \in 3 .. Len(examined.blocks) + 2 /\ i + 2 \in DOMAIN t
      BY <1>3, <2>6
    <3>3. t[i + 2].about = "jeffreys" /\ t[i + 2].block = i
      BY <1>3, <2>9, <3>2
    <3>4. QED
      BY <3>2, <3>3
  <2>14. 2 <= 6 + 2 * Len(examined.blocks)
    BY <1>3
  <2>15. QED
    BY <2>6, <2>8, <2>11, <2>12, <2>13, <2>14, <1>1, <1>2, Told
<1>7. QED
  BY <1>4, <1>5, <1>6 DEF LookInv

LEMMA AnchorKeeps ==
  ASSUME LookInv, Anchor
  PROVE  LookInv'
<1>1. /\ looking.question = "anchor" /\ looking' = LooksAt("joint", 0) /\ draw' = NoDraw /\ UNCHANGED <<examined, formed>>
      /\ IsInquiry(examined) /\ anchor' = draw.points[1] /\ draw.state = "found"
  BY DEF Anchor, LooksAt, LookInv, LookIsWell
<1>2. looking'.question = "joint" /\ looking'.block = 0 /\ looking' \in Looks
  BY <1>1 DEF LooksAt, Looks
<1>3. Len(examined.blocks) \in Nat /\ BlockNumbers = 1 .. Len(examined.blocks)
  BY <1>1, Numbered
<1>4. anchor' \in Locations
  <2>1. draw.points \in Seq(Locations) /\ Len(draw.points) > 0
    BY <1>1 DEF LookInv, DrawIsWell, PointDraws
  <2>2. QED
    BY <2>1, <1>1
<1>5. LookIsWell'
  BY <1>1, <1>2, <1>4 DEF LookIsWell, LookInv, IsInquiry
<1>6. DrawIsWell'
  BY <1>1, <1>2, NoDrawIsWell
<1>7. ReportIsWell'
  <2>1. PICK p \in Findings : p = Says("initial_point", 0, "passed") /\ p.about = "initial_point"
    <3>1. "initial_point" \in Abouts /\ "passed" \in Statuses /\ 0 \in Nat
      BY Words
    <3>2. QED
      BY <3>1, FindingWritten
  <2>2. PICK q \in Findings : q = Says("budget", 0, "passed") /\ q.about = "budget"
    <3>1. "budget" \in Abouts /\ "passed" \in Statuses /\ 0 \in Nat
      BY Words
    <3>2. QED
      BY <3>1, FindingWritten
  <2>3. PICK t \in Seq(Findings) : t = <<p, q>> /\ DOMAIN t = {1, 2} /\ t[1] = p /\ t[2] = q
    <3>1. <<p, q>> \in Seq(Findings) /\ DOMAIN <<p, q>> = {1, 2} /\ <<p, q>>[1] = p /\ <<p, q>>[2] = q
      OBVIOUS
    <3>2. QED
      BY <3>1
  <2>4. reported' = reported \o t
    BY <2>1, <2>2, <2>3 DEF Anchor
  <2>5. Place(p) = 2 /\ Place(q) = 3 /\ FindingIsSo(p)' /\ FindingIsSo(q)'
    BY <2>1, <2>2 DEF Place, FindingIsSo
  <2>6. PlaceOfLook(looking) = 2 /\ PlaceOfLook(looking') = 4
    BY <1>1, <1>2 DEF PlaceOfLook
  <2>7. \A i \in BlockNumbers : ~(3 + 2 * i < 4)
    BY <1>3
  <2>8. \A n \in DOMAIN t :
          FindingIsSo(t[n])' /\ PlaceOfLook(looking) <= Place(t[n]) /\ Place(t[n]) < PlaceOfLook(looking')
    BY <2>3, <2>5, <2>6
  <2>9. \A n, k \in DOMAIN t : n < k => Place(t[n]) < Place(t[k])
    BY <2>3, <2>5
  <2>10. PlaceOfLook(looking) <= PlaceOfLook(looking')
    BY <2>6
  <2>11. \A i \in BlockNumbers : ~(PlaceOfLook(looking) <= 3 + 2 * i /\ 3 + 2 * i < PlaceOfLook(looking'))
    BY <2>6, <2>7
  <2>12. QED
    BY <2>4, <2>8, <2>9, <2>10, <2>11, <1>1, <1>2, Told
<1>8. QED
  BY <1>5, <1>6, <1>7 DEF LookInv

-----------------------------------------------------------------------------
\* Where the look goes on to another question about the same point.
LEMMA LookGoesOn ==
  ASSUME LookInv, UNCHANGED <<examined, anchor>>, anchor \in Locations, formed' \in Nat, formed' <= examined.policy.elements,
         NEW asked \in {"jeffreys", "shift", "order", "done"}, NEW i \in Nat, looking' = LooksAt(asked, i),
         asked \in {"jeffreys", "shift"} => i \in BlockNumbers,
         asked \in {"order", "done"} => i = 0
  PROVE  LookIsWell' /\ looking' \in Looks /\ looking'.question = asked /\ looking'.block = i
<1>1. looking'.question = asked /\ looking'.block = i /\ looking' \in Looks
  BY DEF LooksAt, Looks
<1>2. IsInquiry(examined)' /\ BlockNumbers' = BlockNumbers /\ examined' = examined /\ anchor' = anchor
  BY PlaceSettles DEF LookInv, LookIsWell
<1>3. QED
  BY <1>1, <1>2 DEF LookIsWell

\* What keeps a look at an information from a conclusion.
Excused(names) == ~Trusted(names) \/ RefusesInformation(names, anchor) \/ TrueDeterminant(names, anchor) # 0

\* A finding that concludes nothing is so.
LEMMA NothingConcluded ==
  ASSUME NEW f, NEW names, \/ f.about = "joint" /\ names = Inspected
                           \/ f.about = "jeffreys" /\ names = examined.blocks[f.block],
         f.status = "skipped_budget" \/ (f.status = "unresolved" /\ Excused(names))
  PROVE  FindingIsSo(f)
<1>1. GeometryIsSo(f)
  BY DEF GeometryIsSo, Excused
<1>2. QED
  BY <1>1 DEF FindingIsSo

\* A determinant that was computed is no short rank.
LEMMA DeterminedIsExcused ==
  ASSUME IsInquiry(examined), anchor \in Locations, NEW names \in SUBSET Inspected, names # {}, Geometry(names, anchor) # NoDeterminant
  PROVE  Excused(names)
<1>1. CASE Trusted(names)
  <2>1. TrueDeterminant(names, anchor) > 0 /\ TrueDeterminant(names, anchor) \in Nat
    BY <1>1, GeometryIsDeterminant
  <2>2. QED
    BY <2>1 DEF Excused
<1>2. QED
  BY <1>1 DEF Excused

LEMMA JointGeometryKeeps ==
  ASSUME LookInv, JointGeometry
  PROVE  LookInv'
<1>1. /\ looking.question = "joint" /\ looking' = LooksAt("jeffreys", 1) /\ UNCHANGED <<examined, draw, anchor>>
      /\ IsInquiry(examined) /\ anchor \in Locations /\ draw = NoDraw
  BY RestingDraw DEF JointGeometry, LooksAt, LookInv, LookIsWell
<1>2. Len(examined.blocks) \in Nat /\ BlockNumbers = 1 .. Len(examined.blocks) /\ 1 \in BlockNumbers
  BY <1>1, Numbered
<1>3. formed \in Nat /\ formed <= examined.policy.elements
  BY DEF LookInv, LookIsWell
<1>4. PICK status \in Statuses :
         /\ reported' = Append(reported, Says("joint", 0, status))
         /\ \/ status = "skipped_budget" /\ UNCHANGED formed
            \/ status = "unresolved" /\ RefusesInformation(Inspected, anchor) /\ UNCHANGED formed
            \/ status = JointStatus(Geometry(Inspected, anchor)) /\ Allowed(Inspected) /\ Form(Inspected)
  <2>1. CASE ~Allowed(Inspected)
    BY <2>1, Words DEF JointGeometry
  <2>2. CASE Allowed(Inspected) /\ RefusesInformation(Inspected, anchor)
    BY <2>2, Words DEF JointGeometry
  <2>3. CASE Allowed(Inspected) /\ ~RefusesInformation(Inspected, anchor)
    <3>1. JointStatus(Geometry(Inspected, anchor)) \in Statuses
      BY Words DEF JointStatus
    <3>2. QED
      BY <2>3, <3>1 DEF JointGeometry
  <2>4. QED
    BY <2>1, <2>2, <2>3
<1>5. formed' \in Nat /\ formed' <= examined.policy.elements
  BY <1>1, <1>3, <1>4, FormedIsAllowed
<1>6. LookIsWell' /\ looking' \in Looks /\ looking'.question = "jeffreys" /\ looking'.block = 1
  BY <1>1, <1>2, <1>5, LookGoesOn
<1>7. DrawIsWell'
  BY <1>1, <1>6, NoDrawIsWell
<1>8. PICK f \in Findings : f = Says("joint", 0, status) /\ f.about = "joint" /\ f.status = status
  <2>1. "joint" \in Abouts /\ 0 \in Nat
    BY Words
  <2>2. QED
    BY <2>1, FindingWritten
<1>9. FindingIsSo(f)
  <2>1. CASE status \in {"unresolved", "skipped_budget"}
    <3>1. status = "unresolved" => Excused(Inspected)
      BY <1>4 DEF JointStatus, Excused
    <3>2. QED
      BY <2>1, <3>1, <1>8, NothingConcluded
  <2>2. CASE status = JointStatus(Geometry(Inspected, anchor)) /\ status \notin {"unresolved", "skipped_budget"}
    <3>1. Trusted(Inspected) /\ status = IF Geometry(Inspected, anchor) # NoDeterminant THEN "passed" ELSE "rank_deficient"
      BY <2>2 DEF JointStatus
    <3>2. Inspected # {} /\ Inspected \in SUBSET Inspected
      BY DEF Inspected
    <3>3. status = "passed" => TrueDeterminant(Inspected, anchor) > 0 /\ TrueDeterminant(Inspected, anchor) \in Nat
      BY <3>1, <3>2, <1>1, GeometryIsDeterminant
    <3>4. status = "rank_deficient" => TrueDeterminant(Inspected, anchor) = 0
      BY <3>1, <3>2, <1>1, GeometryIsDeterminant
    <3>5. GeometryIsSo(f)
      BY <3>1, <3>3, <3>4, <1>8 DEF GeometryIsSo
    <3>6. QED
      BY <3>5, <1>8 DEF FindingIsSo
  <2>3. QED
    BY <2>1, <2>2, <1>4
<1>10. PlaceOfLook(looking) = 4 /\ PlaceOfLook(looking') = 5
  BY <1>1, <1>6 DEF PlaceOfLook
<1>11. Place(f) = 4
  BY <1>8 DEF Place
<1>12. \A i \in BlockNumbers : ~(3 + 2 * i < 5)
  BY <1>2
<1>13. ReportIsWell'
  BY <1>1, <1>4, <1>6, <1>8, <1>9, <1>10, <1>11, <1>12, OneMoreFinding
<1>14. QED
  BY <1>6, <1>7, <1>13 DEF LookInv

\* What is concluded of a block is reported in the block's place.
LEMMA ConcludedInPlace ==
  ASSUME LookInv, UNCHANGED <<examined, anchor>>, NEW i \in BlockNumbers, looking.question \in {"jeffreys", "probe"}, looking.block = i,
         NEW f \in Findings, f.about = "jeffreys", f.block = i, FindingIsSo(f), reported' = Append(reported, f),
         looking' = LooksAt("shift", i)
  PROVE  ReportIsWell'
<1>1. i \in Nat /\ BlockNumbers \subseteq Nat
  BY BlocksAreBlocks DEF LookInv, LookIsWell
<1>2. looking'.question = "shift" /\ looking'.block = i /\ looking' \in Looks
  BY <1>1 DEF LooksAt, Looks
<1>3. PlaceOfLook(looking) = 3 + 2 * i /\ PlaceOfLook(looking') = 4 + 2 * i
  BY <1>2 DEF PlaceOfLook
<1>4. Place(f) = 3 + 2 * i
  BY DEF Place
<1>5. \A k \in BlockNumbers : 3 + 2 * i <= 3 + 2 * k /\ 3 + 2 * k < 4 + 2 * i => k = i
  BY <1>1
<1>6. QED
  BY <1>1, <1>2, <1>3, <1>4, <1>5, OneMoreFinding

LEMMA JeffreysAtAnchorKeeps ==
  ASSUME LookInv, NEW i \in BlockNumbers, JeffreysAtAnchor(i)
  PROVE  LookInv'
<1> DEFINE names == examined.blocks[i]
<1>1. /\ looking.question = "jeffreys" /\ looking.block = i /\ UNCHANGED <<examined, anchor>>
      /\ IsInquiry(examined) /\ anchor \in Locations /\ draw = NoDraw
  BY RestingDraw DEF JeffreysAtAnchor, LooksAt, LookInv, LookIsWell
<1>2. names \in SUBSET Inspected /\ names # {} /\ i \in Nat \ {0}
  BY <1>1, BlocksAreBlocks
<1>3. formed \in Nat /\ formed <= examined.policy.elements
  BY DEF LookInv, LookIsWell
<1>4. CASE /\ Allowed(names) /\ ~RefusesInformation(names, anchor) /\ Geometry(names, anchor) # NoDeterminant
  <2>1. draw' = StartDraw(i, 1) /\ Form(names) /\ looking' = LooksAt("probe", i) /\ UNCHANGED reported
    BY <1>4 DEF JeffreysAtAnchor
  <2>2. looking'.question = "probe" /\ looking'.block = i /\ looking' \in Looks
    BY <1>2, <2>1 DEF LooksAt, Looks
  <2>3. formed' \in Nat /\ formed' <= examined.policy.elements
    BY <1>1, <1>3, <1>4, <2>1, FormedIsAllowed
  <2>4. LookIsWell'
    BY <1>1, <1>4, <2>2, <2>3, PlaceSettles, GeometrySettles DEF LookIsWell, LookInv
  <2>5. DrawIsWell'
    BY <1>2, <2>1, <2>2, BegunDrawIsWell
  <2>6. PlaceOfLook(looking) = PlaceOfLook(looking')
    BY <1>1, <2>2 DEF PlaceOfLook
  <2>7. ReportIsWell'
    BY <1>1, <2>1, <2>2, <2>6, NoFinding
  <2>8. QED
    BY <2>4, <2>5, <2>7 DEF LookInv
<1>5. CASE ~(Allowed(names) /\ ~RefusesInformation(names, anchor) /\ Geometry(names, anchor) # NoDeterminant)
  <2>1. PICK status \in Statuses :
           /\ Concludes(i, status) /\ UNCHANGED draw
           /\ \/ /\ status = "skipped_budget" \/ (status = "unresolved" /\ (RefusesInformation(names, anchor) \/ ~Trusted(names)))
                 /\ UNCHANGED formed \/ (Allowed(names) /\ Form(names))
              \/ status = "rank_deficient" /\ Trusted(names) /\ Geometry(names, anchor) = NoDeterminant /\ Allowed(names) /\ Form(names)
    <3>1. CASE ~Allowed(names)
      BY <3>1, Words DEF JeffreysAtAnchor
    <3>2. CASE Allowed(names) /\ RefusesInformation(names, anchor)
      BY <3>2, Words DEF JeffreysAtAnchor
    <3>3. CASE Allowed(names) /\ ~RefusesInformation(names, anchor) /\ Geometry(names, anchor) = NoDeterminant
      BY <3>3, Words DEF JeffreysAtAnchor
    <3>4. QED
      BY <1>5, <3>1, <3>2, <3>3
  <2>2. formed' \in Nat /\ formed' <= examined.policy.elements
    BY <1>1, <1>3, <2>1, FormedIsAllowed
  <2>3. reported' = Append(reported, Says("jeffreys", i, status)) /\ looking' = LooksAt("shift", i)
    BY <2>1 DEF Concludes
  <2>4. LookIsWell' /\ looking'.question = "shift"
    BY <1>1, <1>2, <2>2, <2>3, LookGoesOn
  <2>5. DrawIsWell'
    BY <1>1, <2>1, <2>4, NoDrawIsWell
  <2>6. PICK f \in Findings : f = Says("jeffreys", i, status) /\ f.about = "jeffreys" /\ f.block = i /\ f.status = status
    <3>1. "jeffreys" \in Abouts /\ i \in Nat
      BY Words, <1>2
    <3>2. QED
      BY <3>1, FindingWritten
  <2>7. FindingIsSo(f)
    <3>1. CASE status \in {"unresolved", "skipped_budget"}
      <4>1. status = "unresolved" => Excused(names)
        BY <2>1 DEF Excused
      <4>2. QED
        BY <3>1, <4>1, <2>6, NothingConcluded
    <3>2. CASE status = "rank_deficient"
      <4>1. TrueDeterminant(names, anchor) = 0
        BY <3>2, <2>1, <1>1, <1>2, GeometryIsDeterminant
      <4>2. QED
        BY <4>1, <3>2, <2>6 DEF GeometryIsSo, FindingIsSo
    <3>3. QED
      BY <3>1, <3>2, <2>1
  <2>8. ReportIsWell'
    BY <1>1, <2>3, <2>6, <2>7, ConcludedInPlace
  <2>9. QED
    BY <2>4, <2>5, <2>8 DEF LookInv
<1>6. QED
  BY <1>4, <1>5

\* What two determinants and a band say is so of a point at which only the block
\* has moved.
LEMMA VerdictOfTwoPoints ==
  ASSUME IsInquiry(examined), anchor \in Locations, NEW i \in BlockNumbers, NEW at \in Locations,
         SameElsewhere(examined.blocks[i], at), NEW band \in Bands \cup {NoBand},
         Geometry(examined.blocks[i], anchor) # NoDeterminant,
         NEW f, f.about = "jeffreys", f.block = i,
         f.status = FlatnessStatus(examined.blocks[i], Geometry(examined.blocks[i], anchor), Geometry(examined.blocks[i], at), band)
  PROVE  FindingIsSo(f)
<1> DEFINE names == examined.blocks[i]
           here == Geometry(names, anchor)
           there == Geometry(names, at)
<1>1. names \in SUBSET Inspected /\ names # {}
  BY BlocksAreBlocks
<1>2. f.status \in {"flat", "nonflat", "unresolved"}
  BY DEF FlatnessStatus
<1>3. f.status = "flat" => Certified(names)
  BY DEF FlatnessStatus
<1>4. f.status = "nonflat" => Trusted(names) /\ there # NoDeterminant /\ band # NoBand /\ (here - there > band \/ there - here > band)
  BY DEF FlatnessStatus
<1>5. Certified(names) => Trusted(names)
  BY DEF Certified
<1> HIDE DEF names
<1>6. CASE f.status = "unresolved"
  <2>1. Excused(names)
    BY <1>1, DeterminedIsExcused DEF names
  <2>2. QED
    BY <1>6, <2>1, NothingConcluded DEF names
<1>7. CASE f.status = "flat"
  <2>1. TrueDeterminant(names, anchor) > 0 /\ TrueDeterminant(names, anchor) \in Nat
    BY <1>1, <1>3, <1>5, <1>7, GeometryIsDeterminant DEF names
  <2>2. \A to \in Locations : SameElsewhere(names, to) => TrueInformation(names, to) = TrueInformation(names, anchor)
    BY <1>1, <1>3, <1>7, CertifiedIsFlat
  <2>3. TrueDeterminant(names, anchor) # 0
    BY <2>1
  <2>4. GeometryIsSo(f)
    BY <1>7, <2>2, <2>3 DEF GeometryIsSo, names
  <2>5. QED
    BY <2>4 DEF FindingIsSo
<1>8. CASE f.status = "nonflat"
  <2>1. here = TrueDeterminant(names, anchor) /\ here > 0 /\ TrueDeterminant(names, anchor) \in Nat
    BY <1>1, <1>4, <1>8, GeometryIsDeterminant DEF names
  <2>2. there = TrueDeterminant(names, at) /\ TrueDeterminant(names, at) \in Nat
    BY <1>1, <1>4, <1>8, GeometryIsDeterminant
  <2>3. band \in Nat
    BY <1>4, <1>8, PreflightAssumption
  <2>4. here - there > band \/ there - here > band
    BY <1>4, <1>8
  <2> HIDE DEF here, there
  <2>5. TrueDeterminant(names, at) # TrueDeterminant(names, anchor) /\ TrueDeterminant(names, anchor) # 0
    BY <2>1, <2>2, <2>3, <2>4
  <2>6. \E to \in Locations : SameElsewhere(names, to) /\ TrueDeterminant(names, to) # TrueDeterminant(names, anchor)
    BY <2>5 DEF names
  <2>7. GeometryIsSo(f)
    BY <1>8, <2>5, <2>6 DEF GeometryIsSo, names
  <2>8. QED
    BY <2>7 DEF FindingIsSo
<1>9. QED
  BY <1>2, <1>6, <1>7, <1>8

LEMMA JeffreysAtProbeKeeps ==
  ASSUME LookInv, NEW i \in BlockNumbers, JeffreysAtProbe(i)
  PROVE  LookInv'
<1> DEFINE names == examined.blocks[i]
<1>1. /\ looking.question = "probe" /\ looking.block = i /\ UNCHANGED <<examined, anchor>> /\ draw' = NoDraw
      /\ IsInquiry(examined) /\ anchor \in Locations /\ draw.state \in {"found", "failed"}
      /\ Allowed(names) /\ Geometry(names, anchor) # NoDeterminant
  BY DEF JeffreysAtProbe, LooksAt, LookInv, LookIsWell
<1>2. names \in SUBSET Inspected /\ names # {} /\ i \in Nat \ {0}
  BY <1>1, BlocksAreBlocks
<1>3. formed \in Nat /\ formed <= examined.policy.elements
  BY DEF LookInv, LookIsWell
<1>4. PICK status \in Statuses :
         /\ Concludes(i, status)
         /\ \/ status \in {"unresolved", "skipped_budget"} /\ UNCHANGED formed
            \/ /\ draw.state = "found" /\ Form(names)
               /\ \E band \in Bands \cup {NoBand} :
                    status = FlatnessStatus(names, Geometry(names, anchor), Geometry(names, draw.points[1]), band)
  <2>1. CASE draw.state = "failed" \/ RefusesInformation(names, draw.points[1])
    BY <2>1, Words DEF JeffreysAtProbe
  <2>2. CASE ~(draw.state = "failed" \/ RefusesInformation(names, draw.points[1]))
    <3>1. PICK band \in Bands \cup {NoBand} :
             /\ Concludes(i, FlatnessStatus(names, Geometry(names, anchor), Geometry(names, draw.points[1]), band))
             /\ Form(names)
      BY <2>2 DEF JeffreysAtProbe
    <3>2. FlatnessStatus(names, Geometry(names, anchor), Geometry(names, draw.points[1]), band) \in Statuses
      BY Words DEF FlatnessStatus
    <3>3. draw.state = "found"
      BY <2>2, <1>1
    <3>4. QED
      BY <3>1, <3>2, <3>3
  <2>3. QED
    BY <2>1, <2>2
<1>5. formed' \in Nat /\ formed' <= examined.policy.elements
  BY <1>1, <1>3, <1>4, FormedIsAllowed
<1>6. reported' = Append(reported, Says("jeffreys", i, status)) /\ looking' = LooksAt("shift", i)
  BY <1>4 DEF Concludes
<1>7. LookIsWell' /\ looking'.question = "shift"
  BY <1>1, <1>2, <1>5, <1>6, LookGoesOn
<1>8. DrawIsWell'
  BY <1>1, <1>7, NoDrawIsWell
<1>9. PICK f \in Findings : f = Says("jeffreys", i, status) /\ f.about = "jeffreys" /\ f.block = i /\ f.status = status
  <2>1. "jeffreys" \in Abouts /\ i \in Nat
    BY Words, <1>2
  <2>2. QED
    BY <2>1, FindingWritten
<1>10. FindingIsSo(f)
  <2>1. CASE status \in {"unresolved", "skipped_budget"}
    <3>1. Excused(names)
      BY <1>1, <1>2, DeterminedIsExcused
    <3>2. QED
      BY <2>1, <3>1, <1>9, NothingConcluded
  <2>2. CASE draw.state = "found" /\ status \notin {"unresolved", "skipped_budget"}
    <3>1. /\ draw \in PointDraws /\ Len(draw.points) > 0 /\ draw.purpose = i
          /\ \A c \in DOMAIN draw.points :
               \A l \in DOMAIN Supplied(draw.purpose, c) : draw.points[c][l] = Supplied(draw.purpose, c)[l]
      BY <1>1, <2>2 DEF LookInv, DrawIsWell
    <3>2. draw.points \in Seq(Locations)
      BY <3>1 DEF PointDraws
    <3>3. 1 \in DOMAIN draw.points /\ draw.points[1] \in Locations
      BY <3>1, <3>2
    <3>4. Supplied(i, 1) = [l \in Inspected \ names |-> anchor[l]]
      BY <1>2 DEF Supplied
    <3>5. SameElsewhere(names, draw.points[1])
      BY <3>1, <3>3, <3>4 DEF SameElsewhere
    <3>6. PICK band \in Bands \cup {NoBand} :
             status = FlatnessStatus(names, Geometry(names, anchor), Geometry(names, draw.points[1]), band)
      BY <1>4, <2>2
    <3>7. QED
      BY <1>1, <1>9, <3>3, <3>5, <3>6, VerdictOfTwoPoints
  <2>3. QED
    BY <2>1, <2>2, <1>4
<1>11. ReportIsWell'
  BY <1>1, <1>6, <1>9, <1>10, ConcludedInPlace
<1>12. QED
  BY <1>7, <1>8, <1>11 DEF LookInv

LEMMA PriorShiftKeeps ==
  ASSUME LookInv, NEW i \in BlockNumbers, PriorShift(i)
  PROVE  LookInv'
<1> DEFINE names == examined.blocks[i]
<1>1. /\ looking.question = "shift" /\ looking.block = i /\ UNCHANGED <<examined, draw, anchor, formed>>
      /\ IsInquiry(examined) /\ anchor \in Locations /\ draw = NoDraw
      /\ looking' = IF i + 1 \in BlockNumbers THEN LooksAt("jeffreys", i + 1) ELSE LooksAt("order", 0)
  BY RestingDraw DEF PriorShift, LooksAt, LookInv, LookIsWell
<1>2. i \in Nat \ {0} /\ Len(examined.blocks) \in Nat /\ BlockNumbers = 1 .. Len(examined.blocks)
  BY <1>1, BlocksAreBlocks, Numbered
<1>3. formed' \in Nat /\ formed' <= examined.policy.elements
  BY <1>1 DEF LookInv, LookIsWell
<1>4. PICK status \in Statuses :
         /\ reported' = Append(reported, Says("shift", i, status))
         /\ status \in {"passed", "failed"} => ShiftIsAsked(names) /\ names \subseteq examined.normal
  <2>1. CASE Breadth(names) > examined.policy.prior \/ ~Allowed(names)
    BY <2>1, Words DEF PriorShift
  <2>2. CASE ~(Breadth(names) > examined.policy.prior \/ ~Allowed(names)) /\ ~(names \subseteq examined.normal)
    BY <2>2, Words DEF PriorShift
  <2>3. CASE ~(Breadth(names) > examined.policy.prior \/ ~Allowed(names)) /\ names \subseteq examined.normal /\ ~ShiftIsAsked(names)
    BY <2>3, Words DEF PriorShift
  <2>4. CASE ~(Breadth(names) > examined.policy.prior \/ ~Allowed(names)) /\ names \subseteq examined.normal /\ ShiftIsAsked(names)
    BY <2>4, Words DEF PriorShift
  <2>5. QED
    BY <2>1, <2>2, <2>3, <2>4
<1>5. PICK f \in Findings : f = Says("shift", i, status) /\ f.about = "shift" /\ f.block = i /\ f.status = status
  <2>1. "shift" \in Abouts /\ i \in Nat
    BY Words, <1>2
  <2>2. QED
    BY <2>1, FindingWritten
<1>6. FindingIsSo(f)
  BY <1>4, <1>5 DEF FindingIsSo, ShiftIsAsked
<1>7. Place(f) = 4 + 2 * i
  BY <1>5 DEF Place
<1>8. PlaceOfLook(looking) = 4 + 2 * i
  BY <1>1 DEF PlaceOfLook
<1>9. /\ LookIsWell' /\ looking' \in Looks /\ looking'.question \in {"jeffreys", "order"} /\ PlaceOfLook(looking') = 5 + 2 * i
  <2>1. CASE i + 1 \in BlockNumbers
    <3>1. looking' = LooksAt("jeffreys", i + 1) /\ i + 1 \in Nat
      BY <1>1, <1>2, <2>1
    <3>2. LookIsWell' /\ looking' \in Looks /\ looking'.question = "jeffreys" /\ looking'.block = i + 1
      BY <1>1, <1>3, <2>1, <3>1, LookGoesOn
    <3>3. PlaceOfLook(looking') = 3 + 2 * (i + 1)
      BY <3>2 DEF PlaceOfLook
    <3>4. QED
      BY <3>2, <3>3, <1>2
  <2>2. CASE i + 1 \notin BlockNumbers
    <3>1. looking' = LooksAt("order", 0) /\ Len(examined.blocks) = i
      BY <1>1, <1>2, <2>2
    <3>2. LookIsWell' /\ looking' \in Looks /\ looking'.question = "order" /\ looking'.block = 0
      BY <1>1, <1>3, <3>1, LookGoesOn
    <3>3. PlaceOfLook(looking') = 5 + 2 * Len(examined.blocks)
      BY <3>2 DEF PlaceOfLook
    <3>4. QED
      BY <3>1, <3>2, <3>3, <1>2
  <2>3. QED
    BY <2>1, <2>2
<1>10. DrawIsWell'
  BY <1>1, <1>9, NoDrawIsWell
<1>11. \A k \in BlockNumbers : ~(4 + 2 * i <= 3 + 2 * k /\ 3 + 2 * k < 5 + 2 * i)
  BY <1>2
<1>12. 4 + 2 * i <= Place(f) /\ Place(f) < 5 + 2 * i
  BY <1>2, <1>7
<1>13. ReportIsWell'
  BY <1>1, <1>4, <1>5, <1>6, <1>8, <1>9, <1>11, <1>12, OneMoreFinding
<1>14. QED
  BY <1>9, <1>10, <1>13 DEF LookInv

LEMMA OrderKeeps ==
  ASSUME LookInv, Order
  PROVE  LookInv'
<1>1. /\ looking.question = "order" /\ UNCHANGED <<examined, draw, anchor, formed>>
      /\ IsInquiry(examined) /\ anchor \in Locations /\ draw = NoDraw /\ looking' = LooksAt("done", 0)
  BY RestingDraw DEF Order, LooksAt, LookInv, LookIsWell
<1>2. Len(examined.blocks) \in Nat /\ BlockNumbers = 1 .. Len(examined.blocks)
  BY <1>1, Numbered
<1>3. formed' \in Nat /\ formed' <= examined.policy.elements
  BY <1>1 DEF LookInv, LookIsWell
<1>4. PICK status \in Statuses :
         /\ reported' = Append(reported, Says("order", 0, status))
         /\ status = IF CollapseRuns THEN "marginal_nuts_then_conditional_reconstruction" ELSE "fixed_compiler_order"
  BY Words DEF Order
<1>5. PICK f \in Findings : f = Says("order", 0, status) /\ f.about = "order" /\ f.status = status
  <2>1. "order" \in Abouts /\ 0 \in Nat
    BY Words
  <2>2. QED
    BY <2>1, FindingWritten
<1>6. FindingIsSo(f)
  <2>1. status = "fixed_compiler_order" <=> ~CollapseRuns
    BY <1>4
  <2>2. QED
    BY <1>5, <2>1 DEF FindingIsSo, CollapseRuns
<1>7. LookIsWell' /\ looking' \in Looks /\ looking'.question = "done"
  BY <1>1, <1>3, LookGoesOn
<1>8. DrawIsWell'
  BY <1>1, <1>7, NoDrawIsWell
<1>9. PlaceOfLook(looking) = 5 + 2 * Len(examined.blocks) /\ PlaceOfLook(looking') = 6 + 2 * Len(examined.blocks)
  BY <1>1, <1>7 DEF PlaceOfLook
<1>10. Place(f) = 5 + 2 * Len(examined.blocks)
  BY <1>5 DEF Place
<1>11. \A k \in BlockNumbers : ~(5 + 2 * Len(examined.blocks) <= 3 + 2 * k)
  BY <1>2
<1>12. Place(f) < 6 + 2 * Len(examined.blocks) /\ 5 + 2 * Len(examined.blocks) <= Place(f)
  BY <1>2, <1>10
<1>13. ReportIsWell'
  BY <1>1, <1>4, <1>5, <1>6, <1>7, <1>9, <1>11, <1>12, OneMoreFinding
<1>14. QED
  BY <1>7, <1>8, <1>13 DEF LookInv

-----------------------------------------------------------------------------
LEMMA LookIsKept ==
  ASSUME LookInv, [PreflightNext]_preflightVars
  PROVE  LookInv'
<1>1. CASE UNCHANGED preflightVars
  <2>1. UNCHANGED <<examined, looking, draw, anchor, reported, formed>>
    BY <1>1 DEF preflightVars
  <2>2. LookIsWell' /\ ReportIsWell'
    BY <2>1, LookStays
  <2>3. \A p, c : Supplied(p, c)' = Supplied(p, c)
    BY <2>1 DEF Supplied
  <2>4. DrawIsWell'
    BY <2>1, <2>3, PlaceSettles DEF LookInv, DrawIsWell
  <2>5. QED
    BY <2>2, <2>4 DEF LookInv
<1>2. CASE PreflightNext
  BY <1>2, BeginKeeps, AttemptKeeps, NoAnchorKeeps, AnchorKeeps, JointGeometryKeeps, OrderKeeps, JeffreysAtAnchorKeeps,
     JeffreysAtProbeKeeps, PriorShiftKeeps DEF PreflightNext
<1>3. QED
  BY <1>1, <1>2

LEMMA MembersOfSequences ==
  ASSUME NEW S, NEW s \in Seq(S)
  PROVE  \A n \in DOMAIN s : s[n] \in S
  OBVIOUS

LEMMA LookTellsWhatIsSo ==
  ASSUME LookInv
  PROVE  FindingsAreSo
<1>1. IsInquiry(examined) /\ formed <= examined.policy.elements /\ Len(examined.blocks) \in Nat /\ BlockNumbers = 1 .. Len(examined.blocks)
  BY Numbered DEF LookInv, LookIsWell
<1>2. StartsAreStarts
  <2>1. /\ draw \in PointDraws /\ Len(draw.attempts) = Len(draw.points) /\ Len(draw.points) <= draw.chains
        /\ \A c \in DOMAIN draw.points :
             /\ InSupport(draw.points[c]) /\ Finite(draw.points[c])
             /\ \A l \in DOMAIN Supplied(draw.purpose, c) : draw.points[c][l] = Supplied(draw.purpose, c)[l]
    BY DEF LookInv, DrawIsWell
  <2>2. \A c \in DOMAIN draw.points : draw.attempts[c] \in 1 .. MaxAttempts
    <3>1. draw.points \in Seq(Locations) /\ draw.attempts \in Seq(1 .. MaxAttempts)
      BY <2>1 DEF PointDraws
    <3>2. DOMAIN draw.points = DOMAIN draw.attempts
      BY <2>1, <3>1
    <3>3. \A c \in DOMAIN draw.attempts : draw.attempts[c] \in 1 .. MaxAttempts
      BY <3>1, MembersOfSequences
    <3>4. QED
      BY <3>2, <3>3
  <2>3. QED
    BY <2>1, <2>2 DEF StartsAreStarts
<1>3. ASSUME NEW n \in DOMAIN reported
      PROVE  /\ FindingIsSo(reported[n])
             /\ \A k \in DOMAIN reported : reported[k].about = reported[n].about /\ reported[k].block = reported[n].block => k = n
  <2>1. FindingIsSo(reported[n])
    BY DEF LookInv, ReportIsWell
  <2>2. ASSUME NEW k \in DOMAIN reported, reported[k].about = reported[n].about, reported[k].block = reported[n].block
        PROVE  k = n
    <3>1. PICK f \in Findings, g \in Findings : f = reported[n] /\ g = reported[k]
      BY DEF LookInv, ReportIsWell
    <3>2. f.about = g.about /\ f.block = g.block
      BY <2>2, <3>1
    <3>3. Place(f) = Place(g) /\ Place(f) \in Nat
      BY <1>1, <3>2, PlaceIsNat DEF Place
    <3>4. n \in Nat /\ k \in Nat
      BY DEF LookInv, ReportIsWell
    <3>5. (n < k => Place(f) < Place(g)) /\ (k < n => Place(g) < Place(f))
      BY <3>1 DEF LookInv, ReportIsWell
    <3>6. QED
      BY <3>3, <3>4, <3>5
  <2>3. QED
    BY <2>1, <2>2
<1>4. ASSUME looking.question = "done", "disabled" \notin examined.traits, NEW i \in BlockNumbers
      PROVE  \E n \in DOMAIN reported : reported[n].about = "jeffreys" /\ reported[n].block = i
  <2>1. PlaceOfLook(looking) = 6 + 2 * Len(examined.blocks)
    BY <1>4 DEF PlaceOfLook
  <2>2. 3 + 2 * i < PlaceOfLook(looking)
    BY <1>1, <2>1
  <2>3. QED
    BY <1>4, <2>2 DEF LookInv, ReportIsWell
<1>5. QED
  BY <1>1, <1>2, <1>3, <1>4 DEF FindingsAreSo, FindingIsSo

\* Whatever the graph, up to MaxRows rows of two latents, and whatever its callers
\* ask and supply: each finding of the report a posterior task is handed is so, and
\* each question is answered once (dispatch/preflight.py).
THEOREM ToldBeforeSampling == PreflightSpec => []FindingsAreSo
<1>1. PreflightInit => LookInv
  BY LookStarts
<1>2. LookInv /\ [PreflightNext]_preflightVars => LookInv'
  BY LookIsKept
<1>3. LookInv => FindingsAreSo
  BY LookTellsWhatIsSo
<1>4. QED
  BY <1>1, <1>2, <1>3, PTL DEF PreflightSpec
=============================================================================
