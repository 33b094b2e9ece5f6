---------------------------- MODULE ModelChecking ----------------------------
(***************************************************************************)
(* evaluation/gate.py: the model_checking@1 runner. check_posterior files  *)
(* the reports its caller carried in, makes one predictive and one prior   *)
(* simulation, runs six checks, and hands eight slots to aggregate_gate    *)
(* (Gate).      What can be wrong with the posterior, the graph or the     *)
(* machine is a set of troubles, fixed for the call; numbers are left out, *)
(* so a check that can decide may decide either way. A caller may instead  *)
(* aggregate slots of a gate of its own by hand (Gate).                    *)
(***************************************************************************)
EXTENDS Gate, Naturals

CONSTANTS
  MaxTroubles,   \* bound: troubles one call meets
  MaxCarried     \* bound: reports one caller carries

ASSUME BoundsAssumption == MaxTroubles \in Nat /\ MaxCarried \in Nat

PPC   == "posterior_predictive_check"
IDENT == "identifiability"
PRIOR == "prior_predictive_check"
HELD  == "held_out_prediction"
LOO   == "loo_psis"
SBC   == "sbc"
SENS  == "prior_sensitivity"
CHAIN == "chain_diagnostics"

CARRIED_KINDS == {SBC, CHAIN}

Required == {PPC, IDENT}

\* The schema, in its order.
MODEL_CHECKING ==
  LET order == <<PPC, IDENT, PRIOR, HELD, LOO, SBC, SENS, CHAIN>>
  IN [k \in DOMAIN order |-> [name |-> order[k],
        weight |-> IF order[k] \in Required THEN "required" ELSE "optional"]]

\* The order in which the runner runs the checks it owns.
Produced == <<PPC, IDENT, PRIOR, HELD, LOO, SENS>>

Kinds == CARRIED_KINDS \cup {Produced[k] : k \in DOMAIN Produced}

Troubles == {
  "retired",            \* the posterior's lifecycle is INVALIDATED
  "dense_noise",        \* no diagonal Gaussian likelihood: predictive_ready is False
  "other_model",        \* the posterior was drawn from another graph or data
  "no_predictive",      \* the predictive task is refused or raises
  "no_simulation",      \* the prior simulation is refused or raises
  "few_draws",          \* fewer draws than DRAW_FLOOR
  "weighted",           \* an importance-weighted representation
  "float32",            \* built or run outside enable_x64
  "nothing_held_out",   \* every observed position is conditioned on
  "no_arviz"}           \* arviz is not importable

VARIABLES
  troubles,     \* what this call meets
  phase,        \* "carried", "predictive", "simulation", "checks", "answered", "raised";
                \* "by hand" when no runner is involved
  accepted,     \* how many carried reports were looked at
  supplied,     \* the report filed for each carried kind, or NoReport
  predictive,   \* "none", "made" or "error"
  simulation,   \* likewise
  refs          \* GateResult.report_refs, as the kinds it points at

runVars == <<troubles, phase, accepted, supplied, predictive, simulation, refs>>
checkingVars    == <<gateVars, runVars>>

NoReport == [kind |-> "none", mine |-> TRUE, axes |-> <<>>]

Pass         == <<"applicable", "pass">>
Fail         == <<"applicable", "fail">>
Abstain      == <<"applicable", "abstain">>
Inapplicable == <<"inapplicable", "abstain">>
Unverifiable == <<"unverifiable", "abstain">>

\* A report a caller may hold: of a kind it may or may not carry, about this
\* posterior or another. Its own lifecycle is not read by anyone.
CarriedReport == [kind : {SBC, CHAIN, PPC}, mine : BOOLEAN, axes : {Pass, Fail}]

\* A report on file: nothing reads the report's own lifecycle.
File(axes) == [is |-> "report", stale |-> FALSE, axes |-> axes]

\* check_posterior on this schema, before anything is filed.
Called ==
  /\ troubles \in {t \in SUBSET Troubles : Cardinality(t) <= MaxTroubles}
  /\ phase = "carried"
  /\ definition = MODEL_CHECKING
  /\ ready = ("dense_noise" \notin troubles) /\ current = ("retired" \notin troubles)
  /\ byName = [k \in Kinds |-> Absent]
  /\ result = Pending

CheckingInit ==
  /\ Called \/ (ByHand /\ troubles = {} /\ phase = "by hand")
  /\ accepted = 0
  /\ supplied = [k \in CARRIED_KINDS |-> NoReport]
  /\ predictive = "none" /\ simulation = "none"
  /\ refs = {}

-----------------------------------------------------------------------------
\* A carried report is filed if no check of the runner makes its kind, no other
\* has its kind, and, for chain diagnostics, it judges this very posterior.
MayCarry(report) ==
  /\ report.kind \in CARRIED_KINDS
  /\ supplied[report.kind] = NoReport
  /\ report.kind = CHAIN => report.mine

\* _carried_slots, one report of the caller's: filed, or the call raises.
Carry(report) ==
  /\ phase = "carried" /\ accepted < MaxCarried
  /\ accepted' = accepted + 1
  /\ IF MayCarry(report)
       THEN supplied' = [supplied EXCEPT ![report.kind] = report] /\ UNCHANGED phase
       ELSE phase' = "raised" /\ UNCHANGED supplied
  /\ UNCHANGED <<gateVars, troubles, predictive, simulation, refs>>

NoneLeft ==
  /\ phase = "carried"
  /\ phase' = "predictive"
  /\ UNCHANGED <<gateVars, troubles, accepted, supplied, predictive, simulation, refs>>

\* (bug) draws of another model are pushed forward against this graph
PredictiveOutcome_AnyModel ==
  IF troubles \cap {"dense_noise", "no_predictive"} = {} THEN "made" ELSE "error"

\* _predictive through _outcome: a refusal and an exception are both a record.
PredictiveOutcome ==
  IF troubles \cap {"other_model", "dense_noise", "no_predictive"} = {}
    THEN "made" ELSE "error"

MakePredictive ==
  /\ phase = "predictive"
  /\ predictive' = PredictiveOutcome
  /\ phase' = "simulation"
  /\ UNCHANGED <<gateVars, troubles, accepted, supplied, simulation, refs>>

\* _simulation through _outcome.
MakeSimulation ==
  /\ phase = "simulation"
  /\ simulation' = IF "no_simulation" \in troubles THEN "error" ELSE "made"
  /\ phase' = "checks"
  /\ UNCHANGED <<gateVars, troubles, accepted, supplied, predictive, refs>>

\* What each check may report. The band checks abstain below the draw floor and
\* cannot verify a discrepancy that is not finite.
BandAxes == {Pass, Fail, Unverifiable}
PosteriorPredictiveAxes == IF "few_draws" \in troubles THEN {Abstain} ELSE BandAxes
\* The simulation's draw count is the budget's, not the posterior's.
PriorPredictiveAxes == BandAxes \cup {Abstain}
HeldOutAxes == IF "nothing_held_out" \in troubles THEN {Inapplicable} ELSE {Pass, Fail}
\* A Pareto-k warning is about the estimate, never about the model.
LooAxes == IF troubles \cap {"weighted", "no_arviz"} # {}
             THEN {Unverifiable} ELSE {Pass, Abstain}
IdentifiabilityAxes == IF "float32" \in troubles THEN {Unverifiable} ELSE {Pass, Fail}
SensitivityAxes == IF "float32" \in troubles THEN {Unverifiable} ELSE {Pass, Fail, Abstain}

Axes(kind) ==
  CASE kind = PPC   -> PosteriorPredictiveAxes
    [] kind = PRIOR -> PriorPredictiveAxes
    [] kind = HELD  -> HeldOutAxes
    [] kind = LOO   -> LooAxes
    [] kind = IDENT -> IdentifiabilityAxes
    [] kind = SENS  -> SensitivityAxes

\* What _needs hands the check: an artifact, or the error of making it.
SubjectOf(kind) == CASE kind \in {PPC, HELD, LOO} -> predictive
                     [] kind = PRIOR              -> simulation
                     [] OTHER                     -> "made"

\* (bug) a check whose subject could not be made counts as not attempted
SlotsFor_Forgiving(kind) ==
  IF SubjectOf(kind) = "error" THEN {NotAttempted}
  ELSE {File(axes) : axes \in Axes(kind)} \cup {Errored}

\* _needs and _attempt: an error of the subject or of the check is the slot.
SlotsFor(kind) ==
  IF SubjectOf(kind) = "error" THEN {Errored}
  ELSE {File(axes) : axes \in Axes(kind)} \cup {Errored}

\* The check whose turn it is: those before it have left their slots.
IsNext(k) ==
  /\ byName[Produced[k]] = Absent
  /\ \A j \in 1 .. k - 1 : byName[Produced[j]] # Absent

\* The next check of the runner's own, in its order.
Check ==
  /\ phase = "checks"
  /\ \E k \in DOMAIN Produced : IsNext(k) /\ \E slot \in SlotsFor(Produced[k]) :
       byName' = [byName EXCEPT ![Produced[k]] = slot]
  /\ UNCHANGED <<definition, ready, current, result, runVars>>

\* A carried kind nobody supplied was not attempted.
CarriedSlot(kind) ==
  IF supplied[kind] = NoReport THEN NotAttempted ELSE File(supplied[kind].axes)

ReportRefs(filed) == {k \in DOMAIN filed : filed[k].is = "report"}

\* All slots are there: aggregate_gate over them, and the call returns.
Conclude ==
  /\ phase = "checks" /\ \A k \in DOMAIN Produced : byName[Produced[k]] # Absent
  /\ LET filed == [k \in Kinds |-> IF k \in CARRIED_KINDS THEN CarriedSlot(k) ELSE byName[k]]
     IN /\ byName' = filed
        /\ result' = Aggregate(definition, filed, ready, current)
        /\ refs'   = ReportRefs(filed)
  /\ phase' = "answered"
  /\ UNCHANGED <<definition, ready, current, troubles, accepted, supplied, predictive, simulation>>

\* aggregate_gate called by hand: a slot is filed, or the gate answers.
FileByHand   == phase = "by hand" /\ Arrive /\ UNCHANGED runVars
DecideByHand == phase = "by hand" /\ Decide /\ UNCHANGED runVars

Returned ==
  /\ phase \in {"answered", "raised"} \/ (phase = "by hand" /\ result # Pending)
  /\ UNCHANGED checkingVars

CheckingNext ==
  \/ \E report \in CarriedReport : Carry(report)
  \/ NoneLeft \/ MakePredictive \/ MakeSimulation \/ Check \/ Conclude
  \/ FileByHand \/ DecideByHand
  \/ Returned

\* The call is one thread of straight-line code.
CheckingSpec == CheckingInit /\ [][CheckingNext]_checkingVars

-----------------------------------------------------------------------------
\* A pass is evidence, whoever filed the slots and in whatever order; and a pass
\* of the runner was earned on a posterior that could be examined: current, of
\* this model, with a predictive, with enough draws to resolve the band, and in
\* double precision. No report a caller carries in can stand in for that.
PassMeansExamined ==
  /\ PassIsEvidence
  /\ phase = "answered" /\ result.verdict = "pass" =>
       troubles \cap {"retired", "dense_noise", "other_model", "no_predictive",
                      "few_draws", "float32"} = {}
=============================================================================
