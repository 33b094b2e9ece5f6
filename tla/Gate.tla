-------------------------------- MODULE Gate --------------------------------
(***************************************************************************)
(* Handing slots to a gate, in any order, and aggregating what arrived:    *)
(* artifacts/gates.py. The first loop of aggregate_gate files each slot    *)
(* under its requirement or refuses the call; the rest is a function of    *)
(* the slots by name. Any caller may do this by hand; ModelChecking is the *)
(* one runner that does. A definition is the sequence of its requirements; *)
(* a slot is what became of one of them. Messages are left out; finding    *)
(* codes are kept.                                                         *)
(***************************************************************************)
EXTENDS SequencesExt, FiniteSets

\* _LEGAL_PAIRS: only a check that applied may pass or fail.
LegalPairs == ({"applicable"} \X {"pass", "fail", "abstain"})
                \cup ({"inapplicable", "unverifiable"} \X {"abstain"})

\* ReportSlot: not attempted, a report (current or gone stale), or an error.
NotAttempted == [is |-> "nothing", stale |-> FALSE]
Errored      == [is |-> "error", stale |-> FALSE]
Reports      == [is : {"report"}, stale : BOOLEAN, axes : LegalPairs]
Slots        == {NotAttempted, Errored} \cup Reports

\* No slot was handed in for this requirement.
Absent == [is |-> "absent", stale |-> FALSE]

\* ReportRequirement; optional_error_blocks is refused on a required one.
Weights == {"required", "optional", "blocking"}

\* What a required report contributes when the gate evaluates.
RequiredFinding(axes) ==
  CASE axes = <<"applicable", "pass">>      -> "none"
    [] axes = <<"applicable", "fail">>      -> "required_report_failed"
    [] axes = <<"applicable", "abstain">>   -> "required_report_abstained"
    [] axes = <<"inapplicable", "abstain">> -> "required_report_inapplicable"
    [] axes = <<"unverifiable", "abstain">> -> "required_report_unverifiable"

\* (bug) a required report that was never produced is passed over
Finding_SkipMissing(weight, slot) ==
  IF slot.is # "report" THEN "none"
  ELSE IF weight = "required" THEN RequiredFinding(slot.axes)
  ELSE IF slot.axes = <<"applicable", "fail">> THEN "optional_report_failed" ELSE "none"

\* The finding one requirement adds; an optional check never decides.
Finding(weight, slot) ==
  IF weight = "required" THEN
    IF slot.is = "report" THEN RequiredFinding(slot.axes) ELSE "required_report_missing"
  ELSE IF slot.is = "report" /\ slot.axes = <<"applicable", "fail">>
    THEN "optional_report_failed" ELSE "none"

Abstaining == {"required_report_missing", "required_report_inapplicable",
               "required_report_unverifiable", "required_report_abstained"}

\* What each requirement adds, in the definition's order.
Tally(definition, byName) ==
  [k \in DOMAIN definition |->
     <<Finding(definition[k].weight, byName[definition[k].name]), definition[k].name>>]

Has(tally, codes) == \E k \in DOMAIN tally : tally[k][1] \in codes

FindingsOf(tally) == SelectSeq(tally, LAMBDA f : f[1] # "none")

\* (bug) an abstention hides a failure
Verdict_AbstainFirst(tally) ==
  IF Has(tally, Abstaining) THEN "abstain"
  ELSE IF Has(tally, {"required_report_failed"}) THEN "fail" ELSE "pass"

\* FAIL outranks ABSTAIN, and both outrank PASS.
Verdict(tally) ==
  IF Has(tally, {"required_report_failed"}) THEN "fail"
  ELSE IF Has(tally, Abstaining) THEN "abstain" ELSE "pass"

Blocks(item, slot) == slot.is = "error" /\ item.weight \in {"required", "blocking"}

\* Each reason not to judge, in its fixed precedence.
Status(definition, byName, ready, current) ==
  IF ~ready THEN "blocked"
  ELSE IF ~current \/ \E k \in DOMAIN definition : byName[definition[k].name].stale
    THEN "invalidated"
  ELSE IF \E k \in DOMAIN definition : Blocks(definition[k], byName[definition[k].name])
    THEN "error"
  ELSE "evaluated"

\* The requirements, in order, whose slot went stale, and whose error blocks.
StaleItems(definition, byName) ==
  SelectSeq(definition, LAMBDA item : byName[item.name].stale)
BlockingItems(definition, byName) ==
  SelectSeq(definition, LAMBDA item : Blocks(item, byName[item.name]))

\* Only an evaluated gate carries a verdict.
VerdictUnder(status, tally) == IF status = "evaluated" THEN Verdict(tally) ELSE "none"

Answer(status, verdict, findings) ==
  [status |-> status, verdict |-> verdict, findings |-> findings]

Named(code, items) == [k \in DOMAIN items |-> <<code, items[k].name>>]

\* aggregate_gate once the slots are filed by name.
Aggregate(definition, byName, ready, current) ==
  LET status == Status(definition, byName, ready, current)
      tally  == Tally(definition, byName)
      findings ==
        CASE status = "blocked" -> <<<<"prerequisite_missing", "gate">>>>
          [] status = "invalidated" ->
               (IF current THEN <<>> ELSE <<<<"inputs_invalidated", "gate">>>>)
                 \o Named("report_invalidated", StaleItems(definition, byName))
          [] status = "error" ->
               Named("report_errored", BlockingItems(definition, byName))
          [] status = "evaluated" -> FindingsOf(tally)
  IN Answer(status, VerdictUnder(status, tally), findings)

-----------------------------------------------------------------------------
CONSTANTS Names   \* requirement names, in a definition or not

VARIABLES
  definition,   \* the GateDefinition: requirements in order
  ready,        \* prerequisites_ready
  current,      \* inputs_current
  byName,       \* by_name: the slot filed for each requirement
  result        \* Pending, Refused (ValueError) or the GateResult

gateVars == <<definition, ready, current, byName, result>>

Pending == Answer("pending", "none", <<>>)
Refused == Answer("refused", "none", <<>>)

Requirement == [name : Names, weight : Weights]

Declares(name) == \E k \in DOMAIN definition : definition[k].name = name
WeightOf(name) ==
  definition[CHOOSE k \in DOMAIN definition : definition[k].name = name].weight

\* a gate names each requirement once, and asks for at least one
Definitions == {d \in UNION {[1 .. n -> Requirement] : n \in 1 .. Cardinality(Names)} :
                  \A j, k \in DOMAIN d : d[j].name = d[k].name => j = k}

\* A call of aggregate_gate by hand.
ByHand ==
  /\ definition \in Definitions
  /\ ready \in BOOLEAN /\ current \in BOOLEAN
  /\ byName = [n \in Names |-> Absent]
  /\ result = Pending

\* A slot is filed once, under a requirement the schema declares as the slot
\* does.
Accepts(name, weight) ==
  /\ byName[name] = Absent
  /\ Declares(name) /\ WeightOf(name) = weight

Arrive ==
  /\ result = Pending
  /\ \E name \in Names, weight \in Weights, slot \in Slots :
       IF Accepts(name, weight)
         THEN byName' = [byName EXCEPT ![name] = slot] /\ UNCHANGED result
         ELSE result' = Refused /\ UNCHANGED byName
  /\ UNCHANGED <<definition, ready, current>>

\* Every slot has been filed: the gate answers.
Decide ==
  /\ result = Pending
  /\ result' = Aggregate(definition, byName, ready, current)
  /\ UNCHANGED <<definition, ready, current, byName>>

-----------------------------------------------------------------------------
Decided == result \notin {Pending, Refused}

\* The slots of the requirements of one weight.
SlotsOf(weight) == {byName[definition[k].name] : k \in {j \in DOMAIN definition :
                                                    definition[j].weight = weight}}

\* A gate passes only on evidence: everything it requires was produced,
\* applied, passed and is still current.
PassIsEvidence ==
  result.verdict = "pass" =>
    /\ ready /\ current
    /\ SlotsOf("required") \subseteq
         {[is |-> "report", stale |-> FALSE, axes |-> <<"applicable", "pass">>]}

=============================================================================
