------------------------------ MODULE Lifecycle ------------------------------
(***************************************************************************)
(* The life of an artifact: artifacts/identity.py and base.py, with the    *)
(* places in dispatch/task.py and evaluation/ that mint artifacts. A plan  *)
(* is fingerprinted when it is compiled, a result when it is run, a report *)
(* when it judges; meanwhile the caller edits the model, the data and the  *)
(* machine. A caller who holds an artifact may retire it: that appends a   *)
(* revision. Digests are values of a slot; 0 and 1 stand for two of them.  *)
(***************************************************************************)
EXTENDS Integers, Sequences, FiniteSets

CONSTANTS
  MaxEdits,   \* bound: times the caller edits an input
  MaxHeld     \* bound: artifact records made

ASSUME BoundsAssumption == MaxEdits \in Nat /\ MaxHeld \in Nat

VARIABLES
  world,   \* the inputs as they are now, slot by slot
  edits,   \* how often an input was edited
  held     \* every ArtifactMeta made so far, oldest first

vars == <<world, edits, held>>

ModelAndInputs == {"model_source", "graph_structure", "data", "task"}
Slots == ModelAndInputs \cup {"compilation", "evaluation", "environment"}
Kinds == {"plan", "result", "evaluation_report"}

None == -1                       \* a slot that does not apply
World == [Slots -> {0, 1}]
Bundle == [Slots -> {0, 1, None}]

\* _DEFAULT_POLICY, row by row.
Sensitive(kind) ==
  CASE kind = "plan"              -> ModelAndInputs
    [] kind = "result"            -> ModelAndInputs \cup {"compilation"}
    [] kind = "evaluation_report" -> ModelAndInputs \cup {"compilation", "evaluation"}

\* changed_fingerprints: an appearing digest is a change too.
Changed(before, after) == {s \in Slots : before[s] # after[s]}

Affected(kind, changed) == changed \cap Sensitive(kind) # {}

\* The bundle an artifact of this kind would carry were it made from scratch
\* now. No producer fills the evaluation slot.
Fresh(kind) ==
  [s \in Slots |->
     IF s \in ModelAndInputs \cup {"compilation"} THEN world[s]
     ELSE IF s = "environment" /\ kind # "plan" THEN world[s] ELSE None]

\* (history) under: the inputs the artifact really was computed from.
Record == [id : 1 .. MaxHeld, revision : {0, 1}, kind : Kinds, bundle : Bundle,
           source : 0 .. MaxHeld, status : {"current", "invalidated"},
           changed : SUBSET Slots, under : World, seen : World]

\* new_artifact_meta: a new id, revision 0, current. source is the position
\* of the record it was made from (0: none).
NewMeta(kind, bundle, source, under) ==
  [id |-> Len(held) + 1, revision |-> 0, kind |-> kind, bundle |-> bundle,
   source |-> source, status |-> "current", changed |-> {}, under |-> under,
   seen |-> world]

Make(kind, bundle, source, under) ==
  /\ Len(held) < MaxHeld
  /\ held' = Append(held, NewMeta(kind, bundle, source, under))
  /\ UNCHANGED <<world, edits>>

Held(kind) == {i \in DOMAIN held : held[i].kind = kind}

\* The results that hold posterior draws: those of plans that read none.
Posteriors == {r \in Held("result") : held[held[r].source].source = 0}

Init == world = [s \in Slots |-> 0] /\ edits = 0 /\ held = <<>>

-----------------------------------------------------------------------------
\* The caller changes the model, the data, the task, a threshold, the machine.
Edit(slot) ==
  /\ edits < MaxEdits /\ edits' = edits + 1
  /\ world' = [world EXCEPT ![slot] = 1 - @]
  /\ UNCHANGED held

\* compile_task: the four input slots and the compilation, as they are now. A
\* predictive task names the posterior it will read (0: another task).
Plan(source) == Make("plan", Fresh("plan"), source, world)

\* (bug) the run takes its fingerprints afresh
RunBundle_Afresh(p) == Fresh("result")

\* _run_record: the plan's own bundle, and the machine it runs on.
RunBundle(p) == [held[p].bundle EXCEPT !["environment"] = world["environment"]]

RanUnder(p) == [held[p].under EXCEPT !["environment"] = world["environment"]]

\* execute_task on a plan that reads no posterior. Whether the plan has been
\* retired is not asked.
Run(p) ==
  /\ p \in Held("plan") /\ held[p].source = 0
  /\ Make("result", RunBundle(p), p, RanUnder(p))

\* (bug) the draws are pushed forward whatever they were drawn from
Agrees_Always(posterior, plan) == TRUE

\* _posterior_source_refusal: the draws and the plan are of one model and data.
Agrees(posterior, plan) ==
  \A s \in {"data", "graph_structure", "model_source"} :
    posterior.bundle[s] = plan.bundle[s]

\* _run_predictive on a supplied posterior: exactly the version the task names.
Predict(p, r) ==
  /\ p \in Held("plan") /\ held[p].source # 0 /\ r \in Posteriors
  /\ LET named == held[held[p].source]
     IN held[r].id = named.id /\ held[r].revision = named.revision
  /\ Agrees(held[r], held[p])
  /\ Make("result", RunBundle(p), p, RanUnder(p))

\* A check, or a gate, over a result: the report follows the result's identity.
Judge(r) ==
  /\ r \in Held("result")
  /\ Make("evaluation_report", held[r].bundle, r,
          [held[r].under EXCEPT !["evaluation"] = world["evaluation"]])

\* invalidate_meta's refusals; "nothing changed" affects nothing.
MayRetire(meta, after) ==
  /\ meta.status = "current"
  /\ Affected(meta.kind, Changed(meta.bundle, after))

\* invalidate_meta by whoever holds record i, against the inputs as they are.
Invalidate(i) ==
  /\ i \in DOMAIN held /\ Len(held) < MaxHeld
  /\ LET meta == held[i]   after == Fresh(meta.kind)
     IN /\ MayRetire(meta, after)
        /\ held' = Append(held,
             [meta EXCEPT !.revision = @ + 1, !.status = "invalidated",
                          !.changed = Changed(meta.bundle, after), !.seen = world])
  /\ UNCHANGED <<world, edits>>

Next ==
  \/ \E slot \in Slots : Edit(slot)
  \/ \E source \in {0} \cup Posteriors : Plan(source)
  \/ \E p \in DOMAIN held : Run(p)
  \/ \E p, r \in DOMAIN held : Predict(p, r)
  \/ \E r \in DOMAIN held : Judge(r)
  \/ \E i \in DOMAIN held : Invalidate(i)

Spec == Init /\ [][Next]_vars

-----------------------------------------------------------------------------
\* Against the inputs as they are now, invalidate_meta would not refuse.
Retirable(meta) == Affected(meta.kind, Changed(meta.bundle, Fresh(meta.kind)))

\* Provenance is honest, in every slot some producer fills, which are all but the
\* evaluation slot (ThresholdsRetireReports): when an input an artifact really was
\* computed from has moved, in such a slot its kind depends on, its fingerprints
\* show it, through any chain of plan, run and report, however long ago the plan
\* was compiled; and if the model, graph or data fingerprints of a posterior moved,
\* what was predicted from it can be retired too.
StaleInputsAreDetected ==
  /\ \A i \in DOMAIN held :
       (\E s \in Sensitive(held[i].kind) \ {"evaluation"} : held[i].under[s] # world[s])
         => Retirable(held[i])
  /\ \A i \in Held("result") \ Posteriors :
       LET posterior == held[held[held[i].source].source]
       IN Changed(posterior.bundle, Fresh("result"))
            \cap {"data", "graph_structure", "model_source"} # {} => Retirable(held[i])

\* What docs/artifacts.md:299 says of the evaluation slot: a changed threshold
\* invalidates the report it was judged under. _report and the gate give a report
\* the fingerprints of the result it judges, where that slot is empty, so nothing
\* in the report or in a fresh bundle tells the two thresholds apart.
ThresholdsRetireReports ==
  \A i \in Held("evaluation_report") :
    held[i].under["evaluation"] # world["evaluation"] => Retirable(held[i])
=============================================================================
