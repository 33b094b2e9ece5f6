------------------------------ MODULE TaskRun ------------------------------
(***************************************************************************)
(* dispatch/task.py with the executors it calls: compile_task answers a    *)
(* task with a plan or a refusal, execute_task runs the plan and records   *)
(* what ran. A caller compiles and executes tasks about one graph, and may *)
(* switch 64-bit arithmetic on and off in between; a posterior in hand can *)
(* be pushed forward by a second task.                                     *)
(*   A task is a kind and the set of unusual things it asks for. A graph   *)
(* is the plan dispatch finds for it and what may be odd about it. How a   *)
(* chain goes (its diagnostics, its clock) is free; SamplingLoop has the   *)
(* loop itself, Lifecycle the fingerprints.                                *)
(***************************************************************************)
EXTENDS Naturals, FiniteSets, FiniteSetsExt

CONSTANT MaxAsks  \* bound: unusual requests in one task

ASSUME MaxAsksAssumption == MaxAsks \in Nat

None == "none"

(***************************************************************************)
(* Plans. exact is the method of the exact block, sampled whether some     *)
(* latents are left to NUTS. A factor plan keeps a second, single-block    *)
(* plan for collapse=True: inner is the method of its exact block.         *)
(***************************************************************************)
Single(exact, sampled) ==
  [type |-> "single", exact |-> exact, sampled |-> sampled, inner |-> None, corrected |-> TRUE]
Factor(inner, remainder) ==
  [type |-> "factor", exact |-> None, sampled |-> remainder, inner |-> inner, corrected |-> TRUE]
Proposal(remainder, corrected) ==
  [type |-> "proposal", exact |-> None, sampled |-> remainder, inner |-> None, corrected |-> corrected]

\* What compile(graph) finds: one exact block over all latents or some, none,
\* or several blocks. Single(None, FALSE) is a graph without latents.
Routes == {Single("gcr", FALSE), Single("gcr+snis", FALSE), Single("gcr", TRUE),
           Single("gcr+mh", TRUE), Single(None, TRUE), Single(None, FALSE)}
            \cup {Factor(inner, rest) : inner \in {"gcr", "gcr+mh"}, rest \in BOOLEAN}

\* FactorRuntimePlan.collapse_plan, or the plan itself.
CollapsePlan(r) == IF r.type = "factor" THEN Single(r.inner, TRUE) ELSE r

Oddities == {"fine",
  "unidentified",   \* an operator without module and qualname
  "dense_noise",    \* no diagonal Gaussian observation
  "improper",       \* a prior whose mass is not one
  "degenerate"}     \* a conditional prior that is no density everywhere

\* Which structured proposals the automatic selection finds: none, for some
\* latents, or for all of them.
Structured == {"none", "some", "all"}

\* The automatic selection looks only at plans of NUTS and gcr+mh blocks.
Extensible(r) == r.type = "single" /\ r.exact \in {None, "gcr+mh"} /\ r.sampled

Graphs ==
  {g \in [route : Routes, odd : Oddities, structured : Structured] :
     /\ g.structured # "none" => Extensible(g.route) /\ g.odd # "dense_noise"
     /\ g.odd = "dense_noise" => g.route.exact = None /\ g.route.type = "single"
     /\ g.odd = "improper" => g.route # Single(None, FALSE)
     /\ g.odd = "degenerate" => g.route.sampled}

(***************************************************************************)
(* Tasks.                                                                  *)
(***************************************************************************)
PosteriorAsks == {
  "bad_geometry", "bad_auto",             \* malformed nuts_options, auto_proposals
  "no_auto", "proposals", "uncorrected",  \* auto_proposals=False, proposals with and without MH
  "collapse", "geometry",                 \* collapse=True, nuts_options
  "parallel", "vectorized",               \* chain_method
  "solver", "ess_floor", "no_fallback",   \* solver_tolerance, ess_floor, nuts_on_collapse=False
  "no_initialization", "values", "bad_values",
  "order_of_blocks", "order_of_marginal", \* block_order
  "diagnostic",                           \* a required finding that is not passed
  "checkpoints", "criteria", "deadline", "bad_deadline"}

\* What each kind of task can ask for. mean, newton and descent are the point
\* estimates: a posterior mean, and a MAP by either method.
AsksOf == [
  posterior  |-> PosteriorAsks,
  mean       |-> {"undeclared"},
  newton     |-> {"undeclared", "bad_method"},
  descent    |-> {"undeclared"},
  evidence   |-> {"repeat"},
  predictive |-> {},
  simulation |-> {"from_posterior", "no_draws"}]

\* Requests that fill one field twice.
Conflicts == {{"no_auto", "bad_auto"}, {"geometry", "bad_geometry"},
  {"proposals", "uncorrected"}, {"parallel", "vectorized"},
  {"no_initialization", "values"}, {"no_initialization", "bad_values"},
  {"values", "bad_values"}, {"order_of_blocks", "order_of_marginal"},
  {"deadline", "bad_deadline"}}

TaskKinds == DOMAIN AsksOf
Tasks == UNION {
  {[kind |-> k, asks |-> A] : A \in
    {A \in SUBSET (AsksOf[k] \cup {"other_backend", "unknown_option"}) :
       Cardinality(A) <= MaxAsks /\ \A pair \in Conflicts : ~(pair \subseteq A)}} :
  k \in TaskKinds}

Asks(t, things) == t.asks \cap things # {}

VARIABLES
  taskGraph, \* the graph every task is about
  x64,       \* does the ambient configuration carry 64 bits?
  planned,   \* the PlannedTask in hand, or NoPlanned
  source,    \* the last posterior result, what a second task reads of it
  answer     \* what the last call answered, or NothingAnswered

taskVars == <<taskGraph, x64, planned, source, answer>>

NoPlanned   == [task |-> [kind |-> None, asks |-> {}], runtime |-> Single(None, FALSE)]
NoSource == [run |-> None, method |-> None, chained |-> FALSE]
NothingAnswered == [status |-> None]
Refusal(t, premise) == [status |-> "refused", task |-> t, premise |-> premise]
Raised(t) == [status |-> "raised", task |-> t]

(***************************************************************************)
(* compile_task: the refusals, in their order.                             *)
(***************************************************************************)
\* A gate answers the premise that fails, or None; of several the first speaks.
RefuseIf(fails, premise) == IF fails THEN premise ELSE None
FirstRefusal(gates) ==
  LET failing == {i \in DOMAIN gates : gates[i] # None}
  IN IF failing = {} THEN None ELSE gates[Min(failing)]

\* _evidence_precompile_refusal: the only gate that reads the environment.
EvidencePrecompileRefusal ==
  FirstRefusal(<<RefuseIf(~x64, "evidence_requires_x64"),
                 RefuseIf(taskGraph.odd = "improper", "evidence_prior_proper")>>)

\* _option_refusal, and _method_refusal of a MAP.
OptionRefusal(t) ==
  RefuseIf(Asks(t, {"unknown_option", "bad_geometry", "bad_method"}), "task_options_recognised")

\* _refuse_before_compiling, and the check of auto_proposals after it.
RefusalBeforeCompiling(t) ==
  FirstRefusal(<<
    RefuseIf(Asks(t, {"other_backend"}), "backend_supported"),
    OptionRefusal(t),
    RefuseIf(Asks(t, {"undeclared"}), "named_latents_declared"),
    IF t.kind = "evidence" THEN EvidencePrecompileRefusal ELSE None,
    RefuseIf(taskGraph.odd = "unidentified", "model_source_identified"),
    RefuseIf(Asks(t, {"bad_auto"}), "task_options_recognised")>>)

\* (bug) auto_proposals=False is accepted and not read
RuntimePlan_Unread(t) ==
  IF \/ t.kind # "posterior" \/ taskGraph.structured = "none"
     \/ Asks(t, {"no_initialization", "bad_values", "order_of_blocks",
                 "order_of_marginal", "collapse", "parallel", "solver", "ess_floor"})
    THEN taskGraph.route
    ELSE Proposal(taskGraph.structured = "some", TRUE)

\* select_proposals: the plan dispatch found, or one it extends.
RuntimePlan(t) ==
  IF \/ t.kind # "posterior" \/ taskGraph.structured = "none"
     \/ Asks(t, {"no_auto", "no_initialization", "bad_values", "order_of_blocks",
                 "order_of_marginal", "collapse", "parallel", "solver", "ess_floor"})
    THEN taskGraph.route
    ELSE Proposal(taskGraph.structured = "some", TRUE)

\* compile_proposal_plan: what a schedule of explicit proposals cannot have.
ProposalsExclude == {"collapse", "parallel", "solver", "ess_floor", "bad_values"}

\* _evidence_structure_refusal.
EvidenceStructureRefusal(r) ==
  FirstRefusal(<<
    RefuseIf(r.exact \notin {"gcr", None}, "evidence_residual_method_unsupported"),
    RefuseIf(r.exact = None /\ ~r.sampled, "evidence_residual_integral_required")>>)

\* _evidence_option_refusal: an exact evidence repeats and reconstructs nothing.
EvidenceOptionRefusal(t, r) ==
  RefuseIf(~r.sampled /\ Asks(t, {"repeat"}), "task_options_recognised")

\* _evidence_conditional_prior_refusal, of the latents a residual integral visits.
ConditionalPriorRefusal(r) ==
  RefuseIf(r.sampled /\ taskGraph.odd = "degenerate", "evidence_conditional_prior_proper")

\* _evidence_capability_refusal: no release ships a residual sampler.
CapabilityRefusal(r) == RefuseIf(r.sampled, "capability_unavailable")

\* _evidence_route_refusal.
EvidenceRouteRefusal(t, r) ==
  FirstRefusal(<<
    RefuseIf(r.type = "factor", "evidence_residual_method_unsupported"),
    EvidenceStructureRefusal(r), EvidenceOptionRefusal(t, r),
    ConditionalPriorRefusal(r), CapabilityRefusal(r)>>)

\* Whether collapse=True finds an exact block to integrate out of a chain.
Collapsed(t, r) ==
  Asks(t, {"collapse"}) /\ CollapsePlan(r).exact # None /\ CollapsePlan(r).sampled

\* All latents drawn independently: there is no chain to start or to stop.
Independent(r) == r.type = "single" /\ ~r.sampled

\* (bug) the collapsed run is taken to keep the order of the blocks
PolicyRefusal_Blocks(t, r) ==
  \/ Asks(t, {"order_of_marginal"})
  \/ Asks(t, {"diagnostic", "bad_values", "bad_deadline"})
  \/ Asks(t, {"collapse"}) /\ Asks(t, {"checkpoints", "values"})
  \/ Independent(r) /\ Asks(t, {"checkpoints", "criteria", "deadline"})

\* _posterior_policy_refusal.
PolicyRefusal(t, r) ==
  \/ Asks(t, {IF Collapsed(t, r) THEN "order_of_blocks" ELSE "order_of_marginal"})
  \/ Asks(t, {"diagnostic", "bad_values", "bad_deadline"})
  \/ Asks(t, {"collapse"}) /\ Asks(t, {"checkpoints", "values"})
  \/ Independent(r) /\ Asks(t, {"checkpoints", "criteria", "deadline"})

\* What is asked of a task once its plan is known.
LateRefusal(t, r) ==
  CASE t.kind = "mean" -> RefuseIf(r.exact = None \/ r.sampled, "whole_graph_exact_solve")
    [] t.kind = "evidence"  -> EvidenceRouteRefusal(t, r)
    [] t.kind = "posterior" -> RefuseIf(PolicyRefusal(t, r), "task_options_recognised")
    [] OTHER -> None

Refuse(t, premise) == answer' = Refusal(t, premise) /\ planned' = NoPlanned

\* The plan is known: the late gates refuse the task, or it is planned.
Settle(t, r) ==
  IF LateRefusal(t, r) # None
    THEN Refuse(t, LateRefusal(t, r))
    ELSE planned' = [task |-> t, runtime |-> r] /\ answer' = NothingAnswered

\* Explicit proposals: whether they fit the graph is the graph's to say.
CompileProposals(t) ==
  \/ Refuse(t, "task_options_recognised")
  \/ /\ ~Asks(t, ProposalsExclude) /\ taskGraph.route # Single(None, FALSE)
     /\ \E remainder \in BOOLEAN : Settle(t, Proposal(remainder, ~Asks(t, {"uncorrected"})))

CompileTask(t) ==
  /\ planned = NoPlanned /\ answer = NothingAnswered
  /\ LET early == RefusalBeforeCompiling(t)
     IN IF early # None THEN Refuse(t, early)
        ELSE IF Asks(t, {"proposals", "uncorrected"}) THEN CompileProposals(t)
        ELSE Settle(t, RuntimePlan(t))
  /\ UNCHANGED <<taskGraph, x64, source>>

(***************************************************************************)
(* execute_task.                                                           *)
(***************************************************************************)
\* _dispatch_sample of a single-block plan: the runs that can be tried, none
\* when the call raises. A whole-graph SNIS draw may fall back to NUTS.
SingleRuns(t, r) ==
  CASE r.exact = None /\ r.sampled -> {"nuts"}
    [] r.exact = None /\ ~r.sampled -> {}
    [] r.exact # None /\ r.sampled /\ Asks(t, {"collapse"}) ->
         IF r.exact = "gcr" THEN {"marginal"} ELSE {}
    [] r.exact # None /\ r.sampled /\ ~Asks(t, {"collapse"}) ->
         IF Asks(t, {"vectorized"}) THEN {} ELSE {"sweep"}
    [] r.exact = "gcr" /\ ~r.sampled -> {"iid"}
    [] r.exact = "gcr+snis" /\ ~r.sampled ->
         {"weighted"} \cup {e \in {"nuts"} : ~Asks(t, {"no_fallback"})}

\* The sample method of the three plan types.
Runs(t, r) ==
  CASE r.type = "single" -> SingleRuns(t, r)
    [] r.type = "factor" /\ Asks(t, {"collapse"}) -> SingleRuns(t, CollapsePlan(r))
    [] r.type = "factor" /\ ~Asks(t, {"collapse"}) ->
         {e \in {"factor"} : /\ ~Asks(t, {"ess_floor"})
                             /\ Asks(t, {"vectorized"}) => ~r.sampled
                             /\ Asks(t, {"geometry"}) => r.sampled}
    [] r.type = "proposal" -> {e \in {"proposal"} : Asks(t, {"geometry"}) => r.sampled}

\* The method a factor or proposal plan carries.
RuntimeMethod(r) ==
  CASE r.type = "factor" -> "factor_gibbs"
    [] r.type = "proposal" /\ r.corrected -> "proposal_mh"
    [] r.type = "proposal" /\ ~r.corrected -> "proposal_approximate"

\* (bug) a plan is asked for its exact block whatever type it has
PlannedMethod_Exact(r) == IF r.exact # None THEN r.exact ELSE "nuts"

\* _planned_method.
PlannedMethod(r) ==
  IF r.type # "single" THEN RuntimeMethod(r)
  ELSE IF r.exact # None THEN r.exact ELSE "nuts"

\* Posterior.method, as each run labels its own draws.
Method(r, run) ==
  CASE run = "nuts" -> "nuts"
    [] run = "marginal" -> "collapse"
    [] run \in {"sweep", "iid", "weighted"} -> r.exact
    [] run \in {"factor", "proposal"} -> RuntimeMethod(r)

\* (bug) the plan alone answers it
RanAChain_Plan(r, method) == r.type # "single" \/ r.sampled

\* _ran_a_chain: the plan answers it, except for the fallback of SNIS.
RanAChain(r, method) == r.type # "single" \/ r.sampled \/ method = "nuts"

\* The run record of a result, and the representation it comes with: what the
\* properties read. run is the function that made the values.
Result(run, method, chained, exact, warned) ==
  [status |-> "done", task |-> planned.task, run |-> run,
   method |-> method, chained |-> chained, warned |-> warned, x64 |-> x64,
   fidelity |-> IF exact THEN "exact" ELSE "approximate"]

\* _run_posterior.
RunPosterior(t, r) ==
  \/ /\ Runs(t, r) = {}
     /\ answer' = Raised(t) /\ UNCHANGED source
  \/ \E run \in Runs(t, r) :
       LET method == Method(r, run)
       IN /\ answer' = Result(run, method, RanAChain(r, method),
                              r.corrected, method # PlannedMethod(r))
          /\ source' = [run |-> run, method |-> method, chained |-> RanAChain(r, method)]

\* _run_posterior_mean: a solve that reaches no fixed point raises.
RunPosteriorMean(t, r) ==
  /\ answer' \in {Raised(t), Result("solve", r.exact, FALSE, TRUE, FALSE)}
  /\ UNCHANGED source

\* _run_map: map_estimate looks at the configuration before Newton starts and
\* at the point it ended in; fit takes its steps and certifies nothing.
RunMap(t) ==
  /\ answer' \in
       CASE t.kind = "newton" /\ taskGraph.route = Single(None, FALSE) ->
              {Refusal(t, "graph_has_latents")}
         [] t.kind = "newton" /\ taskGraph.route # Single(None, FALSE) ->
              {Refusal(t, "local_mode_certified")}
                \cup {a \in {Result("solve", "newton", FALSE, TRUE, FALSE)} : x64}
         [] t.kind = "descent" ->
              {Raised(t), Result("solve", "descent", FALSE, FALSE, FALSE)}
  /\ UNCHANGED source

\* (bug) the gates of the compilation are taken to hold still
RunEvidence_Trusting(t, r) ==
  /\ answer' = Result("assembly", "exact_gaussian_assembly", FALSE, TRUE, FALSE)
  /\ UNCHANGED source

\* _run_evidence: both gates again, under the configuration of this call.
RunEvidence(t, r) ==
  LET refused == FirstRefusal(<<EvidencePrecompileRefusal, EvidenceRouteRefusal(t, r)>>)
  IN /\ answer' = IF refused # None THEN Refusal(t, refused)
                  ELSE Result("assembly", "exact_gaussian_assembly", FALSE, TRUE, FALSE)
     /\ UNCHANGED source

\* Forward draws, where the observations have a diagonal Gaussian to draw from.
Forward(t, run, method, chained) ==
  answer' = IF taskGraph.odd = "dense_noise" THEN Refusal(t, "predictive_noise_unsupported")
            ELSE Result(run, method, chained, TRUE, FALSE)

\* _run_predictive: the draws of the posterior in hand are pushed forward.
RunPredictive(t) ==
  /\ IF source = NoSource THEN answer' = Raised(t)
     ELSE Forward(t, "pushforward", source.method, source.chained)
  /\ UNCHANGED source

\* _run_simulation: the same, or draws from the prior or from fixed values.
RunSimulation(t) ==
  IF Asks(t, {"from_posterior"}) THEN RunPredictive(t)
  ELSE /\ IF Asks(t, {"no_draws"}) THEN answer' = Raised(t)
          ELSE Forward(t, "forward", "forward", FALSE)
       /\ UNCHANGED source

ExecuteTask ==
  /\ planned # NoPlanned /\ answer = NothingAnswered
  /\ LET t == planned.task
         r == planned.runtime
     IN CASE t.kind = "posterior" -> RunPosterior(t, r)
          [] t.kind = "mean" -> RunPosteriorMean(t, r)
          [] t.kind \in {"newton", "descent"} -> RunMap(t)
          [] t.kind = "evidence" -> RunEvidence(t, r)
          [] t.kind = "predictive" -> RunPredictive(t)
          [] t.kind = "simulation" -> RunSimulation(t)
  /\ UNCHANGED <<taskGraph, x64, planned>>

\* The caller switches jax_enable_x64.
SetPrecision ==
  /\ x64' = ~x64
  /\ UNCHANGED <<taskGraph, planned, source, answer>>

\* The caller reads the answer, and keeps the plan for another run or drops it.
Read ==
  /\ answer # NothingAnswered
  /\ answer' = NothingAnswered
  /\ planned' \in {planned, NoPlanned}
  /\ UNCHANGED <<taskGraph, x64, source>>

TaskInit ==
  /\ taskGraph \in Graphs
  /\ x64 \in BOOLEAN
  /\ planned = NoPlanned /\ source = NoSource /\ answer = NothingAnswered

TaskNext == (\E t \in Tasks : CompileTask(t)) \/ ExecuteTask \/ SetPrecision \/ Read

TaskSpec == TaskInit /\ [][TaskNext]_taskVars

-----------------------------------------------------------------------------
Chains == {"nuts", "sweep", "marginal", "factor", "proposal"}

Done(kinds) == answer.status = "done" /\ answer.task.kind \in kinds
Asked(things) == answer.task.asks \cap things # {}

\* What the plan announces: the run it makes when nothing is collapsed.
Announced(r) ==
  IF r.type # "single" THEN r.type
  ELSE IF r.exact = None THEN "nuts"
  ELSE IF r.sampled THEN "sweep"
  ELSE IF r.exact = "gcr" THEN "iid" ELSE "weighted"

\* The record tells what ran: a chain exactly when one did, although "gcr" labels
\* both a sweep and independent draws and the SNIS fallback grows a chain no plan
\* announced; for a prediction what its source was; and a posterior is
\* accompanied by executed_method_differs_from_plan exactly when another sampler
\* ran than the one its plan announced.
RecordTellsWhatRan ==
  /\ Done({"posterior"}) =>
       /\ answer.chained <=> answer.run \in Chains
       /\ answer.warned <=> answer.run # Announced(planned.runtime)
  /\ Done({"predictive", "simulation"}) =>
       (answer.chained <=> answer.run = "pushforward" /\ source.run \in Chains)

\* The task is obeyed, on each of the five executors, and the record tells what
\* ran: a stopping rule or a clock meets a chain, a block order the order that
\* ran; and nobody is moved to another sampler against a word the task said, to
\* NUTS without consent, to proposals where they were turned off, or to an
\* uncorrected target unless that was asked for.
TaskIsObeyed ==
  /\ RecordTellsWhatRan
  /\ Done({"posterior"}) =>
       /\ Asked({"checkpoints", "criteria", "deadline"}) => answer.run \in Chains
       /\ Asked({"values"}) => answer.run # "marginal"
       /\ Asked({"order_of_blocks"}) => answer.run # "marginal"
       /\ Asked({"order_of_marginal"}) => answer.run = "marginal"
       /\ taskGraph.route.exact # None /\ ~taskGraph.route.sampled /\ Asked({"no_fallback"})
            => answer.run \in {"iid", "weighted", "proposal"}
       /\ Asked({"no_auto"}) /\ answer.run = "proposal" => Asked({"proposals", "uncorrected"})
       /\ answer.fidelity = "approximate" <=> Asked({"uncorrected"})

\* An evidence is reported only for a whole-graph linear-Gaussian block with
\* normalised priors, and it and a certified mode only by a run that itself had
\* 64 bits, whatever the configuration was when the task was compiled.
CertifiedIsEarned ==
  Done({"evidence", "newton"}) =>
    /\ answer.x64 /\ taskGraph.route # Single(None, FALSE)
    /\ answer.task.kind = "evidence" =>
         taskGraph.odd # "improper" /\ taskGraph.route = Single("gcr", FALSE)
=============================================================================
