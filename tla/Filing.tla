------------------------------- MODULE Filing -------------------------------
(***************************************************************************)
(* dispatch/task.py as a maker of records: a task is constructed, its plan *)
(* is recorded, its executor runs, and what came out is put into a result. *)
(* Every record checks itself, and one that will not be built raises: the  *)
(* task was never asked, or the run is over and lost. What a run measures  *)
(* is free, numbers that are not finite included.                          *)
(***************************************************************************)
EXTENDS Records

CONSTANTS
  Models,      \* the graphs: the names of their latents, in order
  Requests,    \* families of tasks
  MaxDraws     \* bound: draws per chain, and chains

\* A latent is declared once; a request is a task of one of the kinds, and the
\* names it gives are in an order.
ASSUME FilingAssumption ==
  /\ MaxDraws \in Nat
  /\ \A m \in Models : m # <<>> /\ m \in Seq(Range(m)) /\ IsInjective(m)
ASSUME RequestsAssumption ==
  \A family \in Requests : \A t \in family :
    /\ t.kind \in {"posterior", "evidence", "predictive", "mean", "map", "simulation"}
    /\ t.kind \in {"mean", "map"} => t.names \in Seq(Range(t.names))
    /\ t.kind = "predictive" =>
         t.replicated_sites \in Seq(Range(t.replicated_sites)) /\ t.latent_sites \in Seq(Range(t.latent_sites))
    /\ t.kind = "simulation" =>
         /\ t.latent_sites \in Seq(Range(t.latent_sites)) /\ t.observed_sites \in Seq(Range(t.observed_sites))
         /\ t.parameter_source.kind \in {"prior", "fixed", "posterior_result"}

VARIABLES
  model,      \* the latents of the graph
  stage,      \* "start", "posed", "planned", "filed", "refused", "raised" or "lost"
  task,       \* the task in question
  outcome,    \* (history) what the run measured
  result,     \* what was filed
  source      \* the last posterior filed: what later tasks draw on

filing == <<model, stage, task, outcome, result, source>>

Nothing == [kind |-> "none"]
Observed == <<"y">>

FilingInit ==
  /\ model \in Models
  /\ stage = "start" /\ task = Nothing /\ outcome = Nothing /\ result = Nothing /\ source = Nothing

TaskAdmits(t) ==
  CASE t.kind = "posterior" -> PosteriorTaskAdmits(t)
    [] t.kind = "evidence" -> EvidenceTaskAdmits(t)
    [] t.kind = "predictive" -> PredictiveTaskAdmits(t)
    [] t.kind \in {"mean", "map"} -> PointEstimateTaskAdmits(t)
    [] t.kind = "simulation" -> SimulationTaskAdmits(t)

\* _refuse_before_compiling: no backend of this release, or latents that are not
\* the model's.
RefusedBeforeCompiling(t) ==
  \/ t.backend # "auto"
  \/ t.kind \in {"mean", "map"} /\ ~t.all_names /\ ~Range(t.names) \subseteq Range(model)

\* The caller builds a task, and compile_task takes its fingerprint and reads
\* from it whether there is anything to compile.
PoseTask(t) ==
  /\ stage = "start"
  /\ task' = t
  /\ stage' = IF ~TaskAdmits(t) \/ ~TaskHasFingerprint(t) THEN "raised"
              ELSE IF RefusedBeforeCompiling(t) THEN "refused" ELSE "posed"
  /\ UNCHANGED <<model, outcome, result, source>>

(***************************************************************************)
(* The plan record.                                                        *)
(***************************************************************************)
\* _finite_positive, _measured: a number that is none is left out.
FinitePositive(x) == IF x = "positive" THEN x ELSE "none"
Measured(x) == IF Finite(x) THEN x ELSE "none"

Option(key) == [key |-> key, canonical |-> TRUE]

\* _reason_codes: one code per question asked of a block.
ReasonCodes(block) ==
  CASE block.method = "nuts" -> {"outside_exact_block"}
    [] block.method = "gauss_newton" -> {"explicit_proposal_policy", "dense_budget_checked"}
    [] OTHER -> {"affinity_numerically_validated",
                 IF block.kappa = "none" THEN "condition_unmeasured" ELSE "condition_bound_measured"}

\* _block_approximation.
BlockApproximation(t, method) ==
  IF t.kind \in {"posterior", "mean"} THEN {[details |-> <<Option("method")>>]} ELSE {}

\* _block_record.
BlockRecord(t, block) ==
  [names |-> block.names, reason_codes |-> ReasonCodes(block),
   kappa |-> FinitePositive(block.kappa), tolerance |-> FinitePositive(block.tolerance),
   approximation |-> BlockApproximation(t, block.method)]

\* _block_finding.
BlockFinding(block) ==
  [measurements |-> <<Option("kappa_high"), Option("tolerance")>>, grounds |-> ReasonCodes(block)]

\* _plan_record, with the analysis report it was made from.
PlanRecord(t, blocks) ==
  [blocks |-> [i \in DOMAIN blocks |-> BlockRecord(t, blocks[i])],
   analysis_ref |-> "analysis", parent_refs |-> {"analysis"},
   backend |-> t.backend, budget |-> t.budget]

\* Every way to split the latents into blocks, a method and two numbers each.
Block(names, method, kappa, tolerance) ==
  [names |-> names, method |-> method, kappa |-> kappa, tolerance |-> tolerance]
Plans ==
  {<<Block(model, "gcr", kappa, tolerance)>> :
     kappa \in {"none", "positive", "infinite", "nan"}, tolerance \in {"none", "positive", "zero"}}
  \cup {<<Block(SubSeq(model, 1, k), "gcr", "positive", "positive"),
          Block(SubSeq(model, k + 1, Len(model)), m, "none", "none")>> :
          k \in 1 .. Len(model) - 1, m \in {"nuts", "gauss_newton"}}

RecordPlan(blocks) ==
  /\ stage = "posed"
  /\ stage' = IF /\ InferencePlanRecordAdmits(PlanRecord(task, blocks))
                 /\ \A i \in DOMAIN blocks : AnalysisFindingAdmits(BlockFinding(blocks[i]))
                THEN "planned" ELSE "lost"
  /\ UNCHANGED <<model, task, outcome, result, source>>

(***************************************************************************)
(* Results.                                                                *)
(***************************************************************************)
\* _named, _dims: the value as an array of its own, one name per axis.
Array(name, draws) == [name |-> name, draws |-> draws, axes |-> 1]
Arrays(names, draws) == [i \in DOMAIN names |-> Array(names[i], draws)]

\* Those of a sequence that are wanted, in their order.
Only(seq, wanted) ==
  LET among[n \in 0 .. Len(seq)] ==
        IF n = 0 THEN <<>>
        ELSE IF seq[n] \in wanted THEN Append(among[n - 1], seq[n]) ELSE among[n - 1]
  IN among[Len(seq)]

\* _run_record.
RunRecordOf(timing, budget, chained) ==
  [plan_ref |-> [kind |-> "plan"], backend |-> IF chained THEN "numpyro" ELSE "bayesmith",
   budget |-> budget, timing |-> timing, iterations |-> "many",
   approximation |-> [details |-> <<Option("method"), Option("requested_backend")>>],
   sampling_details |-> <<Option("checkpoints"), Option("stopping_policy")>>]

Budget(draws) == [draws |-> IF draws = 0 THEN "zero" ELSE "many", max_iterations |-> "none", seconds |-> "none"]

\* The clock a run reads may be set back while it runs.
Timings == [elapsed : {"positive"}, clock : {"steady", "stepped back"}]

\* A record that will not be built ends the call with its exception.
File(admits, r) ==
  /\ stage' = IF admits THEN "filed" ELSE "lost"
  /\ result' = IF admits THEN r ELSE Nothing

\* (bug) the shape of the chains is what the budget asked for
ChainShape_Asked(o) == <<o.chains, MaxDraws>>

\* As many draws as there are, however the run ended.
ChainShape(o) == <<o.chains, o.total \div o.chains>>

\* DrawsPosterior or WeightedDrawsPosterior, as _run_posterior builds them.
Representation(o) ==
  [weighted |-> o.weighted, draws |-> Arrays(model, o.total), method |-> "gcr",
   chain_shape |-> IF o.chained THEN ChainShape(o) ELSE <<>>,
   log_weights |-> Array("log_weights", o.total),
   ess |-> o.ess, khat |-> Measured(o.khat)]

\* _chain_diagnostics_report: one finding per site, filed only by its name.
ChainDiagnosticsReport == [id |-> "diagnostics", kind |-> "evaluation_report"]

\* What a posterior run brings back: a chain that stopped where it stopped, or
\* independent draws with or without weights. Weights that are not numbers leave
\* no effective sample size.
PosteriorOutcomes ==
  {[kind |-> "posterior", chained |-> TRUE, weighted |-> FALSE, chains |-> c, total |-> c * n,
    ess |-> "positive", khat |-> "none", pointwise |-> p, diagnosed |-> n > 1, timing |-> t] :
     c \in 1 .. MaxDraws, n \in 1 .. MaxDraws, p \in BOOLEAN, t \in Timings}
  \cup {[kind |-> "posterior", chained |-> FALSE, weighted |-> w, chains |-> 1, total |-> n,
         ess |-> e, khat |-> k, pointwise |-> p, diagnosed |-> FALSE, timing |-> t] :
          w \in BOOLEAN, n \in 1 .. MaxDraws, e \in {"positive", "nan"},
          k \in {"positive", "infinite", "nan"}, p \in BOOLEAN, t \in Timings}

RunPosteriorTask(o) ==
  /\ stage = "planned" /\ task.kind = "posterior"
  /\ LET r == [kind |-> "posterior", meta_kind |-> "result", run |-> RunRecordOf(o.timing, Budget(o.total), o.chained),
               representation |-> Representation(o), latent_names |-> model,
               availability |-> IF o.pointwise THEN "pointwise" ELSE "none",
               pointwise |-> IF o.pointwise THEN "array" ELSE "none", pointwise_draws |-> o.total,
               report_refs |-> IF o.diagnosed THEN <<ChainDiagnosticsReport>> ELSE <<>>]
     IN /\ File(PosteriorResultAdmits(r), r)
        /\ source' = IF PosteriorResultAdmits(r) THEN r ELSE source
  /\ outcome' = o /\ UNCHANGED <<model, task>>

\* _selected: the latents the task named, in the order of the graph.
Selected(t) == IF t.all_names THEN model ELSE Only(model, Range(t.names))

PointOutcomes ==
  [kind : {"point"}, residual : {"positive", "zero", "infinite", "nan"}, timing : Timings]

\* _run_posterior_mean: a solve that reached no fixed point has raised.
RunPosteriorMeanTask(o) ==
  /\ stage = "planned" /\ task.kind = "mean"
  /\ \/ stage' = "raised" /\ UNCHANGED result
     \/ LET r == [kind |-> "point", meta_kind |-> "result", run |-> RunRecordOf(o.timing, Budget(0), FALSE),
                  values |-> Arrays(Selected(task), 0), objective |-> "none",
                  gradient_norm |-> "none", residual |-> o.residual]
        IN File(PointEstimateResultAdmits(r), r)
  /\ outcome' = o /\ UNCHANGED <<model, task, source>>

\* The refusal of _map_refused and its like: why, found what, and what to try.
RefusalOf(verdict) ==
  [meta_kind |-> "result",
   grounds |-> {[observed |-> IF verdict = "refused" THEN "canonical" ELSE "none"]},
   remedies |-> {"inspect_the_point"}]

\* _run_map: Newton certifies or refuses, a descent that diverged raises.
RunMapTask(o) ==
  /\ stage = "planned" /\ task.kind = "map"
  /\ \/ LET r == [kind |-> "point", meta_kind |-> "result", run |-> RunRecordOf(o.timing, Budget(0), FALSE),
                  values |-> Arrays(Selected(task), 0), objective |-> "negative",
                  gradient_norm |-> "positive", residual |-> "none"]
        IN File(PointEstimateResultAdmits(r), r)
     \/ stage' = "raised" /\ UNCHANGED result
     \/ /\ stage' = IF RefusalAdmits(RefusalOf("refused")) THEN "refused" ELSE "lost"
        /\ UNCHANGED result
  /\ outcome' = o /\ UNCHANGED <<model, task, source>>

\* How many draws the source holds: all of them are pushed forward.
SourceDraws == source.representation.draws[1].draws

\* _run_predictive. Observed sites it does not know raise, and so do draws it
\* was not given; latents it does not know are left out.
RunPredictiveTask(o) ==
  /\ stage = "planned" /\ task.kind = "predictive"
  /\ LET draws == source.representation.draws
         carried == Only(draws, {a \in Range(draws) : a.name \in Range(task.latent_sites)})
         r == [kind |-> "predictive", meta_kind |-> "result",
               run |-> RunRecordOf(o.timing, Budget(SourceDraws), source.run.backend = "numpyro"),
               source |-> [kind |-> "result"], latent_draws |-> carried,
               replicated_draws |-> Arrays(task.replicated_sites, SourceDraws),
               pointwise_draws |-> SourceDraws]
     IN IF source = Nothing \/ ~Range(task.replicated_sites) \subseteq Range(Observed)
          THEN stage' = "raised" /\ UNCHANGED result
          ELSE File(r.latent_draws \o r.replicated_draws # <<>> /\ PredictiveResultAdmits(r), r)
  /\ outcome' = o /\ UNCHANGED <<model, task, source>>

\* _check_simulation_sites: unlike a prediction's, both kinds of names.
SimulationSitesDeclared(t) ==
  Range(t.latent_sites) \subseteq Range(model) /\ Range(t.observed_sites) \subseteq Range(Observed)

\* _run_simulation: latents from the prior or a posterior are reported, fixed
\* ones travel in the task.
RunSimulationTask(o) ==
  /\ stage = "planned" /\ task.kind = "simulation"
  /\ LET kind == task.parameter_source.kind
         count == IF kind = "posterior_result" THEN SourceDraws ELSE MaxDraws
         r == [kind |-> "simulation", meta_kind |-> "result",
               run |-> RunRecordOf(o.timing, Budget(count), kind = "posterior_result" /\ source.run.backend = "numpyro"),
               parameter_source |-> task.parameter_source,
               latent_draws |-> IF kind = "fixed" THEN <<>> ELSE Arrays(task.latent_sites, count),
               observation_draws |-> Arrays(task.observed_sites, count)]
     IN IF \/ ~SimulationSitesDeclared(task)
           \/ kind = "posterior_result" /\ source = Nothing
           \/ kind = "fixed" /\ task.observed_sites = <<>>
          THEN stage' = "raised" /\ UNCHANGED result
          ELSE File(SimulationResultAdmits(r), r)
  /\ outcome' = o /\ UNCHANGED <<model, task, source>>

EvidenceOutcomes == [kind : {"evidence"}, log_evidence : {"negative", "infinite", "nan"}, timing : Timings]

\* _run_evidence, past its gates: five components that add up.
EvidenceComponents ==
  <<"data_log_normaliser", "residual_quadratic", "prior_log_normaliser", "integral_log_two_pi",
    "block_log_determinant">>
RunEvidenceTask(o) ==
  /\ stage = "planned" /\ task.kind = "evidence"
  /\ LET component(name) == [name |-> name, log_value |-> o.log_evidence, method |-> "closed_form"]
         r == [kind |-> "evidence", meta_kind |-> "result", run |-> RunRecordOf(o.timing, Budget(0), FALSE),
               log_evidence |-> o.log_evidence, standard_error |-> "none",
               exact_components |-> [i \in DOMAIN EvidenceComponents |-> component(EvidenceComponents[i])]]
     IN File(EvidenceResultAdmits(r), r)
  /\ outcome' = o /\ UNCHANGED <<model, task, source>>

\* The caller asks something else.
AskAgain ==
  /\ stage \in {"filed", "refused"}
  /\ stage' = "start" /\ task' = Nothing /\ outcome' = Nothing /\ result' = Nothing
  /\ UNCHANGED <<model, source>>

ForwardOutcomes == [kind : {"forward"}, timing : Timings]

FilingStep ==
  \/ \E family \in Requests : \E t \in family : PoseTask(t)
  \/ \E blocks \in Plans : RecordPlan(blocks)
  \/ \E o \in PosteriorOutcomes : RunPosteriorTask(o)
  \/ \E o \in PointOutcomes : RunPosteriorMeanTask(o) \/ RunMapTask(o)
  \/ \E o \in ForwardOutcomes : RunPredictiveTask(o) \/ RunSimulationTask(o)
  \/ \E o \in EvidenceOutcomes : RunEvidenceTask(o)
  \/ AskAgain

FilingSpec == FilingInit /\ [][FilingStep]_filing

-----------------------------------------------------------------------------
\* What may go wrong with a run so that nothing can be filed of it.
Unfileable(o) ==
  \/ o.timing.clock = "stepped back"
  \/ o.kind = "posterior" /\ o.weighted /\ o.ess = "nan"
  \/ o.kind = "point" /\ task.kind = "mean" /\ ~Finite(o.residual)
  \/ o.kind = "evidence" /\ ~Finite(o.log_evidence)

\* A task that was accepted and ran is not lost between the sampler and its
\* record, however early its chain stopped and whatever was named: only a clock
\* set back, a measurement that is no number, a name that is no code, or a
\* prediction of latents that are not there can do that.
AcceptedRunsAreFiled ==
  stage = "lost" =>
    \/ outcome # Nothing /\ Unfileable(outcome)
    \/ outcome = Nothing /\ \E i \in DOMAIN model : ~Code(model[i])
    \/ /\ task.kind = "predictive" /\ task.replicated_sites = <<>>
       /\ Range(task.latent_sites) \cap Range(model) = {}

=============================================================================
