------------------------------ MODULE Records ------------------------------
(***************************************************************************)
(* The constructors of artifacts/: what tasks.py, policies.py, base.py,    *)
(* results.py, reports.py and refusal.py let into a record. A constructor  *)
(* is the predicate of the fields it does not raise on; fields no property *)
(* tells apart are left out. A number is its sign, or why it is none.      *)
(***************************************************************************)
EXTENDS Naturals, Sequences, FiniteSets, Functions

\* "np_float" is a positive NumPy scalar, "none" a number that is not given.
Finite(x) == x \in {"positive", "zero", "negative"}
OptionalFinite(x) == x = "none" \/ Finite(x)
OptionalPositive(x) == x \in {"none", "positive"}
OptionalNonNegative(x) == x \in {"none", "positive", "zero"}
Duration(x) == x \in {"positive", "zero"}

\* The policies look at the value of a number only.
PolicyPositive(x) == x \in {"positive", "np_float"}

\* Counts, where no arithmetic is done with them.
Count(n) == n \in {"zero", "one", "many"}
OptionalCount(n) == n = "none" \/ Count(n)
PositiveCount(n) == n \in {"one", "many"}

\* Names: a code has no white space in it, a text anything.
Text(name) == name # ""
Code(name) == name \notin {"", "two words"}
SiteNames(names) == IsInjective(names) /\ \A i \in DOMAIN names : Text(names[i])
CodeTuple(names) == IsInjective(names) /\ \A i \in DOMAIN names : Code(names[i])
OptionalSiteNames(names) == names # <<>> /\ SiteNames(names)

\* canonical_value_options and canonical_scalar_options: distinct keys, values
\* that have a canonical form.
Options(pairs) ==
  /\ IsInjective([i \in DOMAIN pairs |-> pairs[i].key])
  /\ \A i \in DOMAIN pairs : Text(pairs[i].key) /\ pairs[i].canonical

\* References: to which artifact, of which kind.
ReportRefs(refs) ==
  /\ \A i \in DOMAIN refs : refs[i].kind = "evaluation_report"
  /\ IsInjective([i \in DOMAIN refs |-> refs[i].id])
ResultRef(ref) == ref.kind = "result"
OptionalData(kind) == kind \in {"none", "data"}

\* NamedArray: a copy of its own, with one name per axis. A subclass that
\* carries more than its numbers is refused, and a dtype without a byte form.
NamedArrayAdmits(array) ==
  /\ Text(array.name) /\ array.storage \notin {"subclass", "object"}
  /\ Len(array.dims) = array.axes /\ \A i \in DOMAIN array.dims : array.dims[i] # ""

NamedValues(arrays) == IsInjective([i \in DOMAIN arrays |-> arrays[i].name])

\* _draw_count: the arrays agree in how many draws they hold.
AgreeInDraws(arrays) ==
  /\ \A i \in DOMAIN arrays : arrays[i].axes >= 1
  /\ \A i, j \in DOMAIN arrays : arrays[i].draws = arrays[j].draws

Draws(arrays) == NamedValues(arrays) /\ AgreeInDraws(arrays)

-----------------------------------------------------------------------------
\* base.py.
BudgetAdmits(b) ==
  /\ OptionalCount(b.draws) /\ OptionalCount(b.max_iterations)
  /\ b.seconds = "none" \/ Duration(b.seconds)

TimingAdmits(t) == Duration(t.elapsed) /\ t.clock # "stepped back"

ApproximationAdmits(a) == Options(a.details)

RunRecordAdmits(run) ==
  /\ run.plan_ref.kind = "plan"
  /\ run.backend # "auto"
  /\ BudgetAdmits(run.budget) /\ TimingAdmits(run.timing) /\ ApproximationAdmits(run.approximation)
  /\ OptionalCount(run.iterations)
  /\ Options(run.sampling_details)

\* policies.py.
ProposalBlockPolicyAdmits(p) ==
  /\ p.names # <<>> /\ SiteNames(p.names)
  /\ p.method \in {"iterative_gls", "bias_corrected_log_linear", "gauss_newton"}
  /\ PositiveCount(p.steps) /\ p.scale = "positive"

\* _proposal_policies: each site in one block.
ProposalPoliciesAdmit(blocks) ==
  /\ \A i \in DOMAIN blocks : ProposalBlockPolicyAdmits(blocks[i])
  /\ \A i, j \in DOMAIN blocks : i # j => Range(blocks[i].names) \cap Range(blocks[j].names) = {}

DiagnosticPolicyAdmits(d) == Count(d.max_parameters) /\ IsInjective(d.required)

\* A mask is of its value's shape; what it lets through is finite.
InitializationPolicyAdmits(p) ==
  /\ PositiveCount(p.max_attempts) /\ PolicyPositive(p.radius)
  /\ \A i \in DOMAIN p.values : NamedArrayAdmits(p.values[i])
  /\ NamedValues(p.values) /\ NamedValues(p.masks)
  /\ \A k \in DOMAIN p.masks :
       \E i \in DOMAIN p.values : p.values[i].name = p.masks[k].name /\ p.values[i].dims = p.masks[k].dims
  /\ \A i \in DOMAIN p.values :
       p.values[i].finite \/ \E k \in DOMAIN p.masks : p.masks[k].name = p.values[i].name /\ p.masks[k].hides

StoppingPolicyAdmits(s) ==
  /\ s.mode \in {"fixed", "checkpoints"} /\ s.min_draws >= 4 /\ PositiveCount(s.batch_size)
  /\ \A bound \in {s.ess_min, s.mcse_mean} : bound = "none" \/ PolicyPositive(bound)

\* tasks.py.
ParameterSourceAdmits(p) ==
  /\ NamedValues(p.values)
  /\ (p.values # <<>>) = (p.kind = "fixed")
  /\ IF p.kind = "posterior_result" THEN p.ref # "none" /\ ResultRef([kind |-> p.ref]) ELSE p.ref = "none"

PosteriorTaskAdmits(t) ==
  /\ Text(t.backend) /\ BudgetAdmits(t.budget)
  /\ OptionalPositive(t.solver_tolerance) /\ OptionalNonNegative(t.ess_floor)
  /\ Options(t.backend_options) /\ ProposalPoliciesAdmit(t.proposals)
  /\ DiagnosticPolicyAdmits(t.diagnostics) /\ StoppingPolicyAdmits(t.stopping)
  /\ InitializationPolicyAdmits(t.initialization)
  /\ \A i \in DOMAIN t.block_order : t.block_order[i] # <<>>

EvidenceTaskAdmits(t) ==
  /\ Text(t.backend) /\ BudgetAdmits(t.budget)
  /\ t.repeat_count = "none" \/ PositiveCount(t.repeat_count)
  /\ Options(t.backend_options)

PredictiveTaskAdmits(t) ==
  /\ ResultRef(t.source) /\ OptionalData(t.prediction_design)
  /\ SiteNames(t.replicated_sites) /\ SiteNames(t.latent_sites)
  /\ t.replicated_sites # <<>> \/ t.latent_sites # <<>>
  /\ Text(t.backend) /\ BudgetAdmits(t.budget) /\ Options(t.backend_options)

PointEstimateTaskAdmits(t) ==
  /\ t.all_names \/ OptionalSiteNames(t.names)
  /\ Text(t.backend) /\ BudgetAdmits(t.budget) /\ Options(t.optimizer_options)

SimulationTaskAdmits(t) ==
  /\ ParameterSourceAdmits(t.parameter_source) /\ OptionalData(t.prediction_design)
  /\ SiteNames(t.latent_sites) /\ SiteNames(t.observed_sites)
  /\ t.latent_sites # <<>> \/ t.observed_sites # <<>>
  /\ Text(t.backend) /\ BudgetAdmits(t.budget) /\ Options(t.backend_options)

\* task_fingerprint: every field but the meta; a NumPy scalar has no encoding.
TaskHasFingerprint(t) ==
  t.kind = "posterior" =>
    "np_float" \notin {t.initialization.radius, t.stopping.ess_min, t.stopping.mcse_mean}

-----------------------------------------------------------------------------
\* reports.py and refusal.py.
PlanBlockRecordAdmits(b) ==
  /\ b.names # <<>> /\ CodeTuple(b.names)
  /\ b.reason_codes # {}
  /\ OptionalPositive(b.kappa) /\ OptionalPositive(b.tolerance)
  /\ b.approximation = {} \/ \A a \in b.approximation : ApproximationAdmits(a)

AnalysisFindingAdmits(f) == Options(f.measurements) /\ f.grounds # {}

\* The analysis report a plan was made from is one of its parents; no parameter
\* is in two blocks.
InferencePlanRecordAdmits(p) ==
  /\ \A i \in DOMAIN p.blocks : PlanBlockRecordAdmits(p.blocks[i])
  /\ \A i, j \in DOMAIN p.blocks : i # j => Range(p.blocks[i].names) \cap Range(p.blocks[j].names) = {}
  /\ p.analysis_ref \in p.parent_refs
  /\ Code(p.backend) /\ BudgetAdmits(p.budget)

RefusalAdmits(r) ==
  /\ r.meta_kind # "evaluation_report"
  /\ r.grounds # {} /\ \A finding \in r.grounds : finding.observed \in {"canonical", "none"}
  /\ r.remedies # {}

\* results.py.
DrawsPosteriorAdmits(p) ==
  /\ p.draws # <<>> /\ Draws(p.draws) /\ Text(p.method)
  /\ p.chain_shape # <<>> =>
       /\ \A k \in 1 .. 2 : p.chain_shape[k] >= 1
       /\ p.chain_shape[1] * p.chain_shape[2] = p.draws[1].draws

WeightedDrawsPosteriorAdmits(p) ==
  /\ p.draws # <<>> /\ Draws(p.draws) /\ Text(p.method)
  /\ p.log_weights.axes = 1 /\ p.log_weights.draws = p.draws[1].draws
  /\ OptionalNonNegative(p.ess) /\ OptionalFinite(p.khat)

RepresentationAdmits(p) ==
  IF p.weighted THEN WeightedDrawsPosteriorAdmits(p) ELSE DrawsPosteriorAdmits(p)

NamesOf(arrays) == {arrays[i].name : i \in DOMAIN arrays}

PosteriorResultAdmits(r) ==
  /\ r.meta_kind = "result" /\ RunRecordAdmits(r.run) /\ RepresentationAdmits(r.representation)
  /\ r.latent_names # <<>> /\ SiteNames(r.latent_names)
  /\ NamesOf(r.representation.draws) = Range(r.latent_names)
  /\ (r.availability = "pointwise") = (r.pointwise # "none")
  /\ r.pointwise # "none" => r.pointwise_draws = r.representation.draws[1].draws
  /\ ReportRefs(r.report_refs)

EvidenceComponentAdmits(c) == Text(c.name) /\ Finite(c.log_value) /\ Text(c.method)

EvidenceResultAdmits(r) ==
  /\ r.meta_kind = "result" /\ RunRecordAdmits(r.run)
  /\ Finite(r.log_evidence) /\ OptionalNonNegative(r.standard_error)
  /\ \A i \in DOMAIN r.exact_components : EvidenceComponentAdmits(r.exact_components[i])
  /\ IsInjective([i \in DOMAIN r.exact_components |-> r.exact_components[i].name])

PredictiveResultAdmits(r) ==
  /\ r.meta_kind = "result" /\ RunRecordAdmits(r.run) /\ ResultRef(r.source)
  /\ NamedValues(r.latent_draws) /\ NamedValues(r.replicated_draws)
  /\ r.latent_draws \o r.replicated_draws # <<>>
  /\ AgreeInDraws(r.latent_draws \o r.replicated_draws)
  /\ r.pointwise_draws = (r.latent_draws \o r.replicated_draws)[1].draws

PointEstimateResultAdmits(r) ==
  /\ r.meta_kind = "result" /\ RunRecordAdmits(r.run)
  /\ r.values # <<>> /\ NamedValues(r.values)
  /\ OptionalFinite(r.objective)
  /\ OptionalNonNegative(r.gradient_norm) /\ OptionalNonNegative(r.residual)

SimulationResultAdmits(r) ==
  /\ r.meta_kind = "result" /\ RunRecordAdmits(r.run) /\ ParameterSourceAdmits(r.parameter_source)
  /\ NamedValues(r.latent_draws) /\ NamedValues(r.observation_draws)
  /\ r.latent_draws \o r.observation_draws # <<>>
  /\ AgreeInDraws(r.latent_draws \o r.observation_draws)
=============================================================================
