# A TLA+ verification of bayesmith

bayesmith compiles a declared Bayesian model into a plan (closed-form Gaussian
conditionals, a Gibbs sweep of exact blocks with a NUTS remainder, proposal blocks,
campaigns folded epoch by epoch, ...), runs the plan, and hands back artifacts that
carry their own provenance, which gates then judge. Nearly all of its code is
sequential Python over arrays. What goes wrong in it is not arithmetic alone: a
result that claims more than the run earned, a draw computed from a value that has
moved since, a density read twice or not at all, an audit that stays silent because it
never looked, a fingerprint that did not notice an edit. These modules are about that
part. Numbers are abstracted to what the control flow asks of them (a diagnostic is a
verdict, a fingerprint is a value that is equal or not), except where an algebraic
identity is the point: there the arithmetic is that of small integers or of a prime
field, in which the identity holds exactly or not at all.

All paths below are relative to `src/bayesmith/` of the repository.

## The system

| part | state it keeps | operations | who it talks to |
|---|---|---|---|
| model tracing: `graph/trace.py`, `graph.py`, `nodes.py` | `_STACK`, the process-global list of recorders; each recorder's nodes and plates | `const`, `det`, `sample`, `observe`, `plate`, `joint_prior`, `trace` | the model function calls back into the primitives, and may call `trace` again |
| graph evaluation and reduction: `graph/evaluate.py`, `reduction.py`, `dispatch/collapse.py` | none | joint density, marginal reduction, collapse of a whole block | reads a `Graph`; supplies the evidence terms a partition has to respect |
| plans: `dispatch/plan.py`, `classify.py`, `costs.py`, `execute.py`, `exact/gls.py`, `exact/solve.py` | an `InferencePlan`; inside a call the iterate of a reweighting | `compile`, `sample`, `estimate` | asks `exact/` for certificates, numpyro for chains, `optimize/` for a point |
| posterior run: `dispatch/sampling.py`, `artifacts/policies.py` | draws so far, checkpoint list, pass counter, divergence total, clock | `run_mcmc`, `checkpoint_diagnostics` | numpyro's `MCMC`; `_run_posterior` in `dispatch/task.py` turns how it stopped into a record |
| factor partition and sweep: `dispatch/factor.py`, `affinity.py`, `factor_runtime.py` | a `FactorPlan`; inside a sweep the values of all latents, the key, the hoisted precisions | `factor_partition`, `declared_partition`, `sample_factors`, `estimate_factors` | certificates from `exact/`, the remainder from numpyro |
| proposals: `exact/proposals.py`, `exact/gibbs.py`, `dispatch/proposal_sampling.py`, `auto_proposals.py`, `reweight.py` | a chain's state; a second batch loop | kernels of a block, `_collect`, `select_proposals`, reweighting of a bank | beside the sweep and the batch loop |
| log determinants: `marginal/_logdet_*.py` | a `TraceLogPlan` and the points it was kept for | the ladder, plan, certify, audit | called by the densities of a sampler |
| campaigns: `dispatch/streaming.py`, `marginal/` | the running block of a fold | route, compress, fold, chain with a smoother | reads a `Graph` |
| exact linear algebra: `exact/` | none | affinity check, blocks, precisions, solves, log space | supplies certificates to plans, sweeps, campaigns |
| optimization: `optimize/` | the iterate of a descent | `fit`, polish, certificate | called by `estimate` |
| diagnosis: `diagnose/`, `dispatch/preflight.py`, `initialization.py` | none | structure certificates, Fisher, identifiability, sensitivity, MAP; the look before a sample | reads a `Graph`; `preflight` is part of a task |
| tasks: `dispatch/task.py`, `artifacts/tasks.py` | none beyond the plan; refusals are values | `compile_task`, `execute_task` | everything above; mints the artifacts |
| artifacts: `artifacts/` | immutable records: id, revision, fingerprints, lifecycle, parents; files | mint, `changed_fingerprints`, `invalidate_meta`, dump, load | held by the caller; there is no registry of artifacts |
| gates: `artifacts/gates.py`, `reports.py` | none | `aggregate_gate` over slots | reports of checks |
| evaluation: `evaluation/`, `dispatch/evidence.py`, `predictive.py` | within a call the slots or replicates so far | `run_model_checks`, simulation-based calibration, evidence with its audit of the priors, forward draws | executes predictive and simulation tasks, hands slots to a gate |
| amortized estimators: `amortize.py`, `dispatch/amortized.py` | within a training the parameters and the best of them so far | create, train, encode, decode | reads a bank of simulations; is stored beside the artifacts |
| the rest: `cumulants/`, `bridge/`, `distributions.py` | see "Not modelled" | | |

The flow of one use: a model function is traced to a graph; a task over that graph
is compiled to a plan or refused; the plan is executed, perhaps through a factor
sweep and a batched chain; the result carries the plan's fingerprints; checks judge
it; a gate aggregates what the checks said. Later the caller edits data or model,
and the fingerprints have to say which of the artifacts in hand no longer stand.

What is hard, and hence what the properties are about:

* one stack of recorders for the whole process: nesting, exceptions, threads;
* two batch loops, written apart, that stop for one of four reasons while three counters
  and a clock move, and a record written afterwards from what the loop left behind;
* values hoisted out of a sweep, and covariances kept from one iterate of a reweighting,
  that are used after they may have moved;
* several passes that each take some latents: every one has to end up in one block, and
  none under an evidence term in an exact block;
* audits and certificates that are silent for two reasons: nothing is wrong, or nothing
  was looked at (a NaN lost in a maximum, a probe never made);
* slots that arrive in any order, are missing, errored, stale or inapplicable, and
  one answer that must not be "pass" for lack of evidence;
* artifacts that outlive what they were computed from, and files that outlive the
  process and the release that wrote them.

## Modules

| module | models | state and actions |
|---|---|---|
| `Trace` | `graph/trace.py`, `Graph.__check_init__` | `stack` is `_STACK`, `recorders` every `_Recorder`; `crew` the threads that trace; `frames` the trace calls each is inside; `call` a primitive between its check and its append. `Enter`, `DeclareNode`, `DeclarePlate`, `Commit`, `JointPrior`, `Return`, `Raise`, each of any thread |
| `PrivateTraces` | the abstract promise of `trace`: a list of one's own | `Open`, `Record`, `Close` |
| `SamplingLoop` | `run_mcmc`, `checkpoint_diagnostics`, the termination part of `_run_posterior` | one `Batch` per turn of the loop, `Refuse`, `Report` |
| `Planning` | what `compile` finds out about an exact block: classification, condition sweep, attainable tolerance, costs and scoreboard; the certificate of a fit | operators |
| `PlanRun` | `plan.py`, `execute.py`, `gls.py`, around `SamplingLoop` | `Compile`, then one of `SampleByChain`, `SampleExactly`, `StartGLS`, `EstimateRefused`, `Fit`; `Run` is the next step of a begun call |
| `Reduction` | `reduce_with_evidence`, `Graph.__check_init__`, `log_joint`, `_collapsed`, `marginal_log_density`, `discover_affinity` and the boundary check inside `compile`, the rows of `assemble_exact` | `graph` is the `Graph` in hand, `handle` whether it is wrapped in a `ReducedGraph`, `plan` its `InferencePlan` by blocks. `ReduceByHand`, `Collapse`, `Unwrap` (`as_graph`), `Compile` |
| `FactorSweep` | the partition and `sample_factors`, `estimate_factors` | `Derive` or `Declare` a plan, `Start`, one `Update` per exact block, `ToRemainder`, `Remainder`, `EndSweep` |
| `ChainLaw` | the kernels of `proposals.py` and `gibbs.py` as what they do to a law over states; `chain_diagnostics` as what it says of each site | `Draw` pushes the whole law forward by one draw |
| `Proposals` | `select_proposals`, `compile_proposals`; `_collect` | `Gates`, `Seed`, `Single`, `Singles`, `Merge`, `Settle`; of the loop `Prepare` and `Turn`, an implementation of `SamplingLoop` |
| `LogDet` | the nine rungs and the methods they run; plans made at one point, run at others and audited | `Dispatch`; `PlanStep` |
| `TaskRun` | `compile_task`, `execute_task` and the gates they ask | `planned` is the `PlannedTask` in hand, `answer` what the last call returned, `source` the last posterior, `x64` the ambient configuration. `CompileTask`, `ExecuteTask`, `SetPrecision`, `Read` |
| `Predictive` | `dispatch/predictive.py` | `RefuseDraws`, `Replicate`, `PriorNode`, `PointwiseLogLikelihood` |
| `Preflight` | `preflight.py`, `initialization.py` | `Begin`, `Attempt`, `Anchor`, `NoAnchor`, `JointGeometry`, per block `JeffreysAtAnchor`, `JeffreysAtProbe`, `PriorShift`, then `Order` |
| `Fitting` | `optimize/`, `reweight.py` | `StartFit`, `Step`, `Reached`, `Polish`, `Polished`, `Land`; the gap screen of an outer loop as an operator over a trace of changes |
| `Gate` | filing of slots and `aggregate_gate` | `FileByHand`, `DecideByHand` |
| `ModelChecking` | `evaluation/gate.py` over `Gate` | `Carry`, `NoneLeft`, `MakePredictive`, `MakeSimulation`, `Check`, `Conclude` |
| `Calibration` | `evaluation/sbc.py` | `Calibrate`, a replicate at a time |
| `EvidenceAdmission` | the audit of priors and conditionals in `dispatch/evidence.py`, and the two gates of `task.py` that read it | operators |
| `Evaluation` | the three above as their callers meet them | `Judge`, `Calibrate`, `AskForEvidence`, `GateTheEvidence` |
| `Lifecycle` | fingerprints, revisions and retirement; where `task.py` and `evaluation/` mint artifacts | `Edit`, `Plan`, `Run`, `Predict`, `Judge`, `Invalidate` |
| `Archive` | `artifacts/_codec.py`: canonical encoding, class registry, dump and load | `Import`, `BeginDump`, `StartWriting`, `FinishWriting`, `Replace`, `AbandonDump`, `OpenFile`, `LoadArtifact`, of any process; `OlderRelease`, `NewerRelease`, `Damage` |
| `Amortized` | `amortize.py`, `dispatch/amortized.py` | `Train`, `Descend`, `Finished`, `Shelve`, `Rebind` (a name comes to mean something else), `Restore` |
| `Records`, `Filing` | what the constructors of `artifacts/` admit; what the executors put into them | a task is posed, planned, run and filed |
| `EpochFold` | `fold_epochs`, `chain_marginal` | `Start`, `Fold`, `Advance`, `Finish` |
| `Campaign` | `streaming.py`, `factorize.py`, `campaign.py` over `EpochFold` | `TryPlate`, `Offer`, `Compress`, `EpochStep` |
| `Integral` | the abstract promise of a fold: densities enter once, latents leave once | `Step` |
| `CampaignAudit` | `compress.py`, `sqrtinfo.py`, `diagnostics.py` of `marginal/`: what is asked of the terms and summaries once the data are gone | `Night` compresses a night and drops its data; then one question, `Concluded` with its answer: coherent and template modes, held-out scores, shrinkage, systematic floors, latents integrated out |
| `Affinity` | `check_linearity` | `JudgeLeaf`, `Unusable`, `EndPoint` |
| `ExactBlock` | `block.py`, `gaussian.py`, `precision.py` with its circulants, `solve.py`, `fisher.py`, `correct.py`, the covariance `gls.py` carries | `Build`, `Sweep`, `Refused` |
| `LogSpace` | `loglinear.py` | `ReadNode`, `EndReading`, `BuildLogOperator` |
| `Structure` | `diagnose/structure.py` | `Trace`, one equation at a time; `Certified` is what the walk says |
| `Diagnosis` | the reports of `diagnose/`, the pilot of `plan.py` | `Refuse`, `StartMap`, `NewtonStep`, `EndMap`, `Diagnose`, `Counterfactual` (a prior replaced), `Pilot` (may a pilot veto a switch of strategy) |
| `MCPlanRun`, `MCRequests`, `MCArtifacts`, `MCSamplers`, `MCLinearGaussian` | instances for TLC | constants and symmetry. All but the first gather several components and look at one of them at a time, while the others stay as they begin |
| `PlanRun_proofs`, `Trace_proofs`, `Requests_proofs`, `Evaluation_proofs`, `Lifecycle_proofs`, `Samplers_proofs`, `LinearGaussian_proofs`, `Campaign_proofs` | theorems | |

Abstractions a reader should know of:

* **Trace.** A model function is anything: at each step it may declare a node with
  any handles it could hold (also those of other traces), open another trace, return
  or raise. A refused primitive leaves no trace in the state, so it is no step. Node
  densities, shapes and values are left out.
* **SamplingLoop, Proposals.** Draw number *i* of the chain is the number *i*, so "one
  chain without gap" can be said of segments. What a checkpoint's metrics say is
  chosen freely; what the loop does with the answer is exact. `mcmc` stands for the
  numpyro object: a first call warms up, a later one continues from `last_state`.
* **Planning, PlanRun.** A condition number `100^s` is its size `s`; tolerances, residuals
  and machine epsilons are exponents of ten. A point of the block is a member of `Points`,
  the covariance there a member of a finite scale. A fit lands on a quadratic of two
  variables with integer coefficients, so that the distance its certificate bounds can be
  computed.
* **Reduction.** What a density evaluates to is left out; a reader of a graph is the set
  of densities it adds up. A term remembers what its `log_density` stands for: `removed`,
  the latents integrated out, and `carries`, the densities inside the integral. Code
  keeps neither, which is why a density can go missing unnoticed. `ReduceByHand` is the
  documented use: the term holds exactly what is taken out with it.
* **FactorSweep.** The certificates (affine, log-affine, jointly so, covariance reads) are
  facts of the model, constrained only as the graph constrains them. A latent's value is
  the time it was last written, so that a stale read is a visible difference. HMCGibbs,
  NUTS and the draw itself are external.
* **ChainLaw.** Two latents of two values each; the target, the proposals and the law are
  whole numbers, so that "leaves the target as it is" is an equation between integers.
* **LogDet.** A matrix is what the checks find out about it.
* **TaskRun.** A task is a kind and the set of unusual things it asks for; a graph is
  the route dispatch finds for it and at most one thing that is odd about it. One
  operator stands for each gate of `task.py`, asked in the code's order, so that what is
  blamed first is checked too. A run is named by the function that makes the draws, the
  record by what `_run_record` and `_sample_warnings` write.
* **Predictive.** A number drawn is known by its stream: the key, how many are drawn with
  it, and which of them it is. Equal streams are equal noise.
* **Gate, ModelChecking.** Messages are left out, finding codes and their order are kept.
  One call meets at most `MaxTroubles` things that are wrong. A numeric check that can
  decide may decide either way.
* **Calibration.** A rank is the pair of the replicate whose parameters were ranked and the
  one whose data the draws came from.
* **EvidenceAdmission.** A prior is what the quadrature returns over five windows: integers,
  `One` of them a mass of one. A conditional's verdict is a function of what it reads.
* **Lifecycle.** A digest is 0 or 1: edits flip a slot. `under` is history that no
  code sees: the inputs the artifact really was computed from. There is no registry of
  artifacts, so `held` stands for what all callers hold together.
* **Archive.** A file is an envelope of payload, digest, version and format; `intents` is
  history, what each file was written to say. The registry of classes is one per program.
  A value is a tree no deeper than `Deepest`, which may be past the depth the codec reads
  (`MaxDepth`); encoding, decoding and meaning are functions of the level. `Means` says what a
  value is without encoding it, `Values` which trees a program can hold at all.
* **Filing.** A number is its sign, or why it is none. What a run measures is free.
* **EpochFold, Campaign.** A row is the density it belongs to, a column the latent it stands
  for. What an array shows only when it is computed is a trouble of the model.
* **Affinity.** What is kept of a departure is the side of its tolerance it is on, and
  whether it is finite or under the roundoff floor. Under correlated noise a sample that is affine to
  the bit carries the whitened departure of its neighbours; `_reported` leaves it at zero
  (`linearity.py:206`), so silence speaks of samples that depart themselves.
* **CampaignAudit.** Two columns survive, of small integers; what is not an integer is a
  numerator and a denominator. A sample that was not taken is noise whatever it holds.
* **Amortized.** Parameters are the number of the step that made them, whether they are finite,
  and their loss on the split held out. The gradient of an empty batch is zero: nothing moves.
* **ExactBlock, Diagnosis.** Arithmetic over small integers, and over the field of 211 elements:
  a solve is exact there, and what a report says can be compared with what is so. A complex latent is
  two columns and one entry, which is why `propagate_covariance` refuses its block (`fisher.py:530`);
  the same block with a pair of real numbers is carried.
* **Structure.** A program computes in a field that is a constant of the module (five elements in
  the run, any in the theorem); what is not algebra is any function. Latents outside the block are inputs,
  so a certificate is judged at each of their values; the flatness certificate claims only the one
  it was handed (`structure.py:387`).
* **Preflight.** A prediction is a polynomial of two latents, so its derivatives can be written
  down; a graph has at most three rows (`MaxRows`), so a sum over them can be too. A row that was not seen
  informs of nothing, neither of its mean nor of its noise.
* **Fitting.** Densities are whole numbers over a short grid, so that weights and means are exact.
* **LogSpace.** A density is a label, of a sample as declared or of its factors in log space.

## Runs

| run | question | bounds, and why they are enough |
|---|---|---|
| `plan_run` | what may a stop reason, a record, the kept draws, a reweighted answer, an attainable tolerance, a scoreboard and a certificate claim, and does every call answer? | caps 0, 3 and 8 (refused; below every minimum; several batches), batch sizes 1 and 3 (dividing and not), one or two passes in a row, divergence bounds 0 and 1; three points of the block (centre, probe, where a solve leads), the least on which a covariance can move unseen; two latents outside; four families of graphs, each varying what one question is about |
| `scoreboard` | (violation) does the cost strategy never stop a compile? | as above |
| `requests` | what is refused, what runs, what a record says of it; what a gate's pass, a calibration, an evidence, a reduced graph, a forward draw, a look before sampling (`FindingsAreSo`) and a fit with its screen (`FitsAreOfTheirPoint`) may claim | two unusual requests in one task meet every pair of options the code reads together; gates of two requirements show every precedence between two outcomes; two carried reports are the least with a duplicate; three replicates against a floor of two; three latents, so that a conditional can be read through another; graphs of four nodes: a latent integrated, a second conditioned on it, a deterministic node and an observation between them; two terms, the least for one to disturb another; changes from -2 to 4 against tolerances 1 to 8 on both sides of what a screen lets pass |
| `artifacts` | what do fingerprints notice, in any order of editing, compiling, running, judging and retiring; does a file, and a restored estimator, say what was stored (`RestoredIsWhatWasStored`); do fingerprints differ exactly where meanings do, before and after every registration (`FingerprintsFollowMeaning`); is an accepted run filed? | five records make a chain of plan, posterior, predictive plan, prediction and one retirement; two edits can change two slots, or change one back; two processes, two files and one damage make every race on a path; values nested to the depth the codec reads and one past it; two losses, the least with a better one |
| `factor_sweep` | is every partition sound, does every draw read the state it is conditioned on, does every chain keep its target and is every site of it judged (`ChainsAreAsRecorded`), is the second batch loop a batch loop, is a selection and a log determinant fit to run? Does each caller of nested and failing traces get a graph of its own declarations, as if it had a private list (`TracesArePrivate` is the refinement), and what survives two threads on one stack (`BindsWhatWasPassed`)? | every structure of three latents over one observed node, the least with a pair joined and a third apart; two observed nodes for the sweeps, one warmup and two kept; problems of two orders for the ladder; one move between a plan and its audit; two trace calls and two names: one nesting or one sequence, a parent, a child and a name clash, two declarations or joint priors under one thread, one under two, which is one race |
| `changed_threshold` | (violation) can a report be retired when its threshold is edited? | three records: a plan, its result and a report |
| `offered_plate` | (violation) is a plate the plan offers compressed, but for unconstrained epochs? | two latents, one observed node, two plates, one trouble |
| `evidence_rows` | (violation) does the log evidence of a fully exact graph count every density? | three nodes: one latent with its data, one observation without a latent |
| `linear_gaussian` | is every term of a campaign the marginal it stands for, is silence of the affinity check judgement, does a block solve its conditional and carry its spread (`SolvesAreExact`), does log space keep the posterior, is what the walk certifies affine, are reports, pilots and the audit of a campaign so (`DiagnosesAreSo`)? | two latents, two plates, two epochs, chains of up to three (a first, a middle, a last link); two points, two probe scales, two leaves, the least in which one maximum can hide another; two samples under every mask; programs of two equations over five elements; two nights, and a look two steps to either side of every column |
| `log_jacobian` | (violation) is the recorded Jacobian the difference of the two log densities? | two nodes, two samples |
| `predictive_streams` | (violation) is the noise of two observed nodes of one draw their own? | three nodes, two draws |
| `masked_sensitivity` | (violation) is the rest term what remains of `log_joint`? | two rows, one unseen |

Deadlock is checked except in the runs `artifacts`, `factor_sweep`, `changed_threshold`, `evidence_rows`,
`predictive_streams` and `masked_sensitivity`, where a behaviour simply stops once its
bound on calls, records, sweeps or terms is used up.

**Fairness.** `PlanSpec` assumes weak fairness of `Run`: a call that has begun is
straight-line code of one thread, and the interpreter executes whatever step is enabled.
It is used for `Answers` only (a begun call ends in an answer). Callers are free to stop,
so no other module assumes fairness.

**What the violations show.** Seven statements of the repository's own text do not hold of its code.

* `dispatch/plan.py:841` says the cost strategy returns `None` rather than raising;
  a canonical correlation that rounds to one, or a condition number that is not finite,
  raises out of `dispatch/costs.py:113`.
* `dispatch/evidence.py:360` says that for a whole-graph-exact model the number is the model's
  log evidence; an observation that no latent reaches contributes no row (`:239`).
* `exact/loglinear.py:163` says the recorded Jacobian is the difference of two log joints;
  it is summed over masked samples too (`:463`).
* `dispatch/predictive.py:26` says that density and generator are one object; all observed
  nodes of one draw are sampled with one key (`:135`), so two of one shape get the same noise.
* `docs/artifacts.md:299` says that the evaluation slot retires reports, a changed threshold among
  the reasons; `_report` (`evaluation/diagnostics.py:123`) gives a report the fingerprints of its result,
  no producer fills that slot, and `invalidate_meta` refuses since nothing changed. A digest a caller
  puts there himself shows as a change whether the threshold moved or not. `StaleInputsAreDetected` is
  about the other slots, and says so.
* `dispatch/streaming.py:131` says that unconstrained epochs are the one refusal a route cannot
  anticipate, `:72` that an offered plate will run (its test, that available must mean it runs); data
  with a mask and a covariance that is not one diagonal per epoch are offered and refused
  (`marginal/campaign.py:398`, `:420`, `compress.py:147`). `RouteIsTheOnePlate` says what does hold: of an
  offered plate the fold has nothing left to refuse but its noise and its pivots.
* `diagnose/sensitivity.py:725` says the rest term is what remains of `log_joint`; it ignores
  `observed_mask` (`:732`).

Met while modelling, without a run of their own:

* *Claims.* A prediction pushed forward from an uncorrected posterior is recorded with the exact
  target fidelity (`dispatch/task.py:2889`). Carried reports are
  filed as current without a look at their lifecycle (against `docs/artifacts.md:316`). `invalidate_meta`
  records nothing on what it retires, so one revision 0 can be retired twice (`artifacts/base.py:866`).
  `preflight.py:276` reports a collapsed factor run as "joint_sampling". `normalization_audit_report`
  does not ask whether the graph is the one its evidence is of (`evaluation/evidence.py:145`).
* *Masks and curvature.* Identifiability and `JeffreysPrior.check_identified` count masked rows;
  only the caller inside preflight guards `prior_sensitivity` against masks. `local_block(priors=True)`
  loses the cross-curvature of a prior over two latents (`local.py:288`).
* *Numbers.* `max(movement, nan)` drops a covariance that is not a number (`exact/gls.py:427`);
  a correlation just above one makes a split cost negative; NaN draws rank 0 in a calibration; `_newton`
  reports success on a tiny backtracked step; `max_reweights=1` never converges; without its guard a `gcr`
  estimate may return what is not finite as converged.
* *Words.* `held_out_z` documents the rank of a night as its degrees of freedom (`diagnostics.py:387`)
  and takes the row count, so no property speaks of them. `pilot.py:154` says that a column which never
  moved can only inflate a reading, hence only veto; it inflates the linear reading too, which the other
  has to exceed sevenfold, so it may hide a veto: of unmoved columns `DiagnosesAreSo` says only that no
  switch is made that was not proposed. `amortize.py:270` says what a best step of zero means; where
  nothing is left to train on the first step moves nothing, has a loss, and is reported as one. `dispatch/amortized.py:143` says that a lambda or a function of the prompt is refused, but encoding
  records its name and only decoding refuses it; `train_posterior` moves the standardization too.
* *Admitted, then raised.* A vectorized chain on a sweep, `ess_floor` on a factor plan, `collapse` on a
  `gcr+mh` block; latent names with whitespace, which make the plan record raise; `np.float64`
  bounds, which policies accept and the codec refuses.

## Proofs

TLAPS checks these for every value of the constants that satisfies the named assumptions.
Each is a theorem of its component's own specification.

| theorem | property | argument |
|---|---|---|
| `PlanRun_proofs!Typing` | `TypeOK` of `SamplingLoop` | inductive as it stands; one lemma (`CollectTypes`) for a turn of the loop |
| `ConvergedStopIsJustified`, `ConvergedRecordIsEarned` | `ConvergedTail`, `ConvergedIsEarned` | `ConvergedInv`: the counter `consecutive` never exceeds the length of the run of passes at the end of `checkpoints`. The properties say nothing while the loop runs, so they are not inductive |
| `DrawsAreOneChain` | `OneChain` | `ChainInv` also relates `mcmc.at` to `count`, where the next batch starts |
| `SpentStaysSpent` | `SpentIsSpent` | `ExpiredInv`: once the clock was seen to expire the loop is left. An action property, proved of each step |
| `PlannedChainsKeepTheLoop` | the four above, of `PlanSpec` | `Waiting`: until a chain is asked for, the loop stands at its beginning; then every step of the plan is a step of the loop or leaves it alone |
| `AnswersBelongTogether`, `PlansDeliver` | `SolvesAreCurrent`, `AttainablePlansDeliver` | `SolveInv`: the plan is the one compiled from the model in hand, and a reweighting that stands still does so at a solve of its own point. The second adds that a maximum over finite sizes bounds each of them |
| `CertificatesBound` | `CertificateIsABound` | `FitInv`: a fit is judged where it landed; and a chain of polynomial inequalities from residual, floor and slope to the decrement |
| `Trace_proofs!Typing` | `TraceTypeOK` | inductive; one lemma for each way a recorder changes |
| `EdgesBind` | `BindsWhatWasPassed` | `BindsInv`: every node on any recorder, and every primitive in flight, holds handles of that recorder only. Uniqueness and order then come from the graph's own validation. For any number of threads |
| `DeclarationsStayHome` | `NodesStayHome` | `HomeInv`: the stack is the one thread's frames. The property speaks of one thread that traces (`OneThread`, of the crew, which never changes); of two the same is false |
| `TracingIsPrivate` | `TracesArePrivate` | refinement: `HomeInv` and `CallInv` make each step of `Trace` a step of `PrivateTraces` or a stutter, where one thread traces; where two do the mapping is to no calls at all |
| `TypeCorrect`, `DensitiesBalance` | `TypeOK` of `Reduction`, `EveryDensityOnce` | `IInv`: each probabilistic node is retained and in no term, or dropped and in exactly one. A reduction moves the nodes of one region from the first case to the second |
| `LatentsAreTakenOutWhole` | `ReductionsAreComplete` | `MInv`: the graph stays well formed, every term is closed and the marginal of what it carries, and a compiled plan is complete. What is reached through deterministic nodes is the least set closed under them, so any closed set bounds it |
| `PassesAreExamined` | `PassMeansExamined` | `CheckInv`: what the slots filed so far say of the artifacts they were made from (`RunnerInv`), or of the slots arrived (`HandInv`, a gate filled by hand); lemmas on what `aggregate_gate` makes of them |
| `CalibrationIsOfAll` | `JudgedOverEveryReplicate` | `LedgerInv`: the counters and the ranks add up to the replicates so far, and each rank pairs a truth with its own data |
| `EvidencesAreOfDensities` | `EvidenceIsOfDensities` | `EvidenceInv`: what is admitted passed both gates; and lemmas, with arithmetic on the increments of five windows, on what the gates let through |
| `TasksAreObeyed`, `CertificatesAreEarned` | `TaskIsObeyed`, `CertifiedIsEarned` | `TaskInv`: the plan in hand is one dispatch finds for the task or one the task spelt out. One lemma per executor; lemmas on a first refusal among several |
| `PriorsAreIndependent` | `PriorDrawsAreIndependent` | `DrawsInv`: a stream carries the position of the node that read it |
| `TheProposalLoopIsASamplingLoop` | `CollectIsASamplingLoop` | refinement: `CollectInv` types a call and says that nothing is warmed up before something is drawn; then every `Turn` is a step of `SamplingLoop`, whose theorems hold of `_collect` too |
| `DeterminantsCanBeReliedOn` | `DeterminantsHold` | `DeterminantInv`: `LadderInv` (the dispatcher is past only those rungs whose premise fails, and a premise that holds has what its method checks again) and `PlanInv` (a plan has the order of a certificate that stands, and a point counts as audited only if its audit passes) |
| `SelectionIsSafe` | `SelectionHolds` | `SelectInv`: the policies stand and share no latent, and a latent is in a merged group exactly if a policy before the turn names it |
| `TranslationKeepsThePosterior` | `ReadingKeepsThePosterior` | `LogInv`: the nodes read so far are split into translated and kept, and the Jacobian counts the samples of exactly the translated ones |
| `SilenceCanBeTrusted` | `SilenceIsJudgement` | `AffinityInv`: while probes are made, what is open, undecided and warned of is of the probes made; lemmas say that a maximum of columns forgets neither a NaN nor a mark. Of samples that depart: what correlated noise carries elsewhere is beyond the property |
| `TermsAreMarginals` | `TermIsTheMarginal` | `FoldInv` and `MarginalInv`: at each phase the rows counted are exactly those of the epochs entered, once, the integrals those of the latents gone, and the columns those of the block in hand |
| `TheFoldIntegrates` | `Integrates` | refinement of `Integral`, by the same invariant: a latent leaves only when every density that reads it has entered |
| `TheRouteIsTheOnePlate` | `RouteIsTheOnePlate` | `RouteInv`: every plate tried so far is accepted or refused, and why. Lemmas on the first refusal among two, three and five |
| `SweepSolvesExactly`, `SweepReadsTheState` | `SolvedBlocksAreExact`, `DrawsReadTheState` | `SweepInv`: a plan that is not refused came from the passes or was declared, and stays within the boundary of the evidence terms. Lemmas follow each pass: what it joins is affine jointly, what it leaves alone is left to a later one. The second adds that a block whose precision is hoisted has a covariance that reads no other latent |
| `WhatRunsIsFiled` | `AcceptedRunsAreFiled` | `FilingInv`: a task in hand was asked, of latents that can be named, and the posterior it draws on holds each of them equally often. One lemma per executor and per constructor |
| `EstimatorsAreTheirBest` | `EstimatorsAreSo`, of `RestoredIsWhatWasStored` | `AmortizedInv`: the best kept so far is the first of the steps so far that no other is better than (where no step had a simulation it is none or the first), and the shelf holds the estimator that was trained. Lemmas on what a qualified name finds |
| `LoadsAreWhatWasDumped` | `LoadedIsWhatWasDumped`, of `RestoredIsWhatWasStored` | `ArchiveInv`: the registry is one (`Registries`), a process owns the file it writes (`Busy`), and the file the path names is `Sound`: whole and written by a known release, or altered and it shows, or of a release that is refused. The property speaks of the last load only, so it is not inductive. It rests on `RoundTrip`: what any registry encodes, any later one decodes to the same meaning, by level of nesting and one lemma per kind of value; `OlderIsDecoded` does the same with fields left out |
| `RestoredAsStored` | `RestoredIsWhatWasStored` | both halves together |
| `FingerprintsAreMeanings` | `FingerprintsFollowMeaning` | `PayloadsAreMeanings`: one meaning has one payload (`OneFingerprint`, by level of nesting; listing by name forgets the order), and one payload has one meaning, since both come back from it |
| `VerdictsAreSound` | `TheVerdictIsSound` | `SolveInv` again, and inequalities between products of prices: a cost read at its worst against the others at their best |
| `CertifiedProgramsAreAffine` | `CertifiedIsAffine` | `Known`: every variable traced so far is soundly bounded (degree zero does not move with the block, degree one moves affinely, `zero` is nothing). One lemma per operation, from the laws of a field alone |
| `FitsStandAtTheirPoint` | `FitsAreOfTheirPoint` | `FitInv`: the history belongs to the descent begun (`Begun`, `Descends`), and once it has arrived the value is known and has only come down since (`Arrived`) |
| `ToldBeforeSampling` | `FindingsAreSo` | `LookInv`: each finding has a place, and the look is past all it has reported, so nothing is said twice and nothing is skipped. A Lagrange identity shows that the information of weighed rows has no negative determinant, so the one that is reported is the one of the rows that were seen wherever derivatives are trusted, and a short rank is never left unresolved there; and where the walk certifies, slopes and weights do not move with the block |
| `StalenessShows` | `StaleInputsAreDetected` | `HonestInv`: a record's fingerprints are those of the inputs it was computed from, a revision says what its original said, and a prediction agrees with the posterior its plan names. The property compares with the inputs as they are; the invariant with what no code remembers |

Assumptions, each named in the module that declares the constant: `PolicyAssumption` and
`PoliciesAssumption` (caps, minima and counts are naturals, batches and counts positive, as
`StoppingPolicy` enforces), `WorldsAssumption` and `LandingsAssumption` (sizes are
measurements, numbers are integers, a floor that is called proven is one),
`TraceAssumption`, `SizesAssumption`, the two named `BoundsAssumption`, `MaxAsksAssumption`, `AFewDraws`
(bounds are naturals), `ReplicatesAssumption`, `OneAssumption`, `ValuesAssumption`,
`QuestionsAssumption` (an evidence is asked of a well-formed graph), `ParametersAssumption`,
`SeedsAssumption`, `LadderConfigs`, `Orders` and `Scales` (the order of a trace series grows with its
bound and its rank), `DataNodesAssumption`, `CountsArePositive`, `GraphsAssumption`, `CallsAssumption`,
`LatentsAssumption` (each declared once), `FactsAssumption` (a covariance reads what its node descends
from), `TablesAssumption`, `ProbeAssumption` and `CountsAssumption` (of a sweep), `FilingAssumption` and
`RequestsAssumption` (names in an order, without a double), `CostsAssumption` (prices are counts, and a
cost that is finite stays within the range of a float), `FieldAssumption` (the program computes in a field;
`diagnose/structure.py` calls its own argument one about real arithmetic), `FitAssumption` and
`FitsAssumption` (a fit asks for densities over two data, over a
reference whose own is one or two where it is supported),
`PreflightAssumption` and `InquiriesAssumption` (a graph of one to three rows, blocks that are not
empty, a chain), `LossesAssumption` and `TrainingsAssumption` (what a training counts is whole, its embedding is one of
five kinds, and a loss that is a number is less than infinity), `MaxDepthAssumption` (depths are
naturals), `ArchiveAssumption` (what is stored is an object, and samples are values a program can
hold: a mapping has a key once, a class was built by its constructor) and `LiteralsAreStrings` (the
names the codec spells are strings, which TLC knows and the provers do not). The modules no theorem
is about name theirs too: `AuditAssumption`, `AField` (bounds are naturals).
TLC evaluates all of them on the runs.

Where an argument goes through a sequence, a chain of ancestors or levels of nesting it picks a
least counterexample (well-foundedness of the naturals) instead of an induction; that a function
defined by levels is the one its definition says is proved the same way (`EncodeAre`, `DecodeAre`).

Only model-checked, and why:

* `Answers`: liveness under fairness.
* `ChainsAreAsRecorded`: a law is pushed through a chain by folds over its states.
* `SolvesAreExact`, `DiagnosesAreSo`: sums over rows and solves modulo a prime are folds; what a fold
  computes for every input needs induction over it.

Bounds that remain in the theorems: the seven classes and five field names of the codec, `MaxRows` (a
graph looked at before sampling has up to three rows), the two data of a density that is fitted, the
two latents of a program and of a certified landing. They are written into the modules: a sum over
any number of rows would be a fold, and what a constructor fills in is written class by class.

## Not modelled, and why

* `cumulants/`: symbolic series over arrays; no state and no protocol.
* `bridge/`, `distributions.py`, packaging, error classes: adapters and re-exports.
* `compiled.py`: called by nothing else in the package.
* Roundoff and `reduced_basis.py`; the square-root arithmetic of a fold; the linear algebra behind
  a log determinant: what they certify enters the models as facts.
* The network of an amortized estimator, its gradients and draws; decoding under another precision.
* The nested sampler, numpyro's chains and the optimizer's update: external, their outcomes free.

## Plan

The components are written in the order their behaviour matters: `SamplingLoop`, `Trace`, the gates,
`Lifecycle`, the factor sweep, `Reduction`, `TaskRun`, then what evaluates, the plans, the
campaigns, the exact route and the estimators; proofs follow the same order. What is left is out of
the provers' reach: what the folds above compute for every input, and liveness.
