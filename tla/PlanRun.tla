------------------------------- MODULE PlanRun -------------------------------
(***************************************************************************)
(* dispatch/plan.py and dispatch/execute.py: a graph is compiled to an     *)
(* inference plan, and the plan is asked for a sample or for an estimate.  *)
(* A closed-form block is solved once, or reweighted to a fixed point      *)
(* (exact/gls.py); a chain that is given a control is batched by           *)
(* SamplingLoop, whose variables and actions are part of this module. The  *)
(* other way to a point, optimize/'s fit, is a step of its own.            *)
(***************************************************************************)
EXTENDS SamplingLoop, Planning

CONSTANTS
  Worlds,      \* families of models, each with the strategy it is compiled with
  Landings     \* points a fit may end at, with a solve there

\* What a condition number may measure to: a float64 is below 100^155.
Largest == 154
Measurements == 0 .. Largest \cup {Infinity, NaN}

ASSUME WorldsAssumption ==
  \A family \in Worlds : \A world \in family :
    /\ world.model.centre \in Measurements /\ world.model.eps \in Nat
    /\ \A l \in Outside : world.model.swept[l].size \in Measurements

\* What a scoreboard is made from: a norm, two numbers of steps, and condition
\* numbers that are numbers, infinite or none; and a cost of finite parts is
\* below what an overflow is modelled by, its dearest row amplified the most.
WithinReach(inputs) ==
  \A root \in {0, inputs.cond, inputs.marg, inputs.joint} \ {Infinity, NaN} :
    TauOver(inputs.rho) * (11 * Timing.all * (inputs.a * root)
                             + 11 * Timing.A * (inputs.m * Iterations(inputs.x))) < Infinity

ASSUME CostsAssumption ==
  \A family \in Worlds : \A world \in family :
    HasLadder(world.model, world.strategy) =>
      LET inputs == LadderInputs(world.model)
      IN /\ inputs.a \in Nat /\ inputs.rho \in Nat \X Nat
         /\ {inputs.x, inputs.cond, inputs.marg, inputs.joint} \subseteq Nat \cup {Infinity, NaN}
         /\ Priced(inputs) => WithinReach(inputs)

\* A fit is certified up to a positive limit, and a floor that is called proven
\* is no more than the least eigenvalue: dense_floor computes it, and whoever
\* supplies one vouches for it (optimize/certify.py).
ASSUME LandingsAssumption ==
  \A landing \in Landings :
    LET point == landing.point
        solve == landing.solve
    IN /\ landing.limit \in Nat \ {0}
       /\ point.H.a \in Int /\ point.H.b \in Int /\ point.g \in Int \X Int
       /\ solve.x \in Int \X Int /\ solve.floor \in Int
       /\ solve.source \in Proven => solve.floor <= Least(point.H)

VARIABLES
  phase,       \* "start", "planned", "reweighting", "chain" or "done"
  model,       \* the facts of the graph in hand, while anything reads them
  plan,        \* the InferencePlan, likewise
  gls,         \* the loop of iterative_gls
  answer       \* what the last call returned or raised

planning == <<phase, model, plan, gls, answer>>
everything == <<vars, planning>>

Nothing == [kind |-> "nothing"]
Raised(error) == [kind |-> "raised", error |-> error]

\* A Posterior: the sampler, the row of its ledger, and where its draws are
\* weighted, the Gaussian they came from and the one their weights divide by.
Posterior(method, cost, drawn, weighed) ==
  [kind |-> "posterior", method |-> method, cost |-> cost, drawn |-> drawn, weighed |-> weighed]

PlanInit ==
  /\ Init /\ policy = CHOOSE p \in Policy : TRUE
  /\ phase = "start" /\ model = Nothing /\ plan = Nothing /\ gls = Nothing /\ answer = Nothing

Finish(result) == phase' = "done" /\ answer' = result

-----------------------------------------------------------------------------
\* Does the coupling of these blocks have a price?
Prices(m, strategy) == ~HasLadder(m, strategy) \/ Priced(LadderInputs(m))

Plan(m, strategy) ==
  [shape |-> IF m.groups = "none" THEN "sampled" ELSE IF m.all THEN "exact" ELSE "mixed",
   method |-> IF m.groups = "none" THEN "nuts" ELSE Method(m),
   kappa |-> KappaUpper(m), eps |-> m.eps, tol |-> TolFor(KappaUpper(m)), note |-> SweepNote(m),
   ladder |-> IF HasLadder(m, strategy) THEN Ladder(LadderInputs(m)) ELSE Nothing]

\* compile: several exact groups make a factor plan, which FactorSweep is about.
Compile ==
  /\ phase = "start"
  /\ \E family \in Worlds : \E world \in family :
       LET m == world.model
       IN IF m.groups = "many"
            THEN /\ Finish(IF world.strategy = "cost" THEN Raised("ValueError") ELSE [kind |-> "factor plan"])
                 /\ UNCHANGED <<model, plan>>
          ELSE IF ~Prices(m, world.strategy)
            THEN Finish(Raised("ArithmeticError")) /\ UNCHANGED <<model, plan>>
          ELSE /\ model' = m /\ plan' = Plan(m, world.strategy)
               /\ phase' = "planned" /\ UNCHANGED answer
  /\ UNCHANGED <<vars, gls>>

-----------------------------------------------------------------------------
\* _reconciled: the row of the scoreboard that the sampler is.
LedgerRow(method) == IF method = "nuts" THEN "joint" ELSE IF method = "collapse" THEN "collapse" ELSE "split"

Ledger(method) ==
  IF plan.ladder = Nothing THEN Nothing ELSE Reconcile(plan.ladder, LedgerRow(method))

ChainPosterior(method) == Posterior(method, Ledger(method), Nothing, Nothing)

\* A chain is batched where it is given a control, which happens in a task and
\* never to a plan with a scoreboard; from there on nothing reads the plan.
Chain(method, controlled) ==
  IF controlled
    THEN /\ plan.ladder = Nothing
         /\ policy' \in Policy
         /\ phase' = "chain" /\ answer' = [kind |-> "pending", collapsed |-> method = "collapse"]
         /\ model' = Nothing /\ plan' = Nothing /\ gls' = Nothing
    ELSE Finish(ChainPosterior(method)) /\ UNCHANGED <<policy, model, plan, gls>>

UnchangedLoop ==
  UNCHANGED <<pc, count, consecutive, divergences, checkpoints, kept, mcmc,
              expired, reason, termination, warnings>>

\* What a solve of the block may leave: the tolerance reached, or the iterations
\* spent before; nothing finite where there is no solution.
Residuals(point) == IF point = NoPoint THEN {NaN} ELSE {Reached(plan), -1}

Passes(residual, guarded) == guarded => Guard(plan.kappa, residual, plan.eps, Target) = "passed"

\* _dispatch_sample on a plan with a chain in it: everything by NUTS, the sweep
\* of the exact block with NUTS for the rest, or, on request, NUTS on the
\* marginal of the rest, which needs a covariance that stands still.
SampleByChain(collapse, controlled) ==
  /\ phase = "planned"
  /\ \/ plan.shape = "sampled" /\ Chain("nuts", controlled)
     \/ plan.shape = "mixed" /\ ~collapse /\ Chain(plan.method, controlled)
     \/ plan.shape = "mixed" /\ collapse /\ plan.method = "gcr" /\ Chain("collapse", controlled)
     \/ /\ plan.shape = "mixed" /\ collapse /\ plan.method # "gcr"
        /\ Finish(Raised("GraphError")) /\ UNCHANGED <<policy, model, plan, gls>>
  /\ UnchangedLoop

\* _whole_graph where one solve is exact: independent draws at one covariance.
SampleExactly(guarded) ==
  /\ phase = "planned" /\ plan.shape = "exact" /\ plan.method = "gcr"
  /\ LET scale == RuleAt(model, 0)
         point == SolveAt(model, scale)
     IN \E residual \in Residuals(point) :
          Finish(IF Passes(residual, guarded)
                   THEN Posterior("gcr", Nothing, <<point, scale>>, <<point, scale>>)
                   ELSE Raised("RuntimeError"))
  /\ UNCHANGED <<vars, model, plan, gls>>

-----------------------------------------------------------------------------
\* iterative_gls begins: at the prior centre's covariance. A covariance declared
\* not to depend on the prediction needs one solve; else the loop is entered.
\* Bound: a sample's MIN_REWEIGHTS and MAX_REWEIGHTS are 2 and 3.
StartGLS(entry, guarded, atLeast, atMost) ==
  /\ phase = "planned" /\ plan.shape = "exact"
  /\ entry = "sample" => plan.method # "gcr" /\ atLeast = 2 /\ atMost = 3
  /\ IF atMost < atLeast
       THEN Finish(Raised("GraphError")) /\ UNCHANGED gls
       ELSE /\ phase' = "reweighting" /\ UNCHANGED answer
            /\ gls' = [entry |-> entry, guarded |-> guarded, atLeast |-> atLeast, atMost |-> atMost,
                       depends |-> plan.method # "gcr",
                       count |-> 1, latent |-> SolveAt(model, RuleAt(model, 0)), delta |-> "infinite"]
  /\ UNCHANGED <<vars, model, plan>>

\* (bug) the step is taken until it is small, however often
Unfinished_Uncapped == gls.count < gls.atLeast \/ gls.delta \in {"infinite", "moved"}

\* unfinished: the cap first, then the floor or a step that is still too large.
Unfinished ==
  /\ gls.count < gls.atMost
  /\ gls.count < gls.atLeast \/ gls.delta \in {"infinite", "moved"}

\* The step: solve at the covariance of the last point. Bound: counting stops at
\* the cap, which is all the loop compares with.
Reweight ==
  /\ phase = "reweighting" /\ gls.depends /\ Unfinished
  /\ LET updated == SolveAt(model, RuleAt(model, gls.latent))
     IN gls' = [gls EXCEPT !.count = Smaller(@ + 1, gls.atMost), !.latent = updated,
                           !.delta = IF updated = NoPoint THEN "not finite"
                                     ELSE IF updated = gls.latent THEN "still" ELSE "moved"]
  /\ UNCHANGED <<vars, phase, model, plan, answer>>

\* (bug) the last point of the loop is returned with the covariance there
GLSResult_Unsolved ==
  [precision |-> RuleAt(model, gls.latent), solution |-> gls.latent,
   converged |-> ~gls.depends \/ gls.delta = "still"]

\* GLSResult: a covariance, and the solution at it.
GLSResult ==
  LET scale == RuleAt(model, IF gls.depends THEN gls.latent ELSE 0)
  IN [precision |-> scale, solution |-> SolveAt(model, scale),
      converged |-> ~gls.depends \/ gls.delta = "still"]

\* run_estimate: a point, or ConvergenceError.
Estimated(result) ==
  IF result.converged
    THEN [kind |-> "estimate", solution |-> result.solution, precision |-> result.precision]
    ELSE Raised("ConvergenceError")

\* The last solve, the only guarded one, and what is made of its result: an
\* estimate; or draws from the Gaussian there and their weights, kept however
\* few of them count unless NUTS is wanted then.
EndGLS ==
  /\ phase = "reweighting" /\ ~(gls.depends /\ Unfinished)
  /\ LET result == GLSResult
         pair == <<result.solution, result.precision>>
     IN \E residual \in Residuals(result.solution) :
          IF ~Passes(residual, gls.guarded)
            THEN Finish(Raised("RuntimeError")) /\ UNCHANGED <<policy, model, plan, gls>>
          ELSE IF gls.entry = "estimate"
            THEN Finish(Estimated(result)) /\ UNCHANGED <<policy, model, plan, gls>>
          ELSE \/ /\ Finish(Posterior("gcr+snis", Nothing,
                                      <<SolveAt(model, result.precision), result.precision>>, pair))
                  /\ UNCHANGED <<policy, model, plan, gls>>
               \/ \E controlled \in BOOLEAN : Chain("nuts", controlled)
  /\ UnchangedLoop

\* estimate() of a plan that leaves latents to sampling.
EstimateRefused ==
  /\ phase = "planned" /\ plan.shape # "exact"
  /\ Finish(Raised("NotImplementedError"))
  /\ UNCHANGED <<vars, model, plan, gls>>

-----------------------------------------------------------------------------
\* The batches of a controlled chain, its record, and how it ends.
ChainStep ==
  /\ phase = "chain"
  /\ Refuse \/ Batch \/ (~answer.collapsed /\ Report)
  /\ UNCHANGED planning

\* A collapsed run draws the exact block back at every draw of the rest; some
\* solve may be refused.
Regress ==
  /\ phase = "chain" /\ answer.collapsed /\ pc = "stopped"
  /\ \/ Finish(Posterior("collapse", Nothing, Nothing, Nothing))
     \/ Finish(Raised("RuntimeError"))
  /\ UNCHANGED <<vars, model, plan, gls>>

ChainEnds ==
  /\ phase = "chain" /\ pc \in {"reported", "raised"}
  /\ Finish(IF pc = "raised" THEN Raised("ValueError") ELSE Posterior("chain", Nothing, Nothing, Nothing))
  /\ UNCHANGED <<vars, model, plan, gls>>

\* minimize with certify: descend, polish, and measure. A point where the
\* objective is not finite is an error.
Fit ==
  /\ phase = "start"
  /\ \/ Finish(Raised("RuntimeError"))
     \/ \E landing \in Landings :
          Finish([kind |-> "fit", landing |-> landing,
                  refusal |-> Refusal(landing.point, landing.solve, landing.resolved, landing.limit)])
  /\ UNCHANGED <<vars, model, plan, gls>>

Quiet == phase = "done" /\ UNCHANGED everything

Run ==
  \/ Reweight \/ EndGLS \/ ChainStep \/ Regress \/ ChainEnds

PlanNext ==
  \/ Compile \/ Fit
  \/ \E collapse, controlled \in BOOLEAN : SampleByChain(collapse, controlled)
  \/ \E guarded \in BOOLEAN : SampleExactly(guarded)
  \/ \E entry \in {"sample", "estimate"}, guarded \in BOOLEAN, atLeast \in 1 .. 2, atMost \in 1 .. 3 :
       StartGLS(entry, guarded, atLeast, atMost)
  \/ EstimateRefused
  \/ Run \/ Quiet

\* A call that has begun is executed to its end.
PlanSpec == PlanInit /\ [][PlanNext]_everything /\ WF_everything(Run)

-----------------------------------------------------------------------------
\* A strategy that the timing constants, each ten per cent off either way, could
\* make the only cheapest is the winner or is named as contested, whatever the
\* condition numbers and the number of solves (below a correlation of one).
TheVerdictIsSound ==
  plan # Nothing /\ plan.ladder # Nothing =>
    LET inputs == plan.ladder.inputs
        verdict == plan.ladder.verdict
        all == {Strategies[i] : i \in DOMAIN Strategies}
        Cheapest(s) == \E f \in [all -> {9, 10, 11}] : \A t \in all \ {s} :
          LET mine == Cost(inputs, s, f[s])
              other == Cost(inputs, t, f[t])
          IN IsFinite(mine) /\ (other = NaN \/ mine < other)
    IN TauUnder(inputs.rho) > 0 =>
         \A s \in all : Cheapest(s) => s \in {verdict.winner} \cup verdict.contested

\* A plan that calls its tolerance attainable and notes no latent its interval
\* leaves out is one the solver can carry out: at every value of the outside
\* latents that was probed, conjugate gradients run to the plan's tolerance and
\* this dtype's limit pass the solver's own guard at the target.
AttainablePlansDeliver ==
  plan # Nothing =>
    (plan.shape = "mixed" /\ TolAttainable(plan) /\ plan.note = {} =>
       \A size \in {model.centre} \cup {model.swept[l].size : l \in Outside} :
         Guard(size, Reached(plan), plan.eps, Target) = "passed")

\* What is reported belongs together. An estimate is a fixed point of the
\* covariance it reports: solved there, and the covariance the model has there; a
\* block that is solved once has earned that by the probe at its own answer. And
\* importance weights divide by the density the draws came from, also where the
\* reweighting ended at its cap without a fixed point.
SolvesAreCurrent ==
  /\ answer.kind = "estimate" /\ answer.solution # NoPoint =>
       /\ answer.precision = RuleAt(model, answer.solution)
       /\ answer.solution = SolveAt(model, answer.precision)
  /\ answer.kind = "posterior" => answer.drawn = answer.weighed

\* A fit that is certified is as close to the minimum as was asked: the Newton
\* decrement is within the limit, however far from H^-1 g the solve ended.
CertificateIsABound ==
  answer.kind = "fit" /\ answer.refusal = "none" =>
    Convex(answer.landing.point.H) /\ DecrementWithin(answer.landing.point, answer.landing.limit)

\* Whatever the reweighting does, and however the batches fall, a call returns.
Answers == phase \in {"reweighting", "chain"} ~> phase = "done"

\* "The scoreboard is advisory and must never change routing, so any inability
\* to measure the coupling ... returns None rather than raising" (plan.py:838).
ScoreboardNeverStopsTheCompile == answer # Raised("ArithmeticError")
=============================================================================
