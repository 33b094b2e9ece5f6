------------------------------ MODULE Planning ------------------------------
(***************************************************************************)
(* dispatch/plan.py, classify.py and the solver's guard of exact/solve.py: *)
(* what compile finds out about the exact block of a graph, how closely it *)
(* is told to be solved, and what the solver makes of that. A condition    *)
(* number 100^s is its size s; tolerances, residuals and machine epsilons  *)
(* are exponents of ten. A point of the block is a member of Points; the   *)
(* covariance there is a member of Scales.                                 *)
(***************************************************************************)
EXTENDS Integers, Sequences, FiniteSets, FiniteSetsExt

-----------------------------------------------------------------------------
(***************************************************************************)
(* dispatch/costs.py: the price of sampling a graph with one exact block   *)
(* in three ways. A condition number is its square root, a timing constant *)
(* is in units of 0.1 microseconds, and a correlation is a fraction p/q. A *)
(* cost is an integer: every row of one scoreboard is the code's number    *)
(* times the same positive factor, 10 times the denominator of tau.        *)
(***************************************************************************)
\* Floats: integers, and the three values that are none. The infinities are
\* beyond any cost that occurs; NaN compares with nothing.
Infinity == 1000000000
NaN == -1000000001
IsFinite(x) == x \notin {Infinity, -Infinity, NaN}

Sign(n) == IF n < 0 THEN -1 ELSE 1
Add(x, y) == IF NaN \in {x, y} THEN NaN ELSE IF Infinity \in {x, y} THEN Infinity ELSE x + y
Times(n, x) ==
  IF IsFinite(x) THEN n * x ELSE IF n = 0 \/ x = NaN THEN NaN ELSE Sign(n) * x
Less(x, y) == NaN \notin {x, y} /\ x < y

\* timing_reference.
Timing == [gtheta |-> 52, gc |-> 432, A |-> 68, all |-> 484]

\* k_cg at K_CG_TOL: half the root of kappa times ln 2000, rounded up, which
\* raises where there is nothing to round.
Iterations(root) == (38005 * root + 9999) \div 10000

\* tau: (1 + c^2) / (1 - c^2), which at c = 1 raises ZeroDivisionError.
TauOver(c) == c[1] * c[1] + c[2] * c[2]
TauUnder(c) == c[2] * c[2] - c[1] * c[1]

\* Can every row be priced without an exception?
Priced(inputs) == IsFinite(inputs.x) /\ TauUnder(inputs.rho) # 0

Scale(inputs) == Sign(TauUnder(inputs.rho)) * TauUnder(inputs.rho)

\* What a row spends on gradients and on solves, the constants off by f tenths.
Gradient(a, root, constant, f) == Times(a * constant * f, root)
Solves(inputs, m, f) == Times(m * Timing.A * f, Iterations(inputs.x))

\* split_cost: gradients and m solves, all amplified by tau.
SplitCost(inputs, f) ==
  Times(Sign(TauUnder(inputs.rho)) * TauOver(inputs.rho),
        Add(Gradient(inputs.a, inputs.cond, Timing.gtheta, f), Solves(inputs, inputs.m, f)))

\* collapse_cost: gradients of the marginal, one solve.
CollapseCost(inputs, f) ==
  Times(Scale(inputs),
        Add(Gradient(inputs.a, inputs.marg, Timing.gc, f), Solves(inputs, 1, f)))

\* joint_cost: gradients only.
JointCost(inputs, f) == Times(Scale(inputs), Gradient(inputs.a, inputs.joint, Timing.all, f))

Strategies == <<"split", "collapse", "joint">>

Cost(inputs, strategy, f) ==
  CASE strategy = "split" -> SplitCost(inputs, f)
    [] strategy = "collapse" -> CollapseCost(inputs, f)
    [] strategy = "joint" -> JointCost(inputs, f)

\* _rows: each strategy with its timing constants ten per cent down and up.
Rows(inputs) ==
  [i \in DOMAIN Strategies |->
     [strategy |-> Strategies[i],
      lo |-> Cost(inputs, Strategies[i], 9), hi |-> Cost(inputs, Strategies[i], 11)]]

\* relative_gap < CONTESTED_BANDWIDTH.
Abs(n) == IF n < 0 THEN -n ELSE n
GapIsContested(x, y) == IsFinite(x) /\ IsFinite(y) /\ 4 * Abs(x - y) < Max({x, y})

\* (bug) rows are compared at one end of their bands
Overlaps_OneEnd(row, winner) == Less(row.lo, winner.lo)

\* Can the row be as cheap as the winner may turn out to be, or nearly?
Overlaps(row, winner) == Less(row.lo, winner.hi) \/ GapIsContested(row.hi, winner.hi)

\* scoreboard: the first row of least upper end, and the rows not told apart
\* from it; an abstention where no row is finite.
Scoreboard(rows) ==
  LET finite == {i \in DOMAIN rows : IsFinite(rows[i].hi)}
      best == Min({i \in finite : \A j \in finite : rows[i].hi <= rows[j].hi})
  IN IF finite = {} THEN [winner |-> "", contested |-> {}, abstained |-> TRUE]
     ELSE [winner |-> rows[best].strategy, abstained |-> FALSE,
           contested |-> {rows[i].strategy : i \in
                            {j \in DOMAIN rows \ {best} :
                               rows[j].hi # Infinity /\ Overlaps(rows[j], rows[best])}}]

\* build_ladder: the verdict, and what it was reached from.
Ladder(inputs) == [verdict |-> Scoreboard(Rows(inputs)), inputs |-> inputs]

\* recorded_inputs: the ledger prices the run from what the plan recorded.
RecordedInputs(ladder) == ladder.inputs

\* _terms: the parts of a row, amplification, gradients and solves.
Terms(inputs, strategy) ==
  LET both == Add(Gradient(inputs.a, inputs.cond, Timing.gtheta, 10), Solves(inputs, inputs.m, 10))
      scaled(x) == Times(Scale(inputs), x)
  IN CASE strategy = "split" ->
            [c |-> Times(Sign(TauUnder(inputs.rho)) * TauOver(inputs.rho) - Scale(inputs), both),
             a |-> scaled(Gradient(inputs.a, inputs.cond, Timing.gtheta, 10)),
             cg |-> scaled(Solves(inputs, inputs.m, 10))]
       [] strategy = "collapse" ->
            [c |-> 0, a |-> scaled(Gradient(inputs.a, inputs.marg, Timing.gc, 10)), cg |-> scaled(Solves(inputs, 1, 10))]
       [] strategy = "joint" ->
            [c |-> 0, a |-> scaled(Gradient(inputs.a, inputs.joint, Timing.all, 10)), cg |-> 0]

\* cost_shares and dominant_input: the part that is more than half of the row.
Dominant(inputs, strategy) ==
  LET terms == Terms(inputs, strategy)
      total == Add(terms.c, Add(terms.a, terms.cg))
  IN IF ~IsFinite(total) \/ total <= 0 THEN {}
     ELSE {name \in {"c", "a", "cg"} : 2 * terms[name] > total}

RowOf(rows, strategy) ==
  rows[CHOOSE i \in DOMAIN Strategies : Strategies[i] = strategy]

\* reconcile: the row of the sampler that ran, and the input blamed for it.
Reconcile(ladder, strategy) ==
  LET inputs == RecordedInputs(ladder)
      row == RowOf(Rows(inputs), strategy)
  IN [strategy |-> strategy, lo |-> row.lo, hi |-> row.hi, dominant |-> Dominant(inputs, strategy)]

-----------------------------------------------------------------------------
CONSTANTS
  Points,     \* values of the exact block: 0 the prior centre, 1 what the probes see
  Outside     \* the latents outside the block

(***************************************************************************)
(* A model's facts:                                                        *)
(*   groups       "none", "one" or "many" jointly affine groups;           *)
(*   all          does the one group hold every latent?                    *)
(*   rule         the covariance as a function of the block;               *)
(*   solve        the block's solution at a covariance, or NoPoint;        *)
(*   independent  is the covariance certified not to read the block?       *)
(*   eps          the machine epsilon of the block's dtype is 10^-eps;     *)
(*   centre       the size of the condition number at the prior centre;    *)
(*   swept        for each latent outside: has it a Gaussian prior to be   *)
(*                swept over, is the block one where it is probed, and the *)
(*                size there;                                              *)
(*   coupling     what block_coupling measures, or Uncoupled.              *)
(***************************************************************************)
NoPoint == -1

\* block_coupling refused, or the correlation it measured is not finite.
Uncoupled == [rho |-> <<>>]

Target == -3    \* CONVERGENCE_TARGET

RuleAt(model, x) == IF x = NoPoint THEN NoPoint ELSE model.rule[x]
SolveAt(model, scale) == IF scale = NoPoint THEN NoPoint ELSE model.solve[scale]

\* _sigma_movement: does the covariance differ from that at the prior centre at
\* the probes, or where a solve at the data's own answer leads?
Moves(model) ==
  \E x \in {1, SolveAt(model, model.rule[0])} \ {NoPoint} : model.rule[x] # model.rule[0]

\* (bug) the probes around the prior decide alone
Method_PriorProbes(model) ==
  IF model.rule[1] = model.rule[0] THEN "gcr" ELSE IF model.all THEN "gcr+snis" ELSE "gcr+mh"

\* _classify_block: unmoved at every probe, and certified not to move.
Method(model) ==
  IF ~Moves(model) /\ model.independent THEN "gcr"
  ELSE IF model.all THEN "gcr+snis" ELSE "gcr+mh"

\* kappa_interval: the latents that were held or whose probes were dropped, and
\* the condition numbers that were measured, the centre's whatever it is.
Held(model) == {l \in Outside : ~model.swept[l].gaussian}
Dropped(model) ==
  {l \in Outside \ Held(model) : ~(model.swept[l].built /\ IsFinite(model.swept[l].size))}
Measured(model) ==
  {model.centre} \cup {model.swept[l].size : l \in Outside \ (Held(model) \cup Dropped(model))}

\* kappa_upper: a centre that is not a number stays the maximum of a list it heads.
KappaUpper(model) == IF NaN \in Measured(model) THEN NaN ELSE Max(Measured(model))

\* tol_for: CONVERGENCE_TARGET / kappa.
TolFor(size) ==
  IF IsFinite(size) THEN Target - 2 * size ELSE IF size = Infinity THEN -Infinity ELSE NaN

\* (bug) a probe that fails is dropped without a word
SweepNote_Held(model) == Held(model)

\* _sweep_note: the latents the interval does not cover.
SweepNote(model) == Held(model) \cup Dropped(model)

\* Block.tol_attainable.
TolAttainable(plan) == IsFinite(plan.kappa) /\ 2 * plan.kappa - plan.eps < Target

\* _conjugate_solve: what its guard makes of a residual, at a block of this size.
Guard(size, residual, eps, required) ==
  LET bad == size = Infinity \/ 2 * size + residual > required
      unreachable == size = Infinity \/ 2 * size - eps > required \/ residual <= 1 - eps
  IN IF residual = NaN THEN "not finite"
     ELSE IF ~bad THEN "passed"
     ELSE IF unreachable THEN "unreachable" ELSE "unconverged"

\* Conjugate gradients end at the tolerance, or where the arithmetic does.
Reached(plan) == IF plan.tol = NaN THEN NaN ELSE Max({plan.tol, -plan.eps})

\* _cost_ladder: what the scoreboard is made from, if there is one.
HasLadder(model, strategy) ==
  strategy = "cost" /\ model.groups = "one" /\ ~model.all /\ model.coupling # Uncoupled

Root(size) == IF IsFinite(size) THEN 10 ^ size ELSE size

\* LadderInputs; an approximate block is solved three times a sweep (_split_m).
LadderInputs(model) ==
  [rho |-> model.coupling.rho, cond |-> model.coupling.cond, marg |-> model.coupling.marg,
   joint |-> model.coupling.joint, x |-> Root(KappaUpper(model)), a |-> model.a,
   m |-> IF Method(model) = "gcr+mh" THEN 3 ELSE 1]

-----------------------------------------------------------------------------
(***************************************************************************)
(* optimize/: what a fit may claim of the point it returns. The point is   *)
(* its slope g and Hessian H = ((a, b), (b, a)) there; the decrement is    *)
(* the length of H^-1 g in the metric of H, and the certificate bounds it  *)
(* from an approximate solution x of H x = g and a lower bound on the      *)
(* smallest eigenvalue. Integers stand for the floats; a bound is compared *)
(* in squares, without its roots. Values that are not finite are left out. *)
(***************************************************************************)

\* Where the floor comes from.
Proven == {"dense", "supplied"}

Dot(u, v) == u[1] * v[1] + u[2] * v[2]
Apply(H, u) == <<H.a * u[1] + H.b * u[2], H.b * u[1] + H.a * u[2]>>
Minus(u, v) == <<u[1] - v[1], u[2] - v[2]>>
AbsOf(n) == IF n < 0 THEN -n ELSE n
Least(H) == H.a - AbsOf(H.b)
Convex(H) == Least(H) > 0
NonNegative(n) == IF n < 0 THEN 0 ELSE n

\* (bug) the residual the recurrence carries is believed
Remainder_Recurrence(point, solve) == solve.following

\* decrement_program: the residual of x, computed again from the product.
Remainder(point, solve) ==
  LET r == Minus(point.g, Apply(point.H, solve.x)) IN Dot(r, r)

\* The bound (R + sqrt(R^2 + 4 s)) / 2 <= limit with R^2 = squared / floor and
\* s = gx, or 0 where the solve went wrong.
Within(squared, floor, gx, limit) ==
  LET room == limit * limit - NonNegative(gx)
  IN room >= 0 /\ squared * limit * limit <= floor * room * room

\* _dense_solve takes any x for H^-1 g, but knows whether H is convex.
DenseSolve(point, x) ==
  [x |-> x, following |-> 0, source |-> "dense", floor |-> Least(point.H),
   status |-> IF Convex(point.H) THEN "converged" ELSE "nonconvex"]

\* When _iterative_solve stops: its own residual meets the limit, or the limit
\* is out of reach already. A probed floor takes the relative residual instead.
Decided(point, solve, limit) ==
  \/ Dot(point.g, solve.x) > limit * limit
  \/ IF solve.source = "supplied" THEN Within(solve.following, solve.floor, Dot(point.g, solve.x), limit)
     ELSE solve.following = 0

\* _iterative_solve with x and residual of conjugate gradients, in whatever
\* shape rounding left them: it ends at a direction of non-positive curvature,
\* if it has `met` one, when it is decided, or with its iterations. A slope of
\* zero is solved by zero.
IterativeSolve(point, x, following, source, floor, met, limit) ==
  LET zero == point.g = <<0, 0>>
      reached == [x |-> IF zero THEN <<0, 0>> ELSE x, following |-> IF zero THEN 0 ELSE following,
                  source |-> source, floor |-> floor]
      status == IF source = "probe" /\ floor <= 0 THEN "nonconvex"
                ELSE IF zero THEN "converged"
                ELSE IF met THEN "nonconvex"
                ELSE IF Decided(point, reached, limit) THEN "converged"
                ELSE "unreached"
  IN [x |-> reached.x, following |-> reached.following, source |-> source,
      floor |-> floor, status |-> status]

\* Decrement.certifies, where `resolved` says that the dtype's epsilon times
\* kappa is below one.
Certifies(point, solve, resolved, limit) ==
  /\ solve.source \in Proven /\ solve.floor > 0
  /\ solve.status = "converged"
  /\ resolved
  /\ Within(Remainder(point, solve), solve.floor, Dot(point.g, solve.x), limit)

\* Fit.refusal: what stands in the way of a certificate.
Refusal(point, solve, resolved, limit) ==
  IF Certifies(point, solve, resolved, limit) THEN "none"
  ELSE IF solve.floor <= 0 THEN "no floor"
  ELSE IF solve.source \notin Proven THEN "not proven"
  ELSE IF solve.status # "converged" THEN "not solved"
  ELSE "outside the limit"

\* The decrement itself, g H^-1 g <= limit^2, for a convex H.
DecrementWithin(point, limit) ==
  LET H == point.H
      g == point.g
  IN H.a * Dot(g, g) - 2 * H.b * g[1] * g[2] <= limit * limit * (H.a * H.a - H.b * H.b)
=============================================================================
