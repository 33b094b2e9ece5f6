------------------------------- MODULE Fitting -------------------------------
(***************************************************************************)
(* optimize/ and reweight.py: a descent of a fixed number of steps over the *)
(* log density of a graph (fit), or over the normalisation of a family of   *)
(* targets, which a bank of draws of one reference estimates                *)
(* (PosteriorReweighting). Where a step leads is free; densities are small  *)
(* whole numbers, so that weights and their means are exact.                *)
(***************************************************************************)
EXTENDS Integers, Sequences, FiniteSetsExt, Functions

CONSTANTS
  FitGrid,     \* bound: places of a parameter, 0 .. FitGrid
  PolishSteps, \* POLISH_ITERATIONS
  Fits,        \* families of fits a caller may ask for
  Changes,     \* bound: changes of an objective an outer loop watches
  Tolerances   \* bound: tolerances it is given

ASSUME FitAssumption ==
  FitGrid \in Nat /\ PolishSteps \in Nat /\ Changes \subseteq Int /\ Tolerances \subseteq Nat

Spots == 0 .. FitGrid
BankDraws == 0 .. 2

VARIABLES
  job,      \* what is fitted, and how
  descent,  \* of minimize: point, history, steps polished
  fitted    \* what came back

fittingVars == <<job, descent, fitted>>

Unknown == 999    \* a value that is not finite
FitRaised == [kind |-> "raised"]
Unfitted == [kind |-> "none"]
Idle == [stage |-> "idle", point |-> <<>>, history |-> <<>>, polished |-> 0, left |-> 0, landed |-> 0]

-----------------------------------------------------------------------------
\* A joint density at a draw: its prior, and the likelihood of the data seen.
SupportedAt(g, x) == x \in g.support
LikelihoodOf(g, y, x) == IF y \in g.seen THEN g.likelihood[y][x] ELSE 1
Joint(g, x) == g.prior[x] * (LikelihoodOf(g, 1, x) * LikelihoodOf(g, 2, x))

\* (bug) a density is what the arithmetic of its distribution says
Score_Arithmetic(g, x) == Joint(g, x)

\* _graph_score: outside the support a density is zero, whatever the arithmetic
\* of the distribution says there.
Score(g, x) == IF SupportedAt(g, x) THEN Joint(g, x) ELSE 0

\* A density over the draws of a bank: a prior, likelihoods of two data, and the mask
\* of what was seen.
IsDensity(g) ==
  /\ g.support \subseteq BankDraws /\ g.seen \subseteq {1, 2}
  /\ g.prior \in [BankDraws -> Nat] /\ g.likelihood \in [{1, 2} -> [BankDraws -> Nat]]

\* A fit of a graph of two parameters, or of a family of targets over a bank, which
\* is how often it has each draw.
IsGraphFit(j) ==
  j.environment \in [{"a", "b"} -> Spots] /\ j.height \in [Spots -> Int]
IsFamilyFit(j) ==
  /\ j.environment \in [{"eta"} -> Spots] /\ j.moving = {"eta"}
  /\ IsDensity(j.reference) /\ \A x \in j.reference.support : Joint(j.reference, x) \in 1 .. 2
  /\ \A e \in Spots : IsDensity(j.target[e])
  /\ j.bank \in [BankDraws -> Nat] /\ j.hyperprior \in [Spots -> Nat] /\ j.min \in Nat

FlawsOfAFit == {"none", "method", "steps", "rate", "betas", "complex", "rate of a held latent", "floor alone", "limit"}

IsFit(j) ==
  /\ j.what \in {"graph", "hyperparameter"} /\ j.steps \in Nat \ {0} /\ j.flaw \in FlawsOfAFit
  /\ j.asks \subseteq {"certificate", "polish"}
  /\ j.what = "graph" => IsGraphFit(j)
  /\ j.what = "hyperparameter" => IsFamilyFit(j)

ASSUME FitsAssumption == \A F \in Fits : \A j \in F : IsFit(j)

\* What two graphs must share for the ratio of their densities to be a number.
SameMeasures(g, h) == g.measure = h.measure
SameQuestion(g, h) == g.latents = h.latents /\ g.data = h.data

\* (bug) masks are not data
SameObservations_Data(g, h) == SameQuestion(g, h)

SameObservations(g, h) == SameQuestion(g, h) /\ g.seen = h.seen

OverDraws(f) == f[0] + f[1] + f[2]
BankSize(bank) == OverDraws(bank)

\* PosteriorReweighting: a bank has draws, and the reference has a density at each.
BankStands(bank, g) ==
  /\ BankSize(bank) > 0 /\ job.bankNames = g.latents
  /\ \A x \in BankDraws : bank[x] > 0 => Score(g, x) > 0

\* The weight of a draw the bank has, over a common denominator; a reference
\* density is one or two.
Weight(eta, x) == IF job.bank[x] = 0 THEN 0 ELSE Score(job.target[eta], x) * (2 \div Score(job.reference, x))
TotalWeight(eta) == OverDraws([x \in BankDraws |-> job.bank[x] * Weight(eta, x)])
Squares(eta) == OverDraws([x \in BankDraws |-> job.bank[x] * (Weight(eta, x) * Weight(eta, x))])

\* log_weights: a target that is none, or that the bank does not meet, ends the
\* whole computation.
WeightsStand(eta) ==
  /\ SameMeasures(job.reference, job.target[eta]) /\ SameObservations(job.reference, job.target[eta])
  /\ eta \in job.valid /\ TotalWeight(eta) > 0

\* (bug) draws without weight are not draws
MeanWeight_Met(eta) == [sum |-> TotalWeight(eta), 
  over |-> 2 * OverDraws([x \in BankDraws |-> IF Weight(eta, x) = 0 THEN 0 ELSE job.bank[x]])]

\* estimate: the mean over the whole bank.
MeanWeight(eta) == [sum |-> TotalWeight(eta), over |-> 2 * BankSize(job.bank)]

\* self_normalise: the effective number of draws, as a fraction of squares.
Effective(eta) == [top |-> TotalWeight(eta) ^ 2, bottom |-> Squares(eta)]
Estimate(eta) == [at |-> eta, mean |-> MeanWeight(eta), ess |-> Effective(eta),
                  weights |-> [x \in BankDraws |-> Weight(eta, x)]]

-----------------------------------------------------------------------------
\* The objective: -log_joint of what moves, the rest held where it began; or the
\* log mean weight and the hyperprior, in products instead of sums.
Merged(held, values) == [l \in DOMAIN held \cup DOMAIN values |-> IF l \in DOMAIN values THEN values[l] ELSE held[l]]
Held == Restrict(job.environment, DOMAIN job.environment \ job.moving)

GraphHeight(values) ==
  LET at == Merged(Held, values)
  IN IF \E l \in DOMAIN at : at[l] \notin Spots THEN Unknown
     ELSE IF job.height[at["a"]] = Unknown THEN Unknown ELSE job.height[at["a"]] + at["b"]

HyperHeight(eta) ==
  IF eta \notin Spots \/ job.hyperprior[eta] = 0 THEN Unknown ELSE 0 - TotalWeight(eta) * job.hyperprior[eta]

Objective(values) == IF job.what = "graph" THEN GraphHeight(values) ELSE HyperHeight(values["eta"])

\* A density that refuses its point ends the fit where it stands.
RefusesPoint(values) == job.what = "hyperparameter" /\ values["eta"] \in Spots /\ ~WeightsStand(values["eta"])

Moved(values, l, d) == [values EXCEPT ![l] = @ + d]
SlopeOf(values, l) ==
  LET up == Objective(Moved(values, l, 1))
      down == Objective(Moved(values, l, -1))
  IN IF Unknown \in {up, down, Objective(values)} THEN Unknown ELSE up - down

-----------------------------------------------------------------------------
\* What minimize and fit refuse to begin with.
Unsettled ==
  \/ job.flaw # "none"
  \/ job.what = "graph" /\ (job.moving = {} \/ ~(job.moving \subseteq DOMAIN job.environment))

StartFit ==
  /\ descent.stage = "idle" /\ fitted.kind = "none"
  /\ LET start == Restrict(job.environment, job.moving)
     IN IF \/ Unsettled
           \/ job.what = "hyperparameter" /\
                (\/ ~BankStands(job.bank, job.reference) \/ (job.min # 0 /\ job.min > BankSize(job.bank))
                 \/ RefusesPoint(start) \/ Objective(start) = Unknown)
        THEN fitted' = FitRaised /\ UNCHANGED descent
        ELSE /\ descent' = [stage |-> "descending", point |-> start, history |-> <<>>, polished |-> 0, left |-> job.steps,
                         landed |-> 0]
             /\ UNCHANGED fitted
  /\ UNCHANGED job

Landings(values) == [DOMAIN values -> Spots]

\* A step of adam or of the gradient: the value where it stands is noted, and it
\* moves anywhere; without a gradient it is nowhere from then on.
Nowhere(values) == [l \in DOMAIN values |-> Unknown]
Step ==
  /\ descent.stage = "descending" /\ descent.left > 0
  /\ IF RefusesPoint(descent.point)
     THEN fitted' = FitRaised /\ UNCHANGED descent
     ELSE \E y \in IF Objective(descent.point) = Unknown THEN {Nowhere(descent.point)} ELSE Landings(descent.point) :
            /\ descent' = [descent EXCEPT !.point = y, !.left = @ - 1, !.history = Append(@, Objective(descent.point))]
            /\ UNCHANGED fitted
  /\ UNCHANGED job

\* The descent is over; a point without a finite value is no answer.
Reached ==
  /\ descent.stage = "descending" /\ descent.left = 0
  /\ IF RefusesPoint(descent.point) \/ Objective(descent.point) = Unknown
     THEN fitted' = FitRaised /\ UNCHANGED descent
     ELSE /\ descent' = [descent EXCEPT !.stage = IF job.asks = {"certificate", "polish"} THEN "polishing" ELSE "landed",
                                        !.left = PolishSteps, !.landed = Objective(descent.point)]
          /\ UNCHANGED fitted
  /\ UNCHANGED job

\* (bug) a step is kept where the value does not change
Sufficient_NotWorse(after, before, length, slope) == after # Unknown /\ after <= before

\* Armijo's condition, in units of its constant.
Sufficient(after, before, length, slope) ==
  after # Unknown /\ slope # Unknown /\ 10000 * (after - before) <= length * slope

\* One Newton step of polish, from _steihaug's direction, which descends, and
\* its halvings; a step that helps at no length is not taken.
Halved(d) == IF d \in {-2, 2} THEN {d, d \div 2} ELSE {d}
Polish ==
  /\ descent.stage = "polishing" /\ descent.left > 0
  /\ LET x == descent.point
         before == Objective(x)
         kept(l, d) == {e \in Halved(d) : ~RefusesPoint(Moved(x, l, e))
                                            /\ Sufficient(Objective(Moved(x, l, e)), before, e, SlopeOf(x, l))}
     IN \E l \in DOMAIN x, d \in {-2, -1, 1, 2} :
          /\ SlopeOf(x, l) \in {0, Unknown} \/ SlopeOf(x, l) * d < 0
          /\ IF SlopeOf(x, l) = 0 \/ kept(l, d) = {}
             THEN descent' = [descent EXCEPT !.left = @ - 1]
             ELSE \E e \in kept(l, d) :
                    /\ \A h \in kept(l, d) : e * e >= h * h
                    /\ descent' = [descent EXCEPT !.left = @ - 1, !.polished = @ + 1, !.point = Moved(x, l, e)]
  /\ UNCHANGED <<job, fitted>>

Polished ==
  /\ descent.stage = "polishing" /\ descent.left = 0
  /\ descent' = [descent EXCEPT !.stage = "landed"]
  /\ UNCHANGED <<job, fitted>>

\* (bug) the value the last step noted
ReachedValue_Noted(values) == descent.history[Len(descent.history)]

ReachedValue(values) == Objective(values)

\* (bug) the weights the fit began with
EstimatedAt_Start(values) == job.environment["eta"]

EstimatedAt(values) == values["eta"]

\* What a fit returns: every latent, moved or not, and of a family the weights at
\* the point it returns.
Land ==
  /\ descent.stage = "landed" /\ fitted.kind = "none"
  /\ LET x == descent.point
         fit == [kind |-> "fit", values |-> Merged(Held, x), objective |-> ReachedValue(x), history |-> descent.history,
                 polished |-> descent.polished, landed |-> descent.landed,
            certified |-> IF "certificate" \in job.asks THEN Merged(Held, x) ELSE <<>>]
     IN IF job.what = "graph" THEN fitted' = fit
        ELSE LET eta == EstimatedAt(x)
                 e == Effective(eta)
             IN IF job.min # 0 /\ e.top < job.min * e.bottom THEN fitted' = FitRaised
                ELSE fitted' = [kind |-> "hyperparameters", fit |-> fit, importance |-> Estimate(eta)]
  /\ UNCHANGED <<job, descent>>

-----------------------------------------------------------------------------
\* optimize/certify.py, when to ask: an outer loop watches its objective before it
\* pays for a certificate. A contraction is a fraction, or <<>> where none is known.
Magnitude(n) == IF n < 0 THEN 0 - n ELSE n
Positive(n) == IF n < 0 THEN 0 ELSE n

\* The gap is the decrease and its geometric tail: (decrease + resolution) / (1 - rho).
GapWithin(decrease, resolution, rho, tol) ==
  rho # <<>> /\ rho[1] < rho[2] /\ (Positive(decrease) + resolution) * rho[2] <= tol * (rho[2] - rho[1])

\* (bug) a rise does not count
Rose_Never(decrease, resolution) == FALSE

Rose(decrease, resolution) == decrease < 0 - resolution

\* gap_step: a rise forgets the contraction, which is estimated again from a decrease
\* that was beyond its rounding; a run that never moved beyond it has none to fear.
Contraction(state, decrease) ==
  IF state.last[1] > state.last[2] THEN <<Min({Positive(decrease), state.last[1]}), state.last[1]>> ELSE state.contraction
Moves(state, decrease, resolution) == state.moved = TRUE \/ decrease > resolution
GapStep(state, decrease, resolution) ==
  [contraction |-> IF Rose(decrease, resolution) THEN <<>> ELSE Contraction(state, decrease),
   moved |-> IF Rose(decrease, resolution) \/ Moves(state, decrease, resolution) THEN TRUE ELSE FALSE,
   last |-> <<decrease, resolution>>]
GapPasses(state, decrease, resolution, tol) ==
  /\ ~Rose(decrease, resolution)
  /\ GapWithin(decrease, resolution,
               IF Moves(state, decrease, resolution) THEN Contraction(state, decrease) ELSE <<0, 1>>, tol)

\* (bug) one change is enough
Settled_Once(trace, tol) ==
  Len(trace) > 1 /\ 10 * Magnitude(trace[Len(trace)] - trace[Len(trace) - 1]) <= tol * Max({Magnitude(trace[Len(trace)]), 1})

\* settled: the last two changes, up or down, are within the tolerance,
\* in tenths.
Settled(trace, tol) ==
  /\ Len(trace) > 2
  /\ \A k \in {Len(trace), Len(trace) - 1} :
       10 * Magnitude(trace[k] - trace[k - 1]) <= tol * Max({Magnitude(trace[k]), 1})

\* What a loop may know when a change comes in: a contraction is a fraction of one.
GapStates ==
  [contraction : {<<>>} \cup {f \in (0 .. 2) \X (1 .. 2) : f[1] <= f[2]}, moved : BOOLEAN, last : Changes \X {0, 1}]

\* What the objective does is not taken for a fixed point that it is not. Of two
\* changes in a row, whatever was known before, nothing passes at a rise beyond
\* rounding nor right after one, nor while it falls as fast as before; where a
\* change is half the last, the screen asks for just the gap that is left; and a
\* value that stood still once is not settled.
ScreensAreEarned ==
  /\ \A state \in GapStates, first, second \in Changes, resolution \in {0, 1}, tol \in Tolerances :
       GapPasses(GapStep(state, first, resolution), second, resolution, tol) =>
         /\ second + resolution <= tol
         /\ first >= 0 - resolution /\ second >= 0 - resolution
         /\ first > resolution => second < first
  /\ \A state \in GapStates, gap \in Changes, tol \in Tolerances :
       gap > 0 => (GapPasses(GapStep(state, 2 * gap, 0), gap, 0, tol) <=> 2 * gap <= tol)
  /\ \A low, hill \in Changes, tol \in Tolerances :
       low > 0 /\ hill > 0 /\ Settled(<<low + hill, low, low>>, tol) => 10 * hill <= tol * low

-----------------------------------------------------------------------------
NoFit == descent = Idle /\ fitted = Unfitted
FittingInit == (\E F \in Fits : job \in F) /\ NoFit

FittingNext == fitted.kind = "none" /\ (StartFit \/ Step \/ Reached \/ Polish \/ Polished \/ Land)

FittingSpec == FittingInit /\ [][FittingNext]_fittingVars

-----------------------------------------------------------------------------
\* The evidence of a graph, over all its support, and the bank that has every draw
\* as often as it does.
Evidence(g) == OverDraws([x \in BankDraws |-> IF x \in g.support THEN Joint(g, x) ELSE 0])
FaithfulBank(g) == [x \in BankDraws |-> IF x \in g.support THEN Joint(g, x) ELSE 0]

IsFitOf(f, x) ==
  /\ f.objective = Objective(x) /\ f.objective # Unknown
  /\ \A l \in DOMAIN Held : f.values[l] = job.environment[l]
  /\ "certificate" \in job.asks => f.certified = f.values
  /\ IF f.polished = 0 THEN f.objective = f.landed ELSE f.objective < f.landed
  /\ Len(f.history) = job.steps
  /\ f.history[1] = Objective(Restrict(job.environment, job.moving))

\* A fit speaks of the point it returns: the objective, the certificate and the
\* weights are those of its values, what was held has not moved, and no step of
\* the polish has gone up or stood still. The mean weight of a bank that holds
\* every draw as often as its reference does is the ratio of the two evidences,
\* of the same data, wherever the reference covers the target.
FitIsAtItsPoint ==
  /\ fitted.kind = "fit" => IsFitOf(fitted, Restrict(fitted.values, job.moving))
  /\ fitted.kind = "hyperparameters" =>
       LET eta == fitted.fit.values["eta"]
           t == job.target[eta]
           r == job.reference
           m == fitted.importance.mean
       IN /\ IsFitOf(fitted.fit, [l \in {"eta"} |-> eta])
          /\ fitted.importance.weights = [x \in BankDraws |-> Weight(eta, x)]
          /\ t.seen = r.seen /\ t.data = r.data /\ t.measure = r.measure
          /\ job.bank = FaithfulBank(r) /\ t.support \subseteq r.support =>
               m.sum * Evidence(r) = m.over * Evidence(t)

\* What a fit returns, and when an outer loop may ask for its certificate.
FitsAreOfTheirPoint == FitIsAtItsPoint /\ ScreensAreEarned
=============================================================================
