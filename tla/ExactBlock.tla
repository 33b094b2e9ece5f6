----------------------------- MODULE ExactBlock -----------------------------
(***************************************************************************)
(* A block of latents solved exactly: exact/block.py builds a LinearBlock  *)
(* from the graph, exact/linearity.py checks that the prediction is affine *)
(* in it, dispatch/classify.py measures whether the noise moves with it,   *)
(* exact/gaussian.py and exact/precision.py read the covariance,           *)
(* exact/solve.py forms the normal equations, exact/fisher.py their matrix,*)
(* exact/correct.py the weight of a draw. Latent a is real, z is a complex *)
(* number, solved as two real parts, or a real vector of two; c is always  *)
(* outside the block. The arithmetic is over small integers, where all of  *)
(* this is exact: roundoff is Affinity's subject, the convergence of a     *)
(* solve Planning's.                                                       *)
(***************************************************************************)
EXTENDS Integers, Sequences, FiniteSets, SequencesExt, FiniteSetsExt

Samples     == 1 .. 2
LatentNames == {"a", "z", "c"}
Coordinates == {"a", "re", "im", "c"}
Parts(n)    == IF n = "z" THEN <<"re", "im">> ELSE <<n>>

\* What is not finite; the arithmetic here does not reach it by itself.
NonFinite   == 10000
Times(x, y) == IF NonFinite \in {x, y} THEN NonFinite ELSE x * y
Minus(x, y) == IF NonFinite \in {x, y} THEN NonFinite ELSE x - y

VARIABLES
  problem,   \* the graph: its design, bend, priors, noise and data, whether z is complex
  request,   \* the names of the block, and what `at` gives a value to
  values,        \* the values of the latents now
  built      \* "asked", how the block is sampled ("gcr" or "corrected"), or why not

blockVars == <<problem, request, values, built>>

-----------------------------------------------------------------------------
(* The graph *)

Bend(v) == CASE problem.bend = "none"  -> 0
             [] problem.bend = "a z"   -> v["a"] * v["re"]
             [] problem.bend = "a z c" -> v["a"] * v["re"] * v["c"]

\* The prediction of a sample, at values of all latents.
Predicted(k, v) ==
  LET d == problem.design[k]
  IN k + d["a"] * v["a"] + d["re"] * v["re"] + d["im"] * v["im"] + Bend(v)

\* 1 / sigma, and what moves it. A contrast is blind to moving a and z alike, a
\* hinge to everything within a prior width.
Sharpness(k, v) ==
  CASE problem.noise = "fixed"    -> problem.sharp[k]
    [] problem.noise = "c"        -> problem.sharp[k] * (1 + v["c"])
    [] problem.noise = "contrast" -> problem.sharp[k] * (1 + (v["a"] - v["re"]) ^ 2)
    [] problem.noise = "hinge"    -> problem.sharp[k] * (1 + Max({0, v["a"] - 2}))
    [] problem.noise = "broken"   -> 0

\* The prior of z may be centred on a.
PriorMean(x, v) == IF problem.under /\ x = "re" THEN v["a"] ELSE problem.mean[x]

\* -2 log_joint, up to what no value of the block changes while the noise is
\* still. The density of an unseen sample is masked out before anything is added.
Energy(v) ==
  LET misfit(k) == IF problem.seen[k] THEN (Sharpness(k, v) * (problem.data[k] - Predicted(k, v))) ^ 2 ELSE 0
      prior(x)  == (problem.narrow[x] * (v[x] - PriorMean(x, v))) ^ 2
  IN misfit(1) + misfit(2) + prior("a") + prior("re") + prior("im")

-----------------------------------------------------------------------------
(* The block, at values v of the latents outside it *)

Members == ToSet(request.names)
Outside == LatentNames \ Members
Flat    == FlattenSeq([k \in DOMAIN request.names |-> Parts(request.names[k])])
InBlock == ToSet(Flat)

With(v, move) == [x \in Coordinates |-> IF x \in DOMAIN move THEN move[x] ELSE v[x]]
Still         == [x \in InBlock |-> 0]
Along(x, n)   == [Still EXCEPT ![x] = n]

\* isolate: the prediction as a function of the block alone, and its offset.
Isolated(k, v, move) == Predicted(k, With(v, move))
Offset(k, v)         == Isolated(k, v, Still)

\* jax.linearize at zero: exact on a polynomial of degree two.
Tangent(k, x, v) == (Isolated(k, v, Along(x, 1)) - Isolated(k, v, Along(x, -1))) \div 2

\* domain_centre: the members' own prior means.
Centre(v)   == [x \in InBlock |-> PriorMean(x, v)]
Scale(k, v) == Sharpness(k, With(v, Centre(v)))

\* (bug) the mask multiplies
Apply_Multiplied(k, r, v) == Times(Times(r, Scale(k, v) ^ 2), IF problem.seen[k] THEN 1 ELSE 0)

\* MaskedPrecision over DiagonalPrecision. What is unseen is selected away, not
\* multiplied by nothing.
Apply(k, r, v)  == IF problem.seen[k] THEN Times(r, Scale(k, v) ^ 2) ELSE 0
Whiten(k, r, v) == IF problem.seen[k] THEN Times(r, Scale(k, v)) ELSE 0

\* quadratic: what carries no weight is dropped before it is multiplied.
Pairing(k, r, weighted) == IF weighted = 0 THEN 0 ELSE Times(r, weighted)

\* normal_operator, row x, column y.
Normal(x, y, v) ==
  LET curvature(k) == Pairing(k, Tangent(k, x, v), Apply(k, Tangent(k, y, v), v))
  IN curvature(1) + curvature(2) + (IF x = y THEN problem.narrow[x] ^ 2 ELSE 0)

\* (bug) the data is taken as it is, the prediction at zero forgotten
RightHandSide_NoOffset(x, v) ==
  LET data(k) == Times(Tangent(k, x, v), Apply(k, problem.data[k], v))
  IN data(1) + data(2) + PriorMean(x, v) * problem.narrow[x] ^ 2

\* _conjugate_solve: the pulled back data, and the prior's pull.
RightHandSide(x, v) ==
  LET data(k) == Times(Tangent(k, x, v), Apply(k, Minus(problem.data[k], Offset(k, v)), v))
  IN data(1) + data(2) + PriorMean(x, v) * problem.narrow[x] ^ 2

\* What one standard normal adds to the right-hand side of a draw: that of a
\* sample, and that of a coordinate's prior.
FromData(k, x, v) == Times(Tangent(k, x, v), Whiten(k, 1, v))
FromPrior(y, x)   == IF x = y THEN problem.narrow[x] ELSE 0

\* fisher_information: the entry of two positions of the flat vector, whose spans
\* follow block.names.
Information(i, j, v) ==
  LET design(k) == Times(Tangent(k, Flat[i], v), Apply(k, Tangent(k, Flat[j], v), v))
  IN design(1) + design(2) + (IF i = j THEN problem.narrow[Flat[i]] ^ 2 ELSE 0)

\* log_weight, twice: the joint density and the solve's own form about mu.
Weight(draw, mu, v) ==
  LET d == [x \in InBlock |-> draw[x] - mu[x]]
  IN MapThenSumSet(LAMBDA x : d[x] * MapThenSumSet(LAMBDA y : Normal(x, y, v) * d[y], InBlock), InBlock)
       - Energy(With(v, draw))

Solves(mu, v) ==
  \A x \in InBlock : MapThenSumSet(LAMBDA y : Normal(x, y, v) * mu[y], InBlock) = RightHandSide(x, v)

\* check_frozen_sigma: a centre is weighed under the covariance it solves.
FrozenAgrees(mu, v) == Solves(mu, v)

-----------------------------------------------------------------------------
(* What a matrix over the block says of a prediction *)

\* A matrix is its kind, the coordinates of its rows in order, and its entries;
\* a covariance is over the determinant of what it inverts, to stay whole.
Matrix(kind, entries, over) == [kind |-> kind, order |-> Flat, entries |-> entries, over |-> over]
FisherInformation(prior, v) ==
  Matrix(IF prior THEN "posterior_precision" ELSE "fisher",
         [i, j \in DOMAIN Flat |->
            Information(i, j, v) - (IF i = j /\ ~prior THEN problem.narrow[Flat[i]] ^ 2 ELSE 0)], 1)

\* The determinant of three rows and fewer.
Determinant(m, n) ==
  CASE n = 0 -> 1
    [] n = 1 -> m[1, 1]
    [] n = 2 -> m[1, 1] * m[2, 2] - m[1, 2] * m[2, 1]
    [] n = 3 -> m[1, 1] * (m[2, 2] * m[3, 3] - m[2, 3] * m[3, 2]) - m[1, 2] * (m[2, 1] * m[3, 3] - m[2, 3] * m[3, 1])
                + m[1, 3] * (m[2, 1] * m[3, 2] - m[2, 2] * m[3, 1])
Without(i, k) == IF k < i THEN k ELSE k + 1
Cofactor(m, n, i, j) ==
  (IF (i + j) % 2 = 0 THEN 1 ELSE -1) * Determinant([a, b \in 1 .. n - 1 |-> m[Without(i, a), Without(j, b)]], n - 1)

\* parameter_covariance: a covariance is not inverted, nor what has no inverse; a
\* jitter comes before either is judged.
ParameterCovariance(matrix, jitter) ==
  LET n == Len(matrix.order)
      m == [i, j \in 1 .. n |-> matrix.entries[i, j] + (IF i = j THEN jitter ELSE 0)]
  IN IF matrix.kind = "covariance" \/ Determinant(m, n) = 0 THEN {}
     ELSE {[matrix EXCEPT !.kind = "covariance", !.entries = [i, j \in 1 .. n |-> Cofactor(m, n, j, i)],
                          !.over = Determinant(m, n)]}

\* (bug) an observed node is its data
Carried_Data(k, v) == problem.data[k]

\* _predicted: of an observed node its location, which is what depends on v.
Carried(k, v) == Predicted(k, v)

\* (bug) the columns are in the order of the graph
FlatOrder_Graph(matrix) == SelectSeq(<<"a", "re", "im">>, LAMBDA x : x \in ToSet(matrix.order))

\* _flat_domain: the columns are in the order of the matrix.
FlatOrder(matrix) == matrix.order

Jacobian(k, x, v) == (Carried(k, [v EXCEPT ![x] = @ + 1]) - Carried(k, [v EXCEPT ![x] = @ - 1])) \div 2

\* How many rows _spans lays out for a latent, and how many entries it has.
Rows(n)    == Len(Parts(n))
Entries(n) == IF n = "z" /\ problem.complex THEN 1 ELSE Rows(n)

\* (bug) a matrix is a matrix
PropagateRefuses_Shape(matrix, node, given) ==
  node \notin {"none", "y"} \/ ~(Members \subseteq given) \/ \E n \in Members : Rows(n) # Entries(n)
\* (bug) names are compared, sizes are not
PropagateRefuses_Names(matrix, node, given) ==
  matrix.kind # "covariance" \/ node \notin {"none", "y"} \/ ~(Members \subseteq given)

\* _node_of and _flat_domain: the one observed node unless another is named, and a
\* latent is no prediction; a value for all that is covered, of as many entries
\* as it has rows, which no complex latent has.
PropagateRefuses(matrix, node, given) ==
  \/ matrix.kind # "covariance"
  \/ node \notin {"none", "y"}
  \/ ~(Members \subseteq given)
  \/ \E n \in Members : Rows(n) # Entries(n)

\* propagate_covariance: the diagonal of J Sigma J^T, the square root left out.
Propagate(matrix, node, given, v) ==
  IF PropagateRefuses(matrix, node, given) THEN {}
  ELSE LET column == FlatOrder(matrix)
           slope(k, i) == Jacobian(k, column[i], v)
           term(k, i) == slope(k, i) * MapThenSumSet(LAMBDA j : matrix.entries[i, j] * slope(k, j), DOMAIN column)
       IN {[k \in Samples |-> MapThenSumSet(LAMBDA i : term(k, i), DOMAIN column)]}

\* push_forward: each draw through the node, and no noise on top; the stacks hold
\* every latent, as many draws each.
PushForward(node, stacks) ==
  IF \/ node \notin {"none", "y"} \/ ~(Coordinates \subseteq DOMAIN stacks)
     \/ Cardinality({Len(stacks[x]) : x \in DOMAIN stacks}) > 1 THEN {}
  ELSE {[d \in DOMAIN stacks["c"] |-> [k \in Samples |-> Carried(k, [x \in Coordinates |-> stacks[x][d]])]]}

-----------------------------------------------------------------------------
(* A stationary covariance, of four samples in a ring *)

Lags == 0 .. 3
Cosine(n) == <<1, 0, -1, 0>>[(n % 4) + 1]
Sine(n) == Cosine(n + 3)
OverLags(F(_)) == F(0) + F(1) + F(2) + F(3)

\* CirculantPrecision.eigenvalues: the real part of the transform of the first
\* column, and what they multiply to.
Eigenvalues(c) == [k \in Lags |-> OverLags(LAMBDA j : c[j] * Cosine(j * k))]
Normalizer(c) == LET e == Eigenvalues(c) IN e[0] * e[1] * e[2] * e[3]

\* check_positive_definite.
PositiveDefinite(c) == \A k \in Lags : Eigenvalues(c)[k] > 0

\* CirculantPrecision.apply, by the transform and back; over four normalizers.
ApplyCirculant(c, r) ==
  LET re(k) == OverLags(LAMBDA j : r[j] * Cosine(j * k))
      im(k) == 0 - OverLags(LAMBDA j : r[j] * Sine(j * k))
      e == Eigenvalues(c)
      others == [k \in Lags |-> e[(k + 1) % 4] * (e[(k + 2) % 4] * e[(k + 3) % 4])]
  IN [j \in Lags |-> OverLags(LAMBDA k : (re(k) * Cosine(j * k) - im(k) * Sine(j * k)) * others[k])]

\* A displacement drawn at random has a part in every mode.
Displacement == [j \in Lags |-> IF j = 0 THEN 1 ELSE 0]

\* (bug) the gradient alone, which a factor in front leaves as it is
Describes_Sloped(density, claim) ==
  /\ density.quadratic
  /\ \A j \in Lags :
       ApplyCirculant(density.column, Displacement)[j] * Normalizer(claim)
         = ApplyCirculant(claim, Displacement)[j] * Normalizer(density.column)

\* check_precision: a node's own density, a normal of some column or one that is
\* not quadratic, against the precision claimed of it; its gradient, its height
\* at the mode, and twice the displacement.
Describes(density, claim) ==
  /\ density.quadratic
  /\ \A j \in Lags :
       ApplyCirculant(density.column, Displacement)[j] * Normalizer(claim)
         = ApplyCirculant(claim, Displacement)[j] * Normalizer(density.column)
  /\ Normalizer(density.column) * density.height = Normalizer(claim)

PositiveColumns == {c \in [Lags -> 0 .. 2] : PositiveDefinite(c)}
Covariance(c, i, j) == c[(j - i + 4) % 4] + c[(i - j + 4) % 4]

\* Of every column the check lets pass, apply is the inverse of the covariance
\* that is left when what is not symmetric in it is averaged away; and a precision
\* is said to describe a density exactly when their covariances are one.
CirculantsInvert ==
  /\ \A c \in PositiveColumns, r \in {[j \in Lags |-> IF j = s THEN 1 ELSE 0] : s \in Lags} :
       LET x == ApplyCirculant(c, r)
       IN \A i \in Lags : OverLags(LAMBDA j : Covariance(c, i, j) * x[j]) = 8 * Normalizer(c) * r[i]
  /\ \A c, d \in PositiveColumns, q \in BOOLEAN, h \in {1, 2} :
       Describes([column |-> d, quadratic |-> q, height |-> h], c)
         <=> q /\ h = 1 /\ \A i, j \in Lags : Covariance(c, i, j) = Covariance(d, i, j)

-----------------------------------------------------------------------------
(* What is asked before it is built *)

FirstRefusal(reasons) ==
  LET refusing == SelectSeq(reasons, LAMBDA r : r # "none")
  IN IF refusing = <<>> THEN "none" ELSE refusing[1]

NamesRefusal ==
  IF request.names = <<>> THEN "empty block"
  ELSE IF ~IsInjective(request.names) THEN "listed twice"
  ELSE IF ~(Members \subseteq LatentNames) THEN "not a latent"
  ELSE "none"

AtRefusal ==
  IF ~(request.given \subseteq LatentNames) THEN "not a latent"
  ELSE IF request.given \cap Members # {} THEN "pins a member"
  ELSE IF ~(Outside \subseteq request.given) THEN "no value"
  ELSE "none"

AncestryRefusal == IF problem.under /\ {"a", "z"} \subseteq Members THEN "jointly dependent" ELSE "none"
EmptyRefusal    == IF problem.data = <<>> THEN "nothing observed" ELSE "none"

\* check_gaussian and check_observed, where the check stands.
ScaleRefusal(v) ==
  IF \E k \in Samples : Scale(k, v) <= 0 THEN "scale not positive and finite" ELSE "none"

\* (bug) the claim is checked where the caller stands only
CheckedAt_Here(v) == {v}

\* The caller's own values, and two draws of the outside latents' priors.
CheckedAt(v) == {v} \cup {[x \in Coordinates |-> draw] : draw \in {1, 2}}

\* affinity_errors: does a sample leave its own linearization at a probe?
Departs(v) ==
  \E k \in Samples, scale \in {1, 3} :
    Isolated(k, v, [x \in InBlock |-> scale])
      # Offset(k, v) + MapThenSumSet(LAMBDA x : scale * Tangent(k, x, v), InBlock)

AffinityRefusal(v) == IF \E p \in CheckedAt(v) : Departs(p) THEN "not affine" ELSE "none"

LinearOperator(v) ==
  LET named == FirstRefusal(<<NamesRefusal, AtRefusal>>)
  IN IF named # "none" THEN named
     ELSE FirstRefusal(<<AncestryRefusal, EmptyRefusal, ScaleRefusal(v), AffinityRefusal(v)>>)

-----------------------------------------------------------------------------
(* How it will be sampled *)

\* (bug) every member is displaced alike
Displacements_Uniform(v) == {[x \in InBlock |-> PriorMean(x, v) + f] : f \in {1, -1}}

\* _dependence_probe: all members alike, and each by an amount of its own.
Displacements(v) ==
  {[x \in InBlock |-> PriorMean(x, v) + f * (IF alike \/ x = "a" THEN 1 ELSE 2)] :
     f \in {1, -1}, alike \in BOOLEAN}

\* (bug) the noise is measured from the prior alone
DataInformed_Not(v) == {}

\* _data_informed_point: the block's own solution, where it is on the grid.
DataInformed(v) == {mu \in [InBlock -> 0 .. 4] : Solves(mu, v)}

\* _sigma_movement.
NoiseMoves(v) ==
  \E move \in Displacements(v) \cup DataInformed(v), k \in Samples :
    Sharpness(k, With(v, move)) # Scale(k, v)

\* _classify_block: exact as it is drawn, or a proposal to be corrected.
Method(v) == IF NoiseMoves(v) THEN "corrected" ELSE "gcr"

-----------------------------------------------------------------------------
Build ==
  /\ built = "asked"
  /\ LET why == LinearOperator(values)
     IN built' = IF why # "none" THEN why ELSE Method(values)
  /\ UNCHANGED <<problem, request, values>>

\* The rest of the sweep moves what is outside; the block is built again there,
\* by unchecked_operator.
Sweep ==
  /\ built \in {"gcr", "corrected"}
  /\ \E v \in [Coordinates -> 0 .. 2] :
       /\ \A x \in InBlock : v[x] = values[x]
       /\ values' = v
  /\ UNCHANGED <<problem, request, built>>

Refused == built \notin {"asked", "gcr", "corrected"} /\ UNCHANGED blockVars

BlockNext == Build \/ Sweep \/ Refused

-----------------------------------------------------------------------------
Two(x, y) == [Still EXCEPT ![x] = @ + 1, ![y] = (IF x = y THEN 2 ELSE 1)]

EnergyAt(move) == Energy(With(values, move))

\* The partition gives no block a latent that another one's prior reads.
NothingBelow == problem.under /\ "a" \in Members => "z" \in Members

\* A block drawn as it is has the conditional density of log_joint for its own:
\* wherever the rest of the sweep stands, the normal equations are its curvature
\* and slope, by finite differences, the fluctuations of a draw have that
\* curvature for covariance, the Fisher matrix has it entry by entry, and the
\* weight of a draw is the same everywhere. Samples that were not seen say
\* nothing, whatever they hold.
SolvedIsTheConditional ==
  built = "gcr" /\ NothingBelow =>
    /\ \A x, y \in InBlock :
         2 * Normal(x, y, values) = EnergyAt(Two(x, y)) - EnergyAt(Along(x, 1)) - EnergyAt(Along(y, 1)) + EnergyAt(Still)
    /\ \A x \in InBlock : 4 * RightHandSide(x, values) = EnergyAt(Along(x, -1)) - EnergyAt(Along(x, 1))
    /\ \A x, y \in InBlock :
         Normal(x, y, values) = MapThenSumSet(LAMBDA k : FromData(k, x, values) * FromData(k, y, values), Samples)
                              + MapThenSumSet(LAMBDA z : FromPrior(z, x) * FromPrior(z, y), InBlock)
    /\ \A i, j \in DOMAIN Flat : Information(i, j, values) = Normal(Flat[i], Flat[j], values)
    /\ \A mu \in {m \in [InBlock -> 0 .. 4] : FrozenAgrees(m, values)} :
         /\ \A k \in Samples : Sharpness(k, With(values, mu)) = Scale(k, values)
         /\ \A x \in InBlock : Weight(Along(x, 1), mu, values) = Weight(Still, mu, values)

Bordered(matrix, k) ==
  [i, j \in DOMAIN Flat |-> matrix.entries[i, j] + Jacobian(k, Flat[i], values) * Jacobian(k, Flat[j], values)]

\* The error bar of a prediction: to see the prediction once more, with unit noise,
\* multiplies the determinant of what is known by one and the variance that was
\* carried; a matrix that is no covariance has none, nor has a block with a
\* complex latent in it, and every other block does. The same map takes draws to
\* predictions, one by one.
CarriedIsTheSpread ==
  built = "gcr" /\ NothingBelow =>
    /\ \A prior \in BOOLEAN, node \in {"none", "y", "a"}, given \in {LatentNames, {}} :
         LET f == FisherInformation(prior, values)
             n == Len(Flat)
         IN /\ Propagate(f, node, given, values) = {}
            /\ \A s \in ParameterCovariance(f, 0) :
                 LET carried == Propagate(s, node, given, values)
                 IN /\ carried # {} <=> node # "a" /\ given # {} /\ ("z" \in Members => ~problem.complex)
                    /\ \A variance \in carried, k \in Samples : variance[k] = Determinant(Bordered(f, k), n) - s.over
    /\ LET stacks == [x \in Coordinates |-> <<values[x], values[x] + (IF x \in InBlock THEN 1 ELSE 0)>>]
       IN \A pushed \in PushForward("y", stacks) : \A k \in Samples :
            pushed[2][k] - pushed[1][k] = MapThenSumSet(LAMBDA x : Tangent(k, x, values), InBlock)

\* What is solved exactly, what a draw of it weighs, and what it says elsewhere.
SolvesAreExact == SolvedIsTheConditional /\ CarriedIsTheSpread /\ CirculantsInvert
=============================================================================
