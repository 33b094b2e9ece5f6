------------------------------- MODULE Diagnosis -------------------------------
(***************************************************************************)
(* diagnose/: the reports one can ask of a graph before sampling it. Here   *)
(* the graph is linear and Gaussian, two latents under two rows of data, so *)
(* that what a report says can be computed; the arithmetic is that of a     *)
(* prime field, where a solve is exact and an identity that holds for all   *)
(* numbers holds. A mode is looked for by _newton over any landscape on a   *)
(* grid (map_estimate), and found or not (prior_sensitivity).               *)
(***************************************************************************)
EXTENDS Integers, Sequences, FiniteSets, FiniteSetsExt, SequencesExt

CONSTANTS
  Prime,       \* bound: the field
  Heights,     \* bound: values of a landscape
  Grid,        \* bound: places of a landscape, 0 .. Grid
  MaxNewton,   \* MAX_NEWTON_STEPS
  Ceiling      \* condition_ceiling: past it an inverse has no digits left

ASSUME AField == Prime \in Nat /\ Prime > 200 /\ Grid \in Nat /\ MaxNewton \in Nat /\ Ceiling \in Nat \ {0}

Lats == {"a", "b"}
NoNumber == 99

\* What keeps a graph from being diagnosed, and the questions that are none.
Flaws == {"none", "ambient float32", "float32 latents", "float32 graph", "complex", "integer", "no data",
          "no loc", "stray at", "bad shape at", "no latents"}

VARIABLES
  study,    \* the graph
  ask,      \* which report, over which latents, and where
  search,   \* of _newton
  report    \* what came back

diagnosisVars == <<study, ask, search, report>>

Sel == ToSet(ask.names)
Mod(x) == x % Prime
\* A solve that has no answer returns something all the same.
Reciprocals == [b \in 0 .. Prime - 1 |-> IF b = 0 THEN 0 ELSE CHOOSE c \in 1 .. Prime - 1 : Mod(b * c) = 1]

\* M x = v over the latents of M.
Solve(M, v) ==
  IF Cardinality(DOMAIN M) = 1
  THEN [l \in DOMAIN M |-> Mod(Mod(v[l]) * Reciprocals[Mod(M[l][l])])]
  ELSE LET d == Reciprocals[Mod(M["a"]["a"] * M["b"]["b"] - M["a"]["b"] * M["b"]["a"])]
       IN [l \in Lats |->
             IF l = "a" THEN Mod(Mod(M["b"]["b"] * v["a"] - M["a"]["b"] * v["b"]) * d)
                        ELSE Mod(Mod(M["a"]["a"] * v["b"] - M["b"]["a"] * v["a"]) * d)]
Det(M) == IF Cardinality(DOMAIN M) = 1 THEN Min({M[l][l] : l \in DOMAIN M})
          ELSE M["a"]["a"] * M["b"]["b"] - M["a"]["b"] * M["b"]["a"]
Definite(M) == Det(M) > 0 /\ \A l \in DOMAIN M : M[l][l] > 0

-----------------------------------------------------------------------------
\* resolve_names: something, of this graph, once.
NamesResolved(names) == names # <<>> /\ ToSet(names) \subseteq Lats /\ IsInjective(names)

StrayPoint   == {"stray at", "bad shape at"}           \* latent_values
Underivable  == {"complex", "integer"}                 \* check_differentiable
Unpredicted  == {"no data", "no loc"}                  \* check_observed_have_locs
NarrowCall   == {"ambient float32"}                    \* refuse_ambient_float32
NarrowValues == {"float32 graph", "float32 latents"}   \* refuse_single_precision

DoubtsOf(what) ==
  StrayPoint \cup Underivable \cup NarrowCall \cup NarrowValues
    \cup (IF what = "map" THEN {"no latents"} ELSE Unpredicted)

\* A refusal that is an answer, of map_estimate; the others raise.
Answered == {"ambient float32", "float32 latents", "float32 graph", "no latents"}

\* local_block: the rows of the prediction, tangent where the caller stands. Only
\* the precision knows of the rows nobody saw.
DesignRow(r, l) == study.design[r][l]
DesignRows == DOMAIN study.design
RowInformation(sel, rows) ==
  [l \in sel |-> [k \in sel |-> FoldSet(LAMBDA r, t : t + DesignRow(r, l) * DesignRow(r, k), 0, rows)]]

\* What a child outside the selection holds of its parent.
HeldByChild(sel) == study.tangled /\ "a" \in sel /\ "b" \notin sel

PlusDiagonal(M, p) == [l \in DOMAIN M |-> [k \in DOMAIN M |-> M[l][k] + (IF l = k THEN p[l] ELSE 0)]]

\* The density that is left when the priors of the selection are taken out of it:
\* its curvature, and its pull, where the others stay at their values.
Rest(sel, rows) ==
  LET child == [l \in sel |-> IF l = "a" /\ HeldByChild(sel) THEN study.prior["b"].precision ELSE 0]
      residual(r) == study.data[r] - FoldSet(LAMBDA k, t : t + DesignRow(r, k) * ask.at[k], 0, Lats \ sel)
  IN [curvature |-> PlusDiagonal(RowInformation(sel, rows), child),
      pull |-> [l \in sel |-> FoldSet(LAMBDA r, t : t + DesignRow(r, l) * residual(r), 0, rows)
                                + child[l] * ask.at["b"]],
      reads |-> {<<"row", r>> : r \in rows} \cup {<<"prior", l>> : l \in Lats \ sel}]

\* neg_log_rest reads every node that is not selected.
NegLogRest(sel) == Rest(sel, DesignRows)

\* _prior_moments: where the selection's priors stand.
PriorMoments(l) ==
  [loc |-> IF l = "b" /\ study.tangled THEN ask.at["a"] ELSE study.prior[l].loc,
   precision |-> study.prior[l].precision]
Precisions(sel) == [l \in sel |-> PriorMoments(l).precision]

\* neg_log_posterior: the rest, and the selection's priors as their quadratics.
NegLogPosterior(rest, p) ==
  [curvature |-> PlusDiagonal(rest.curvature, p),
   pull |-> [l \in DOMAIN p |-> rest.pull[l] + p[l] * PriorMoments(l).loc]]

\* Where a density is greatest.
Mode(q) == Solve(q.curvature, q.pull)

Less(u, v)  == [l \in DOMAIN u |-> Mod(u[l] - v[l])]
Weighed(p, u) == [l \in DOMAIN u |-> Mod(p[l] * u[l])]

-----------------------------------------------------------------------------
\* identifiability: columns are normalised, and what they leave free is read off
\* the singular value decomposition, whole where there are fewer rows than columns.
Norm(l) ==
  LET n == FoldSet(LAMBDA r, t : t + DesignRow(r, l), 0, DesignRows) IN IF n = 0 THEN 1 ELSE n
Normalised(r, l) == Mod(DesignRow(r, l) * Reciprocals[Norm(l)])

Rank(sel) ==
  IF \A r \in DesignRows, l \in sel : DesignRow(r, l) = 0 THEN 0
  ELSE IF Cardinality(sel) = 2 /\ Det(RowInformation(sel, DesignRows)) # 0 THEN 2 ELSE 1

Axis(sel, l) == [k \in sel |-> IF k = l THEN 1 ELSE 0]
FreeDirections(sel) ==
  CASE Rank(sel) = Cardinality(sel) -> {}
    [] Rank(sel) = 0 -> {Axis(sel, l) : l \in sel}
    [] OTHER -> LET r == CHOOSE q \in DesignRows : \E l \in sel : DesignRow(q, l) # 0
                IN {[l \in sel |-> IF l = "a" THEN Normalised(r, "b") ELSE Mod(0 - Normalised(r, "a"))]}

\* (bug) a thin decomposition has a direction per row
NullSpace_Thin(sel) ==
  IF Cardinality(DesignRows) < Cardinality(sel) THEN {} ELSE FreeDirections(sel)

NullSpace(sel) == FreeDirections(sel)

\* IdentifiabilityReport.direction: in the latents' own units.
Direction(v) == [l \in DOMAIN v |-> Mod(v[l] * Reciprocals[Norm(l)])]

Identifiability(sel) ==
  [kind |-> "identifiability", sel |-> sel, nullity |-> Cardinality(sel) - Rank(sel),
   directions |-> {Direction(v) : v \in NullSpace(sel)}]

\* block_coupling: the information of the rows that were seen and the priors.
CouplingMatrix(sel) == PlusDiagonal(RowInformation(sel, study.seen), Precisions(sel))

\* _classify_correlation: at the floor, or within it of one, it says nothing.
Coupling ==
  LET F == CouplingMatrix(Lats)
  IN IF F["a"]["b"] = 0 \/ Det(F) = 0
     THEN [kind |-> "refused correlation"]
     ELSE [kind |-> "coupling", squared |-> <<F["a"]["b"] ^ 2, F["a"]["a"] * F["b"]["b"]>>]

-----------------------------------------------------------------------------
(* dispatch/pilot.py: draws of two latents, to be looked at for a dependence *)
(* that a correlation does not show. A sample is four draws of each.         *)

Draws == 1 .. 4
SumOf(F(_)) == F(1) + F(2) + F(3) + F(4)
Covary(u, v) == 4 * SumOf(LAMBDA i : u[i] * v[i]) - SumOf(LAMBDA i : u[i]) * SumOf(LAMBDA i : v[i])

\* augment: the draws, and their squares behind them.
Augment(u) == <<u, [i \in Draws |-> u[i] * u[i]]>>
Gram(f, g) == [i, j \in 1 .. 2 |-> Covary(f[i], g[j])]
Minor(m) == m[1, 1] * m[2, 2] - m[1, 2] * m[2, 1]
Adjoint(m) == [i, j \in 1 .. 2 |-> IF i = j THEN m[3 - i, 3 - i] ELSE 0 - m[i, j]]
MatrixProduct(m, n) == [i, j \in 1 .. 2 |-> m[i, 1] * n[1, j] + m[i, 2] * n[2, j]]

\* canonical_correlation of one feature and one, squared.
LinearCC(u, v) == <<Covary(u, v) * Covary(u, v), Covary(u, u) * Covary(v, v)>>

\* That of the augmented features, squared: does the largest root of its
\* characteristic equation lie beyond t[1] / t[2]?
QuadraticBeyond(u, v, t) ==
  LET x == Gram(Augment(u), Augment(u))
      y == Gram(Augment(v), Augment(v))
      c == Gram(Augment(u), Augment(v))
      across == MatrixProduct(MatrixProduct(Adjoint(x), c), MatrixProduct(Adjoint(y), Gram(Augment(v), Augment(u))))
      trace == across[1, 1] + across[2, 2]
      whole == Minor(x) * Minor(y)
  IN /\ t[1] < t[2]
     /\ trace * t[2] > 2 * whole * t[1]
          \/ whole * t[1] * t[1] - trace * t[1] * t[2] + Minor(c) * Minor(c) * t[2] * t[2] < 0

\* A feature that never moved is not noticed, and stands for any direction: both
\* readings are then anything.
Unmoved(u) == Minor(Gram(Augment(u), Augment(u))) = 0

\* (bug) of the features of one block
SamplingFloor_OneBlock(n_eff) == <<2, n_eff>>

\* sampling_floor, squared: of the features of both blocks.
SamplingFloor(n_eff) == <<4, n_eff>>

\* DECLARED_MULTIPLE, squared, of the linear reading.
Multiple(u, v) == <<49 * LinearCC(u, v)[1], LinearCC(u, v)[2]>>

\* (bug) either is enough
Vetoes_Either(u, v, n_eff) ==
  IF Unmoved(u) \/ Unmoved(v) THEN BOOLEAN
  ELSE {QuadraticBeyond(u, v, SamplingFloor(n_eff)) \/ QuadraticBeyond(u, v, Multiple(u, v))}

\* pilot_report: beyond its floor, and beyond what features alone may do.
Vetoes(u, v, n_eff) ==
  IF Unmoved(u) \/ Unmoved(v) THEN BOOLEAN
  ELSE {QuadraticBeyond(u, v, SamplingFloor(n_eff)) /\ QuadraticBeyond(u, v, Multiple(u, v))}

\* pilot_is_warranted and resolve_switch: a switch stands unless it is vetoed, and
\* what was declared takes its place.
ResolveSwitch(declared, proposed, contested, vetoes) ==
  IF proposed # declared \/ contested THEN {IF vetoed THEN declared ELSE proposed : vetoed \in vetoes} ELSE {proposed}

\* Draws in some order of the first latent's.
Sorted == {u \in [Draws -> {-1, 0, 1}] : \A i \in 1 .. 3 : u[i] <= u[i + 1]}
PilotSamples == Sorted \X [Draws -> {-1, 0, 1}]

\* A pilot is looked at, and the switch it was run for is made or not.
Pilot ==
  /\ ask.what = "pilot" /\ report.kind = "none"
  /\ \E s \in PilotSamples, n_eff \in {4, 40}, proposed \in {"joint", "split"}, contested \in BOOLEAN :
       \E ran \in ResolveSwitch("split", proposed, contested, Vetoes(s[1], s[2], n_eff)) :
         report' = [kind |-> "pilot", left |-> s[1], right |-> s[2], n_eff |-> n_eff, proposed |-> proposed,
                    contested |-> contested, ran |-> ran]
  /\ UNCHANGED <<study, ask, search>>

-----------------------------------------------------------------------------
\* _ancestors: what the density of a latent hangs on.
Ancestors(l) == IF l = "b" /\ study.tangled THEN {"a"} ELSE {}

\* _refuse_entangled_selection: a prior that moves with the latents under study.
Entangled(sel) == \E l \in sel : Ancestors(l) \cap sel # {}

\* A prior of the selection that has no quadratic form.
NotGaussian(sel) == \E l \in sel \cap Lats : study.prior[l].family # "normal"

\* The largest eigenvalue of a curvature is not Ceiling times the smallest.
WellConditioned(H) ==
  Cardinality(DOMAIN H) = 1 \/ (H["a"]["a"] + H["b"]["b"]) ^ 2 * Ceiling < (Ceiling + 1) ^ 2 * Det(H)
Healthy(H) == Definite(H) /\ WellConditioned(H)

\* (bug) what the priors hold counts as held
Unanchored_Posterior(sel) == ~Healthy(PlusDiagonal(NegLogRest(sel).curvature, Precisions(sel)))

\* _refuse_unanchored_selection: the likelihood alone holds no mode, or holds it
\* with no digits to spare.
Unanchored(sel) == ~Healthy(NegLogRest(sel).curvature)

\* The refusal names a null direction where identifiability has one.
AnchorRefusal(sel) == [kind |-> "raised", error |-> "GraphError", blames_a_direction |-> Identifiability(sel).nullity # 0]

\* (bug) the displacement of the declared mode stands for that of the likelihood's
ToLikelihoodMode_Offset(offset, H, p) == offset

\* shift_at: from the counterfactual prior to the mode of the likelihood.
ToLikelihoodMode(offset, H, p) ==
  LET s == Solve(H, Weighed(p, offset)) IN [l \in DOMAIN offset |-> Mod(offset[l] + s[l])]

\* Precisions one may try; zero and less are of no width.
Widths == {-1, 0, 1, 2, 3}

\* PriorSensitivityReport.shift_at, of what the report holds.
ShiftAt(r, name, width) ==
  LET p == [r.precisions EXCEPT ![name] = width]
      offset == Less(r.loc, r.mode)
      likelihood == [l \in DOMAIN p |-> [k \in DOMAIN p |->
                       r.precision[l][k] - (IF l = k THEN r.precisions[l] ELSE 0)]]
  IN Solve(PlusDiagonal(likelihood, p), Weighed(p, ToLikelihoodMode(offset, likelihood, r.precisions)))[name]

\* prior_sensitivity, once it has the mode, in units of sigma_post, which divides
\* every shift alike. The second search starts at the mode and may not end: then
\* nothing is verified, and the closed form is reported all the same.
PriorSensitivity(sel, refit_converged) ==
  LET rest == NegLogRest(sel)
      p    == Precisions(sel)
      loc  == [l \in sel |-> PriorMoments(l).loc]
      posterior == NegLogPosterior(rest, p)
      mode  == Mode(posterior)
      shift == Solve(rest.curvature, Weighed(p, Less(loc, mode)))
      refit == Less(mode, Mode(rest))
  IN [kind |-> "sensitivity", sel |-> sel, mode |-> mode, loc |-> loc, precisions |-> p,
      precision |-> posterior.curvature, shift |-> shift, refit_converged |-> refit_converged,
      verified |-> [l \in sel |-> refit_converged /\ shift[l] = refit[l]]]

\* Somebody asks a report what another width of one prior would do.
Counterfactual ==
  /\ report.kind = "sensitivity"
  /\ \E name \in Lats \cup {"c"}, width \in Widths :
       report' = IF name \notin report.sel \/ width <= 0 THEN [kind |-> "raised", error |-> "GraphError"]
                 ELSE [kind |-> "shift", of |-> report, name |-> name, width |-> width,
                       shift |-> ShiftAt(report, name, width)]
  /\ UNCHANGED <<study, ask, search>>

-----------------------------------------------------------------------------
\* JeffreysPrior: what it is declared over, what that declares itself, and
\* whether it is identified. The density floors the spectrum it is read off.
Covered(sel) == \A l \in sel : study.prior[l].family = "improper"
JeffreysPrior(sel) ==
  IF ~Covered(sel) \/ Identifiability(sel).nullity # 0 THEN [kind |-> "raised", error |-> "GraphError"]
  ELSE [kind |-> "jeffreys", sel |-> sel, information |-> RowInformation(sel, study.seen)]

-----------------------------------------------------------------------------
\* The landscape of map_estimate: its height, slope and curvature on a grid.
Places == 0 .. Grid
Height(x) == IF x \in Places THEN study.landscape[x] ELSE NoNumber
Around(x) == {Height(x - 1), Height(x), Height(x + 1)}
Slope(x) == IF NoNumber \in Around(x) THEN NoNumber ELSE Height(x + 1) - Height(x - 1)
Curve(x) == IF NoNumber \in Around(x) THEN NoNumber ELSE Height(x + 1) + Height(x - 1) - 2 * Height(x)

Signed(n, d) == IF n < 0 THEN 0 - ((0 - n) \div d) ELSE n \div d

\* _descent_direction: the Newton step where the curvature is positive; where it is
\* negative it is reflected, twice its size above what it was; and there is none
\* where it vanishes or is no number.
Directions(x) ==
  IF Curve(x) \in {NoNumber, 0} THEN {} ELSE {Signed(Slope(x), 2 * Max({Curve(x), 0 - Curve(x)}))}

\* One step of _newton, its length halved until it does not climb. A step too
\* short to count ends the search.
Halvings == 0 .. 2
NewtonStep ==
  /\ search.state = "searching"
  /\ LET x == search.at
     IN IF Directions(x) = {} \/ search.step = MaxNewton
        THEN search' = [search EXCEPT !.state = "gave up"]
        ELSE \E d \in Directions(x) :
               LET trials == {h \in Halvings : Height(x - Signed(d, 2 ^ h)) <= Height(x)}
               IN IF trials = {} THEN search' = [search EXCEPT !.state = "gave up"]
                  ELSE LET y == x - Signed(d, 2 ^ Min(trials))
                       IN search' = [at |-> y, step |-> search.step + 1,
                                     state |-> IF y = x THEN "converged" ELSE "searching"]
  /\ UNCHANGED <<study, ask, report>>

\* (bug) the step budget stands for convergence
Stationary_Step(x) == search.state = "converged"

\* map_estimate looks at the gradient where the search ended, whatever it says.
Stationary(x) == Slope(x) = 0

\* map_estimate: finite, stationary, and with a curvature that is one.
EndMap ==
  /\ ask.what = "map" /\ search.state \in {"converged", "gave up"} /\ report.kind = "none"
  /\ LET x == search.at
     IN report' = IF NoNumber \notin {Height(x), Slope(x)} /\ Stationary(x) /\ Curve(x) > 0
                  THEN [kind |-> "map", at |-> x] ELSE [kind |-> "refused"]
  /\ UNCHANGED <<study, ask, search>>

-----------------------------------------------------------------------------
\* What a call raises before anything is computed, in the order it looks: of a
\* sensitivity, the precision of the values comes after the priors, of the others before.
Raises ==
  LET late == IF ask.what = "sensitivity" THEN NarrowValues ELSE {}
  IN CASE \/ study.flaw \in DoubtsOf(ask.what) \ late
          \/ ask.what # "map" /\ ~NamesResolved(ask.names)
          \/ ask.what = "coupling" /\ Len(ask.names) # 2
          \/ ask.what = "sensitivity" /\ Entangled(Sel) -> "GraphError"
       [] ask.what \in {"sensitivity", "coupling"} /\ NotGaussian(Sel) -> "NotGaussian"
       [] study.flaw \in late -> "GraphError"
       [] OTHER -> "nothing"
RefusedFirst == Raises # "nothing"

Refuse ==
  /\ report.kind = "none" /\ search.state = "none" /\ RefusedFirst
  /\ report' = IF ask.what = "map" /\ study.flaw \in Answered THEN [kind |-> "refused"]
               ELSE [kind |-> "raised", error |-> Raises]
  /\ UNCHANGED <<study, ask, search>>

StartMap ==
  /\ ask.what = "map" /\ report.kind = "none" /\ search.state = "none" /\ ~RefusedFirst
  /\ search' = [at |-> ask.at["a"], step |-> 0, state |-> "searching"]
  /\ UNCHANGED <<study, ask, report>>

\* A report over a linear graph. The search for its mode, on a quadratic, ends
\* there or not at all (ConvergenceError).
Diagnose ==
  /\ ask.what # "map" /\ report.kind = "none" /\ ~RefusedFirst
  /\ \/ ask.what = "identifiability" /\ report' = Identifiability(Sel)
     \/ ask.what = "coupling" /\ report' = Coupling
     \/ ask.what = "jeffreys" /\ report' = JeffreysPrior(Sel)
     \/ ask.what = "sensitivity" /\ report' = [kind |-> "raised", error |-> "ConvergenceError"]
     \/ ask.what = "sensitivity" /\ Unanchored(Sel) /\ report' = AnchorRefusal(Sel)
     \/ ask.what = "sensitivity" /\ ~Unanchored(Sel)
        /\ \E refit_converged \in BOOLEAN : report' = PriorSensitivity(Sel, refit_converged)
  /\ UNCHANGED <<study, ask, search>>

-----------------------------------------------------------------------------
NoSearch == [at |-> 0, step |-> 0, state |-> "none"]

\* Linear graphs: data, where the latents stand, and what is asked of them.
Study(design, seen, families, p, tangled, flaw) ==
  [design |-> design, data |-> <<1, 5>>, seen |-> seen, tangled |-> tangled, flaw |-> flaw,
   prior |-> [l \in Lats |-> [family |-> families[l], precision |-> p[l], loc |-> IF l = "a" THEN 2 ELSE 7]],
   landscape |-> [x \in Places |-> 0]]
Question(what, names) == [what |-> what, names |-> names, at |-> [l \in Lats |-> IF l = "a" THEN 3 ELSE 4]]
Whats == {"identifiability", "sensitivity", "coupling", "jeffreys"}

Coefficients == [Lats -> 0 .. 2]
Designs == {<<r>> : r \in Coefficients} \cup {<<r, s>> : r, s \in Coefficients}
Normals == [l \in Lats |-> "normal"]
Families == {Normals, [l \in Lats |-> "improper"], [a |-> "normal", b |-> "improper"]}
Blocks == {<<"a">>, <<"b">>, <<"a", "b">>}
Weights == {[a |-> 1, b |-> 2], [a |-> 3, b |-> 1]}
AnyDesign == <<[a |-> 1, b |-> 2], [a |-> 1, b |-> 0]>>
PlainWeights == [a |-> 1, b |-> 2]

Linear(d) ==
  {[study |-> Study(d, s, f, p, t, "none"), ask |-> Question(w, n)] :
     s \in {DOMAIN d, {1}}, f \in Families, p \in Weights, t \in BOOLEAN, w \in Whats, n \in Blocks}
Flawed ==
  {[study |-> Study(AnyDesign, {1, 2}, f, PlainWeights, FALSE, x), ask |-> Question(w, n)] :
     x \in Flaws, f \in Families, w \in Whats \cup {"map"}, n \in Blocks \cup {<<>>, <<"a", "a">>, <<"c">>}}
Landscapes ==
  {[study |-> [Study(AnyDesign, {1, 2}, Normals, PlainWeights, FALSE, "none") EXCEPT !.landscape = h],
    ask |-> [Question("map", <<"a", "b">>) EXCEPT !.at = [l \in Lats |-> x]]] :
     h \in [Places -> Heights \cup {NoNumber}], x \in Places}
Cases == {Flawed, Landscapes} \cup {Linear(d) : d \in Designs}
           \cup {{[study |-> Study(AnyDesign, {1, 2}, Normals, PlainWeights, FALSE, "none"),
                   ask |-> Question("pilot", <<"a", "b">>)]}}

DiagnosisInit ==
  /\ \E C \in Cases : \E c \in C : study = c.study /\ ask = c.ask
  /\ search = NoSearch /\ report = [kind |-> "none"]

DiagnosisNext == Refuse \/ StartMap \/ NewtonStep \/ EndMap \/ Diagnose \/ Counterfactual \/ Pilot

DiagnosisSpec == DiagnosisInit /\ [][DiagnosisNext]_diagnosisVars

-----------------------------------------------------------------------------
\* What a report says is so, of the graph it was asked about: the directions it
\* calls free move no prediction, and there are as many as its nullity; a shift
\* is the distance between the mode with the priors and the mode without, also
\* under a width the prior does not have, where the one it has gives the shift of
\* the report; what is verified is so by two searches that ended; a Jeffreys
\* density exists, where every row was seen; and a MAP is a minimum.
ReportsAreSo ==
  /\ report.kind = "identifiability" =>
       /\ Cardinality(report.directions) = report.nullity
       /\ \A d \in report.directions, r \in DesignRows :
            Mod(FoldSet(LAMBDA l, t : t + DesignRow(r, l) * d[l], 0, report.sel)) = 0
  /\ report.kind = "sensitivity" =>
       LET rest == NegLogRest(report.sel)
       IN /\ Definite(rest.curvature)
          /\ report.shift = Less(Mode(NegLogPosterior(rest, report.precisions)), Mode(rest))
          /\ \A l \in report.sel : report.verified[l] <=> report.refit_converged
  /\ report.kind = "shift" =>
       LET rest == NegLogRest(report.of.sel)
           tried == [report.of.precisions EXCEPT ![report.name] = report.width]
       IN /\ report.shift = Less(Mode(NegLogPosterior(rest, tried)), Mode(rest))[report.name]
          /\ tried = report.of.precisions => report.shift = report.of.shift[report.name]
  /\ report.kind = "jeffreys" /\ study.seen = DesignRows => Definite(report.information)
  /\ report.kind = "map" => \A y \in {report.at - 1, report.at + 1} : Height(report.at) < Height(y)

\* A pilot takes nothing for a dependence that is in the draws themselves, nor where
\* there is none, nor where the draws are too few to tell; one that some mixtures of
\* draws and squares show, past its floor and seven times as strong, is not missed; and
\* it puts nothing of its own in place. Of features that do not move only the last is
\* said: the arbitrary direction that stands for one may raise the reading that has to
\* be exceeded sevenfold too, so it may also hide a veto, for all pilot.py:154 says.
Mixtures == {<<1, 0>>, <<0, 1>>, <<1, 1>>, <<1, -1>>, <<1, 2>>, <<2, -1>>}
Mixed(u, w) == [i \in Draws |-> w[1] * u[i] + w[2] * u[i] * u[i]]
PilotsOnlyVeto ==
  report.kind = "pilot" =>
    LET u == report.left
        v == report.right
        vetoed == report.proposed = "joint" /\ report.ran = "split"
        far(c, t) == c[1] * t[2] > t[1] * c[2]
    IN /\ report.ran \in {"split", report.proposed}
       /\ ~Unmoved(u) /\ ~Unmoved(v) =>
            /\ vetoed => /\ report.n_eff > 4
                         /\ 49 * LinearCC(u, v)[1] < LinearCC(u, v)[2]
                         /\ \E i, j \in 1 .. 2 : i + j > 2 /\ Covary(Augment(u)[i], Augment(v)[j]) # 0
            /\ (\E w, z \in Mixtures :
                   LET c == LinearCC(Mixed(u, w), Mixed(v, z))
                   IN far(c, SamplingFloor(report.n_eff)) /\ far(c, Multiple(u, v))) => report.ran = "split"

\* "what remains of log_joint once the priors under study are removed"
\* (sensitivity.py:725): log_joint reads the rows that were seen, and the priors.
LogJointReads ==
  {<<"row", r>> : r \in study.seen} \cup {<<"prior", l>> : l \in Lats}
RestIsLogJoint ==
  report.kind = "sensitivity" =>
    NegLogRest(report.sel).reads = LogJointReads \ {<<"prior", l>> : l \in report.sel}
=============================================================================
