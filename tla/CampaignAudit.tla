---------------------------- MODULE CampaignAudit ----------------------------
(***************************************************************************)
(* marginal/compress.py, sqrtinfo.py and diagnostics.py: each night of a   *)
(* campaign is compressed into a term [R | z] over the survivors and a     *)
(* summary of what its own fit left over, its data are dropped, and all    *)
(* that can be asked of the campaign later is asked of those. Two columns  *)
(* survive, the noise of a sample that was taken is one, and a number that *)
(* is not an integer is kept as a numerator and a denominator: nothing is  *)
(* rounded, so an identity the code relies on can be checked.              *)
(***************************************************************************)
EXTENDS Integers, Sequences, FiniteSets, FiniteSetsExt, SequencesExt

CONSTANTS
  Nights,       \* what a night may bring: design, data, which samples were taken, templates ...
  MaxNights,    \* bound: nights in a campaign
  AuditPriors,  \* F_prior and its mean over the two columns, and whether they are of two
  Floors,       \* declared widths: of a latent, the square as a numerator and a denominator
  Tables,       \* posterior widths by campaign size, both as logarithms
  Probes        \* bound: how far a column is looked at, -Probes .. Probes

ASSUME AuditAssumption == MaxNights \in Nat /\ Probes \in Nat

VARIABLES
  nights,      \* (history) what the nights brought
  archive,     \* of each night: its term and its summary
  said      \* what the last question was answered

auditVars == <<nights, archive, said>>

Hole == 99               \* a sample that is not a number
NotANumber  == <<0, 0>>         \* a quotient that is not
Both == {1, 2}
Unasked == [kind |-> "none"]
RaisedStructure == [kind |-> "raised"]

\* The latents a term is over, and the columns of each.
Spans(over) == IF over = "pair" THEN [w |-> {1, 2}] ELSE [u |-> {1}, v |-> {2}]

-----------------------------------------------------------------------------
\* Sums, and quadratic forms over the two columns.
Dot(p, q) == MapThenSumSet(LAMBDA i : p[i] * q[i], DOMAIN p)
At(row, x) == row[1] * x[1] + row[2] * x[2]
InformationOf(rows) ==
  [j \in Both |-> [k \in Both |-> MapThenSumSet(LAMBDA i : rows[i][j] * rows[i][k], DOMAIN rows)]]
Against(rows, z) == [j \in Both |-> MapThenSumSet(LAMBDA i : rows[i][j] * z[i], DOMAIN rows)]

Form(F, u, v) == u[1] * At(F[1], v) + u[2] * At(F[2], v)
Det2(F) == F[1][1] * F[2][2] - F[1][2] * F[2][1]
Adjugate(F) == <<<<F[2][2], 0 - F[1][2]>>, <<0 - F[2][1], F[1][1]>>>>
RankOf(F) == IF Det2(F) # 0 THEN 2 ELSE IF F[1][1] + F[2][2] # 0 THEN 1 ELSE 0

\* numpy's cholesky goes through.
Positive(F) == F[1][1] > 0 /\ Det2(F) > 0

\* The pseudo-inverse of an information, and what its entries are divided by.
PInvOver(F) == CASE RankOf(F) = 2 -> Det2(F) [] RankOf(F) = 1 -> (F[1][1] + F[2][2]) ^ 2 [] OTHER -> 1
PInv(F, u, v) == CASE RankOf(F) = 2 -> Form(Adjugate(F), u, v) [] RankOf(F) = 1 -> Form(F, u, v) [] OTHER -> 0

\* A log-density, up to what the latents do not move: ||R x - z||^2 is
\* x' F x - 2 b' x + c, of so many rows, over some latents.
Quadratic(over, rows, F, b, c, finite) ==
  [over |-> over, rows |-> rows, F |-> F, b |-> b, c |-> c, finite |-> finite]
Cost(q, x) == Form(q.F, x, x) - 2 * At(q.b, x) + q.c

-----------------------------------------------------------------------------
Taken(night) == {i \in DOMAIN night.data : night.seen[i]}

\* (bug) a flagged sample is left to its weight of zero, which a NotANumber survives
WhereTaken_Weighted(night, values) ==
  [i \in DOMAIN values |-> IF night.seen[i] THEN values[i] ELSE IF values[i] = Hole THEN Hole ELSE 0]

\* A flagged sample is where a NotANumber lives: what was not taken is selected away.
WhereTaken(night, values) == [i \in DOMAIN values |-> IF night.seen[i] THEN values[i] ELSE 0]

\* SqrtInfo and compress refuse a design of another shape, complex parts, and a gap
\* in a covariance that has no sigma per sample to mask.
Compressible(night) == night.flaw = "none" /\ (night.correlated => Taken(night) = DOMAIN night.data)

CompressNight(night) ==
  LET z == WhereTaken(night, night.data)
      finite == Hole \notin ToSet(z)
  IN [over |-> night.over, finite |-> finite, target |-> z,
      rows |-> [i \in DOMAIN z |-> IF night.seen[i] THEN night.design[i] ELSE <<0, 0>>]]

\* What two columns of samples have in common outside the span of the design, over
\* PInvOver(InformationOf(rows)).
OutOfSpan(rows, p, q) ==
  LET F == InformationOf(rows)
  IN Dot(p, q) * PInvOver(F) - PInv(F, Against(rows, p), Against(rows, q))

\* _refuse_bad_templates: one entry per sample, a number wherever one was taken.
BadTemplate(night) ==
  \E t \in ToSet(night.templates) :
    Len(t.shape) # Len(night.data) \/ \E i \in Taken(night) : t.shape[i] = Hole

\* A projection is kept with the squared norm it is divided by the root of; of a
\* template inside the span nothing is left, and it is exactly zero.
Projection(term, column) ==
  LET norm == OutOfSpan(term.rows, column, column)
  IN IF norm = 0 THEN <<0, 1>> ELSE IF ~term.finite THEN NotANumber ELSE <<OutOfSpan(term.rows, column, term.target), norm>>

\* residual_summary, of the term over every column the night fits.
Summarised(night, term) ==
  LET F == InformationOf(term.rows)
  IN [chi2 |-> IF term.finite THEN <<OutOfSpan(term.rows, term.target, term.target), PInvOver(F)>> ELSE NotANumber,
      dof |-> Cardinality(Taken(night)) - RankOf(F),
      template_names |-> [k \in DOMAIN night.templates |-> night.templates[k].name],
      projections |-> [k \in DOMAIN night.templates |->
                         Projection(term, WhereTaken(night, night.templates[k].shape))]]

\* A night ends: its term and its summary are what is kept of it.
Night(night) ==
  /\ said = Unasked /\ Len(archive) < MaxNights
  /\ nights' = Append(nights, night)
  /\ LET term == CompressNight(night)
     IN IF Compressible(night) /\ ~BadTemplate(night)
        THEN archive' = Append(archive, [term |-> term, summary |-> Summarised(night, term)]) /\ UNCHANGED said
        ELSE said' = RaisedStructure /\ UNCHANGED archive

-----------------------------------------------------------------------------
Archived == DOMAIN archive
Term(e) == archive[e].term
Summary(e) == archive[e].summary
RowsOf(e) == Len(Term(e).rows)

\* Terms over other latents do not add: SqrtInfo.combine, _campaign_arrays.
OneParameterSet == \A e \in Archived : Term(e).over = Term(1).over
AllFinite == \A e \in Archived : Term(e).finite

\* ||R x - z||^2, of one stored term.
Residual(term, x) == MapThenSumSet(LAMBDA i : (At(term.rows[i], x) - term.target[i]) ^ 2, DOMAIN term.rows)

\* (bug) the nights are counted as one
Standardised_OneNight(total, dof, n) == <<total - dof, 2 * dof>>

\* The mean of n chi-squares over its standard error: what it exceeds the degrees of
\* freedom by, n times, and the variance that is divided by the root of.
Standardised(total, dof, n) == <<total - n * dof, 2 * dof * n>>

\* coherent_mode, and the epoch_chi_square it asks first: a value for every latent,
\* one parameter set, and rows at all.
CoherentMode(over, x) ==
  LET n == Len(archive)
      dof == RowsOf(1)
      chi == [e \in Archived |-> Residual(Term(e), x)]
      total == MapThenSumSet(LAMBDA e : chi[e], Archived)
  IN IF archive = <<>> \/ (\E e \in Archived : Term(e).over # over) \/ dof = 0 THEN RaisedStructure
     ELSE [kind |-> "coherent", at |-> x,
           z |-> IF AllFinite THEN Standardised(total, dof, n) ELSE NotANumber,
           scatter |-> IF AllFinite /\ n > 1 THEN <<n * Dot(chi, chi) - total ^ 2, n * (n - 1) * 2 * dof>> ELSE NotANumber]

\* refuse_undeclared_coherent_error: there is no number to return.
Undeclared(declared) == IF declared THEN [kind |-> "declared"] ELSE RaisedStructure

\* refuse_mixed_templates: projections are stored by place and read by name.
MixedTemplates == \E e \in Archived : Summary(e).template_names # Summary(1).template_names

Names == ToSet(Summary(1).template_names)
PlaceOf(name) == CHOOSE k \in DOMAIN Summary(1).template_names : Summary(1).template_names[k] = name
Projected(e, name) == Summary(e).projections[PlaceOf(name)]

\* epoch_residuals: a table in the order of the nights. A reduced chi-square of no
\* degrees of freedom is no number.
EpochResiduals ==
  [e \in Archived |-> [chi2 |-> Summary(e).chi2, reduced |-> Summary(e).dof > 0,
                     templates |-> [name \in Names |-> Projected(e, name)]]]

\* template_modes: of each name the projections its mean and scatter are of; the
\* degrees of freedom are each night's own, summed.
TemplateModes ==
  IF archive = <<>> \/ MixedTemplates THEN RaisedStructure
  ELSE [kind |-> "templates", table |-> EpochResiduals,
        ragged |-> \E e \in Archived : Summary(e).dof # Summary(1).dof,
        dof |-> MapThenSumSet(LAMBDA e : Summary(e).dof, Archived),
        modes |-> [name \in Names |-> [e \in Archived |-> Projected(e, name)]]]

-----------------------------------------------------------------------------
\* What the terms of some epochs say together, and a prior with them.
Adds(F, G) == [j \in Both |-> [k \in Both |-> F[j][k] + G[j][k]]]
Lacks(F, G) == [j \in Both |-> [k \in Both |-> F[j][k] - G[j][k]]]

ToQuadratic(term) ==
  Quadratic(term.over, Len(term.rows), InformationOf(term.rows), Against(term.rows, term.target),
            Dot(term.target, term.target), term.finite)

\* SqrtInfo.combine: the sum of two densities in no more rows than there are
\* columns; what is left over is a constant of both.
Combine(p, q) ==
  Quadratic(p.over, Min({p.rows + q.rows, Cardinality(Both)}), Adds(p.F, q.F),
            [j \in Both |-> p.b[j] + q.b[j]], p.c + q.c, p.finite /\ q.finite)

Folded == FoldLeft(LAMBDA q, kept : Combine(q, ToQuadratic(kept.term)), ToQuadratic(Term(1)), Tail(archive))

\* (bug) an epoch is scored against a campaign it is part of
LeftOut_Whole(total, own) == total

\* What is left of the total without one summand.
LeftOut(total, own) == Lacks(total, own)

\* held_out_z of one epoch: m = R_e mu - z_e over its covariance, I + R_e Sigma R_e',
\* inverted by what the campaign knows with it.
Score(e, prior) ==
  LET q == Folded
      own == ToQuadratic(Term(e))
      total == Adds(q.F, prior.fisher)
      left == LeftOut(total, own.F)
      b == [j \in Both |-> At(prior.fisher[j], prior.mean) + q.b[j] - own.b[j]]
      d == Det2(left)
      centre == [j \in Both |-> At(Adjugate(left)[j], b)]
      m == [i \in DOMAIN Term(e).rows |-> At(Term(e).rows[i], centre) - d * Term(e).target[i]]
      g == Against(Term(e).rows, m)
  IN [chi2 |-> <<Dot(m, m) * Det2(total) - Form(Adjugate(total), g, g), d * d * Det2(total)>>,
      dof |-> RowsOf(e)]

\* A singular campaign without the epoch, and a score that is no number, are refused.
HeldOut(prior) ==
  IF \/ archive = <<>> \/ ~OneParameterSet \/ ~prior.fits \/ ~AllFinite
     \/ \E e \in Archived : ~Positive(LeftOut(Adds(Folded.F, prior.fisher), ToQuadratic(Term(e)).F))
  THEN RaisedStructure
  ELSE [kind |-> "scores", prior |-> prior, scores |-> [e \in Archived |-> Score(e, prior)]]

-----------------------------------------------------------------------------
\* _shrinkage_table: at least two sizes, as many widths at each, and a logarithm of
\* each of them.
Fittable(t) ==
  /\ Cardinality(t.sizes) > 1 /\ ~t.nonpositive
  /\ \A s, r \in t.sizes : Len(t.widths[s]) = Len(t.widths[r])
  /\ \A s \in t.sizes : Hole \notin ToSet(t.widths[s])

\* (bug) through the origin, not about the mean size
Centred_Not(t, s) == Cardinality(t.sizes) * s

\* A size about the mean of them.
Centred(t, s) == Cardinality(t.sizes) * s - MapThenSumSet(LAMBDA r : r, t.sizes)

\* shrinkage_power: the slope of the widths on the sizes, of all widths at once.
Shrinkage(t) ==
  IF ~Fittable(t) THEN RaisedStructure
  ELSE LET of(s) == MapThenSumSet(LAMBDA k : t.widths[s][k], DOMAIN t.widths[s])
           size == CHOOSE s \in t.sizes : TRUE
       IN [kind |-> "shrinkage", table |-> t,
           power |-> <<Cardinality(t.sizes) * MapThenSumSet(LAMBDA s : Centred(t, s) * of(s), t.sizes),
                       Len(t.widths[size]) * MapThenSumSet(LAMBDA s : Centred(t, s) ^ 2, t.sizes)>>]

-----------------------------------------------------------------------------
\* (bug) a width is looked at along the coordinates
Wider_Coordinate(F, span, t) == \A j \in span : Adjugate(F)[j][j] * t[2] > t[1] * Det2(F)

\* tightest_direction: every direction of some columns is wider than a width, whose
\* square is t: the covariance less t is positive definite.
Wider(F, span, t) ==
  LET M == [j \in Both |-> [k \in Both |->
              Adjugate(F)[j][k] * t[2] - (IF j = k THEN t[1] * Det2(F) ELSE 0)]]
  IN IF span = Both THEN Positive(M) ELSE \A j \in span : M[j][j] > 0

\* The least number of epochs at which n epochs' width, extrapolated, is no wider:
\* no more than the widths of the columns together say.
Crossing(F, span, t, n) ==
  LET most == 1 + (n * t[2] * (F[1][1] + F[2][2])) \div (t[1] * Det2(F))
  IN Min({k \in 1 .. most : ~Wider(F, span, <<t[1] * k, t[2] * n>>)})

BadFloor(t) == t[1] <= 0 \/ t[2] <= 0

\* systematic_floor, of the folded term.
SystematicFloor(prior, floors, n) ==
  LET F == Adds(Folded.F, prior.fisher)
      spans == Spans(Folded.over)
  IN IF \/ archive = <<>> \/ ~OneParameterSet \/ n <= 0 \/ ~prior.fits
        \/ ~(DOMAIN floors \subseteq DOMAIN spans) \/ (\E l \in DOMAIN floors : BadFloor(floors[l])) \/ ~Positive(F)
     THEN RaisedStructure
     ELSE [kind |-> "floors", prior |-> prior, epochs |-> n, floors |-> floors,
           report |-> [l \in DOMAIN floors |->
                         [below_floor |-> ~Wider(F, spans[l], floors[l]),
                          crossing_epoch |-> Crossing(F, spans[l], floors[l], n)]]]

-----------------------------------------------------------------------------
\* The pivots of a block are those of its own information.
Constrained(q, block) ==
  /\ block # {} => Cardinality(block) <= Min({q.rows, Cardinality(Both) + 1})
  /\ IF block = Both THEN q.F[1][1] > 0 /\ Det2(q.F) > 0 ELSE \A j \in block : q.F[j][j] > 0

\* marginalise: the Schur complement, over what it is divided by. Only the corner of
\* the triangle shows a target that is no number.
IntegratedOut(q, latents) ==
  LET spans == Spans(q.over)
      block == UNION {spans[l] : l \in ToSet(latents) \cap DOMAIN spans}
      over == CASE block = {} -> 1 [] block = Both -> Det2(q.F) [] OTHER -> q.F[CHOOSE j \in block : TRUE][CHOOSE j \in block : TRUE]
      inverse(u, v) == CASE block = {} -> 0 [] block = Both -> Form(Adjugate(q.F), u, v)
                         [] OTHER -> LET j == CHOOSE j \in block : TRUE IN u[j] * v[j]
  IN IF \/ ~IsInjective(latents) \/ ~(ToSet(latents) \subseteq DOMAIN spans)
        \/ ~Constrained(q, block) \/ (block # {} /\ ~q.finite /\ q.rows > Cardinality(Both))
     THEN RaisedStructure
     ELSE [kind |-> "marginal", of |-> q, block |-> block, over |-> over,
           F |-> [j \in Both \ block |-> [k \in Both \ block |-> q.F[j][k] * over - inverse(q.F[j], q.F[k])]],
           b |-> [j \in Both \ block |-> q.b[j] * over - inverse(q.F[j], q.b)],
           c |-> q.c * over - inverse(q.b, q.b)]

-----------------------------------------------------------------------------
Concluded(answer) == said = Unasked /\ said' = answer /\ UNCHANGED <<nights, archive>>

Near == (0 - Probes .. Probes) \X (0 - Probes .. Probes)
Groups == {<<>>, <<"u">>, <<"v">>, <<"w">>, <<"u", "v">>, <<"u", "u">>}

AuditInit == nights = <<>> /\ archive = <<>> /\ said = Unasked

AuditNext ==
  \/ \E night \in Nights : Night(night)
  \/ \E over \in {"pair", "each"}, x \in Near : Concluded(CoherentMode(over, x))
  \/ \E declared \in BOOLEAN : Concluded(Undeclared(declared))
  \/ Concluded(TemplateModes)
  \/ \E prior \in AuditPriors : Concluded(HeldOut(prior))
  \/ \E t \in Tables : archive = <<>> /\ Concluded(Shrinkage(t))
  \/ \E prior \in AuditPriors, floors \in Floors, n \in {0, Len(archive)} : Concluded(SystematicFloor(prior, floors, n))
  \/ \E latents \in Groups : archive # <<>> /\ OneParameterSet /\ Concluded(IntegratedOut(Folded, latents))
  \/ \E latents \in Groups : Len(archive) = 1 /\ Concluded(IntegratedOut(ToQuadratic(Term(1)), latents))

-----------------------------------------------------------------------------
Under(p, q) == p[1] * q[2] <= q[1] * p[2]

\* What was kept of a night is of what was taken: a number where each sample taken
\* is; as little left over as anywhere; the same had the survivors been displaced;
\* and nothing of a template the design explains.
KeptIsSo(e) ==
  LET night == nights[e]
      displaced(x) == [night EXCEPT !.data = [i \in DOMAIN @ |-> IF @[i] = Hole THEN Hole ELSE @[i] + At(night.design[i], x)]]
  IN /\ Term(e).finite <=> \A i \in Taken(night) : night.data[i] # Hole
     /\ \A x \in Near :
          /\ Term(e).finite => Under(Summary(e).chi2, <<Residual(Term(e), x), 1>>)
          /\ Summarised(displaced(x), CompressNight(displaced(x))) = Summary(e)
     /\ \A k \in DOMAIN night.templates :
          (\E x \in Near : \A i \in Taken(night) : night.templates[k].shape[i] = At(night.design[i], x))
            => Summary(e).projections[k] = <<0, 1>>

\* A projection is read under the name of the template it is of, and no mean of
\* something that is no number is one.
ModesAreSo ==
  \A e \in Archived : \A k \in DOMAIN nights[e].templates :
    said.modes[nights[e].templates[k].name][e] = Summary(e).projections[k]

\* A mean is scored by what the nights together leave over and how far that strays:
\* no less than every night alone leaves, and as far as all of them do.
CoherenceIsSo ==
  /\ ~AllFinite => said.z = NotANumber
  /\ said.z # NotANumber =>
       /\ \A e \in Archived : Summary(e).chi2[1] <= (said.z[1] + Len(archive) * RowsOf(1)) * Summary(e).chi2[2]
       /\ said.z[2] = Len(archive) * 2 * RowsOf(1)
  /\ said.scatter[1] >= 0

\* What an epoch scores is what it adds to the least the campaign and its prior can
\* be left with: nothing of what it says itself is in what it is scored against. Of its
\* degrees of freedom, documented as a rank (diagnostics.py:387) and taken as the count
\* of rows, nothing is said: the two differ where an epoch's rows are dependent.
Told(prior, epochs) ==
  LET b == [j \in Both |-> At(prior.fisher[j], prior.mean) + MapThenSumSet(LAMBDA e : ToQuadratic(Term(e)).b[j], epochs)]
      F == [j \in Both |-> [k \in Both |->
              prior.fisher[j][k] + MapThenSumSet(LAMBDA e : ToQuadratic(Term(e)).F[j][k], epochs)]]
      c == Form(prior.fisher, prior.mean, prior.mean) + MapThenSumSet(LAMBDA e : ToQuadratic(Term(e)).c, epochs)
  IN <<c * Det2(F) - Form(Adjugate(F), b, b), Det2(F)>>
ScoresAreSo ==
  \A e \in Archived :
    LET all == Told(said.prior, Archived)
        rest == Told(said.prior, Archived \ {e})
        chi2 == said.scores[e].chi2
    IN chi2[1] >= 0 /\ chi2[2] = all[2] * rest[2] ^ 2 /\ chi2[1] = rest[2] * (all[1] * rest[2] - rest[1] * all[2])

\* The exponent of a power law is its exponent, whatever the widths at one size.
ShrinkageIsSo ==
  LET t == said.table
  IN \A p \in -3 .. 3 :
       (\A s, r \in t.sizes : \A k \in DOMAIN t.widths[s] : t.widths[s][k] - t.widths[r][k] = p * (s - r))
         => said.power[1] = p * said.power[2]

\* A campaign is called wider than its calibration only where it is in every
\* direction of the latent, and crosses it later than now exactly then.
FloorsAreSo ==
  \A l \in DOMAIN said.floors :
    LET F == Adds(Folded.F, said.prior.fisher)
        t == said.floors[l]
        says == said.report[l]
        along == {x \in Near : (\A j \in Both \ Spans(Folded.over)[l] : x[j] = 0) /\ x # <<0, 0>>}
    IN /\ ~says.below_floor => \A x \in along : Form(Adjugate(F), x, x) * t[2] > t[1] * Det2(F) * Dot(x, x)
       /\ says.below_floor <=> says.crossing_epoch <= said.epochs

\* A marginal is what is left over at the best value of what was integrated out: at
\* none is less left over, and at one as much; and there is but one.
IntegratedIsSo ==
  LET q == said.of
      kept == Both \ said.block
      left(x) == MapThenSumSet(LAMBDA j : MapThenSumSet(LAMBDA k : x[j] * said.F[j][k] * x[k], kept) - 2 * said.b[j] * x[j], kept)
                   + said.c
  IN q.finite => \A x \in Near :
       /\ left(x) <= Cost(q, x) * said.over
       /\ ((\A j \in kept : x[j] = 0) /\ x # <<0, 0>>) => Form(q.F, x, x) > 0
       /\ (\A j \in said.block : At(q.F[j], x) = q.b[j]) => left(x) = Cost(q, x) * said.over

\* What can be said of a campaign whose data are gone is so.
AuditsAreSo ==
  /\ said = Unasked => \A e \in Archived : KeptIsSo(e)
  /\ said.kind = "templates" => ModesAreSo
  /\ said.kind = "coherent" => CoherenceIsSo
  /\ said.kind = "scores" => ScoresAreSo
  /\ said.kind = "shrinkage" => ShrinkageIsSo
  /\ said.kind = "floors" => FloorsAreSo
  /\ said.kind = "marginal" => IntegratedIsSo
=============================================================================
