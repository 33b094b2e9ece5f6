-------------------------- MODULE EvidenceAdmission --------------------------
(***************************************************************************)
(* dispatch/evidence.py and the two gates of dispatch/task.py that read    *)
(* it: is every prior of a graph a density, and every conditional prior    *)
(* one wherever the residual integral takes its parents? The verdict on a  *)
(* conditional is a function of the values of the latents it reads,        *)
(* directly or through deterministic nodes; 0 is the prior centre, the     *)
(* other Values are probed.                                                *)
(*   audit_prior integrates a prior over five windows, each twice as wide  *)
(* as the one before, and reads the answer off the last increments. A      *)
(* prior is here what the quadrature returns: its masses are integers, One *)
(* of them a mass of one.                                                  *)
(***************************************************************************)
EXTENDS Integers, Sequences, FiniteSets

CONSTANT One     \* how many units make a mass of one

ASSUME OneAssumption == One \in Nat \ {0}

\* A mass that is not a finite number.
Undefined == -1

\* Fractions, with a positive denominator.
Size(n) == IF n < 0 THEN -n ELSE n
Plus(x, y) == <<x[1] * y[2] + y[1] * x[2], x[2] * y[2]>>
Distance(x, y) == <<Size(x[1] * y[2] - y[1] * x[2]), x[2] * y[2]>>
AtMost(x, y) == x[1] * y[2] <= y[1] * x[2]

Whole(n) == <<n, 1>>
Nothing == Whole(0)

Increment(masses, k) == masses[k + 1] - masses[k]

\* How fast the increments shrink at window k; a window that adds nothing has
\* converged, and one that adds something after none has not.
Ratio(masses, k) ==
  LET now == Increment(masses, k)
      before == Increment(masses, k - 1)
  IN IF now <= 0 THEN Nothing ELSE IF before = 0 THEN Whole(1) ELSE <<now, Size(before)>>

\* increments_converge: below _CONVERGENT_INCREMENT_RATIO.
Converges(ratio) == 1000 * ratio[1] < 995 * ratio[2]

\* (bug) the mass beyond the last window is left out
TailSum_Cut(increment, ratio) == Nothing

\* _tail_sum: the geometric series the increments continue as.
TailSum(increment, ratio) ==
  IF ratio[1] <= 0 \/ ratio[1] >= ratio[2] THEN Nothing
  ELSE <<increment * ratio[1], ratio[2] - ratio[1]>>

\* The total mass, extrapolated from window k; the ratio one window earlier is
\* taken of absolute values, and is that of the last if it has none of its own.
Total(masses, k, ratio) == Plus(Whole(masses[k + 1]), TailSum(Increment(masses, k), ratio))

EarlierRatio(masses) ==
  IF Increment(masses, 2) = 0 THEN Ratio(masses, 4)
  ELSE <<Size(Increment(masses, 3)), Size(Increment(masses, 2))>>

Audit(verdict, normalised, mass) == [verdict |-> verdict, normalised |-> normalised, mass |-> mass]
Undecidable == Audit("unverifiable", FALSE, Nothing)

\* audit_prior, of a prior with its masses over the five windows, and the mass
\* of the last on twice as many panels. What is no density in one continuous
\* dimension, or leaves no window, is not decided. The tolerance of a mass is
\* below one unit.
AuditPrior(prior) ==
  LET m == prior.masses
      ratio == Ratio(m, 4)
      total == Total(m, 4, ratio)
      uncertainty == Distance(total, Total(m, 3, EarlierRatio(m)))
  IN IF prior.scope # "one dimension" \/ \E k \in 1 .. 5 : m[k] = Undefined THEN Undecidable
     ELSE IF ~Converges(ratio) THEN Audit("improper", FALSE, Nothing)
     ELSE IF prior.refined # m[5] \/ m[5] = 0 THEN Undecidable
     ELSE Audit("proper", AtMost(Distance(total, Whole(One)), uncertainty), total)

-----------------------------------------------------------------------------
CONSTANTS
  PriorLatents,      \* the latents, as 1 .. n in the graph's order
  Values        \* the values a latent is looked at: 0 and the probes

ASSUME ValuesAssumption == 0 \in Values

Probed == Values \ {0}

(***************************************************************************)
(* A graph's facts about its latents:                                      *)
(*   reads     for each latent, the latents its prior reads;               *)
(*   fixed     the latents that read a constant and no latent;             *)
(*   covered   those a graph-level joint prior declares;                   *)
(*   centred   has the graph a prior centre?                               *)
(*   mute      the latents no probe point can be found for;                *)
(*   prior     for each latent, its prior at the values of what it reads.  *)
(***************************************************************************)

PriorAt(g, l, env) == g.prior[l][[p \in g.reads[l] |-> env[p]]]

\* _ancestors: a latent reads only latents before it, so three rounds are enough.
PriorAncestors(g, l) ==
  LET parents == g.reads[l]
      grand == parents \cup UNION {g.reads[p] : p \in parents}
  IN grand \cup UNION {g.reads[p] : p \in grand}

Conditioned(g) == {l \in PriorLatents : g.reads[l] # {}} \cup g.fixed

Centre == [l \in PriorLatents |-> 0]

\* audit_graph_priors, of one latent: its conditional at the prior centre.
LatentAudit(g, l) ==
  IF l \in g.covered THEN Audit("undeclared", FALSE, Nothing)
  ELSE IF l \in Conditioned(g) /\ ~g.centred THEN Undecidable
  ELSE AuditPrior(PriorAt(g, l, Centre))

\* (bug) one latent is moved at a time, the others stay at their centres
Combinations_OneAtATime(ancestors) ==
  {[l \in PriorLatents |-> IF l = moved THEN v ELSE 0] : moved \in ancestors, v \in Probed}

\* Every combination of the probes of these latents, the rest at the centre.
Combinations(ancestors) ==
  {[l \in PriorLatents |-> IF l \in ancestors THEN at[l] ELSE 0] : at \in [ancestors -> Probed]}

\* conditional_prior_range_report: the conditionals the sweep cannot cover, and
\* the cells where one of the others is not proper.
Unresolved(g) ==
  IF ~g.centred THEN Conditioned(g)
  ELSE {l \in Conditioned(g) : PriorAncestors(g, l) = {} \/ PriorAncestors(g, l) \cap g.mute # {}}

Degenerate(g) ==
  {cell \in UNION {{l} \X Combinations(PriorAncestors(g, l)) : l \in Conditioned(g) \ Unresolved(g)} :
     AuditPrior(PriorAt(g, cell[1], cell[2])).verdict # "proper"}

\* _evidence_precompile_refusal: the first latent without a proper, normalised prior.
PriorRefusal(g) ==
  LET bad == {l \in PriorLatents : ~LatentAudit(g, l).normalised}
      premise == [proper |-> "evidence_prior_normalised", improper |-> "evidence_prior_proper",
                  undeclared |-> "evidence_prior_undeclared", unverifiable |-> "evidence_prior_proper"]
  IN IF bad = {} THEN "none"
     ELSE premise[LatentAudit(g, CHOOSE l \in bad : \A k \in bad : l <= k).verdict]

\* _evidence_conditional_prior_refusal: a cell found degenerate, then one not found out about.
ConditionalRefusal(g) ==
  IF Degenerate(g) \cup Unresolved(g) # {} THEN "evidence_conditional_prior_proper" ELSE "none"

\* The gates in their order; a route without a residual integral moves no latent.
AdmissionRefusal(g, residual) ==
  IF PriorRefusal(g) # "none" THEN PriorRefusal(g)
  ELSE IF residual THEN ConditionalRefusal(g) ELSE "none"

\* normalization_audit_report, which a caller asks of an evidence in hand.
NormalizationAxes(g) ==
  LET unusable == {l \in PriorLatents : ~LatentAudit(g, l).normalised}
      undecided == {l \in unusable : LatentAudit(g, l).verdict = "unverifiable"}
  IN <<"applicable", IF undecided # {} THEN "abstain" ELSE IF unusable # {} THEN "fail" ELSE "pass">>
=============================================================================
