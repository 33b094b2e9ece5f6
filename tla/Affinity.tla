------------------------------ MODULE Affinity ------------------------------
(***************************************************************************)
(* exact/linearity.py:check_linearity. A prediction is compared with its   *)
(* own linearization at every probe: per element, the departure is judged  *)
(* against the variation (relative) and against the noise (weighted), but  *)
(* only where it clears a roundoff floor. What is under the floor is       *)
(* marked, and the marks and the NaNs have to survive the maxima that      *)
(* summarise elements, leaves and probes. The numbers are left out: what   *)
(* is kept of one is the side of its tolerance it is on.                   *)
(***************************************************************************)
EXTENDS Naturals, Sequences, FiniteSets, FiniteSetsExt

CONSTANTS
  AtPoints,   \* bound: points of the outside latents the claim is checked at
  Scales,     \* how many probe scales
  Leaves      \* how many observed nodes the prediction has

ASSUME CountsArePositive == AtPoints \in Nat \ {0} /\ Scales \in Nat \ {0} /\ Leaves \in Nat \ {0}

\* A departure against its tolerance: none at all is within it, too. NaN stands
\* for whatever is not finite.
Within == 0
Over   == 1
NaN    == 2
Level == Within .. NaN

\* The floors a departure clears: RELATIVE_FLOOR_FACTOR is the higher one.
Floor == {"neither", "weighted", "both"}

\* One sample of the prediction. `departs` is departure > 0: one that does not
\* clears no floor, and relatively it is at zero, or nowhere finite. A masked
\* sample has no weighted departure, whatever its value is.
Element == {e \in [departs : BOOLEAN, relative : Level, weighted : Level, clears : Floor, seen : BOOLEAN] :
  /\ ~e.departs => e.relative \in {Within, NaN} /\ e.clears = "neither"
  /\ ~e.seen => e.weighted = Within}

\* Under a sigma per sample a weighted departure is the sample's own. A precision
\* that mixes samples has none masked, and carries what departs onto the rest.
OneLeaf(elements) ==
  LET own(e)  == e.weighted = IF e.seen /\ e.relative = NaN THEN NaN ELSE Within
      mixed   == (\A e \in elements : e.seen) /\ \E e \in elements : e.departs \/ e.relative = NaN
  IN mixed \/ \A e \in elements : e.departs \/ own(e)
SomeLeaves == {elements \in {{d, e} : d, e \in Element} : OneLeaf(elements)}

ClearsRelative(e) == e.clears = "both"
ClearsWeighted(e) == e.clears # "neither"

-----------------------------------------------------------------------------
\* What a column holds: a level, and whether it is an Unresolved.
Measured(l)   == [level |-> l, unresolved |-> FALSE]
Unresolved(l) == [level |-> l, unresolved |-> TRUE]

\* (bug) the maximum of two floats is a float
Worse_Plain(r, s) == Measured(Max({r.level, s.level}))

Worse(r, s) ==
  IF NaN \in {r.level, s.level} THEN Measured(NaN)
  ELSE [level |-> Max({r.level, s.level}), unresolved |-> r.unresolved \/ s.unresolved]

\* _reported: `value` is the relative or the weighted departure of an element,
\* `kept` the elements above its floor.
Reported(elements, value, kept) ==
  LET declined == {e \in elements \ kept : e.departs /\ value[e] = Over}
      judged   == Max({value[e] : e \in kept} \cup {Within})
  IN IF \E e \in elements : value[e] = NaN THEN Measured(NaN)
     ELSE IF declined = {} THEN Measured(judged) ELSE Unresolved(Over)

Relative(elements) ==
  Reported(elements, [e \in elements |-> e.relative], {e \in elements : ClearsRelative(e)})
Weighted(elements) ==
  Reported(elements, [e \in elements |-> e.weighted], {e \in elements : ClearsWeighted(e)})

\* (bug) a NaN compares as no departure at all
LeafRefused_Compared(elements) ==
  \E e \in elements : \/ e.relative = Over /\ ClearsRelative(e)
                      \/ e.weighted = Over /\ ClearsWeighted(e)

\* _leaf_departures: either criterion alone refuses.
LeafRefused(elements) ==
  \E e \in elements : \/ e.relative = Over /\ ClearsRelative(e)
                      \/ e.weighted = Over /\ ClearsWeighted(e)
                      \/ NaN \in {e.relative, e.weighted}

-----------------------------------------------------------------------------
VARIABLES
  point,          \* the point being checked
  probed,     \* of each finished probe of it: relative, weighted
  failed,      \* its probes that refuse
  leaf,        \* leaves of the current probe done
  worst,       \* the columns of the current probe so far
  warned,      \* the first point with an unresolved column; 0 for none
  verdict,     \* "checking", "accepted", or why not
  bad,         \* <<point, probe>> where a departure really was past a tolerance
  undecided    \* <<point, probe>> where one would be, were it not under a floor

affinityVars == <<point, probed, failed, leaf, worst, warned, verdict, bad, undecided>>

NoColumns == <<Measured(Within), Measured(Within)>>

AffinityInit ==
  /\ point = 1 /\ probed = <<>> /\ failed = {} /\ leaf = 0 /\ worst = NoColumns
  /\ warned = 0 /\ verdict = "checking" /\ bad = {} /\ undecided = {}

\* What the elements of a leaf say of the claim, one by one.
Past(e) == \/ NaN \in {e.relative, e.weighted}
           \/ e.relative = Over /\ ClearsRelative(e)
           \/ e.weighted = Over /\ ClearsWeighted(e)
Unjudged(e) == /\ e.departs
               /\ \/ e.relative = Over /\ ~ClearsRelative(e)
                  \/ e.weighted = Over /\ ~ClearsWeighted(e)

Here == <<point, Len(probed) + 1>>
Marked(S, p) == IF p THEN S \cup {Here} ELSE S

\* affinity_errors: one observed node of one probe.
JudgeLeaf(elements) ==
  /\ verdict = "checking" /\ Len(probed) < Scales
  /\ failed' = IF LeafRefused(elements) THEN failed \cup {Here[2]} ELSE failed
  /\ LET now == <<Worse(worst[1], Relative(elements)), Worse(worst[2], Weighted(elements))>>
     IN IF leaf + 1 < Leaves
          THEN leaf' = leaf + 1 /\ worst' = now /\ UNCHANGED probed
          ELSE leaf' = 0 /\ worst' = NoColumns /\ probed' = Append(probed, now)
  /\ bad' = Marked(bad, \E e \in elements : Past(e))
  /\ undecided' = Marked(undecided, \E e \in elements : Unjudged(e))
  /\ UNCHANGED <<point, warned, verdict>>

\* Before any probe: the noise has to be a unit (_refuse_unusable_noise), and
\* the prediction finite where it is linearized.
Unusable(why) ==
  /\ verdict = "checking" /\ probed = <<>> /\ leaf = 0
  /\ verdict' = why
  /\ UNCHANGED <<point, probed, failed, leaf, worst, warned, bad, undecided>>

AnyUnresolved == \E k \in DOMAIN probed : probed[k][1].unresolved \/ probed[k][2].unresolved

\* After the last probe of a point: _refuse_affinity, or on to the next one, and
\* one warning after the last, for the first point that needs it.
EndPoint ==
  /\ verdict = "checking" /\ Len(probed) = Scales
  /\ IF failed # {} THEN verdict' = "not affine" /\ UNCHANGED <<point, probed, warned>>
     ELSE /\ warned' = IF warned = 0 /\ AnyUnresolved THEN point ELSE warned
          /\ IF point < AtPoints THEN point' = point + 1 /\ probed' = <<>> /\ UNCHANGED verdict
             ELSE verdict' = "accepted" /\ UNCHANGED <<point, probed>>
  /\ UNCHANGED <<failed, leaf, worst, bad, undecided>>

\* The calling code builds what it asked for, or reads the refusal.
AffinityReturned == verdict # "checking" /\ UNCHANGED affinityVars

AffinityNext ==
  \/ \E elements \in SomeLeaves : JudgeLeaf(elements)
  \/ \E why \in {"noise not positive definite", "prediction not finite"} : Unusable(why)
  \/ EndPoint \/ AffinityReturned

AffinitySpec == AffinityInit /\ [][AffinityNext]_affinityVars

\* Acceptance without a warning says that every sample that departs was judged,
\* at every point, probe and node, and is within both tolerances; the warning
\* names the first point where one was not; a refusal names the probes that
\* really are past a tolerance, and nothing that is only under the floor.
\* Silence says nothing of a sample that is itself affine to the bit and onto
\* which a correlated noise carries the departure of another: _reported leaves
\* it at 0.0, since its own departure is zero.
SilenceIsJudgement ==
  /\ verdict = "accepted" =>
       /\ bad = {}
       /\ warned = IF undecided = {} THEN 0 ELSE Min({u[1] : u \in undecided})
  /\ verdict = "not affine" => failed = {b[2] : b \in {c \in bad : c[1] = point}} /\ failed # {}
=============================================================================
