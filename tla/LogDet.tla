------------------------------- MODULE LogDet -------------------------------
(***************************************************************************)
(* marginal/_logdet_ladder.py and the methods of _logdet_eager.py it runs: *)
(* nine rungs for log det (Lambda + perturbation), the premise of each     *)
(* judged before anything is run, the first one that holds executed, and   *)
(* the checks every method makes again for itself. A matrix is what the    *)
(* checks find out about it; its numbers are left out.                     *)
(***************************************************************************)
EXTENDS Integers, Sequences, FiniteSets

CONSTANTS
  LowRankMax, LowRankShare, DenseMaxN, FiniteMaxN, FiniteMaxRank,  \* LadderConfig
  Sizes,      \* bound: dimensions of a problem
  MaxOffers   \* bound: payloads one problem offers

ASSUME LadderConfigs ==
  /\ {LowRankMax, DenseMaxN, FiniteMaxN, FiniteMaxRank} \subseteq Nat
  /\ LowRankShare \in Nat \ {0} /\ Sizes \subseteq Nat \ {0}

Missing == "missing"
NoBound    == -1    \* no trace order, or a negative one; no certified rho

\* A spectral radius on a scale where this is 1; Unmeasured stands for infinity,
\* which is what a measurement that fails leaves behind.
OneLevel        == 2
Unmeasured == 9
Radii      == {0, 1, OneLevel, 3, Unmeasured}

VARIABLES
  problem,    \* what the checks find out about Sigma and its payloads
  verdicts,   \* check_logdet_premises: is each rung's premise satisfied
  rung,       \* the rung the dispatcher looks at
  rejected,   \* the rungs it passed
  ladder      \* "asked", "judged", "value", "raised", "refused"

ladderVars == <<problem, verdicts, rung, rejected, ladder>>

-----------------------------------------------------------------------------
\* Sigma's symmetric representative is positive definite, and Sigma was
\* symmetric to within the tolerance to begin with.
Definite(q) == q.finite /\ q.symmetry # "none" /\ q.positive

\* ... or exactly symmetric, which the methods that are handed Lambda and the
\* perturbation, and not the representative, ask for.
ExactlyDefinite(q) == Definite(q) /\ q.symmetry = "exact"

\* A dense Sigma whose condition is below the dtype's ceiling.
Resolved(q) == q.finite /\ q.resolved

\* _factor_projection_certificate: what may speak against the low-rank factors.
Doubts == {"rows", "reconstruction", "projection", "base", "reduced", "total"}

\* Their product is the perturbation, bit for bit, in some memory layout.
Reconstructs(q) == "reconstruction" \notin q.doubts

\* The span of their columns holds the perturbation, to within the ceiling.
Projects(q) == {"rows", "projection"} \cap q.doubts = {}

\* Lambda's own factorization, and the lemma's reduced matrix, can be evaluated
\* with a certified error, and the three errors together stay below the ceiling.
BaseArithmetic(q)    == "base" \notin q.doubts
ReducedArithmetic(q) == "reduced" \notin q.doubts
TotalWithin(q)       == "total" \notin q.doubts

FactorsCertified(q) ==
  q.factors /\ Reconstructs(q) /\ Projects(q) /\ BaseArithmetic(q) /\ ReducedArithmetic(q)
    /\ TotalWithin(q)

\* The determinant lemma needs Sigma itself, not its representative.
LemmaPayload(q) == FactorsCertified(q) /\ q.finite /\ q.symmetry = "exact"

\* rank, as far as it is known: what is not shown to be low is n.
RankBound(q) ==
  IF FactorsCertified(q) \/ (~q.factors /\ q.compact) THEN q.rank ELSE q.n
RankEvidence(q) == q.factors => FactorsCertified(q)

Arithmetic(q) == q.finite /\ (q.compact \/ q.resolved)

Base(q) == q.same /\ Arithmetic(q)

LowRank(q) ==
  /\ RankEvidence(q) /\ (q.compact \/ LemmaPayload(q)) /\ Definite(q)
  /\ RankBound(q) <= LowRankMax /\ LowRankShare * RankBound(q) <= q.n

Chain(q) == ~q.compact /\ q.chain = "chain" /\ Definite(q) /\ Resolved(q)

\* _structure_request: what is claimed, or a diagonal found. A claim is checked,
\* with what its method needs: a circulant's spectrum, the factors of a product.
StructureKind(q) ==
  IF q.compact THEN "diagonal"
  ELSE IF q.kind = Missing /\ q.claim = "true" THEN "diagonal" ELSE q.kind
StructureHolds(q) ==
  IF q.compact THEN q.positive ELSE StructureKind(q) # Missing /\ q.claim = "true"

\* (bug) an unresolved Sigma is taken for any structure
StructuredRung_AnyCondition(q) == q.finite /\ StructureHolds(q) /\ Definite(q)

StructuredRung(q) ==
  q.finite /\ StructureHolds(q) /\ Definite(q) /\ (StructureKind(q) = "diagonal" \/ Resolved(q))

\* A compact Sigma is resolved like any other: its condition is measured.
Dense(q) == q.n <= DenseMaxN /\ Resolved(q) /\ Definite(q)

Finite(q) ==
  /\ q.n <= FiniteMaxN \/ ((q.compact \/ LemmaPayload(q)) /\ RankBound(q) <= FiniteMaxRank)
  /\ (q.finite /\ q.payloadRho <= OneLevel) \/ LemmaPayload(q)
  /\ Definite(q)
  /\ LemmaPayload(q) \/ Arithmetic(q)

\* The certificate the problem carries, or else the measurement itself.
RhoOf(q) == IF q.certified = NoBound THEN q.rho ELSE q.certified

\* The measured radius is below 1, and a certificate below 1 covers it.
RhoCovered(q) == q.rho < OneLevel /\ q.rho <= RhoOf(q) /\ RhoOf(q) < OneLevel

\* _power_traces_match: as many as the order asks for, and equal to X's own.
TracesMatch(q) == q.traces = "match" /\ q.order >= 0

TraceLog(q) == q.finite /\ q.rho # Unmeasured /\ TracesMatch(q) /\ RhoCovered(q)

FrozenRung(q) == q.finite /\ q.probes = "width n" /\ q.order >= 0 /\ RhoCovered(q)

\* check_logdet_premises, all nine from the inputs alone.
Premise(q) ==
  <<Base(q), LowRank(q), Chain(q), StructuredRung(q), Dense(q), Finite(q), TraceLog(q),
    FrozenRung(q), FALSE>>

-----------------------------------------------------------------------------
\* What each method asks of what it is handed, before it answers. A Lambda that
\* is not positive definite never becomes a problem: lambda_logdet answers.

\* _newton_logdet.
NewtonRuns(q, factors, stable) ==
  /\ ExactlyDefinite(q)
  /\ ~factors =>
       /\ stable => q.payloadRho <= OneLevel
       /\ q.compact \/ Resolved(q)

\* _algebraic_rank_bound raises for factors it cannot certify.
LowRankRuns(q) == RankEvidence(q) /\ NewtonRuns(q, q.factors, FALSE)

\* The block recursion, and its pivots, which it finds only when it gets there.
ChainRuns(q) == q.chain = "chain" /\ Definite(q) /\ Resolved(q) /\ q.pivots

StructuredRuns(q) ==
  IF q.compact THEN Definite(q)
  ELSE /\ q.claim = "true"
       /\ StructureKind(q) \in {"diagonal", "toeplitz"} => Definite(q)
       /\ StructureKind(q) # "diagonal" => Resolved(q)

DenseRuns(q) == Definite(q)

\* _symmetric_roundoff_representative: what the other methods are handed.
Representative(q) == [q EXCEPT !.symmetry = IF @ = "roundoff" THEN "exact" ELSE @]

\* The factors go along only if they are the lemma's.
FiniteRuns(q) ==
  IF LemmaPayload(q) THEN NewtonRuns(q, TRUE, TRUE)
  ELSE NewtonRuns(Representative(q), FALSE, TRUE)

\* _validate_strict_rho, on the number the verdict carries.
StrictRho(q) == q.rho # Unmeasured /\ q.rho < OneLevel /\ RhoOf(q) < OneLevel /\ q.rho <= RhoOf(q)

TraceRuns(q) == StrictRho(q) /\ TracesMatch(q)

FrozenRuns(q) == StrictRho(q) /\ q.probes = "width n" /\ q.order >= 0

Executes(q) ==
  <<TRUE, LowRankRuns(q), ChainRuns(q), StructuredRuns(q), DenseRuns(q),
    FiniteRuns(q), TraceRuns(q), FrozenRuns(q), FALSE>>

-----------------------------------------------------------------------------
\* What the checks may find out about Lambda + perturbation.
Sums(n) ==
  {s \in [compact : BOOLEAN, n : {n}, finite : BOOLEAN, same : BOOLEAN, positive : BOOLEAN,
          resolved : BOOLEAN, symmetry : {"exact", "roundoff", "none"}, rho : Radii,
          payloadRho : Radii, rank : 1 .. n] :
     /\ ~s.finite => ~s.same /\ ~s.positive /\ ~s.resolved /\ s.payloadRho = Unmeasured
     /\ s.compact => s.symmetry = "exact"
     /\ s.same => s.symmetry = "exact" /\ s.positive /\ s.rho = 0
     /\ s.finite /\ s.symmetry # "roundoff" => s.payloadRho = s.rho
     /\ s.finite /\ s.symmetry # "none" /\ s.payloadRho < OneLevel => s.positive}

\* What the caller adds, in hope of a cheaper rung.
Structures ==
  ({"diagonal", "circulant", "toeplitz", "kronecker"} \X {"true", "false"})
    \cup {<<Missing, "true">>}
Offers == {"factors", "chain", "structure", "traces", "probes"}

Given(offers, x, S, absent) == IF x \in offers THEN S ELSE {absent}

\* A LogDetProblem that its constructor accepts.
AskLadder ==
  \E offers \in {o \in SUBSET Offers : Cardinality(o) <= MaxOffers}, n \in Sizes :
    \E s \in Sums(n),
       doubts \in Given(offers, "factors", {{}} \cup {{d} : d \in Doubts}, {}),
       chain \in Given(offers, "chain", {"chain", "broken"}, Missing), pivots \in BOOLEAN,
       structure \in Given(offers, "structure", Structures, <<Missing, "false">>),
       traces \in Given(offers, "traces", {"match", "wrong"}, Missing),
       probes \in Given(offers, "probes", {"width n", "other width"}, Missing),
       order \in Given(offers, IF "traces" \in offers THEN "traces" ELSE "probes", {NoBound, 0, 1}, NoBound),
       certified \in Given(offers, IF "traces" \in offers THEN "traces" ELSE "probes",
                           {NoBound, 0, 1, OneLevel}, NoBound) :
      /\ "factors" \in offers /\ (s.compact \/ ~s.finite) => doubts = {"rows"}
      /\ ~pivots => chain = "chain"
      /\ problem = [compact |-> s.compact, n |-> s.n, rank |-> s.rank, finite |-> s.finite,
           same |-> s.same, symmetry |-> s.symmetry, positive |-> s.positive,
           resolved |-> s.resolved, rho |-> s.rho, payloadRho |-> s.payloadRho,
           factors |-> "factors" \in offers, doubts |-> doubts, chain |-> chain, pivots |-> pivots, kind |-> structure[1],
           claim |-> structure[2], traces |-> traces, probes |-> probes, order |-> order,
           certified |-> certified]

LadderInit ==
  /\ AskLadder
  /\ verdicts = <<>> /\ rung = 1 /\ rejected = <<>> /\ ladder = "asked"

-----------------------------------------------------------------------------
JudgePremises ==
  /\ ladder = "asked"
  /\ verdicts' = Premise(problem)
  /\ ladder' = "judged" /\ rung' = 1
  /\ UNCHANGED <<problem, rejected>>

\* A rung whose premise failed is kept among the reasons, and the next one tried.
Reject ==
  /\ ladder = "judged" /\ \E k \in 1 .. 9 : verdicts[k]
  /\ ~verdicts[rung]
  /\ rung' = rung + 1 /\ rejected' = Append(rejected, rung)
  /\ UNCHANGED <<problem, verdicts, ladder>>

\* The first that holds is executed, and what it raises is the answer.
Execute ==
  /\ ladder = "judged" /\ \E k \in 1 .. 9 : verdicts[k]
  /\ verdicts[rung]
  /\ ladder' = IF Executes(problem)[rung] THEN "value" ELSE "raised"
  /\ UNCHANGED <<problem, verdicts, rung, rejected>>

\* ResamplingRefused.
RefuseAll ==
  /\ ladder = "judged" /\ \A k \in 1 .. 9 : ~verdicts[k]
  /\ ladder' = "refused"
  /\ UNCHANGED <<problem, verdicts, rung, rejected>>

Dispatch == JudgePremises \/ Reject \/ Execute \/ RefuseAll

-----------------------------------------------------------------------------
\* A premise that was found to hold is enough for the method behind it: no
\* method raises after the ladder has settled on it, so that a rung further
\* down that could have answered is never lost. The pivots of a block chain
\* are the exception: they come to light only in the recursion
\* (tests/marginal/test_logdet.py: "every_satisfied_payload_executes").
SatisfiedPayloadsExecute ==
  /\ verdicts # <<>> =>
       \A k \in 1 .. 9 : verdicts[k] /\ ~Executes(problem)[k] => k = 3 /\ ~problem.pivots
  /\ ladder = "raised" => rung = 3 /\ ~problem.pivots

-----------------------------------------------------------------------------
(***************************************************************************)
(* marginal/_logdet_plan.py: a log determinant for a sampler, as a series  *)
(* of fixed order. Warmup measures a few points and certifies bounds that  *)
(* fix the order; a plan is made at one point, run at every other without  *)
(* a check, and the points it was kept for are audited afterwards. A point *)
(* of the parameter space is what its problem measures there; a bound is a *)
(* level of the same scale.                                                *)
(***************************************************************************)
CONSTANTS
  Thetas,     \* points of the parameter space
  Ranks,      \* multiplicities and ranks
  Levels,     \* levels of |log det Lambda| and of the norm of |X|
  Margins,    \* safety margins, in levels
  MaxMoves,   \* bound: how many measurements are unusual
  SingleRange,  \* levels of the norm whose powers single precision can hold
  TraceOrder  \* choose_trace_order: the order a radius and a multiplicity need

Certifiable == {r \in Radii : r < OneLevel}

\* The tail bound grows with both, so the least order within the tolerance does.
ASSUME Orders ==
  /\ TraceOrder \in [Certifiable \X Ranks -> Nat]
  /\ \A a, b \in Certifiable \X Ranks :
       a[1] <= b[1] /\ a[2] <= b[2] => TraceOrder[a] <= TraceOrder[b]

ASSUME Scales == Ranks \subseteq Nat /\ Levels \subseteq Nat /\ Margins \subseteq Nat /\ SingleRange \subseteq Nat

Dtypes     == {32, 64}
Tolerances == {"loose", "tight"}
Audits     == {"rho", "base", "norm", "traces"}

VARIABLES
  world,        \* what is measured at each point; does its trace provider tell the truth
  wide,          \* jax_enable_x64
  certificate,  \* RhoCertificate, NoCertificate before
  tracePlan,         \* TraceLogPlan or FrozenTraceLogPlan, NoTracePlan before
  retained,     \* the samples kept: at which point, in which precision
  audited       \* for each audit, the points it has passed

planVars == <<world, wide, certificate, tracePlan, retained, audited>>
logDetVars     == <<ladderVars, planVars>>

NoCertificate == [rho |-> NoBound]
NoTracePlan        == [kind |-> Missing]

Largest(S) == CHOOSE x \in S : \A y \in S : y <= x

\* What is measured at each point.
Measures == [rho : Radii, base : Levels, norm : Levels, rank : Ranks, honest : BOOLEAN]
Deviations(m) == {f \in {"base", "norm"} : m[f] # 0} \cup {f \in {"rho", "rank"} : m[f] # 1}
              \cup {f \in {"honest"} : ~m[f]}
Worlds ==
  {w \in [Thetas -> Measures] :
     Cardinality(UNION {{t} \X Deviations(w[t]) : t \in Thetas}) <= MaxMoves}

-----------------------------------------------------------------------------
\* certify_warmup_rho: the worst of what was measured, and a margin on top. The
\* scale bounds are there if the caller measured them.
Certify(points, margin, mult, base, norm, tolerance) ==
  /\ ladder = Missing /\ certificate = NoCertificate
  /\ \A t \in points : world[t].rho # Unmeasured
  /\ LET bound == Largest({world[t].rho : t \in points}) + margin
     IN /\ bound \in Certifiable
        /\ certificate' =
             [rho |-> bound, mult |-> mult, order |-> TraceOrder[<<bound, mult>>],
              base |-> IF base THEN Largest({world[t].base : t \in points}) + margin ELSE NoBound,
              norm |-> IF norm THEN Largest({world[t].norm : t \in points}) + margin ELSE NoBound,
              tolerance |-> tolerance]
  /\ UNCHANGED <<ladderVars, world, wide, tracePlan, retained, audited>>

\* _validate_plan_certificate, for the problem at point t, and the order it carries.
CertificateHolds(t, order) ==
  /\ order = certificate.order
  /\ world[t].rank <= certificate.mult
  /\ certificate.base # NoBound /\ world[t].base <= certificate.base
  /\ certificate.norm # NoBound => world[t].norm <= certificate.norm
  /\ world[t].rho < OneLevel /\ world[t].rho <= certificate.rho

\* _canonical_runtime_dtype.
Canonical(dtype) == IF wide THEN dtype ELSE 32

\* _validate_runtime_precision: the tail and the roundoff, at the certified
\* scales, fit in the tolerance; single precision is enough for a loose one.
Fits(dtype, tolerance) == dtype = 64 \/ tolerance = "loose"

\* _validate_frozen_runtime_range: the images of the probes do not overflow.
RangeFits(dtype) == dtype = 64 \/ certificate.norm \in SingleRange

\* make_trace_log_plan and make_frozen_trace_log_plan.
MakePlan(kind, t, order, dtype) ==
  /\ certificate # NoCertificate /\ tracePlan = NoTracePlan
  /\ CertificateHolds(t, order)
  /\ kind = "trace" => world[t].honest
  /\ kind = "frozen" => certificate.norm # NoBound /\ RangeFits(Canonical(dtype))
  /\ Fits(Canonical(dtype), certificate.tolerance)
  /\ tracePlan' = [kind |-> kind, order |-> order, dtype |-> Canonical(dtype)]
  /\ UNCHANGED <<ladderVars, world, wide, certificate, retained, audited>>

\* _require_runtime_precision.
PrecisionKept(dtype) == (tracePlan.dtype = 64 => wide) /\ Canonical(dtype) >= tracePlan.dtype

\* plan(...): no other check is made. The caller's provider hands over its
\* traces, true or not.
Evaluate(t, dtype) ==
  /\ tracePlan # NoTracePlan /\ PrecisionKept(dtype)
  /\ retained' = retained \cup {[at |-> t, dtype |-> Canonical(dtype)]}
  /\ UNCHANGED <<ladderVars, world, wide, certificate, tracePlan, audited>>

\* Precision is a setting of the process, and a context manager changes it.
SwitchPrecision ==
  /\ tracePlan # NoTracePlan /\ wide' = ~wide
  /\ UNCHANGED <<ladderVars, world, certificate, tracePlan, retained, audited>>

\* (bug) the rank the multiplicity stands for is not audited
RankCovered_Unchecked(t) == TRUE

\* _retained_rank_exceeds_certificate.
RankCovered(t) == world[t].rank <= certificate.mult

\* "Retained samples must audit every bound used by their tracePlan."
RequiredAudits(kind) == IF kind = "trace" THEN {"rho", "base", "traces"} ELSE {"base", "norm"}

\* What an audit finds at a point. The scale audits raise without their bound.
PassesAudit(audit, t) ==
  CASE audit = "rho" -> world[t].rho # Unmeasured /\ world[t].rho <= certificate.rho
    [] audit = "base" -> certificate.base # NoBound /\ world[t].base <= certificate.base
    [] audit = "norm" -> certificate.norm # NoBound /\ world[t].norm <= certificate.norm
    [] audit = "traces" -> world[t].honest /\ RankCovered(t)

Kept == {s.at : s \in retained}

\* audit_retained_*: over every sample kept so far, and never over none.
AuditPoints(audit) ==
  /\ retained # {}
  /\ \A t \in Kept : PassesAudit(audit, t)
  /\ audited' = [audited EXCEPT ![audit] = Kept]
  /\ UNCHANGED <<ladderVars, world, wide, certificate, tracePlan, retained>>

-----------------------------------------------------------------------------
PlanInit ==
  /\ world \in Worlds /\ wide \in BOOLEAN
  /\ certificate = NoCertificate /\ tracePlan = NoTracePlan /\ retained = {}
  /\ audited = [a \in Audits |-> {}]

\* The ladder has no part in a plan, nor a plan in the ladder.
NoLadder ==
  problem = Missing /\ verdicts = <<>> /\ rung = 1 /\ rejected = <<>> /\ ladder = Missing
NoWorld ==
  /\ world = Missing /\ wide = FALSE
  /\ certificate = NoCertificate /\ tracePlan = NoTracePlan /\ retained = {}
  /\ audited = [a \in Audits |-> {}]

LogDetInit == (PlanInit /\ NoLadder) \/ (LadderInit /\ NoWorld)

PlanStep ==
  \/ \E points \in (SUBSET Thetas) \ {{}}, margin \in Margins, mult \in Ranks,
        base, norm \in BOOLEAN, tolerance \in Tolerances :
       Certify(points, margin, mult, base, norm, tolerance)
  \/ \E kind \in {"trace", "frozen"}, t \in Thetas, dtype \in Dtypes,
        order \in {TraceOrder[p] : p \in Certifiable \X Ranks} :
       MakePlan(kind, t, order, dtype)
  \/ \E t \in Thetas, dtype \in Dtypes : Evaluate(t, dtype)
  \/ SwitchPrecision
  \/ tracePlan # NoTracePlan /\ \E audit \in RequiredAudits(tracePlan.kind) : AuditPoints(audit)

LogDetNext == (Dispatch /\ UNCHANGED planVars) \/ PlanStep

LogDetSpec == LogDetInit /\ [][LogDetNext]_logDetVars

-----------------------------------------------------------------------------
Audited == {t \in Thetas : \A a \in RequiredAudits(tracePlan.kind) : t \in audited[a]}

\* The order is enough for the point, the traces are its own, and the roundoff
\* stays within the scales the precision was chosen for.
WithinTolerance(s) ==
  /\ tracePlan.kind = "trace" =>
       /\ world[s.at].honest
       /\ world[s.at].rho < OneLevel /\ TraceOrder[<<world[s.at].rho, world[s.at].rank>>] <= tracePlan.order
  /\ tracePlan.kind = "frozen" => world[s.at].norm <= certificate.norm
  /\ world[s.at].base <= certificate.base
  /\ Fits(s.dtype, certificate.tolerance)

\* A sample is trusted only after the audits its plan requires: then its log
\* determinant was within the certified tolerance, wherever the sampler went
\* and whatever the precision was switched to meanwhile.
AuditedRunsKeepTheTolerance ==
  tracePlan # NoTracePlan => \A s \in retained : s.at \in Audited => WithinTolerance(s)

\* Whichever way a determinant is asked for: the method a ladder settles on does
\* not raise, and a planned one is within its tolerance where it was audited.
DeterminantsHold == SatisfiedPayloadsExecute /\ AuditedRunsKeepTheTolerance
=============================================================================
