------------------------------ MODULE ChainLaw ------------------------------
(***************************************************************************)
(* What the chains of exact/proposals.py and exact/gibbs.py do to a law    *)
(* over states. A model has two latents, a and b, of two values each; its  *)
(* joint density, every proposal density and the law itself are whole      *)
(* numbers, and a draw of the chain pushes the whole law forward,          *)
(* rejections included. The first block is a, or both latents; b may be    *)
(* left to NUTS, or have a block of its own.                               *)
(***************************************************************************)
EXTENDS Integers, Sequences, FiniteSetsExt

CONSTANT Chains     \* families of chains

VARIABLES
  chain,     \* the chain in hand
  law        \* where it stands: a mass for every state

S == 0 .. 3
A(x) == x \div 2
B(x) == x % 2
State(a, b) == 2 * a + b

(***************************************************************************)
(* A chain: its kind; the joint density, where zero is minus infinity or   *)
(* nothing at all; the states in the support of every prior; its blocks; is *)
(* b left to NUTS, and is b's support a's concern. A block: its names; the *)
(* state its proposal prefers from each state; the states where it cannot  *)
(* be built; does it accept or reject, how often, and from what.           *)
(***************************************************************************)

\* What every row of a kernel is multiplied by, so that it is whole numbers: the
\* product of a target and a proposal weight divides it.
Scale == 4

Total(mass) == mass[0] + mass[1] + mass[2] + mass[3]
Smaller(m, n) == IF m < n THEN m ELSE n
Point(x) == [y \in S |-> IF y = x THEN 1 ELSE 0]
Push(mass, kernel) == [y \in S |-> Total([x \in S |-> mass[x] * kernel[x][y]])]

\* A kernel that moves to y with the chance move[y] of whole, and else stays.
Moves(x, whole, move) ==
  [y \in S |-> IF y # x THEN move[y] ELSE move[x] + whole - Total(move)]

-----------------------------------------------------------------------------
\* ProposalBlock.build: a Gaussian around the point the normal equations lead to
\* from here, with the other latents as they are.
Reaches(block, x, y) ==
  /\ "a" \in block.names \/ A(x) = A(y)
  /\ "b" \in block.names \/ B(x) = B(y)

Density(block, x, y) ==
  IF ~Reaches(block, x, y) THEN 0 ELSE IF y = block.prefers[x] THEN 2 ELSE 1
Mass(block) == IF block.names = {"a", "b"} THEN 5 ELSE 3

\* (bug) the proposal densities are on the wrong sides of the ratio
Ratio_Inverted(block, x, y) ==
  [above |-> chain.target[y] * Density(block, x, y), below |-> chain.target[x] * Density(block, y, x)]

\* delta: new - old + reverse - forward.
Ratio(block, x, y) ==
  [above |-> chain.target[y] * Density(block, y, x), below |-> chain.target[x] * Density(block, x, y)]

Odds(ratio) == (Scale * Smaller(ratio.above, ratio.below)) \div ratio.below

\* eligible: the forward proposal is a density, and the candidate in the support.
Eligible(block, x, y) == x \notin block.broken /\ y \in chain.support

\* mh_transition: the chance to move on, times Scale. Without a correction every
\* eligible candidate whose density is finite is taken.
Acceptance(block, x, y) ==
  IF ~Eligible(block, x, y) \/ chain.target[y] = 0 THEN 0
  ELSE IF ~block.corrected THEN Scale
  ELSE IF y \in block.broken \/ chain.target[x] = 0 \/ ~Reaches(block, x, y) THEN 0
  ELSE Odds(Ratio(block, x, y))

MHTransition(block) ==
  [x \in S |-> Moves(x, Scale * Mass(block), [y \in S |-> Density(block, x, y) * Acceptance(block, x, y)])]

\* CompiledProposals.sweep: each block in turn, as often as its policy says.
RECURSIVE Repeated(_, _, _)
Repeated(mass, kernel, times) ==
  IF times = 0 THEN mass ELSE Repeated(Push(mass, kernel), kernel, times - 1)

RECURSIVE Succession(_, _)
Succession(mass, blocks) ==
  IF blocks = <<>> THEN mass
  ELSE Succession(Repeated(mass, MHTransition(Head(blocks)), Head(blocks).steps), Tail(blocks))

-----------------------------------------------------------------------------
\* NUTS keeps b in its own coordinate, and what that stands for may depend on a.
Flip(v) == 1 - v
Constrain(a, z) == IF chain.shifts /\ a = 1 THEN Flip(z) ELSE z
Unconstrain(a, v) == Constrain(a, v)

\* (bug) the coordinate is kept while a moves under it
Encoded_Kept(x, y) == Unconstrain(A(x), B(x))

\* _sample_single re-encodes the remainder where a proposal was accepted.
Encoded(x, y) == Unconstrain(IF y # x THEN A(y) ELSE A(x), B(x))

\* The state after the sweep, as the inner kernel sees it.
Handed(x, y) == State(A(y), Constrain(A(y), Encoded(x, y)))

\* The inner kernel, from the potential energy at the state it was handed.
NutsStep ==
  [x \in S |->
     Moves(x, 2 * Scale,
       [y \in S |-> IF y # State(A(x), Flip(B(x))) \/ chain.target[x] = 0 THEN 0
                    ELSE Odds([above |-> chain.target[y], below |-> chain.target[x]])])]

\* ProposalGibbs._sample_single: the sweep, and NUTS on the rest.
Interleaved(mass) ==
  LET handed == [x \in S |->
        LET swept == Succession(Point(x), chain.blocks)
        IN [y \in S |-> Total([w \in S |-> IF Handed(x, w) = y THEN swept[w] ELSE 0])]]
  IN Push(Push(mass, handed), NutsStep)

-----------------------------------------------------------------------------
\* gibbs_factory. The block a is solved at a covariance: that of the prior centre
\* where the precision was hoisted, else that of b as it is.
Centre == 0
CovarianceAt(b) == chain.noise[IF chain.rebuild THEN b ELSE Centre]

\* What gcr_sample draws from, given b.
Conditional(b, a) == chain.solved[b][CovarianceAt(b)][a]

\* "gcr": the draw is the next value.
GCR ==
  [x \in S |-> [y \in S |-> IF B(y) = B(x) THEN Conditional(B(x), A(y)) ELSE 0]]

\* (bug) the weight of the state it leaves is forgotten
Weight_Proposed(x, y) ==
  [above |-> chain.target[y], below |-> chain.target[x] * Conditional(B(y), A(y))]

\* The difference of two log_weight: each is the joint density over the density
\* of the Gaussian the draw came from.
Weight(x, y) ==
  [above |-> chain.target[y] * Conditional(B(x), A(x)),
   below |-> chain.target[x] * Conditional(B(y), A(y))]

\* _mh_step: a weight that is no number takes nothing, one that is infinite all.
Taken(x, y) ==
  IF chain.target[x] > 0 THEN Odds(Weight(x, y)) ELSE IF chain.target[y] > 0 THEN Scale ELSE 0

MHStep ==
  [x \in S |->
     Moves(x, 3 * Scale,
       [y \in S |-> IF B(y) = B(x) THEN Conditional(B(x), A(y)) * Taken(x, y) ELSE 0])]

\* HMCGibbs: the block, then NUTS with the block where it is now.
Gibbs(mass) == Push(Push(mass, IF chain.method = "gcr" THEN GCR ELSE MHStep), NutsStep)

-----------------------------------------------------------------------------
(* What the draws of a chain say of themselves: split r-hat, in thousandths  *)
(* above one, and the effective sample size, coordinate by coordinate.       *)

Unusable == 99999     \* a value that is not finite
EssFloor == 100       \* CHAIN_ESS_FLOOR

\* _constant: what r-hat times the sample size may reach, which grows with the
\* coordinates of the report.
Constant(coordinates) ==
  CASE coordinates = 1 -> 11500 [] coordinates = 2 -> 12674 [] coordinates = 3 -> 13360 [] coordinates = 4 -> 13848

Usable(at) == at.over # Unusable /\ at.ess # Unusable /\ at.ess > 0
Starved(at) == ~Usable(at) \/ at.ess < EssFloor

\* (bug) how far r-hat is beyond its ceiling, which a stuck chain lifts
Excess_Forgiving(at) == IF Usable(at) THEN at.over * at.ess ELSE 0

\* rank: how far r-hat is beyond its ceiling; a coordinate with too few draws is
\* worse than any other.
Excess(at) == IF Starved(at) THEN Unusable * 1000 ELSE at.over * at.ess

\* (bug) the first coordinate speaks for its site
Worst_First(site) == 1

Worst(site) == Min({i \in DOMAIN site : \A j \in DOMAIN site : Excess(site[i]) >= Excess(site[j])})

\* SiteDiagnostic: the worst coordinate, and why it has not converged.
SiteDiagnostic(site, coordinates) ==
  LET at == site[Worst(site)]
      reason == IF Starved(at) THEN "too few draws" ELSE IF Excess(at) > Constant(coordinates) THEN "beyond" ELSE "none"
  IN [worst |-> Worst(site), reason |-> reason, converged |-> reason = "none",
      over |-> IF Usable(at) THEN at.over ELSE Unusable, ess |-> IF Usable(at) THEN at.ess ELSE 0]

\* chain_diagnostics, of every site; fewer than four draws of a chain have no
\* split r-hat, and _diagnostics_or_none has nothing to say of them.
DiagnosticsOrNone(sites, draws) ==
  IF draws < 4 THEN <<>>
  ELSE [n \in DOMAIN sites |-> SiteDiagnostic(sites[n], MapThenSumSet(LAMBDA k : Len(sites[k]), DOMAIN sites))]

Estimates == [over : {-2, 120, 130, Unusable}, ess : {0, 50, 100, Unusable}]
Mixed == [over |-> 1, ess |-> 1000]
SitesSampled ==
  {<<s, t>> : s \in {<<x>> : x \in Estimates} \cup {<<x, y>> : x, y \in Estimates}, t \in {<<Mixed>>, <<Mixed, Mixed>>}}

\* A site has converged exactly when each of its coordinates has the draws to be
\* judged by and is within the ceiling they set, which one report sets for all of
\* its sites; what is reported of one that has not is the fault of the coordinate
\* that is named, and a statistic that was none never reads as a good one.
SitesAreJudged ==
  \A sites \in SitesSampled, draws \in {3, 4} :
    LET r == DiagnosticsOrNone(sites, draws)
        within(at) == at.over * at.ess <= Constant(Len(sites[1]) + Len(sites[2]))
    IN \A n \in DOMAIN r :
         LET at == sites[n][r[n].worst]
         IN /\ r[n].converged <=> \A i \in DOMAIN sites[n] : ~Starved(sites[n][i]) /\ within(sites[n][i])
            /\ ~r[n].converged => Starved(at) \/ ~within(at)
            /\ r[n].converged => r[n].over = at.over /\ r[n].ess = at.ess
            /\ {at.over, at.ess} \cap {Unusable} # {} => r[n].over = Unusable /\ r[n].ess = 0

-----------------------------------------------------------------------------
LawInit ==
  /\ \E family \in Chains : chain \in family
  /\ law = chain.target

\* One draw of the chain, from its target: a law one draw keeps, every draw keeps.
Draw ==
  /\ law = chain.target
  /\ law' = CASE chain.kind = "gibbs" -> Gibbs(law)
              [] chain.kind = "interleaved" -> Interleaved(law)
              [] chain.kind = "proposal" -> Succession(law, chain.blocks)
  /\ UNCHANGED chain

\* CompiledProposals.mh_corrected, which target_fidelity is recorded from.
MHCorrected == \A i \in DOMAIN chain.blocks : chain.blocks[i].corrected

\* A chain that is recorded as exact leaves its target where it was: whatever
\* the proposals are built from and wherever they cannot be, in any order and
\* number, with the rest of the latents under NUTS whose support they move, and
\* whichever covariance a frozen block was drawn at.
ExactChainsKeepTheTarget ==
  MHCorrected => \A x, y \in S : law[x] * chain.target[y] = law[y] * chain.target[x]

\* A chain keeps its target where it is said to, and is said to have converged
\* where it has.
ChainsAreAsRecorded == ExactChainsKeepTheTarget /\ SitesAreJudged
=============================================================================
