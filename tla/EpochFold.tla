----------------------------- MODULE EpochFold -----------------------------
(***************************************************************************)
(* marginal/campaign.py:fold_epochs and marginal/chain.py:chain_marginal:  *)
(* one loop that stacks the stored block of each epoch onto a running      *)
(* [factor | target | offset]. A chain also carries a linked latent zeta   *)
(* from epoch to epoch: it widens by zeta_{e+1}, appends the transition's  *)
(* rows, and drops zeta_e from the front. A row is the density it belongs  *)
(* to, a column the latent it stands for; the numbers are left out.        *)
(***************************************************************************)
EXTENDS Naturals, Sequences

VARIABLES
  mode,        \* "fold" (fold_epochs), "chain" (chain_marginal)
  size,        \* how many blocks are stacked
  theta,       \* the columns of the latents that survive, in order
  nZeta,       \* resolved.width: the chain's components, 0 for a fold
  stored,      \* how many columns the caller's blocks have
  blocks,      \* of each epoch: the densities in its term, the latents integrated in it
  reads,       \* the densities there are, and the hidden latents each reads
  phase,       \* "start", "fold", "advance", "finish", "done", "refused"; "idle" before a call
  at,          \* epochs folded
  columns,     \* what each column of the carry stands for
  rows,        \* how often each density's rows were stacked
  norms,       \* how often its normalisation was added to the offset
  integrals    \* how often each latent was integrated

foldVars == <<mode, size, theta, nZeta, stored, blocks, reads, phase, at, columns, rows,
              norms, integrals>>

Block(e)      == <<"block", e>>
Initial       == <<"initial", 1>>
Transition(e) == <<"transition", e>>

\* The columns of zeta in one epoch; zeta_{size + 1} is one too many.
Zeta(e) == [k \in 1 .. nZeta |-> <<"zeta", e, k>>]
BlockColumns(e) == theta \o Zeta(e)

Labels(s) == {s[k] : k \in DOMAIN s}

\* One more of each member of S.
Plus(bag, S) == [x \in DOMAIN bag |-> IF x \in S THEN bag[x] + 1 ELSE bag[x]]

\* _check_block_width: a fold asks nothing, its width is the blocks' own.
WidthFits == mode = "fold" \/ stored = Len(theta) + nZeta

\* What the carry starts from: nothing, or zeta_1's prior with its constant.
Opening == IF mode = "chain" THEN {Initial} ELSE {}

Start ==
  /\ phase = "start"
  /\ IF WidthFits
       THEN /\ phase' = "fold" /\ columns' = BlockColumns(1)
            /\ rows' = Plus(rows, Opening) /\ norms' = Plus(norms, Opening)
       ELSE phase' = "refused" /\ UNCHANGED <<columns, rows, norms>>
  /\ UNCHANGED <<mode, size, theta, nZeta, stored, blocks, reads, at, integrals>>

\* The scan stops one short of the last epoch, which has no successor.
AfterFold(e) ==
  IF mode = "fold" THEN IF e = size THEN "done" ELSE "fold"
  ELSE IF e = size THEN "finish" ELSE "advance"

\* _fold and fold_epochs.step: the block's rows, and its own offset with all
\* that was integrated inside it.
Fold ==
  /\ phase = "fold"
  /\ at' = at + 1
  /\ rows' = Plus(rows, blocks[at + 1].densities)
  /\ norms' = Plus(norms, blocks[at + 1].densities)
  /\ integrals' = Plus(integrals, blocks[at + 1].hidden)
  /\ phase' = AfterFold(at + 1)
  /\ UNCHANGED <<mode, size, theta, nZeta, stored, blocks, reads, columns>>

\* (bug) the columns are left in the order they were widened in
Reordered_Not(c) == c

\* augment_order and final_order: zeta_e first, then theta, then zeta_{e+1}.
Reordered(c) ==
  SubSeq(c, Len(theta) + 1, Len(theta) + nZeta) \o SubSeq(c, 1, Len(theta))
    \o SubSeq(c, Len(theta) + nZeta + 1, Len(c))

\* marginalise_arrays: the first n_block columns are integrated and dropped.
Dropped(c, n) == SubSeq(c, 1, n)
Kept(c, n)    == SubSeq(c, n + 1, Len(c))

\* (bug) the transition's own constant is taken to be the integral's
TransitionNorm_Lost(e) == {}

\* _transition_log_norm, one per augmentation.
TransitionNorm(e) == {Transition(e)}

\* step: widen, append the transition's rows, integrate zeta_e.
Advance ==
  /\ phase = "advance"
  /\ LET joint == Reordered(columns \o Zeta(at + 1))
     IN /\ columns' = Kept(joint, nZeta)
        /\ integrals' = Plus(integrals, Labels(Dropped(joint, nZeta)))
  /\ rows' = Plus(rows, {Transition(at)})
  /\ norms' = Plus(norms, TransitionNorm(at))
  /\ phase' = "fold"
  /\ UNCHANGED <<mode, size, theta, nZeta, stored, blocks, reads, at>>

\* The last epoch's zeta has no successor: integrate it, and return the term.
Finish ==
  /\ phase = "finish"
  /\ LET joint == Reordered(columns)
     IN /\ columns' = Kept(joint, nZeta)
        /\ integrals' = Plus(integrals, Labels(Dropped(joint, nZeta)))
  /\ phase' = "done"
  /\ UNCHANGED <<mode, size, theta, nZeta, stored, blocks, reads, at, rows, norms>>

FoldNext == Start \/ Fold \/ Advance \/ Finish

-----------------------------------------------------------------------------
\* A chain over n blocks as its caller hands it over: the term of an epoch
\* reads that epoch's zeta, a transition two of them, and nothing is summed yet.
ChainDensities(n) == {Block(e) : e \in 1 .. n} \cup {Initial}
                       \cup {Transition(e) : e \in 1 .. n - 1}
EpochsOf(d) == IF d[1] = "transition" THEN {d[2], d[2] + 1} ELSE {d[2]}

ChainCall(n, nTheta, width) ==
  /\ mode = "chain" /\ size = n /\ nZeta = width
  /\ theta = [k \in 1 .. nTheta |-> <<"theta", 0, k>>]
  /\ blocks = [e \in 1 .. n |-> [densities |-> {Block(e)}, hidden |-> {}]]
  /\ reads = [d \in ChainDensities(n) |-> UNION {Labels(Zeta(e)) : e \in EpochsOf(d)}]
  /\ phase = "start" /\ at = 0 /\ columns = <<>>
  /\ rows = [d \in ChainDensities(n + 1) |-> 0] /\ norms = rows
  /\ integrals = [x \in Labels(theta) \cup UNION {Labels(Zeta(e)) : e \in 1 .. n + 1} |-> 0]

Once(bag) == {x \in DOMAIN bag : bag[x] = 1}

\* The promise the loop keeps, step by step.
Marginal == INSTANCE Integral WITH
  counted    <- Once(rows) \cap Once(norms),
  integrated <- Once(integrals)

Integrates == Marginal!Spec

\* _zeta_joint: the rows the smoother assembles for itself, from the same blocks.
SmootherDensities ==
  {Block(e) : e \in 1 .. size} \cup {Initial} \cup {Transition(e) : e \in 1 .. size - 1}

\* The latents some density reads are the ones to integrate.
Hidden == UNION {reads[d] : d \in DOMAIN reads}

\* The term returned is the marginal and nothing else: every density there is
\* entered once, with its constant, every hidden latent was integrated once,
\* and what is left is a form in the survivors. The smoother of a chain is about
\* the same densities. On the way every block is stacked on columns that stand
\* for the same latents as its own.
TermIsTheMarginal ==
  /\ phase = "fold" => columns = BlockColumns(at + 1)
  /\ phase = "done" =>
    /\ columns = theta
    /\ \A d \in DOMAIN rows : rows[d] = (IF d \in DOMAIN reads THEN 1 ELSE 0)
    /\ norms = rows
    /\ mode = "chain" => Once(rows) = SmootherDensities
    /\ \A x \in DOMAIN integrals : integrals[x] = (IF x \in Hidden THEN 1 ELSE 0)
=============================================================================
