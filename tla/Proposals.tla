------------------------------ MODULE Proposals ------------------------------
(***************************************************************************)
(* Which blocks a posterior samples by proposals when the task names none: *)
(* dispatch/auto_proposals.py:select_proposals tries every latent alone,   *)
(* merges what it tried, and replaces the plan that was compiled before it *)
(* (the legacy plan). Every attempt is a compile of exact/proposals.py:     *)
(* compile_proposals for one block; the plan is a compile of all of them.  *)
(*                                                                         *)
(* And the loop that drives a chain of such blocks, dispatch/              *)
(* proposal_sampling.py:_collect. It is a second loop beside               *)
(* dispatch/sampling.py:run_mcmc, written apart from it, and is to keep    *)
(* what that one promises: it is checked to be a SamplingLoop.             *)
(***************************************************************************)
EXTENDS Integers, Sequences, SequencesExt, FiniteSetsExt

CONSTANTS
  Parameters,       \* the model's latents, in order
  Data,             \* its observed nodes
  Selections,       \* families of facts about them
  MaxParameters,    \* ProposalBlockPolicy.max_parameters
  MaxElements,      \* ProposalBlockPolicy.max_matrix_elements
  Caps, MinDraws, BatchSizes, Needed, MaxDivergences, Divergences  \* what a policy of the loop may be, as in SamplingLoop

ASSUME ParametersAssumption ==
  /\ Parameters \in Seq(ToSet(Parameters))
  /\ \A i, j \in DOMAIN Parameters : Parameters[i] = Parameters[j] => i = j

\* A solved block is one of the model's latents.
ASSUME SeedsAssumption ==
  \A family \in Selections : \A m \in family : m.seed \subseteq ToSet(Parameters)

ASSUME PoliciesAssumption ==
  /\ Caps \subseteq Nat
  /\ MinDraws \subseteq {n \in Nat : n >= 4}
  /\ BatchSizes \subseteq Nat \ {0}
  /\ Needed \subseteq Nat \ {0}
  /\ MaxDivergences \subseteq Nat
  /\ Divergences \subseteq Nat

(***************************************************************************)
(* The facts: "standard", the task leaves the choice to select_proposals;   *)
(* "point", an initial point is found; "moving", a covariance provably      *)
(* moves; the seed, the legacy block a frozen covariance proposes for; each *)
(* latent's prior and size; the latents each prior and each data node read; *)
(* the data with a log form; which latents are curved, alone or in a pair,  *)
(* in the mean and in its log; the pairs the data cannot tell apart.        *)
(***************************************************************************)
VARIABLES model, choice

Names == ToSet(Parameters)
Others(names) == Names \ names

-----------------------------------------------------------------------------
\* _reachable: what a block moves, through the priors too.
Below(names) == names \cup {l \in Names : model.under[l] \cap names # {}}
Reached(names) == {d \in Data : model.reads[d] \cap Below(names) # {}}

SizesOf(size, names) == MapThenSumSet(LAMBDA l : size[l], names)
SizeOf(names) == SizesOf(model.size, names)

\* The residuals of a block: its data, and each Gaussian prior it moves.
Elements(names) ==
  LET priors == {l \in Below(names) : model.prior[l] = "normal"}
  IN SizeOf(names) * (SizeOf(names) + SizeOf(priors) + Cardinality(Reached(names)))

Within(names) == SizeOf(names) <= MaxParameters /\ Elements(names) <= MaxElements

\* _log_term: positive data with a constant fractional noise.
HasTerms(block) == block.method = "bias_corrected_log_linear" => Reached(block.names) \subseteq model.logged

\* _check_affinity, which probes the block jointly.
Affine(block) ==
  LET curved == model.curved[block.method]
  IN \A names \in curved : ~names \subseteq block.names

\* block.build: neither a prior nor the data hold a direction.
Singular(names) ==
  LET free == {l \in names : model.prior[l] # "normal"}
  IN \/ \E l \in free : Reached({l}) = {}
     \/ \E pair \in model.confounded : pair \subseteq free

\* compile_proposals: distinct names, a continuous remainder, and every block.
Compiles(blocks) ==
  LET named == UNION {b.names : b \in ToSet(blocks)}
  IN /\ blocks # <<>>
     /\ \A i, j \in DOMAIN blocks : i # j => blocks[i].names \cap blocks[j].names = {}
     /\ \A l \in Others(named) : model.prior[l] # "discrete"
     /\ \A b \in ToSet(blocks) :
          /\ \A l \in b.names : model.prior[l] \in {"normal", "uniform"}
          /\ Within(b.names) /\ HasTerms(b) /\ Affine(b) /\ ~Singular(b.names)

Proposes(names, method) == [names |-> names, method |-> method]

-----------------------------------------------------------------------------
Undecided == [at |-> "gates", turn |-> 1, policies |-> <<>>, groups |-> <<>>]

SelectInit ==
  /\ \E family \in Selections : model \in family
  /\ choice = Undecided

\* What is to be chosen is not select_proposals' business, or cannot be.
Gates ==
  /\ choice.at = "gates"
  /\ choice' = [choice EXCEPT !.at =
       IF model.standard /\ model.point /\ model.moving THEN "seed" ELSE "legacy"]

\* The block the legacy plan solves has to be a proposal too.
Seed ==
  /\ choice.at = "seed"
  /\ choice' =
       LET block == Proposes(model.seed, "iterative_gls")
       IN IF model.seed = {} THEN [choice EXCEPT !.at = "singles"]
          ELSE IF Compiles(<<block>>) THEN [choice EXCEPT !.at = "singles", !.policies = <<block>>]
          ELSE [choice EXCEPT !.at = "legacy"]

Methods == <<"bias_corrected_log_linear", "iterative_gls">>

\* A method for one latent: it compiles, and the latent moves an observed mean.
Supports(l, method) ==
  /\ model.size[l] <= MaxParameters /\ Compiles(<<Proposes({l}, method)>>)
  /\ \E d \in Data : l \in model.moves[d]

\* The first of them, where there is one and the latent has no block yet.
Single ==
  /\ choice.at = "singles" /\ choice.turn <= Len(Parameters)
  /\ LET l == Parameters[choice.turn]
         open == {k \in DOMAIN Methods : l \notin model.seed /\ Supports(l, Methods[k])}
     IN \/ /\ open = {}
           /\ choice' = [choice EXCEPT !.turn = @ + 1]
        \/ \E k \in open :
             /\ \A j \in open : k <= j
             /\ choice' = [choice EXCEPT !.turn = @ + 1,
                             !.policies = Append(@, Proposes({l}, Methods[k]))]

Singles ==
  /\ choice.at = "singles" /\ choice.turn > Len(Parameters)
  /\ choice' = [choice EXCEPT !.turn = 1, !.at = IF choice.policies = <<>> THEN "legacy" ELSE "merging"]

\* (bug) blocks of one method are joined without being tried
Joins_Untried(group, policy) == group.method = policy.method

\* A policy joins a group of its method they compile in together.
Joins(group, policy) ==
  /\ group.method = policy.method
  /\ Compiles(<<Proposes(group.names \cup policy.names, policy.method)>>)

Merge ==
  /\ choice.at = "merging" /\ choice.turn <= Len(choice.policies)
  /\ LET policy == choice.policies[choice.turn]
         open == {i \in DOMAIN choice.groups : Joins(choice.groups[i], policy)}
         Wider(i) == [choice.groups EXCEPT ![i].names = @ \cup policy.names]
     IN \/ /\ open = {}
           /\ choice' = [choice EXCEPT !.turn = @ + 1, !.groups = Append(@, policy)]
        \/ \E i \in open :
             /\ \A j \in open : i <= j
             /\ choice' = [choice EXCEPT !.turn = @ + 1, !.groups = Wider(i)]

\* The legacy block is within a larger one.
Enlarged ==
  \E group \in ToSet(choice.groups) :
    group.method = "iterative_gls" /\ model.seed \subseteq group.names /\ model.seed # group.names

\* compile_proposal_plan: all of the blocks in one compile, which may refuse.
Settle ==
  /\ choice.at = "merging" /\ choice.turn > Len(choice.policies)
  /\ choice' = [choice EXCEPT !.at =
       IF model.seed # {} /\ ~Enlarged THEN "legacy"
       ELSE IF Compiles(choice.groups) THEN "automatic" ELSE "raised"]

SelectNext == UNCHANGED model /\ (Gates \/ Seed \/ Single \/ Singles \/ Merge \/ Settle)

-----------------------------------------------------------------------------
\* What was tried block by block holds of the plan as a whole: the selection never
\* raises once it has blocks to offer; every latent a policy was
\* found for is in one block, and no other latent is in any; and a solved block is
\* given up only for one in which its latents still move together, with others.
SelectionHolds ==
  /\ choice.at # "raised"
  /\ choice.at = "automatic" =>
       /\ model.seed = {} \/ \E g \in ToSet(choice.groups) :
                               model.seed \subseteq g.names /\ Cardinality(g.names) > Cardinality(model.seed)
       /\ \A l \in Names : Cardinality({i \in DOMAIN choice.groups : l \in choice.groups[i].names})
                             = (IF \E p \in ToSet(choice.policies) : l \in p.names THEN 1 ELSE 0)

-----------------------------------------------------------------------------
VARIABLE collect    \* the call: its settings, where it is and what it has so far

Loop == INSTANCE SamplingLoop WITH
  policy <- collect.policy, pc <- IF collect.at = "prepared" THEN "sampling" ELSE collect.at,
  count <- collect.count, consecutive <- collect.consecutive, divergences <- collect.divergences,
  checkpoints <- collect.checkpoints, kept <- collect.batches, mcmc <- collect.mcmc,
  expired <- collect.expired, reason <- collect.reason, termination <- "none", warnings <- {}

-----------------------------------------------------------------------------
\* The chains are not prepared yet; with a remainder, NUTS moves it.
Called(p, remainder) ==
  [at |-> "sampling", policy |-> p, remainder |-> remainder, count |-> 0, consecutive |-> 0,
   divergences |-> 0, checkpoints |-> <<>>, batches |-> <<>>,
   mcmc |-> [at |-> 0, warmups |-> 0], expired |-> FALSE, reason |-> "fixed_budget"]

CollectInit == \E p \in Loop!Policy, remainder \in BOOLEAN : collect = Called(p, remainder)

\* run_proposal_mcmc and the initial points: the budgets are positive, NUTS
\* options have a NUTS to go to, every chain has a point, and every block of
\* every chain can propose from it.
Prepare ==
  /\ collect.at = "sampling"
  /\ \E optioned, complete, proposing \in BOOLEAN :
       collect' = [collect EXCEPT !.at =
         IF /\ collect.policy.cap > 0 /\ complete /\ proposing
            /\ optioned => collect.remainder
           THEN "prepared" ELSE "raised"]

\* The size of the next batch.
NextSize ==
  LET p == collect.policy
      remaining == p.cap - collect.count
      batch == IF collect.count = 0 /\ p.mode = "checkpoints" THEN p.min ELSE p.batch
  IN IF p.mode = "fixed" /\ ~p.timed THEN remaining
     ELSE IF batch < remaining THEN batch ELSE remaining

\* The chain a batch continues, or the one it warms up and starts.
Ran(size) ==
  IF collect.count > 0 THEN [collect.mcmc EXCEPT !.at = @ + size]
  ELSE [at |-> size, warmups |-> 1]

\* (bug) a checkpoint of too few draws counts
Passes_Early(passed, count) == IF passed THEN collect.consecutive + 1 ELSE 0

\* consecutive after a checkpoint.
Passes(passed, count) ==
  IF passed /\ count >= collect.policy.min THEN collect.consecutive + 1 ELSE 0

\* One turn of the loop. A kernel of proposals alone has nothing that diverges.
Turn ==
  /\ collect.at = "prepared" /\ collect.count < collect.policy.cap
  /\ \E seen \in Divergences, owned, within, late \in BOOLEAN :
       LET p == collect.policy
           whole == p.mode = "fixed" /\ ~p.timed
           size == NextSize
           count == collect.count + size
           divergences == collect.divergences + seen
           judged == count >= 4 /\ owned
           passed == judged /\ within /\ divergences <= p.maxdiv
           passes == IF whole THEN collect.consecutive ELSE Passes(passed, count)
           converged == p.mode = "checkpoints" /\ passes >= p.need
           stopped == ~whole /\ ~converged /\ late
       IN /\ collect.remainder \/ seen = 0
          /\ late => p.timed
          /\ collect' = [collect EXCEPT
               !.count = count, !.mcmc = Ran(size),
               !.batches = Append(@, [from |-> Ran(size).at - size, to |-> Ran(size).at]),
               !.divergences = divergences,
               !.checkpoints = Append(@, [draws |-> count, owned |-> judged, passed |-> passed]),
               !.consecutive = passes, !.expired = late,
               !.reason = IF converged THEN "diagnostics_converged"
                          ELSE IF stopped THEN "time_cap"
                          ELSE IF p.mode = "checkpoints" THEN "draw_cap" ELSE "fixed_budget",
               !.at = IF whole \/ converged \/ stopped \/ count >= p.cap
                        THEN "stopped" ELSE "prepared"]

CollectNext == Prepare \/ Turn

CollectSpec == CollectInit /\ [][CollectNext]_collect

\* The proposal loop is a sampling loop: one warmed chain without gaps, judged
\* after every batch, stopped where the other loop would have stopped and for
\* the reason it would have given.
CollectIsASamplingLoop == Loop!Init /\ [][Loop!Next]_(Loop!vars)
=============================================================================
