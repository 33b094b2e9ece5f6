------------------------------ MODULE Reduction ------------------------------
(***************************************************************************)
(* The bookkeeping of densities when a graph is reduced: a block of        *)
(* latents is integrated out, its data is absorbed, and one graph-level    *)
(* evidence term takes their place (graph/reduction.py,                    *)
(* dispatch/collapse.py).  A density that is lost or read twice leaves the *)
(* posterior plausible and wrong, and nothing downstream can tell.         *)
(*                                                                         *)
(* A node is its position in the declaration order, so a parent is a       *)
(* smaller number.  Kinds and parents never change: a reduction only       *)
(* drops nodes.  What a density evaluates to is left out; what is kept is  *)
(* which densities each reader of a graph adds up.                         *)
(***************************************************************************)
EXTENDS Naturals, Sequences, FiniteSets

CONSTANTS
  N,          \* nodes of the recorded graph
  MaxTerms    \* bound: reductions of one graph

ASSUME SizesAssumption == N \in Nat \ {0} /\ MaxTerms \in Nat

Node == 1 .. N
Kind == {"latent", "observed", "deterministic"}

\* A graph-level likelihood: the latents it declares (`over`), and what its
\* log_density stands for -- the latents integrated out (`removed`) and the
\* node densities inside the integral (`carries`).
Term == [over : SUBSET Node, removed : SUBSET Node, carries : SUBSET Node]

\* `joint` is the block of the joint prior; {} when none is declared.
GraphOf == [nodes : SUBSET Node, joint : SUBSET Node, terms : Seq(Term)]

\* A compiled plan: its exact blocks, and the latents left to NUTS.
Plan == [blocks : SUBSET SUBSET Node, nuts : SUBSET Node]
NoPlan == [blocks |-> {}, nuts |-> {}]

VARIABLES
  kind,       \* [Node -> Kind]
  parents,    \* [Node -> SUBSET Node]
  graph,      \* the graph as it stands
  handle,     \* "graph", or "reduced" for a ReducedGraph, which only NUTS may read
  compiled,   \* whether a plan of `graph` is held
  plan

vars == <<kind, parents, graph, handle, compiled, plan>>

--------------------------------------------------------------------------------
(* Reading a graph *)

Latents(g) == {n \in g.nodes : kind[n] = "latent"}
Observed(g) == {n \in g.nodes : kind[n] = "observed"}
Probabilistic(g) == Latents(g) \cup Observed(g)

\* Who is reached from a node over its parents, and on over the parents of those
\* that may be passed through.
Upstream(n, through) ==
  {m \in Node : \A C \in SUBSET Node :
     parents[n] \subseteq C /\ (\A c \in C \cap through : parents[c] \subseteq C) => m \in C}

\* block.py _ancestors
Ancestors(n) == Upstream(n, Node)

\* collapse.py observed_descendants
ObservedDescendants(g, block) ==
  {n \in Observed(g) : Ancestors(n) \cap block # {}}

\* graph.py __check_init__, for what a reduction can disturb
WellFormed(g) ==
  /\ \A n \in g.nodes : parents[n] \subseteq g.nodes
  /\ g.joint \subseteq Latents(g)
  /\ \A i \in DOMAIN g.terms : /\ g.terms[i].over \subseteq Latents(g)
                               /\ g.terms[i].over \cap g.joint = {}

\* reduction.py check_evidence_nuts_boundary
InsideSampler(g, nuts) ==
  \A i \in DOMAIN g.terms : g.terms[i].over \subseteq nuts

\* evaluate.py log_joint: every retained node once, then every evidence term
TimesRead(g, d) ==
  (IF d \in Probabilistic(g) THEN 1 ELSE 0)
    + Cardinality({i \in DOMAIN g.terms : d \in g.terms[i].carries})

--------------------------------------------------------------------------------
(* reduce_with_evidence *)

\* The nodes the loop over graph.nodes drops: what is removed, and downstream
\* of it the absorbed observations and the deterministic nodes.  Declaration
\* order is topological, so exactly one D satisfies it.
IsDropped(g, remove, absorb, D) ==
  D = {n \in g.nodes : \/ n \in remove
                       \/ /\ parents[n] \cap D # {}
                          /\ n \in absorb \/ kind[n] = "deterministic"}

\* A probabilistic node that would survive the loss of a parent is refused,
\* and so is an absorbed observation the loop never reached.
RegionRefused(g, absorb, D) ==
  \/ \E n \in Probabilistic(g) \ D : n \notin absorb /\ parents[n] \cap D # {}
  \/ ~ absorb \subseteq D

\* (bug) only the term just attached is checked
ResultAccepted_NewTermOnly(g, nuts) ==
  LET new == g.terms[Len(g.terms)]
  IN  /\ \A n \in g.nodes : parents[n] \subseteq g.nodes
      /\ nuts \subseteq Latents(g)
      /\ new.over \subseteq nuts

\* The graph constructor and the sampler boundary, both on the result.
ResultAccepted(g, nuts) ==
  /\ WellFormed(g)
  /\ nuts \subseteq Latents(g)
  /\ InsideSampler(g, nuts)

Reduced(g, D, term) ==
  [nodes |-> g.nodes \ D, joint |-> g.joint, terms |-> Append(g.terms, term)]

\* One call of reduce_with_evidence that returns.  A call that raises changes
\* nothing: graphs are immutable.
ReduceWithEvidence(remove, absorb, term, nuts) ==
  /\ Len(graph.terms) < MaxTerms
  /\ remove \subseteq Latents(graph)
  /\ absorb \subseteq Observed(graph)
  /\ \E D \in SUBSET graph.nodes :
       /\ IsDropped(graph, remove, absorb, D)
       /\ ~ RegionRefused(graph, absorb, D)
       /\ ResultAccepted(Reduced(graph, D, term), nuts)
       /\ graph' = Reduced(graph, D, term)
  /\ handle' = "reduced"
  /\ compiled' = FALSE
  /\ plan' = NoPlan
  /\ UNCHANGED <<kind, parents>>

--------------------------------------------------------------------------------
(* The two callers of reduce_with_evidence *)

\* The latents a node's density reads: through deterministic nodes, and no
\* further than a latent or an observation, whose values are given.
Reads(n) ==
  {l \in Upstream(n, {d \in Node : kind[d] = "deterministic"}) : kind[l] = "latent"}

\* What a term still depends on once `removed` is integrated out.
Needs(removed, carries) ==
  ((UNION {Reads(d) : d \in carries}) \cup {d \in carries : kind[d] = "latent"})
    \ removed

\* By hand: the caller's term holds exactly the densities it takes out and
\* declares the latents they read, or all that are left, which NUTS samples.
ReduceByHand ==
  /\ handle = "graph"
  /\ \E remove \in SUBSET Latents(graph), absorb \in SUBSET Observed(graph) :
       \E over \in {Needs(remove, remove \cup absorb), Latents(graph) \ remove} :
         ReduceWithEvidence(
           remove, absorb,
           [over |-> over, removed |-> remove, carries |-> remove \cup absorb],
           Latents(graph) \ remove)

\* (bug) every observation of the block's operator is compressed
MarginalCarries_AllData(g, exact) == exact \cup Observed(g)

\* collapse.py marginal_log_density: the block's prior, and the observations
\* the block reaches; it recomputes that set instead of taking the caller's.
MarginalCarries(g, exact) == exact \cup ObservedDescendants(g, exact)

\* Sampling a mixed plan with collapse=True.  On a graph that already has an
\* evidence term the first density evaluation raises: unchecked_operator
\* refuses it without a NUTS witness, and marginal_log_density passes none.
Collapse ==
  /\ compiled
  /\ graph.terms = << >>
  /\ \E exact \in plan.blocks :
       LET nuts == Latents(graph) \ exact
       IN  /\ nuts # {}
           /\ ReduceWithEvidence(
                exact, ObservedDescendants(graph, exact),
                [over |-> nuts, removed |-> exact,
                 carries |-> MarginalCarries(graph, exact)],
                nuts)

\* as_graph: the documented way back to a plain graph
Unwrap ==
  /\ handle = "reduced"
  /\ handle' = "graph"
  /\ UNCHANGED <<kind, parents, graph, compiled, plan>>

--------------------------------------------------------------------------------
(* Compiling a plan *)

\* (bug) a latent that another latent's distribution depends on is let in
Eligible_Hyper(g) ==
  IF Observed(g) = {} \/ g.joint # {} THEN {}
  ELSE {x \in Latents(g) : \A i \in DOMAIN g.terms : x \notin g.terms[i].over}

\* affinity.py discover_affinity: the latents that may sit in an exact block,
\* before any probe of the prediction.
Eligible(g) ==
  IF Observed(g) = {} \/ g.joint # {} THEN {}
  ELSE {x \in Latents(g) :
          /\ \A i \in DOMAIN g.terms : x \notin g.terms[i].over
          /\ \A y \in Latents(g) \ {x} : x \notin Ancestors(y)}

\* Which of the eligible latents the certificate and the probes accept, and
\* whether they accept them jointly, is a question of arithmetic: any outcome.
\* One group is a plan with one exact block; several make a factor sweep.
Partitions(eligible) ==
  {P \in SUBSET ((SUBSET eligible) \ {{}}) :
     Cardinality(P) <= 2 /\ \A A, B \in P : A = B \/ A \cap B = {}}

\* ReducedGraph.latents raises: the exact paths do not read evidence terms
Compilable == handle = "graph"

Compile ==
  /\ Compilable
  /\ ~ compiled
  /\ \E blocks \in Partitions(Eligible(graph)) :
       LET nuts == Latents(graph) \ UNION blocks
       IN  /\ InsideSampler(graph, nuts)
           /\ plan' = [blocks |-> blocks, nuts |-> nuts]
  /\ compiled' = TRUE
  /\ UNCHANGED <<kind, parents, graph, handle>>

\* What one exact update of a block adds up: the block's prior and every
\* observation's likelihood.  No graph-level term.
UpdateReads(g, block) == block \cup Observed(g)

--------------------------------------------------------------------------------
Init ==
  /\ kind \in [Node -> Kind]
  /\ parents \in {f \in [Node -> SUBSET Node] :
                    \A n \in Node : \A p \in f[n] : p < n}
  /\ \E joint \in SUBSET {n \in Node : kind[n] = "latent"} :
       graph = [nodes |-> Node, joint |-> joint, terms |-> << >>]
  /\ handle = "graph"
  /\ compiled = FALSE
  /\ plan = NoPlan

Next == ReduceByHand \/ Collapse \/ Unwrap \/ Compile

Spec == Init /\ [][Next]_vars
--------------------------------------------------------------------------------
TypeOK ==
  /\ kind \in [Node -> Kind]
  /\ parents \in [Node -> SUBSET Node]
  /\ graph \in GraphOf
  /\ handle \in {"graph", "reduced"}
  /\ compiled \in BOOLEAN
  /\ plan \in Plan
  /\ handle = "reduced" => ~ compiled

\* Every density of the recorded model enters log_joint exactly once, however
\* often the graph was reduced: no likelihood is lost with a dropped node, and
\* none is both retained and inside a term (log_joint, reduce_with_evidence,
\* collapse_graph).
EveryDensityOnce ==
  \A d \in Node : kind[d] # "deterministic" => TimesRead(graph, d) = 1

\* A term is a marginal: every density of the model that depends on a latent it
\* integrated out is inside it, and no other term still reads that latent.
TermsAreMarginals ==
  \A i \in DOMAIN graph.terms : \A x \in graph.terms[i].removed :
    /\ \A d \in Node :
         kind[d] # "deterministic" /\ x \in Reads(d) => d \in graph.terms[i].carries
    /\ \A j \in DOMAIN graph.terms \ {i} :
         /\ x \notin graph.terms[j].over
         /\ x \notin Needs(graph.terms[j].removed, graph.terms[j].carries)

\* Who takes a latent out takes everything it enters along. A term of an integral
\* is a marginal (TermsAreMarginals); and an exact update conditions on
\* everything its block enters: no node density, joint prior or evidence term
\* that depends on a member is left out of the solve (discover_affinity,
\* check_evidence_nuts_boundary).
ReductionsAreComplete ==
  /\ TermsAreMarginals
  /\ compiled => \A block \in plan.blocks :
       /\ \A d \in Probabilistic(graph) :
            Reads(d) \cap block # {} => d \in UpdateReads(graph, block)
       /\ graph.joint = {}
       /\ \A i \in DOMAIN graph.terms : graph.terms[i].over \cap block = {}

\* evidence.py _dense_block and assemble_exact: the block's prior and the rows
\* of the observations it reaches.
AssembledDensities(g, block) == block \cup ObservedDescendants(g, block)

\* What the docstring of assemble_exact says: for a model whose latents are all
\* in the block, the number is the model's log evidence -- so every density of
\* the model is in it.
EvidenceCountsEveryDensity ==
  \A block \in plan.blocks :
    (/\ block = Latents(graph)
     /\ graph.terms = << >>
     /\ ObservedDescendants(graph, block) # {})
      => AssembledDensities(graph, block) = Probabilistic(graph)
================================================================================
