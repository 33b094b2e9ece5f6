------------------------------ MODULE Predictive ------------------------------
(***************************************************************************)
(* dispatch/predictive.py: draws pushed forward through a graph. Replicated *)
(* data from posterior draws or from one setting, every node drawn from its *)
(* prior, and the log likelihood of every datum. A number drawn is known by *)
(* its stream: the key it was drawn with, how many were drawn with it, and  *)
(* which of them it is. Equal streams are equal noise.                      *)
(***************************************************************************)
EXTENDS Naturals, Sequences, FiniteSets

CONSTANTS
  Positions,   \* bound: nodes of a graph, in declaration order
  PlateSize,   \* members of the one plate
  MaxDraws     \* bound: draws of one call

ASSUME AFewDraws == Positions \in Nat /\ PlateSize \in Nat /\ MaxDraws \in Nat

NodeKinds == {"const", "deterministic", "latent", "observed"}

\* A node: the plates it is in, whether its law already carries them, the axes
\* of one member, and, if observed, which members were seen.
Members(n) == IF n.plated THEN 1 .. PlateSize ELSE 1 .. n.width
NodesOf(k) ==
  {n \in [kind : {k}, plated : BOOLEAN, batched : BOOLEAN, width : {1, 2}, seen : SUBSET (1 .. 2)] :
     /\ n.plated => n.width = 1
     /\ n.batched => n.plated
     /\ n.kind # "observed" => n.seen = Members(n)
     /\ n.seen \subseteq Members(n)
     /\ n.kind \in {"const", "deterministic"} => ~n.plated /\ n.width = 1}

VARIABLES
  forwardGraph,  \* its nodes, in order
  call,          \* "replicate", "forward", "prior", "pointwise"
  wanted,        \* how many draws are asked for, where none are given
  given,         \* how many draws there are of each latent
  position,      \* the node looked at
  streams,       \* of every number drawn
  counted,       \* the data whose log probability is in the table
  drawing        \* "called", "returned", "raised"

predictiveVars == <<forwardGraph, call, wanted, given, position, streams, counted, drawing>>

At(i) == forwardGraph[i]
OfKind(k) == {i \in DOMAIN forwardGraph : At(i).kind = k}

\* _draw_count: every latent has as many draws; forward_draws repeats its one
\* setting, and prior_draws is told.
DrawCounts ==
  CASE call = "prior" -> {wanted}
    [] call = "forward" -> {wanted : l \in DOMAIN given}
    [] OTHER -> {given[l] : l \in DOMAIN given}
Disagree == Cardinality(DrawCounts) # 1
Draws == 1 .. (CHOOSE c \in DrawCounts : TRUE)

\* `sample(key)` of so many numbers.
Sampled(i, draw, key, size, member) ==
  {[node |-> i, draw |-> draw, member |-> m, stream |-> <<key, size, member[m]>>] : m \in DOMAIN member}

\* (bug) the law's own sample, whatever the plate
NodeDraw_Law(i, draw, key) ==
  IF At(i).plated /\ ~At(i).batched
  THEN Sampled(i, draw, key, 1, [m \in Members(At(i)) |-> 1])
  ELSE Sampled(i, draw, key, Cardinality(Members(At(i))), [m \in Members(At(i)) |-> m])

\* _node_draw: a law that does not carry the plate is drawn once per member.
NodeDraw(i, draw, key) ==
  Sampled(i, draw, key, Cardinality(Members(At(i))), [m \in Members(At(i)) |-> m])

\* evaluate needs a value for every latent.
Covered == OfKind("latent") \subseteq DOMAIN given

Refuses ==
  \/ Disagree \/ (call # "prior" /\ ~Covered)
  \/ call \in {"prior", "forward"} /\ wanted = 0

RefuseDraws ==
  /\ drawing = "called" /\ Refuses
  /\ drawing' = "raised"
  /\ UNCHANGED <<forwardGraph, call, wanted, given, position, streams, counted>>

\* replicated_draws, and forward_draws through it: one key for every draw, with
\* which every observed node of it is sampled.
Replicate ==
  /\ drawing = "called" /\ ~Refuses /\ call \in {"replicate", "forward"}
  /\ streams' = UNION {Sampled(i, d, <<d>>, Cardinality(Members(At(i))), [m \in Members(At(i)) |-> m]) :
                         i \in OfKind("observed"), d \in Draws}
  /\ drawing' = "returned"
  /\ UNCHANGED <<forwardGraph, call, wanted, given, position, counted>>

\* prior_draws: one key for every draw, split once for every node. A node that
\* is not drawn leaves its key unused.
PriorNode ==
  /\ drawing = "called" /\ ~Refuses /\ call = "prior"
  /\ position' = position + 1
  /\ streams' = streams \cup
       (IF At(position).kind \in {"latent", "observed"}
        THEN UNION {NodeDraw(position, d, <<d, position>>) : d \in Draws}
        ELSE {})
  /\ drawing' = IF position = Len(forwardGraph) THEN "returned" ELSE drawing
  /\ UNCHANGED <<forwardGraph, call, wanted, given, counted>>

\* (bug) a datum that was not seen has a log probability
Unmasked_All(i) == Members(At(i))

\* _masked_log_prob: a datum that was not seen counts zero.
Unmasked(i) == At(i).seen

\* pointwise_log_likelihood.
PointwiseLogLikelihood ==
  /\ drawing = "called" /\ ~Refuses /\ call = "pointwise"
  /\ counted' = {d \in OfKind("observed") \X (1 .. 2) : d[2] \in Unmasked(d[1])}
  /\ drawing' = "returned"
  /\ UNCHANGED <<forwardGraph, call, wanted, given, position, streams>>

-----------------------------------------------------------------------------
PredictiveInit ==
  /\ forwardGraph \in [1 .. Positions -> UNION {NodesOf(k) : k \in NodeKinds}]
  /\ call \in {"replicate", "forward", "prior", "pointwise"}
  /\ given \in UNION {[s -> 1 .. MaxDraws] : s \in SUBSET OfKind("latent")}
  /\ IF call \in {"prior", "forward"} THEN wanted \in 0 .. MaxDraws /\ \A l \in DOMAIN given : given[l] = 1
     ELSE wanted = 0
  /\ call = "prior" => given = <<>>
  /\ call # "pointwise" => \A i \in DOMAIN forwardGraph : At(i).seen = Members(At(i))
  /\ position = 1 /\ streams = {} /\ counted = {} /\ drawing = "called"

PredictiveNext == RefuseDraws \/ Replicate \/ PriorNode \/ PointwiseLogLikelihood

PredictiveSpec == PredictiveInit /\ [][PredictiveNext]_predictiveVars

-----------------------------------------------------------------------------
\* What is drawn from independent laws is drawn from streams of its own.
SharesNoStream ==
  \A a, b \in streams : a.stream = b.stream => a = b

\* A draw from the priors is a draw from their product: two nodes, two members
\* of a plate, or two draws are never the same noise, and the pointwise table
\* has every datum the joint density has and no other.
PriorDrawsAreIndependent ==
  /\ call = "prior" => SharesNoStream
  /\ call = "pointwise" /\ drawing = "returned" =>
       counted = {d \in OfKind("observed") \X (1 .. 2) : d[2] \in At(d[1]).seen}

\* "density and generator are one object": a replicated data set is one the
\* joint density of the data describes, in which two nodes are independent
\* given the latents.
ReplicatesAreIndependent ==
  call \in {"replicate", "forward"} => SharesNoStream
=============================================================================
