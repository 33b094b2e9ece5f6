------------------------------- MODULE Trace -------------------------------
(***************************************************************************)
(* graph/trace.py: declaring a model by running it. trace(model_fn) pushes *)
(* a fresh recorder on one process-global stack, runs the function, pops   *)
(* whatever is on top of that stack, and builds a Graph, which validates   *)
(* itself (graph/graph.py:__check_init__). A primitive called meanwhile    *)
(* records into the recorder on top.                                       *)
(*                                                                         *)
(* Model functions are arbitrary: they may declare anything, keep handles  *)
(* from other traces, call trace again, catch a refusal and go on, or      *)
(* raise. Threads share the stack; with one thread this is nested tracing. *)
(* A primitive takes two steps, since another thread may run between the   *)
(* moment it looks up the recorder and the moment it appends to it. A      *)
(* refused primitive changes nothing, so it is no step.                    *)
(***************************************************************************)
EXTENDS Naturals, FiniteSets, SequencesExt

CONSTANTS
  Threads,
  NodeNames,       \* node and plate names
  Kinds,       \* the node primitives models use
  MaxTraces,   \* bound: calls of trace in a behaviour
  MaxDecl      \* bound: nodes, plates, joint priors and threads in all

ASSUME TraceAssumption ==
  /\ Kinds \subseteq {"const", "det", "sample", "observe"}
  /\ MaxTraces \in Nat /\ MaxDecl \in Nat

VARIABLES
  crew,       \* the threads that trace in this process
  stack,      \* _STACK: indices into recorders
  recorders,  \* every _Recorder made, in order
  frames,     \* the trace(...) calls each thread is inside, outermost first
  call,       \* the primitive each thread is in the middle of, if any
  outcome     \* what became of each trace call, and the graph it returned

traceVars == <<crew, stack, recorders, frames, call, outcome>>

\* A NodeRef or PlateRef: a name and the recorder that minted it.
Handle == [name : NodeNames, owner : Nat]

\* What a primitive declares; `by` remembers the trace whose model declared it
\* (0: the thread is inside none).
Node == [kind : Kinds, name : NodeNames, parents : SUBSET Handle,
         plate : SUBSET Handle, by : Nat]
PlateDecl == [kind : {"plate"}, name : NodeNames, by : Nat]
NoCall == [rec |-> 0]

NoPrior == [over |-> {}, set |-> FALSE]
EmptyRecorder == [nodes |-> <<>>, plates |-> <<>>, prior |-> NoPrior]

\* how a trace call stands; only a returned one has a graph
Status(s) == [status |-> s, graph |-> EmptyRecorder]

Recorders == DOMAIN recorders
Declared(i) == {n.name : n \in ToSet(recorders[i].nodes)}
PlatesOf(i) == {p.name : p \in ToSet(recorders[i].plates)}
Decls == FoldLeft(LAMBDA sum, r : sum + Len(r.nodes) + Len(r.plates) + IF r.prior.set THEN 1 ELSE 0,
                  0, recorders)

Room == Decls + Cardinality(crew) <= MaxDecl

\* the handles a model function may hold: those of every trace so far
NodeRefs  == {[name |-> n, owner |-> i] : n \in NodeNames, i \in Recorders}
Minted    == {h \in NodeRefs : h.name \in Declared(h.owner)}
PlateRefs == {h \in NodeRefs : h.name \in PlatesOf(h.owner)}

Inside(t) == IF frames[t] = <<>> THEN 0 ELSE Last(frames[t])

-----------------------------------------------------------------------------
TraceInit ==
  /\ crew \in (SUBSET Threads) \ {{}}
  /\ stack = <<>>
  /\ recorders = <<>>
  /\ frames = [t \in Threads |-> <<>>]
  /\ call = [t \in Threads |-> NoCall]
  /\ outcome = <<>>

Idle(t) == call[t] = NoCall

\* trace(model_fn): a new recorder goes on top of the stack.
Enter(t) ==
  /\ Idle(t) /\ Len(recorders) < MaxTraces
  /\ recorders' = Append(recorders, EmptyRecorder)
  /\ outcome' = Append(outcome, Status("open"))
  /\ stack' = Append(stack, Len(recorders) + 1)
  /\ frames' = [frames EXCEPT ![t] = Append(@, Len(recorders) + 1)]
  /\ UNCHANGED <<crew, call>>

\* _parent_names and _plate_names: every handle was minted by this recorder.
Owned(refs, i) == \A h \in refs : h.owner = i

\* const, det, sample, observe up to recorder.add's check of the name.
DeclareNode(t) ==
  /\ Idle(t) /\ stack # <<>> /\ Room
  /\ \E kind \in Kinds, name \in NodeNames \ Declared(Last(stack)),
        parents \in SUBSET Minted, plate \in SUBSET PlateRefs :
       /\ kind = "const" => parents = {}
       /\ Owned(parents, Last(stack)) /\ Owned(plate, Last(stack))
       /\ call' = [call EXCEPT ![t] =
            [rec |-> Last(stack),
             decl |-> [kind |-> kind, name |-> name, parents |-> parents,
                       plate |-> plate, by |-> Inside(t)]]]
  /\ UNCHANGED <<crew, stack, recorders, frames, outcome>>

\* plate(name, size) up to its check of the name.
DeclarePlate(t) ==
  /\ Idle(t) /\ stack # <<>> /\ Room
  /\ \E name \in NodeNames \ PlatesOf(Last(stack)) :
       call' = [call EXCEPT ![t] =
         [rec |-> Last(stack),
          decl |-> [kind |-> "plate", name |-> name, by |-> Inside(t)]]]
  /\ UNCHANGED <<crew, stack, recorders, frames, outcome>>

\* recorder.nodes.append or recorder.plates.append
Put(r, decl) == IF decl.kind = "plate"
                  THEN [r EXCEPT !.plates = Append(@, decl)]
                  ELSE [r EXCEPT !.nodes = Append(@, decl)]

\* The declaration lands where it was headed when the primitive began.
Commit(t) ==
  /\ ~Idle(t)
  /\ recorders' = [recorders EXCEPT ![call[t].rec] = Put(@, call[t].decl)]
  /\ call' = [call EXCEPT ![t] = NoCall]
  /\ UNCHANGED <<crew, stack, frames, outcome>>

\* joint_prior(prior): one per graph; over names latents, checked by Graph.
JointPrior(t) ==
  /\ Idle(t) /\ stack # <<>> /\ Room /\ ~recorders[Last(stack)].prior.set
  /\ \E over \in (SUBSET NodeNames) \ {{}} :
       recorders' = [recorders EXCEPT ![Last(stack)].prior =
                       [over |-> over, set |-> TRUE]]
  /\ UNCHANGED <<crew, stack, frames, call, outcome>>

-----------------------------------------------------------------------------
UniqueNames(s) == \A i, j \in DOMAIN s : s[i].name = s[j].name => i = j

\* Declaration order is topological order.
ParentsFirst(nodes) ==
  \A i \in DOMAIN nodes : \A h \in nodes[i].parents :
    \E j \in 1 .. (i - 1) : nodes[j].name = h.name

\* (bug) names are trusted to be unique once recorder.add has checked them
GraphOK_NoDuplicates(r) == ParentsFirst(r.nodes)

\* Graph.__check_init__
GraphOK(r) ==
  /\ UniqueNames(r.plates) /\ UniqueNames(r.nodes) /\ ParentsFirst(r.nodes)
  /\ \A n \in ToSet(r.nodes) :
       \/ n.plate = {}
       \/ \E h \in n.plate : n.plate = {h} /\ \E p \in ToSet(r.plates) : p.name = h.name
  /\ \A x \in r.prior.over : \E n \in ToSet(r.nodes) : n.name = x /\ n.kind = "sample"

\* (bug) the recorder comes off the stack only when the model returns
Leave_OnReturn(t, result) ==
  /\ stack' = IF result.status = "raised" THEN stack ELSE Front(stack)
  /\ frames' = [frames EXCEPT ![t] = Front(@)]
  /\ outcome' = [outcome EXCEPT ![Last(frames[t])] = result]

\* (bug) the oldest recorder is the one that goes
Leave_Oldest(t, result) ==
  /\ stack' = Tail(stack)
  /\ frames' = [frames EXCEPT ![t] = Front(@)]
  /\ outcome' = [outcome EXCEPT ![Last(frames[t])] = result]

\* the finally clause: the top of the stack goes, whoever pushed it
Leave(t, result) ==
  /\ stack' = Front(stack)
  /\ frames' = [frames EXCEPT ![t] = Front(@)]
  /\ outcome' = [outcome EXCEPT ![Last(frames[t])] = result]

\* The model function returned: what its recorder holds now becomes a graph,
\* or the graph refuses itself.
Return(t) ==
  /\ Idle(t) /\ frames[t] # <<>>
  /\ LET r == recorders[Last(frames[t])]
     IN Leave(t, IF GraphOK(r) THEN [status |-> "graph", graph |-> r]
                               ELSE Status("refused"))
  /\ UNCHANGED <<crew, recorders, call>>

\* The model function raised, be it a refused primitive it did not catch.
Raise(t) ==
  /\ Idle(t) /\ frames[t] # <<>>
  /\ Leave(t, Status("raised"))
  /\ UNCHANGED <<crew, recorders, call>>

TraceNext == \E t \in crew :
  Enter(t) \/ DeclareNode(t) \/ DeclarePlate(t) \/ Commit(t) \/ JointPrior(t)
    \/ Return(t) \/ Raise(t)

TraceSpec == TraceInit /\ [][TraceNext]_traceVars

-----------------------------------------------------------------------------
Recorder == [nodes : Seq(Node), plates : Seq(PlateDecl),
             prior : [over : SUBSET NodeNames, set : BOOLEAN]]

Call == {NoCall} \cup [rec : Recorders, decl : Node \cup PlateDecl]

TraceTypeOK ==
  /\ crew \in (SUBSET Threads) \ {{}}
  /\ stack \in Seq(Recorders)
  /\ recorders \in Seq(Recorder)
  /\ frames \in [Threads -> Seq(Recorders)]
  /\ call \in [Threads -> Call]
  /\ outcome \in Seq([status : {"open", "graph", "refused", "raised"},
                      graph : Recorder])
  /\ Len(outcome) = Len(recorders)

\* One thread traces in this process, and this one.
OneThread == \A s, t \in crew : s = t
Self == CHOOSE t \in crew : TRUE

\* Whatever is nested in whatever, and whichever model raises: while one thread
\* traces, a recorder holds only what its own model declared.
NodesStayHome ==
  OneThread => \A i \in Recorders :
    \A d \in ToSet(recorders[i].nodes) \cup ToSet(recorders[i].plates) : d.by = i

\* Every edge of a returned graph resolves, by name, to the one node whose
\* handle was passed: it is this trace's, it is unique and it stands before
\* its child. Two threads on one stack do not break this.
BindsWhatWasPassed ==
  \A i \in DOMAIN outcome :
    LET nodes == outcome[i].graph.nodes
    IN \A k \in DOMAIN nodes : \A h \in nodes[k].parents :
         /\ h.owner = i
         /\ \E j \in 1 .. (k - 1) :
              {m \in DOMAIN nodes : nodes[m].name = h.name} = {j}

\* On one thread, trace gives every caller a private list: the stack, the pops
\* in finally and the owner checks implement PrivateTraces. Of several threads
\* nothing of the kind is said.
Calls  == IF OneThread THEN frames[Self] ELSE <<>>
Own    == IF OneThread THEN [i \in Recorders |-> recorders[i].nodes] ELSE <<>>
Result == IF OneThread THEN [i \in DOMAIN outcome |-> outcome[i].graph.nodes] ELSE <<>>

Private == INSTANCE PrivateTraces WITH calls <- Calls, own <- Own, result <- Result

TracesArePrivate == Private!Spec

\* NodeNames are interchangeable, and so are threads: no declaration treats one of
\* them specially.
TraceSymmetry == Permutations(NodeNames) \cup Permutations(Threads)
=============================================================================
