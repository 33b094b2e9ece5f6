---------------------------- MODULE Trace_proofs ----------------------------
(***************************************************************************)
(* What is proved about tracing for any set of names, threads and models.  *)
(***************************************************************************)
EXTENDS Trace, SequenceTheorems, TLAPS

\* Where a finished primitive lands: a recorder stays a recorder.
LEMMA PutType ==
  ASSUME NEW r \in Recorder, NEW decl \in Node \cup PlateDecl
  PROVE  Put(r, decl) \in Recorder
<1>1. CASE decl.kind = "plate"
  <2>1. decl \in PlateDecl
    BY <1>1, TraceAssumption DEF Node
  <2>2. r.plates \in Seq(PlateDecl) /\ r.nodes \in Seq(Node)
    BY DEF Recorder
  <2>3. Append(r.plates, decl) \in Seq(PlateDecl)
    BY <2>1, <2>2
  <2>4. Put(r, decl) = [r EXCEPT !.plates = Append(r.plates, decl)]
    BY <1>1 DEF Put
  <2> QED BY <2>3, <2>4 DEF Recorder
<1>2. CASE decl.kind # "plate"
  <2>1. decl \in Node
    BY <1>2 DEF PlateDecl
  <2>2. Append(r.nodes, decl) \in Seq(Node)
    BY <2>1 DEF Recorder
  <2>3. Put(r, decl) = [r EXCEPT !.nodes = Append(r.nodes, decl)]
    BY <1>2 DEF Put
  <2> QED BY <2>2, <2>3 DEF Recorder
<1> QED BY <1>1, <1>2

\* A thread in the middle of a primitive holds a declaration for a recorder.
LEMMA CallType ==
  ASSUME TraceTypeOK, NEW t \in Threads, ~Idle(t)
  PROVE  call[t].rec \in Recorders /\ call[t].decl \in Node \cup PlateDecl
BY DEF TraceTypeOK, Call, Idle

\* The innermost frame of a thread is one of the recorders made so far.
LEMMA InnermostFrame ==
  ASSUME TraceTypeOK, NEW t \in Threads, frames[t] # <<>>
  PROVE  /\ Last(frames[t]) \in Recorders
         /\ recorders[Last(frames[t])] \in Recorder
         /\ Last(frames[t]) \in 1 .. Len(outcome)
<1>1. frames[t] \in Seq(Recorders) /\ recorders \in Seq(Recorder)
  BY DEF TraceTypeOK
<1>2. Last(frames[t]) \in Recorders
  BY <1>1 DEF Last
<1>3. Recorders = 1 .. Len(recorders)
  BY <1>1 DEF Recorders
<1> QED BY <1>1, <1>2, <1>3 DEF TraceTypeOK

\* So is the recorder on top of the stack.
LEMMA TopOfStack ==
  ASSUME TraceTypeOK, stack # <<>>
  PROVE  Last(stack) \in Recorders /\ recorders[Last(stack)] \in Recorder
<1>1. stack \in Seq(Recorders) /\ recorders \in Seq(Recorder)
  BY DEF TraceTypeOK
<1> QED BY <1>1 DEF Last, Recorders

\* Changing one recorder neither adds one nor moves the others.
LEMMA RecorderUpdate ==
  ASSUME TraceTypeOK, NEW i \in Recorders, NEW r \in Recorder,
         recorders' = [recorders EXCEPT ![i] = r]
  PROVE  recorders' \in Seq(Recorder) /\ Recorders' = Recorders
         /\ Len(recorders') = Len(recorders)
<1>1. recorders \in Seq(Recorder) /\ i \in 1 .. Len(recorders)
  BY DEF TraceTypeOK, Recorders
<1> QED BY <1>1, ExceptSeq DEF Recorders

\* Leaving a context keeps the types.
LEMMA LeaveType ==
  ASSUME TraceTypeOK, NEW t \in Threads, frames[t] # <<>>, UNCHANGED <<crew, recorders, call>>,
         NEW result \in [status : {"open", "graph", "refused", "raised"},
                         graph : Recorder],
         Leave(t, result)
  PROVE  TraceTypeOK'
<1>1. stack' \in Seq(Recorders)
  BY DEF TraceTypeOK, Leave, Front
<1>2. Front(frames[t]) \in Seq(Recorders)
  BY DEF TraceTypeOK, Front
<1>3. frames' \in [Threads -> Seq(Recorders)]
  BY <1>2 DEF TraceTypeOK, Leave
<1>4. /\ outcome' \in Seq([status : {"open", "graph", "refused", "raised"},
                           graph : Recorder])
      /\ Len(outcome') = Len(outcome)
  BY InnermostFrame, ExceptSeq DEF TraceTypeOK, Leave
<1> QED BY <1>1, <1>3, <1>4 DEF TraceTypeOK, Recorders, Call

\* A fresh recorder has the type of one.
LEMMA EmptyRecorderType == EmptyRecorder \in Recorder
BY DEF EmptyRecorder, Recorder, NoPrior

\* Every reachable state has the types tracing works with.
THEOREM Typing == TraceSpec => []TraceTypeOK
<1>1. TraceInit => TraceTypeOK
  BY DEF TraceInit, TraceTypeOK, Call, Recorders
<1>2. TraceTypeOK /\ [TraceNext]_traceVars => TraceTypeOK'
  <2> SUFFICES ASSUME TraceTypeOK, [TraceNext]_traceVars PROVE TraceTypeOK'
    OBVIOUS
  <2>1. ASSUME NEW t \in Threads, Enter(t) PROVE TraceTypeOK'
    <3>1. recorders \in Seq(Recorder) /\ Len(outcome) = Len(recorders)
          /\ Len(recorders) \in Nat
      BY DEF TraceTypeOK
    <3>2. recorders' \in Seq(Recorder) /\ Len(recorders') = Len(recorders) + 1
      BY <2>1, <3>1, EmptyRecorderType DEF Enter
    <3>3. Recorders \subseteq Recorders' /\ Len(recorders) + 1 \in Recorders'
      BY <3>1, <3>2 DEF Recorders
    <3>4. Seq(Recorders) \subseteq Seq(Recorders')
      BY <3>3, SeqMonotonic
    <3>5. stack' \in Seq(Recorders')
      BY <2>1, <3>3, <3>4 DEF Enter, TraceTypeOK
    <3>6. frames' \in [Threads -> Seq(Recorders')]
      BY <2>1, <3>3, <3>4 DEF Enter, TraceTypeOK
    <3>7. call' \in [Threads -> Call']
      BY <2>1, <3>3 DEF Enter, TraceTypeOK, Call
    <3>8. /\ outcome' \in Seq([status : {"open", "graph", "refused", "raised"},
                               graph : Recorder])
          /\ Len(outcome') = Len(outcome) + 1
      <4>1. Status("open") \in [status : {"open", "graph", "refused", "raised"},
                                graph : Recorder]
        BY EmptyRecorderType DEF Status
      <4> QED BY <2>1, <4>1 DEF Enter, TraceTypeOK
    <3>9. crew' \in (SUBSET Threads) \ {{}}
      BY <2>1 DEF Enter, TraceTypeOK
    <3> QED BY <3>1, <3>2, <3>5, <3>6, <3>7, <3>8, <3>9 DEF TraceTypeOK
  <2>2. ASSUME NEW t \in Threads, DeclareNode(t) PROVE TraceTypeOK'
    <3>1. PICK kind \in Kinds, name \in NodeNames, parents \in SUBSET Minted,
               plate \in SUBSET PlateRefs :
            call' = [call EXCEPT ![t] =
              [rec |-> Last(stack),
               decl |-> [kind |-> kind, name |-> name, parents |-> parents,
                         plate |-> plate, by |-> Inside(t)]]]
      BY <2>2 DEF DeclareNode
    <3>2. NodeRefs \subseteq Handle
      BY DEF NodeRefs, Handle, Recorders, TraceTypeOK
    <3>3. Inside(t) \in Nat
      BY InnermostFrame DEF Inside, Recorders, TraceTypeOK
    <3>4. [kind |-> kind, name |-> name, parents |-> parents,
           plate |-> plate, by |-> Inside(t)] \in Node
      BY <3>2, <3>3 DEF Node, Minted, PlateRefs
    <3>5. call' \in [Threads -> Call]
      BY <2>2, <3>1, <3>4, TopOfStack DEF DeclareNode, TraceTypeOK, Call
    <3> QED BY <2>2, <3>5 DEF DeclareNode, TraceTypeOK, Call, Recorders
  <2>3. ASSUME NEW t \in Threads, DeclarePlate(t) PROVE TraceTypeOK'
    <3>1. Inside(t) \in Nat
      BY InnermostFrame DEF Inside, Recorders, TraceTypeOK
    <3>2. \A name \in NodeNames : [kind |-> "plate", name |-> name, by |-> Inside(t)] \in PlateDecl
      BY <3>1 DEF PlateDecl
    <3>3. call' \in [Threads -> Call]
      BY <2>3, <3>2, TopOfStack DEF DeclarePlate, TraceTypeOK, Call
    <3> QED BY <2>3, <3>3 DEF DeclarePlate, TraceTypeOK, Call, Recorders
  <2>4. ASSUME NEW t \in Threads, Commit(t) PROVE TraceTypeOK'
    <3>1. call[t].rec \in Recorders /\ call[t].decl \in Node \cup PlateDecl
      BY <2>4, CallType DEF Commit
    <3>2. recorders[call[t].rec] \in Recorder
      BY <3>1 DEF TraceTypeOK, Recorders
    <3>3. recorders' \in Seq(Recorder) /\ Recorders' = Recorders
          /\ Len(recorders') = Len(recorders)
      BY <2>4, <3>1, <3>2, PutType, RecorderUpdate DEF Commit
    <3>4. call' \in [Threads -> Call]
      BY <2>4 DEF Commit, TraceTypeOK, Call
    <3> QED BY <2>4, <3>3, <3>4 DEF Commit, TraceTypeOK, Call
  <2>5. ASSUME NEW t \in Threads, JointPrior(t) PROVE TraceTypeOK'
    <3>1. PICK over \in SUBSET NodeNames :
            recorders' = [recorders EXCEPT ![Last(stack)].prior =
                            [over |-> over, set |-> TRUE]]
      BY <2>5 DEF JointPrior
    <3>2. [recorders[Last(stack)] EXCEPT !.prior = [over |-> over, set |-> TRUE]] \in Recorder
      BY <2>5, TopOfStack DEF Recorder, JointPrior
    <3>3. recorders' \in Seq(Recorder) /\ Recorders' = Recorders
          /\ Len(recorders') = Len(recorders)
      BY <2>5, <3>1, <3>2, TopOfStack, RecorderUpdate DEF JointPrior
    <3> QED BY <2>5, <3>3 DEF JointPrior, TraceTypeOK, Call
  <2>6. ASSUME NEW t \in Threads, Return(t) PROVE TraceTypeOK'
    <3>1. Status("refused") \in [status : {"open", "graph", "refused", "raised"},
                                 graph : Recorder]
      BY EmptyRecorderType DEF Status
    <3> QED BY <2>6, <3>1, InnermostFrame, LeaveType DEF Return
  <2>7. ASSUME NEW t \in Threads, Raise(t) PROVE TraceTypeOK'
    <3>1. Status("raised") \in [status : {"open", "graph", "refused", "raised"},
                                graph : Recorder]
      BY EmptyRecorderType DEF Status
    <3> QED BY <2>7, <3>1, LeaveType DEF Raise
  <2>8. CASE UNCHANGED traceVars
    BY <2>8 DEF traceVars, TraceTypeOK, Recorders, Call
  <2>9. crew \subseteq Threads
    BY DEF TraceTypeOK
  <2> QED BY <2>1, <2>2, <2>3, <2>4, <2>5, <2>6, <2>7, <2>8, <2>9 DEF TraceNext
<1> QED BY <1>1, <1>2, PTL DEF TraceSpec

-----------------------------------------------------------------------------
\* Every parent in a list of nodes is a handle minted by recorder i.
HomeParents(nodes, i) ==
  \A k \in DOMAIN nodes : \A h \in nodes[k].parents : h.owner = i

\* What makes the binding inductive: recorders, primitives under way and
\* returned graphs only ever hold handles of their own trace.
BindsInv ==
  /\ \A i \in Recorders : HomeParents(recorders[i].nodes, i)
  /\ \A t \in Threads : ~Idle(t) /\ call[t].decl.kind # "plate" =>
       \A h \in call[t].decl.parents : h.owner = call[t].rec
  /\ \A i \in DOMAIN outcome :
       /\ HomeParents(outcome[i].graph.nodes, i)
       /\ UniqueNames(outcome[i].graph.nodes)
       /\ ParentsFirst(outcome[i].graph.nodes)

\* An outcome has its type.
LEMMA OutcomeType ==
  ASSUME TraceTypeOK, NEW i \in DOMAIN outcome
  PROVE  outcome[i].graph.nodes \in Seq(Node)
<1> DEFINE Outcome == [status : {"open", "graph", "refused", "raised"}, graph : Recorder]
<1>1. outcome \in Seq(Outcome)
  BY DEF TraceTypeOK
<1> HIDE DEF Outcome
<1>2. outcome[i] \in Outcome
  BY <1>1
<1> QED BY <1>2 DEF Outcome, Recorder

\* A name that occurs once and is declared earlier resolves to that node.
LEMMA BindsInvImplies == TraceTypeOK /\ BindsInv => BindsWhatWasPassed
<1> SUFFICES ASSUME TraceTypeOK, BindsInv, NEW i \in DOMAIN outcome,
                    NEW k \in DOMAIN outcome[i].graph.nodes,
                    NEW h \in outcome[i].graph.nodes[k].parents
             PROVE  /\ h.owner = i
                    /\ \E j \in 1 .. (k - 1) :
                         {m \in DOMAIN outcome[i].graph.nodes :
                            outcome[i].graph.nodes[m].name = h.name} = {j}
  BY DEF BindsWhatWasPassed
<1> DEFINE nodes == outcome[i].graph.nodes
<1>1. HomeParents(nodes, i) /\ UniqueNames(nodes) /\ ParentsFirst(nodes)
  BY DEF BindsInv
<1>2. nodes \in Seq(Node)
  BY OutcomeType
<1>3. PICK j \in 1 .. (k - 1) : nodes[j].name = h.name
  BY <1>1 DEF ParentsFirst
<1>4. j \in DOMAIN nodes
  BY <1>2, <1>3
<1>5. {m \in DOMAIN nodes : nodes[m].name = h.name} = {j}
  BY <1>1, <1>3, <1>4 DEF UniqueNames
<1> QED BY <1>1, <1>3, <1>5 DEF HomeParents

\* The graph of a call that returned nothing is empty, and so binds nothing.
LEMMA NoGraphBinds ==
  ASSUME NEW s, NEW i
  PROVE  /\ HomeParents(Status(s).graph.nodes, i)
         /\ UniqueNames(Status(s).graph.nodes)
         /\ ParentsFirst(Status(s).graph.nodes)
BY DEF HomeParents, UniqueNames, ParentsFirst, Status, EmptyRecorder

\* Ending a call adds one outcome; if that binds, all of them do.
LEMMA LeaveBinds ==
  ASSUME TraceTypeOK, BindsInv, NEW t \in Threads, frames[t] # <<>>,
         UNCHANGED <<crew, recorders, call>>, NEW result, Leave(t, result),
         HomeParents(result.graph.nodes, Last(frames[t])),
         UniqueNames(result.graph.nodes), ParentsFirst(result.graph.nodes)
  PROVE  BindsInv'
<1>1. \A i \in DOMAIN outcome' :
        /\ HomeParents(outcome'[i].graph.nodes, i)
        /\ UniqueNames(outcome'[i].graph.nodes)
        /\ ParentsFirst(outcome'[i].graph.nodes)
  BY DEF BindsInv, Leave, TraceTypeOK
<1> QED BY <1>1 DEF BindsInv, Recorders, Idle, HomeParents, UniqueNames, ParentsFirst

\* Every step keeps what is bound.
LEMMA BindsInvStep == TraceTypeOK /\ BindsInv /\ [TraceNext]_traceVars => BindsInv'
<1> SUFFICES ASSUME TraceTypeOK, BindsInv, [TraceNext]_traceVars PROVE BindsInv'
  OBVIOUS
<1>1. ASSUME NEW t \in Threads, Enter(t) PROVE BindsInv'
  <2>1. /\ Recorders' = Recorders \cup {Len(recorders) + 1}
        /\ \A i \in Recorders : recorders'[i] = recorders[i]
        /\ recorders'[Len(recorders) + 1] = EmptyRecorder
    BY <1>1 DEF Enter, TraceTypeOK, Recorders
  <2>2. /\ DOMAIN outcome' = DOMAIN outcome \cup {Len(outcome) + 1}
        /\ \A i \in DOMAIN outcome : outcome'[i] = outcome[i]
        /\ outcome'[Len(outcome) + 1] = Status("open")
    BY <1>1 DEF Enter, TraceTypeOK
  <2>3. \A i \in Recorders' : HomeParents(recorders'[i].nodes, i)
    BY <2>1 DEF BindsInv, HomeParents, EmptyRecorder
  <2>4. \A i \in DOMAIN outcome' :
          /\ HomeParents(outcome'[i].graph.nodes, i)
          /\ UniqueNames(outcome'[i].graph.nodes)
          /\ ParentsFirst(outcome'[i].graph.nodes)
    BY <2>2, NoGraphBinds DEF BindsInv
  <2> QED BY <1>1, <2>3, <2>4 DEF BindsInv, Enter, Idle, HomeParents, UniqueNames, ParentsFirst
<1>2. ASSUME NEW t \in Threads, DeclareNode(t) PROVE BindsInv'
  <2>1. PICK kind \in Kinds, name \in NodeNames, parents \in SUBSET Minted,
             plate \in SUBSET PlateRefs :
          /\ Owned(parents, Last(stack))
          /\ call' = [call EXCEPT ![t] =
               [rec |-> Last(stack),
                decl |-> [kind |-> kind, name |-> name, parents |-> parents,
                          plate |-> plate, by |-> Inside(t)]]]
    BY <1>2 DEF DeclareNode
  <2>2. \A s \in Threads : ~Idle(s)' /\ call'[s].decl.kind # "plate" =>
          \A h \in call'[s].decl.parents : h.owner = call'[s].rec
    BY <2>1 DEF BindsInv, TraceTypeOK, Owned, Idle
  <2> QED BY <1>2, <2>2 DEF BindsInv, DeclareNode, Recorders, HomeParents, UniqueNames, ParentsFirst
<1>3. ASSUME NEW t \in Threads, DeclarePlate(t) PROVE BindsInv'
  <2>1. \A s \in Threads : ~Idle(s)' /\ call'[s].decl.kind # "plate" =>
          \A h \in call'[s].decl.parents : h.owner = call'[s].rec
    BY <1>3 DEF BindsInv, TraceTypeOK, DeclarePlate, Idle
  <2> QED BY <1>3, <2>1 DEF BindsInv, DeclarePlate, Recorders, HomeParents, UniqueNames, ParentsFirst
<1>4. ASSUME NEW t \in Threads, Commit(t) PROVE BindsInv'
  <2> DEFINE c == call[t].rec
             decl == call[t].decl
  <2>1. c \in Recorders /\ recorders[c] \in Recorder /\ decl \in Node \cup PlateDecl
    BY <1>4, CallType DEF Commit, TraceTypeOK, Recorders
  <2>2. Recorders' = Recorders /\ recorders' = [recorders EXCEPT ![c] = Put(recorders[c], decl)]
    BY <1>4, <2>1, PutType, RecorderUpdate DEF Commit
  <2>3. HomeParents(Put(recorders[c], decl).nodes, c)
    <3>1. CASE decl.kind = "plate"
      BY <3>1, <2>1 DEF BindsInv, Put, Recorder
    <3>2. CASE decl.kind # "plate"
      <4>1. \A h \in decl.parents : h.owner = c
        BY <1>4, <3>2 DEF BindsInv, Commit
      <4>2. recorders[c].nodes \in Seq(Node) /\ decl \in Node
        BY <2>1, <3>2 DEF Recorder, PlateDecl
      <4>3. Put(recorders[c], decl).nodes = Append(recorders[c].nodes, decl)
        BY <2>1, <3>2 DEF Put, Recorder
      <4> QED BY <2>1, <4>1, <4>2, <4>3 DEF BindsInv, HomeParents
    <3> QED BY <3>1, <3>2
  <2>4. \A i \in Recorders' : HomeParents(recorders'[i].nodes, i)
    BY <2>2, <2>3 DEF BindsInv, Recorders
  <2>5. \A s \in Threads : ~Idle(s)' /\ call'[s].decl.kind # "plate" =>
          \A h \in call'[s].decl.parents : h.owner = call'[s].rec
    BY <1>4 DEF BindsInv, TraceTypeOK, Commit, Idle
  <2> QED BY <1>4, <2>4, <2>5 DEF BindsInv, Commit, HomeParents, UniqueNames, ParentsFirst
<1>5. ASSUME NEW t \in Threads, JointPrior(t) PROVE BindsInv'
  <2>1. PICK over \in SUBSET NodeNames :
          recorders' = [recorders EXCEPT ![Last(stack)].prior =
                          [over |-> over, set |-> TRUE]]
    BY <1>5 DEF JointPrior
  <2>2. Recorders' = Recorders /\ \A i \in Recorders : recorders'[i].nodes = recorders[i].nodes
    BY <1>5, <2>1, TopOfStack DEF JointPrior, TraceTypeOK, Recorders, Recorder
  <2>3. \A i \in Recorders' : HomeParents(recorders'[i].nodes, i)
    BY <2>2 DEF BindsInv
  <2> QED BY <1>5, <2>3 DEF BindsInv, JointPrior, Idle, HomeParents, UniqueNames, ParentsFirst
<1>6. ASSUME NEW t \in Threads, Return(t) PROVE BindsInv'
  <2> DEFINE r == recorders[Last(frames[t])]
  <2>1. HomeParents(r.nodes, Last(frames[t]))
    BY <1>6, InnermostFrame DEF Return, BindsInv
  <2>2. CASE GraphOK(r)
    BY <1>6, <2>1, <2>2, LeaveBinds DEF Return, GraphOK
  <2>3. CASE ~GraphOK(r)
    BY <1>6, <2>3, LeaveBinds, NoGraphBinds DEF Return
  <2> QED BY <2>2, <2>3
<1>7. ASSUME NEW t \in Threads, Raise(t) PROVE BindsInv'
  BY <1>7, LeaveBinds, NoGraphBinds DEF Raise
<1>8. CASE UNCHANGED traceVars
  BY <1>8 DEF traceVars, BindsInv, Recorders, Idle, HomeParents, UniqueNames, ParentsFirst
<1>9. crew \subseteq Threads
  BY DEF TraceTypeOK
<1> QED BY <1>1, <1>2, <1>3, <1>4, <1>5, <1>6, <1>7, <1>8, <1>9 DEF TraceNext

\* For any number of threads sharing the stack: every edge of every returned
\* graph is bound to the node whose handle the model passed.
THEOREM EdgesBind == TraceSpec => []BindsWhatWasPassed
<1>1. TraceInit => BindsInv
  BY DEF TraceInit, BindsInv, Idle, Recorders
<1> QED BY <1>1, Typing, BindsInvStep, BindsInvImplies, PTL DEF TraceSpec

-----------------------------------------------------------------------------
\* Who traces does not change.
LEMMA CrewSettled ==
  ASSUME [TraceNext]_traceVars
  PROVE  UNCHANGED crew /\ OneThread' = OneThread /\ Self' = Self
<1>1. UNCHANGED crew
  BY DEF TraceNext, Enter, DeclareNode, DeclarePlate, Commit, JointPrior, Return, Raise, traceVars
<1> QED BY <1>1 DEF OneThread, Self

\* What makes home declarations inductive: on one thread the stack is that
\* thread's own nesting, so the recorder on top is always its innermost one.
HomeInv ==
  /\ \A t \in crew : stack = frames[t]
  /\ \A t \in crew : ~Idle(t) => call[t].decl.by = call[t].rec
  /\ \A i \in Recorders :
       /\ \A k \in DOMAIN recorders[i].nodes : recorders[i].nodes[k].by = i
       /\ \A k \in DOMAIN recorders[i].plates : recorders[i].plates[k].by = i

\* Nodes at home stay there.
LEMMA HomeInvImplies == TraceTypeOK /\ (OneThread => HomeInv) => NodesStayHome
<1> SUFFICES ASSUME TraceTypeOK, HomeInv, NEW i \in Recorders,
                    NEW d \in ToSet(recorders[i].nodes) \cup ToSet(recorders[i].plates)
             PROVE  d.by = i
  BY DEF NodesStayHome
<1> QED BY DEF HomeInv, ToSet

\* Every step keeps the nodes at home.
LEMMA HomeInvStep ==
  ASSUME OneThread, TraceTypeOK, HomeInv, [TraceNext]_traceVars PROVE HomeInv'
<1>1. ASSUME NEW t \in crew, Enter(t) PROVE HomeInv'
  <2>1. /\ Recorders' = Recorders \cup {Len(recorders) + 1}
        /\ \A i \in Recorders : recorders'[i] = recorders[i]
        /\ recorders'[Len(recorders) + 1] = EmptyRecorder
    BY <1>1 DEF Enter, TraceTypeOK, Recorders
  <2>2. \A s \in crew : stack' = frames'[s]
    BY <1>1 DEF Enter, HomeInv, OneThread, TraceTypeOK
  <2>3. \A i \in Recorders' :
          /\ \A k \in DOMAIN recorders'[i].nodes : recorders'[i].nodes[k].by = i
          /\ \A k \in DOMAIN recorders'[i].plates : recorders'[i].plates[k].by = i
    <3>1. EmptyRecorder.nodes = <<>> /\ EmptyRecorder.plates = <<>>
      BY DEF EmptyRecorder
    <3> QED BY <2>1, <3>1 DEF HomeInv
  <2>4. \A s \in crew : ~Idle(s)' => call'[s].decl.by = call'[s].rec
    BY <1>1 DEF HomeInv, Enter, Idle
  <2>5. UNCHANGED crew
    BY <1>1 DEF Enter
  <2> QED BY <2>2, <2>3, <2>4, <2>5 DEF HomeInv
<1>2. ASSUME NEW t \in crew, DeclareNode(t) PROVE HomeInv'
  <2>1. Inside(t) = Last(stack)
    BY <1>2 DEF DeclareNode, HomeInv, Inside
  <2>2. \A s \in crew : ~Idle(s)' => call'[s].decl.by = call'[s].rec
    BY <1>2, <2>1 DEF DeclareNode, HomeInv, TraceTypeOK, OneThread, Idle
  <2> QED BY <1>2, <2>2 DEF HomeInv, DeclareNode, Recorders
<1>3. ASSUME NEW t \in crew, DeclarePlate(t) PROVE HomeInv'
  <2>1. Inside(t) = Last(stack)
    BY <1>3 DEF DeclarePlate, HomeInv, Inside
  <2>2. \A s \in crew : ~Idle(s)' => call'[s].decl.by = call'[s].rec
    BY <1>3, <2>1 DEF DeclarePlate, HomeInv, TraceTypeOK, OneThread, Idle
  <2> QED BY <1>3, <2>2 DEF HomeInv, DeclarePlate, Recorders
<1>4. ASSUME NEW t \in crew, Commit(t) PROVE HomeInv'
  <2> DEFINE c == call[t].rec
             decl == call[t].decl
             r == Put(recorders[c], decl)
  <2>1. c \in Recorders /\ recorders[c] \in Recorder /\ decl \in Node \cup PlateDecl
    BY <1>4, CallType DEF Commit, TraceTypeOK, Recorders
  <2>2. Recorders' = Recorders /\ recorders' = [recorders EXCEPT ![c] = r]
    BY <1>4, <2>1, PutType, RecorderUpdate DEF Commit
  <2>3. decl.by = c
    BY <1>4 DEF HomeInv, Commit
  <2> HIDE DEF c, decl, r
  <2>4. /\ \A k \in DOMAIN r.nodes : r.nodes[k].by = c
        /\ \A k \in DOMAIN r.plates : r.plates[k].by = c
    <3>1. recorders[c].nodes \in Seq(Node) /\ recorders[c].plates \in Seq(PlateDecl)
      BY <2>1 DEF Recorder
    <3>2. /\ \A k \in DOMAIN recorders[c].nodes : recorders[c].nodes[k].by = c
          /\ \A k \in DOMAIN recorders[c].plates : recorders[c].plates[k].by = c
      BY <2>1 DEF HomeInv
    <3>3. CASE r.nodes = recorders[c].nodes /\ r.plates = Append(recorders[c].plates, decl)
      BY <2>3, <3>1, <3>2, <3>3
    <3>4. CASE r.plates = recorders[c].plates /\ r.nodes = Append(recorders[c].nodes, decl)
      BY <2>3, <3>1, <3>2, <3>4
    <3>5. \/ r.nodes = recorders[c].nodes /\ r.plates = Append(recorders[c].plates, decl)
          \/ r.plates = recorders[c].plates /\ r.nodes = Append(recorders[c].nodes, decl)
      BY <2>1 DEF r, Put, Recorder
    <3> QED BY <3>3, <3>4, <3>5
  <2>5. \A i \in Recorders' :
          /\ \A k \in DOMAIN recorders'[i].nodes : recorders'[i].nodes[k].by = i
          /\ \A k \in DOMAIN recorders'[i].plates : recorders'[i].plates[k].by = i
    BY <2>2, <2>4 DEF HomeInv, Recorders
  <2> QED BY <1>4, <2>5 DEF HomeInv, Commit, TraceTypeOK, Idle
<1>5. ASSUME NEW t \in crew, JointPrior(t) PROVE HomeInv'
  <2>1. PICK over \in SUBSET NodeNames :
          recorders' = [recorders EXCEPT ![Last(stack)].prior =
                          [over |-> over, set |-> TRUE]]
    BY <1>5 DEF JointPrior
  <2>2. /\ Recorders' = Recorders
        /\ \A i \in Recorders : /\ recorders'[i].nodes = recorders[i].nodes
                                /\ recorders'[i].plates = recorders[i].plates
    BY <1>5, <2>1, TopOfStack DEF JointPrior, TraceTypeOK, Recorders, Recorder
  <2> QED BY <1>5, <2>2 DEF HomeInv, JointPrior, Idle
<1>6. ASSUME NEW t \in crew, NEW result, Leave(t, result), UNCHANGED <<crew, recorders, call>>
      PROVE  HomeInv'
  <2>1. \A s \in crew : stack' = frames'[s]
    BY <1>6 DEF Leave, HomeInv, OneThread, TraceTypeOK
  <2> QED BY <1>6, <2>1 DEF HomeInv, Recorders, Idle
<1>7. ASSUME NEW t \in crew, Return(t) \/ Raise(t) PROVE HomeInv'
  BY <1>6, <1>7 DEF Return, Raise
<1>8. CASE UNCHANGED traceVars
  BY <1>8 DEF traceVars, HomeInv, Recorders, Idle
<1> QED BY <1>1, <1>2, <1>3, <1>4, <1>5, <1>7, <1>8 DEF TraceNext

\* On one thread, whatever the nesting and whichever model raises, a recorder
\* holds only what its own model declared.
THEOREM DeclarationsStayHome == TraceSpec => []NodesStayHome
<1>1. TraceInit => (OneThread => HomeInv)
  BY DEF TraceInit, HomeInv, Idle, Recorders
<1>2. TraceTypeOK /\ (OneThread => HomeInv) /\ [TraceNext]_traceVars => (OneThread => HomeInv)'
  BY CrewSettled, HomeInvStep
<1> QED BY <1>1, <1>2, Typing, HomeInvImplies, PTL DEF TraceSpec

-----------------------------------------------------------------------------
\* What makes the lists private: the one thread there is cannot leave a trace in
\* the middle of a primitive, so what it declares lands in its innermost list.
CallInv == \A t \in crew : ~Idle(t) => frames[t] # <<>> /\ call[t].rec = Last(frames[t])

\* The lists that PrivateTraces speaks of are those of the one thread.
LEMMA ListsOfSelf ==
  ASSUME OneThread
  PROVE  /\ Calls = frames[Self]
         /\ Own = [i \in Recorders |-> recorders[i].nodes]
         /\ Result = [i \in DOMAIN outcome |-> outcome[i].graph.nodes]
BY DEF Calls, Own, Result

LEMMA ListsOfSelfNext ==
  ASSUME OneThread, UNCHANGED crew
  PROVE  /\ Calls' = frames'[Self]
         /\ Own' = [i \in Recorders' |-> recorders'[i].nodes]
         /\ Result' = [i \in DOMAIN outcome' |-> outcome'[i].graph.nodes]
<1>1. OneThread' /\ Self' = Self
  BY DEF OneThread, Self
<1> QED BY <1>1, Zenon DEF Calls, Own, Result

\* It is of the types that PrivateTraces needs.
LEMMA PrivateTypes ==
  ASSUME OneThread, TraceTypeOK
  PROVE  /\ Self \in crew /\ Self \in Threads /\ Calls \in Seq(Recorders)
         /\ Own \in Seq(Seq(Node)) /\ Len(Own) = Len(recorders)
         /\ DOMAIN Result = Recorders
<1>1. Self \in crew /\ Self \in Threads
  BY DEF Self, TraceTypeOK
<1>2. recorders \in Seq(Recorder) /\ Recorders = 1 .. Len(recorders) /\ Len(recorders) \in Nat
  BY DEF TraceTypeOK, Recorders
<1>3. \A i \in 1 .. Len(recorders) : recorders[i].nodes \in Seq(Node)
  <2>1. \A i \in 1 .. Len(recorders) : recorders[i] \in Recorder
    BY <1>2
  <2>2. \A r \in Recorder : r.nodes \in Seq(Node)
    BY DEF Recorder
  <2> QED BY <2>1, <2>2
<1>4. Own \in Seq(Seq(Node)) /\ Len(Own) = Len(recorders)
  <2> DEFINE S == Seq(Node)
             e(i) == recorders[i].nodes
  <2>1. \A i \in 1 .. Len(recorders) : e(i) \in S
    BY <1>3
  <2>2. Own = [i \in 1 .. Len(recorders) |-> e(i)]
    BY <1>2 DEF Own
  <2> HIDE DEF S, e
  <2>3. Own \in Seq(S) /\ Len(Own) = Len(recorders)
    BY <1>2, <2>1, <2>2
  <2> QED BY <2>3 DEF S
<1>5. DOMAIN Result = Recorders
  BY <1>2 DEF Result, TraceTypeOK
<1>6. Calls \in Seq(Recorders)
  BY <1>1 DEF Calls, TraceTypeOK
<1> QED BY <1>1, <1>4, <1>5, <1>6

\* Tracing begins with no call and no list.
LEMMA PrivateInit == TraceInit => Private!Init
<1> SUFFICES ASSUME TraceInit PROVE Private!Init
  OBVIOUS
<1>1. Self \in crew /\ Self \in Threads
  BY DEF TraceInit, Self
<1>2. Calls = <<>>
  BY <1>1 DEF TraceInit, Calls
<1>3. Own = <<>> /\ Result = <<>>
  BY DEF TraceInit, Own, Result, Recorders
<1> QED BY <1>2, <1>3 DEF Private!Init

\* Every step keeps a primitive where it began.
LEMMA CallInvStep ==
  ASSUME OneThread, TraceTypeOK, HomeInv, CallInv, [TraceNext]_traceVars PROVE CallInv'
<1>0. UNCHANGED crew
  BY CrewSettled
<1>1. ASSUME NEW t \in crew, Enter(t) \/ Return(t) \/ Raise(t) PROVE CallInv'
  <2>1. Idle(t) /\ UNCHANGED call
    BY <1>1 DEF Enter, Return, Raise
  <2> QED BY <1>0, <2>1 DEF CallInv, Idle, OneThread
<1>2. ASSUME NEW t \in crew, NEW decl, stack # <<>>, UNCHANGED frames,
             call' = [call EXCEPT ![t] = [rec |-> Last(stack), decl |-> decl]]
      PROVE  CallInv'
  <2>1. call'[t].rec = Last(stack)
    BY <1>2 DEF TraceTypeOK
  <2> QED BY <1>0, <1>2, <2>1 DEF CallInv, HomeInv, OneThread
<1>3. ASSUME NEW t \in crew, DeclareNode(t) \/ DeclarePlate(t) PROVE CallInv'
  BY <1>2, <1>3 DEF DeclareNode, DeclarePlate
<1>4. ASSUME NEW t \in crew, Commit(t) PROVE CallInv'
  BY <1>0, <1>4 DEF Commit, CallInv, Idle, OneThread, TraceTypeOK
<1>5. CASE UNCHANGED <<frames, call>>
  BY <1>0, <1>5 DEF CallInv, Idle
<1> QED BY <1>1, <1>3, <1>4, <1>5 DEF TraceNext, JointPrior, traceVars

\* A function that goes on from a sequence by one value is the sequence with
\* that value appended.
LEMMA AppendIs ==
  ASSUME NEW S, NEW s \in Seq(S), NEW x \in S, NEW f, f = [i \in 1 .. Len(s) + 1 |-> f[i]],
         \A i \in 1 .. Len(s) : f[i] = s[i], f[Len(s) + 1] = x
  PROVE  f = Append(s, x)
<1>1. Len(s) \in Nat /\ Append(s, x) \in Seq(S) /\ Len(Append(s, x)) = Len(s) + 1
  OBVIOUS
<1>2. \A i \in 1 .. Len(s) + 1 : f[i] = Append(s, x)[i]
  OBVIOUS
<1>3. Append(s, x) = [i \in 1 .. Len(s) + 1 |-> Append(s, x)[i]]
  <2>1. \A q \in Seq(S) : q = [i \in 1 .. Len(q) |-> q[i]]
    OBVIOUS
  <2> QED BY <1>1, <2>1
<1> QED BY <1>2, <1>3

\* trace(model_fn) opens a call with an empty list.
LEMMA EnterOpens ==
  ASSUME OneThread, TraceTypeOK, NEW t \in crew, Enter(t)
  PROVE  Private!Open
<1>1. Self = t /\ t \in Threads /\ UNCHANGED crew
  BY DEF Self, OneThread, TraceTypeOK, Enter
<1>2. /\ recorders \in Seq(Recorder) /\ recorders' = Append(recorders, EmptyRecorder)
      /\ outcome' = Append(outcome, Status("open")) /\ Len(outcome) = Len(recorders)
  BY DEF Enter, TraceTypeOK
<1>3. Own \in Seq(Seq(Node)) /\ Len(Own) = Len(recorders) /\ DOMAIN Result = Recorders
  BY <1>1, PrivateTypes
<1>4. Calls' = Append(Calls, Len(Own) + 1)
  BY <1>1, <1>3, ListsOfSelf, ListsOfSelfNext DEF Enter, TraceTypeOK
<1>5. /\ Recorders = 1 .. Len(recorders) /\ Recorders' = 1 .. Len(recorders) + 1
      /\ Len(recorders) \in Nat
      /\ DOMAIN outcome = 1 .. Len(recorders) /\ DOMAIN outcome' = 1 .. Len(recorders) + 1
      /\ \A i \in 1 .. Len(recorders) : outcome'[i] = outcome[i] /\ recorders'[i] = recorders[i]
  <2> DEFINE Outcome == [status : {"open", "graph", "refused", "raised"}, graph : Recorder]
  <2>1. outcome \in Seq(Outcome)
    BY DEF TraceTypeOK
  <2> HIDE DEF Outcome
  <2>2. /\ DOMAIN outcome = 1 .. Len(recorders) /\ DOMAIN outcome' = 1 .. Len(recorders) + 1
        /\ \A i \in 1 .. Len(recorders) : outcome'[i] = outcome[i]
    BY <1>2, <2>1
  <2>3. /\ Recorders = 1 .. Len(recorders) /\ Recorders' = 1 .. Len(recorders) + 1
        /\ Len(recorders) \in Nat
        /\ \A i \in 1 .. Len(recorders) : recorders'[i] = recorders[i]
    BY <1>2 DEF Recorders
  <2> QED BY <2>2, <2>3
<1>6. Own' = Append(Own, <<>>)
  <2>1. EmptyRecorder.nodes = <<>> /\ <<>> \in Seq(Node)
    BY DEF EmptyRecorder
  <2>2. \A i \in 1 .. Len(recorders) + 1 : Own'[i] = recorders'[i].nodes
    BY <1>5, ListsOfSelf, ListsOfSelfNext, <1>1
  <2>3. \A i \in 1 .. Len(recorders) : Own'[i] = Own[i]
    BY <1>5, <2>2, ListsOfSelf
  <2>4. Own'[Len(recorders) + 1] = <<>>
    BY <1>2, <2>1, <2>2, <1>5
  <2>5. Own' = [i \in 1 .. Len(recorders) + 1 |-> Own'[i]]
    BY <1>5, ListsOfSelf, ListsOfSelfNext, <1>1
  <2> QED BY <1>3, <2>1, <2>3, <2>4, <2>5, AppendIs
<1>7. Result' = Append(Result, <<>>)
  <2> DEFINE e(i) == outcome[i].graph.nodes
  <2>1. Status("open").graph.nodes = <<>> /\ <<>> \in Seq(Node)
    BY DEF Status, EmptyRecorder
  <2>2. Result \in Seq(Seq(Node)) /\ Len(Result) = Len(recorders)
    <3>1. \A i \in 1 .. Len(recorders) : e(i) \in Seq(Node)
      BY <1>2, OutcomeType DEF TraceTypeOK
    <3>2. Result = [i \in 1 .. Len(recorders) |-> e(i)]
      BY <1>5, ListsOfSelf
    <3> DEFINE S == Seq(Node)
    <3> HIDE DEF e, S
    <3>3. Result \in Seq(S) /\ Len(Result) = Len(recorders)
      BY <1>5, <3>1, <3>2 DEF S
    <3> QED BY <3>3 DEF S
  <2>3. \A i \in 1 .. Len(recorders) + 1 : Result'[i] = outcome'[i].graph.nodes
    BY <1>5, ListsOfSelf, ListsOfSelfNext, <1>1
  <2>4. \A i \in 1 .. Len(recorders) : Result'[i] = Result[i]
    BY <1>5, <2>3, ListsOfSelf
  <2>5. Result'[Len(recorders) + 1] = <<>>
    <3> DEFINE Outcome == [status : {"open", "graph", "refused", "raised"}, graph : Recorder]
    <3>1. outcome \in Seq(Outcome)
      BY DEF TraceTypeOK
    <3> HIDE DEF Outcome
    <3>2. outcome'[Len(outcome) + 1] = Status("open")
      BY <1>2, <3>1
    <3> QED BY <1>2, <1>5, <2>1, <2>3, <3>2
  <2>6. Result' = [i \in 1 .. Len(recorders) + 1 |-> Result'[i]]
    BY <1>5, ListsOfSelf, ListsOfSelfNext, <1>1
  <2> QED BY <2>1, <2>2, <2>4, <2>5, <2>6, AppendIs
<1> QED BY <1>4, <1>6, <1>7 DEF Private!Open, Private!Nothing

\* A primitive that lands adds one node of the innermost call, or a plate.
LEMMA CommitRecords ==
  ASSUME OneThread, TraceTypeOK, HomeInv, CallInv, NEW t \in crew, Commit(t)
  PROVE  Private!Record \/ UNCHANGED <<Calls, Own, Result>>
<1>1. Self = t /\ t \in Threads /\ UNCHANGED crew
  BY DEF Self, OneThread, TraceTypeOK, Commit
<1> DEFINE c == call[t].rec
           decl == call[t].decl
<1>2. /\ Calls # <<>> /\ Last(Calls) = c /\ decl.by = c
      /\ c \in Recorders /\ recorders[c] \in Recorder /\ decl \in Node \cup PlateDecl
      /\ recorders' = [recorders EXCEPT ![c] = Put(recorders[c], decl)]
      /\ Recorders' = Recorders
  BY <1>1, CallType, PutType, RecorderUpdate, ListsOfSelf, ListsOfSelfNext DEF Commit, CallInv, HomeInv, TraceTypeOK, Recorders
<1>3. UNCHANGED Calls /\ UNCHANGED Result
  BY ListsOfSelf, ListsOfSelfNext, <1>1 DEF Commit
<1>4. Own \in Seq(Seq(Node)) /\ DOMAIN Own = Recorders /\ DOMAIN Own' = Recorders
  BY <1>1, <1>2, PrivateTypes, ListsOfSelf, ListsOfSelfNext
<1> HIDE DEF c, decl
<1>5. \A i \in Recorders : Own'[i] = IF i = c THEN Put(recorders[c], decl).nodes ELSE Own[i]
  BY <1>2, ListsOfSelf, ListsOfSelfNext, <1>1 DEF Recorders
<1>6. CASE decl.kind = "plate"
  <2>1. Put(recorders[c], decl).nodes = Own[c]
    BY <1>2, <1>6, ListsOfSelf, ListsOfSelfNext, <1>1 DEF Put, Recorder
  <2>2. Own' = Own
    BY <1>2, <1>5, <2>1, ListsOfSelf, ListsOfSelfNext, <1>1
  <2> QED BY <1>3, <2>2
<1>7. CASE decl.kind # "plate"
  <2>1. Put(recorders[c], decl).nodes = Append(Own[c], decl)
    BY <1>2, <1>7, ListsOfSelf, ListsOfSelfNext, <1>1 DEF Put, Recorder
  <2>2. Own[c] \in Seq(Node) /\ decl \in Node
    BY <1>2, <1>4, <1>7, ListsOfSelf, ListsOfSelfNext, <1>1 DEF PlateDecl, Recorder
  <2>3. Own'[c] = Append(Own[c], decl)
    BY <1>2, <1>5, <2>1
  <2>4. Len(Own'[c]) = Len(Own[c]) + 1 /\ Last(Own'[c]) = decl
    BY <2>2, <2>3 DEF Last
  <2>5. Own' = [Own EXCEPT ![c] = Append(Own[c], decl)]
    BY <1>2, <1>5, <2>1, ListsOfSelf, ListsOfSelfNext, <1>1
  <2>6. LET d == Last(Calls)
        IN /\ Calls # <<>>
           /\ Len(Own'[d]) = Len(Own[d]) + 1
           /\ Last(Own'[d]).by = d
           /\ Own' = [Own EXCEPT ![d] = Append(@, Last(Own'[d]))]
           /\ UNCHANGED <<Calls, Result>>
    BY <1>2, <1>3, <2>4, <2>5
  <2> QED BY <2>6, Zenon DEF Private!Record, Private!Last, Last
<1> QED BY <1>6, <1>7

\* A call that ends, however it does, gives back its whole list or nothing.
LEMMA LeaveCloses ==
  ASSUME OneThread, TraceTypeOK, NEW t \in crew, Return(t) \/ Raise(t)
  PROVE  Private!Close
<1>1. Self = t /\ t \in Threads /\ UNCHANGED crew
  BY DEF Self, OneThread, TraceTypeOK, Return, Raise
<1>2. frames[t] # <<>> /\ UNCHANGED recorders
  BY DEF Return, Raise
<1> DEFINE c == Last(frames[t])
<1>3. c \in Recorders /\ c \in DOMAIN outcome /\ Own[c] = recorders[c].nodes
  BY <1>2, InnermostFrame, ListsOfSelf, ListsOfSelfNext, <1>1 DEF TraceTypeOK
<1>4. PICK result : Leave(t, result) /\ result.graph.nodes \in {Own[c], <<>>}
  <2>1. \A s : Status(s).graph.nodes = <<>>
    BY DEF Status, EmptyRecorder
  <2>2. CASE Raise(t)
    BY <2>1, <2>2 DEF Raise
  <2>3. CASE Return(t)
    <3>1. CASE GraphOK(recorders[c])
      <4> DEFINE g == [status |-> "graph", graph |-> recorders[c]]
      <4>1. Leave(t, g)
        BY <2>3, <3>1 DEF Return
      <4>2. g.graph.nodes = Own[c]
        BY <1>3
      <4> HIDE DEF g
      <4> QED BY <4>1, <4>2
    <3>2. CASE ~GraphOK(recorders[c])
      BY <2>1, <2>3, <3>2 DEF Return
    <3> QED BY <3>1, <3>2
  <2> QED BY <2>2, <2>3
<1>5. Calls' = Front(Calls) /\ Calls # <<>> /\ Last(Calls) = c
  BY <1>1, <1>2, <1>4, ListsOfSelf, ListsOfSelfNext DEF Leave, TraceTypeOK
<1>6. UNCHANGED Own
  BY <1>2, ListsOfSelf, ListsOfSelfNext, <1>1 DEF Recorders
<1> HIDE DEF c
<1>7. Result' = [Result EXCEPT ![c] = result.graph.nodes]
  <2>1. outcome' = [outcome EXCEPT ![c] = result]
    BY <1>4 DEF Leave, c
  <2> QED BY <1>3, <2>1, ListsOfSelf, ListsOfSelfNext, <1>1
<1>8. /\ Calls # <<>>
      /\ \E r \in {Own[Last(Calls)], <<>>} : Result' = [Result EXCEPT ![Last(Calls)] = r]
      /\ Calls' = Front(Calls)
      /\ UNCHANGED Own
  BY <1>4, <1>5, <1>6, <1>7
<1> QED BY <1>8, Zenon DEF Private!Close, Private!Last, Last, Private!Front, Front, Private!Nothing

\* On one thread a step is a step of private lists, or none.
LEMMA AloneStep ==
  ASSUME OneThread, TraceTypeOK, HomeInv, CallInv, [TraceNext]_traceVars
  PROVE  \/ Private!Open \/ Private!Record \/ Private!Close
         \/ UNCHANGED <<Calls, Own, Result>>
<1>1. ASSUME NEW t \in crew, Enter(t) PROVE Private!Open
  BY <1>1, EnterOpens
<1>2. ASSUME NEW t \in crew, Commit(t) PROVE Private!Record \/ UNCHANGED <<Calls, Own, Result>>
  BY <1>2, CommitRecords
<1>3. ASSUME NEW t \in crew, Return(t) \/ Raise(t) PROVE Private!Close
  BY <1>3, LeaveCloses
<1>4. ASSUME NEW t \in crew, DeclareNode(t) \/ DeclarePlate(t) PROVE UNCHANGED <<Calls, Own, Result>>
  <2>1. UNCHANGED <<recorders, frames, outcome>>
    BY <1>4 DEF DeclareNode, DeclarePlate
  <2> QED BY <2>1, CrewSettled, ListsOfSelf, ListsOfSelfNext DEF Recorders
<1>5. ASSUME NEW t \in crew, JointPrior(t) PROVE UNCHANGED <<Calls, Own, Result>>
  <2>1. PICK over \in SUBSET NodeNames :
          recorders' = [recorders EXCEPT ![Last(stack)].prior = [over |-> over, set |-> TRUE]]
    BY <1>5 DEF JointPrior
  <2>2. /\ Recorders' = Recorders
        /\ \A i \in Recorders : recorders'[i].nodes = recorders[i].nodes
    BY <1>5, <2>1, TopOfStack DEF JointPrior, TraceTypeOK, Recorders, Recorder
  <2>3. Own' = Own
    BY <2>2, CrewSettled, ListsOfSelf, ListsOfSelfNext
  <2> QED BY <1>5, <2>3, CrewSettled, ListsOfSelf, ListsOfSelfNext DEF JointPrior
<1>6. CASE UNCHANGED traceVars
  BY <1>6, CrewSettled, ListsOfSelf, ListsOfSelfNext DEF traceVars, Recorders
<1> QED BY <1>1, <1>2, <1>3, <1>4, <1>5, <1>6 DEF TraceNext

\* On one thread, whatever the nesting and whichever model raises: what trace
\* does with its stack is what it promises with private lists.
THEOREM TracingIsPrivate == TraceSpec => TracesArePrivate
<1> DEFINE Step == Private!Open \/ Private!Record \/ Private!Close
<1>1. TraceInit => Private!Init /\ (OneThread => HomeInv /\ CallInv)
  <2>1. TraceInit => (OneThread => HomeInv /\ CallInv)
    BY DEF TraceInit, HomeInv, CallInv, Idle, Recorders
  <2> QED BY <2>1, PrivateInit
<1>2. TraceTypeOK /\ (OneThread => HomeInv /\ CallInv) /\ [TraceNext]_traceVars
        => (OneThread => HomeInv /\ CallInv)'
  BY CrewSettled, HomeInvStep, CallInvStep
<1>3. TraceTypeOK /\ (OneThread => HomeInv /\ CallInv) /\ [TraceNext]_traceVars
        => [Step]_<<Calls, Own, Result>>
  <2> SUFFICES ASSUME TraceTypeOK, OneThread => HomeInv /\ CallInv, [TraceNext]_traceVars
               PROVE  Step \/ UNCHANGED <<Calls, Own, Result>>
    OBVIOUS
  <2>1. CASE ~OneThread
    BY <2>1, CrewSettled DEF Calls, Own, Result
  <2>2. CASE OneThread
    BY <2>2, AloneStep
  <2> QED BY <2>1, <2>2
<1> QED
  BY <1>1, <1>2, <1>3, Typing, PTL DEF TraceSpec, TracesArePrivate, Private!Spec
=============================================================================
