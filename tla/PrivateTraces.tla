--------------------------- MODULE PrivateTraces ---------------------------
(***************************************************************************)
(* What trace(model_fn) promises its caller, with no stack in sight: every *)
(* call has a list of its own, only its own model adds to it, and the      *)
(* graph it returns is that list.                                          *)
(***************************************************************************)
EXTENDS Naturals, SequencesExt

VARIABLES
  calls,   \* the calls a thread is inside, outermost first
  own,     \* the nodes each call's model declared, in order
  result   \* what each call gave back: the nodes of a graph, or nothing yet

Nothing == <<>>

Init == calls = <<>> /\ own = <<>> /\ result = <<>>

Open ==
  /\ calls' = Append(calls, Len(own) + 1)
  /\ own' = Append(own, <<>>)
  /\ result' = Append(result, Nothing)

\* The innermost model declares one more node, marked as its own.
Record ==
  LET top == Last(calls)
  IN /\ calls # <<>>
     /\ Len(own'[top]) = Len(own[top]) + 1
     /\ Last(own'[top]).by = top
     /\ own' = [own EXCEPT ![top] = Append(@, Last(own'[top]))]
     /\ UNCHANGED <<calls, result>>

\* The innermost call ends, with a graph of exactly its list or with none.
Close ==
  /\ calls # <<>>
  /\ \E r \in {own[Last(calls)], Nothing} :
       result' = [result EXCEPT ![Last(calls)] = r]
  /\ calls' = Front(calls)
  /\ UNCHANGED own

Spec == Init /\ [][Open \/ Record \/ Close]_<<calls, own, result>>
=============================================================================
