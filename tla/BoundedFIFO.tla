---------------------------- MODULE BoundedFIFO ----------------------------
(***************************************************************************)
(* What a queue between one producer and one consumer promises: items come *)
(* out once each, in the order they went in, and at most Bound of them are *)
(* inside.  A push or pop that fails is a stuttering step.                 *)
(***************************************************************************)
EXTENDS Naturals, Sequences

CONSTANTS Items, Bound

VARIABLES
  queue,     \* the items inside, oldest first
  delivered  \* history: the items taken out

vars == <<queue, delivered>>

Init == queue = <<>> /\ delivered = <<>>

Enqueue(item) ==
  /\ Len(queue) < Bound
  /\ queue' = Append(queue, item)
  /\ UNCHANGED delivered

Dequeue ==
  /\ queue # <<>>
  /\ delivered' = Append(delivered, Head(queue))
  /\ queue' = Tail(queue)

Next == Dequeue \/ \E item \in Items : Enqueue(item)

SafetySpec == Init /\ [][Next]_vars

\* A consumer that keeps popping gets everything that was pushed.
Spec == SafetySpec /\ WF_vars(Dequeue)
=============================================================================
