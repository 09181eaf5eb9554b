------------------------------ MODULE WorkQueue ------------------------------
(***************************************************************************)
(* What the threads of SyncHarbor rely on when they hand work to each      *)
(* other: a first-in first-out queue with one consumer, which gets every   *)
(* item, and which is told to stop only when the queue is closed and       *)
(* drained.  ThreadSafeQueue is shown to implement it.                     *)
(***************************************************************************)
EXTENDS Sequences, Naturals

CONSTANT Item

VARIABLES
  queue,      \* items pushed and not yet popped
  closed,     \* close() was called
  ended       \* a pop found the queue closed and empty

vars == <<queue, closed, ended>>

Init == queue = <<>> /\ closed = FALSE /\ ended = FALSE

(* Zero or more items join at the end. *)
Push ==
  /\ queue' \in Seq(Item)
  /\ Len(queue') >= Len(queue)
  /\ SubSeq(queue', 1, Len(queue)) = queue
  /\ UNCHANGED <<closed, ended>>

Pop ==
  /\ ~ended
  /\ queue # <<>>
  /\ queue' = Tail(queue)
  /\ UNCHANGED <<closed, ended>>

Close ==
  /\ closed' = TRUE
  /\ UNCHANGED <<queue, ended>>

End ==
  /\ closed
  /\ queue = <<>>
  /\ ended' = TRUE
  /\ UNCHANGED <<queue, closed>>

Next ==
  \/ Push
  \/ Pop
  \/ Close
  \/ End

Spec == Init /\ [][Next]_vars

FairSpec == Spec /\ WF_vars(Pop)

=============================================================================
