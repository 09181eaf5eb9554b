--------------------------- MODULE ThreadSafeQueue ---------------------------
(***************************************************************************)
(* ThreadSafeQueue (include/thread-safe-queue.h): the queue between the    *)
(* polling thread and the changes worker, between the submitters and the   *)
(* HttpClient worker, and in front of the callback worker.                 *)
(*                                                                         *)
(* Any thread pushes; one consumer thread pops, by the blocking pop() or   *)
(* by try_pop().  push and try_pop are critical sections in which nothing  *)
(* blocks, hence single actions that need _mutex; pop() is split where     *)
(* another thread can come in between, and close(), which takes no lock,   *)
(* is split into its store and its notification.                           *)
(*                                                                         *)
(* An item is a unique_ptr or the only shared_ptr to a change, so one that *)
(* is in the queue is not pushed again.                                    *)
(***************************************************************************)
EXTENDS Sequences, Naturals

CONSTANTS
  Item,       \* commands or changes
  MaxBatch    \* bound on the vectors given to push(std::vector<T>&&)

ASSUME ThreadSafeQueueAssumption == MaxBatch \in Nat

VARIABLES
  queue,      \* _queue
  closed,     \* _closed
  held,       \* the consumer holds _mutex
  asleep,     \* the consumer is blocked on _cv
  popPc,      \* where the consumer is
  closePc     \* where the thread that calls close() is

vars == <<queue, closed, held, asleep, popPc, closePc>>

PopPc == {"away", "testing", "sleeping", "ended"}
ClosePc == {"open", "stored", "done"}

Elements(s) == {s[i] : i \in 1..Len(s)}

(* Batches of distinct items that are not in the queue. *)
Batches ==
  {s \in UNION {[1..n -> Item] : n \in 0..MaxBatch} :
     /\ \A i, j \in DOMAIN s : i # j => s[i] # s[j]
     /\ Elements(s) \cap Elements(queue) = {}}

Init ==
  /\ queue = <<>>
  /\ closed = FALSE
  /\ held = FALSE
  /\ asleep = FALSE
  /\ popPc = "away"
  /\ closePc = "open"

-----------------------------------------------------------------------------
(* push(U&&): emplace and notify_one under the lock.  It does not look at   *)
(* _closed.                                                                *)
Push(x) ==
  /\ ~held
  /\ x \notin Elements(queue)
  /\ queue' = Append(queue, x)
  /\ asleep' = FALSE
  /\ UNCHANGED <<closed, held, popPc, closePc>>

(* Mutant: push without the lock. *)
PushBatchUnlocked(s) ==
  /\ queue' = queue \o s
  /\ asleep' = FALSE
  /\ UNCHANGED <<closed, held, popPc, closePc>>

(* push(std::vector<T>&&): one notify_one for the whole batch, which may    *)
(* be empty.                                                               *)
PushBatch(s) ==
  /\ ~held
  /\ queue' = queue \o s
  /\ asleep' = FALSE
  /\ UNCHANGED <<closed, held, popPc, closePc>>

(* try_pop() *)
TryPop ==
  /\ popPc = "away"
  /\ queue # <<>>
  /\ queue' = Tail(queue)
  /\ UNCHANGED <<closed, held, asleep, popPc, closePc>>

(* pop(): the unique_lock, or its re-acquisition by wait() on wake-up. *)
LockToTest ==
  /\ \/ popPc = "away"
     \/ popPc = "sleeping" /\ ~held /\ ~asleep
  /\ held' = TRUE
  /\ popPc' = "testing"
  /\ UNCHANGED <<queue, closed, asleep, closePc>>

(* pop(): the predicate holds and there is an item. *)
Take ==
  /\ popPc = "testing"
  /\ queue # <<>>
  /\ queue' = Tail(queue)
  /\ held' = FALSE
  /\ popPc' = "away"
  /\ UNCHANGED <<closed, asleep, closePc>>

(* Mutant: the closed queue ends the loop before it is drained. *)
ReturnFalseWhenClosed ==
  /\ popPc = "testing"
  /\ closed
  /\ held' = FALSE
  /\ popPc' = "ended"
  /\ UNCHANGED <<queue, closed, asleep, closePc>>

(* pop(): closed and empty, it returns false and the worker's loop ends. *)
ReturnFalse ==
  /\ popPc = "testing"
  /\ queue = <<>>
  /\ closed
  /\ held' = FALSE
  /\ popPc' = "ended"
  /\ UNCHANGED <<queue, closed, asleep, closePc>>

(* pop(): the predicate is false, wait() is about to block. *)
DecideToSleep ==
  /\ popPc = "testing"
  /\ queue = <<>>
  /\ ~closed
  /\ popPc' = "sleeping"
  /\ UNCHANGED <<queue, closed, held, asleep, closePc>>

(* pop(): wait() enlists the consumer on _cv and releases _mutex. *)
Sleep ==
  /\ popPc = "sleeping"
  /\ held
  /\ held' = FALSE
  /\ asleep' = TRUE
  /\ UNCHANGED <<queue, closed, popPc, closePc>>

SpuriousWake ==
  /\ asleep
  /\ asleep' = FALSE
  /\ UNCHANGED <<queue, closed, held, popPc, closePc>>

(* close(): the store ... *)
CloseStore ==
  /\ closePc = "open"
  /\ closed' = TRUE
  /\ closePc' = "stored"
  /\ UNCHANGED <<queue, held, asleep, popPc>>

(* ... and notify_all, neither of them under _mutex. *)
CloseNotify ==
  /\ closePc = "stored"
  /\ asleep' = FALSE
  /\ closePc' = "done"
  /\ UNCHANGED <<queue, closed, held, popPc>>

Consume ==
  \/ LockToTest
  \/ Take
  \/ ReturnFalse
  \/ DecideToSleep
  \/ Sleep

Next ==
  \/ \E x \in Item : Push(x)
  \/ \E s \in Batches : PushBatch(s)
  \/ TryPop
  \/ Consume
  \/ SpuriousWake
  \/ CloseStore
  \/ CloseNotify

Spec == Init /\ [][Next]_vars

(* The consumer's thread runs, and close() is not abandoned half-way. *)
FairSpec == Spec /\ WF_vars(Consume) /\ WF_vars(CloseNotify)

-----------------------------------------------------------------------------
(* Type invariant, with what the lock and the condition variable's list    *)
(* have to do with the consumer's position.                                *)
TypeOK ==
  /\ queue \in Seq(Item)
  /\ closed \in BOOLEAN
  /\ held \in BOOLEAN
  /\ asleep \in BOOLEAN
  /\ popPc \in PopPc
  /\ closePc \in ClosePc
  /\ held => popPc \in {"testing", "sleeping"}
  /\ popPc = "testing" => held
  /\ asleep => popPc = "sleeping" /\ ~held

(* The consumer never sleeps over a non-empty queue: between its test of   *)
(* the predicate and its enlistment on _cv no push can come in, because    *)
(* push takes _mutex.                                                      *)
NoSleepOverItems ==
  (asleep \/ (popPc = "sleeping" /\ held)) => queue = <<>>

(* No item is lost, duplicated or overtaken, the consumer gets every item, *)
(* and its loop ends only when the queue is closed and drained.            *)
Abstract == INSTANCE WorkQueue WITH ended <- popPc = "ended"
ImplementsWorkQueue == Abstract!FairSpec

=============================================================================
