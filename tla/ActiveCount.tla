----------------------------- MODULE ActiveCount -----------------------------
(***************************************************************************)
(* ActiveCount (include/active-count.h, src/active-count.cpp): the counter *)
(* of outstanding commands that HttpClient and CallbackDispatcher keep,    *)
(* and the condition variable on which initialSync() and syncDbWrite()     *)
(* wait until it is zero.                                                  *)
(*                                                                         *)
(* The counter is atomic and is changed WITHOUT the mutex; only the        *)
(* notification and the wait take it.  Whether a sleeping waiter can miss  *)
(* the moment of idleness is therefore a question of interleavings, and    *)
(* every step below is one the hardware or the condition variable may      *)
(* separate from the next.                                                 *)
(***************************************************************************)
EXTENDS Integers, FiniteSets

CONSTANTS Task,     \* commands: each is counted in, then counted out, repeatedly
          Waiter,   \* threads calling waitUntilIdle()
          Free      \* value of the mutex when nobody holds it

ASSUME ActiveCountAssumption ==
  /\ IsFiniteSet(Task)
  /\ Task \cap Waiter = {}
  /\ Free \notin Task \cup Waiter

VARIABLES
  count,      \* _count
  mtx,        \* the holder of _mtx, or Free
  asleep,     \* waiters blocked on _cv
  taskPc,     \* where each task is in increment() / decrement()
  waitPc      \* where each waiter is in waitUntilIdle()

countVars == <<count, mtx, asleep, taskPc, waitPc>>

TaskPc == {"out", "in", "lastOut", "notifying"}
WaitPc == {"away", "locking", "testing", "sleeping"}

CountInit ==
  /\ count = 0
  /\ mtx = Free
  /\ asleep = {}
  /\ taskPc = [t \in Task |-> "out"]
  /\ waitPc = [w \in Waiter |-> "away"]

-----------------------------------------------------------------------------
(* increment(): one fetch_add, no lock. *)
Increment(t) ==
  /\ taskPc[t] = "out"
  /\ count' = count + 1
  /\ taskPc' = [taskPc EXCEPT ![t] = "in"]
  /\ UNCHANGED <<mtx, asleep, waitPc>>

(* Mutant: a command that was counted out is counted out again. *)
FetchSubTwice(t) ==
  /\ taskPc[t] \in {"in", "lastOut"}
  /\ count' = count - 1
  /\ taskPc' = [taskPc EXCEPT ![t] = IF count = 1 THEN "lastOut" ELSE "out"]
  /\ UNCHANGED <<mtx, asleep, waitPc>>

(* decrement(): the fetch_sub.  The caller that takes the counter from one *)
(* to zero goes on to notify; every other caller returns.                  *)
FetchSub(t) ==
  /\ taskPc[t] = "in"
  /\ count' = count - 1
  /\ taskPc' = [taskPc EXCEPT ![t] = IF count = 1 THEN "lastOut" ELSE "out"]
  /\ UNCHANGED <<mtx, asleep, waitPc>>

(* decrement(): the lock_guard of the last one out. *)
LockToNotify(t) ==
  /\ taskPc[t] = "lastOut"
  /\ mtx = Free
  /\ mtx' = t
  /\ taskPc' = [taskPc EXCEPT ![t] = "notifying"]
  /\ UNCHANGED <<count, asleep, waitPc>>

(* Mutant: notify_one() in the place of notify_all(). *)
NotifyOne(t) ==
  /\ taskPc[t] = "notifying"
  /\ IF asleep = {} THEN asleep' = {} ELSE \E w \in asleep : asleep' = asleep \ {w}
  /\ mtx' = Free
  /\ taskPc' = [taskPc EXCEPT ![t] = "out"]
  /\ UNCHANGED <<count, waitPc>>

(* decrement(): notify_all() and the end of the lock_guard's scope. *)
NotifyAll(t) ==
  /\ taskPc[t] = "notifying"
  /\ asleep' = {}
  /\ mtx' = Free
  /\ taskPc' = [taskPc EXCEPT ![t] = "out"]
  /\ UNCHANGED <<count, waitPc>>

-----------------------------------------------------------------------------
(* waitUntilIdle() is called. *)
CallWait(w) ==
  /\ waitPc[w] = "away"
  /\ waitPc' = [waitPc EXCEPT ![w] = "locking"]
  /\ UNCHANGED <<count, mtx, asleep, taskPc>>

(* The unique_lock, or the re-acquisition inside wait() after a wake-up. *)
LockToTest(w) ==
  /\ \/ waitPc[w] = "locking"
     \/ waitPc[w] = "sleeping" /\ w \notin asleep
  /\ mtx = Free
  /\ mtx' = w
  /\ waitPc' = [waitPc EXCEPT ![w] = "testing"]
  /\ UNCHANGED <<count, asleep, taskPc>>

(* Mutant: wait() without its predicate. *)
ReturnUntested(w) ==
  /\ waitPc[w] = "testing"
  /\ mtx' = Free
  /\ waitPc' = [waitPc EXCEPT ![w] = "away"]
  /\ UNCHANGED <<count, asleep, taskPc>>

(* The predicate of wait() holds: waitUntilIdle() returns and unlocks. *)
ReturnIdle(w) ==
  /\ waitPc[w] = "testing"
  /\ count = 0
  /\ mtx' = Free
  /\ waitPc' = [waitPc EXCEPT ![w] = "away"]
  /\ UNCHANGED <<count, asleep, taskPc>>

(* The predicate is false: the waiter will sleep.  It still holds _mtx, and *)
(* the counter may change before it is on the condition variable's list.   *)
DecideToSleep(w) ==
  /\ waitPc[w] = "testing"
  /\ count # 0
  /\ waitPc' = [waitPc EXCEPT ![w] = "sleeping"]
  /\ UNCHANGED <<count, mtx, asleep, taskPc>>

(* wait() enlists the waiter and releases _mtx, atomically with respect to *)
(* notifications.                                                          *)
Sleep(w) ==
  /\ waitPc[w] = "sleeping"
  /\ mtx = w
  /\ asleep' = asleep \cup {w}
  /\ mtx' = Free
  /\ UNCHANGED <<count, taskPc, waitPc>>

(* A spurious wake-up, which the standard allows. *)
SpuriousWake(w) ==
  /\ w \in asleep
  /\ asleep' = asleep \ {w}
  /\ UNCHANGED <<count, mtx, taskPc, waitPc>>

TaskStep(t) ==
  \/ Increment(t)
  \/ FetchSub(t)
  \/ LockToNotify(t)
  \/ NotifyAll(t)

WaiterStep(w) ==
  \/ CallWait(w)
  \/ LockToTest(w)
  \/ ReturnIdle(w)
  \/ DecideToSleep(w)
  \/ Sleep(w)
  \/ SpuriousWake(w)

CountNext ==
  \/ \E t \in Task : TaskStep(t)
  \/ \E w \in Waiter : WaiterStep(w)

CountSpec == CountInit /\ [][CountNext]_countVars

(* Threads that hold or wait for the mutex keep being scheduled, and the   *)
(* mutex is not withheld from a thread forever.  Nobody is obliged to      *)
(* submit a command (Increment), to call waitUntilIdle(), or to wake       *)
(* spuriously.                                                             *)
CountFairness ==
  /\ \A t \in Task : /\ WF_countVars(FetchSub(t))
                     /\ SF_countVars(LockToNotify(t))
                     /\ WF_countVars(NotifyAll(t))
  /\ \A w \in Waiter : /\ SF_countVars(LockToTest(w))
                       /\ WF_countVars(ReturnIdle(w))
                       /\ WF_countVars(DecideToSleep(w))
                       /\ WF_countVars(Sleep(w))

FairCountSpec == CountSpec /\ CountFairness

-----------------------------------------------------------------------------
(* Tasks that are counted in, and threads that are in waitUntilIdle(). *)
Inside == {t \in Task : taskPc[t] = "in"}
Waiting == {w \in Waiter : waitPc[w] # "away"}

(* Type invariant: in particular the counter never goes below zero. *)
CountTypeOK ==
  /\ count \in Nat
  /\ mtx \in Task \cup Waiter \cup {Free}
  /\ asleep \subseteq Waiter
  /\ taskPc \in [Task -> TaskPc]
  /\ waitPc \in [Waiter -> WaitPc]

(* A thread that has taken the counter to zero and not yet notified. *)
NotificationPending == \E t \in Task : taskPc[t] \in {"lastOut", "notifying"}

(* No wake-up is lost: while the counter is zero, a waiter that sleeps, or *)
(* has decided to sleep on the strength of an older value, is still going  *)
(* to be notified by the decrement() that made it zero.  This is why       *)
(* decrement() takes _mtx although the counter is atomic.                  *)
NoLostWakeup ==
  \A w \in Waiter :
    (count = 0 /\ (w \in asleep \/ (waitPc[w] = "sleeping" /\ mtx = w)))
      => NotificationPending

(* The refinement mapping: waitUntilIdle() returns only at a moment when   *)
(* no command is counted in, and does return once they all stay out.       *)
Barrier == INSTANCE IdleBarrier WITH inside <- Inside, waiting <- Waiting

(* increment(), decrement() and waitUntilIdle() implement the barrier. *)
ImplementsBarrier == Barrier!FairSpec

=============================================================================
