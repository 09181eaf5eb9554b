-------------------------- MODULE SyncManagerProofs --------------------------
(***************************************************************************)
(* Proofs about the two parts of SyncManager that share nothing but its    *)
(* threads: the daemon, Daemon, with the queue between its threads, and    *)
(* createPath(), Directories.                                              *)
(***************************************************************************)
EXTENDS Daemon, Directories, FiniteSetTheorems, SequenceTheorems, TLAPS

-----------------------------------------------------------------------------
(***************************************************************************)
(* Proofs about Daemon for any events: the order in which shutdown() ends  *)
(* the threads drops nothing that the polling thread has taken, and an     *)
(* event is in one buffer only on its way from the watcher, or from a      *)
(* cloud, to the changes worker.  Then about the queue between them, for   *)
(* batches of any size: the consumer never sleeps over an item, and every  *)
(* step is a step of WorkQueue or leaves it unchanged.                     *)
(***************************************************************************)

Late == {"closing", "closed", "ended"}

(* Why nothing is dropped: the queue is closed only when the polling thread  *)
(* has ended, which it does with nothing in hand, and the changes worker     *)
(* ends only when the queue is closed and empty, so that it stays empty.    *)
Asked == stopPc = "idle" => mainPc = "waiting"
PollerJoined == mainPc \in Late => pollPc = "ended"
ClosedLate == closed => mainPc \in Late
NothingInHand == pollPc \notin {"awake", "clouds"} => fetched = <<>>
WorkerLast == popPc = "ended" => closed /\ queue = <<>>
ExitLast == proc = "exited" => mainPc = "ended" /\ popPc = "ended"

IInv ==
  /\ Asked /\ PollerJoined /\ ClosedLate /\ NothingInHand /\ WorkerLast /\ ExitLast

LEMMA InitIInv == Init => IInv
  BY DEF Init, Buff!Init, IInv, Asked, PollerJoined, ClosedLate, NothingInHand,
         WorkerLast, ExitLast, Late

LEMMA IInvDrained == IInv => DrainedAtExit
  BY DEF IInv, DrainedAtExit, PollerJoined, NothingInHand, WorkerLast, ExitLast, Late

-----------------------------------------------------------------------------
(* The watcher, the clouds and whoever asks for the end. *)
LEMMA EventStep ==
  ASSUME IInv, \/ \E e \in Watched : Happens(e)
               \/ \E e \in Foreign : CloudHas(e)
               \/ Watcher
  PROVE  IInv'
  BY DEF IInv, Asked, PollerJoined, ClosedLate, NothingInHand, WorkerLast, ExitLast,
         Happens, CloudHas, Watcher, SetDirty, NotifyPoller, Alive, Late, buffVars, endVars

(* The polling thread takes nothing into its hand but on its way to handing  *)
(* it over, and does not run when the queue is closed.                      *)
LEMMA PollerStep == ASSUME IInv, Poller PROVE IInv'
<1> USE DEF IInv, Asked, PollerJoined, ClosedLate, NothingInHand, WorkerLast, ExitLast,
            Late, PollGoes, Polls, buffVars, endVars, signalVars
<1>1. CASE LoopTest    BY <1>1 DEF LoopTest
<1>2. CASE Wanted      BY <1>2 DEF Wanted
<1>3. CASE GoesToSleep BY <1>3 DEF GoesToSleep
<1>4. CASE Sleeps      BY <1>4 DEF Sleeps
<1>5. CASE Woken       BY <1>5 DEF Woken
<1>6. CASE Timeout     BY <1>6 DEF Timeout
<1>7. CASE GetChanges  BY <1>7 DEF GetChanges
<1>8. CASE HandOverAll
  <2>1. pollPc # "ended" /\ pollPc' # "ended" /\ popPc # "ended" /\ Alive /\ ~closed
    BY <1>8 DEF HandOverAll
  <2>2. popPc' = popPc /\ closed' = closed
    BY <1>8 DEF HandOverAll, TakeLocal, TakeClouds, HandOver, Buff!PushBatch
  <2>3. UNCHANGED endVars
    BY <1>8 DEF HandOverAll, TakeLocal, TakeClouds, HandOver
  <2>4. pollPc' \notin {"awake", "clouds"} => fetched' = <<>>
    BY <1>8 DEF HandOverAll, TakeLocal, TakeClouds
  <2> QED
    BY <2>1, <2>2, <2>3, <2>4 DEF Alive
<1> QED
  BY <1>1, <1>2, <1>3, <1>4, <1>5, <1>6, <1>7, <1>8 DEF Poller

(* The changes worker ends on a queue that is closed and empty. *)
LEMMA WorkerStep == ASSUME IInv, Worker PROVE IInv'
<1> USE DEF IInv, Asked, PollerJoined, ClosedLate, NothingInHand, WorkerLast, ExitLast,
            Late, Worker, Alive, endVars
<1>1. CASE Buff!LockToTest    BY <1>1 DEF Buff!LockToTest
<1>2. CASE Buff!Take          BY <1>2 DEF Buff!Take
<1>3. CASE Buff!ReturnFalse   BY <1>3 DEF Buff!ReturnFalse
<1>4. CASE Buff!DecideToSleep BY <1>4 DEF Buff!DecideToSleep
<1>5. CASE Buff!Sleep         BY <1>5 DEF Buff!Sleep
<1> QED
  BY <1>1, <1>2, <1>3, <1>4, <1>5 DEF Buff!Consume

(* shutdown(), one thread after the other. *)
LEMMA MainStep == ASSUME IInv, Main PROVE IInv'
<1> USE DEF IInv, Asked, PollerJoined, ClosedLate, NothingInHand, WorkerLast, ExitLast,
            Late, MainGoes, Stays, Alive, buffVars, signalVars
<1>1. CASE StopWatching BY <1>1 DEF StopWatching
<1>2. CASE SetExit      BY <1>2 DEF SetExit
<1>3. CASE JoinPoller   BY <1>3 DEF JoinPoller
<1>4. CASE CloseBuff
  <2>1. CASE Buff!CloseStore  BY <1>4, <2>1 DEF CloseBuff, Buff!CloseStore
  <2>2. CASE Buff!CloseNotify BY <1>4, <2>2 DEF CloseBuff, Buff!CloseNotify
  <2> QED BY <1>4, <2>1, <2>2 DEF CloseBuff
<1>5. CASE JoinWorker   BY <1>5 DEF JoinWorker
<1> QED
  BY <1>1, <1>2, <1>3, <1>4, <1>5 DEF Main

(* --stop-daemon asks only once. *)
LEMMA StopStep ==
  ASSUME IInv, Ask \/ Kill \/ RemovePidFile \/ UNCHANGED vars
  PROVE  IInv'
  BY DEF IInv, Asked, PollerJoined, ClosedLate, NothingInHand, WorkerLast, ExitLast,
         Late, Ask, Kill, RemovePidFile, Alive, vars, buffVars, signalVars, endVars

LEMMA NextIInv == IInv /\ [Next]_vars => IInv'
  BY EventStep, PollerStep, WorkerStep, MainStep, StopStep DEF Next, Rest

(* The orderly end drops nothing: what was taken from clouds, whose page     *)
(* token says that it need not be told of again, has reached the changes     *)
(* worker, and nothing is left in _changes_buff.                            *)
THEOREM EndDropsNothing == Spec => []DrainedAtExit
<1>1. Init => IInv
  BY InitIInv
<1>2. IInv /\ [Next]_vars => IInv'
  BY NextIInv
<1>3. IInv => DrainedAtExit
  BY IInvDrained
<1> QED
  BY <1>1, <1>2, <1>3, PTL DEF Spec

-----------------------------------------------------------------------------
(* The variables have their types, and an event is in one place only.       *)

Apart(s, t) == Elements(s) \cap Elements(t) = {}

(* The concatenation in TypeOK, place by place. *)
OnePlace ==
  /\ IsInjective(raw) /\ IsInjective(inClouds) /\ IsInjective(fetched)
  /\ IsInjective(queue) /\ IsInjective(handled)
  /\ Apart(raw, inClouds) /\ Apart(raw, fetched) /\ Apart(raw, queue) /\ Apart(raw, handled)
  /\ Apart(inClouds, fetched) /\ Apart(inClouds, queue) /\ Apart(inClouds, handled)
  /\ Apart(fetched, queue) /\ Apart(fetched, handled) /\ Apart(queue, handled)

Sequences5 ==
  /\ raw \in Seq(Watched) /\ inClouds \in Seq(Foreign) /\ fetched \in Seq(Foreign)
  /\ queue \in Seq(Item) /\ handled \in Seq(Item)

Places ==
  /\ watchPc \in {"idle", "pushed", "set", "closed"}
  /\ pollPc \in {"top", "testing", "drowsy", "asleep", "polling", "awake", "clouds",
                 "local", "ended"}
  /\ mainPc \in {"waiting", "signalled", "unwatched", "flagged", "closing", "closed", "ended"}
  /\ stopPc \in {"idle", "waiting", "done"} /\ proc \in {"alive", "exited", "killed"}

Flags == /\ dirty \in BOOLEAN /\ signalled \in BOOLEAN
         /\ shouldExit \in BOOLEAN /\ pidFile \in BOOLEAN

(* TypeOK of the queue, without the queue. *)
Lock ==
  /\ closed \in BOOLEAN /\ held \in BOOLEAN /\ asleep \in BOOLEAN
  /\ popPc \in Buff!PopPc /\ closePc \in Buff!ClosePc
  /\ held => popPc \in {"testing", "sleeping"}
  /\ popPc = "testing" => held
  /\ asleep => popPc = "sleeping" /\ ~held

Placed == Sequences5 /\ OnePlace /\ Places /\ Flags /\ Lock

LEMMA Joined ==
  ASSUME NEW S, NEW a \in Seq(S), NEW b \in Seq(S)
  PROVE  /\ Elements(a \o b) = Elements(a) \cup Elements(b)
         /\ IsInjective(a \o b) <=> (IsInjective(a) /\ IsInjective(b) /\ Apart(a, b))
<1> DEFINE n == Len(a)
           m == Len(b)
           c == a \o b
<1>1. /\ n \in Nat /\ m \in Nat /\ Len(c) = n + m
      /\ DOMAIN a = 1..n /\ DOMAIN b = 1..m /\ DOMAIN c = 1..(n + m)
      /\ \A i \in 1..n : c[i] = a[i]
      /\ \A i \in (n + 1)..(n + m) : c[i] = b[i - n]
  BY ConcatProperties, LenProperties
<1> HIDE DEF c, n, m
<1>2. /\ \A i \in 1..n : i \in 1..(n + m)
      /\ \A i \in 1..m : i + n \in (n + 1)..(n + m) /\ i + n \in 1..(n + m) /\ c[i + n] = b[i]
      /\ \A i \in 1..(n + m) : i \in 1..n \/ (i \in (n + 1)..(n + m) /\ i - n \in 1..m)
  BY <1>1
<1>3. /\ Elements(a) = {a[i] : i \in 1..n} /\ Elements(b) = {b[i] : i \in 1..m}
      /\ Elements(c) = {c[i] : i \in 1..(n + m)}
  BY <1>1 DEF Elements, Buff!Elements, n, m
<1>4. Elements(c) = Elements(a) \cup Elements(b)
  BY <1>1, <1>2, <1>3
<1>5. ASSUME IsInjective(c) PROVE IsInjective(a) /\ IsInjective(b) /\ Apart(a, b)
  <2>1. \A i, j \in 1..(n + m) : c[i] = c[j] => i = j
    BY <1>1, <1>5 DEF IsInjective
  <2>2. IsInjective(a)
    BY <1>1, <1>2, <2>1 DEF IsInjective
  <2>3. \A i, j \in 1..m : b[i] = b[j] => i = j
    <3> SUFFICES ASSUME NEW i \in 1..m, NEW j \in 1..m, b[i] = b[j] PROVE i = j
      OBVIOUS
    <3>1. i + n = j + n
      BY <1>2, <2>1
    <3> QED
      BY <1>1, <3>1
  <2>4. IsInjective(b)
    BY <1>1, <2>3 DEF IsInjective
  <2>5. ASSUME NEW i \in 1..n, NEW j \in 1..m PROVE a[i] # b[j]
    <3>1. j + n \in 1..(n + m) /\ c[j + n] = b[j] /\ i # j + n
      BY <1>1, <1>2
    <3> QED
      BY <1>1, <1>2, <2>1, <3>1
  <2> QED
    BY <1>3, <2>2, <2>4, <2>5 DEF Apart
<1>6. ASSUME IsInjective(a), IsInjective(b), Apart(a, b) PROVE IsInjective(c)
  <2>1. \A i, j \in 1..n : a[i] = a[j] => i = j
    BY <1>1, <1>6 DEF IsInjective
  <2>2. \A i, j \in 1..m : b[i] = b[j] => i = j
    BY <1>1, <1>6 DEF IsInjective
  <2>3. \A i \in 1..n, j \in 1..m : a[i] # b[j]
    BY <1>3, <1>6 DEF Apart
  <2>4. ASSUME NEW i \in 1..(n + m), NEW j \in 1..(n + m), c[i] = c[j] PROVE i = j
    <3>1. CASE i \in 1..n /\ j \in 1..n
      BY <1>1, <2>1, <2>4, <3>1
    <3>2. CASE i \in 1..n /\ j \in (n + 1)..(n + m) /\ j - n \in 1..m
      BY <1>1, <2>3, <2>4, <3>2
    <3>3. CASE j \in 1..n /\ i \in (n + 1)..(n + m) /\ i - n \in 1..m
      BY <1>1, <2>3, <2>4, <3>3
    <3>4. CASE i \in (n + 1)..(n + m) /\ i - n \in 1..m /\ j \in (n + 1)..(n + m) /\ j - n \in 1..m
      <4>1. i - n = j - n
        BY <1>1, <2>2, <2>4, <3>4
      <4> QED
        BY <1>1, <4>1
    <3> QED
      BY <1>2, <3>1, <3>2, <3>3, <3>4
  <2> QED
    BY <1>1, <2>4 DEF IsInjective
<1> QED
  BY <1>4, <1>5, <1>6 DEF c

(* An event more, at the end, and one less, at the beginning. *)
LEMMA Appended ==
  ASSUME NEW S, NEW s \in Seq(S), NEW e \in S
  PROVE  /\ Append(s, e) \in Seq(S)
         /\ Elements(Append(s, e)) = Elements(s) \cup {e}
         /\ (IsInjective(s) /\ e \notin Elements(s)) => IsInjective(Append(s, e))
<1>1. Append(s, e) = s \o <<e>>
  BY AppendIsConcat
<1>2. Append(s, e) \in Seq(S)
  BY AppendProperties
<1>3. <<e>> \in Seq(S)
  OBVIOUS
<1>4. Elements(<<e>>) = {e} /\ IsInjective(<<e>>)
  <2>1. Len(<<e>>) = 1 /\ <<e>>[1] = e /\ DOMAIN <<e>> = {1} /\ 1..1 = {1}
    OBVIOUS
  <2> QED
    BY <2>1 DEF Elements, Buff!Elements, IsInjective
<1>5. /\ Elements(s \o <<e>>) = Elements(s) \cup Elements(<<e>>)
      /\ IsInjective(s \o <<e>>) <=> (IsInjective(s) /\ IsInjective(<<e>>) /\ Apart(s, <<e>>))
  BY <1>3, Joined
<1>6. Apart(s, <<e>>) <=> e \notin Elements(s)
  BY <1>4 DEF Apart
<1> QED
  BY <1>1, <1>2, <1>4, <1>5, <1>6, Zenon

LEMMA Beheaded ==
  ASSUME NEW S, NEW s \in Seq(S), s # <<>>
  PROVE  /\ Head(s) \in S /\ Tail(s) \in Seq(S) /\ Tail(s) # s
         /\ Elements(s) = {Head(s)} \cup Elements(Tail(s))
         /\ IsInjective(s) => (IsInjective(Tail(s)) /\ Head(s) \notin Elements(Tail(s)))
<1>1. Head(s) \in S /\ Tail(s) \in Seq(S) /\ Len(Tail(s)) = Len(s) - 1
  BY HeadTailProperties
<1>2. s = <<Head(s)>> \o Tail(s) /\ <<Head(s)>> \in Seq(S)
  BY <1>1, HeadTailProperties
<1>3. Elements(<<Head(s)>>) = {Head(s)}
  <2>1. Len(<<Head(s)>>) = 1 /\ <<Head(s)>>[1] = Head(s) /\ 1..1 = {1}
    OBVIOUS
  <2> QED
    BY <2>1 DEF Elements, Buff!Elements
<1>4. Tail(s) # s
  <2>1. Len(s) \in Nat
    BY LenProperties
  <2>2. ASSUME NEW n \in Nat PROVE n - 1 # n
    OBVIOUS
  <2>3. Len(Tail(s)) # Len(s)
    BY <1>1, <2>1, <2>2, Zenon
  <2> QED
    BY <2>3, Zenon
<1>5. /\ Elements(<<Head(s)>> \o Tail(s)) = Elements(<<Head(s)>>) \cup Elements(Tail(s))
      /\ IsInjective(<<Head(s)>> \o Tail(s)) <=>
           (IsInjective(<<Head(s)>>) /\ IsInjective(Tail(s)) /\ Apart(<<Head(s)>>, Tail(s)))
  BY <1>1, <1>2, Joined, Zenon
<1>6. Apart(<<Head(s)>>, Tail(s)) => Head(s) \notin Elements(Tail(s))
  BY <1>3 DEF Apart
<1> QED
  BY <1>1, <1>2, <1>3, <1>4, <1>5, <1>6, Zenon

LEMMA InitTypeInv == Init => Placed
<1> SUFFICES ASSUME Init PROVE Placed
  OBVIOUS
<1>1. Elements(<<>>) = {} /\ IsInjective(<<>>)
  <2>1. Len(<<>>) = 0 /\ DOMAIN <<>> = {} /\ 1..0 = {}
    OBVIOUS
  <2> QED
    BY <2>1 DEF Elements, Buff!Elements, IsInjective
<1>2. OnePlace
  BY <1>1 DEF Init, Buff!Init, OnePlace, Apart
<1>3. Sequences5
  BY DEF Init, Buff!Init, Sequences5
<1>4. Places
  BY DEF Init, Places
<1>5. Flags
  BY DEF Init, Flags
<1>6. Lock
  BY DEF Init, Buff!Init, Lock, Buff!PopPc, Buff!ClosePc
<1> QED
  BY <1>2, <1>3, <1>4, <1>5, <1>6 DEF Placed

-----------------------------------------------------------------------------
(* Where the threads are, and the flags. *)
LEMMA PlacesStep == ASSUME Placed, [Next]_vars PROVE Places'
<1> USE DEF Placed, Places
<1>1. CASE (\E e \in Watched : Happens(e)) \/ (\E e \in Foreign : CloudHas(e)) \/ Watcher
  BY <1>1 DEF Happens, CloudHas, Watcher, SetDirty, NotifyPoller, endVars, signalVars
<1>2. CASE Poller
  BY <1>2 DEF Poller, LoopTest, Wanted, GoesToSleep, Sleeps, Woken, Timeout, GetChanges,
              HandOverAll, TakeLocal, TakeClouds, HandOver, PollGoes, Polls, endVars, signalVars
<1>3. CASE Worker
  BY <1>3 DEF Worker, endVars, signalVars
<1>4. CASE Main
  BY <1>4 DEF Main, StopWatching, SetExit, JoinPoller, CloseBuff, JoinWorker, MainGoes,
              Stays, signalVars
<1>5. CASE Ask \/ Kill \/ RemovePidFile \/ Rest \/ UNCHANGED vars
  BY <1>5 DEF Ask, Kill, RemovePidFile, Rest, vars, endVars, signalVars
<1> QED
  BY <1>1, <1>2, <1>3, <1>4, <1>5 DEF Next

LEMMA FlagsStep == ASSUME Placed, [Next]_vars PROVE Flags'
<1> USE DEF Placed, Flags
<1>1. CASE (\E e \in Watched : Happens(e)) \/ (\E e \in Foreign : CloudHas(e)) \/ Watcher
  BY <1>1 DEF Happens, CloudHas, Watcher, SetDirty, NotifyPoller, endVars, signalVars
<1>2. CASE Poller
  <2> USE DEF PollGoes, Polls, endVars, signalVars
  <2>1. CASE LoopTest    BY <2>1 DEF LoopTest
  <2>2. CASE Wanted
    <3>1. UNCHANGED <<signalled, shouldExit, pidFile>> /\ dirty' = (dirty /\ shouldExit)
      BY <2>2 DEF Wanted
    <3> QED BY <3>1
  <2>3. CASE GoesToSleep BY <2>3 DEF GoesToSleep
  <2>4. CASE Sleeps      BY <2>4 DEF Sleeps
  <2>5. CASE Woken       BY <2>5 DEF Woken
  <2>6. CASE Timeout     BY <2>6 DEF Timeout
  <2>7. CASE GetChanges  BY <2>7 DEF GetChanges
  <2>8. CASE HandOverAll BY <2>8 DEF HandOverAll, TakeLocal, TakeClouds, HandOver
  <2> QED
    BY <1>2, <2>1, <2>2, <2>3, <2>4, <2>5, <2>6, <2>7, <2>8 DEF Poller
<1>3. CASE Worker
  BY <1>3 DEF Worker, endVars, signalVars
<1>4. CASE Main
  BY <1>4 DEF Main, StopWatching, SetExit, JoinPoller, CloseBuff, JoinWorker, MainGoes,
              Stays, signalVars
<1>5. CASE Ask \/ Kill \/ RemovePidFile \/ Rest \/ UNCHANGED vars
  BY <1>5 DEF Ask, Kill, RemovePidFile, Rest, vars, endVars, signalVars
<1> QED
  BY <1>1, <1>2, <1>3, <1>4, <1>5 DEF Next

(* The mutex and the condition variable of the queue. *)
LEMMA LockStep == ASSUME Placed, [Next]_vars PROVE Lock'
<1> USE DEF Placed, Lock, Buff!PopPc, Buff!ClosePc
<1>1. CASE (\E e \in Watched : Happens(e)) \/ (\E e \in Foreign : CloudHas(e)) \/ Watcher
  BY <1>1 DEF Happens, CloudHas, Watcher, SetDirty, NotifyPoller, buffVars
<1>2. CASE Poller
  <2>1. (UNCHANGED buffVars) \/ (\E s \in {raw, fetched} : Buff!PushBatch(s))
    BY <1>2 DEF Poller, LoopTest, Wanted, GoesToSleep, Sleeps, Woken, Timeout, GetChanges,
                HandOverAll, TakeLocal, TakeClouds, HandOver, Polls
  <2>2. CASE UNCHANGED buffVars BY <2>2 DEF buffVars
  <2>3. ASSUME NEW s, Buff!PushBatch(s) PROVE Lock'
    BY <2>3 DEF Buff!PushBatch
  <2> QED
    BY <2>1, <2>2, <2>3
<1>3. CASE Worker
  <2>1. Buff!Consume
    BY <1>3 DEF Worker
  <2>2. CASE Buff!LockToTest    BY <2>2 DEF Buff!LockToTest
  <2>3. CASE Buff!Take          BY <2>3 DEF Buff!Take
  <2>4. CASE Buff!ReturnFalse   BY <2>4 DEF Buff!ReturnFalse
  <2>5. CASE Buff!DecideToSleep BY <2>5 DEF Buff!DecideToSleep
  <2>6. CASE Buff!Sleep         BY <2>6 DEF Buff!Sleep
  <2> QED
    BY <2>1, <2>2, <2>3, <2>4, <2>5, <2>6 DEF Buff!Consume
<1>4. CASE Main
  <2>1. \/ UNCHANGED buffVars
        \/ Buff!CloseStore
        \/ Buff!CloseNotify
    BY <1>4 DEF Main, StopWatching, SetExit, JoinPoller, CloseBuff, JoinWorker
  <2>2. CASE UNCHANGED buffVars BY <2>2 DEF buffVars
  <2>3. CASE Buff!CloseStore    BY <2>3 DEF Buff!CloseStore
  <2>4. CASE Buff!CloseNotify   BY <2>4 DEF Buff!CloseNotify
  <2> QED
    BY <2>1, <2>2, <2>3, <2>4
<1>5. CASE Ask \/ Kill \/ RemovePidFile \/ Rest \/ UNCHANGED vars
  BY <1>5 DEF Ask, Kill, RemovePidFile, Rest, vars, buffVars
<1> QED
  BY <1>1, <1>2, <1>3, <1>4, <1>5 DEF Next

-----------------------------------------------------------------------------
(* The events. *)
(* A new event is nowhere yet. *)
LEMMA NewEvent ==
  ASSUME NEW e, ~Seen(e)
  PROVE  /\ e \notin Elements(raw) /\ e \notin Elements(inClouds) /\ e \notin Elements(fetched)
         /\ e \notin Elements(queue) /\ e \notin Elements(handled)
  BY DEF Seen

LEMMA HappensEvents ==
  ASSUME Placed, NEW e \in Watched, Happens(e)
  PROVE  Sequences5' /\ OnePlace'
<1>1. raw' = Append(raw, e) /\ UNCHANGED <<inClouds, fetched, queue, handled>>
  BY DEF Happens, buffVars
<1>2. Sequences5 /\ OnePlace /\ ~Seen(e)
  BY DEF Placed, Happens
<1>3. raw \in Seq(Watched)
  BY <1>2 DEF Sequences5
<1>4. /\ raw' \in Seq(Watched) /\ Elements(raw') = Elements(raw) \cup {e}
      /\ (IsInjective(raw) /\ e \notin Elements(raw)) => IsInjective(raw')
  BY <1>1, <1>3, Appended, Zenon
<1>5. Sequences5'
  BY <1>1, <1>2, <1>4 DEF Sequences5
<1>6. OnePlace'
  BY <1>1, <1>2, <1>4, NewEvent DEF OnePlace, Apart
<1> QED
  BY <1>5, <1>6

LEMMA CloudHasEvents ==
  ASSUME Placed, NEW e \in Foreign, CloudHas(e)
  PROVE  Sequences5' /\ OnePlace'
<1>1. inClouds' = Append(inClouds, e) /\ UNCHANGED <<raw, fetched, queue, handled>>
  BY DEF CloudHas, buffVars
<1>2. Sequences5 /\ OnePlace /\ ~Seen(e)
  BY DEF Placed, CloudHas
<1>3. inClouds \in Seq(Foreign)
  BY <1>2 DEF Sequences5
<1>4. /\ inClouds' \in Seq(Foreign) /\ Elements(inClouds') = Elements(inClouds) \cup {e}
      /\ (IsInjective(inClouds) /\ e \notin Elements(inClouds)) => IsInjective(inClouds')
  BY <1>1, <1>3, Appended, Zenon
<1>5. Sequences5'
  BY <1>1, <1>2, <1>4 DEF Sequences5
<1>6. OnePlace'
  BY <1>1, <1>2, <1>4, NewEvent DEF OnePlace, Apart
<1> QED
  BY <1>5, <1>6

(* Nothing is in an empty sequence. *)
LEMMA Emptied == Elements(<<>>) = {} /\ IsInjective(<<>>)
<1>1. Len(<<>>) = 0 /\ DOMAIN <<>> = {} /\ 1..0 = {}
  OBVIOUS
<1> QED
  BY <1>1 DEF Elements, Buff!Elements, IsInjective

(* The clouds' events move from inClouds behind those fetched before. *)
LEMMA GetChangesEvents == ASSUME Placed, GetChanges PROVE Sequences5' /\ OnePlace'
<1>1. /\ fetched' = fetched \o inClouds /\ inClouds' = <<>>
      /\ UNCHANGED <<raw, queue, handled>>
  BY DEF GetChanges, buffVars
<1>2. Sequences5 /\ OnePlace
  BY DEF Placed
<1>3. fetched \in Seq(Foreign) /\ inClouds \in Seq(Foreign)
  BY <1>2 DEF Sequences5
<1>4. /\ Elements(fetched') = Elements(fetched) \cup Elements(inClouds)
      /\ IsInjective(fetched') <=>
           (IsInjective(fetched) /\ IsInjective(inClouds) /\ Apart(fetched, inClouds))
  BY <1>1, <1>3, Joined, ZenonT(30)
<1>5. Elements(inClouds') = {} /\ IsInjective(inClouds')
  BY <1>1, Emptied
<1>6. fetched' \in Seq(Foreign) /\ inClouds' \in Seq(Foreign)
  BY <1>1, <1>3, ConcatProperties, EmptySeq
<1>7. Sequences5'
  BY <1>1, <1>2, <1>6 DEF Sequences5
<1>8. OnePlace'
  BY <1>1, <1>2, <1>4, <1>5 DEF OnePlace, Apart
<1> QED
  BY <1>7, <1>8

(* What is handed over is put behind what the queue holds. *)
LEMMA HandedOver ==
  ASSUME NEW from \in Seq(Item), HandOver(from), queue \in Seq(Item)
  PROVE  /\ queue' \in Seq(Item)
         /\ Elements(queue') = Elements(queue) \cup Elements(from)
         /\ (IsInjective(queue) /\ IsInjective(from) /\ Apart(queue, from)) => IsInjective(queue')
<1>1. CASE from = <<>>
  <2>1. queue' = queue
    BY <1>1 DEF HandOver, buffVars
  <2> QED
    BY <1>1, <2>1, Emptied
<1>2. CASE from # <<>>
  <2>1. queue' = queue \o from
    BY <1>2 DEF HandOver, Buff!PushBatch
  <2>2. queue' \in Seq(Item)
    BY <2>1, ConcatProperties
  <2>3. /\ Elements(queue') = Elements(queue) \cup Elements(from)
        /\ IsInjective(queue') <=> (IsInjective(queue) /\ IsInjective(from) /\ Apart(queue, from))
    BY <2>1, Joined, ZenonT(30)
  <2> QED
    BY <2>2, <2>3
<1> QED
  BY <1>1, <1>2

(* A sequence of some events is one of all. *)
LEMMA Wider ==
  /\ \A s \in Seq(Watched) : s \in Seq(Item)
  /\ \A s \in Seq(Foreign) : s \in Seq(Item)
<1>1. ASSUME NEW S, S \subseteq Item, NEW s \in Seq(S) PROVE s \in Seq(Item)
  <2>1. Len(s) \in Nat /\ s \in [1..Len(s) -> S]
    BY LenProperties
  <2>2. s \in [1..Len(s) -> Item]
    BY <1>1, <2>1
  <2> QED
    BY <2>1, <2>2, SeqDef
<1>2. Watched \subseteq Item /\ Foreign \subseteq Item
  BY DEF Item
<1> QED
  BY <1>1, <1>2

LEMMA HandOverEvents == ASSUME Placed, HandOverAll PROVE Sequences5' /\ OnePlace'
<1>1. Sequences5 /\ OnePlace
  BY DEF Placed
<1>2. raw \in Seq(Item) /\ fetched \in Seq(Item) /\ queue \in Seq(Item)
  BY <1>1, Wider DEF Sequences5
<1>3. CASE TakeLocal
  <2>1. HandOver(raw) /\ raw' = <<>> /\ UNCHANGED <<inClouds, fetched, handled>>
    BY <1>3 DEF TakeLocal, HandOver
  <2>2. /\ queue' \in Seq(Item)
        /\ Elements(queue') = Elements(queue) \cup Elements(raw)
        /\ (IsInjective(queue) /\ IsInjective(raw) /\ Apart(queue, raw)) => IsInjective(queue')
    BY <1>2, <2>1, HandedOver
  <2>3. Elements(raw') = {} /\ IsInjective(raw') /\ raw' \in Seq(Watched)
    BY <2>1, Emptied, EmptySeq
  <2>4. Sequences5'
    BY <1>1, <2>1, <2>2, <2>3 DEF Sequences5
  <2>5. OnePlace'
    BY <1>1, <2>1, <2>2, <2>3 DEF OnePlace, Apart
  <2> QED
    BY <2>4, <2>5
<1>4. CASE TakeClouds
  <2>1. HandOver(fetched) /\ fetched' = <<>> /\ UNCHANGED <<inClouds, raw, handled>>
    BY <1>4 DEF TakeClouds, HandOver
  <2>2. /\ queue' \in Seq(Item)
        /\ Elements(queue') = Elements(queue) \cup Elements(fetched)
        /\ (IsInjective(queue) /\ IsInjective(fetched) /\ Apart(queue, fetched)) => IsInjective(queue')
    BY <1>2, <2>1, HandedOver
  <2>3. Elements(fetched') = {} /\ IsInjective(fetched') /\ fetched' \in Seq(Foreign)
    BY <2>1, Emptied, EmptySeq
  <2>4. Sequences5'
    BY <1>1, <2>1, <2>2, <2>3 DEF Sequences5
  <2>5. OnePlace'
    BY <1>1, <2>1, <2>2, <2>3 DEF OnePlace, Apart
  <2> QED
    BY <2>4, <2>5
<1> QED
  BY <1>3, <1>4 DEF HandOverAll

(* The changes worker gets the head of the queue, or the queue stays as it is. *)
LEMMA WorkerEvents == ASSUME Placed, Worker PROVE Sequences5' /\ OnePlace'
<1>1. Sequences5 /\ OnePlace /\ UNCHANGED <<raw, inClouds, fetched>>
  BY DEF Placed, Worker
<1>2. queue \in Seq(Item) /\ handled \in Seq(Item)
  BY <1>1 DEF Sequences5
<1>3. CASE Buff!Take
  <2>1. queue # <<>> /\ queue' = Tail(queue)
    BY <1>3 DEF Buff!Take
  <2>2. /\ Head(queue) \in Item /\ Tail(queue) \in Seq(Item) /\ Tail(queue) # queue
        /\ Elements(queue) = {Head(queue)} \cup Elements(Tail(queue))
        /\ IsInjective(queue) =>
             (IsInjective(Tail(queue)) /\ Head(queue) \notin Elements(Tail(queue)))
    BY <1>2, <2>1, Beheaded, Zenon
  <2>3. handled' = Append(handled, Head(queue))
    BY <2>1, <2>2 DEF Worker
  <2>4. /\ handled' \in Seq(Item)
        /\ Elements(handled') = Elements(handled) \cup {Head(queue)}
        /\ (IsInjective(handled) /\ Head(queue) \notin Elements(handled)) => IsInjective(handled')
    <3>1. ASSUME NEW e \in Item
          PROVE  /\ Append(handled, e) \in Seq(Item)
                 /\ Elements(Append(handled, e)) = Elements(handled) \cup {e}
                 /\ (IsInjective(handled) /\ e \notin Elements(handled)) =>
                      IsInjective(Append(handled, e))
      BY <1>2, Appended
    <3> QED
      BY <2>2, <2>3, <3>1, Zenon
  <2>5. queue' \in Seq(Item) /\ handled' \in Seq(Item)
    BY <2>1, <2>2, <2>4, Zenon
  <2>6. Sequences5'
    BY <1>1, <2>5 DEF Sequences5
  <2>7. OnePlace'
    BY <1>1, <2>1, <2>2, <2>4 DEF OnePlace, Apart
  <2> QED
    BY <2>6, <2>7
<1>4. CASE ~Buff!Take
  <2>1. queue' = queue
    BY <1>4 DEF Worker, Buff!Consume, Buff!LockToTest, Buff!ReturnFalse, Buff!DecideToSleep,
                Buff!Sleep
  <2>2. handled' = handled
    BY <2>1 DEF Worker
  <2> QED
    BY <1>1, <2>1, <2>2 DEF Sequences5, OnePlace, Apart
<1> QED
  BY <1>3, <1>4

LEMMA EventsStep == ASSUME Placed, [Next]_vars PROVE Sequences5' /\ OnePlace'
<1>1. CASE UNCHANGED <<raw, inClouds, fetched, queue, handled>>
  BY <1>1 DEF Placed, Sequences5, OnePlace, Apart
<1>2. CASE Watcher \/ Main \/ Ask \/ Kill \/ RemovePidFile \/ Rest \/ UNCHANGED vars
  <2>1. UNCHANGED <<raw, inClouds, fetched, queue, handled>>
    BY <1>2 DEF Watcher, SetDirty, NotifyPoller, Main, StopWatching, SetExit, JoinPoller,
                CloseBuff, Buff!CloseStore, Buff!CloseNotify, JoinWorker, Stays, Ask, Kill,
                RemovePidFile, Rest, vars, buffVars
  <2> QED
    BY <1>1, <2>1
<1>3. CASE Poller
  <2>1. CASE GetChanges  BY <2>1, GetChangesEvents
  <2>2. CASE HandOverAll BY <2>2, HandOverEvents
  <2>3. CASE ~GetChanges /\ ~HandOverAll
    <3>1. UNCHANGED <<raw, inClouds, fetched, queue, handled>>
      BY <1>3, <2>3 DEF Poller, LoopTest, Wanted, GoesToSleep, Sleeps, Woken, Timeout,
                        Polls, buffVars
    <3> QED
      BY <1>1, <3>1
  <2> QED
    BY <2>1, <2>2, <2>3
<1> QED
  BY <1>2, <1>3, HappensEvents, CloudHasEvents, WorkerEvents DEF Next

(* What OnePlace says place by place, TypeOK says of the concatenation. *)
LEMMA PlacedOK == Placed => TypeOK
<1> SUFFICES ASSUME Placed PROVE TypeOK
  OBVIOUS
<1>1. /\ raw \in Seq(Item) /\ inClouds \in Seq(Item) /\ fetched \in Seq(Item)
      /\ queue \in Seq(Item) /\ handled \in Seq(Item)
  BY Wider DEF Placed, Sequences5
<1> DEFINE two == raw \o inClouds
           three == two \o fetched
           four == three \o queue
<1>2. two \in Seq(Item) /\ three \in Seq(Item) /\ four \in Seq(Item)
  BY <1>1, ConcatProperties
<1>3. /\ Elements(two) = Elements(raw) \cup Elements(inClouds)
      /\ IsInjective(two) <=> (IsInjective(raw) /\ IsInjective(inClouds) /\ Apart(raw, inClouds))
  BY <1>1, Joined, Zenon
<1> HIDE DEF two
<1>4. /\ Elements(three) = Elements(two) \cup Elements(fetched)
      /\ IsInjective(three) <=> (IsInjective(two) /\ IsInjective(fetched) /\ Apart(two, fetched))
  BY <1>1, <1>2, Joined, Zenon
<1> HIDE DEF three
<1>5. /\ Elements(four) = Elements(three) \cup Elements(queue)
      /\ IsInjective(four) <=> (IsInjective(three) /\ IsInjective(queue) /\ Apart(three, queue))
  BY <1>1, <1>2, Joined, Zenon
<1> HIDE DEF four
<1>6. IsInjective(four \o handled) <=>
        (IsInjective(four) /\ IsInjective(handled) /\ Apart(four, handled))
  BY <1>1, <1>2, Joined, Zenon
<1>7. IsInjective(four \o handled)
  BY <1>3, <1>4, <1>5, <1>6 DEF Placed, OnePlace, Apart
<1>8. IsInjective(raw \o inClouds \o fetched \o queue \o handled)
  BY <1>7 DEF two, three, four
<1>9. Buff!TypeOK
  BY <1>1 DEF Placed, Lock, Buff!TypeOK
<1> QED
  BY <1>8, <1>9 DEF Placed, TypeOK, Sequences5, Places, Flags

(* An event is in one place only, in whatever order the threads run, and the *)
(* mutex of _changes_buff is held only by a changes worker inside pop().      *)
THEOREM TypeCorrect == Spec => []TypeOK
<1>1. Placed /\ [Next]_vars => Placed'
  BY EventsStep, PlacesStep, FlagsStep, LockStep DEF Placed
<1> QED
  BY <1>1, InitTypeInv, PlacedOK, PTL DEF Spec

-----------------------------------------------------------------------------
(* A step of the daemon does to the queue what a step of the queue does, and  *)
(* a batch finds the mutex free, hence the worker not half-way into its sleep. *)
LEMMA SleepStep ==
  ASSUME Placed, NoSleepOverItems, [Next]_vars PROVE NoSleepOverItems'
<1> USE DEF Placed, Lock, NoSleepOverItems, Buff!NoSleepOverItems
<1>1. CASE UNCHANGED buffVars
  BY <1>1 DEF buffVars
<1>2. ASSUME NEW s, Buff!PushBatch(s) PROVE NoSleepOverItems'
  BY <1>2 DEF Buff!PushBatch
<1>3. CASE Buff!Consume
  <2>1. CASE Buff!LockToTest    BY <2>1 DEF Buff!LockToTest
  <2>2. CASE Buff!Take          BY <2>2 DEF Buff!Take
  <2>3. CASE Buff!ReturnFalse   BY <2>3 DEF Buff!ReturnFalse
  <2>4. CASE Buff!DecideToSleep BY <2>4 DEF Buff!DecideToSleep
  <2>5. CASE Buff!Sleep         BY <2>5 DEF Buff!Sleep
  <2> QED
    BY <1>3, <2>1, <2>2, <2>3, <2>4, <2>5 DEF Buff!Consume
<1>4. CASE Buff!CloseStore \/ Buff!CloseNotify
  BY <1>4 DEF Buff!CloseStore, Buff!CloseNotify
<1>5. CASE Poller
  <2>1. (UNCHANGED buffVars) \/ (\E s \in {raw, fetched} : Buff!PushBatch(s))
    BY <1>5 DEF Poller, LoopTest, Wanted, GoesToSleep, Sleeps, Woken, Timeout, GetChanges,
                HandOverAll, TakeLocal, TakeClouds, HandOver, Polls
  <2> QED
    BY <2>1, <1>1, <1>2
<1>6. CASE Worker
  BY <1>6, <1>3 DEF Worker
<1>7. CASE Main
  <2>1. (UNCHANGED buffVars) \/ Buff!CloseStore \/ Buff!CloseNotify
    BY <1>7 DEF Main, StopWatching, SetExit, JoinPoller, CloseBuff, JoinWorker
  <2> QED
    BY <2>1, <1>1, <1>4
<1>8. CASE (\E e \in Watched : Happens(e)) \/ (\E e \in Foreign : CloudHas(e)) \/ Watcher
  BY <1>8, <1>1 DEF Happens, CloudHas, Watcher, SetDirty, NotifyPoller
<1>9. CASE Ask \/ Kill \/ RemovePidFile \/ Rest \/ UNCHANGED vars
  BY <1>9, <1>1 DEF Ask, Kill, RemovePidFile, Rest, vars
<1> QED
  BY <1>5, <1>6, <1>7, <1>8, <1>9 DEF Next

(* The changes worker never blocks while there is a change in its queue.     *)
THEOREM NeverAsleepOverItems == Spec => []NoSleepOverItems
<1>1. Init => NoSleepOverItems
  BY DEF Init, Buff!Init, NoSleepOverItems, Buff!NoSleepOverItems
<1>2. Placed /\ [Next]_vars => Placed'
  BY EventsStep, PlacesStep, FlagsStep, LockStep DEF Placed
<1> QED
  BY <1>1, <1>2, InitTypeInv, SleepStep, PTL DEF Spec

-----------------------------------------------------------------------------
(* ThreadSafeQueue by itself, as all of the program uses it: with batches.  *)
CONSTANT MaxBatch
Queue == INSTANCE ThreadSafeQueue

(* A batch is a sequence of items. *)
LEMMA BatchIsSeq == ASSUME NEW s \in Queue!Batches PROVE s \in Seq(Item)
<1>1. PICK n \in 0..MaxBatch : s \in [1..n -> Item]
  BY DEF Queue!Batches
<1>2. n \in Nat
  OBVIOUS
<1> QED
  BY <1>1, <1>2, SeqDef

(* What is appended to a sequence does not change its beginning. *)
LEMMA PrefixKept ==
  ASSUME NEW S, NEW q \in Seq(S), NEW s \in Seq(S)
  PROVE  /\ q \o s \in Seq(S)
         /\ Len(q \o s) >= Len(q)
         /\ SubSeq(q \o s, 1, Len(q)) = q
<1>1. Len(q) \in Nat /\ Len(s) \in Nat
  BY LenProperties
<1>2. SubSeq(q \o s, 1, Len(q)) = q
  <2>1. CASE q = <<>>
    BY <2>1, EmptySeq, SubSeqEmpty
  <2>2. CASE q # <<>>
    <3>1. 1 \in 1..Len(q) /\ Len(q) \in 1..Len(q)
      BY <1>1, <2>2, EmptySeq
    <3> QED
      BY <3>1, SubSeqOfConcat1, SubSeqFull
  <2> QED
    BY <2>1, <2>2
<1> QED
  BY <1>1, <1>2, ConcatProperties

-----------------------------------------------------------------------------
(* Every step preserves the type invariant. *)
LEMMA QueueTypeStep == ASSUME Queue!TypeOK, [Queue!Next]_(Queue!vars) PROVE Queue!TypeOK'
<1> USE DEF Queue!TypeOK, Queue!PopPc, Queue!ClosePc
<1>1. ASSUME NEW x \in Item, Queue!Push(x) PROVE Queue!TypeOK'
  BY <1>1, AppendProperties DEF Queue!Push
<1>2. ASSUME NEW s \in Queue!Batches, Queue!PushBatch(s) PROVE Queue!TypeOK'
  BY <1>2, BatchIsSeq, ConcatProperties DEF Queue!PushBatch
<1>3. CASE Queue!TryPop
  BY <1>3, HeadTailProperties DEF Queue!TryPop
<1>4. CASE Queue!Consume
  <2>1. CASE Queue!LockToTest    BY <2>1 DEF Queue!LockToTest
  <2>2. CASE Queue!Take          BY <2>2, HeadTailProperties DEF Queue!Take
  <2>3. CASE Queue!ReturnFalse   BY <2>3 DEF Queue!ReturnFalse
  <2>4. CASE Queue!DecideToSleep BY <2>4 DEF Queue!DecideToSleep
  <2>5. CASE Queue!Sleep         BY <2>5 DEF Queue!Sleep
  <2> QED BY <1>4, <2>1, <2>2, <2>3, <2>4, <2>5 DEF Queue!Consume
<1>5. CASE Queue!SpuriousWake BY <1>5 DEF Queue!SpuriousWake
<1>6. CASE Queue!CloseStore   BY <1>6 DEF Queue!CloseStore
<1>7. CASE Queue!CloseNotify  BY <1>7 DEF Queue!CloseNotify
<1>8. CASE UNCHANGED Queue!vars
  BY <1>8 DEF Queue!vars
<1> QED
  BY <1>1, <1>2, <1>3, <1>4, <1>5, <1>6, <1>7, <1>8 DEF Queue!Next

LEMMA QueueTypeInit == Queue!Init => Queue!TypeOK
  BY EmptySeq DEF Queue!Init, Queue!TypeOK, Queue!PopPc, Queue!ClosePc

(* The mutex is held only by a consumer inside pop(), and only a consumer  *)
(* that released it there is on the condition variable's list.             *)
THEOREM QueueTypeCorrect == Queue!Spec => []Queue!TypeOK
  BY QueueTypeInit, QueueTypeStep, PTL DEF Queue!Spec

(* One step cannot leave the consumer asleep over an item: a push finds    *)
(* _mutex free, hence the consumer not half-way into its sleep, and wakes  *)
(* it.                                                                     *)
LEMMA QueueSleepStep ==
  ASSUME Queue!TypeOK, Queue!NoSleepOverItems, [Queue!Next]_(Queue!vars)
  PROVE  Queue!NoSleepOverItems'
<1> USE DEF Queue!TypeOK, Queue!NoSleepOverItems
<1>1. ASSUME NEW x \in Item, Queue!Push(x) PROVE Queue!NoSleepOverItems'
  BY <1>1 DEF Queue!Push
<1>2. ASSUME NEW s \in Queue!Batches, Queue!PushBatch(s) PROVE Queue!NoSleepOverItems'
  BY <1>2 DEF Queue!PushBatch
<1>3. CASE Queue!TryPop
  BY <1>3 DEF Queue!TryPop
<1>4. CASE Queue!Consume
  BY <1>4 DEF Queue!Consume, Queue!LockToTest, Queue!Take, Queue!ReturnFalse, Queue!DecideToSleep, Queue!Sleep
<1>5. CASE Queue!SpuriousWake \/ Queue!CloseStore \/ Queue!CloseNotify \/ UNCHANGED Queue!vars
  BY <1>5 DEF Queue!SpuriousWake, Queue!CloseStore, Queue!CloseNotify, Queue!vars
<1> QED
  BY <1>1, <1>2, <1>3, <1>4, <1>5 DEF Queue!Next

(* A consumer that blocks in pop() does so on an empty queue. *)
THEOREM QueueNeverSleeps == Queue!Spec => []Queue!NoSleepOverItems
<1>1. Queue!Init => Queue!NoSleepOverItems
  BY DEF Queue!Init, Queue!NoSleepOverItems
<1> QED
  BY <1>1, QueueTypeInit, QueueTypeStep, QueueSleepStep, PTL DEF Queue!Spec

-----------------------------------------------------------------------------
(* The queue loses, duplicates and reorders nothing, and pop() reports the *)
(* end only when the queue is closed and drained.  (That every item is     *)
(* popped is checked with TLC.)                                            *)
THEOREM QueueSafety == Queue!Spec => Queue!Abstract!Spec
<1>1. Queue!Init => Queue!Abstract!Init
  BY DEF Queue!Init, Queue!Abstract!Init
<1>2. ASSUME Queue!TypeOK, [Queue!Next]_(Queue!vars) PROVE [Queue!Abstract!Next]_(Queue!Abstract!vars)
  <2> USE DEF Queue!TypeOK
  <2>1. ASSUME NEW x \in Item, Queue!Push(x) PROVE Queue!Abstract!Push
    <3>1. queue' = queue \o <<x>>
      BY <2>1, AppendIsConcat DEF Queue!Push
    <3>2. <<x>> \in Seq(Item)
      OBVIOUS
    <3>3. queue \in Seq(Item)
      BY <1>2
    <3>4. /\ queue' \in Seq(Item)
          /\ Len(queue') >= Len(queue)
          /\ SubSeq(queue', 1, Len(queue)) = queue
      BY <3>1, <3>2, <3>3, PrefixKept, Zenon
    <3>5. closed' = closed /\ popPc' = popPc
      BY <2>1 DEF Queue!Push
    <3> QED
      BY <3>4, <3>5 DEF Queue!Abstract!Push
  <2>2. ASSUME NEW s \in Queue!Batches, Queue!PushBatch(s) PROVE Queue!Abstract!Push
    <3>1. queue' = queue \o s
      BY <2>2 DEF Queue!PushBatch
    <3>2. queue \in Seq(Item) /\ s \in Seq(Item)
      BY <1>2, BatchIsSeq
    <3>3. /\ queue' \in Seq(Item)
          /\ Len(queue') >= Len(queue)
          /\ SubSeq(queue', 1, Len(queue)) = queue
      BY <3>1, <3>2, PrefixKept, Zenon
    <3>4. closed' = closed /\ popPc' = popPc
      BY <2>2 DEF Queue!PushBatch
    <3> QED
      BY <3>3, <3>4 DEF Queue!Abstract!Push
  <2>3. CASE Queue!TryPop \/ Queue!Take
    BY <2>3 DEF Queue!TryPop, Queue!Take, Queue!Abstract!Pop, Queue!Abstract!Next
  <2>4. CASE Queue!ReturnFalse
    BY <2>4 DEF Queue!ReturnFalse, Queue!Abstract!End, Queue!Abstract!Next
  <2>5. CASE Queue!CloseStore
    BY <2>5 DEF Queue!CloseStore, Queue!Abstract!Close, Queue!Abstract!Next
  <2>6. CASE Queue!LockToTest \/ Queue!DecideToSleep \/ Queue!Sleep \/ Queue!SpuriousWake \/ Queue!CloseNotify
    BY <2>6 DEF Queue!LockToTest, Queue!DecideToSleep, Queue!Sleep, Queue!SpuriousWake, Queue!CloseNotify,
                Queue!Abstract!vars
  <2>7. CASE UNCHANGED Queue!vars
    BY <2>7 DEF Queue!vars, Queue!Abstract!vars
  <2> QED
    BY <1>2, <2>1, <2>2, <2>3, <2>4, <2>5, <2>6, <2>7
    DEF Queue!Next, Queue!Consume, Queue!Abstract!Next
<1> QED
  BY <1>1, <1>2, QueueTypeInit, QueueTypeStep, PTL DEF Queue!Spec, Queue!Abstract!Spec

-----------------------------------------------------------------------------
(***************************************************************************)
(* Proofs about Directories, for any clouds, tree of directories, number   *)
(* of users' directories and of restarts.                                  *)
(*                                                                         *)
(* The argument.  Types alone are not enough, for createPath() carries ids *)
(* and entries from one write to the next: TypeInv adds what the idle      *)
(* worker leaves behind and that ids are of rows.  Faithful is what the    *)
(* database and createPath()'s variables say of the world: a row or a link *)
(* is of something that exists, what is still to be written has no row     *)
(* yet.  Known is about the path at hand: which of its prefixes are linked *)
(* or will be, by an entry.  Explained is about the local directories:     *)
(* each was made by a user, by this life of the process or an earlier one. *)
(***************************************************************************)

-----------------------------------------------------------------------------
(* The inductive invariant: TypeInv, Faithful, Known and Explained. *)

Tables(d) ==
  d = [files |-> d.files, links |-> d.links, lastId |-> d.lastId] /\ d.lastId \in Nat
Directory == UNION {exists[s] : s \in Storage}

TypeInv ==
  /\ exists \in [Storage -> SUBSET Path]
  /\ IsFiniteSet(Directory)
  /\ Tables(db)
  /\ \A id \in DOMAIN db.files : id \in 1..db.lastId /\ db.files[id].path \in Path
  /\ DOMAIN db.links \subseteq (DOMAIN db.files) \X Cloud
  /\ changes \in Seq(Path)
  /\ step \in Step
  /\ IF step = "idle" THEN /\ path = <<>> /\ missing = 0 /\ made = <<>>
                           /\ ids = <<>> /\ todo = {} /\ entries = {}
                      ELSE path \in Path /\ missing \in 1..Len(path)
  /\ made \in Seq(Path)
  /\ DOMAIN ids \subseteq Path
  /\ \A p \in DOMAIN ids : ids[p] \in DOMAIN db.files
  /\ todo \subseteq Cloud
  /\ entries \subseteq Cloud \X (DOMAIN db.files)
  /\ up \in BOOLEAN /\ threw \in BOOLEAN
  /\ restarts \in 0..MaxRestarts
  /\ ~up => step = "idle"

(* What createPath() is about to write. *)
MadeFresh ==
  /\ \A i \in DOMAIN made : made[i] \in exists[Local] /\ ~HasRow(db, made[i])
  /\ \A i, j \in DOMAIN made : made[i] = made[j] => i = j
  /\ made # <<>> => step \in {"local", "rows"}
IdsRight == \A p \in DOMAIN ids : db.files[ids[p]].path = p
EntriesReal == \A e \in entries : db.files[e[2]].path \in exists[e[1]]
Faithful == RowsAndLinksReal /\ MadeFresh /\ IdsRight /\ EntriesReal

Linked(p) == HasRow(db, p) /\ LinkedClouds(db, GlobalId(db, p)) = Cloud

(* A cloud that createPath() has visited has, or will have, a link. *)
Visited(p, c) ==
  /\ HasRow(db, p)
  /\ \/ c \in LinkedClouds(db, GlobalId(db, p))
     \/ <<c, GlobalId(db, p)>> \in entries

Known ==
  /\ step \in {"local", "rows"} => todo = Cloud
  /\ step # "idle" => \A n \in 1..(Len(path) - missing) : Linked(Prefix(path, n))
  /\ step \in {"clouds", "links"} =>
       \A p \in LackingSet : \A c \in Cloud \ todo : Visited(p, c)
  /\ step = "links" => todo = {}

FirstLife == up /\ restarts = 0 /\ \A p \in Path : <<Local, p>> \notin byUser
Explained ==
  /\ step \in {"rows", "clouds", "links"} => LackingSet \subseteq exists[Local]
  /\ FirstLife => \A p \in exists[Local] : HasRow(db, p) \/ p \in ToSet(made)

-----------------------------------------------------------------------------
(* The tables. *)

(* A new row leaves all others, and all links, alone. *)
LEMMA RowAdded ==
  ASSUME NEW d, Tables(d), NEW p, NEW stat
  PROVE  LET e == WithFile(d, p, stat) IN
         /\ Tables(e) /\ e.lastId = d.lastId + 1 /\ e.links = d.links
         /\ DOMAIN e.files = DOMAIN d.files \cup {NewId(d)}
         /\ e.files[NewId(d)].path = p
         /\ \A id \in DOMAIN d.files : id # NewId(d) => e.files[id] = d.files[id]
<1> DEFINE e == WithFile(d, p, stat)
           row == [path |-> p, stat |-> stat]
           new == Put(d.files, NewId(d), row)
<1>1. e = [files |-> new, links |-> d.links, lastId |-> d.lastId + 1]
  <2>1. e = [d EXCEPT !.files = new, !.lastId = NewId(d)]
    BY DEF WithFile
  <2> HIDE DEF new
  <2> QED
    BY <2>1 DEF NewId, Tables
<1>2. /\ e.lastId = d.lastId + 1 /\ e.links = d.links
      /\ e.files = Put(d.files, NewId(d), row)
  BY <1>1
<1>5. Tables(e)
  BY <1>1, <1>2 DEF Tables
<1> HIDE DEF e
<1>3. NewId(d) = d.lastId + 1 /\ row.path = p
  BY DEF NewId
<1> HIDE DEF row
<1>4. /\ DOMAIN e.files = DOMAIN d.files \cup {NewId(d)}
      /\ e.files[NewId(d)] = row
      /\ \A id \in DOMAIN d.files : id # NewId(d) => e.files[id] = d.files[id]
  BY <1>2, <1>3 DEF Put
<1> QED
  BY <1>2, <1>3, <1>4, <1>5 DEF e

LEMMA RowsAfter ==
  ASSUME NEW d, Tables(d), \A id \in DOMAIN d.files : id \in 1..d.lastId,
         NEW p, NEW stat, NEW q
  PROVE  RowsOf(WithFile(d, p, stat), q)
           = RowsOf(d, q) \cup (IF q = p THEN {NewId(d)} ELSE {})
<1> DEFINE e == WithFile(d, p, stat)
<1>1. \A id \in DOMAIN d.files : id # NewId(d)
  BY DEF NewId, Tables
<1>2. /\ DOMAIN e.files = DOMAIN d.files \cup {NewId(d)}
      /\ e.files[NewId(d)].path = p
      /\ \A id \in DOMAIN d.files : e.files[id] = d.files[id]
  BY <1>1, RowAdded
<1> HIDE DEF e
<1>3. RowsOf(e, q) = RowsOf(d, q) \cup (IF q = p THEN {NewId(d)} ELSE {})
  BY <1>1, <1>2 DEF RowsOf
<1> QED
  BY <1>3 DEF e

LEMMA LinkAdded ==
  ASSUME NEW d, Tables(d), NEW id, NEW c, NEW stat
  PROVE  LET e == WithLink(d, id, c, stat) IN
         /\ Tables(e) /\ e.lastId = d.lastId /\ e.files = d.files
         /\ DOMAIN e.links = DOMAIN d.links \cup {<<id, c>>}
<1> DEFINE e == WithLink(d, id, c, stat)
           stats == [x \in {c} |-> stat]
           links == [key \in DOMAIN d.links \cup ({id} \X DOMAIN stats) |->
                       IF key \in DOMAIN d.links THEN d.links[key] ELSE stats[key[2]]]
<1>1. e = [files |-> d.files, links |-> links, lastId |-> d.lastId]
  BY DEF WithLink, WithLinks, Tables
<1>2. Tables(e) /\ e.lastId = d.lastId /\ e.files = d.files /\ e.links = links
  BY <1>1 DEF Tables
<1>3. {id} \X DOMAIN stats = {<<id, c>>}
  OBVIOUS
<1>4. DOMAIN links = DOMAIN d.links \cup ({id} \X DOMAIN stats)
  OBVIOUS
<1> QED
  BY <1>2, <1>3, <1>4

LEMMA LinksAfter ==
  ASSUME NEW d, Tables(d), NEW id, NEW c, NEW stat, NEW other
  PROVE  /\ LinkedClouds(d, other) \subseteq LinkedClouds(WithLink(d, id, c, stat), other)
         /\ c \in LinkedClouds(WithLink(d, id, c, stat), id)
<1> DEFINE e == WithLink(d, id, c, stat)
<1>1. DOMAIN e.links = DOMAIN d.links \cup {<<id, c>>}
  BY LinkAdded
<1> HIDE DEF e
<1>2. /\ LinkedClouds(d, other) \subseteq LinkedClouds(e, other)
      /\ c \in LinkedClouds(e, id)
  <2>1. <<id, c>>[1] = id /\ <<id, c>>[2] = c
    OBVIOUS
  <2> QED
    BY <1>1, <2>1 DEF LinkedClouds
<1> QED
  BY <1>2 DEF e

(* The row of a path, if no path has two. *)
LEMMA TheRow ==
  ASSUME NEW d, Tables(d), \A id \in DOMAIN d.files : id \in 1..d.lastId,
         \A i, j \in DOMAIN d.files : d.files[i].path = d.files[j].path => i = j,
         NEW p, NEW id \in RowsOf(d, p)
  PROVE  GlobalId(d, p) = id
<1>1. RowsOf(d, p) = {id}
  BY DEF RowsOf
<1>2. id <= id
  BY DEF RowsOf, Tables
<1> QED
  BY <1>1, <1>2 DEF GlobalId

-----------------------------------------------------------------------------
(* Paths. *)

LEMMA PathsAreSeqs ==
  ASSUME NEW p \in Path
  PROVE  /\ p \in Seq(Name) /\ Len(p) \in Nat \ {0} /\ DOMAIN p = 1..Len(p)
         /\ \A n \in 1..Len(p) : Prefix(p, n) \in Path
<1>1. p \in Seq(Name) /\ p # <<>>
  BY DirectoriesAssumption
<1>2. Len(p) \in Nat \ {0} /\ DOMAIN p = 1..Len(p)
  BY <1>1
<1> QED
  BY <1>1, <1>2, DirectoriesAssumption

LEMMA PrefixesFinite ==
  ASSUME NEW p \in Path
  PROVE  IsFiniteSet({Prefix(p, n) : n \in DOMAIN p})
<1> DEFINE T == {Prefix(p, n) : n \in DOMAIN p}
           f == [n \in DOMAIN p |-> Prefix(p, n)]
<1>1. IsFiniteSet(DOMAIN p)
  BY PathsAreSeqs, FS_Interval
<1>2. f \in Surjection(DOMAIN p, T)
  BY DEF Surjection
<1> QED
  BY <1>1, <1>2, FS_Surjection

(* createPath() makes the prefixes from the first missing component on. *)
LEMMA LackingIs ==
  ASSUME path \in Path, missing \in 1..Len(path)
  PROVE  /\ LackingSet = {Prefix(path, n) : n \in (Len(path) - missing + 1)..Len(path)}
         /\ LackingSet \subseteq {Prefix(path, n) : n \in DOMAIN path}
         /\ LackingSet \subseteq Path
         /\ IsFiniteSet(LackingSet)
<1>1. Len(path) \in Nat /\ DOMAIN path = 1..Len(path)
  BY PathsAreSeqs
<1>2. LackingSet = {Prefix(path, Len(path) - missing + i) : i \in 1..missing}
  BY DEF LackingSet, Lacking
<1>3. \A i \in 1..missing : Len(path) - missing + i \in (Len(path) - missing + 1)..Len(path)
  BY <1>1
<1>4. \A n \in (Len(path) - missing + 1)..Len(path) :
        /\ n - (Len(path) - missing) \in 1..missing
        /\ n = Len(path) - missing + (n - (Len(path) - missing))
  BY <1>1
<1>5. LackingSet = {Prefix(path, n) : n \in (Len(path) - missing + 1)..Len(path)}
  BY <1>2, <1>3, <1>4
<1>6. \A n \in (Len(path) - missing + 1)..Len(path) : n \in 1..Len(path)
  BY <1>1
<1>7. LackingSet \subseteq {Prefix(path, n) : n \in DOMAIN path}
  BY <1>1, <1>5, <1>6
<1>8. LackingSet \subseteq Path
  BY <1>5, <1>6, PathsAreSeqs
<1> QED
  BY <1>5, <1>7, <1>8, PrefixesFinite, FS_Subset

LEMMA SmallestNat ==
  ASSUME NEW T, T \subseteq Nat, T # {}
  PROVE  \E x \in T : \A y \in T : x <= y
<1> DEFINE R == OpToRel(<, Nat)
<1>1. IsWellFoundedOn(R, Nat)
  BY NatLessThanWellFounded
<1>2. \A x, y \in Nat : <<y, x>> \notin R => x <= y
  BY DEF OpToRel
<1> HIDE DEF R
<1>3. PICK x \in T : \A y \in T : ~ (<<y, x>> \in R)
  BY <1>1, WFMin
<1> QED
  BY <1>2, <1>3

(* getMissingPathPart(): what is in front of the missing part is mirrored, *)
(* and nothing is missing only if all of the path is.                      *)
LEMMA MissingIs ==
  ASSUME NEW d, NEW p \in Path, NEW clouds
  PROVE  LET lacks == Len(MissingPathPart(d, p, clouds)) IN
         /\ lacks \in 0..Len(p)
         /\ \A n \in 1..(Len(p) - lacks) : Mirrored(d, Prefix(p, n), clouds)
         /\ (\A n \in 1..Len(p) : Mirrored(d, Prefix(p, n), clouds))
              => MissingPathPart(d, p, clouds) = <<>>
<1> DEFINE T == {n \in DOMAIN p : ~Mirrored(d, Prefix(p, n), clouds)}
           first == CHOOSE n \in T : \A m \in T : n <= m
           part == MissingPathPart(d, p, clouds)
<1>1. p \in Seq(Name) /\ Len(p) \in Nat \ {0} /\ DOMAIN p = 1..Len(p)
  BY PathsAreSeqs
<1>2. CASE T = {}
  <2>1. part = <<>> /\ Len(part) = 0
    BY <1>2 DEF MissingPathPart
  <2> QED
    BY <1>1, <1>2, <2>1
<1>3. CASE T # {}
  <2>8. T \subseteq Nat
    BY <1>1
  <2>1. \E n \in T : \A m \in T : n <= m
    <3> HIDE DEF T
    <3> QED
      BY <1>3, <2>8, SmallestNat
  <2>2. first \in T /\ \A m \in T : first <= m
    BY <2>1
  <2>3. part = SubSeq(p, first, Len(p))
    BY <1>3 DEF MissingPathPart
  <2> HIDE DEF first
  <2>4. first \in 1..Len(p)
    BY <1>1, <2>2
  <2>5. Len(part) = Len(p) - first + 1
    BY <1>1, <2>3, <2>4
  <2> HIDE DEF part
  <2>6. Len(part) \in 0..Len(p) /\ Len(p) - Len(part) = first - 1
    BY <1>1, <2>4, <2>5
  <2>7. \A n \in 1..(first - 1) : n \in DOMAIN p /\ n \notin T
    BY <1>1, <2>2, <2>4
  <2> QED
    BY <1>1, <1>3, <2>6, <2>7 DEF part
<1> QED
  BY <1>2, <1>3

(* An order of directories is a sequence of them. *)
LEMMA OrdersAreSeqs ==
  ASSUME NEW S \in SUBSET Path, IsFiniteSet(S), NEW order \in SetToSeqs(S)
  PROVE  order \in Seq(Path)
<1>1. Cardinality(S) \in Nat
  BY FS_CardinalityType
<1> QED
  BY <1>1 DEF SetToSeqs

-----------------------------------------------------------------------------
(* Types. *)

LEMMA FirstRow ==
  ASSUME NEW d, Tables(d), \A id \in DOMAIN d.files : id \in 1..d.lastId,
         NEW p, HasRow(d, p)
  PROVE  GlobalId(d, p) \in RowsOf(d, p)
<1>1. RowsOf(d, p) \subseteq Nat /\ RowsOf(d, p) # {}
  BY DEF RowsOf, HasRow, Tables
<1>2. \E id \in RowsOf(d, p) : \A other \in RowsOf(d, p) : id <= other
  BY <1>1, SmallestNat
<1> QED
  BY <1>2 DEF GlobalId

(* Directories come, in one storage at a time, and none goes. *)
Grown(s, new) == exists' = [exists EXCEPT ![s] = @ \cup new]

LEMMA GrownTyped ==
  ASSUME TypeInv, NEW s \in Storage, NEW new \in SUBSET Path, IsFiniteSet(new), Grown(s, new)
  PROVE  /\ exists' \in [Storage -> SUBSET Path] /\ IsFiniteSet(Directory')
         /\ exists'[s] = exists[s] \cup new
         /\ \A t \in Storage : t # s => exists'[t] = exists[t]
<1>1. /\ exists' \in [Storage -> SUBSET Path]
      /\ exists'[s] = exists[s] \cup new
      /\ \A t \in Storage : t # s => exists'[t] = exists[t]
  BY DEF TypeInv, Grown
<1>2. Directory' \subseteq Directory \cup new
  BY <1>1 DEF Directory
<1>3. IsFiniteSet(Directory \cup new)
  BY FS_Union DEF TypeInv
<1> QED
  BY <1>1, <1>2, <1>3, FS_Subset

LEMMA InitTyped == DirInit => TypeInv
<1> SUFFICES ASSUME DirInit PROVE TypeInv
  OBVIOUS
<1>1. Directory = {}
  BY DEF DirInit, Directory
<1>2. IsFiniteSet(Directory)
  BY <1>1, FS_EmptySet
<1>3. Tables(db) /\ db.files = <<>> /\ db.links = <<>>
  BY DEF DirInit, EmptyDb, Tables
<1>4. DOMAIN db.files = {} /\ DOMAIN db.links = {} /\ DOMAIN ids = {}
  BY <1>3 DEF DirInit
<1>5. exists \in [Storage -> SUBSET Path]
  BY DEF DirInit
<1>6. up = TRUE /\ threw = FALSE
  BY DEF DirInit
<1>7. up \in BOOLEAN /\ threw \in BOOLEAN
  BY <1>6
<1>8. restarts \in 0..MaxRestarts
  BY DirectoriesAssumption DEF DirInit
<1> QED
  BY <1>2, <1>3, <1>4, <1>5, <1>6, <1>7, <1>8 DEF DirInit, TypeInv, Step

(* Nothing but the worker's variables is reset, and they to what is idle. *)
LEMMA IdleTyped ==
  ASSUME TypeInv, Idle, UNCHANGED db, exists' \in [Storage -> SUBSET Path],
         IsFiniteSet(Directory'), changes' \in Seq(Path), up' \in BOOLEAN, threw' \in BOOLEAN,
         UNCHANGED restarts
  PROVE  TypeInv'
<1>1. DOMAIN ids' = {}
  BY DEF Idle
<1> QED
  BY <1>1 DEF TypeInv, Idle, Step

LEMMA UserTyped ==
  ASSUME TypeInv, NEW s \in Storage, NEW p \in Path, UserMakes(s, p)
  PROVE  TypeInv'
<1> DEFINE new == {Prefix(p, n) : n \in DOMAIN p} \ exists[s]
<1>1. Grown(s, new) /\ UNCHANGED <<db, pathVars, up, threw, restarts>>
  BY DEF UserMakes, Grown
<1>2. {Prefix(p, n) : n \in DOMAIN p} \subseteq Path
  BY DirectoriesAssumption
<1>3. new \in SUBSET Path /\ IsFiniteSet(new)
  BY <1>2, PrefixesFinite, FS_Subset
<1>4. changes' \in Seq(Path)
  <2>1. CASE ~up
    BY <2>1 DEF UserMakes, TypeInv
  <2>2. CASE up
    <3>1. PICK order \in SetToSeqs(new) : changes' = changes \o order
      BY <2>2 DEF UserMakes
    <3>2. order \in Seq(Path)
      BY <1>3, OrdersAreSeqs
    <3> QED
      BY <3>1, <3>2, ConcatProperties DEF TypeInv
  <2> QED
    BY <2>1, <2>2
<1> HIDE DEF new
<1>5. exists' \in [Storage -> SUBSET Path] /\ IsFiniteSet(Directory')
  BY <1>1, <1>3, GrownTyped
<1> QED
  BY <1>1, <1>4, <1>5 DEF TypeInv, pathVars

LEMMA HandleTyped == ASSUME TypeInv, Handle PROVE TypeInv'
<1> DEFINE lacks == Len(MissingPathPart(db, Head(changes), NumClouds))
<1>1. Head(changes) \in Path /\ changes' \in Seq(Path)
  BY HeadTailProperties DEF Handle, TypeInv
<1>2. Len(Head(changes)) \in Nat /\ lacks \in 0..Len(Head(changes))
  BY <1>1, MissingIs, PathsAreSeqs
<1>3. UNCHANGED <<exists, db, up, threw, restarts>> /\ Directory' = Directory
  BY DEF Handle, Directory
<1>4. CASE lacks = 0
  <2>1. UNCHANGED pathVars
    BY <1>4 DEF Handle
  <2> QED
    BY <1>1, <1>3, <2>1 DEF TypeInv, pathVars
<1>5. CASE lacks # 0
  <2>1. /\ step' = "local" /\ path' = Head(changes) /\ missing' = lacks /\ todo' = Cloud
        /\ UNCHANGED <<made, ids, entries>> /\ up /\ up'
    BY <1>5 DEF Handle
  <2> HIDE DEF lacks
  <2>2. path' \in Path /\ missing' \in 1..Len(path')
    BY <1>1, <1>2, <1>5, <2>1
  <2> QED
    BY <1>1, <1>3, <2>1, <2>2 DEF TypeInv, Step
<1> QED
  BY <1>4, <1>5

LEMMA Working ==
  ASSUME TypeInv, step # "idle"
  PROVE  /\ path \in Path /\ missing \in 1..Len(path)
         /\ LackingSet \subseteq Path /\ IsFiniteSet(LackingSet)
  BY LackingIs DEF TypeInv

LEMMA CreateLocalTyped ==
  ASSUME TypeInv, NEW p \in Path, CreateLocal(p) PROVE TypeInv'
<1>1. IsFiniteSet({p}) /\ {p} \in SUBSET Path /\ Local \in Storage
  BY FS_Singleton DEF Storage
<1>2. Grown(Local, {p})
  BY DEF CreateLocal, Grown
<1>3. exists' \in [Storage -> SUBSET Path] /\ IsFiniteSet(Directory')
  BY <1>1, <1>2, GrownTyped
<1>4. made' \in Seq(Path)
  BY DEF CreateLocal, TypeInv
<1> QED
  BY <1>3, <1>4 DEF CreateLocal, TypeInv

LEMMA WriteRowTyped == ASSUME TypeInv, WriteRow PROVE TypeInv'
<1> DEFINE p == Head(made)
<1>1. p \in Path /\ made' \in Seq(Path)
  BY HeadTailProperties DEF WriteRow, TypeInv
<1>2. /\ Tables(db') /\ db'.lastId = db.lastId + 1 /\ db'.links = db.links
      /\ DOMAIN db'.files = DOMAIN db.files \cup {NewId(db)}
      /\ db'.files[NewId(db)].path = p
      /\ \A id \in DOMAIN db.files : id # NewId(db) => db'.files[id] = db.files[id]
  BY RowAdded DEF WriteRow, TypeInv
<1>3. ids' = Put(ids, p, NewId(db))
  BY DEF WriteRow
<1>4. UNCHANGED <<exists, changes, step, path, missing, todo, entries, up, threw, restarts>>
  BY DEF WriteRow
<1> HIDE DEF p
<1>5. /\ DOMAIN ids' = DOMAIN ids \cup {p}
      /\ \A q \in DOMAIN ids' : ids'[q] = NewId(db) \/ (q \in DOMAIN ids /\ ids'[q] = ids[q])
  BY <1>3 DEF Put
<1>6. /\ Tables(db')
      /\ \A id \in DOMAIN db'.files : id \in 1..db'.lastId /\ db'.files[id].path \in Path
  BY <1>1, <1>2 DEF TypeInv, NewId, Tables
<1>7. /\ DOMAIN ids' \subseteq Path
      /\ \A q \in DOMAIN ids' : ids'[q] \in DOMAIN db'.files
  BY <1>1, <1>2, <1>5 DEF TypeInv
<1>8. step \in {"rows"} /\ Directory' = Directory
  BY DEF WriteRow, Directory
<1>9. DOMAIN db'.links \subseteq (DOMAIN db'.files) \X Cloud /\ entries' \subseteq Cloud \X (DOMAIN db'.files)
  BY <1>2, <1>4 DEF TypeInv
<1> QED
  BY <1>1, <1>4, <1>6, <1>7, <1>8, <1>9 DEF TypeInv

LEMMA IdOfTyped ==
  ASSUME TypeInv, NEW p, p \in DOMAIN ids \/ HasRow(db, p)
  PROVE  IdOf(p) \in DOMAIN db.files
  BY FirstRow DEF TypeInv, IdOf, RowsOf

LEMMA CreateInCloudTyped ==
  ASSUME TypeInv, NEW c \in Cloud, CreateInCloud(c) PROVE TypeInv'
<1>1. step = "clouds" /\ LackingSet \subseteq Path /\ IsFiniteSet(LackingSet)
  BY Working DEF CreateInCloud
<1>2. c \in Storage /\ Grown(c, LackingSet)
  BY DEF CreateInCloud, Grown, Storage
<1>3. exists' \in [Storage -> SUBSET Path] /\ IsFiniteSet(Directory')
  BY <1>1, <1>2, GrownTyped
<1>4. \A p \in LackingSet : IdOf(p) \in DOMAIN db.files
  BY IdOfTyped DEF CreateInCloud
<1>5. entries' \subseteq Cloud \X (DOMAIN db.files)
  BY <1>4 DEF CreateInCloud, TypeInv
<1> QED
  BY <1>1, <1>3, <1>5 DEF CreateInCloud, TypeInv

LEMMA ThrowTyped ==
  ASSUME TypeInv, NEW c \in Cloud, CreateInCloudThrows(c) PROVE TypeInv'
<1>1. step = "clouds" /\ LackingSet \subseteq Path /\ IsFiniteSet(LackingSet)
  BY Working DEF CreateInCloudThrows
<1>2. c \in Storage /\ Grown(c, LackingSet)
  BY DEF CreateInCloudThrows, Grown, Storage
<1>3. exists' \in [Storage -> SUBSET Path] /\ IsFiniteSet(Directory')
  BY <1>1, <1>2, GrownTyped
<1>4. /\ Idle /\ changes' = <<>> /\ up' = FALSE /\ threw' = TRUE
      /\ UNCHANGED <<db, restarts>>
  BY DEF CreateInCloudThrows
<1>5. changes' \in Seq(Path)
  BY <1>4
<1>6. up' \in BOOLEAN /\ threw' \in BOOLEAN
  BY <1>4
<1> QED
  BY <1>3, <1>4, <1>5, <1>6, IdleTyped

LEMMA WriteLinkTyped ==
  ASSUME TypeInv, NEW e \in entries, WriteLink(e) PROVE TypeInv'
<1>1. e[1] \in Cloud /\ e[2] \in DOMAIN db.files /\ step = "links"
  BY DEF TypeInv, WriteLink
<1>2. /\ Tables(db') /\ db'.lastId = db.lastId /\ db'.files = db.files
      /\ DOMAIN db'.links = DOMAIN db.links \cup {<<e[2], e[1]>>}
  BY LinkAdded DEF WriteLink, TypeInv
<1>3. DOMAIN db'.links \subseteq (DOMAIN db'.files) \X Cloud
  BY <1>1, <1>2 DEF TypeInv
<1>4. entries' \subseteq Cloud \X (DOMAIN db'.files)
  BY <1>2 DEF TypeInv, WriteLink
<1>5. Directory' = Directory
  BY DEF WriteLink, Directory
<1> QED
  BY <1>1, <1>2, <1>3, <1>4, <1>5 DEF TypeInv, WriteLink

LEMMA DieTyped == ASSUME TypeInv, Die PROVE TypeInv'
<1>1. exists' \in [Storage -> SUBSET Path] /\ IsFiniteSet(Directory')
  <2>1. CASE UNCHANGED exists
    BY <2>1 DEF TypeInv, Directory
  <2>2. ASSUME step = "clouds", NEW c \in todo, NEW n \in 1..missing,
               exists' = [exists EXCEPT ![c] = @ \cup {Lacking[i] : i \in 1..n}]
        PROVE  exists' \in [Storage -> SUBSET Path] /\ IsFiniteSet(Directory')
    <3> DEFINE new == {Lacking[i] : i \in 1..n}
    <3>1. LackingSet \subseteq Path /\ IsFiniteSet(LackingSet) /\ missing \in Nat
      <4>1. step # "idle"
        BY <2>2
      <4> QED
        BY <4>1, Working, PathsAreSeqs
    <3>2. new \subseteq LackingSet
      BY <3>1 DEF LackingSet
    <3>3. new \in SUBSET Path /\ IsFiniteSet(new)
      BY <3>1, <3>2, FS_Subset
    <3>4. c \in Storage /\ Grown(c, new)
      BY <2>2 DEF Storage, Grown, TypeInv
    <3> HIDE DEF new
    <3> QED
      BY <3>3, <3>4, GrownTyped
  <2> QED
    BY <2>1, <2>2 DEF Die
<1>2. Idle /\ changes' = <<>> /\ up' = FALSE /\ UNCHANGED <<db, threw, restarts>>
  BY DEF Die
<1>4. threw \in BOOLEAN
  BY DEF TypeInv
<1>5. changes' \in Seq(Path)
  BY <1>2
<1>3. up' \in BOOLEAN /\ threw' \in BOOLEAN
  BY <1>2, <1>4
<1> QED
  BY <1>1, <1>2, <1>3, <1>5, IdleTyped

LEMMA RestartTyped == ASSUME TypeInv, Restart PROVE TypeInv'
<1> DEFINE found == UNION {Unlinked(c) : c \in Cloud}
<1>1. PICK order \in SetToSeqs(found) : changes' = order
  BY DEF Restart
<1>2. found \subseteq Directory /\ found \in SUBSET Path
  BY DEF Unlinked, Directory, Storage, TypeInv
<1>3. IsFiniteSet(found)
  BY <1>2, FS_Subset DEF TypeInv
<1> HIDE DEF found
<1>4. changes' \in Seq(Path)
  BY <1>1, <1>2, <1>3, OrdersAreSeqs
<1>5. restarts' \in 0..MaxRestarts
  BY DirectoriesAssumption DEF Restart, TypeInv
<1>6. up' = TRUE /\ threw' = FALSE /\ UNCHANGED <<exists, db, pathVars>> /\ Directory' = Directory
  BY DEF Restart, Directory
<1> QED
  BY <1>4, <1>5, <1>6 DEF TypeInv, pathVars

LEMMA TypeStep == ASSUME TypeInv, [DirNext]_dirVars PROVE TypeInv'
<1>1. CASE LocalCreated \/ RowsWritten \/ CloudsVisited
  BY <1>1 DEF LocalCreated, RowsWritten, CloudsVisited, TypeInv, Step, Directory
<1>2. CASE PathCreated
  <2>1. Directory' = Directory
    BY <1>2 DEF PathCreated, Directory
  <2> QED
    BY <1>2, <2>1, IdleTyped DEF PathCreated, TypeInv
<1>3. CASE UNCHANGED dirVars
  BY <1>3 DEF dirVars, pathVars, TypeInv, Directory
<1> QED
  BY <1>1, <1>2, <1>3, UserTyped, HandleTyped, CreateLocalTyped, WriteRowTyped,
     CreateInCloudTyped, ThrowTyped, WriteLinkTyped, DieTyped, RestartTyped
  DEF DirNext, User, Create, DirRest

LEMMA TypesKept == DirSpec => []TypeInv
  BY InitTyped, TypeStep, PTL DEF DirSpec

(* The variables have their types, for any users, failures and restarts: in *)
(* particular createPath() has a row for every link it is going to write.   *)
THEOREM DirTypeCorrect == DirSpec => []DirTypeOK
<1>1. TypeInv => DirTypeOK
  <2> SUFFICES ASSUME TypeInv PROVE DirTypeOK
    OBVIOUS
  <2>1. DOMAIN db = {"files", "links", "lastId"} /\ db.lastId \in Nat
    BY DEF TypeInv, Tables
  <2>2. \A key \in DOMAIN db.links : key[1] \in DOMAIN db.files /\ key[2] \in Cloud
    BY DEF TypeInv
  <2>3. missing \in 0..Len(path)
    <3>1. CASE step = "idle"
      BY <3>1 DEF TypeInv
    <3>2. CASE step # "idle"
      BY <3>2, Working, PathsAreSeqs
    <3> QED
      BY <3>1, <3>2
  <2> QED
    BY <2>1, <2>2, <2>3 DEF TypeInv, DirTypeOK
<1> QED
  BY <1>1, TypesKept, PTL

-----------------------------------------------------------------------------
(* What the database says is so. *)

(* No directory ever goes. *)
LEMMA NoneGoes ==
  ASSUME TypeInv, [DirNext]_dirVars
  PROVE  \A s \in Storage : exists[s] \subseteq exists'[s]
<1>1. ASSUME NEW s \in Storage, NEW new, Grown(s, new)
      PROVE  \A t \in Storage : exists[t] \subseteq exists'[t]
  BY <1>1 DEF Grown, TypeInv
<1>2. ASSUME NEW s \in Storage, NEW p \in Path, UserMakes(s, p)
      PROVE  \A t \in Storage : exists[t] \subseteq exists'[t]
  <2>1. Grown(s, {Prefix(p, n) : n \in DOMAIN p} \ exists[s])
    BY <1>2 DEF UserMakes, Grown
  <2> QED
    BY <1>1, <2>1
<1>3. ASSUME NEW p \in Path, CreateLocal(p)
      PROVE  \A t \in Storage : exists[t] \subseteq exists'[t]
  BY <1>1, <1>3 DEF CreateLocal, Grown, Storage
<1>4. ASSUME NEW c \in Cloud, CreateInCloud(c) \/ CreateInCloudThrows(c)
      PROVE  \A t \in Storage : exists[t] \subseteq exists'[t]
  BY <1>1, <1>4 DEF CreateInCloud, CreateInCloudThrows, Grown, Storage
<1>5. ASSUME Die
      PROVE  \A t \in Storage : exists[t] \subseteq exists'[t]
  <2>1. ASSUME NEW c \in todo, NEW n \in 1..missing,
               exists' = [exists EXCEPT ![c] = @ \cup {Lacking[i] : i \in 1..n}]
        PROVE  \A t \in Storage : exists[t] \subseteq exists'[t]
    <3>1. c \in Storage /\ Grown(c, {Lacking[i] : i \in 1..n})
      BY <2>1 DEF Storage, Grown, TypeInv
    <3> QED
      BY <1>1, <3>1
  <2> QED
    BY <1>5, <2>1 DEF Die
<1>6. CASE UNCHANGED exists
  BY <1>6
<1> QED
  BY <1>2, <1>3, <1>4, <1>5, <1>6
  DEF DirNext, User, Create, DirRest, Handle, LocalCreated, WriteRow, RowsWritten, CloudsVisited,
      WriteLink, PathCreated, Restart, dirVars

(* Steps that write nothing: what createPath() carries it keeps or drops. *)
LEMMA FaithfulUnmoved ==
  ASSUME TypeInv, Faithful, \A s \in Storage : exists[s] \subseteq exists'[s],
         UNCHANGED db, UNCHANGED <<made, ids, entries>> \/ Idle,
         made' # <<>> => step' \in {"local", "rows"}
  PROVE  Faithful'
<1>1. RowsAndLinksReal'
  BY DEF Faithful, RowsAndLinksReal, TypeInv, Storage
<1>2. MadeFresh'
  <2>1. Local \in Storage
    BY DEF Storage
  <2> QED
    BY <2>1 DEF Faithful, MadeFresh, Idle, HasRow, RowsOf
<1>3. IdsRight'
  BY DEF Faithful, IdsRight, Idle
<1>4. EntriesReal'
  BY DEF Faithful, EntriesReal, Idle, TypeInv, Storage
<1> QED
  BY <1>1, <1>2, <1>3, <1>4 DEF Faithful

LEMMA FaithfulLocal ==
  ASSUME TypeInv, Faithful, NEW p \in Path, CreateLocal(p) PROVE Faithful'
<1>1. /\ UNCHANGED <<db, step, ids, entries>> /\ step = "local"
      /\ p \notin exists[Local] /\ made' = Append(made, p)
  BY DEF CreateLocal
<1>2. /\ \A s \in Storage : exists[s] \subseteq exists'[s]
      /\ Local \in Storage /\ p \in exists'[Local]
  BY DEF CreateLocal, TypeInv, Storage
<1>3. RowsAndLinksReal'
  BY <1>1, <1>2 DEF Faithful, RowsAndLinksReal, TypeInv, Storage
<1>4. ~HasRow(db, p) /\ \A i \in DOMAIN made : made[i] # p
  BY <1>1 DEF Faithful, RowsAndLinksReal, MadeFresh, HasRow, RowsOf
<1>5. \A i \in DOMAIN made' :
        \/ i \in DOMAIN made /\ made'[i] = made[i]
        \/ i = Len(made) + 1 /\ made'[i] = p
  BY <1>1 DEF TypeInv
<1>6. MadeFresh'
  <2>1. \A i \in DOMAIN made' : made'[i] \in exists'[Local]
    BY <1>2, <1>5 DEF Faithful, MadeFresh
  <2>2. \A i \in DOMAIN made' : ~HasRow(db, made'[i])
    BY <1>4, <1>5 DEF Faithful, MadeFresh
  <2>3. \A i \in DOMAIN made' : HasRow(db', made'[i]) <=> HasRow(db, made'[i])
    BY <1>1
  <2>4. \A i, j \in DOMAIN made' : made'[i] = made'[j] => i = j
    BY <1>4, <1>5 DEF Faithful, MadeFresh
  <2> QED
    BY <1>1, <2>1, <2>2, <2>3, <2>4 DEF MadeFresh
<1>7. IdsRight' /\ EntriesReal'
  BY <1>1, <1>2 DEF Faithful, IdsRight, EntriesReal, TypeInv, Storage
<1> QED
  BY <1>3, <1>6, <1>7 DEF Faithful

LEMMA FaithfulRow == ASSUME TypeInv, Faithful, WriteRow PROVE Faithful'
<1> DEFINE p == Head(made)
           new == NewId(db)
<1>1. /\ db'.links = db.links
      /\ DOMAIN db'.files = DOMAIN db.files \cup {new}
      /\ db'.files[new].path = p
      /\ \A id \in DOMAIN db.files : id # new => db'.files[id] = db.files[id]
  BY RowAdded DEF WriteRow, TypeInv
<1>2. \A id \in DOMAIN db.files : id # new
  BY DEF TypeInv, Tables, NewId
<1>3. /\ made # <<>> /\ made' = Tail(made) /\ ids' = Put(ids, p, new)
      /\ UNCHANGED <<exists, step, entries>> /\ step = "rows"
  BY DEF WriteRow
<1>4. /\ 1 \in DOMAIN made /\ p = made[1]
      /\ \A i \in DOMAIN made' : i + 1 \in DOMAIN made /\ made'[i] = made[i + 1] /\ i + 1 # 1
  BY <1>3, HeadTailProperties DEF TypeInv
<1>5. ~HasRow(db, p) /\ p \in exists[Local] /\ \A i \in DOMAIN made' : made'[i] # p
  BY <1>4 DEF Faithful, MadeFresh
<1>6. \A q : RowsOf(db', q) = RowsOf(db, q) \cup (IF q = p THEN {new} ELSE {})
  BY RowsAfter DEF WriteRow, TypeInv
<1> HIDE DEF p, new
<1>7. RowsAndLinksReal'
  <2>1. \A id \in DOMAIN db'.files : db'.files[id].path \in exists'[Local]
    BY <1>1, <1>2, <1>3, <1>5 DEF Faithful, RowsAndLinksReal
  <2>2. \A key \in DOMAIN db'.links : db'.files[key[1]].path \in exists'[key[2]]
    <3>1. \A key \in DOMAIN db.links : key[1] \in DOMAIN db.files
      BY DEF TypeInv
    <3>2. \A key \in DOMAIN db.links : db.files[key[1]].path \in exists[key[2]]
      BY DEF Faithful, RowsAndLinksReal
    <3>3. \A key \in DOMAIN db.links : db'.files[key[1]] = db.files[key[1]]
      BY <1>1, <1>2, <3>1
    <3> QED
      BY <1>1, <1>3, <3>2, <3>3
  <2>3. \A id \in DOMAIN db.files : db.files[id].path # p
    BY <1>5 DEF HasRow, RowsOf
  <2>4. \A i, j \in DOMAIN db'.files : db'.files[i].path = db'.files[j].path => i = j
    BY <1>1, <1>2, <2>3 DEF Faithful, RowsAndLinksReal
  <2> QED
    BY <2>1, <2>2, <2>4 DEF RowsAndLinksReal
<1>8. MadeFresh'
  <2>1. \A i \in DOMAIN made' : made'[i] \in exists'[Local]
    BY <1>3, <1>4 DEF Faithful, MadeFresh
  <2>2. \A i \in DOMAIN made' : RowsOf(db', made'[i]) = RowsOf(db, made[i + 1])
    BY <1>4, <1>5, <1>6
  <2>3. \A i \in DOMAIN made' : ~HasRow(db', made'[i])
    BY <1>4, <2>2 DEF Faithful, MadeFresh, HasRow
  <2>4. \A i, j \in DOMAIN made' : made'[i] = made'[j] => i = j
    <3>1. DOMAIN made' \subseteq Int
      BY <1>3 DEF TypeInv
    <3> QED
      BY <1>4, <3>1 DEF Faithful, MadeFresh
  <2> QED
    BY <1>3, <2>1, <2>3, <2>4 DEF MadeFresh
<1>9. IdsRight'
  <2>1. \A q \in DOMAIN ids' : (q = p /\ ids'[q] = new) \/ (q \in DOMAIN ids /\ ids'[q] = ids[q])
    BY <1>3 DEF Put
  <2>2. \A q \in DOMAIN ids : ids[q] \in DOMAIN db.files
    BY DEF TypeInv
  <2> QED
    BY <1>1, <1>2, <2>1, <2>2 DEF Faithful, IdsRight
<1>10. EntriesReal'
  BY <1>1, <1>2, <1>3 DEF Faithful, EntriesReal, TypeInv
<1> QED
  BY <1>7, <1>8, <1>9, <1>10 DEF Faithful

(* The id createPath() uses for a directory is that of its row. *)
LEMMA IdOfIs ==
  ASSUME TypeInv, Faithful, NEW p, p \in DOMAIN ids \/ HasRow(db, p)
  PROVE  /\ IdOf(p) \in DOMAIN db.files /\ db.files[IdOf(p)].path = p
         /\ HasRow(db, p) /\ GlobalId(db, p) = IdOf(p)
<1>1. IdOf(p) \in RowsOf(db, p)
  BY FirstRow DEF TypeInv, IdOf, RowsOf, Faithful, IdsRight
<1>2. GlobalId(db, p) = IdOf(p)
  BY <1>1, TheRow DEF TypeInv, Faithful, RowsAndLinksReal
<1> QED
  BY <1>1, <1>2 DEF RowsOf, HasRow

LEMMA FaithfulCloud ==
  ASSUME TypeInv, Faithful, NEW c \in Cloud, CreateInCloud(c) PROVE Faithful'
<1>1. /\ UNCHANGED <<db, step, made, ids>> /\ step = "clouds"
      /\ entries' = entries \cup {<<c, IdOf(p)>> : p \in LackingSet}
      /\ \A p \in LackingSet : p \in DOMAIN ids \/ HasRow(db, p)
  BY DEF CreateInCloud
<1>2. /\ \A s \in Storage : exists[s] \subseteq exists'[s]
      /\ LackingSet \subseteq exists'[c]
  BY DEF CreateInCloud, TypeInv, Storage
<1>3. RowsAndLinksReal'
  BY <1>1, <1>2 DEF Faithful, RowsAndLinksReal, TypeInv, Storage
<1>4. MadeFresh' /\ IdsRight'
  BY <1>1, <1>2 DEF Faithful, MadeFresh, IdsRight, HasRow, RowsOf, Storage
<1>5. \A p \in LackingSet : db.files[IdOf(p)].path = p
  BY <1>1, IdOfIs
<1>6. \A e \in entries' : db.files[e[2]].path \in exists'[e[1]]
  <2> SUFFICES ASSUME NEW e \in entries' PROVE db.files[e[2]].path \in exists'[e[1]]
    OBVIOUS
  <2>1. CASE e \in entries
    BY <1>2, <2>1 DEF Faithful, EntriesReal, TypeInv, Storage
  <2>2. CASE e \notin entries
    <3>1. PICK p \in LackingSet : e = <<c, IdOf(p)>>
      BY <1>1, <2>2
    <3> QED
      BY <1>2, <1>5, <3>1
  <2> QED
    BY <2>1, <2>2
<1> QED
  BY <1>1, <1>3, <1>4, <1>6 DEF Faithful, EntriesReal

LEMMA FaithfulLink ==
  ASSUME TypeInv, Faithful, NEW e \in entries, WriteLink(e) PROVE Faithful'
<1>1. /\ db'.files = db.files
      /\ DOMAIN db'.links = DOMAIN db.links \cup {<<e[2], e[1]>>}
  BY LinkAdded DEF WriteLink, TypeInv
<1>2. /\ UNCHANGED <<exists, step, made, ids>> /\ entries' \subseteq entries
  BY DEF WriteLink
<1>3. \A key \in DOMAIN db'.links : db'.files[key[1]].path \in exists'[key[2]]
  <2> SUFFICES ASSUME NEW key \in DOMAIN db'.links PROVE db.files[key[1]].path \in exists[key[2]]
    BY <1>1, <1>2
  <2>1. CASE key \in DOMAIN db.links
    BY <2>1 DEF Faithful, RowsAndLinksReal
  <2>2. CASE key = <<e[2], e[1]>>
    BY <2>2 DEF Faithful, EntriesReal
  <2> QED
    BY <1>1, <2>1, <2>2
<1>4. RowsAndLinksReal'
  BY <1>1, <1>2, <1>3 DEF Faithful, RowsAndLinksReal
<1>5. MadeFresh' /\ IdsRight' /\ EntriesReal'
  BY <1>1, <1>2 DEF Faithful, MadeFresh, IdsRight, EntriesReal, HasRow, RowsOf
<1> QED
  BY <1>4, <1>5 DEF Faithful

LEMMA FaithfulStep == ASSUME TypeInv, Faithful, [DirNext]_dirVars PROVE Faithful'
<1>1. \A s \in Storage : exists[s] \subseteq exists'[s]
  BY NoneGoes
<1>2. made # <<>> => step \in {"local", "rows"}
  BY DEF Faithful, MadeFresh
<1>3. CASE /\ UNCHANGED db
           /\ UNCHANGED <<made, ids, entries>> \/ Idle
           /\ made' # <<>> => step' \in {"local", "rows"}
  BY <1>1, <1>3, FaithfulUnmoved
<1>4. ASSUME NEW s \in Storage, NEW p \in Path, UserMakes(s, p) PROVE Faithful'
  BY <1>2, <1>3, <1>4 DEF UserMakes, pathVars
<1>5. CASE Handle
  BY <1>2, <1>3, <1>5 DEF Handle, pathVars
<1>6. CASE LocalCreated
  BY <1>2, <1>3, <1>6 DEF LocalCreated
<1>7. CASE RowsWritten
  BY <1>2, <1>3, <1>7 DEF RowsWritten
<1>8. CASE CloudsVisited
  BY <1>2, <1>3, <1>8 DEF CloudsVisited
<1>9. CASE PathCreated \/ Die \/ \E c \in Cloud : CreateInCloudThrows(c)
  BY <1>3, <1>9 DEF PathCreated, Die, CreateInCloudThrows, Idle
<1>10. CASE Restart
  BY <1>2, <1>3, <1>10 DEF Restart, pathVars
<1>11. CASE UNCHANGED dirVars
  BY <1>2, <1>3, <1>11 DEF dirVars, pathVars
<1> QED
  BY <1>4, <1>5, <1>6, <1>7, <1>8, <1>9, <1>10, <1>11, FaithfulLocal, FaithfulRow,
     FaithfulCloud, FaithfulLink DEF DirNext, User, Create, DirRest

LEMMA InitFaithful == DirInit => Faithful
<1> SUFFICES ASSUME DirInit PROVE Faithful
  OBVIOUS
<1>1. DOMAIN db.files = {} /\ DOMAIN db.links = {}
  BY DEF DirInit, EmptyDb
<1> QED
  BY <1>1 DEF DirInit, Faithful, RowsAndLinksReal, MadeFresh, IdsRight, EntriesReal

LEMMA FaithfulKept == DirSpec => []Faithful
  BY InitFaithful, FaithfulStep, TypesKept, PTL DEF DirSpec

(* Rows and links are of directories that exist, one row for each, whatever *)
(* users do meanwhile and wherever the process dies.                        *)
THEOREM DatabaseFaithful == DirSpec => []RowsAndLinksReal
<1>1. Faithful => RowsAndLinksReal
  BY DEF Faithful
<1> QED
  BY <1>1, FaithfulKept, PTL

-----------------------------------------------------------------------------
(* Where local directories come from. *)

LEMMA RowsStay ==
  ASSUME TypeInv, [DirNext]_dirVars, NEW p, HasRow(db, p)
  PROVE  HasRow(db', p)
<1>1. CASE WriteRow
  <2>1. RowsOf(db, p) \subseteq RowsOf(db', p)
    BY <1>1, RowsAfter DEF WriteRow, TypeInv
  <2> QED
    BY <2>1 DEF HasRow
<1>2. ASSUME NEW e \in entries, WriteLink(e) PROVE HasRow(db', p)
  <2>1. db'.files = db.files
    BY <1>2, LinkAdded DEF WriteLink, TypeInv
  <2> QED
    BY <2>1 DEF HasRow, RowsOf
<1>3. CASE UNCHANGED db
  BY <1>3
<1> QED
  BY <1>1, <1>2, <1>3
  DEF DirNext, User, Create, DirRest, UserMakes, Handle, CreateLocal, LocalCreated, RowsWritten,
      CreateInCloud, CreateInCloudThrows, CloudsVisited, PathCreated, Die, Restart, dirVars

LEMMA LackingKept ==
  ASSUME UNCHANGED <<path, missing>> PROVE LackingSet' = LackingSet
  BY DEF LackingSet, Lacking

LEMMA LackingLocal ==
  ASSUME TypeInv, Explained, [DirNext]_dirVars, step' \in {"rows", "clouds", "links"}
  PROVE  LackingSet' \subseteq exists'[Local]
<1>1. \A s \in Storage : exists[s] \subseteq exists'[s]
  BY NoneGoes
<1>2. Local \in Storage
  BY DEF Storage
<1>3. CASE LocalCreated
  <2>1. LackingSet' = LackingSet
    BY <1>3, LackingKept DEF LocalCreated
  <2> QED
    BY <1>3, <2>1 DEF LocalCreated
<1>4. CASE step \in {"rows", "clouds", "links"} /\ UNCHANGED <<path, missing>>
  BY <1>1, <1>2, <1>4, LackingKept DEF Explained
<1>5. CASE Handle
  BY <1>4, <1>5 DEF Handle, pathVars
<1>6. CASE UNCHANGED pathVars
  BY <1>4, <1>6 DEF pathVars
<1> QED
  BY <1>3, <1>4, <1>5, <1>6
  DEF DirNext, User, Create, DirRest, UserMakes, CreateLocal, WriteRow, RowsWritten,
      CreateInCloud, CreateInCloudThrows, CloudsVisited, WriteLink, PathCreated, Die, Restart,
      Idle, dirVars

LEMMA FirstLifeWas ==
  ASSUME TypeInv, [DirNext]_dirVars, FirstLife'
  PROVE  FirstLife /\ byUser \subseteq byUser'
<1>1. CASE Restart
  <2>1. restarts' # 0
    BY <1>1 DEF Restart, TypeInv
  <2> QED
    BY <2>1 DEF FirstLife
<1>2. up /\ restarts = 0 /\ byUser \subseteq byUser'
  BY <1>1
  DEF FirstLife, DirNext, User, Create, DirRest, UserMakes, Handle, CreateLocal, LocalCreated,
      WriteRow, RowsWritten, CreateInCloud, CreateInCloudThrows, CloudsVisited, WriteLink,
      PathCreated, Die, dirVars
<1> QED
  BY <1>1, <1>2 DEF FirstLife

LEMMA ExplainedStep ==
  ASSUME TypeInv, Faithful, Explained, [DirNext]_dirVars PROVE Explained'
<1> SUFFICES ASSUME FirstLife', NEW p \in exists'[Local], ~HasRow(db', p)
             PROVE  p \in ToSet(made')
  BY LackingLocal DEF Explained
<1>1. FirstLife /\ byUser \subseteq byUser'
  BY FirstLifeWas
<1>2. ~HasRow(db, p) /\ Local \in Storage /\ Local \notin Cloud
  BY RowsStay, DirectoriesAssumption DEF Storage
<1>3. p \in exists[Local] => p \in ToSet(made)
  BY <1>1, <1>2 DEF Explained
<1>4. made # <<>> => step \in {"local", "rows"}
  BY DEF Faithful, MadeFresh
<1>5. CASE exists'[Local] = exists[Local] /\ made' = made
  BY <1>3, <1>5
<1>6. ASSUME NEW s \in Storage, NEW q \in Path, UserMakes(s, q) PROVE p \in ToSet(made')
  <2> DEFINE new == {Prefix(q, n) : n \in DOMAIN q} \ exists[s]
  <2>1. new # {} /\ new \subseteq Path
    BY <1>6, DirectoriesAssumption DEF UserMakes
  <2>2. \A r \in new : <<s, r>> \in byUser'
    BY <1>6 DEF UserMakes
  <2>3. s # Local
    <3> SUFFICES ASSUME s = Local PROVE FALSE
      OBVIOUS
    <3>1. PICK r \in Path : <<Local, r>> \in byUser'
      BY <2>1, <2>2
    <3> QED
      BY <3>1 DEF FirstLife
  <2> QED
    BY <1>2, <1>5, <1>6, <2>3 DEF UserMakes, TypeInv, pathVars
<1>7. ASSUME NEW q \in Path, CreateLocal(q) PROVE p \in ToSet(made')
  <2>1. exists'[Local] = exists[Local] \cup {q} /\ made' = Append(made, q)
    BY <1>2, <1>7 DEF CreateLocal, TypeInv
  <2>2. ToSet(made) \cup {q} \subseteq ToSet(made')
    <3>1. /\ DOMAIN made \subseteq DOMAIN made' /\ Len(made) + 1 \in DOMAIN made'
          /\ made'[Len(made) + 1] = q /\ \A i \in DOMAIN made : made'[i] = made[i]
      BY <2>1 DEF TypeInv
    <3> QED
      BY <3>1 DEF ToSet
  <2> QED
    BY <1>3, <2>1, <2>2
<1>8. CASE WriteRow
  <2> DEFINE q == Head(made)
  <2>1. exists' = exists /\ made' = Tail(made) /\ made # <<>>
    BY <1>8 DEF WriteRow
  <2>2. p # q
    <3>1. NewId(db) \in RowsOf(db', q)
      BY <1>8, RowsAfter DEF WriteRow, TypeInv
    <3> QED
      BY <3>1 DEF HasRow
  <2>3. PICK i \in DOMAIN made : p = made[i]
    BY <1>3, <2>1 DEF ToSet
  <2>4. i # 1 /\ i \in 1..Len(made)
    BY <2>1, <2>2, <2>3 DEF TypeInv
  <2>5. i - 1 \in DOMAIN made' /\ made'[i - 1] = made[i]
    BY <2>1, <2>4, HeadTailProperties DEF TypeInv
  <2> QED
    BY <2>3, <2>5 DEF ToSet
<1>9. ASSUME NEW c \in Cloud, CreateInCloud(c) PROVE p \in ToSet(made')
  BY <1>2, <1>5, <1>9 DEF CreateInCloud, TypeInv
<1>10. CASE Die \/ \E c \in Cloud : CreateInCloudThrows(c)
  BY <1>10 DEF Die, CreateInCloudThrows, FirstLife
<1>11. CASE PathCreated
  BY <1>4, <1>5, <1>11 DEF PathCreated, Idle
<1>12. CASE Handle \/ Restart \/ UNCHANGED dirVars
  BY <1>5, <1>12 DEF Handle, Restart, dirVars, pathVars
<1> QED
  BY <1>5, <1>6, <1>7, <1>8, <1>9, <1>10, <1>11, <1>12
  DEF DirNext, User, Create, DirRest, LocalCreated, RowsWritten, CloudsVisited, WriteLink

LEMMA ThrowsStep ==
  ASSUME TypeInv, Faithful, Explained, ThrowsOnlyOnStrangers, [DirNext]_dirVars
  PROVE  ThrowsOnlyOnStrangers'
<1>1. ASSUME NEW c \in Cloud, CreateInCloudThrows(c) PROVE ThrowsOnlyOnStrangers'
  <2>1. /\ up /\ step = "clouds" /\ UNCHANGED <<byUser, restarts>>
        /\ \E p \in LackingSet : ~HasRow(db, p)
    BY <1>1 DEF CreateInCloudThrows
  <2>2. ~FirstLife
    <3>1. made = <<>> /\ ToSet(made) = {}
      BY <2>1 DEF Faithful, MadeFresh, ToSet
    <3> QED
      BY <2>1, <3>1 DEF Explained
  <2>3. restarts # 0 => restarts > 0
    BY DEF TypeInv
  <2> QED
    BY <2>1, <2>2, <2>3 DEF ThrowsOnlyOnStrangers, FirstLife
<1>2. CASE threw' = threw /\ restarts' = restarts /\ byUser \subseteq byUser'
  BY <1>2 DEF ThrowsOnlyOnStrangers
<1>3. CASE Restart
  BY <1>3 DEF Restart, ThrowsOnlyOnStrangers
<1> QED
  BY <1>1, <1>2, <1>3
  DEF DirNext, User, Create, DirRest, UserMakes, Handle, CreateLocal, LocalCreated,
      WriteRow, RowsWritten, CreateInCloud, CloudsVisited, WriteLink,
      PathCreated, Die, dirVars

LEMMA ExplainedKept == DirSpec => [](Explained /\ ThrowsOnlyOnStrangers)
<1>1. DirInit => Explained /\ ThrowsOnlyOnStrangers
  <2> SUFFICES ASSUME DirInit PROVE Explained /\ ThrowsOnlyOnStrangers
    OBVIOUS
  <2>1. exists[Local] = {}
    BY DEF DirInit, Storage
  <2> QED
    BY <2>1 DEF DirInit, Explained, ThrowsOnlyOnStrangers
<1> QED
  BY <1>1, ExplainedStep, ThrowsStep, TypesKept, FaithfulKept, PTL DEF DirSpec

(* createPath() does not find a row lacking unless a user, or an earlier     *)
(* life of the process, made a local directory.                             *)
THEOREM ThrowsExplained == DirSpec => []ThrowsOnlyOnStrangers
  BY ExplainedKept, PTL

-----------------------------------------------------------------------------
(* What is linked. *)

LEMMA LinkedIsMirrored ==
  ASSUME TypeInv, NEW p
  PROVE  Mirrored(db, p, NumClouds) <=> Linked(p)
<1>1. LinkedClouds(db, GlobalId(db, p)) \in SUBSET Cloud
  BY DEF TypeInv, LinkedClouds
<1>2. Cardinality(LinkedClouds(db, GlobalId(db, p))) = NumClouds
        <=> LinkedClouds(db, GlobalId(db, p)) = Cloud
  BY <1>1, FS_Subset, DirectoriesAssumption DEF NumClouds
<1> QED
  BY <1>2 DEF Mirrored, Linked

(* A row, its id and its links stay as they are but for new links. *)
LEMMA LinksStay ==
  ASSUME TypeInv, Faithful, [DirNext]_dirVars, NEW p, HasRow(db, p)
  PROVE  /\ HasRow(db', p) /\ GlobalId(db', p) = GlobalId(db, p)
         /\ LinkedClouds(db, GlobalId(db, p)) \subseteq LinkedClouds(db', GlobalId(db', p))
<1>1. HasRow(db', p)
  BY RowsStay
<1>2. CASE WriteRow
  <2>1. p # Head(made)
    <3>1. Head(made) = made[1] /\ 1 \in DOMAIN made
      BY <1>2, HeadTailProperties DEF WriteRow, TypeInv
    <3> QED
      BY <3>1 DEF Faithful, MadeFresh
  <2>2. RowsOf(db', p) = RowsOf(db, p)
    <3>1. Tables(db) /\ \A id \in DOMAIN db.files : id \in 1..db.lastId
      BY DEF TypeInv
    <3>2. db' = WithFile(db, Head(made), Local)
      BY <1>2 DEF WriteRow
    <3>3. RowsOf(db', p) = RowsOf(db, p) \cup (IF p = Head(made) THEN {NewId(db)} ELSE {})
      BY <3>1, <3>2, RowsAfter
    <3> QED
      BY <2>1, <3>3
  <2>3. db'.links = db.links
    BY <1>2, RowAdded DEF WriteRow, TypeInv
  <2> QED
    BY <1>1, <2>2, <2>3 DEF GlobalId, LinkedClouds
<1>3. ASSUME NEW e \in entries, WriteLink(e)
      PROVE  /\ GlobalId(db', p) = GlobalId(db, p)
             /\ LinkedClouds(db, GlobalId(db, p)) \subseteq LinkedClouds(db', GlobalId(db', p))
  <2>1. db'.files = db.files
    BY <1>3, LinkAdded DEF WriteLink, TypeInv
  <2>2. GlobalId(db', p) = GlobalId(db, p)
    BY <2>1 DEF GlobalId, RowsOf
  <2>3. LinkedClouds(db, GlobalId(db, p)) \subseteq LinkedClouds(db', GlobalId(db, p))
    BY <1>3, LinksAfter DEF WriteLink, TypeInv
  <2> QED
    BY <2>2, <2>3
<1>4. CASE UNCHANGED db
  BY <1>1, <1>4
<1> QED
  BY <1>1, <1>2, <1>3, <1>4
  DEF DirNext, User, Create, DirRest, UserMakes, Handle, CreateLocal, LocalCreated, RowsWritten,
      CreateInCloud, CreateInCloudThrows, CloudsVisited, PathCreated, Die, Restart, dirVars

LEMMA LinkedStays ==
  ASSUME TypeInv, TypeInv', Faithful, [DirNext]_dirVars, NEW p, Linked(p)
  PROVE  Linked(p)'
<1>1. /\ HasRow(db', p)
      /\ Cloud \subseteq LinkedClouds(db', GlobalId(db', p))
  BY LinksStay DEF Linked
<1>2. LinkedClouds(db', GlobalId(db', p)) \subseteq Cloud
  BY DEF TypeInv, LinkedClouds
<1> QED
  BY <1>1, <1>2 DEF Linked

LEMMA VisitedStays ==
  ASSUME TypeInv, Faithful, [DirNext]_dirVars, NEW p, NEW c \in Cloud, Visited(p, c),
         step # "idle", step' # "idle"
  PROVE  Visited(p, c)'
<1>1. /\ HasRow(db', p) /\ GlobalId(db', p) = GlobalId(db, p)
      /\ LinkedClouds(db, GlobalId(db, p)) \subseteq LinkedClouds(db', GlobalId(db', p))
  BY LinksStay DEF Visited
<1>2. CASE entries \subseteq entries'
  BY <1>1, <1>2 DEF Visited
<1>3. ASSUME NEW e \in entries, WriteLink(e) PROVE Visited(p, c)'
  <2>1. CASE e = <<c, GlobalId(db, p)>>
    <3>1. db' = WithLink(db, GlobalId(db, p), c, c)
      BY <1>3, <2>1 DEF WriteLink
    <3>2. c \in LinkedClouds(db', GlobalId(db, p))
      BY <3>1, LinksAfter DEF TypeInv
    <3> QED
      BY <1>1, <3>2 DEF Visited
  <2>2. CASE e # <<c, GlobalId(db, p)>>
    BY <1>1, <1>3, <2>2 DEF Visited, WriteLink
  <2> QED
    BY <2>1, <2>2
<1> QED
  BY <1>2, <1>3
  DEF DirNext, User, Create, DirRest, UserMakes, Handle, CreateLocal, LocalCreated, WriteRow, RowsWritten,
      CreateInCloud, CreateInCloudThrows, CloudsVisited, PathCreated, Die, Restart, dirVars,
      pathVars, Idle

LEMMA KnownPrefixes ==
  ASSUME TypeInv, TypeInv', Faithful, Known, [DirNext]_dirVars, step' # "idle"
  PROVE  (\A n \in 1..(Len(path) - missing) : Linked(Prefix(path, n)))'
<1>1. CASE step # "idle" /\ UNCHANGED <<path, missing>>
  <2>1. \A n \in 1..(Len(path) - missing) : Linked(Prefix(path, n))
    BY <1>1 DEF Known
  <2>2. ASSUME NEW n \in 1..(Len(path') - missing') PROVE Linked(Prefix(path, n))'
    <3> DEFINE p == Prefix(path, n)
    <3>1. Linked(p) /\ Prefix(path', n) = p
      BY <1>1, <2>1
    <3> HIDE DEF p
    <3>2. HasRow(db', p) /\ LinkedClouds(db', GlobalId(db', p)) = Cloud
      BY <3>1, LinkedStays DEF Linked
    <3> QED
      BY <3>1, <3>2 DEF Linked
  <2> QED
    BY <2>2
<1>2. CASE Handle /\ step = "idle"
  <2> DEFINE p == Head(changes)
             lacks == Len(MissingPathPart(db, p, NumClouds))
  <2>1. p \in Path
    BY <1>2, HeadTailProperties DEF Handle, TypeInv
  <2>2. path' = p /\ missing' = lacks /\ db' = db
    BY <1>2 DEF Handle, pathVars
  <2>3. \A n \in 1..(Len(p) - lacks) : Mirrored(db, Prefix(p, n), NumClouds)
    BY <2>1, MissingIs
  <2>4. \A n \in 1..(Len(p) - lacks) : Linked(Prefix(p, n))
    BY <2>3, LinkedIsMirrored
  <2> HIDE DEF p, lacks
  <2>5. ASSUME NEW n \in 1..(Len(path') - missing') PROVE Linked(Prefix(path, n))'
    BY <2>2, <2>4 DEF Linked
  <2> QED
    BY <2>5
<1> QED
  BY <1>1, <1>2
  DEF DirNext, User, Create, DirRest, UserMakes, Handle, CreateLocal, LocalCreated, WriteRow, RowsWritten,
      CreateInCloud, CreateInCloudThrows, CloudsVisited, WriteLink, PathCreated, Die, Restart,
      dirVars, pathVars, Idle

LEMMA KnownVisits ==
  ASSUME TypeInv, Faithful, Known, [DirNext]_dirVars, step' \in {"clouds", "links"}
  PROVE  \A p \in LackingSet' : \A c \in Cloud \ todo' : Visited(p, c)'
<1> SUFFICES ASSUME NEW p \in LackingSet', NEW c \in Cloud, c \notin todo' PROVE Visited(p, c)'
  OBVIOUS
<1>1. CASE /\ step \in {"clouds", "links"} /\ UNCHANGED <<path, missing>> /\ c \notin todo
  <2>1. Visited(p, c)
    BY <1>1, LackingKept DEF Known, Visited
  <2> QED
    BY <1>1, <2>1, VisitedStays
<1>2. CASE RowsWritten
  <2>1. todo = Cloud
    BY <1>2 DEF RowsWritten, Known
  <2> QED
    BY <1>2, <2>1 DEF RowsWritten
<1>3. ASSUME NEW d \in Cloud, CreateInCloud(d) PROVE Visited(p, c)'
  <2>1. CASE c \notin todo
    BY <1>1, <1>3, <2>1 DEF CreateInCloud
  <2>2. CASE c \in todo
    <3>1. /\ c = d /\ p \in LackingSet /\ UNCHANGED db
          /\ p \in DOMAIN ids \/ HasRow(db, p)
          /\ <<d, IdOf(p)>> \in entries'
      BY <1>3, <2>2, LackingKept DEF CreateInCloud
    <3>2. HasRow(db, p) /\ GlobalId(db, p) = IdOf(p)
      BY <3>1, IdOfIs
    <3> QED
      BY <3>1, <3>2 DEF Visited
  <2> QED
    BY <2>1, <2>2
<1> QED
  BY <1>1, <1>2, <1>3
  DEF DirNext, User, Create, DirRest, UserMakes, Handle, CreateLocal, LocalCreated, WriteRow,
      CreateInCloudThrows, CloudsVisited, WriteLink, PathCreated, Die, Restart,
      dirVars, pathVars, Idle

LEMMA KnownStep ==
  ASSUME TypeInv, TypeInv', Faithful, Known, [DirNext]_dirVars PROVE Known'
<1>1. /\ step' \in {"local", "rows"} => todo' = Cloud
      /\ step' = "links" => todo' = {}
  BY DEF Known, DirNext, User, Create, DirRest, UserMakes, Handle, CreateLocal, LocalCreated, WriteRow,
         RowsWritten, CreateInCloud, CreateInCloudThrows, CloudsVisited, WriteLink, PathCreated,
         Die, Restart, dirVars, pathVars, Idle
<1>2. (step # "idle" => \A n \in 1..(Len(path) - missing) : Linked(Prefix(path, n)))'
  BY KnownPrefixes
<1>3. (step \in {"clouds", "links"} =>
         \A p \in LackingSet : \A c \in Cloud \ todo : Visited(p, c))'
  BY KnownVisits
<1> QED
  BY <1>1, <1>2, <1>3 DEF Known, Visited

LEMMA KnownKept == DirSpec => []Known
<1>1. DirInit => Known
  BY DEF DirInit, Known
<1>2. TypeInv /\ TypeInv' /\ Faithful /\ Known /\ [DirNext]_dirVars => Known'
  BY KnownStep
<1> QED
  BY <1>1, <1>2, TypesKept, FaithfulKept, PTL DEF DirSpec

(* At the end of createPath() every prefix of its path is linked ... *)
LEMMA AllLinked ==
  ASSUME Cloud # {}, TypeInv, Known, step = "links", entries = {},
         NEW n \in 1..Len(path)
  PROVE  Linked(Prefix(path, n))
<1>1. path \in Path /\ missing \in 1..Len(path) /\ Len(path) \in Nat
  BY Working, PathsAreSeqs
<1>2. CASE n \in 1..(Len(path) - missing)
  BY <1>2 DEF Known
<1>3. CASE n \in (Len(path) - missing + 1)..Len(path)
  <2> DEFINE p == Prefix(path, n)
  <2>1. p \in LackingSet
    BY <1>1, <1>3, LackingIs
  <2>2. \A c \in Cloud : HasRow(db, p) /\ c \in LinkedClouds(db, GlobalId(db, p))
    BY <2>1 DEF Known, Visited
  <2>3. LinkedClouds(db, GlobalId(db, p)) \subseteq Cloud
    BY DEF TypeInv, LinkedClouds
  <2> HIDE DEF p
  <2>4. Linked(p)
    BY <2>2, <2>3 DEF Linked
  <2> QED
    BY <2>4 DEF p
<1> QED
  BY <1>1, <1>2, <1>3

(* ... and what is linked is there. *)
LEMMA LinkedExists ==
  ASSUME TypeInv, Faithful, NEW p, Linked(p), NEW s \in Storage
  PROVE  p \in exists[s]
<1> DEFINE id == GlobalId(db, p)
<1>1. id \in DOMAIN db.files /\ db.files[id].path = p
  BY FirstRow DEF TypeInv, Linked, RowsOf
<1>2. CASE s = Local
  BY <1>1, <1>2 DEF Faithful, RowsAndLinksReal
<1>3. CASE s \in Cloud
  <2>1. s \in LinkedClouds(db, id)
    BY <1>3 DEF Linked
  <2> HIDE DEF id
  <2>2. PICK key \in DOMAIN db.links : key[1] = id /\ key[2] = s
    BY <2>1 DEF LinkedClouds
  <2> QED
    BY <1>1, <2>2 DEF Faithful, RowsAndLinksReal
<1> QED
  BY <1>2, <1>3 DEF Storage

LEMMA CompleteStep ==
  ASSUME Cloud # {}, TypeInv, Faithful, Known, [DirNext]_dirVars,
         step = "links", step' = "idle", up'
  PROVE  /\ MissingPathPart(db', path, NumClouds) = <<>>
         /\ \A n \in DOMAIN path, s \in Storage : Prefix(path, n) \in exists'[s]
<1>1. PathCreated
  BY DEF DirNext, User, Create, DirRest, UserMakes, Handle, CreateLocal, LocalCreated, WriteRow,
         RowsWritten, CreateInCloud, CreateInCloudThrows, CloudsVisited, WriteLink, Die, Restart,
         dirVars, pathVars, TypeInv
<1>2. entries = {} /\ UNCHANGED <<db, exists>>
  BY <1>1 DEF PathCreated
<1>3. path \in Path /\ DOMAIN path = 1..Len(path)
  BY Working, PathsAreSeqs
<1>4. \A n \in 1..Len(path) : Linked(Prefix(path, n))
  BY <1>2, AllLinked
<1>5. \A n \in 1..Len(path) : Mirrored(db, Prefix(path, n), NumClouds)
  BY <1>4, LinkedIsMirrored
<1>6. MissingPathPart(db, path, NumClouds) = <<>>
  BY <1>3, <1>5, MissingIs
<1>7. \A n \in 1..Len(path), s \in Storage : Prefix(path, n) \in exists[s]
  BY <1>4, LinkedExists
<1> QED
  BY <1>2, <1>3, <1>6, <1>7

(* When createPath() returns, its whole path is in every storage and          *)
(* getMissingPathPart() finds nothing missing of it.  (Without any cloud it *)
(* writes no row for a directory that is there already: hence the           *)
(* hypothesis.)                                                             *)
THEOREM PathsCompleted == Cloud # {} => (DirSpec => PathComplete)
<1> SUFFICES ASSUME Cloud # {} PROVE DirSpec => PathComplete
  OBVIOUS
<1>1. TypeInv /\ Faithful /\ Known /\ [DirNext]_dirVars =>
        [(step = "links" /\ step' = "idle" /\ up') =>
           /\ MissingPathPart(db', path, NumClouds) = <<>>
           /\ \A n \in DOMAIN path, s \in Storage : Prefix(path, n) \in exists'[s]]_dirVars
  BY CompleteStep
<1> QED
  BY <1>1, TypesKept, FaithfulKept, KnownKept, PTL DEF DirSpec, PathComplete

=============================================================================
