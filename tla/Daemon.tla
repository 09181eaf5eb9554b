-------------------------------- MODULE Daemon --------------------------------
(***************************************************************************)
(* The daemon as a process (src/sync-manager.cpp, src/main.cpp): the         *)
(* watcher's callback buffers an event and signals the polling thread;       *)
(* pollingLoop() waits for the signal or for its next poll of the clouds,    *)
(* and hands what is there to the changes worker by a ThreadSafeQueue;       *)
(* --stop-daemon sends a signal, the main thread ends the others one after  *)
(* the other, and --stop-daemon kills the process if that takes too long.   *)
(*                                                                         *)
(* There is no time here: a poll comes when the polling thread has slept     *)
(* for long enough, the kill after any time (it comes after 5 seconds, the   *)
(* polling thread may sleep for 10).  What becomes of an event is in         *)
(* LocalEvents and CloudChanges, of a change in ChangeTracker, of the        *)
(* commands that are in work at the end in CommandPipeline.                 *)
(***************************************************************************)
EXTENDS Sequences, Naturals, Functions

CONSTANTS
  Watched,      \* events of the directory
  Foreign     \* events of clouds

Item == Watched \cup Foreign

VARIABLES
  queue, closed, held, asleep, popPc, closePc, \* _changes_buff, a ThreadSafeQueue
  raw,        \* LocalStorage's _events_buff
  inClouds,   \* events that clouds will tell of when asked
  fetched,    \* what they have told, their _events_buff
  handled,    \* what the changes worker has got
  watchPc,    \* where the watcher's callback is
  dirty,      \* _signal_dirty
  pollPc,     \* where the polling thread is
  signalled,  \* whether _signal_cv has woken it, or its time is up
  shouldExit, \* _should_exit
  mainPc,     \* where the main thread is
  stopPc,     \* where --stop-daemon is
  pidFile,    \* whether the pid file is there
  proc        \* "alive", "exited", "killed"

Buff == INSTANCE ThreadSafeQueue WITH MaxBatch <- 0
buffVars == <<queue, closed, held, asleep, popPc, closePc>>
signalVars == <<watchPc, dirty, signalled>>
endVars == <<shouldExit, mainPc, stopPc, pidFile, proc>>
vars == <<buffVars, raw, inClouds, fetched, handled, signalVars, pollPc, endVars>>

Alive == proc = "alive"
Elements(s) == Buff!Elements(s)

(* daemonMode() has started the threads, main() has written the pid file.   *)
Init ==
  /\ Buff!Init
  /\ raw = <<>> /\ inClouds = <<>> /\ fetched = <<>> /\ handled = <<>>
  /\ watchPc = "idle" /\ dirty = FALSE /\ signalled = FALSE
  /\ pollPc = "top"
  /\ shouldExit = FALSE /\ mainPc = "waiting"
  /\ stopPc = "idle" /\ pidFile = TRUE /\ proc = "alive"

Seen(e) == e \in UNION {Elements(s) : s \in {raw, inClouds, fetched, queue, handled}}

-----------------------------------------------------------------------------
(* The watcher's callback, until it is closed: the event, the flag, the      *)
(* notification, which takes no lock.                                      *)
Happens(e) ==
  /\ Alive /\ watchPc = "idle" /\ ~Seen(e)
  /\ raw' = Append(raw, e) /\ watchPc' = "pushed"
  /\ UNCHANGED <<buffVars, inClouds, fetched, handled, dirty, signalled, pollPc, endVars>>
SetDirty ==
  /\ Alive /\ watchPc = "pushed"
  /\ dirty' = TRUE /\ watchPc' = "set"
  /\ UNCHANGED <<buffVars, raw, inClouds, fetched, handled, signalled, pollPc, endVars>>
NotifyPoller ==
  /\ Alive /\ watchPc = "set"
  /\ signalled' = (signalled \/ pollPc = "asleep") /\ watchPc' = "idle"
  /\ UNCHANGED <<buffVars, raw, inClouds, fetched, handled, dirty, pollPc, endVars>>
Watcher == SetDirty \/ NotifyPoller

CloudHas(e) ==
  /\ Alive /\ ~Seen(e)
  /\ inClouds' = Append(inClouds, e)
  /\ UNCHANGED <<buffVars, raw, fetched, handled, signalVars, pollPc, endVars>>

-----------------------------------------------------------------------------
(* pollingLoop(). *)
PollGoes(from, to) == Alive /\ pollPc = from /\ pollPc' = to
Polls == UNCHANGED <<buffVars, raw, inClouds, fetched, handled, watchPc, endVars>>

LoopTest ==
  /\ PollGoes("top", IF shouldExit THEN "ended" ELSE "testing")
  /\ Polls /\ UNCHANGED <<dirty, signalled>>

(* wait_until(): the predicate takes the flag (it may be time to ask the      *)
(* clouds as well) ...                                                     *)
Wanted ==
  /\ shouldExit \/ dirty
  /\ PollGoes("testing", "awake") \/ PollGoes("testing", "polling")
  /\ dirty' = (dirty /\ shouldExit)
  /\ Polls /\ UNCHANGED signalled
(* ... or the thread sleeps; a notification before it does is lost, for      *)
(* whoever notifies does not hold _signal_mtx.                             *)
GoesToSleep ==
  /\ ~shouldExit /\ ~dirty
  /\ PollGoes("testing", "drowsy")
  /\ Polls /\ UNCHANGED <<dirty, signalled>>
Sleeps ==
  /\ PollGoes("drowsy", "asleep") /\ signalled' = FALSE
  /\ Polls /\ UNCHANGED dirty
Woken ==
  /\ signalled
  /\ PollGoes("asleep", "testing") /\ signalled' = FALSE
  /\ Polls /\ UNCHANGED dirty

(* Mutant: wait() without a limit. *)
NoTimeout == FALSE

(* It has slept until next_poll: the predicate is evaluated once more, and   *)
(* whatever it says, the clouds are asked.                                  *)
Timeout ==
  /\ PollGoes("asleep", "polling")
  /\ dirty' = (dirty /\ shouldExit) /\ signalled' = FALSE
  /\ Polls

(* getChanges() of all clouds; with something new it calls the same callback *)
(* as the watcher.                                                         *)
GetChanges ==
  /\ PollGoes("polling", "awake")
  /\ fetched' = fetched \o inClouds /\ inClouds' = <<>>
  /\ dirty' = (dirty \/ inClouds # <<>>)
  /\ UNCHANGED <<buffVars, raw, handled, watchPc, signalled, endVars>>

(* hasChanges() and proccessChanges() of the storages, in some order, and    *)
(* the push of what they return.                                           *)
HandOver(from) ==
  /\ IF from = <<>> THEN UNCHANGED buffVars ELSE Buff!PushBatch(from)
  /\ UNCHANGED <<inClouds, handled, signalVars, endVars>>
(* Mutant: the directory's buffer is read and not emptied. *)
CopyLocal == HandOver(raw) /\ UNCHANGED <<raw, fetched>>

TakeLocal == HandOver(raw) /\ raw' = <<>> /\ UNCHANGED fetched
TakeClouds == HandOver(fetched) /\ fetched' = <<>> /\ UNCHANGED raw

HandOverAll ==
  \/ PollGoes("awake", "clouds") /\ TakeLocal
  \/ PollGoes("clouds", "top") /\ TakeClouds
  \/ PollGoes("awake", "local") /\ TakeClouds
  \/ PollGoes("local", "top") /\ TakeLocal

Poller ==
  \/ LoopTest \/ Wanted \/ GoesToSleep \/ Sleeps \/ Woken \/ Timeout \/ GetChanges
  \/ HandOverAll

-----------------------------------------------------------------------------
(* proccessLoop(): pop(), and handleChange() of what it gets. *)
Worker ==
  /\ Alive /\ Buff!Consume
  /\ handled' = IF queue' = queue THEN handled ELSE Append(handled, Head(queue))
  /\ UNCHANGED <<raw, inClouds, fetched, signalVars, pollPc, endVars>>

-----------------------------------------------------------------------------
(* The end: main() sees the signal at its next look, and shutdown() stops    *)
(* the watcher, tells the polling thread (but does not wake it) and waits    *)
(* for it, closes the queue and waits for the changes worker, and stops the  *)
(* HttpClient.                                                             *)
MainGoes(from, to) == Alive /\ mainPc = from /\ mainPc' = to
Stays == UNCHANGED <<raw, inClouds, fetched, handled, signalVars, pollPc, stopPc, pidFile>>

StopWatching ==
  /\ MainGoes("signalled", "unwatched") /\ watchPc = "idle"
  /\ watchPc' = "closed"
  /\ UNCHANGED <<buffVars, raw, inClouds, fetched, handled, dirty, signalled, pollPc,
                 shouldExit, stopPc, pidFile, proc>>
SetExit ==
  /\ MainGoes("unwatched", "flagged") /\ shouldExit' = TRUE
  /\ Stays /\ UNCHANGED <<buffVars, proc>>
(* Mutant: the queue is closed before the polling thread has ended. *)
JoinNobody ==
  /\ MainGoes("flagged", "closing")
  /\ Stays /\ UNCHANGED <<buffVars, shouldExit, proc>>

JoinPoller ==
  /\ MainGoes("flagged", "closing") /\ pollPc = "ended"
  /\ Stays /\ UNCHANGED <<buffVars, shouldExit, proc>>

(* Mutant: nobody tells the changes worker. *)
ForgetBuff ==
  /\ MainGoes("closing", "closed")
  /\ Stays /\ UNCHANGED <<buffVars, shouldExit, proc>>

CloseBuff ==
  /\ Alive /\ mainPc = "closing" /\ (Buff!CloseStore \/ Buff!CloseNotify)
  /\ mainPc' = IF closePc' = "done" THEN "closed" ELSE mainPc
  /\ Stays /\ UNCHANGED <<shouldExit, proc>>

JoinWorker ==
  /\ MainGoes("closed", "ended") /\ popPc = "ended"
  /\ proc' = "exited"
  /\ Stays /\ UNCHANGED <<buffVars, shouldExit>>
Main == StopWatching \/ SetExit \/ JoinPoller \/ CloseBuff \/ JoinWorker

(* --stop-daemon: SIGTERM, to be noticed by main() within a second; when     *)
(* the process has ended, or been killed, the pid file is removed.          *)
Ask ==
  /\ Alive /\ stopPc = "idle" /\ stopPc' = "waiting"
  /\ mainPc' = "signalled"
  /\ UNCHANGED <<buffVars, raw, inClouds, fetched, handled, signalVars, pollPc,
                 shouldExit, pidFile, proc>>
Kill ==
  /\ Alive /\ stopPc = "waiting" /\ proc' = "killed"
  /\ UNCHANGED <<buffVars, raw, inClouds, fetched, handled, signalVars, pollPc,
                 shouldExit, mainPc, stopPc, pidFile>>
RemovePidFile ==
  /\ ~Alive /\ stopPc = "waiting"
  /\ stopPc' = "done" /\ pidFile' = FALSE
  /\ UNCHANGED <<buffVars, raw, inClouds, fetched, handled, signalVars, pollPc,
                 shouldExit, mainPc, proc>>

(* The process and its pid file are gone. *)
Rest == (~Alive /\ ~pidFile) /\ UNCHANGED vars

Next ==
  \/ (\E e \in Watched : Happens(e)) \/ (\E e \in Foreign : CloudHas(e))
  \/ Watcher \/ Poller \/ Worker \/ Main \/ Ask \/ Kill \/ RemovePidFile \/ Rest

(* The threads run; nobody need ask for the end, and the kill need not come. *)
Spec ==
  /\ Init /\ [][Next]_vars
  /\ WF_vars(Watcher) /\ WF_vars(Poller) /\ WF_vars(Worker) /\ WF_vars(Main)

-----------------------------------------------------------------------------
(* Type invariant; an event is in one place only, from the notification to   *)
(* the changes worker.                                                     *)
TypeOK ==
  /\ Buff!TypeOK
  /\ IsInjective(raw \o inClouds \o fetched \o queue \o handled)
  /\ raw \in Seq(Watched) /\ inClouds \in Seq(Foreign) /\ fetched \in Seq(Foreign)
  /\ watchPc \in {"idle", "pushed", "set", "closed"}
  /\ pollPc \in {"top", "testing", "drowsy", "asleep", "polling", "awake", "clouds",
                 "local", "ended"}
  /\ mainPc \in {"waiting", "signalled", "unwatched", "flagged", "closing", "closed", "ended"}
  /\ stopPc \in {"idle", "waiting", "done"} /\ proc \in {"alive", "exited", "killed"}
  /\ dirty \in BOOLEAN /\ signalled \in BOOLEAN /\ shouldExit \in BOOLEAN
  /\ pidFile \in BOOLEAN

(* The order in which shutdown() ends the threads: when it is through,       *)
(* everything the polling thread has taken, from the directory or from       *)
(* clouds (whose page token says that it need not be told of again), has     *)
(* reached the changes worker.  What the watcher has buffered since the      *)
(* polling thread last looked is lost, and nothing looks for it later.      *)
DrainedAtExit ==
  proc = "exited" => queue = <<>> /\ fetched = <<>> /\ popPc = "ended"

(* The changes worker never sleeps over a change that the polling thread has  *)
(* handed over: between its test of pop()'s predicate and its enlistment on   *)
(* the condition variable it holds the mutex that push() takes.             *)
NoSleepOverItems == Buff!NoSleepOverItems

(* An event reaches the changes worker, unless the end comes first, although *)
(* a notification may be lost and _signal_dirty is taken before the buffers  *)
(* are.                                                                    *)
EventsReachWorker ==
  \A e \in Item : Seen(e) ~> (e \in Elements(handled) \/ mainPc # "waiting")

(* The changes worker has missed the notification of close(), which does     *)
(* not take the mutex: it sleeps, and nothing will wake it.                 *)
Stuck == asleep /\ closePc = "done"

(* shutdown() comes to its end, unless the worker has missed the close: no    *)
(* thread waits for another one that waits for it.                          *)
ShutdownEnds == mainPc # "waiting" ~> (~Alive \/ Stuck)

=============================================================================
