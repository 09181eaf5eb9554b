---------------------------- MODULE ChangeTracker ----------------------------
(***************************************************************************)
(* How SyncManager keeps at most one change per path in progress           *)
(* (src/sync-manager.cpp: proccessLoop, handleChange, startChange,         *)
(* onChangeCompleted, createPath; src/change.cpp).                         *)
(*                                                                         *)
(* _current_changes maps a path to the change in progress on it; a change  *)
(* that finds its path taken becomes a dependent of that change and is     *)
(* handled again when that one completes.  Two threads do this, with no    *)
(* lock around the map: the changes worker (main, during initialSync) for  *)
(* new changes, and the callback worker, inside the completion callback of *)
(* a change's last command, for dependents.  Every access to the map is a  *)
(* step of its own.                                                        *)
(*                                                                         *)
(* A chain is a sequence of commands, each "cloud" (a transfer, then a     *)
(* callback) or "local" (a callback only); its fan-out to several clouds   *)
(* is one command here.  CommandPipeline has the pipeline in detail; here  *)
(* it is the set of transfers and the queue of callbacks.                  *)
(***************************************************************************)
EXTENDS Naturals, Sequences, FiniteSets

CONSTANTS
  Change,         \* change objects
  Path,
  PathOf,         \* [Change -> Path]: _target_path
  Chain,          \* [Change -> Seq({"cloud", "local"})]: its commands in order
  Directory,      \* changes that announce a new directory: createPath only
  Needs,          \* [Change -> SUBSET Dir]: for a New change, the directory
                  \* that createPath makes if the database lacks it
  Dir,
  Arrival,        \* sequence of changes as proccessChanges() delivers them
  MayFail,        \* changes whose transfers may fail for good
  None

ASSUME TrackerAssumption ==
  /\ PathOf \in [Change -> Path]
  /\ Chain \in [Change -> Seq({"cloud", "local"})]
  /\ \A c \in Change \ Directory : Chain[c] # <<>>
  /\ Directory \cup MayFail \subseteq Change
  /\ Needs \in [Change -> SUBSET Dir]
  /\ Arrival \in Seq(Change)
  /\ \A i, j \in DOMAIN Arrival : i # j => Arrival[i] # Arrival[j]
  /\ None \notin Change

VARIABLES
  changesBuff,    \* _changes_buff
  currentChanges, \* [Path -> Change or None]: _current_changes
  dependents,     \* [Change -> Seq(Change)]: _dependents
  pendingCmds,    \* [Change -> Nat]: _pending_cmds
  position,       \* [Change -> Nat]: index of the command in progress, 0: not dispatched
  transfers,      \* changes with a transfer in HttpClient
  callbacks,      \* queue of changes with a command in CallbackDispatcher
  running,        \* the change whose command the callback worker executes
  toHandle,       \* dependents that onChangeCompleted still has to handle
  pc,             \* [Thread -> where it is in handleChange]
  incoming,       \* [Thread -> the change it handles]
  found,          \* [Thread -> the change addDependent was called on]
  created,        \* directories known to the database for every cloud
  completed,      \* changes whose _on_complete has been called
  dispatched,     \* changes in the order their first command was submitted
  failed,         \* changes one of whose transfers failed for good
  crashed,        \* a null pointer was dereferenced
  raced           \* history: the paths on which the two threads have met, the
                  \* one with a new change of the path in handleChange, the
                  \* other with one of its changes in onChangeCompleted

trackVars == <<currentChanges, dependents, pendingCmds, created, completed>>
pipeVars == <<position, transfers, callbacks, dispatched, failed>>
threadVars == <<pc, incoming, found>>
vars == <<changesBuff, trackVars, pipeVars, running, toHandle, threadVars,
          crashed, raced>>

Thread == {"changes", "callback"}
HandlePc == {"idle", "check", "createPath", "start", "dispatch", "lookup", "append"}

SetOf(s) == {s[i] : i \in DOMAIN s}
PathTaken(c) == currentChanges[PathOf[c]] # None

Init ==
  /\ changesBuff = Arrival
  /\ currentChanges = [p \in Path |-> None]
  /\ dependents = [c \in Change |-> <<>>]
  /\ pendingCmds = [c \in Change |-> Len(Chain[c])]
  /\ position = [c \in Change |-> 0]
  /\ transfers = {}
  /\ callbacks = <<>>
  /\ running = None
  /\ toHandle = <<>>
  /\ pc = [t \in Thread |-> "idle"]
  /\ incoming = [t \in Thread |-> None]
  /\ found = [t \in Thread |-> None]
  /\ created = {}
  /\ completed = {}
  /\ dispatched = <<>>
  /\ failed = {}
  /\ crashed = FALSE
  /\ raced = {}

-----------------------------------------------------------------------------
(* A callback worker that has popped a command is busy with it until the    *)
(* completion callback returns.                                            *)
Busy == running # None
Handling(t) == pc[t] # "idle"
(* onChangeCompleted is running, and with it the completed change's _mtx is *)
(* held by onCommandFinished.                                              *)
Completing == Busy /\ running \in completed

(* The change c, if there is one, goes through _current_changes[p]. *)
Handles(c, p) == c # None /\ c \notin Directory /\ PathOf[c] = p

At(t, label) == ~crashed /\ pc[t] = label
Goto(t, label) == pc' = [pc EXCEPT ![t] = label]

(* The thread returns from handleChange. *)
Return(t) ==
  /\ pc' = [pc EXCEPT ![t] = "idle"]
  /\ incoming' = [incoming EXCEPT ![t] = None]

(* The next command of a chain: to HttpClient or to CallbackDispatcher. *)
Submit(c, i) ==
  /\ position' = [position EXCEPT ![c] = i]
  /\ IF Chain[c][i] = "cloud"
     THEN transfers' = transfers \cup {c} /\ UNCHANGED callbacks
     ELSE callbacks' = Append(callbacks, c) /\ UNCHANGED transfers

-----------------------------------------------------------------------------
(* proccessLoop: the changes worker takes the next change. *)
TakeChange ==
  /\ At("changes", "idle")
  /\ changesBuff # <<>>
  /\ incoming' = [incoming EXCEPT !["changes"] = Head(changesBuff)]
  /\ changesBuff' = Tail(changesBuff)
  /\ Goto("changes", "check")
  /\ raced' = raced \cup {p \in Path : /\ Completing /\ PathOf[running] = p
                                      /\ Handles(Head(changesBuff), p)}
  /\ UNCHANGED <<trackVars, pipeVars, running, toHandle, found, crashed>>

(* onChangeCompleted: the next dependent. *)
TakeDependent ==
  /\ At("callback", "idle")
  /\ Completing
  /\ toHandle # <<>>
  /\ incoming' = [incoming EXCEPT !["callback"] = Head(toHandle)]
  /\ toHandle' = Tail(toHandle)
  /\ Goto("callback", "check")
  /\ UNCHANGED <<changesBuff, trackVars, pipeVars, running, found, crashed, raced>>

(* Mutant: a path that is taken is not looked for. *)
CheckUntested(t) ==
  LET c == incoming[t] IN
  /\ At(t, "check")
  /\ Goto(t, IF ~(Needs[c] \subseteq created) THEN "createPath"
             ELSE IF c \in Directory THEN "dispatch"
             ELSE "start")
  /\ UNCHANGED <<changesBuff, trackVars, pipeVars, running, toHandle, incoming,
                 found, crashed, raced>>

(* Mutant: onChangeCompleted sets the entry to null instead of erasing it:  *)
(* contains() goes on to find it.                                          *)
CheckFindsNull(t) ==
  LET c == incoming[t] IN
  /\ At(t, "check")
  /\ Goto(t, IF c \notin Directory
                  /\ \E e \in SetOf(dispatched) : PathOf[e] = PathOf[c] THEN "lookup"
             ELSE IF ~(Needs[c] \subseteq created) THEN "createPath"
             ELSE IF c \in Directory THEN "dispatch"
             ELSE "start")
  /\ UNCHANGED <<changesBuff, trackVars, pipeVars, running, toHandle, incoming,
                 found, crashed, raced>>

(* handleChange up to the branch it takes: a new directory is only created, *)
(* a change of a path without one in progress is started, after the        *)
(* missing part of its parent path was created, any other change becomes a *)
(* dependent.                                                              *)
Check(t) ==
  LET c == incoming[t] IN
  /\ At(t, "check")
  /\ Goto(t, IF c \notin Directory /\ PathTaken(c) THEN "lookup"
             ELSE IF ~(Needs[c] \subseteq created) THEN "createPath"
             ELSE IF c \in Directory THEN "dispatch"
             ELSE "start")
  /\ UNCHANGED <<changesBuff, trackVars, pipeVars, running, toHandle, incoming,
                 found, crashed, raced>>

(* createPath: directories are made locally and in every cloud, and written *)
(* by syncDbWrite, which first waits until CallbackDispatcher is idle.     *)
CreatePath(t) ==
  LET c == incoming[t] IN
  /\ At(t, "createPath")
  /\ callbacks = <<>> /\ ~Busy
  /\ created' = created \cup Needs[c]
  /\ Goto(t, IF c \in Directory THEN "dispatch" ELSE "start")
  /\ UNCHANGED <<changesBuff, currentChanges, dependents, pendingCmds, completed,
                 pipeVars, running, toHandle, incoming, found, crashed, raced>>

(* A directory: handleChange returns, the change object is gone. *)
DirectoryDone(t) ==
  /\ At(t, "dispatch")
  /\ incoming[t] \in Directory
  /\ completed' = completed \cup {incoming[t]}
  /\ Return(t)
  /\ UNCHANGED <<changesBuff, currentChanges, dependents, pendingCmds, created,
                 pipeVars, running, toHandle, found, crashed, raced>>

(* startChange: setOnComplete and the assignment to the map.  A change that *)
(* was there is destroyed, for the map held the only reference to it.      *)
Start(t) ==
  /\ At(t, "start")
  /\ currentChanges' = [currentChanges EXCEPT ![PathOf[incoming[t]]] = incoming[t]]
  /\ Goto(t, "dispatch")
  /\ UNCHANGED <<changesBuff, dependents, pendingCmds, created, completed,
                 pipeVars, running, toHandle, incoming, found, crashed, raced>>

(* startChange: the map is read again, and what is there is dispatched: a  *)
(* null pointer, or commands that were already moved away, is a crash.     *)
Dispatch(t) ==
  LET c == currentChanges[PathOf[incoming[t]]] IN
  /\ At(t, "dispatch")
  /\ incoming[t] \notin Directory
  /\ IF c = None \/ c \in SetOf(dispatched)
     THEN /\ crashed' = TRUE
          /\ UNCHANGED <<pipeVars, pc, incoming>>
     ELSE /\ Submit(c, 1)
          /\ dispatched' = Append(dispatched, c)
          /\ Return(t)
          /\ UNCHANGED <<failed, crashed>>
  /\ UNCHANGED <<changesBuff, trackVars, running, toHandle, found, raced>>

(* Mutant: the entry that is found is not kept. *)
LookupUntested(t) ==
  /\ At(t, "lookup")
  /\ found' = found
  /\ Goto(t, "append")
  /\ UNCHANGED <<changesBuff, trackVars, pipeVars, running, toHandle, incoming,
                 crashed, raced>>

(* handleChange: _current_changes[path]-> for the second time. *)
Lookup(t) ==
  LET c == currentChanges[PathOf[incoming[t]]] IN
  /\ At(t, "lookup")
  /\ IF c = None
     THEN crashed' = TRUE /\ UNCHANGED <<pc, found>>
     ELSE /\ found' = [found EXCEPT ![t] = c]
          /\ Goto(t, "append")
          /\ UNCHANGED crashed
  /\ UNCHANGED <<changesBuff, trackVars, pipeVars, running, toHandle, incoming,
                 raced>>

(* Mutant: the newest dependent is put in front. *)
AddDependentInFront(t) ==
  /\ At(t, "append")
  /\ ~(Completing /\ running = found[t])
  /\ dependents' = [dependents EXCEPT ![found[t]] = <<incoming[t]>> \o @]
  /\ found' = [found EXCEPT ![t] = None]
  /\ Return(t)
  /\ UNCHANGED <<changesBuff, currentChanges, pendingCmds, created, completed,
                 pipeVars, running, toHandle, crashed, raced>>

(* Change::addDependent, under that change's _mtx. *)
AddDependent(t) ==
  /\ At(t, "append")
  /\ ~(Completing /\ running = found[t])
  /\ dependents' = [dependents EXCEPT ![found[t]] = Append(@, incoming[t])]
  /\ found' = [found EXCEPT ![t] = None]
  /\ Return(t)
  /\ UNCHANGED <<changesBuff, currentChanges, pendingCmds, created, completed,
                 pipeVars, running, toHandle, crashed, raced>>

-----------------------------------------------------------------------------
(* A transfer succeeds: its callback is queued. *)
TransferOk(c) ==
  /\ ~crashed
  /\ c \in transfers
  /\ transfers' = transfers \ {c}
  /\ callbacks' = Append(callbacks, c)
  /\ UNCHANGED <<changesBuff, trackVars, position, dispatched, failed, running,
                 toHandle, threadVars, crashed, raced>>

(* It fails for good: the command is destroyed and the change not told. *)
TransferFailed(c) ==
  /\ ~crashed
  /\ c \in transfers \cap MayFail
  /\ transfers' = transfers \ {c}
  /\ failed' = failed \cup {c}
  /\ UNCHANGED <<changesBuff, trackVars, position, callbacks, dispatched, running,
                 toHandle, threadVars, crashed, raced>>

(* The callback worker takes a command. *)
PopCallback ==
  /\ ~crashed
  /\ ~Busy
  /\ callbacks # <<>>
  /\ running' = Head(callbacks)
  /\ callbacks' = Tail(callbacks)
  /\ UNCHANGED <<changesBuff, trackVars, position, transfers, dispatched, failed,
                 toHandle, threadVars, crashed, raced>>

(* The owner of a command is a weak_ptr; a change that was dispatched is   *)
(* referenced by the map alone.                                            *)
OwnerAlive == currentChanges[PathOf[running]] = running

(* completionCallback of a command that is not the last of its change, or  *)
(* whose change is gone: count it off and continue the chain.              *)
RunCallback ==
  LET i == position[running] IN
  /\ ~crashed
  /\ Busy /\ ~Completing
  /\ OwnerAlive => pendingCmds[running] > 1
  /\ pendingCmds' = IF OwnerAlive THEN [pendingCmds EXCEPT ![running] = @ - 1]
                                  ELSE pendingCmds
  /\ IF i < Len(Chain[running])
     THEN Submit(running, i + 1)
     ELSE UNCHANGED <<position, transfers, callbacks>>
  /\ running' = None
  /\ UNCHANGED <<changesBuff, currentChanges, dependents, created, completed,
                 dispatched, failed, toHandle, threadVars, crashed, raced>>

(* Mutant: the dependents are not handed over. *)
CompleteKeepsDependents ==
  /\ ~crashed
  /\ Busy /\ ~Completing
  /\ OwnerAlive /\ pendingCmds[running] = 1
  /\ pendingCmds' = [pendingCmds EXCEPT ![running] = 0]
  /\ completed' = completed \cup {running}
  /\ currentChanges' = [currentChanges EXCEPT ![PathOf[running]] = None]
  /\ raced' = raced \cup {p \in {PathOf[running]} : Handles(incoming["changes"], p)}
  /\ UNCHANGED <<changesBuff, dependents, created, pipeVars, running, toHandle,
                 threadVars, crashed>>

(* ... of the last one: onCommandFinished locks _mtx, takes the dependents *)
(* and calls onChangeCompleted, which erases the path's entry.             *)
Complete ==
  /\ ~crashed
  /\ Busy /\ ~Completing
  /\ OwnerAlive /\ pendingCmds[running] = 1
  /\ pendingCmds' = [pendingCmds EXCEPT ![running] = 0]
  /\ completed' = completed \cup {running}
  /\ toHandle' = dependents[running]
  /\ dependents' = [dependents EXCEPT ![running] = <<>>]
  /\ currentChanges' = [currentChanges EXCEPT ![PathOf[running]] = None]
  /\ raced' = raced \cup {p \in {PathOf[running]} : Handles(incoming["changes"], p)}
  /\ UNCHANGED <<changesBuff, created, pipeVars, running, threadVars, crashed>>

(* onChangeCompleted and the callback return. *)
CompletionReturns ==
  /\ At("callback", "idle")
  /\ Completing
  /\ toHandle = <<>>
  /\ running' = None
  /\ UNCHANGED <<changesBuff, trackVars, pipeVars, toHandle, threadVars, crashed, raced>>

-----------------------------------------------------------------------------
HandleStep(t) ==
  \/ Check(t)
  \/ CreatePath(t)
  \/ DirectoryDone(t)
  \/ Start(t)
  \/ Dispatch(t)
  \/ Lookup(t)
  \/ AddDependent(t)

CallbackStep ==
  \/ TakeDependent
  \/ HandleStep("callback")
  \/ PopCallback
  \/ RunCallback
  \/ Complete
  \/ CompletionReturns

ChangesStep == TakeChange \/ HandleStep("changes")

NetworkStep(c) == TransferOk(c) \/ TransferFailed(c)

(* All work is done, or the process is dead. *)
AtRest ==
  \/ crashed
  \/ /\ changesBuff = <<>> /\ transfers = {} /\ callbacks = <<>> /\ ~Busy
     /\ \A t \in Thread : ~Handling(t)
(* A dependent lacks a directory: createPath, on the callback worker, waits  *)
(* until the callback worker is idle.                                      *)
WaitsForItself == pc["callback"] = "createPath"
Rest == (AtRest \/ WaitsForItself) /\ UNCHANGED vars

Next ==
  \/ ChangesStep
  \/ CallbackStep
  \/ \E c \in Change : NetworkStep(c)
  \/ Rest

Spec == Init /\ [][Next]_vars

(* Both threads are scheduled and every transfer is answered. *)
FairSpec ==
  /\ Spec
  /\ WF_vars(ChangesStep)
  /\ WF_vars(CallbackStep)
  /\ \A c \in Change : WF_vars(NetworkStep(c))

-----------------------------------------------------------------------------
(* Type invariant. *)
TypeOK ==
  /\ changesBuff \in Seq(Change)
  /\ currentChanges \in [Path -> Change \cup {None}]
  /\ dependents \in [Change -> Seq(Change)]
  /\ pendingCmds \in [Change -> Nat] /\ position \in [Change -> Nat]
  /\ \A c \in Change : pendingCmds[c] <= Len(Chain[c]) /\ position[c] <= Len(Chain[c])
  /\ transfers \subseteq Change
  /\ callbacks \in Seq(Change)
  /\ running \in Change \cup {None}
  /\ toHandle \in Seq(Change)
  /\ pc \in [Thread -> HandlePc]
  /\ incoming \in [Thread -> Change \cup {None}]
  /\ found \in [Thread -> Change \cup {None}]
  /\ \A t \in Thread : /\ pc[t] = "idle" <=> incoming[t] = None
                       /\ pc[t] = "append" <=> found[t] # None
  /\ created \subseteq Dir
  /\ completed \subseteq Change
  /\ dispatched \in Seq(Change)
  /\ failed \subseteq Change
  /\ crashed \in BOOLEAN
  /\ raced \subseteq Path

Started == SetOf(dispatched)

(* Commands of c are still to be executed. *)
InFlight(c) ==
  c \in Started /\ (c \in transfers \/ c \in SetOf(callbacks)
                    \/ (running = c /\ c \notin completed))

(* Two changes of one path are never executed at the same time, so that no *)
(* command works on a file another change is still working on.             *)
OneChangePerPath ==
  \A c, d \in Change :
    c # d /\ InFlight(c) /\ InFlight(d) => PathOf[c] # PathOf[d]

(* They are only where the two threads have met on that very path: a new    *)
(* change of it in handleChange while another was in onChangeCompleted.     *)
(* What the threads do to other paths at the same time does no harm.        *)
OneChangeUnlessRaced ==
  \A c, d \in Change :
    c # d /\ InFlight(c) /\ InFlight(d) /\ PathOf[c] = PathOf[d]
      => PathOf[c] \in raced

(* The changes of a path are started in the order in which they arrived,    *)
(* unless the threads have met on it.                                      *)
InOrder ==
  \A i, j \in DOMAIN dispatched : \A k, l \in DOMAIN Arrival :
    (/\ dispatched[i] = Arrival[k] /\ dispatched[j] = Arrival[l]
     /\ PathOf[Arrival[k]] = PathOf[Arrival[l]] /\ k < l)
      => i < j \/ PathOf[Arrival[k]] \in raced

(* The second look at the map, of addDependent and of startChange, finds    *)
(* what the first one promised, unless the threads have met on some path.   *)
CrashesOnlyOnRaces == crashed => raced # {}

(* A change is carried out, whatever has to wait for what: no dependent is  *)
(* left in a list that nobody reads again, and no creation of a directory   *)
(* is waited for by the thread it waits for.  Except: a change of its path  *)
(* failed; the threads have met on its path, or a meeting has ended the     *)
(* process; the callback worker waits for itself.                          *)
CarriedOutUnlessFailed ==
  \A i \in DOMAIN Arrival :
    <>(\/ Arrival[i] \in completed
       \/ \E c \in failed : PathOf[c] = PathOf[Arrival[i]]
       \/ PathOf[Arrival[i]] \in raced
       \/ crashed /\ raced # {}
       \/ WaitsForItself)

=============================================================================
