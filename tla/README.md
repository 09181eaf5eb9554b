# SyncHarbor in TLA+

SyncHarbor keeps a local folder in step with several cloud storages. It is a
C++ program of eight kinds of threads that hand commands to each other through
queues and wait for each other with counters. This directory holds TLA+ models
of its parts, TLC configurations that check them on small instances, and proofs
that TLAPS checks for instances of any size.

Paths below are those of the repository, without the leading `src/`:
`src/Networking.cpp` is the file the manifest calls `src/src/Networking.cpp`.

## 1. The system

| component | state | operations | talks to |
|---|---|---|---|
| `ActiveCount` (`src/active-count.cpp`) | an atomic counter, a mutex, a condition variable | `increment`, `decrement`, `waitUntilIdle` | owned by `HttpClient` and `CallbackDispatcher` |
| `ThreadSafeQueue` (`include/thread-safe-queue.h`) | a queue, `_closed`, a mutex, a condition variable | `push` (one, many), `try_pop`, `pop`, `close` | between polling thread and changes worker; in front of both command workers |
| `HttpClient` (`src/Networking.cpp`) | `_large_queue`, `_active_handles`, `_delayed_requests`, `_large_active_count` | `submit`, `largeRequestsWorker`, `checkDelayedRequests`, `shutdown`, `syncRequest` | curl; hands finished transfers to `CallbackDispatcher` |
| `RequestHandle` (`src/request-handle.cpp`) | retry count, timer, response, open file | `scheduleRetry`, curl options | owned by a command |
| `CallbackDispatcher` (`src/CallbackDispatcher.cpp`) | `_queue`, `_active_count`, the database and its mutex | `submit`, `worker`, `syncDbWrite`, `finish` | runs completion callbacks, which submit next commands |
| commands (`src/commands.cpp`) | a DTO, an owner (weak), `_next_commands` (owned) | `execute`, `completionCallback`, `continueChain` | storages, database, `Change` |
| `Change` (`src/change.cpp`) | `_cmd_chain`, `_pending_cmds`, `_dependents`, `_on_complete` | `dispatch`, `onCommandFinished`, `addDependent` | `SyncManager` |
| `SyncManager` (`src/sync-manager.cpp`) | `_current_changes`, `_changes_buff`, `_clouds`, flags | `initialSync`, `handleChange`, `onChangeCompleted`, `createPath`, `pollingLoop`, `proccessLoop`, `shutdown` | everything |
| `LocalStorage` (`src/LocalStorage.cpp`) | watcher events, expected events | `onFsEvent`, `handle*`, `proccess*` | watcher thread, database |
| `ThreadSafeEventsRegistry` (`src/event-registry.cpp`) | path → kind of change the program itself is about to cause | `add`, `check`, `copyMap` | storages |
| `GoogleDrive`, `Dropbox` (`src/google.cpp`, `src/dropbox.cpp`) | delta token, pages of changes, expected events | `getChanges`, `proccessChanges`, requests of commands | HTTP, database |
| `Database` (`src/database.cpp`) | files, links per cloud, cloud configurations | `add_file`, `add_file_link`, `update_*`, `delete_*`, `getMissingPathPart` | SQLite |
| `LocalHttpServer` (`src/http-server.cpp`) | the OAuth code | listener callback, `waitForCode` | browser, `registerCloud` |
| main, daemonizer (`src/main.cpp`) | pid file, stop flag | start, stop, signals | `SyncManager` |

A change is detected by a storage, put into `_changes_buff` by the polling
thread, and handled by the changes worker. Its commands run alternately on the
`HttpClient` worker (a transfer) and the callback worker (files and database).
The last command of a change completes it on the callback worker, which then
handles the changes that had to wait for it.

What is hard here, and where each component can go wrong:

* **Synchronisation objects.** The counter changes outside the mutex its waiters
  sleep under; `close()` takes no lock. Correct means: no wake-up is lost, a wait
  ends only at idleness, the queue is FIFO and loses nothing.
* **The command pipeline.** A command is counted by two counters in turn; a
  retried one is in no queue; callbacks create new commands while the main thread
  waits for quiet; the shutdown stops one worker before the other; there is a
  concurrency limit. Correct means: counters are exact, a command has one fate,
  chains run in order, barriers and shutdowns leave nothing in progress.
* **Change tracking.** A map that two threads read, test and change without a
  lock, dependents that race with completions, waiting for a thread on that very
  thread, failures that nobody reports. Correct means: one change per path at a
  time, in order, none forgotten.
* **Directories.** They are created in every storage, one after the other, with
  rows and links written in between, while users create some themselves and the
  process may die. Correct means: one row per directory, records only of what
  exists, a created path is complete, and directories made in one storage reach
  all of them.
* **Initial synchronisation.** Decisions are taken from listings made at the start,
  carried out by commands any of which may fail. Correct means: the newest variant
  of a file survives, is everywhere in the end, and the database says so.
* **Following a cloud.** The polling thread compares pages of changes with a database
  that other threads are writing, and with events it expects because the program
  itself causes them; a restart replays everything since the initial
  synchronisation. Correct means: in the end the database says what the cloud has,
  the program's own writes do not come back, and replays do no harm.
* **Following the directory.** An event is looked at long after it happened, against
  a disk, a database and a list of expected events that have moved on; editors
  replace files instead of writing them. Correct means: what users do reaches
  database and cloud, what the program does is not taken for it.
* **Living and ending.** A flag, a condition variable signalled without its mutex, a
  queue whose close can be missed, threads joined one after the other, a process
  that kills another after a while. Correct means: no event waits for ever, the end
  comes, and what was taken from a cloud is not dropped on the way.

`PROJECT.json` lists the hazards line by line with the properties that cover
them.

## 2. Modules

| module | models | composed of |
|---|---|---|
| `IdleBarrier` | abstract: what a caller of `waitUntilIdle()` relies on | |
| `ActiveCount` | the counter, step by step | implements `IdleBarrier` |
| `WorkQueue` | abstract: what the threads rely on when they hand over work | |
| `ThreadSafeQueue` | the queue, split where another thread can come in between | implements `WorkQueue` |
| `CommandPipeline` | client thread, `HttpClient` worker, callback worker, chains, retries, limit, shutdown | uses the queue and the counter as `WorkQueue` and `IdleBarrier` specify them |
| `MCCommandPipeline` | two instances of it: initial synchronisation and daemon | |
| `ChangeTracker` | `_current_changes`, dependents, completion, `createPath` | the pipeline as a set of transfers and a queue of callbacks |
| `MCChangeTracker` | its instances | |
| `Database` | the tables of files and links, each update an operator; `getMissingPathPart()` | |
| `Directories` | `createPath()` and what calls it, users, death and restart of the process | uses `Database` |
| `InitialSync` | `initialSync()` and the callbacks of its commands, for files | uses `Database` |
| `EventsRegistry` | events a storage expects, and the copy a batch is checked against | |
| `CloudChanges` | one cloud as either adapter follows it: polling, translation, commands in both directions, users, crash and restart | uses `Database`, `EventsRegistry` |
| `LocalEvents` | the directory as `LocalStorage` follows it: watcher, polling thread, callback worker, users and editors, changes from a cloud, crash and restart | uses `Database`, `EventsRegistry` |
| `Daemon` | the threads of the daemon, their signal and their end, `--stop-daemon` | an `INSTANCE` of `ThreadSafeQueue` is `_changes_buff` |
| `MCDirectories`, `MCInitialSync`, `MCCloudChanges`, `MCLocalEvents` | instances | |
| `CommandPipelineProofs`, `ChangeTrackerProofs`, `InitialSyncProofs`, `SyncManagerProofs`, `CloudChangesProofs`, `CloudChangesStories`, `LocalEventsProofs`, `LocalEventsStories` | theorems | extend the modules they are about; `CommandPipelineProofs` also has those about `ActiveCount`, `SyncManagerProofs` those about `Daemon`, `ThreadSafeQueue` and `Directories` |

### ActiveCount

`increment()` is one atomic step. `decrement()` is `FetchSub`, and for the caller
that reached zero `LockToNotify` and `NotifyAll`. `waitUntilIdle()` is `LockToTest`
(the lock, or its re-acquisition), then `ReturnIdle` or `DecideToSleep`; `Sleep` is
the moment `wait()` enlists the thread and releases the mutex. Between
`DecideToSleep` and `Sleep` the counter can reach zero: the mutex then keeps the
notification away until the waiter is on the list, which is what `NoLostWakeup`
says. Mapping to `IdleBarrier`: `inside` is the set of commands counted in,
`waiting` the threads inside `waitUntilIdle()`.

### ThreadSafeQueue

`push`, the batch `push` and `try_pop` are critical sections in which nothing
blocks, so each is one action that needs the mutex; `pop()` is split like the
wait above; `close()` is split into its store and its notification because it
takes no lock. There is one consumer, as everywhere in the program.

### CommandPipeline

Every command is a `unique_ptr`; the variables say where it is. A submit is two
actions (count, then push), for both workers and both submitters, and it may fail: without
a curl handle the command is destroyed before it is counted (`ClientHasNoHandle`), and an
`execute()` that cannot open its file ends the process (`ClientCannotOpen`). The worker's
iteration is `WorkerTop` (the loop's condition and `isIdle()`), the blocking
`PopLarge` or the `TryPopLarge` / `StartTransfer` / `DropAtLimit` loop, the
messages of curl (`Answer`), and `Requeue` for delayed requests whose timer has
expired. The success of a transfer is three actions - counted in at the
dispatcher, pushed, counted out - because other threads act between them. An
exception on a worker thread ends the process (`aborted`).

Abstracted: which request, which answer, what a callback does to disk and
database; timers expire at any time; a curl error of the multi handle itself
(which breaks the worker's loop) does not occur.

`HttpClient::shutdown()` is four steps - `StopWorker` sets `_should_stop`, `CloseLarge`
stores `_closed`, `NotifyLarge` notifies, `JoinWorker` joins - and
`CallbackDispatcher::finish()` the last three again. A worker that found its queue empty
is *dozing* until `wait()` has released the mutex, and *asleep* from then on. A push has
to wait while it dozes; `close()` takes no lock, and its notification is then lost: the
worker is `missed`, and when it sleeps on an empty queue the join never ends (`Hung`).
`ClientEnds` names this outcome as an exception, as `ShutdownEnds` of `Daemon` does with
`Stuck`. A spurious wake-up would free such a worker; here there is none.

### ChangeTracker

Each access to `_current_changes` is an action: `Check` (`contains`), `Start`
(assignment), `Dispatch` (second look-up and dispatch), `Lookup` and
`AddDependent`. A change whose map entry is overwritten is destroyed; its commands
find no owner (`OwnerAlive`). Completion holds the change's mutex until all
dependents are handled.

Every schedule of the two threads is in both runs. Most are harmless. What is not is that
they meet on one path: the changes worker has a new change of it in `handleChange()` while
the callback worker has a completed change of it in `onChangeCompleted()`. Whatever was read
of `_current_changes` before then may be out of date when it is used: two changes of the
path are started, a dependent is added to a change that has handed over its list, an erased
entry is dereferenced. Nothing in the code prevents it. `raced` records the paths on which
it has happened (`TakeChange` during a completion, `Complete` during a `handleChange()`),
and the properties of `tracker` except these paths, and the crash that may follow, by name;
`tracker_overlap` checks "one change per path" without the exception and finds it violated.
In `initialSync()` each path has one change, and the threads cannot meet.

A *dependent* that lacks a directory is handled on the callback worker, where `createPath()`
waits for the callback worker to become idle (`src/CallbackDispatcher.cpp:117`): everything
stops (`WaitsForItself`). The instance can get there: `c2` waits for `c1` and lacks the
directory, unless another change has had it created in the meantime.
`CarriedOutUnlessFailed` excepts it by name.

Abstracted: a chain is a sequence, the fan-out to several clouds is one command;
the concurrent modification of the hash table itself (undefined behaviour) is
represented by its outcomes on single entries.

### Database

A value with the two tables and the last id; every `add_*`, `update_*` and `delete_*`
is one SQLite transaction and therefore one operator. `files.path` is not `UNIQUE` and the
model allows two rows of one path; that there are none is for the users of the
module to show. `getGlobalIdByPath()` takes the smallest id among rows of a path,
as the index on `path` yields it.

### Directories

`Handle` is the directory half of `handleChange()`; `createPath()` follows as
`CreateLocal` (one `create_directory`), `WriteRow` (one `add_file`), `CreateInCloud`
(all folders of one cloud, and the look-up of their ids, which may throw:
`CreateInCloudThrows`) and `WriteLink` (one `add_file_link`). Between any two of these
users create directories in any storage, with their parents, and the changes that
result arrive in any order. `Die` ends the process anywhere, and in a cloud in the
middle of a path; `Restart` delivers every cloud folder without a link again,
because the delta tokens in the database are those of the initial
synchronisation.

A local directory that the program did not create itself has no row, and
`createPath()` throws when it looks for it (`src/sync-manager.cpp:653`): a user's
`mkdir` in the local directory ends the daemon. A crash between a local directory
and its row does the same later. `ThrowsOnlyOnStrangers` says that nothing else can.

Abstracted: identifiers of cloud folders (a folder is its path), the requests of
one cloud as seen by other writers of the same cloud, what the storages report
beyond new directories.

### InitialSync

`Scan`, `Reconcile` and `Push` treat one path each, in any order, as the loops over
hash tables do; `Downloaded` and `Finish` are the waits, whose guard (no command in
progress) is what `CommandPipeline` establishes with `BarrierSound`. A variant of a
file is identified by the storage it was in and its age there. A command is a
transfer and then a callback; a transfer fails, for an upload also after the cloud
has taken the file. The path of a failed command stays in `_current_changes`
(`occupied`), so that its push becomes a dependent that never starts: this is what
keeps a failed download from being followed by uploads of the old local file, as the
mutant `PushRegardless` shows. A new file whose download failed has no row and
`PushThrows` ends the program.

`setupUpdateHandle()` of a Dropbox leaves the home directory out of the path
(`src/dropbox.cpp:161`; compare line 91), so that an update of an old file goes to
another place in that Dropbox. The constant `Astray` names the clouds of which this is
so: `Reaches` says what an update does there, and `Converged` that such a cloud keeps
its own variant where it has one, and still has every file in the end.

Abstracted: directories; other writers during the synchronisation; two entries of
one name in one cloud folder.

### EventsRegistry

Each method of the registry is a critical section and one operator. `add()` keeps a
kind that a key already has; `check()` removes only what it was asked for;
`copyMap()` hands the map to one batch and empties it.

### CloudChanges

The cloud is `item` and a log, `feed`, of what has changed under which key: Google
names ids, Dropbox paths, and a deletion in Dropbox has no id. `Fetch` is
`getChanges()`: the last change of every key since the token, as things are now. `Entry` is
one turn of the loop in `proccessChanges()`, written as the four questions it asks:
what is this about (`Lookup`), where was it and where is it (`GoogleVerdict`,
`DropboxVerdict`), what does that need (`Needs`), was it expected (`Awaited`). Other
threads act between turns. `CarryNew` … `CarryDelete` are what the callbacks of
downloads leave in the database; `Begin…`, `Send`, `Arrive`, `Finish` are a change from
another storage that is written to this cloud, split where the poll can come in
between: the event is registered before the request is sent and recorded after it is
answered. Requests fail, before or after their effect; the process dies anywhere, and
in the middle of `proccesUpload()`; a restarted one reads the log from the token of
the initial synchronisation.

The code does not always get it right, and the model says when. `fate` holds, for each
thing in the cloud, the named hazards that have struck it, and the properties are
about those that none has struck:

| fate | when | where |
|---|---|---|
| raced | a user writes to what the program is at work on, or to its path; the program writes to what it has not read of; two things are taken to be at one path | everywhere: nothing is locked or compared |
| moved | a user of a Dropbox moves a file: a Move and a Delete are emitted, and the row is deleted | `src/dropbox.cpp:762`, 800, 819–821: deletes are kept by the old path and looked for by the new one |
| same second | an edit has the time of the recorded one, and is not seen | `src/google.cpp:860`, `src/dropbox.cpp:725` |
| stranger | a file in a folder that is not in the home directory is taken to be in it | `src/google.cpp:800`–818: an unknown parent gives an empty path for a folder, which is then in `path_map` |
| early | a file moved in Google Drive into a folder that has no row yet is taken for deleted | `src/google.cpp:843` |
| unmoved | a local move to the home directory is not carried out in Google Drive | `src/google.cpp:305` |
| overtaken | the batch takes all expected events with it, those of requests still under way included | `src/event-registry.cpp:31` |
| failed | a request fails for good; its path stays occupied | `src/Networking.cpp:187` |
| halved | death between a move and the update that depends on it: the link has the new time already | `src/google.cpp:911` |
| torn | death between row and link of a new file: the replay makes a second row | `src/LocalStorage.cpp:612`–615 |
| astray | an update of a file in a Dropbox | `src/dropbox.cpp:161` |

In the model but without a property of their own: a list of more than one page ends
the daemon (`FetchPages`: `src/google.cpp:733` reads the token as `nexPageToken` and
then demands one that only the last page has; `src/dropbox.cpp:639` reads the second
page into the response of the first); Dropbox's answer to an update has
no `.tag`, and `proccesUpdate()` ignores it (`src/dropbox.cpp:471`). An update from the
cloud whose row has moved meanwhile may in the code be written at the old path; the model
lets it end the process (`Throws`), which happens only to raced files.

Abstracted: names (a rename is a move), local times, the local side of a change, the other clouds it
goes to, folders that move or vanish, a folder with the name of another folder or of a file
(`CloudChangesAssumption`), documents and shortcuts, access tokens.

### LocalEvents

A user's deed changes `disk` and puts into `notices` what the system notes down;
`OnFsEvent` is the watcher's thread, the `Handle…` actions are one event each on the
polling thread, with the disk and the database of that moment; `WriteSeen` is
separate because `handleUpdated()` waits there until no callback runs. A change of the
directory is a callback (`LocalCallback`, which notes down the file) and a request that
reads the file when it is sent (`Request`). A change from the cloud is a download next
to the file (`Load`), the expected event and the rename (`Place`; the removal of the old file
just before it is the same step), and the look at
the file with the row (`Record`), with the polling thread in between. `UserSaves`,
`UserRenews` and `UserBacksUp` are the three ways in which editors save.

Fates here: *raced* as above; *hidden*, a deleted file whose backup stays looks like a
part of a save (`src/LocalStorage.cpp:478`, 435); *renewed*, an editor renames the file
to its backup and writes another: the new file gets a second row (627); *overwritten*,
a file moved over another leaves that one's row; *unwatched*, nothing looks at what
happened while no daemon was running (`src/sync-manager.cpp:742`); *lost*, the process
ended over it, also because of an exception on the callback worker over another file
(`src/commands.cpp:99`, 135, 175) or on the polling thread
(`src/LocalStorage.cpp:641`). `NoEcho` leaves one window: an update from the cloud that
the polling thread sees after the rename and before the callback has written the row
is taken for a user's (`Early`).

Also in the model: `handleRenamed()` of a file that leaves the directory asks for a row
with the full path, and finds none; `fromWatcherTime()` is applied to what it has
already been applied to (673), so that only the hash tells an update.

The directory starts as an initial synchronisation leaves it (`Synced`): some files,
in any order, each in the database, with a link and in the cloud. A change is a record
whose `stage` says how far its commands are: *waiting* in a queue, *request* (the
callback has run, the transfer has not), *loading* and *placed* for a change from the
cloud.

Abstracted: directories, the contents of the changes a cloud reports, failing requests.

### Daemon

`Happens`, `SetDirty`, `NotifyPoller` are the watcher's callback, which takes no lock;
`pollingLoop()` is split at its wait (`GoesToSleep`, `Sleeps`) so that the notification
can be lost, and at the flag, which is taken before the buffers are. `_changes_buff`
is the `ThreadSafeQueue` module itself, with its two-step close. The main thread is
`shutdown()`, join by join; `Ask`, `Kill` and `RemovePidFile` are `--stop-daemon`.
Events are abstract; each is in one place.

Known and allowed for: shutdown does not wake the polling thread, which can sleep for up
to 10 s, while `--stop-daemon` kills after 5 s (`src/main.cpp:321`); local events that
are buffered when the loop ends are lost; the worker can miss the close (`Stuck`), and
then only the kill ends the process; a second `--run-daemon` does not look for the pid
file (`src/main.cpp:466`).

## 3. Runs

| run | instance | shows |
|---|---|---|
| `active_count` | 2 commands, 2 waiters | no lost wake-up; implements `IdleBarrier`, liveness included |
| `queue` | 3 items, batches up to 2 | implements `WorkQueue`, liveness included: no item lost, overtaken or slept over for ever |
| `pipeline_sync` | 2 downloads with local follow-ups, then an upload behind the barrier; limit 6; 1 retry; any submit or transfer may fail; fairness | counters exact; the three waits are a barrier; waits and shutdown end, unless an exception ends the process or a worker has missed `close()` |
| `pipeline_daemon` | local → 2 clouds, cloud → local → cloud; limit 3; no barrier | one fate, chain order, drained shutdown, no blocked transfer, also when commands are dropped |
| `pipeline_overload` | as `pipeline_sync`, limit 2 | **violated**: the main thread waits for ever |
| `tracker` | 3 changes of a path, 2 of another, two of them lack a directory, the new directory itself; any transfer may fail; every schedule; fairness | one at a time, in order and all carried out on paths on which the threads have not met and no change failed; no crash before they meet; all but a dependent that lacks a directory |
| `tracker_overlap` | the same | **violated**: two changes of a path at once |
| `directories` | 2 clouds, a directory with two in it; users until 3 directories are made; 1 restart; fairness | records real, created paths complete, cloud directories reach every storage, throws only on strangers |
| `initial_sync` | 2 clouds, one of them astray; a file of any of 3 ages in any storage, a second of one age; any command may fail | newest variant kept, nothing overwritten by something older, convergence in storages and database, aborts only after a failure |
| `cloud_changes` | either adapter, 2 files of one name, a folder; 2 writes of users, 1 of the program, 1 restart; lists of 3 may be split | database mirrors the cloud, no echo, throws only on races |
| `local_events` | 2 paths; 2 deeds of users, 1 change from the cloud, 1 restart | directory, database and cloud agree, no echo, aborts only on races |
| `daemon` | 2 events of the directory, 1 of a cloud; fairness | every event is delivered, the changes worker never sleeps over one, the end comes, nothing taken from a cloud is dropped |

Bounds. Two commands and two waiters suffice for the counter: a third of either
adds no new pair of steps, and the theorems hold for any number. The pipeline
needs two commands in one queue, one being retried while another finishes, a chain
whose next command overtakes its predecessor's return, and a fan-out of two; the
instances have all of these. `MaxRetries` is 1 instead of 6 and the limit 2, 3 or 6
instead of 120: the code compares them in one place each, and both sides of the
comparison are reached. Three changes of one path are the smallest number in which
one is in progress and two wait, so that their order matters. Two directories in a
third give `createPath()` paths of which none, one or two components are missing,
and a sibling; one restart is enough to meet every half-done state once, since
`Restart` starts from whatever is there. Three ages give three storages every order,
ties included; two clouds are one with the best variant and one with another; the
second file exists so that rows, waits and the abort of one file meet another in
progress. `cloud_changes` starts with at most one file, so that two files of one name
come and go at one path; two writes of users are an edit after a move, a deletion after a
creation, two files in turn, and with a write of the program every pair of actors
meets; three entries are what two files and a folder can give, and the server may
hand them over in one page or in several. The bounds of
`local_events` are alike; of deeds, foreign changes and restarts it has at most three
in one behaviour. Behaviours in which every file has a fate are not followed further
(`Bounded`), for there is nothing left to check. Two local events are the least with
which a signal for one is lost while the other is handled.

No run sets `CHECK_DEADLOCK FALSE`: a finished, quiet or terminated program stutters
explicitly (`Rest`).

Fairness. Each thread is weakly fair: the scheduler runs it. The mutex of
`ActiveCount` is strongly fair for a thread that waits for it. `Answer(c)` and
`Requeue(c)` are strongly fair in `CommandPipeline`: a transfer is looked at in
every iteration of the worker, and is eventually answered, and a timer expires.
The code sets no timeout on transfers, so that a server which accepts a request
and never answers is outside the assumption. Nobody is assumed to submit, to wait
or to close.

The changes worker of `Directories` is weakly fair: it is a running thread, and its
requests are answered. `InitialSync` needs no fairness: its end is `ClientEnds` of
`CommandPipeline`. `CloudChanges` and `LocalEvents` need none: they say what is true
whenever everything has come to rest. In `Daemon` the watcher's callback, the polling
thread, the changes worker and the main thread are each weakly fair; nobody need ask for
the end, and the kill need not come. The time-out of the wait is a step of the polling
thread: `wait_until()` returns at `next_poll` at the latest.

Two weaknesses are part of the models without a run of their own, and no property
claims otherwise. Both steps of `close()` can fall between a consumer's test and its
sleep, which then never learns of the end: `ImplementsWorkQueue` promises it nothing then, and
`ClientEnds` and `ShutdownEnds` except it by name (`Hung`, `Stuck`). In
`CommandPipeline`, callbacks that run after `HttpClient` was joined leave their next
commands in its queue.

Each violated property is a finding of `PROJECT.json`, with the lines that disagree.
Disagreements of code and intention that are named exceptions of properties which
otherwise hold (`fate`, `Astray`, `Early`, `Hung`, `raced`, `Stuck`, `WaitsForItself`) are
hazards there.

## 4. Proofs

`CommandPipelineProofs`, `ActiveCount`. The inductive invariant adds to the types that the counter is
the number of commands counted in: that a `decrement()` does not take the counter
below zero is not inductive, that it removes one element of a finite set is. From
it: `CountTypeCorrect`, `WakeupsKept` (one step cannot lose a wake-up: only `FetchSub`
makes the counter zero and it leaves a notification pending, only `NotifyAll` ends
that and it does so holding the mutex) and `BarrierSafety`, the safety half of the
refinement of `IdleBarrier`.

`CommandPipelineProofs`. The properties the runs check are not inductive: nothing in
"the counter equals the number of owned commands" forbids a command that is in two
places. The inductive invariant `IInv` therefore starts with `Typed` and
`OnePlace` (a command is in one queue, once, or in one list or hand, or gone); a
step then moves one command, and each counter changes with the set it counts
(`HttpMoves`, `CallbackMoves`), which gives `CountersAlwaysExact`. `Chained` adds
that a callback which is submitting has itself run, and that it ends only when it
has submitted everything; with roots outside all chains and one parent per command
this gives `ChainsInOrder`. `WaitsAreBarrier` holds the argument for the three waits: no
command is lost (`Accounted`), local commands never reach `HttpClient`, and a side
that was found idle stays idle - `HttpClient` because `ShapeAssumption` forbids
chains from a callback back to it, the callback worker because an idle
`HttpClient` hands nothing over. `BarrierHolds` follows for every number of
batches and commands. `ShutdownDrains` rests on a second, smaller invariant
(`Orderly`): the request worker ends only without handles and retries, the callback
worker only on a closed and empty queue, and that queue is closed only after the
request worker, the one who could fill it again, has ended.

`InitialSyncProofs`. That nothing newer is replaced depends on what the local file is
by the time it is uploaded, several steps after the choice of the newest variant, so
`OnlyOlderReplaced` is not inductive. `IInv` says phase by phase what is known.
While files are listed and downloaded the clouds are as listed, a path has at most
one download, of a best variant, and its local file has not changed since the list
(`GoodDownload`); a path that has been treated is waiting for its download,
occupied by a failed one, or its local file is the newest (`LocalNewest`). The wait
for the downloads turns that into: every path that is not occupied is `LocalNewest`.
From then on only clouds are written, with local variants, which keeps it
(`Spreading`). `OlderReplaced` follows from the two ways in which a storage changes
(`Effects`). `NewestStays` needs no more than that and `FromListed`, that no storage
ever contains a variant which none was listed with: what replaces a newest variant
is as new, and therefore newest too. That there is a newest variant to begin with
(`HasNewest`) rests on times being bounded, by the well-foundedness of the naturals.

`TypeCorrect` and `SyncConverges` of the same module need a second invariant,
`DbInv`, about the database: a path has at most one row, and that says what the local file
is (`Rows`); an entry of `localMap` is the variant to spread, and while a download is out
the cloud still has it (`Chosen`); a link is of a file that its cloud has (`Links`); what has
been pushed to a cloud is linked, or its command is under way, or its path is occupied
by a failure (`Spread`). In the end no command is left (`Ended`), and what remains of
`Spread` is `Converged`. `AbortsExplained` is the same argument for the one case in which a
row is missing.

`ChangeTrackerProofs`. Every theorem is about all schedules of the two threads: nothing
is assumed of when they run, and what is excepted is the path on which they have met,
not the run in which they did. `OneChangeUnlessRaced` is not inductive, because a change
that has just been taken out of a queue belongs to nobody, and because a path stays sound
only as long as it has not been raced on: the invariant speaks of each path by itself and of
what the two threads do to *other* paths at the same time. `IInv` says where a change
can be (`Apart`), that the one of a path in progress is the one in the map (`Claims`,
`InMap`), that dependents wait on the change of their own path (`OwnDependents`), that at
most one command of a change is at work (`OneCommand`), and that of the changes of a path
the one in progress came before its dependents, these before those in the queues, and each
list is sorted by arrival (`ArrivalOrder`, `PathOrder`). From it follow `OnePathOneChange`
and `StartedInOrder`, `NothingCrashes` (the second look-ups find what the first promised
until the threads have met) and `NoneForgotten`: a change that has arrived is completed, or
is in a queue, a list of dependents or in progress (`Accounted`, `InWork`), so that none is
left when all is done (`NothingForgotten`, defined with the proofs: that the end comes is the
liveness property of the run).

`SyncManagerProofs`, `Daemon`. `EndDropsNothing` follows from the order of the ends: `_changes_buff`
is closed only when the polling thread has ended, which it never does with fetched
changes in hand, and the changes worker ends only on a closed and empty queue, into
which nobody is left to push. Nothing is assumed of the events. `TypeCorrect` says that an
event is in one place; it is proved with `OnePlace`, the same said of two places at a time.
`NeverAsleepOverItems` uses of it what the mutex says of the changes worker's position:
a batch that comes in finds it outside the steps between its test and its sleep.
About `ThreadSafeQueue` by itself, with batches of any size (the daemon's queue has none):
`QueueTypeCorrect` ties the mutex and the condition variable's list to the consumer's
position, and is inductive; `QueueNeverSleeps` needs it;
`QueueSafety` is the safety half of the refinement of `WorkQueue`.

`SyncManagerProofs`, `Directories`. `createPath()` carries ids, paths and entries from one write to the
next while users go on: `Faithful` says that what it carries is still true when it
is written (what has a row exists, what is to get a row has none yet, ids are those
of their paths), from which `DatabaseFaithful` follows. `Known` says of each prefix of the
path in hand which clouds have it linked or have an entry waiting (`PathsCompleted`).
`Explained` says who made each local directory, since `createPath()` throws only over
one without a row (`ThrowsExplained`). `PathsCompleted` alone supposes that there is a cloud: without one
`createPath()` ends before it has linked anything, and there is nothing to complete.

`CloudChangesProofs`. `TypeCorrect` of `CloudChanges` rests on an invariant of its own, `TypeInv`, which
ties records in different places to each other: a path in an entry, a change, a write or
a row is one that its thing can have (`Spots`); a row's number is never used again,
and its owner never changes (`OwnerOK`, `Keeps`), so that a change that waits refers to
the row it was made for or to none; an upload's row has no link and keeps its path until its callback
has run (`Loose`, `Spares`); a folder has one row, since what has that path is its
own (`FolderRow`). Folders only become more, so that what is possible once stays possible (`Grows`).

`CloudChangesStories` has the other three properties of `CloudChanges`. `MirrorsCloud` speaks of
the quiet end, `NoEcho` of the moment at which an entry is looked at, `ThrowsOnlyOnRaces` of the
one at which a change's turn comes; none says anything of the way there. The inductive
invariant `Inv` adds to `TypeInv`:

* `Births`: what is named anywhere has been in the cloud, except by the one upload that is going to
  create it. `OnePath`: Dropbox's batch has one entry for a path. `FolderStory`: a folder
  without a row is still to come, in the log, the batch or a change.
* `Stories`: of every file to which nothing has happened that excuses a difference but edits
  within one second (`Clean`) there is one story. Nothing else is at its paths (`Alone`), at most
  one change of it is under way (`OneChange`), and it is in one phase. `Changing`: the one change
  leads from its row to what the cloud has (`Right`), and the log has nothing more about it.
  `Sending`: the one write leads from its row to the file or, once arrived, from the file to the
  row (`WriteRight`), and while the cloud's entry about an upload or an update is unread the
  program expects it (`Awaits`). `Resting`: the row agrees with the cloud, or a user's
  entry in the log or the batch will say in what it does not (`Behind`). `Notices`: what is in the
  batch is still so, and an entry about the program's own write finds the row agreeing or the
  write not yet recorded. `FolderFirst`: the folder of a file is told of before the file.
* `ThrownOver`: what has ended the process is not such a file.

One lemma for each action shows that it takes a file's story from phase to phase, gives the file a
fate, or leaves all of it alone; `PollKept`, `EntryStepKept` and the writes are the long ones, because
a look-up by path, id or row could reach the story of another file, which `Alone` excludes.
`ThrowsOnlyOverRaces` is `ThrownOver`. `NothingEchoes`: an entry about the program's own write is
expected, or its row agrees, and of neither a change is made. `DatabaseMirrorsCloud`: when all is
quiet a file can only be `Resting` and is not `Behind`, and a folder without a row has nowhere left to
come from. All three hold for any files, folders, number of users' changes, dropped
requests and restarts, and for both adapters.

`LocalEventsProofs`. `TypeCorrect` is more than it looks: that a callback finds the row it
updates, or that a move's inode is known, are facts of the database and the disk
which the ids inside events, changes and commands refer to. `TypeInv` says what each
kind of record may contain at each stage and that ids and inodes are below the
counters they were drawn from, so that a new one is new.

`LocalEventsProofs` goes on with the invariant from which the other properties of `LocalEvents`
follow, and `LocalEventsStories` ends the proof. `Converges` speaks of the moment at which all is
quiet; why it holds is a matter of everything that happens before. `Inv` adds two things to
the types.

* `Stories`: all that is known of a path without a fate - the file, the events and
  notices, the changes in line, the one at work, its row, the file in the cloud, what is
  expected - is a step of one of a few stories. It is alone: `Absent`; `Creating` (a user made
  it, edits may follow); `Kept` (it has a row, and unless row and cloud are as new as the file
  an edit, an update or a request is on its way: `KeptFlow`); `Deleting` by a user; `CloudNew`,
  `CloudUpdate` and `CloudDelete`, each waiting, loading or placed, with the events of the
  placing still to come. Or it is one of two paths of a move, of a user's (`UserMoving`), of the
  cloud's (`CloudMoving`), or of one that is done but for its event (`CloudMoved`).
* `Apart`: nothing that belongs to a path with a fate reaches one without. The look-ups are by
  inode, by row id and by the cloud's id, and a row whose path was overtaken could be found
  under another: `OwnStat`, `OwnFile`, `OwnRow`, `OwnCid` and `OwnLink` say whose file, row or entry each of
  them stands for, and `Alike` that the two paths of a move share their fate. `OneFile`:
  no two files have one inode.

Every step is a step of the story, or begins another one, or gives the path a fate. Quiet,
only `Absent` and an up-to-date `Kept` are left, which is `Converging`. That a step
has a story at all means that it does not throw, which is `AbortsExplained`. In the stories
an event of the program's own is expected, or its row is as new as the file, or its callback
has not yet put the file down, which is `NoEchoes`. `Apart` is needed for all three.

Assumptions: the set of commands is finite, commands, waiters and the free mutex
are distinct, the size of batches is a natural number. `PipelineAssumption` states
what `ChangeFactory` and unique ownership give: chains alternate between cloud and
local commands, a command has one owner, roots have none. `ShapeAssumption` states
what `initialSync()` dispatches. `InitialSyncAssumption` makes times natural numbers
up to `LastTime`, as those of a `time_t` are bounded, and lets any set of clouds be
`Astray`. None bounds a set of commands,
clouds or files, or a limit.

Only model-checked: liveness under fairness (`ClientEnds`, `CarriedOutUnlessFailed`,
`ReachesAllStorages`, `EventsReachWorker`, `ShutdownEnds`, the liveness halves of the two
refinements), which is beyond the prover. Every safety invariant and every action property of a
passing run is a theorem.

## 5. Not modelled, and what is left

Not modelled:

* **Directories that are renamed or removed.** A local rename of a directory changes its
  own row and none of its children's; the adapters treat folders that move or vanish
  like files. The rows of the children go wrong in ways that depend on the file
  system's notifications, and a model of them would be one of these.
* **Several clouds for one change** in the tracker, which has one command for each step of
  a chain. The number of pending commands is set before the first is submitted, so that a
  change does not complete while others of its commands are still to be submitted;
  `CommandPipeline` has the fan-out of a chain's next commands.
* **A second initial synchronisation** after a crash of the first
  (`src/sync-manager.cpp:551`): it adds a second row for every file.
* **OAuth registration** (`src/http-server.cpp`): a dialogue whose code is handed over
  once, before anything else runs.
* **Command line, configuration, logging, cloud factories, curl options, formats,
  Windows**: input and output without a state that a property could be about.

Worth adding: a path's history as an abstract specification that `ChangeTracker`
implements.
