--------------------------- MODULE CommandPipeline ---------------------------
(***************************************************************************)
(* The pipeline that executes commands: HttpClient (src/Networking.cpp)    *)
(* with its worker thread, CallbackDispatcher (src/CallbackDispatcher.cpp) *)
(* with its own, the commands' chains (src/commands.cpp) and the client    *)
(* thread that dispatches root commands, waits for idleness and shuts the  *)
(* pipeline down (src/sync-manager.cpp).                                   *)
(*                                                                         *)
(* A cloud command is one HTTP transfer followed by its completion         *)
(* callback; a local command is a callback only.  When a callback is over  *)
(* the commands in _next_commands are submitted: those of a cloud command  *)
(* to CallbackDispatcher, those of a local command to HttpClient.          *)
(*                                                                         *)
(* Every command is a unique_ptr, so it is in one place: in its change or  *)
(* its parent (unsent), in the hand of a thread, in one of the two queues, *)
(* in the multi handle, in the list of delayed requests, or gone.  The     *)
(* queues and counters are used as WorkQueue and IdleBarrier specify; how  *)
(* ThreadSafeQueue and ActiveCount implement those is their modules' topic.*)
(* One detail of the queue matters here: close() takes no lock, so that its *)
(* notification can find a worker between the test of pop()'s condition and *)
(* its sleep.  (A spurious wake-up, which ThreadSafeQueue has, would help    *)
(* such a worker; here there is none.)                                     *)
(***************************************************************************)
EXTENDS Integers, Sequences, FiniteSets

CONSTANTS
  Command,          \* the command objects
  LocalCommand,     \* those derived from LocalCommand; the rest are CloudCommands
  NextCommands,     \* [Command -> SUBSET Command]: _next_commands
  Batch,            \* sequence of sets of root commands, in dispatch order
  Mode,             \* "InitialSync": barrier after each batch; "Daemon": none
  MaxConcurrent,    \* HttpClient::_MAX_CONCURRENT, 120 in the code
  MaxRetries,       \* the limit of RequestHandle::scheduleRetry, 6 in the code
  NoCommand         \* an empty hand

Roots == UNION {Batch[i] : i \in DOMAIN Batch}

ASSUME PipelineAssumption ==
  /\ IsFiniteSet(Command)
  /\ NoCommand \notin Command
  /\ LocalCommand \subseteq Command
  /\ NextCommands \in [Command -> SUBSET Command]
  /\ \A c \in Command :      \* chains alternate: cloud, local, cloud
       NextCommands[c] \subseteq
         IF c \in LocalCommand THEN Command \ LocalCommand ELSE LocalCommand
  /\ \A c, d \in Command :   \* a unique_ptr has one owner
       c # d => NextCommands[c] \cap NextCommands[d] = {}
  /\ Batch \in Seq(SUBSET Command)
  /\ \A c \in Command : NextCommands[c] \cap Roots = {}
  /\ Mode \in {"InitialSync", "Daemon"}
  /\ MaxConcurrent \in Nat
  /\ MaxRetries \in Nat

(* What initialSync() dispatches: a download followed by local work, or an *)
(* upload; never a local command followed by cloud commands.               *)
InitialSyncShape ==
  Mode = "InitialSync" => \A c \in LocalCommand : NextCommands[c] = {}

ASSUME ShapeAssumption == InitialSyncShape

VARIABLES
  unsent,           \* commands still owned by their change or their parent
  largeQueue,       \* HttpClient::_large_queue
  largeActive,      \* HttpClient::_large_active_count
  activeHandles,    \* HttpClient::_active_handles: transfers in the multi handle
  delayedRequests,  \* HttpClient::_delayed_requests
  retryCount,       \* RequestHandle::_retry_count of each command
  shouldStop,       \* HttpClient::_should_stop
  largeClosed,      \* _large_queue is closed
  workerPc,         \* the HttpClient worker
  workerHand,       \* the command it holds
  callbackQueue,    \* CallbackDispatcher::_queue
  callbackActive,   \* CallbackDispatcher::_active_count
  callbackClosed,   \* CallbackDispatcher::_queue is closed
  callbackPc,       \* the callback worker
  running,          \* the command whose callback it runs
  callbackHand,     \* the next command it is submitting
  clientPc,         \* the thread that dispatches, waits and shuts down
  clientHand,       \* the root it is submitting
  batch,            \* number of the batch it is working on
  finished,         \* commands whose completion callback has run
  failed,           \* commands whose transfer failed for good
  dropped,          \* commands destroyed by the worker at its limit
  aborted,          \* std::terminate: an exception left its thread
  missed            \* history: the workers that the notification of close()
                    \* has found about to sleep

httpVars == <<largeQueue, largeActive, activeHandles, delayedRequests,
              retryCount>>
workerVars == <<workerPc, workerHand>>
callbackVars == <<callbackPc, running, callbackHand>>
dispatcherVars == <<callbackQueue, callbackActive>>
clientVars == <<clientPc, clientHand, batch>>
stopVars == <<shouldStop, largeClosed, callbackClosed, missed>>
fateVars == <<finished, failed, dropped, aborted>>
vars == <<unsent, httpVars, workerVars, callbackVars, dispatcherVars,
          clientVars, stopVars, fateVars>>

ClientPc == {"submit", "pushHttp", "pushCallback", "waitHttp", "waitCallback",
             "waitHttpAgain", "passed", "stopping", "closing", "notifying",
             "joinWorker", "closeCallback", "notifyCallback", "joinCallback",
             "stopped"}
InPop == {"popping", "dozing", "asleep"}
WorkerPc == InPop \cup {"top", "trying", "gate", "reading", "handOver", "settle",
                       "delayed", "exited"}
CallbackPc == InPop \cup {"running", "chaining", "pushHttp", "pushCallback", "exited"}

InQueue(q) == {q[i] : i \in 1..Len(q)}

Init ==
  /\ unsent = Command
  /\ largeQueue = <<>>
  /\ largeActive = 0
  /\ activeHandles = {}
  /\ delayedRequests = {}
  /\ retryCount = [c \in Command |-> 0]
  /\ shouldStop = FALSE
  /\ largeClosed = FALSE
  /\ workerPc = "top"
  /\ workerHand = NoCommand
  /\ callbackQueue = <<>>
  /\ callbackActive = 0
  /\ callbackClosed = FALSE
  /\ callbackPc = "popping"
  /\ running = NoCommand
  /\ callbackHand = NoCommand
  /\ clientPc = "submit"
  /\ clientHand = NoCommand
  /\ batch = 1
  /\ finished = {}
  /\ failed = {}
  /\ dropped = {}
  /\ aborted = FALSE
  /\ missed = {}

-----------------------------------------------------------------------------
(* Where a thread of a process that is still alive is. *)
ClientAt(l) == ~aborted /\ clientPc = l
WorkerAt(l) == ~aborted /\ workerPc = l
CallbackAt(l) == ~aborted /\ callbackPc = l

(* A worker holds the mutex of its queue from the test of pop()'s condition *)
(* until it sleeps; a push has to wait that long.                          *)
LargeUnlocked == workerPc # "dozing"
CallbackUnlocked == callbackPc # "dozing"

(* The client thread.                                                      *)

(* Commands of the current batch that are still to be dispatched. *)
ToDispatch == IF batch \in DOMAIN Batch THEN Batch[batch] \cap unsent ELSE {}

(* HttpClient::submit: curl has no handle for the request.  The command is  *)
(* destroyed before it is counted, and its change not told.                *)
ClientHasNoHandle(c) ==
  /\ ClientAt("submit")
  /\ c \in ToDispatch \ LocalCommand
  /\ unsent' = unsent \ {c}
  /\ failed' = failed \cup {c}
  /\ UNCHANGED <<clientVars, httpVars, workerVars, callbackVars, dispatcherVars,
                 stopVars, finished, dropped, aborted>>

(* execute() throws when it cannot open the file; nothing catches, on this  *)
(* thread or on the callback worker.                                       *)
ClientCannotOpen ==
  /\ ClientAt("submit")
  /\ ToDispatch \ LocalCommand # {}
  /\ aborted' = TRUE
  /\ UNCHANGED <<unsent, clientVars, httpVars, workerVars, callbackVars,
                 dispatcherVars, stopVars, finished, failed, dropped>>

(* HttpClient::submit: execute() prepares the request; it is counted in ... *)
ClientCountsHttp(c) ==
  /\ ClientAt("submit")
  /\ c \in ToDispatch \ LocalCommand
  /\ unsent' = unsent \ {c}
  /\ largeActive' = largeActive + 1
  /\ clientHand' = c
  /\ clientPc' = "pushHttp"
  /\ UNCHANGED <<largeQueue, activeHandles, delayedRequests, retryCount, batch,
                 workerVars, callbackVars, dispatcherVars, stopVars, fateVars>>

(* ... and then pushed. *)
ClientPushesHttp ==
  /\ ClientAt("pushHttp") /\ LargeUnlocked
  /\ largeQueue' = Append(largeQueue, clientHand)
  /\ clientHand' = NoCommand
  /\ clientPc' = "submit"
  /\ UNCHANGED <<unsent, largeActive, activeHandles, delayedRequests, retryCount,
                 batch, workerVars, callbackVars, dispatcherVars, stopVars,
                 fateVars>>

(* CallbackDispatcher::submit, the same two steps. *)
ClientCountsCallback(c) ==
  /\ ClientAt("submit")
  /\ c \in ToDispatch \cap LocalCommand
  /\ unsent' = unsent \ {c}
  /\ callbackActive' = callbackActive + 1
  /\ clientHand' = c
  /\ clientPc' = "pushCallback"
  /\ UNCHANGED <<callbackQueue, batch, httpVars, workerVars, callbackVars,
                 stopVars, fateVars>>

ClientPushesCallback ==
  /\ ClientAt("pushCallback") /\ CallbackUnlocked
  /\ callbackQueue' = Append(callbackQueue, clientHand)
  /\ clientHand' = NoCommand
  /\ clientPc' = "submit"
  /\ UNCHANGED <<unsent, callbackActive, batch, httpVars, workerVars,
                 callbackVars, stopVars, fateVars>>

(* The batch is out.  initialSync() goes on to its three waits; the daemon  *)
(* takes the next changes, or shuts down without waiting for any.          *)
BatchDispatched ==
  /\ ClientAt("submit")
  /\ ToDispatch = {}
  /\ clientPc' = IF Mode = "InitialSync" THEN "waitHttp" ELSE "passed"
  /\ UNCHANGED <<unsent, clientHand, batch, httpVars, workerVars, callbackVars,
                 dispatcherVars, stopVars, fateVars>>

(* initialSync(): HttpClient, CallbackDispatcher, HttpClient: waitUntilIdle. *)
WaitHttp ==
  /\ ClientAt("waitHttp")
  /\ largeActive = 0
  /\ clientPc' = "waitCallback"
  /\ UNCHANGED <<unsent, clientHand, batch, httpVars, workerVars, callbackVars,
                 dispatcherVars, stopVars, fateVars>>

(* Mutant: the middle wait is missing. *)
SkipWaitCallback ==
  /\ ClientAt("waitCallback")
  /\ clientPc' = "waitHttpAgain"
  /\ UNCHANGED <<unsent, clientHand, batch, httpVars, workerVars, callbackVars,
                 dispatcherVars, stopVars, fateVars>>

WaitCallback ==
  /\ ClientAt("waitCallback")
  /\ callbackActive = 0
  /\ clientPc' = "waitHttpAgain"
  /\ UNCHANGED <<unsent, clientHand, batch, httpVars, workerVars, callbackVars,
                 dispatcherVars, stopVars, fateVars>>

WaitHttpAgain ==
  /\ ClientAt("waitHttpAgain")
  /\ largeActive = 0
  /\ clientPc' = "passed"
  /\ UNCHANGED <<unsent, clientHand, batch, httpVars, workerVars, callbackVars,
                 dispatcherVars, stopVars, fateVars>>

(* Beyond the barrier: the next batch, or shutdown(). *)
NextBatch ==
  /\ ClientAt("passed")
  /\ batch' = batch + 1
  /\ clientPc' = IF batch < Len(Batch) THEN "submit" ELSE "stopping"
  /\ UNCHANGED <<unsent, clientHand, httpVars, workerVars, callbackVars,
                 dispatcherVars, stopVars, fateVars>>

(* HttpClient::shutdown: _should_stop; then _large_queue.close(), which ... *)
StopWorker ==
  /\ ClientAt("stopping")
  /\ shouldStop' = TRUE
  /\ clientPc' = "closing"
  /\ UNCHANGED <<unsent, clientHand, batch, largeClosed, callbackClosed, missed,
                 httpVars, workerVars, callbackVars, dispatcherVars, fateVars>>

(* ... stores _closed ... *)
CloseLarge ==
  /\ ClientAt("closing")
  /\ largeClosed' = TRUE
  /\ clientPc' = "notifying"
  /\ UNCHANGED <<unsent, clientHand, batch, shouldStop, callbackClosed, missed,
                 httpVars, workerVars, callbackVars, dispatcherVars, fateVars>>

(* ... and notifies: a worker that sleeps tests again, one that is about to *)
(* sleep does not notice.                                                  *)
NotifyLarge ==
  /\ ClientAt("notifying")
  /\ workerPc' = IF workerPc = "asleep" THEN "popping" ELSE workerPc
  /\ missed' = missed \cup (IF workerPc = "dozing" THEN {"worker"} ELSE {})
  /\ clientPc' = "joinWorker"
  /\ UNCHANGED <<unsent, clientHand, batch, shouldStop, largeClosed, callbackClosed,
                 httpVars, workerHand, callbackVars, dispatcherVars, fateVars>>

(* The join of the worker. *)
JoinWorker ==
  /\ ClientAt("joinWorker")
  /\ workerPc = "exited"
  /\ clientPc' = "closeCallback"
  /\ UNCHANGED <<unsent, clientHand, batch, httpVars, workerVars, callbackVars,
                 dispatcherVars, stopVars, fateVars>>

(* CallbackDispatcher::finish: the same with its queue; its _should_stop is *)
(* not read.                                                               *)
CloseCallback ==
  /\ ClientAt("closeCallback")
  /\ callbackClosed' = TRUE
  /\ clientPc' = "notifyCallback"
  /\ UNCHANGED <<unsent, clientHand, batch, shouldStop, largeClosed, missed,
                 httpVars, workerVars, callbackVars, dispatcherVars, fateVars>>

NotifyCallback ==
  /\ ClientAt("notifyCallback")
  /\ callbackPc' = IF callbackPc = "asleep" THEN "popping" ELSE callbackPc
  /\ missed' = missed \cup (IF callbackPc = "dozing" THEN {"callback"} ELSE {})
  /\ clientPc' = "joinCallback"
  /\ UNCHANGED <<unsent, clientHand, batch, shouldStop, largeClosed, callbackClosed,
                 httpVars, workerVars, running, callbackHand, dispatcherVars, fateVars>>

(* ... and join. *)
JoinCallback ==
  /\ ClientAt("joinCallback")
  /\ callbackPc = "exited"
  /\ clientPc' = "stopped"
  /\ UNCHANGED <<unsent, clientHand, batch, httpVars, workerVars, callbackVars,
                 dispatcherVars, stopVars, fateVars>>

-----------------------------------------------------------------------------
(* The HttpClient worker.                                                  *)

(* Mutant: the loop forgets the requests that wait for their retry. *)
LoopForgetsDelayed == ~shouldStop \/ largeQueue # <<>> \/ activeHandles # {}

(* The condition of its loop; still_running counts the transfers that are  *)
(* in the multi handle after the messages have been read.                  *)
LoopCondition ==
  \/ ~shouldStop
  \/ largeQueue # <<>>
  \/ activeHandles # {}
  \/ delayedRequests # {}

WorkerTop ==
  /\ WorkerAt("top")
  /\ workerPc' = IF LoopCondition
                 THEN IF largeActive = 0 THEN "popping" ELSE "trying"
                 ELSE "exited"
  /\ UNCHANGED <<unsent, workerHand, httpVars, callbackVars, dispatcherVars,
                 clientVars, stopVars, fateVars>>

(* Idle: the blocking pop().  A push notifies under the mutex, so that a    *)
(* worker asleep wakes to it.                                              *)
PopLarge ==
  /\ WorkerAt("popping") \/ WorkerAt("asleep")
  /\ largeQueue # <<>>
  /\ largeQueue' = Tail(largeQueue)
  /\ activeHandles' = activeHandles \cup {Head(largeQueue)}
  /\ workerPc' = "reading"
  /\ UNCHANGED <<unsent, workerHand, largeActive, delayedRequests, retryCount,
                 callbackVars, dispatcherVars, clientVars, stopVars, fateVars>>

PopLargeClosed ==
  /\ WorkerAt("popping")
  /\ largeQueue = <<>>
  /\ largeClosed
  /\ workerPc' = "reading"
  /\ UNCHANGED <<unsent, workerHand, httpVars, callbackVars, dispatcherVars,
                 clientVars, stopVars, fateVars>>

(* Neither an item nor the close: wait() will block ... *)
WorkerDozes ==
  /\ WorkerAt("popping")
  /\ largeQueue = <<>>
  /\ ~largeClosed
  /\ workerPc' = "dozing"
  /\ UNCHANGED <<unsent, workerHand, httpVars, callbackVars, dispatcherVars,
                 clientVars, stopVars, fateVars>>

(* ... and releases the mutex. *)
WorkerSleeps ==
  /\ WorkerAt("dozing")
  /\ workerPc' = "asleep"
  /\ UNCHANGED <<unsent, workerHand, httpVars, callbackVars, dispatcherVars,
                 clientVars, stopVars, fateVars>>

(* Busy: try_pop() ... *)
TryPopLarge ==
  /\ WorkerAt("trying")
  /\ largeQueue # <<>>
  /\ largeQueue' = Tail(largeQueue)
  /\ workerHand' = Head(largeQueue)
  /\ workerPc' = "gate"
  /\ UNCHANGED <<unsent, largeActive, activeHandles, delayedRequests, retryCount,
                 callbackVars, dispatcherVars, clientVars, stopVars, fateVars>>

TryPopLargeEmpty ==
  /\ WorkerAt("trying")
  /\ largeQueue = <<>>
  /\ workerPc' = "reading"
  /\ UNCHANGED <<unsent, workerHand, httpVars, callbackVars, dispatcherVars,
                 clientVars, stopVars, fateVars>>

(* ... and only then the test of the limit.  Below it the transfer starts; *)
(* at it the loop ends with the command still in a local unique_ptr, which  *)
(* is destroyed, and nothing counts the command out.                       *)
StartTransfer ==
  /\ WorkerAt("gate")
  /\ largeActive < MaxConcurrent
  /\ activeHandles' = activeHandles \cup {workerHand}
  /\ workerHand' = NoCommand
  /\ workerPc' = "trying"
  /\ UNCHANGED <<unsent, largeQueue, largeActive, delayedRequests, retryCount,
                 callbackVars, dispatcherVars, clientVars, stopVars, fateVars>>

DropAtLimit ==
  /\ WorkerAt("gate")
  /\ largeActive >= MaxConcurrent
  /\ dropped' = dropped \cup {workerHand}
  /\ workerHand' = NoCommand
  /\ workerPc' = "reading"
  /\ UNCHANGED <<unsent, httpVars, callbackVars, dispatcherVars, clientVars,
                 stopVars, finished, failed, aborted>>

(* Mutant: a failed transfer is counted out twice. *)
TransferFailedTwice(c) ==
  /\ WorkerAt("reading")
  /\ c \in activeHandles
  /\ activeHandles' = activeHandles \ {c}
  /\ largeActive' = largeActive - 2
  /\ failed' = failed \cup {c}
  /\ UNCHANGED <<unsent, largeQueue, delayedRequests, retryCount, workerVars,
                 callbackVars, dispatcherVars, clientVars, stopVars, finished,
                 dropped, aborted>>

(* Mutant: a failed transfer is not counted out. *)
TransferFailedUncounted(c) ==
  /\ WorkerAt("reading")
  /\ c \in activeHandles
  /\ activeHandles' = activeHandles \ {c}
  /\ failed' = failed \cup {c}
  /\ UNCHANGED <<unsent, largeQueue, largeActive, delayedRequests, retryCount,
                 workerVars, callbackVars, dispatcherVars, clientVars, stopVars,
                 finished, dropped, aborted>>

(* A finished transfer: a curl error, or a status that is neither 200 nor   *)
(* retryable.  Counted out and destroyed; its change is not told.          *)
TransferFailed(c) ==
  /\ WorkerAt("reading")
  /\ c \in activeHandles
  /\ activeHandles' = activeHandles \ {c}
  /\ largeActive' = largeActive - 1
  /\ failed' = failed \cup {c}
  /\ UNCHANGED <<unsent, largeQueue, delayedRequests, retryCount, workerVars,
                 callbackVars, dispatcherVars, clientVars, stopVars, finished,
                 dropped, aborted>>

(* Mutant: a request set aside for a retry is counted out. *)
RetryableCountedOut(c) ==
  /\ WorkerAt("reading")
  /\ c \in activeHandles
  /\ retryCount[c] < MaxRetries
  /\ retryCount' = [retryCount EXCEPT ![c] = @ + 1]
  /\ activeHandles' = activeHandles \ {c}
  /\ delayedRequests' = delayedRequests \cup {c}
  /\ largeActive' = largeActive - 1
  /\ UNCHANGED <<unsent, largeQueue, workerVars, callbackVars, dispatcherVars,
                 clientVars, stopVars, fateVars>>

(* 403, 408, 429 or 5xx: scheduleRetry, and the command is set aside, still *)
(* counted.                                                                *)
TransferRetryable(c) ==
  /\ WorkerAt("reading")
  /\ c \in activeHandles
  /\ retryCount[c] < MaxRetries
  /\ retryCount' = [retryCount EXCEPT ![c] = @ + 1]
  /\ activeHandles' = activeHandles \ {c}
  /\ delayedRequests' = delayedRequests \cup {c}
  /\ UNCHANGED <<unsent, largeQueue, largeActive, workerVars, callbackVars,
                 dispatcherVars, clientVars, stopVars, fateVars>>

(* One retry too many: scheduleRetry throws, nothing on this thread catches. *)
RetriesExhausted(c) ==
  /\ WorkerAt("reading")
  /\ c \in activeHandles
  /\ retryCount[c] = MaxRetries
  /\ aborted' = TRUE
  /\ UNCHANGED <<unsent, httpVars, workerVars, callbackVars, dispatcherVars,
                 clientVars, stopVars, finished, failed, dropped>>

(* Status 200: CallbackDispatcher::submit counts the command in ... *)
TransferOk(c) ==
  /\ WorkerAt("reading")
  /\ c \in activeHandles
  /\ activeHandles' = activeHandles \ {c}
  /\ workerHand' = c
  /\ callbackActive' = callbackActive + 1
  /\ workerPc' = "handOver"
  /\ UNCHANGED <<unsent, largeQueue, largeActive, delayedRequests, retryCount,
                 callbackQueue, callbackVars, clientVars, stopVars, fateVars>>

(* ... and pushes it; ... *)
HandOver ==
  /\ WorkerAt("handOver") /\ CallbackUnlocked
  /\ callbackQueue' = Append(callbackQueue, workerHand)
  /\ workerHand' = NoCommand
  /\ workerPc' = "settle"
  /\ UNCHANGED <<unsent, callbackActive, httpVars, callbackVars, clientVars,
                 stopVars, fateVars>>

(* ... only then does HttpClient count it out. *)
Settle ==
  /\ WorkerAt("settle")
  /\ largeActive' = largeActive - 1
  /\ workerPc' = "reading"
  /\ UNCHANGED <<unsent, workerHand, largeQueue, activeHandles, delayedRequests,
                 retryCount, callbackVars, dispatcherVars, clientVars, stopVars,
                 fateVars>>

(* curl_multi_info_read has no more messages. *)
NoMoreMessages ==
  /\ WorkerAt("reading")
  /\ workerPc' = "delayed"
  /\ UNCHANGED <<unsent, workerHand, httpVars, callbackVars, dispatcherVars,
                 clientVars, stopVars, fateVars>>

(* Mutant: the request stays in the list of delayed requests. *)
RequeueAndKeep(c) ==
  /\ WorkerAt("delayed")
  /\ c \in delayedRequests
  /\ largeQueue' = Append(largeQueue, c)
  /\ UNCHANGED <<unsent, largeActive, activeHandles, delayedRequests, retryCount,
                 workerVars, callbackVars, dispatcherVars, clientVars, stopVars,
                 fateVars>>

(* checkDelayedRequests: a request whose timer has expired is queued again. *)
Requeue(c) ==
  /\ WorkerAt("delayed")
  /\ c \in delayedRequests
  /\ delayedRequests' = delayedRequests \ {c}
  /\ largeQueue' = Append(largeQueue, c)
  /\ UNCHANGED <<unsent, largeActive, activeHandles, retryCount, workerVars,
                 callbackVars, dispatcherVars, clientVars, stopVars, fateVars>>

EndOfIteration ==
  /\ WorkerAt("delayed")
  /\ workerPc' = "top"
  /\ UNCHANGED <<unsent, workerHand, httpVars, callbackVars, dispatcherVars,
                 clientVars, stopVars, fateVars>>

-----------------------------------------------------------------------------
(* The callback worker.                                                    *)

(* Mutant: the chain is continued before the callback's own work. *)
PopCallbackAndChain ==
  /\ CallbackAt("popping") \/ CallbackAt("asleep")
  /\ callbackQueue # <<>>
  /\ callbackQueue' = Tail(callbackQueue)
  /\ running' = Head(callbackQueue)
  /\ callbackPc' = "chaining"
  /\ UNCHANGED <<unsent, callbackHand, callbackActive, httpVars, workerVars,
                 clientVars, stopVars, fateVars>>

PopCallback ==
  /\ CallbackAt("popping") \/ CallbackAt("asleep")
  /\ callbackQueue # <<>>
  /\ callbackQueue' = Tail(callbackQueue)
  /\ running' = Head(callbackQueue)
  /\ callbackPc' = "running"
  /\ UNCHANGED <<unsent, callbackHand, callbackActive, httpVars, workerVars,
                 clientVars, stopVars, fateVars>>

CallbackWorkerEnds ==
  /\ CallbackAt("popping")
  /\ callbackQueue = <<>>
  /\ callbackClosed
  /\ callbackPc' = "exited"
  /\ UNCHANGED <<unsent, running, callbackHand, dispatcherVars, httpVars,
                 workerVars, clientVars, stopVars, fateVars>>

CallbackDozes ==
  /\ CallbackAt("popping")
  /\ callbackQueue = <<>>
  /\ ~callbackClosed
  /\ callbackPc' = "dozing"
  /\ UNCHANGED <<unsent, running, callbackHand, dispatcherVars, httpVars,
                 workerVars, clientVars, stopVars, fateVars>>

CallbackSleeps ==
  /\ CallbackAt("dozing")
  /\ callbackPc' = "asleep"
  /\ UNCHANGED <<unsent, running, callbackHand, dispatcherVars, httpVars,
                 workerVars, clientVars, stopVars, fateVars>>

(* completionCallback up to continueChain(). *)
RunCallback ==
  /\ CallbackAt("running")
  /\ finished' = finished \cup {running}
  /\ callbackPc' = "chaining"
  /\ UNCHANGED <<unsent, running, callbackHand, dispatcherVars, httpVars,
                 workerVars, clientVars, stopVars, failed, dropped, aborted>>

(* The callback throws: a missing link in the database, an answer that does *)
(* not parse, a file that is gone.  Nothing on this thread catches.        *)
CallbackThrows ==
  /\ CallbackAt("running")
  /\ aborted' = TRUE
  /\ UNCHANGED <<unsent, callbackVars, dispatcherVars, httpVars, workerVars,
                 clientVars, stopVars, finished, failed, dropped>>

NextToSubmit == NextCommands[running] \cap unsent

(* LocalCommand::continueChain: HttpClient::submit(next), which may fail or *)
(* throw as for the client.                                                *)
ChainHasNoHandle(c) ==
  /\ CallbackAt("chaining")
  /\ running \in LocalCommand
  /\ c \in NextToSubmit
  /\ unsent' = unsent \ {c}
  /\ failed' = failed \cup {c}
  /\ UNCHANGED <<callbackVars, dispatcherVars, httpVars, workerVars, clientVars,
                 stopVars, finished, dropped, aborted>>

ChainCannotOpen ==
  /\ CallbackAt("chaining")
  /\ running \in LocalCommand
  /\ NextToSubmit # {}
  /\ aborted' = TRUE
  /\ UNCHANGED <<unsent, callbackVars, dispatcherVars, httpVars, workerVars,
                 clientVars, stopVars, finished, failed, dropped>>

ChainCountsHttp(c) ==
  /\ CallbackAt("chaining")
  /\ running \in LocalCommand
  /\ c \in NextToSubmit
  /\ unsent' = unsent \ {c}
  /\ largeActive' = largeActive + 1
  /\ callbackHand' = c
  /\ callbackPc' = "pushHttp"
  /\ UNCHANGED <<running, dispatcherVars, largeQueue, activeHandles,
                 delayedRequests, retryCount, workerVars, clientVars, stopVars,
                 fateVars>>

ChainPushesHttp ==
  /\ CallbackAt("pushHttp") /\ LargeUnlocked
  /\ largeQueue' = Append(largeQueue, callbackHand)
  /\ callbackHand' = NoCommand
  /\ callbackPc' = "chaining"
  /\ UNCHANGED <<unsent, running, dispatcherVars, largeActive, activeHandles,
                 delayedRequests, retryCount, workerVars, clientVars, stopVars,
                 fateVars>>

(* CloudCommand::continueChain: CallbackDispatcher::submit(next). *)
ChainCountsCallback(c) ==
  /\ CallbackAt("chaining")
  /\ running \notin LocalCommand
  /\ c \in NextToSubmit
  /\ unsent' = unsent \ {c}
  /\ callbackActive' = callbackActive + 1
  /\ callbackHand' = c
  /\ callbackPc' = "pushCallback"
  /\ UNCHANGED <<running, callbackQueue, httpVars, workerVars, clientVars,
                 stopVars, fateVars>>

ChainPushesCallback ==
  /\ CallbackAt("pushCallback")
  /\ callbackQueue' = Append(callbackQueue, callbackHand)
  /\ callbackHand' = NoCommand
  /\ callbackPc' = "chaining"
  /\ UNCHANGED <<unsent, running, callbackActive, httpVars, workerVars,
                 clientVars, stopVars, fateVars>>

(* The chain is submitted: needRepeat() is false for every command, so the *)
(* command is counted out and the worker takes the next.                   *)
CallbackDone ==
  /\ CallbackAt("chaining")
  /\ NextToSubmit = {}
  /\ callbackActive' = callbackActive - 1
  /\ running' = NoCommand
  /\ callbackPc' = "popping"
  /\ UNCHANGED <<unsent, callbackHand, callbackQueue, httpVars, workerVars,
                 clientVars, stopVars, fateVars>>

-----------------------------------------------------------------------------
ClientStep ==
  \/ \E c \in Command :
       ClientCountsHttp(c) \/ ClientHasNoHandle(c) \/ ClientCountsCallback(c)
  \/ ClientCannotOpen
  \/ ClientPushesHttp
  \/ ClientPushesCallback
  \/ BatchDispatched
  \/ WaitHttp
  \/ WaitCallback
  \/ WaitHttpAgain
  \/ NextBatch
  \/ StopWorker
  \/ CloseLarge
  \/ NotifyLarge
  \/ JoinWorker
  \/ CloseCallback
  \/ NotifyCallback
  \/ JoinCallback

(* The answer to a transfer. *)
Answer(c) ==
  \/ TransferFailed(c)
  \/ TransferRetryable(c)
  \/ RetriesExhausted(c)
  \/ TransferOk(c)

WorkerStep ==
  \/ WorkerTop
  \/ PopLarge
  \/ PopLargeClosed
  \/ WorkerDozes
  \/ WorkerSleeps
  \/ TryPopLarge
  \/ TryPopLargeEmpty
  \/ StartTransfer
  \/ DropAtLimit
  \/ \E c \in Command : Answer(c) \/ Requeue(c)
  \/ HandOver
  \/ Settle
  \/ NoMoreMessages
  \/ EndOfIteration

CallbackStep ==
  \/ PopCallback
  \/ CallbackWorkerEnds
  \/ CallbackDozes
  \/ CallbackSleeps
  \/ RunCallback
  \/ CallbackThrows
  \/ \E c \in Command :
       ChainCountsHttp(c) \/ ChainHasNoHandle(c) \/ ChainCountsCallback(c)
  \/ ChainCannotOpen
  \/ ChainPushesHttp
  \/ ChainPushesCallback
  \/ CallbackDone

(* Nothing moves after a clean stop or std::terminate. *)
Over == clientPc = "stopped" \/ aborted
(* The client waits in a join for a worker that has missed the close of its *)
(* queue, and nobody is left to push to that queue.                        *)
Hung ==
  /\ callbackPc = "asleep" /\ callbackQueue = <<>>
  /\ \/ /\ clientPc = "joinWorker" /\ "worker" \in missed
        /\ workerPc = "asleep" /\ largeQueue = <<>>
     \/ clientPc = "joinCallback" /\ "callback" \in missed
Rest == (Over \/ Hung) /\ UNCHANGED vars

Next ==
  \/ ClientStep
  \/ WorkerStep
  \/ CallbackStep
  \/ Rest

Spec == Init /\ [][Next]_vars

(* The three threads are scheduled; the network answers every transfer;    *)
(* every retry timer expires.                                              *)
Fairness ==
  /\ WF_vars(ClientStep)
  /\ WF_vars(WorkerStep)
  /\ WF_vars(CallbackStep)
  /\ \A c \in Command : /\ SF_vars(Answer(c))
                        /\ SF_vars(Requeue(c))

FairSpec == Spec /\ Fairness

-----------------------------------------------------------------------------
(* Type invariant. *)
TypeOK ==
  /\ unsent \subseteq Command
  /\ largeQueue \in Seq(Command)
  /\ largeActive \in Nat
  /\ activeHandles \subseteq Command
  /\ delayedRequests \subseteq Command
  /\ retryCount \in [Command -> 0..MaxRetries]
  /\ shouldStop \in BOOLEAN
  /\ largeClosed \in BOOLEAN
  /\ workerPc \in WorkerPc
  /\ workerHand \in Command \cup {NoCommand}
  /\ workerPc \in {"gate", "handOver"} <=> workerHand # NoCommand
  /\ callbackQueue \in Seq(Command)
  /\ callbackActive \in Nat
  /\ callbackClosed \in BOOLEAN
  /\ callbackPc \in CallbackPc
  /\ running \in Command \cup {NoCommand}
  /\ callbackPc \notin InPop \cup {"exited"} <=> running # NoCommand
  /\ callbackHand \in Command \cup {NoCommand}
  /\ callbackPc \in {"pushHttp", "pushCallback"} <=> callbackHand # NoCommand
  /\ clientPc \in ClientPc
  /\ clientHand \in Command \cup {NoCommand}
  /\ clientPc \in {"pushHttp", "pushCallback"} <=> clientHand # NoCommand
  /\ batch \in Nat
  /\ finished \subseteq Command
  /\ failed \subseteq Command
  /\ dropped \subseteq Command
  /\ aborted \in BOOLEAN
  /\ missed \subseteq {"worker", "callback"}

(* What a hand holds, as a set. *)
Held(hand) == {hand} \ {NoCommand}

(* Commands HttpClient has counted in and not out. *)
HttpOwned ==
  InQueue(largeQueue) \cup activeHandles \cup delayedRequests \cup dropped
    \cup Held(workerHand)
    \cup (IF clientPc = "pushHttp" THEN Held(clientHand) ELSE {})
    \cup (IF callbackPc = "pushHttp" THEN Held(callbackHand) ELSE {})

(* Commands on their way to, or in, the callback worker. *)
CallbackOwned ==
  InQueue(callbackQueue) \cup Held(running)
    \cup (IF workerPc = "handOver" THEN Held(workerHand) ELSE {})
    \cup (IF clientPc = "pushCallback" THEN Held(clientHand) ELSE {})
    \cup (IF callbackPc = "pushCallback" THEN Held(callbackHand) ELSE {})

(* The counters are exact: HttpClient's is the number of commands it owns, *)
(* plus one it has handed over and not yet settled; CallbackDispatcher's   *)
(* is the number of commands queued for, or in, a callback.  A command     *)
(* dropped at the limit stays in HttpClient's count for ever.              *)
CountersExact ==
  /\ largeActive = Cardinality(HttpOwned) + (IF workerPc = "settle" THEN 1 ELSE 0)
  /\ callbackActive = Cardinality(CallbackOwned)

(* No command is executed twice or reported twice: whatever became of it,  *)
(* it is not queued, delayed, in transfer or in a hand any more, and each  *)
(* has one fate.                                                           *)
OneFate ==
  /\ finished \cap (failed \cup dropped) = {}
  /\ failed \cap dropped = {}
  /\ (finished \cup failed) \cap (HttpOwned \cup (CallbackOwned \ {running})) = {}
  /\ unsent \cap (finished \cup failed \cup HttpOwned \cup CallbackOwned) = {}

(* A command is sent only after the callback of the command it depends on  *)
(* has run: no upload before its download is in place.                     *)
ChainOrder ==
  \A c \in Command : \A d \in NextCommands[c] : d \notin unsent => c \in finished

(* Nothing is queued, in transfer, delayed, in a hand or in a callback. *)
Quiet ==
  /\ largeQueue = <<>> /\ activeHandles = {} /\ delayedRequests = {}
  /\ callbackQueue = <<>> /\ running = NoCommand
  /\ workerHand = NoCommand /\ callbackHand = NoCommand /\ clientHand = NoCommand

(* The three waits of initialSync() are a barrier: behind them nothing is  *)
(* in progress, every root dispatched so far has been finished or has      *)
(* failed, and every chain has run as far as it ever will.                 *)
BarrierSound ==
  (Mode = "InitialSync" /\ clientPc = "passed") =>
    /\ Quiet
    /\ \A i \in DOMAIN Batch : i <= batch => Batch[i] \subseteq finished \cup failed
    /\ \A c \in finished : NextCommands[c] \subseteq finished

(* The worker enters the blocking pop() only when nothing it alone can      *)
(* finish is left: no transfer is in the multi handle, which would not be  *)
(* driven while it blocks, and no request waits for its retry.             *)
BlocksOnlyWhenDone ==
  workerPc \in InPop => activeHandles = {} /\ delayedRequests = {}

(* shutdown() leaves no transfer or callback behind that was in progress.  *)
StoppedDrained ==
  clientPc = "stopped" =>
    /\ activeHandles = {} /\ delayedRequests = {}
    /\ callbackQueue = <<>> /\ running = NoCommand

(* The client gets through its waits and the shutdown, unless the process  *)
(* is terminated by an exception, or hangs in a join because a worker has   *)
(* missed the close of its queue.                                          *)
ClientEnds == <>(Over \/ Hung)

=============================================================================
