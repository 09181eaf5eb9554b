------------------------ MODULE CommandPipelineProofs ------------------------
(***************************************************************************)
(* Proofs about CommandPipeline for every set of commands, every shape of  *)
(* chains and batches, every limit of transfers and of retries, and about  *)
(* the counter its two sides keep, ActiveCount, by itself.                  *)
(*                                                                         *)
(* The inductive invariant says where each command is: in one place only.  *)
(* From it follow the exactness of the two counters, and from that what    *)
(* the threads conclude from a counter that is zero.                       *)
(***************************************************************************)
EXTENDS CommandPipeline, ActiveCount, FiniteSetTheorems, SequenceTheorems, TLAPS

-----------------------------------------------------------------------------
(* Queues without repetition, and the set of their elements. *)
NoRepeat(q) == \A i, j \in 1..Len(q) : q[i] = q[j] => i = j

(* A queue of commands contains commands only. *)
LEMMA QueueElements ==
  ASSUME NEW q \in Seq(Command) PROVE InQueue(q) \subseteq Command
  BY ElementOfSeq DEF InQueue

(* What an append does to the elements of a queue. *)
LEMMA AppendElements ==
  ASSUME NEW q \in Seq(Command), NEW c \in Command
  PROVE  /\ Append(q, c) \in Seq(Command)
         /\ InQueue(Append(q, c)) = InQueue(q) \cup {c}
         /\ NoRepeat(q) /\ c \notin InQueue(q) => NoRepeat(Append(q, c))
<1> DEFINE a == Append(q, c)
<1>1. /\ a \in Seq(Command)
      /\ Len(q) \in Nat
      /\ Len(a) = Len(q) + 1
      /\ \A i \in 1..Len(q) : a[i] = q[i]
      /\ a[Len(q) + 1] = c
  BY AppendProperties, LenProperties
<1> HIDE DEF a
<1>2. InQueue(a) = InQueue(q) \cup {c}
  <2>1. ASSUME NEW x \in InQueue(a) PROVE x \in InQueue(q) \cup {c}
    <3>1. PICK i \in 1..Len(a) : x = a[i]
      BY DEF InQueue
    <3>2. i \in 1..Len(q) \/ i = Len(q) + 1
      BY <1>1
    <3> QED
      BY <1>1, <3>1, <3>2 DEF InQueue
  <2>2. ASSUME NEW x \in InQueue(q) PROVE x \in InQueue(a)
    <3>1. PICK i \in 1..Len(q) : x = q[i]
      BY DEF InQueue
    <3>2. i \in 1..Len(a) /\ x = a[i]
      BY <1>1, <3>1
    <3> QED
      BY <3>2 DEF InQueue
  <2>3. c \in InQueue(a)
    <3>1. Len(q) + 1 \in 1..Len(a)
      BY <1>1
    <3> QED
      BY <1>1, <3>1 DEF InQueue
  <2> QED
    BY <2>1, <2>2, <2>3
<1>3. ASSUME NoRepeat(q), c \notin InQueue(q) PROVE NoRepeat(a)
  <2> SUFFICES ASSUME NEW i \in 1..Len(a), NEW j \in 1..Len(a), a[i] = a[j]
               PROVE  i = j
    BY DEF NoRepeat
  <2>1. \A k \in 1..Len(q) : q[k] # c
    BY <1>3 DEF InQueue
  <2> QED
    BY <1>1, <1>3, <2>1 DEF NoRepeat
<1> QED
  BY <1>1, <1>2, <1>3 DEF a

(* What taking the head does to them. *)
LEMMA TailElements ==
  ASSUME NEW q \in Seq(Command), q # <<>>, NoRepeat(q)
  PROVE  /\ Head(q) \in Command
         /\ Tail(q) \in Seq(Command)
         /\ Head(q) \in InQueue(q)
         /\ InQueue(Tail(q)) = InQueue(q) \ {Head(q)}
         /\ NoRepeat(Tail(q))
<1> DEFINE t == Tail(q)
           h == Head(q)
<1>1. /\ h \in Command /\ t \in Seq(Command)
      /\ Len(q) \in Nat \ {0}
      /\ Len(t) = Len(q) - 1
      /\ h = q[1]
      /\ \A i \in 1..Len(t) : t[i] = q[i + 1]
  BY HeadTailProperties, EmptySeq, LenProperties
<1> HIDE DEF t, h
<1>2. h \in InQueue(q)
  BY <1>1 DEF InQueue
<1>3. InQueue(t) = InQueue(q) \ {h}
  <2>1. ASSUME NEW x \in InQueue(t) PROVE x \in InQueue(q) \ {h}
    <3>1. PICK i \in 1..Len(t) : x = t[i]
      BY DEF InQueue
    <3>2. i + 1 \in 1..Len(q) /\ x = q[i + 1] /\ i + 1 # 1 /\ 1 \in 1..Len(q)
      BY <1>1, <3>1
    <3> QED
      BY <1>1, <3>2 DEF InQueue, NoRepeat
  <2>2. ASSUME NEW x \in InQueue(q), x # h PROVE x \in InQueue(t)
    <3>1. PICK i \in 1..Len(q) : x = q[i]
      BY DEF InQueue
    <3>2. i - 1 \in 1..Len(t) /\ t[i - 1] = q[(i - 1) + 1] /\ (i - 1) + 1 = i
      BY <1>1, <2>2, <3>1
    <3> QED
      BY <3>1, <3>2 DEF InQueue
  <2> QED
    BY <2>1, <2>2
<1>4. NoRepeat(t)
  <2> SUFFICES ASSUME NEW i \in 1..Len(t), NEW j \in 1..Len(t), t[i] = t[j]
               PROVE  i = j
    BY DEF NoRepeat
  <2>1. i + 1 \in 1..Len(q) /\ j + 1 \in 1..Len(q) /\ q[i + 1] = q[j + 1]
    BY <1>1
  <2> QED
    BY <2>1, <1>1 DEF NoRepeat
<1> QED
  BY <1>1, <1>2, <1>3, <1>4 DEF t, h

(* Only the empty queue has no elements. *)
LEMMA NoElements ==
  ASSUME NEW q \in Seq(Command), InQueue(q) = {} PROVE q = <<>>
<1>1. Len(q) \in Nat /\ 1 \notin 1..Len(q)
  BY LenProperties DEF InQueue
<1> QED
  BY <1>1, EmptySeq, LenProperties

(* The empty queue. *)
LEMMA EmptyElements == InQueue(<<>>) = {} /\ NoRepeat(<<>>) /\ <<>> \in Seq(Command)
  BY EmptySeq DEF InQueue, NoRepeat

-----------------------------------------------------------------------------
(* TypeOK without the counters. *)
Typed ==
  /\ unsent \subseteq Command
  /\ largeQueue \in Seq(Command)
  /\ activeHandles \subseteq Command
  /\ delayedRequests \subseteq Command
  /\ retryCount \in [Command -> 0..MaxRetries]
  /\ shouldStop \in BOOLEAN
  /\ largeClosed \in BOOLEAN
  /\ workerPc \in WorkerPc
  /\ workerHand \in Command \cup {NoCommand}
  /\ workerPc \in {"gate", "handOver"} <=> workerHand # NoCommand
  /\ callbackQueue \in Seq(Command)
  /\ callbackClosed \in BOOLEAN
  /\ callbackPc \in CallbackPc
  /\ running \in Command \cup {NoCommand}
  /\ callbackPc \notin InPop \cup {"exited"} <=> running # NoCommand
  /\ callbackHand \in Command \cup {NoCommand}
  /\ callbackPc \in {"pushHttp", "pushCallback"} <=> callbackHand # NoCommand
  /\ clientPc \in ClientPc
  /\ clientHand \in Command \cup {NoCommand}
  /\ clientPc \in {"pushHttp", "pushCallback"} <=> clientHand # NoCommand
  /\ batch \in Nat
  /\ finished \subseteq Command
  /\ failed \subseteq Command
  /\ dropped \subseteq Command
  /\ aborted \in BOOLEAN
  /\ missed \subseteq {"worker", "callback"}

(* A command is in one place: unsent, in a queue (once), in the multi      *)
(* handle, delayed, dropped, failed, in a hand or in its callback; and it  *)
(* is nowhere once its callback is over.                                   *)
Hands == {workerHand, clientHand, callbackHand, running}

OnePlace ==
  /\ NoRepeat(largeQueue)
  /\ NoRepeat(callbackQueue)
  /\ unsent \cap (InQueue(largeQueue) \cup activeHandles \cup delayedRequests \cup
                  dropped \cup failed \cup InQueue(callbackQueue) \cup Hands) = {}
  /\ InQueue(largeQueue) \cap (activeHandles \cup delayedRequests \cup dropped \cup
                               failed \cup InQueue(callbackQueue) \cup Hands) = {}
  /\ activeHandles \cap (delayedRequests \cup dropped \cup failed \cup
                         InQueue(callbackQueue) \cup Hands) = {}
  /\ delayedRequests \cap (dropped \cup failed \cup InQueue(callbackQueue) \cup Hands) = {}
  /\ dropped \cap (failed \cup InQueue(callbackQueue) \cup Hands) = {}
  /\ failed \cap (InQueue(callbackQueue) \cup Hands) = {}
  /\ InQueue(callbackQueue) \cap Hands = {}
  /\ workerHand # NoCommand => workerHand \notin {clientHand, callbackHand, running}
  /\ clientHand # NoCommand => clientHand \notin {callbackHand, running}
  /\ callbackHand # NoCommand => callbackHand # running
  /\ finished \cap (unsent \cup InQueue(largeQueue) \cup activeHandles \cup
                    delayedRequests \cup dropped \cup failed \cup
                    InQueue(callbackQueue) \cup
                    {workerHand, clientHand, callbackHand}) = {}

Located == Typed /\ OnePlace

(* The variables OnePlace depends on. *)
placeVars == <<unsent, largeQueue, activeHandles, delayedRequests, dropped, failed,
               callbackQueue, workerHand, clientHand, callbackHand, running,
               finished>>

(* The steps of the shutdown. *)
ShutsDown ==
  \/ StopWorker \/ CloseLarge \/ NotifyLarge \/ JoinWorker
  \/ CloseCallback \/ NotifyCallback \/ JoinCallback

(* A callback worker without a command waits, or ends. *)
CallbackRests ==
  CallbackWorkerEnds \/ CallbackDozes \/ CallbackSleeps \/ NotifyCallback

(* Steps that leave every command where it is. *)
MovesNothing ==
  \/ BatchDispatched \/ WaitHttp \/ WaitCallback \/ WaitHttpAgain \/ NextBatch
  \/ ClientCannotOpen \/ ShutsDown
  \/ WorkerTop \/ PopLargeClosed \/ WorkerDozes \/ WorkerSleeps \/ TryPopLargeEmpty
  \/ Settle \/ NoMoreMessages \/ EndOfIteration
  \/ \E c \in Command : RetriesExhausted(c)
  \/ CallbackRests \/ CallbackThrows \/ ChainCannotOpen
  \/ UNCHANGED vars

(* A submit that ends without a handle. *)
SubmitFails(c) == ClientHasNoHandle(c) \/ ChainHasNoHandle(c)

LEMMA NothingMoved == ASSUME MovesNothing PROVE UNCHANGED placeVars
  BY DEF MovesNothing, BatchDispatched, WaitHttp, WaitCallback, WaitHttpAgain,
     NextBatch, ClientCannotOpen, ShutsDown, StopWorker, CloseLarge, NotifyLarge,
     JoinWorker, CloseCallback, NotifyCallback, JoinCallback, WorkerTop,
     PopLargeClosed, WorkerDozes, WorkerSleeps, TryPopLargeEmpty, Settle,
     NoMoreMessages, EndOfIteration, RetriesExhausted, CallbackRests,
     CallbackWorkerEnds, CallbackDozes, CallbackSleeps, CallbackThrows,
     ChainCannotOpen, placeVars, vars, httpVars, workerVars, callbackVars,
     dispatcherVars, clientVars, stopVars, fateVars

-----------------------------------------------------------------------------
(* Every step preserves the types. *)
LEMMA TypedStep == ASSUME Located, [Next]_vars PROVE Typed'
<1> USE PipelineAssumption
    DEF PipelineAssumption, Located, Typed, ClientPc, WorkerPc, CallbackPc, ClientAt,
        WorkerAt, CallbackAt, InPop, httpVars, workerVars, callbackVars,
        dispatcherVars, clientVars, stopVars, fateVars
<1>1. CASE UNCHANGED vars
  BY <1>1 DEF vars
<1>2. CASE ClientStep
  <2>1. ASSUME NEW c \in Command, ClientCountsHttp(c) PROVE Typed'
    BY <2>1 DEF ClientCountsHttp, ToDispatch
  <2>2. ASSUME NEW c \in Command, ClientCountsCallback(c) PROVE Typed'
    BY <2>2 DEF ClientCountsCallback, ToDispatch
  <2>3. CASE ClientPushesHttp
    BY <2>3, AppendElements DEF ClientPushesHttp
  <2>4. CASE ClientPushesCallback
    BY <2>4, AppendElements DEF ClientPushesCallback
  <2>5. CASE BatchDispatched BY <2>5 DEF BatchDispatched
  <2>6. CASE WaitHttp        BY <2>6 DEF WaitHttp
  <2>7. CASE WaitCallback    BY <2>7 DEF WaitCallback
  <2>8. CASE WaitHttpAgain   BY <2>8 DEF WaitHttpAgain
  <2>9. CASE NextBatch       BY <2>9 DEF NextBatch
  <2>10. CASE StopWorker     BY <2>10 DEF StopWorker
  <2>11. CASE JoinWorker     BY <2>11 DEF JoinWorker
  <2>12. CASE JoinCallback   BY <2>12 DEF JoinCallback
  <2>13. ASSUME NEW c \in Command, ClientHasNoHandle(c) PROVE Typed'
    BY <2>13 DEF ClientHasNoHandle, ToDispatch
  <2>14. CASE ClientCannotOpen BY <2>14 DEF ClientCannotOpen
  <2>15. CASE CloseLarge       BY <2>15 DEF CloseLarge
  <2>16. CASE NotifyLarge      BY <2>16 DEF NotifyLarge
  <2>17. CASE CloseCallback    BY <2>17 DEF CloseCallback
  <2>18. CASE NotifyCallback   BY <2>18 DEF NotifyCallback
  <2> QED
    BY <1>2, <2>1, <2>2, <2>3, <2>4, <2>5, <2>6, <2>7, <2>8, <2>9, <2>10, <2>11,
       <2>12, <2>13, <2>14, <2>15, <2>16, <2>17, <2>18
    DEF ClientStep
<1>3. CASE WorkerStep
  <2>1. CASE WorkerTop BY <2>1 DEF WorkerTop
  <2>2. CASE PopLarge
    BY <2>2, TailElements DEF PopLarge, OnePlace
  <2>3. CASE PopLargeClosed BY <2>3 DEF PopLargeClosed
  <2>4. CASE TryPopLarge
    BY <2>4, TailElements DEF TryPopLarge, OnePlace
  <2>5. CASE TryPopLargeEmpty BY <2>5 DEF TryPopLargeEmpty
  <2>6. CASE StartTransfer    BY <2>6 DEF StartTransfer
  <2>7. CASE DropAtLimit      BY <2>7 DEF DropAtLimit
  <2>8. ASSUME NEW c \in Command, Answer(c) PROVE Typed'
    <3>1. CASE TransferFailed(c)    BY <3>1 DEF TransferFailed
    <3>2. CASE TransferRetryable(c) BY <3>2 DEF TransferRetryable
    <3>3. CASE RetriesExhausted(c)  BY <3>3 DEF RetriesExhausted
    <3>4. CASE TransferOk(c)        BY <3>4 DEF TransferOk
    <3> QED BY <2>8, <3>1, <3>2, <3>3, <3>4 DEF Answer
  <2>9. ASSUME NEW c \in Command, Requeue(c) PROVE Typed'
    BY <2>9, AppendElements DEF Requeue
  <2>10. CASE HandOver
    BY <2>10, AppendElements DEF HandOver
  <2>11. CASE Settle         BY <2>11 DEF Settle
  <2>12. CASE NoMoreMessages BY <2>12 DEF NoMoreMessages
  <2>13. CASE EndOfIteration BY <2>13 DEF EndOfIteration
  <2>14. CASE WorkerDozes    BY <2>14 DEF WorkerDozes
  <2>15. CASE WorkerSleeps   BY <2>15 DEF WorkerSleeps
  <2> QED
    BY <1>3, <2>1, <2>2, <2>3, <2>4, <2>5, <2>6, <2>7, <2>8, <2>9, <2>10, <2>11,
       <2>12, <2>13, <2>14, <2>15
    DEF WorkerStep
<1>4. CASE CallbackStep
  <2>1. CASE PopCallback
    BY <2>1, TailElements DEF PopCallback, OnePlace
  <2>2. CASE CallbackWorkerEnds BY <2>2 DEF CallbackWorkerEnds
  <2>3. CASE RunCallback        BY <2>3 DEF RunCallback
  <2>4. CASE CallbackThrows     BY <2>4 DEF CallbackThrows
  <2>5. ASSUME NEW c \in Command, ChainCountsHttp(c) PROVE Typed'
    BY <2>5 DEF ChainCountsHttp
  <2>6. ASSUME NEW c \in Command, ChainCountsCallback(c) PROVE Typed'
    BY <2>6 DEF ChainCountsCallback
  <2>7. CASE ChainPushesHttp
    BY <2>7, AppendElements DEF ChainPushesHttp
  <2>8. CASE ChainPushesCallback
    BY <2>8, AppendElements DEF ChainPushesCallback
  <2>9. CASE CallbackDone    BY <2>9 DEF CallbackDone
  <2>10. CASE CallbackDozes  BY <2>10 DEF CallbackDozes
  <2>11. CASE CallbackSleeps BY <2>11 DEF CallbackSleeps
  <2>12. ASSUME NEW c \in Command, ChainHasNoHandle(c) PROVE Typed'
    BY <2>12 DEF ChainHasNoHandle
  <2>13. CASE ChainCannotOpen BY <2>13 DEF ChainCannotOpen
  <2> QED
    BY <1>4, <2>1, <2>2, <2>3, <2>4, <2>5, <2>6, <2>7, <2>8, <2>9, <2>10, <2>11,
       <2>12, <2>13
    DEF CallbackStep
<1> QED
  BY <1>1, <1>2, <1>3, <1>4 DEF Next, Rest

-----------------------------------------------------------------------------
(* Every step moves at most one command, from the place where it was.      *)
LEMMA OnePlaceStep == ASSUME Located, [Next]_vars PROVE OnePlace'
<1> USE PipelineAssumption
    DEF PipelineAssumption, Located, Typed, OnePlace, Hands, httpVars, workerVars,
        callbackVars, dispatcherVars, clientVars, stopVars, fateVars
<1>0. InQueue(largeQueue) \subseteq Command /\ InQueue(callbackQueue) \subseteq Command
  BY QueueElements
<1>1. CASE MovesNothing
  BY <1>1, NothingMoved DEF placeVars
<1>2. ASSUME NEW c \in Command,
             \/ ClientCountsHttp(c) \/ ClientCountsCallback(c)
             \/ ChainCountsHttp(c) \/ ChainCountsCallback(c) \/ SubmitFails(c)
      PROVE  OnePlace'
  <2>1. CASE ClientCountsHttp(c)
    BY <2>1 DEF ClientCountsHttp, ToDispatch, ClientAt
  <2>2. CASE ClientCountsCallback(c)
    BY <2>2 DEF ClientCountsCallback, ToDispatch, ClientAt
  <2>3. CASE ChainCountsHttp(c)
    BY <2>3 DEF ChainCountsHttp, NextToSubmit, CallbackAt
  <2>4. CASE ChainCountsCallback(c)
    BY <2>4 DEF ChainCountsCallback, NextToSubmit, CallbackAt
  <2>5. CASE SubmitFails(c)
    BY <2>5 DEF SubmitFails, ClientHasNoHandle, ChainHasNoHandle, ToDispatch,
                NextToSubmit, ClientAt, CallbackAt
  <2> QED
    BY <1>2, <2>1, <2>2, <2>3, <2>4, <2>5
<1>3. CASE ClientPushesHttp
  BY <1>0, <1>3, AppendElements DEF ClientPushesHttp, ClientAt
<1>4. CASE ClientPushesCallback
  BY <1>0, <1>4, AppendElements DEF ClientPushesCallback, ClientAt
<1>5. CASE PopLarge
  BY <1>5, TailElements DEF PopLarge, WorkerAt
<1>6. CASE TryPopLarge
  BY <1>6, TailElements DEF TryPopLarge, WorkerAt
<1>7. CASE StartTransfer
  BY <1>0, <1>7 DEF StartTransfer, WorkerAt
<1>8. CASE DropAtLimit
  BY <1>0, <1>8 DEF DropAtLimit, WorkerAt
<1>9. ASSUME NEW c \in Command,
             TransferFailed(c) \/ TransferRetryable(c) \/ TransferOk(c)
      PROVE  OnePlace'
  <2>1. CASE TransferFailed(c)    BY <2>1 DEF TransferFailed, WorkerAt
  <2>2. CASE TransferRetryable(c) BY <2>2 DEF TransferRetryable, WorkerAt
  <2>3. CASE TransferOk(c)        BY <2>3 DEF TransferOk, WorkerAt
  <2> QED BY <1>9, <2>1, <2>2, <2>3
<1>10. ASSUME NEW c \in Command, Requeue(c) PROVE OnePlace'
  BY <1>10, AppendElements DEF Requeue, WorkerAt
<1>11. CASE HandOver
  BY <1>0, <1>11, AppendElements DEF HandOver, WorkerAt
<1>12. CASE PopCallback
  BY <1>12, TailElements DEF PopCallback, CallbackAt
<1>13. CASE RunCallback
  BY <1>13 DEF RunCallback, CallbackAt, InPop
<1>14. CASE ChainPushesHttp
  BY <1>0, <1>14, AppendElements DEF ChainPushesHttp, CallbackAt
<1>15. CASE ChainPushesCallback
  BY <1>0, <1>15, AppendElements DEF ChainPushesCallback, CallbackAt
<1>16. CASE CallbackDone
  BY <1>0, <1>16 DEF CallbackDone, CallbackAt
<1> QED
  BY <1>1, <1>2, <1>3, <1>4, <1>5, <1>6, <1>7, <1>8, <1>9, <1>10, <1>11, <1>12,
     <1>13, <1>14, <1>15, <1>16
  DEF Next, ClientStep, WorkerStep, CallbackStep, Answer, Rest, MovesNothing,
      ShutsDown, CallbackRests, SubmitFails

-----------------------------------------------------------------------------
(* The counters.  Sets of commands are finite, and so is what the two      *)
(* workers own.                                                            *)
LEMMA OwnedFinite ==
  ASSUME Typed
  PROVE  /\ HttpOwned \subseteq Command /\ IsFiniteSet(HttpOwned)
         /\ CallbackOwned \subseteq Command /\ IsFiniteSet(CallbackOwned)
<1>1. InQueue(largeQueue) \subseteq Command /\ InQueue(callbackQueue) \subseteq Command
  BY QueueElements DEF Typed
<1>2. HttpOwned \subseteq Command
  BY <1>1 DEF Typed, HttpOwned, Held
<1>3. CallbackOwned \subseteq Command
  BY <1>1 DEF Typed, CallbackOwned, Held
<1> QED
  BY <1>2, <1>3, PipelineAssumption, FS_Subset DEF PipelineAssumption

(* Counting in and counting out. *)
LEMMA CountIn ==
  ASSUME NEW S, NEW x, IsFiniteSet(S), x \notin S
  PROVE  Cardinality(S \cup {x}) = Cardinality(S) + 1
  BY FS_AddElement

LEMMA CountOut ==
  ASSUME NEW S, NEW x, IsFiniteSet(S), x \in S
  PROVE  Cardinality(S \ {x}) = Cardinality(S) - 1
  BY FS_RemoveElement

(* The part of CountersExact about each worker. *)
HttpExact ==
  largeActive = Cardinality(HttpOwned) + (IF workerPc = "settle" THEN 1 ELSE 0)
CallbackExact == callbackActive = Cardinality(CallbackOwned)

(* Steps that change neither what HttpClient owns nor its counter. *)
KeepsHttp ==
  \/ MovesNothing /\ ~Settle
  \/ ClientPushesHttp \/ ClientPushesCallback \/ PopLarge \/ TryPopLarge
  \/ StartTransfer \/ DropAtLimit \/ PopCallback \/ RunCallback
  \/ ChainPushesHttp \/ ChainPushesCallback \/ CallbackDone
  \/ \E c \in Command :
       \/ ClientCountsCallback(c) \/ ChainCountsCallback(c)
       \/ TransferRetryable(c) \/ TransferOk(c) \/ Requeue(c) \/ SubmitFails(c)

LEMMA HttpKept ==
  ASSUME Located, KeepsHttp
  PROVE  /\ HttpOwned' = HttpOwned
         /\ largeActive' = largeActive
         /\ workerPc' = "settle" <=> workerPc = "settle"
<1> USE PipelineAssumption
    DEF PipelineAssumption, Located, Typed, HttpOwned, Held, httpVars, workerVars,
        callbackVars, dispatcherVars, clientVars, stopVars, fateVars,
        ClientAt, WorkerAt, CallbackAt, InPop
<1> DEFINE Kept == /\ HttpOwned' = HttpOwned
                   /\ largeActive' = largeActive
                   /\ workerPc' = "settle" <=> workerPc = "settle"
<1>1. CASE MovesNothing /\ ~Settle
  <2>1. CASE BatchDispatched    BY <2>1 DEF BatchDispatched
  <2>2. CASE WaitHttp           BY <2>2 DEF WaitHttp
  <2>3. CASE WaitCallback       BY <2>3 DEF WaitCallback
  <2>4. CASE WaitHttpAgain      BY <2>4 DEF WaitHttpAgain
  <2>5. CASE NextBatch          BY <2>5 DEF NextBatch
  <2>6. CASE StopWorker         BY <2>6 DEF StopWorker
  <2>7. CASE JoinWorker         BY <2>7 DEF JoinWorker
  <2>8. CASE JoinCallback       BY <2>8 DEF JoinCallback
  <2>9. CASE WorkerTop          BY <2>9 DEF WorkerTop
  <2>10. CASE PopLargeClosed    BY <2>10 DEF PopLargeClosed
  <2>11. CASE TryPopLargeEmpty  BY <2>11 DEF TryPopLargeEmpty
  <2>12. CASE NoMoreMessages    BY <2>12 DEF NoMoreMessages
  <2>13. CASE EndOfIteration    BY <2>13 DEF EndOfIteration
  <2>14. CASE \E c \in Command : RetriesExhausted(c)
    BY <2>14 DEF RetriesExhausted
  <2>15. CASE CallbackWorkerEnds BY <2>15 DEF CallbackWorkerEnds
  <2>16. CASE CallbackThrows     BY <2>16 DEF CallbackThrows
  <2>17. CASE UNCHANGED vars     BY <2>17 DEF vars
  <2>18. CASE ClientCannotOpen    BY <2>18 DEF ClientCannotOpen
  <2>19. CASE CloseLarge          BY <2>19 DEF CloseLarge
  <2>20. CASE NotifyLarge         BY <2>20 DEF NotifyLarge
  <2>21. CASE CloseCallback       BY <2>21 DEF CloseCallback
  <2>22. CASE NotifyCallback      BY <2>22 DEF NotifyCallback
  <2>23. CASE WorkerDozes         BY <2>23 DEF WorkerDozes
  <2>24. CASE WorkerSleeps        BY <2>24 DEF WorkerSleeps
  <2>25. CASE CallbackDozes       BY <2>25 DEF CallbackDozes
  <2>26. CASE CallbackSleeps      BY <2>26 DEF CallbackSleeps
  <2>27. CASE ChainCannotOpen     BY <2>27 DEF ChainCannotOpen
  <2> QED
    BY <1>1, <2>1, <2>2, <2>3, <2>4, <2>5, <2>6, <2>7, <2>8, <2>9, <2>10, <2>11,
       <2>12, <2>13, <2>14, <2>15, <2>16, <2>17, <2>18, <2>19, <2>20, <2>21, <2>22,
       <2>23, <2>24, <2>25, <2>26, <2>27
    DEF MovesNothing, ShutsDown, CallbackRests
<1>2. CASE ClientPushesHttp
  BY <1>2, AppendElements DEF ClientPushesHttp
<1>3. CASE ClientPushesCallback
  BY <1>3 DEF ClientPushesCallback
<1>4. CASE PopLarge
  BY <1>4, TailElements DEF PopLarge, OnePlace
<1>5. CASE TryPopLarge
  BY <1>5, TailElements DEF TryPopLarge, OnePlace
<1>6. CASE StartTransfer
  BY <1>6 DEF StartTransfer
<1>7. CASE DropAtLimit
  BY <1>7 DEF DropAtLimit
<1>8. CASE PopCallback \/ RunCallback
  BY <1>8 DEF PopCallback, RunCallback
<1>9. CASE ChainPushesHttp
  BY <1>9, AppendElements DEF ChainPushesHttp
<1>10. CASE ChainPushesCallback \/ CallbackDone
  BY <1>10 DEF ChainPushesCallback, CallbackDone
<1>11. ASSUME NEW c \in Command, ClientCountsCallback(c) \/ ChainCountsCallback(c)
       PROVE  Kept
  BY <1>11 DEF ClientCountsCallback, ChainCountsCallback
<1>12. ASSUME NEW c \in Command, TransferRetryable(c) PROVE Kept
  BY <1>12 DEF TransferRetryable
<1>13. ASSUME NEW c \in Command, TransferOk(c) PROVE Kept
  BY <1>13 DEF TransferOk
<1>14. ASSUME NEW c \in Command, Requeue(c) PROVE Kept
  BY <1>14, AppendElements DEF Requeue
<1>15. ASSUME NEW c \in Command, SubmitFails(c) PROVE Kept
  BY <1>15 DEF SubmitFails, ClientHasNoHandle, ChainHasNoHandle
<1> QED
  BY <1>1, <1>2, <1>3, <1>4, <1>5, <1>6, <1>7, <1>8, <1>9, <1>10, <1>11, <1>12,
     <1>13, <1>14, <1>15
  DEF KeepsHttp

(* The steps that do change what HttpClient owns. *)
LEMMA HttpMoves ==
  ASSUME Located
  PROVE  /\ \A c \in Command :
              ClientCountsHttp(c) \/ ChainCountsHttp(c) =>
                c \notin HttpOwned /\ HttpOwned' = HttpOwned \cup {c}
         /\ \A c \in Command :
              TransferFailed(c) => c \in HttpOwned /\ HttpOwned' = HttpOwned \ {c}
         /\ HandOver => /\ workerHand \in HttpOwned
                        /\ HttpOwned' = HttpOwned \ {workerHand}
         /\ Settle => HttpOwned' = HttpOwned
<1> USE PipelineAssumption
    DEF PipelineAssumption, Located, Typed, Held, HttpOwned, httpVars, workerVars,
        callbackVars, dispatcherVars, clientVars, stopVars, fateVars, ClientAt,
        WorkerAt, CallbackAt, InPop
<1>1. ASSUME NEW c \in Command, ClientCountsHttp(c) \/ ChainCountsHttp(c)
      PROVE  c \notin HttpOwned /\ HttpOwned' = HttpOwned \cup {c}
  <2>1. HttpOwned' = HttpOwned \cup {c}
    BY <1>1 DEF ClientCountsHttp, ChainCountsHttp
  <2>2. c \notin HttpOwned
    BY <1>1 DEF ClientCountsHttp, ChainCountsHttp, OnePlace, Hands, ToDispatch,
                NextToSubmit
  <2> QED
    BY <2>1, <2>2
<1>2. ASSUME NEW c \in Command, TransferFailed(c)
      PROVE  c \in HttpOwned /\ HttpOwned' = HttpOwned \ {c}
  BY <1>2 DEF TransferFailed, OnePlace, Hands
<1>3. ASSUME HandOver
      PROVE  workerHand \in HttpOwned /\ HttpOwned' = HttpOwned \ {workerHand}
  BY <1>3 DEF HandOver, OnePlace, Hands
<1>4. ASSUME Settle PROVE HttpOwned' = HttpOwned
  BY <1>4 DEF Settle
<1> QED
  BY <1>1, <1>2, <1>3, <1>4

(* HttpClient's counter stays exact: a submit adds a command and counts it *)
(* in, a failure removes and counts out, and a command that was handed     *)
(* over is the extra one until it is settled.                              *)
LEMMA HttpStep == ASSUME Located, HttpExact, [Next]_vars PROVE HttpExact'
<1> USE DEF httpVars, workerVars, WorkerAt
<1>0. IsFiniteSet(HttpOwned) /\ Cardinality(HttpOwned) \in Nat
  BY OwnedFinite, FS_CardinalityType DEF Located
<1>1. CASE KeepsHttp
  BY <1>1, HttpKept DEF HttpExact
<1>2. ASSUME NEW c \in Command, ClientCountsHttp(c) \/ ChainCountsHttp(c)
      PROVE  HttpExact'
  <2>1. largeActive' = largeActive + 1 /\ workerPc' = workerPc
    BY <1>2 DEF ClientCountsHttp, ChainCountsHttp
  <2>2. Cardinality(HttpOwned') = Cardinality(HttpOwned) + 1
    BY <1>0, <1>2, HttpMoves, CountIn
  <2> QED
    BY <1>0, <2>1, <2>2 DEF HttpExact
<1>3. ASSUME NEW c \in Command, TransferFailed(c) PROVE HttpExact'
  <2>1. largeActive' = largeActive - 1 /\ workerPc' = workerPc
    BY <1>3 DEF TransferFailed
  <2>2. Cardinality(HttpOwned') = Cardinality(HttpOwned) - 1
    BY <1>0, <1>3, HttpMoves, CountOut
  <2> QED
    BY <1>0, <2>1, <2>2 DEF HttpExact
<1>4. CASE HandOver
  <2>1. largeActive' = largeActive /\ workerPc = "handOver" /\ workerPc' = "settle"
    BY <1>4 DEF HandOver
  <2>2. Cardinality(HttpOwned') = Cardinality(HttpOwned) - 1
    BY <1>0, <1>4, HttpMoves, CountOut
  <2> QED
    BY <1>0, <2>1, <2>2 DEF HttpExact
<1>5. CASE Settle
  <2>1. largeActive' = largeActive - 1 /\ workerPc = "settle" /\ workerPc' = "reading"
    BY <1>5 DEF Settle
  <2> QED
    BY <1>0, <1>5, <2>1, HttpMoves DEF HttpExact
<1> QED
  BY <1>1, <1>2, <1>3, <1>4, <1>5
  DEF Next, ClientStep, WorkerStep, CallbackStep, Answer, Rest, KeepsHttp, MovesNothing,
      ShutsDown, CallbackRests, SubmitFails

(* Steps that change neither what CallbackDispatcher owns nor its counter. *)
KeepsCallback ==
  \/ MovesNothing
  \/ ClientPushesHttp \/ ClientPushesCallback \/ PopLarge \/ TryPopLarge
  \/ StartTransfer \/ DropAtLimit \/ HandOver \/ PopCallback \/ RunCallback
  \/ ChainPushesHttp \/ ChainPushesCallback
  \/ \E c \in Command :
       \/ ClientCountsHttp(c) \/ ChainCountsHttp(c)
       \/ TransferFailed(c) \/ TransferRetryable(c) \/ Requeue(c) \/ SubmitFails(c)

LEMMA CallbackKept ==
  ASSUME Located, KeepsCallback
  PROVE  /\ CallbackOwned' = CallbackOwned
         /\ callbackActive' = callbackActive
<1> USE PipelineAssumption
    DEF PipelineAssumption, Located, Typed, CallbackOwned, Held, httpVars, workerVars,
        callbackVars, dispatcherVars, clientVars, stopVars, fateVars,
        ClientAt, WorkerAt, CallbackAt, InPop
<1> DEFINE Kept == CallbackOwned' = CallbackOwned /\ callbackActive' = callbackActive
<1>1. CASE MovesNothing
  <2>1. CASE BatchDispatched    BY <2>1 DEF BatchDispatched
  <2>2. CASE WaitHttp           BY <2>2 DEF WaitHttp
  <2>3. CASE WaitCallback       BY <2>3 DEF WaitCallback
  <2>4. CASE WaitHttpAgain      BY <2>4 DEF WaitHttpAgain
  <2>5. CASE NextBatch          BY <2>5 DEF NextBatch
  <2>6. CASE StopWorker         BY <2>6 DEF StopWorker
  <2>7. CASE JoinWorker         BY <2>7 DEF JoinWorker
  <2>8. CASE JoinCallback       BY <2>8 DEF JoinCallback
  <2>9. CASE WorkerTop          BY <2>9 DEF WorkerTop
  <2>10. CASE PopLargeClosed    BY <2>10 DEF PopLargeClosed
  <2>11. CASE TryPopLargeEmpty  BY <2>11 DEF TryPopLargeEmpty
  <2>12. CASE Settle            BY <2>12 DEF Settle
  <2>13. CASE NoMoreMessages    BY <2>13 DEF NoMoreMessages
  <2>14. CASE EndOfIteration    BY <2>14 DEF EndOfIteration
  <2>15. CASE \E c \in Command : RetriesExhausted(c)
    BY <2>15 DEF RetriesExhausted
  <2>16. CASE CallbackWorkerEnds BY <2>16 DEF CallbackWorkerEnds
  <2>17. CASE CallbackThrows     BY <2>17 DEF CallbackThrows
  <2>18. CASE UNCHANGED vars     BY <2>18 DEF vars
  <2>19. CASE ClientCannotOpen    BY <2>19 DEF ClientCannotOpen
  <2>20. CASE CloseLarge          BY <2>20 DEF CloseLarge
  <2>21. CASE NotifyLarge         BY <2>21 DEF NotifyLarge
  <2>22. CASE CloseCallback       BY <2>22 DEF CloseCallback
  <2>23. CASE NotifyCallback      BY <2>23 DEF NotifyCallback
  <2>24. CASE WorkerDozes         BY <2>24 DEF WorkerDozes
  <2>25. CASE WorkerSleeps        BY <2>25 DEF WorkerSleeps
  <2>26. CASE CallbackDozes       BY <2>26 DEF CallbackDozes
  <2>27. CASE CallbackSleeps      BY <2>27 DEF CallbackSleeps
  <2>28. CASE ChainCannotOpen     BY <2>28 DEF ChainCannotOpen
  <2> QED
    BY <1>1, <2>1, <2>2, <2>3, <2>4, <2>5, <2>6, <2>7, <2>8, <2>9, <2>10, <2>11,
       <2>12, <2>13, <2>14, <2>15, <2>16, <2>17, <2>18, <2>19, <2>20, <2>21, <2>22,
       <2>23, <2>24, <2>25, <2>26, <2>27, <2>28
    DEF MovesNothing, ShutsDown, CallbackRests
<1>2. CASE ClientPushesHttp \/ ChainPushesHttp
  BY <1>2 DEF ClientPushesHttp, ChainPushesHttp
<1>3. CASE ClientPushesCallback
  BY <1>3, AppendElements DEF ClientPushesCallback
<1>4. CASE ChainPushesCallback
  BY <1>4, AppendElements DEF ChainPushesCallback
<1>5. CASE PopLarge \/ TryPopLarge \/ StartTransfer \/ DropAtLimit
  BY <1>5 DEF PopLarge, TryPopLarge, StartTransfer, DropAtLimit
<1>6. CASE HandOver
  BY <1>6, AppendElements DEF HandOver
<1>7. CASE PopCallback
  BY <1>7, TailElements DEF PopCallback, OnePlace
<1>8. CASE RunCallback
  BY <1>8 DEF RunCallback
<1>9. ASSUME NEW c \in Command, ClientCountsHttp(c) \/ ChainCountsHttp(c)
      PROVE  Kept
  BY <1>9 DEF ClientCountsHttp, ChainCountsHttp
<1>10. ASSUME NEW c \in Command, TransferFailed(c) \/ TransferRetryable(c) \/ Requeue(c)
       PROVE  Kept
  BY <1>10 DEF TransferFailed, TransferRetryable, Requeue
<1>11. ASSUME NEW c \in Command, SubmitFails(c) PROVE Kept
  BY <1>11 DEF SubmitFails, ClientHasNoHandle, ChainHasNoHandle
<1> QED
  BY <1>1, <1>2, <1>3, <1>4, <1>5, <1>6, <1>7, <1>8, <1>9, <1>10, <1>11
  DEF KeepsCallback

(* The steps that do change what CallbackDispatcher owns. *)
LEMMA CallbackMoves ==
  ASSUME Located
  PROVE  /\ \A c \in Command :
              ClientCountsCallback(c) \/ ChainCountsCallback(c) \/ TransferOk(c) =>
                c \notin CallbackOwned /\ CallbackOwned' = CallbackOwned \cup {c}
         /\ CallbackDone => /\ running \in CallbackOwned
                            /\ CallbackOwned' = CallbackOwned \ {running}
<1> USE PipelineAssumption
    DEF PipelineAssumption, Located, Typed, Held, CallbackOwned, httpVars, workerVars,
        callbackVars, dispatcherVars, clientVars, stopVars, fateVars, ClientAt,
        WorkerAt, CallbackAt, InPop
<1>1. ASSUME NEW c \in Command,
             ClientCountsCallback(c) \/ ChainCountsCallback(c) \/ TransferOk(c)
      PROVE  c \notin CallbackOwned /\ CallbackOwned' = CallbackOwned \cup {c}
  <2>1. CallbackOwned' = CallbackOwned \cup {c}
    <3>1. CASE ClientCountsCallback(c) BY <3>1 DEF ClientCountsCallback
    <3>2. CASE ChainCountsCallback(c)  BY <3>2 DEF ChainCountsCallback
    <3>3. CASE TransferOk(c)           BY <3>3 DEF TransferOk
    <3> QED BY <1>1, <3>1, <3>2, <3>3
  <2>2. c \notin CallbackOwned
    BY <1>1 DEF ClientCountsCallback, ChainCountsCallback, TransferOk, OnePlace, Hands,
                ToDispatch, NextToSubmit
  <2> QED
    BY <2>1, <2>2
<1>2. ASSUME CallbackDone
      PROVE  running \in CallbackOwned /\ CallbackOwned' = CallbackOwned \ {running}
  BY <1>2 DEF CallbackDone, OnePlace, Hands
<1> QED
  BY <1>1, <1>2

(* CallbackDispatcher's counter stays exact. *)
LEMMA CallbackExactStep ==
  ASSUME Located, CallbackExact, [Next]_vars
  PROVE  CallbackExact'
<1>0. IsFiniteSet(CallbackOwned) /\ Cardinality(CallbackOwned) \in Nat
  BY OwnedFinite, FS_CardinalityType DEF Located
<1>1. CASE KeepsCallback
  BY <1>1, CallbackKept DEF CallbackExact
<1>2. ASSUME NEW c \in Command,
             ClientCountsCallback(c) \/ ChainCountsCallback(c) \/ TransferOk(c)
      PROVE  CallbackExact'
  <2>1. callbackActive' = callbackActive + 1
    BY <1>2 DEF ClientCountsCallback, ChainCountsCallback, TransferOk
  <2>2. Cardinality(CallbackOwned') = Cardinality(CallbackOwned) + 1
    BY <1>0, <1>2, CallbackMoves, CountIn
  <2> QED
    BY <1>0, <2>1, <2>2 DEF CallbackExact
<1>3. CASE CallbackDone
  <2>1. callbackActive' = callbackActive - 1
    BY <1>3 DEF CallbackDone
  <2>2. Cardinality(CallbackOwned') = Cardinality(CallbackOwned) - 1
    BY <1>0, <1>3, CallbackMoves, CountOut
  <2> QED
    BY <1>0, <2>1, <2>2 DEF CallbackExact
<1> QED
  BY <1>1, <1>2, <1>3
  DEF Next, ClientStep, WorkerStep, CallbackStep, Answer, Rest, KeepsCallback,
      MovesNothing, ShutsDown, CallbackRests, SubmitFails

-----------------------------------------------------------------------------
(* Chains.  While a callback submits the next commands it is over itself,  *)
(* and it ends when all of them are submitted.                             *)
Chained ==
  /\ callbackPc \in {"chaining", "pushHttp", "pushCallback"} => running \in finished
  /\ ChainOrder
  /\ \A c \in finished : c # running => NextCommands[c] \cap unsent = {}

(* Steps that submit no command and begin or end no callback. *)
KeepsChains ==
  \/ MovesNothing /\ ~CallbackRests
  \/ ClientPushesHttp \/ ClientPushesCallback \/ PopLarge \/ TryPopLarge
  \/ StartTransfer \/ DropAtLimit \/ HandOver
  \/ \E c \in Command :
       TransferFailed(c) \/ TransferRetryable(c) \/ TransferOk(c) \/ Requeue(c)

LEMMA ChainsKept ==
  ASSUME KeepsChains
  PROVE  UNCHANGED <<unsent, finished, running, callbackPc>>
<1> USE DEF httpVars, workerVars, callbackVars, dispatcherVars, clientVars, stopVars,
        fateVars
<1>1. CASE MovesNothing /\ ~CallbackRests
  BY <1>1
  DEF MovesNothing, BatchDispatched, WaitHttp, WaitCallback, WaitHttpAgain, NextBatch,
      ClientCannotOpen, ShutsDown, CallbackRests, StopWorker, CloseLarge, NotifyLarge,
      JoinWorker, CloseCallback, JoinCallback, WorkerTop, PopLargeClosed, WorkerDozes,
      WorkerSleeps, TryPopLargeEmpty, Settle, NoMoreMessages, EndOfIteration,
      RetriesExhausted, CallbackThrows, ChainCannotOpen, vars
<1>2. CASE ~(MovesNothing /\ ~CallbackRests)
  BY <1>2
  DEF KeepsChains, ClientPushesHttp, ClientPushesCallback, PopLarge, TryPopLarge,
      StartTransfer, DropAtLimit, HandOver, TransferFailed, TransferRetryable,
      TransferOk, Requeue
<1> QED
  BY <1>1, <1>2

(* A root is in no chain and every other command in one: what the callback *)
(* worker submits is behind the callback it has just run.                  *)
LEMMA ChainedStep == ASSUME Located, Chained, [Next]_vars PROVE Chained'
<1> USE DEF httpVars, workerVars, callbackVars, dispatcherVars, clientVars, stopVars,
        fateVars
<1>1. CASE KeepsChains
  BY <1>1, ChainsKept DEF Chained, ChainOrder
<1>2. ASSUME NEW c \in Command,
             ClientCountsHttp(c) \/ ClientCountsCallback(c) \/ ClientHasNoHandle(c)
      PROVE  Chained'
  <2>1. c \in Roots
    BY <1>2 DEF ClientCountsHttp, ClientCountsCallback, ClientHasNoHandle, ToDispatch,
                Roots
  <2>2. \A d \in Command : c \notin NextCommands[d]
    BY <2>1, PipelineAssumption DEF PipelineAssumption
  <2>3. /\ unsent' = unsent \ {c}
        /\ UNCHANGED <<finished, running, callbackPc>>
    BY <1>2 DEF ClientCountsHttp, ClientCountsCallback, ClientHasNoHandle
  <2> QED
    BY <2>2, <2>3 DEF Chained, ChainOrder
<1>3. ASSUME NEW c \in Command,
             ChainCountsHttp(c) \/ ChainCountsCallback(c) \/ ChainHasNoHandle(c)
      PROVE  Chained'
  <2>1. /\ unsent' = unsent \ {c} /\ c \in NextCommands[running]
        /\ UNCHANGED <<finished, running>>
        /\ callbackPc = "chaining"
    BY <1>3 DEF ChainCountsHttp, ChainCountsCallback, ChainHasNoHandle, NextToSubmit,
                CallbackAt
  <2>2. running \in finished /\ running \in Command
    BY <2>1 DEF Chained, Located, Typed
  <2>3. \A d \in Command : c \in NextCommands[d] => d = running
    BY <2>1, <2>2, PipelineAssumption DEF PipelineAssumption
  <2> QED
    BY <2>1, <2>2, <2>3 DEF Chained, ChainOrder
<1>4. CASE PopCallback
  <2>1. UNCHANGED <<unsent, finished>> /\ running = NoCommand /\ callbackPc' = "running"
    BY <1>4 DEF PopCallback, CallbackAt, InPop, Located, Typed
  <2>2. \A c \in finished : c # NoCommand
    BY PipelineAssumption DEF PipelineAssumption, Located, Typed
  <2> QED
    BY <2>1, <2>2 DEF Chained, ChainOrder
<1>5. CASE RunCallback
  BY <1>5 DEF RunCallback, Chained, ChainOrder
<1>6. CASE ChainPushesHttp \/ ChainPushesCallback
  BY <1>6 DEF ChainPushesHttp, ChainPushesCallback, CallbackAt, Chained, ChainOrder
<1>7. CASE CallbackDone
  BY <1>7 DEF CallbackDone, NextToSubmit, Chained, ChainOrder
<1>8. CASE CallbackRests
  BY <1>8 DEF CallbackRests, CallbackWorkerEnds, CallbackDozes, CallbackSleeps,
              NotifyCallback, Chained, ChainOrder
<1> QED
  BY <1>1, <1>2, <1>3, <1>4, <1>5, <1>6, <1>7, <1>8
  DEF Next, ClientStep, WorkerStep, CallbackStep, Answer, Rest, KeepsChains,
      MovesNothing, ShutsDown, CallbackRests

-----------------------------------------------------------------------------
(* The worker enters pop() only after it has seen a counter of zero;       *)
(* the other threads reach neither the multi handle nor the delayed        *)
(* requests, so both stay empty while it blocks.                           *)
LEMMA BlocksStep ==
  ASSUME Located, HttpExact, BlocksOnlyWhenDone, [Next]_vars
  PROVE  BlocksOnlyWhenDone'
<1> USE DEF httpVars, workerVars, callbackVars, dispatcherVars, clientVars, stopVars,
        fateVars, InPop
<1>1. CASE WorkerTop
  <2> SUFFICES ASSUME workerPc' \in InPop PROVE BlocksOnlyWhenDone'
    BY DEF BlocksOnlyWhenDone
  <2>1. largeActive = 0 /\ workerPc = "top" /\ UNCHANGED <<activeHandles, delayedRequests>>
    BY <1>1 DEF WorkerTop, WorkerAt
  <2>2. HttpOwned = {}
    BY <2>1, OwnedFinite, FS_CardinalityType, FS_EmptySet DEF Located, HttpExact
  <2> QED
    BY <2>1, <2>2 DEF HttpOwned, BlocksOnlyWhenDone
<1>2. CASE WorkerStep /\ ~WorkerTop
  BY <1>2
  DEF WorkerStep, PopLarge, PopLargeClosed, WorkerDozes, WorkerSleeps, TryPopLarge,
      TryPopLargeEmpty, StartTransfer, DropAtLimit, Answer, TransferFailed, TransferRetryable,
      RetriesExhausted, TransferOk, Requeue, HandOver, Settle, NoMoreMessages,
      EndOfIteration, WorkerAt, BlocksOnlyWhenDone
<1>3. CASE ClientStep
  BY <1>3
  DEF ClientStep, ClientCountsHttp, ClientCountsCallback, ClientPushesHttp,
      ClientPushesCallback, BatchDispatched, WaitHttp, WaitCallback, WaitHttpAgain,
      NextBatch, ClientHasNoHandle, ClientCannotOpen, StopWorker, CloseLarge,
      NotifyLarge, JoinWorker, CloseCallback, NotifyCallback, JoinCallback,
      BlocksOnlyWhenDone
<1>4. CASE CallbackStep
  BY <1>4
  DEF CallbackStep, PopCallback, CallbackWorkerEnds, RunCallback, CallbackThrows,
      ChainCountsHttp, ChainCountsCallback, ChainPushesHttp, ChainPushesCallback,
      CallbackDone, CallbackDozes, CallbackSleeps, ChainHasNoHandle, ChainCannotOpen,
      BlocksOnlyWhenDone
<1>5. CASE UNCHANGED vars
  BY <1>5 DEF vars, BlocksOnlyWhenDone
<1> QED
  BY <1>1, <1>2, <1>3, <1>4, <1>5 DEF Next, Rest

-----------------------------------------------------------------------------
(* The barrier.  No command is lost; local commands never reach HttpClient *)
(* and so never fail; the batches up to the barrier are out; and once a    *)
(* wait has found its side idle, it stays idle, because the other side     *)
(* cannot feed it: in InitialSync no chain goes from a callback back to    *)
(* HttpClient, and an idle HttpClient hands nothing over.                  *)
Accounted == Command \subseteq unsent \cup HttpOwned \cup CallbackOwned \cup finished
                                 \cup failed

LocalStaysLocal == (HttpOwned \cup failed) \cap LocalCommand = {}

Sending == clientPc \in {"submit", "pushHttp", "pushCallback"}

BatchesSent ==
  \A i \in DOMAIN Batch :
    i < batch \/ (i = batch /\ ~Sending) => Batch[i] \cap unsent = {}

PastHttpWait ==
  Mode = "InitialSync" /\ clientPc \in {"waitCallback", "waitHttpAgain", "passed"} =>
    HttpOwned = {} /\ workerPc # "settle"

PastCallbackWait ==
  Mode = "InitialSync" /\ clientPc \in {"waitHttpAgain", "passed"} => CallbackOwned = {}

(* What each kind of step does to the sets Accounted is about. *)
LEMMA AccountedStep == ASSUME Located, Chained, Accounted, [Next]_vars PROVE Accounted'
<1> USE DEF httpVars, workerVars, callbackVars, dispatcherVars, clientVars, stopVars,
        fateVars
<1>1. CASE MovesNothing
  <2>1. HttpOwned' = HttpOwned
    <3>1. CASE Settle  BY <3>1, HttpMoves
    <3>2. CASE ~Settle BY <1>1, <3>2, HttpKept DEF KeepsHttp
    <3> QED BY <3>1, <3>2
  <2>2. CallbackOwned' = CallbackOwned
    BY <1>1, CallbackKept DEF KeepsCallback
  <2> QED
    BY <1>1, <2>1, <2>2, NothingMoved DEF placeVars, Accounted
<1>2. CASE \/ ClientPushesHttp \/ ClientPushesCallback \/ PopLarge \/ TryPopLarge
           \/ StartTransfer \/ DropAtLimit \/ PopCallback \/ RunCallback
           \/ ChainPushesHttp \/ ChainPushesCallback
           \/ \E c \in Command : TransferRetryable(c) \/ Requeue(c)
  <2>1. HttpOwned' = HttpOwned
    BY <1>2, HttpKept DEF KeepsHttp
  <2>2. CallbackOwned' = CallbackOwned
    BY <1>2, CallbackKept DEF KeepsCallback
  <2>3. UNCHANGED <<unsent, failed>> /\ finished \subseteq finished'
    BY <1>2
    DEF ClientPushesHttp, ClientPushesCallback, PopLarge, TryPopLarge, StartTransfer,
        DropAtLimit, PopCallback, RunCallback, ChainPushesHttp, ChainPushesCallback,
        TransferRetryable, Requeue
  <2> QED
    BY <2>1, <2>2, <2>3 DEF Accounted
<1>3. ASSUME NEW c \in Command, ClientCountsHttp(c) \/ ChainCountsHttp(c)
      PROVE  Accounted'
  <2>1. HttpOwned' = HttpOwned \cup {c} /\ CallbackOwned' = CallbackOwned
    BY <1>3, HttpMoves, CallbackKept DEF KeepsCallback
  <2>2. unsent' = unsent \ {c} /\ UNCHANGED <<finished, failed>>
    BY <1>3 DEF ClientCountsHttp, ChainCountsHttp
  <2> QED
    BY <2>1, <2>2 DEF Accounted
<1>4. ASSUME NEW c \in Command, ClientCountsCallback(c) \/ ChainCountsCallback(c)
      PROVE  Accounted'
  <2>1. HttpOwned' = HttpOwned /\ CallbackOwned' = CallbackOwned \cup {c}
    BY <1>4, CallbackMoves, HttpKept DEF KeepsHttp
  <2>2. unsent' = unsent \ {c} /\ UNCHANGED <<finished, failed>>
    BY <1>4 DEF ClientCountsCallback, ChainCountsCallback
  <2> QED
    BY <2>1, <2>2 DEF Accounted
<1>5. ASSUME NEW c \in Command, TransferFailed(c) PROVE Accounted'
  <2>1. HttpOwned' = HttpOwned \ {c} /\ CallbackOwned' = CallbackOwned
    BY <1>5, HttpMoves, CallbackKept DEF KeepsCallback
  <2>2. failed' = failed \cup {c} /\ UNCHANGED <<unsent, finished>>
    BY <1>5 DEF TransferFailed
  <2> QED
    BY <2>1, <2>2 DEF Accounted
<1>6. ASSUME NEW c \in Command, TransferOk(c) PROVE Accounted'
  <2>1. HttpOwned' = HttpOwned /\ CallbackOwned' = CallbackOwned \cup {c}
    BY <1>6, CallbackMoves, HttpKept DEF KeepsHttp
  <2>2. UNCHANGED <<unsent, finished, failed>>
    BY <1>6 DEF TransferOk
  <2> QED
    BY <2>1, <2>2 DEF Accounted
<1>7. CASE HandOver
  <2>1. HttpOwned' = HttpOwned \ {workerHand} /\ CallbackOwned' = CallbackOwned
    BY <1>7, HttpMoves, CallbackKept DEF KeepsCallback
  <2>2. workerHand \in CallbackOwned \cup {NoCommand}
    BY <1>7 DEF HandOver, WorkerAt, CallbackOwned, Held
  <2>3. NoCommand \notin Command /\ UNCHANGED <<unsent, finished, failed>>
    BY <1>7, PipelineAssumption DEF HandOver, PipelineAssumption
  <2> QED
    BY <2>1, <2>2, <2>3 DEF Accounted
<1>8. CASE CallbackDone
  <2>1. HttpOwned' = HttpOwned /\ CallbackOwned' = CallbackOwned \ {running}
    BY <1>8, CallbackMoves, HttpKept DEF KeepsHttp
  <2>2. running \in finished /\ UNCHANGED <<unsent, finished, failed>>
    BY <1>8 DEF CallbackDone, CallbackAt, Chained
  <2> QED
    BY <2>1, <2>2 DEF Accounted
<1>9. ASSUME NEW c \in Command, SubmitFails(c) PROVE Accounted'
  <2>1. HttpOwned' = HttpOwned /\ CallbackOwned' = CallbackOwned
    BY <1>9, HttpKept, CallbackKept DEF KeepsHttp, KeepsCallback
  <2>2. /\ unsent' = unsent \ {c} /\ failed' = failed \cup {c}
        /\ finished' = finished
    BY <1>9 DEF SubmitFails, ClientHasNoHandle, ChainHasNoHandle
  <2> QED
    BY <2>1, <2>2 DEF Accounted
<1> QED
  BY <1>1, <1>2, <1>3, <1>4, <1>5, <1>6, <1>7, <1>8, <1>9
  DEF Next, ClientStep, WorkerStep, CallbackStep, Answer, Rest, MovesNothing,
      ShutsDown, CallbackRests, SubmitFails

LEMMA LocalStep == ASSUME Located, LocalStaysLocal, [Next]_vars PROVE LocalStaysLocal'
<1> USE DEF httpVars, workerVars, callbackVars, dispatcherVars, clientVars, stopVars,
        fateVars
<1>1. CASE KeepsHttp /\ ~\E c \in Command : SubmitFails(c)
  <2>1. HttpOwned' = HttpOwned
    BY <1>1, HttpKept
  <2>2. failed' = failed
    <3>1. CASE MovesNothing  BY <3>1, NothingMoved DEF placeVars
    <3>2. CASE ~MovesNothing
      BY <1>1, <3>2
      DEF KeepsHttp, ClientPushesHttp, ClientPushesCallback, PopLarge, TryPopLarge,
          StartTransfer, DropAtLimit, PopCallback, RunCallback, ChainPushesHttp,
          ChainPushesCallback, CallbackDone, ClientCountsCallback,
          ChainCountsCallback, TransferRetryable, TransferOk, Requeue
    <3> QED BY <3>1, <3>2
  <2> QED
    BY <2>1, <2>2 DEF LocalStaysLocal
<1>2. ASSUME NEW c \in Command, ClientCountsHttp(c) PROVE LocalStaysLocal'
  BY <1>2, HttpMoves DEF ClientCountsHttp, LocalStaysLocal
<1>3. ASSUME NEW c \in Command, ChainCountsHttp(c) PROVE LocalStaysLocal'
  <2>1. c \notin LocalCommand
    BY <1>3, PipelineAssumption
    DEF ChainCountsHttp, NextToSubmit, PipelineAssumption, CallbackAt
  <2> QED
    BY <1>3, <2>1, HttpMoves DEF ChainCountsHttp, LocalStaysLocal
<1>4. ASSUME NEW c \in Command, TransferFailed(c) PROVE LocalStaysLocal'
  BY <1>4, HttpMoves DEF TransferFailed, LocalStaysLocal
<1>5. CASE HandOver
  BY <1>5, HttpMoves DEF HandOver, LocalStaysLocal
<1>6. CASE Settle
  BY <1>6, HttpMoves DEF Settle, LocalStaysLocal
<1>7. ASSUME NEW c \in Command, SubmitFails(c) PROVE LocalStaysLocal'
  <2>1. c \notin LocalCommand
    BY <1>7, PipelineAssumption
    DEF SubmitFails, ClientHasNoHandle, ChainHasNoHandle, NextToSubmit,
        PipelineAssumption, CallbackAt
  <2>2. HttpOwned' = HttpOwned
    BY <1>7, HttpKept DEF KeepsHttp
  <2>3. failed' = failed \cup {c}
    BY <1>7 DEF SubmitFails, ClientHasNoHandle, ChainHasNoHandle
  <2> QED
    BY <2>1, <2>2, <2>3 DEF LocalStaysLocal
<1> QED
  BY <1>1, <1>2, <1>3, <1>4, <1>5, <1>6, <1>7
  DEF Next, ClientStep, WorkerStep, CallbackStep, Answer, Rest, KeepsHttp, MovesNothing,
      ShutsDown, CallbackRests, SubmitFails

LEMMA OthersLeaveClient ==
  ASSUME WorkerStep \/ CallbackStep \/ UNCHANGED vars
  PROVE  UNCHANGED clientVars /\ unsent' \subseteq unsent
<1> USE DEF clientVars
<1>1. CASE WorkerStep
  BY <1>1
  DEF WorkerStep, WorkerTop, PopLarge, PopLargeClosed, WorkerDozes, WorkerSleeps,
      TryPopLarge, TryPopLargeEmpty, StartTransfer, DropAtLimit, Answer, TransferFailed, TransferRetryable,
      RetriesExhausted, TransferOk, Requeue, HandOver, Settle, NoMoreMessages,
      EndOfIteration
<1>2. CASE CallbackStep
  BY <1>2
  DEF CallbackStep, PopCallback, CallbackWorkerEnds, RunCallback, CallbackThrows,
      ChainCountsHttp, ChainCountsCallback, ChainPushesHttp, ChainPushesCallback,
      CallbackDone, CallbackDozes, CallbackSleeps, ChainHasNoHandle, ChainCannotOpen
<1> QED
  BY <1>1, <1>2 DEF vars

LEMMA BatchesStep == ASSUME Located, BatchesSent, [Next]_vars PROVE BatchesSent'
<1> USE DEF clientVars, ClientAt, Sending
<1>0. batch \in Nat /\ DOMAIN Batch \subseteq Nat
  BY PipelineAssumption DEF PipelineAssumption, Located, Typed
<1>1. CASE WorkerStep \/ CallbackStep \/ UNCHANGED vars
  BY <1>1, OthersLeaveClient DEF BatchesSent
<1>2. ASSUME NEW c \in Command,
             ClientCountsHttp(c) \/ ClientCountsCallback(c) \/ ClientHasNoHandle(c)
      PROVE  BatchesSent'
  BY <1>2 DEF ClientCountsHttp, ClientCountsCallback, ClientHasNoHandle, BatchesSent
<1>3. CASE ClientPushesHttp \/ ClientPushesCallback
  BY <1>3 DEF ClientPushesHttp, ClientPushesCallback, BatchesSent
<1>4. CASE BatchDispatched
  <2>1. ToDispatch = {} /\ UNCHANGED <<unsent, batch>>
    BY <1>4 DEF BatchDispatched
  <2>2. ASSUME NEW i \in DOMAIN Batch, i = batch PROVE Batch[i] \cap unsent = {}
    BY <2>1, <2>2 DEF ToDispatch
  <2>3. ASSUME NEW i \in DOMAIN Batch, i < batch PROVE Batch[i] \cap unsent = {}
    BY <2>3 DEF BatchesSent
  <2> QED
    BY <2>1, <2>2, <2>3 DEF BatchesSent
<1>5. CASE NextBatch
  BY <1>0, <1>5 DEF NextBatch, BatchesSent
<1>6. CASE WaitHttp \/ WaitCallback \/ WaitHttpAgain \/ ShutsDown \/ ClientCannotOpen
  BY <1>6
  DEF WaitHttp, WaitCallback, WaitHttpAgain, ShutsDown, StopWorker, CloseLarge,
      NotifyLarge, JoinWorker, CloseCallback, NotifyCallback, JoinCallback,
      ClientCannotOpen, BatchesSent
<1> QED
  BY <1>1, <1>2, <1>3, <1>4, <1>5, <1>6 DEF Next, ClientStep, Rest, ShutsDown

(* A wait is passed on a counter of zero. *)
LEMMA HttpWaitStep ==
  ASSUME Located, HttpExact, PastHttpWait, [Next]_vars
  PROVE  PastHttpWait'
<1> SUFFICES ASSUME Mode = "InitialSync",
                    clientPc' \in {"waitCallback", "waitHttpAgain", "passed"}
             PROVE  HttpOwned' = {} /\ workerPc' # "settle"
  BY DEF PastHttpWait
<1> USE DEF clientVars, workerVars, ClientAt, WorkerAt, CallbackAt
<1>1. CASE WaitHttp
  <2>1. largeActive = 0
    BY <1>1 DEF WaitHttp
  <2>2. HttpOwned = {} /\ workerPc # "settle"
    BY <2>1, OwnedFinite, FS_CardinalityType, FS_EmptySet DEF Located, HttpExact
  <2>3. HttpOwned' = HttpOwned /\ (workerPc' = "settle" <=> workerPc = "settle")
    BY <1>1, HttpKept DEF KeepsHttp, MovesNothing, WaitHttp, Settle
  <2> QED
    BY <2>2, <2>3
<1>2. CASE ~WaitHttp
  <2>1. HttpOwned = {} /\ workerPc # "settle" /\ ~Sending
    <3>1. CASE WorkerStep \/ CallbackStep \/ UNCHANGED vars
      BY <3>1, OthersLeaveClient DEF PastHttpWait, Sending
    <3>2. CASE ClientStep
      BY <1>2, <3>2, PipelineAssumption
      DEF ClientStep, ClientCountsHttp, ClientCountsCallback, ClientPushesHttp,
          ClientPushesCallback, BatchDispatched, WaitCallback, WaitHttpAgain,
          NextBatch, ClientHasNoHandle, ClientCannotOpen, StopWorker, CloseLarge,
          NotifyLarge, JoinWorker, CloseCallback, NotifyCallback, JoinCallback,
          PastHttpWait, Sending
    <3> QED
      BY <3>1, <3>2 DEF Next, Rest
  <2>2. CASE KeepsHttp
    BY <2>1, <2>2, HttpKept
  <2>3. ASSUME NEW c \in Command, ClientCountsHttp(c) PROVE FALSE
    BY <2>1, <2>3 DEF ClientCountsHttp, Sending
  <2>4. ASSUME NEW c \in Command, ChainCountsHttp(c) PROVE FALSE
    BY <2>4, ShapeAssumption DEF ChainCountsHttp, NextToSubmit, InitialSyncShape
  <2>5. ASSUME NEW c \in Command, TransferFailed(c) PROVE FALSE
    BY <2>1, <2>5, HttpMoves
  <2>6. CASE HandOver
    BY <2>1, <2>6, HttpMoves
  <2>7. CASE Settle
    BY <2>1, <2>7 DEF Settle
  <2> QED
    BY <2>2, <2>3, <2>4, <2>5, <2>6, <2>7
    DEF Next, ClientStep, WorkerStep, CallbackStep, Answer, Rest, KeepsHttp,
        MovesNothing, ShutsDown, CallbackRests, SubmitFails
<1> QED
  BY <1>1, <1>2

LEMMA CallbackWaitStep ==
  ASSUME Located, CallbackExact, PastHttpWait, PastCallbackWait, [Next]_vars
  PROVE  PastCallbackWait'
<1> SUFFICES ASSUME Mode = "InitialSync", clientPc' \in {"waitHttpAgain", "passed"}
             PROVE  CallbackOwned' = {}
  BY DEF PastCallbackWait
<1> USE DEF clientVars, ClientAt, WorkerAt, CallbackAt
<1>1. CASE WaitCallback
  <2>1. CallbackOwned = {}
    BY <1>1, OwnedFinite, FS_EmptySet DEF Located, CallbackExact, WaitCallback
  <2> QED
    BY <1>1, <2>1, CallbackKept DEF KeepsCallback, MovesNothing
<1>2. CASE ~WaitCallback
  <2>1. clientPc \in {"waitHttpAgain", "passed"}
    <3>1. CASE WorkerStep \/ CallbackStep \/ UNCHANGED vars
      BY <3>1, OthersLeaveClient
    <3>2. CASE ClientStep
      BY <1>2, <3>2, PipelineAssumption
      DEF ClientStep, ClientCountsHttp, ClientCountsCallback, ClientPushesHttp,
          ClientPushesCallback, BatchDispatched, WaitHttp, WaitHttpAgain,
          NextBatch, ClientHasNoHandle, ClientCannotOpen, StopWorker, CloseLarge,
          NotifyLarge, JoinWorker, CloseCallback, NotifyCallback, JoinCallback
    <3> QED
      BY <3>1, <3>2 DEF Next, Rest
  <2>2. CallbackOwned = {} /\ HttpOwned = {}
    BY <2>1 DEF PastCallbackWait, PastHttpWait
  <2>3. CASE KeepsCallback
    BY <2>2, <2>3, CallbackKept
  <2>4. ASSUME NEW c \in Command, ClientCountsCallback(c) PROVE FALSE
    BY <2>1, <2>4 DEF ClientCountsCallback
  <2>5. ASSUME NEW c \in Command, ChainCountsCallback(c) PROVE FALSE
    BY <2>2, <2>5, PipelineAssumption
    DEF ChainCountsCallback, CallbackOwned, Held, Located, Typed, InPop,
        PipelineAssumption
  <2>6. ASSUME NEW c \in Command, TransferOk(c) PROVE FALSE
    BY <2>2, <2>6 DEF TransferOk, HttpOwned
  <2>7. CASE CallbackDone
    BY <2>2, <2>7, CallbackMoves
  <2> QED
    BY <2>3, <2>4, <2>5, <2>6, <2>7
    DEF Next, ClientStep, WorkerStep, CallbackStep, Answer, Rest, KeepsCallback,
        MovesNothing, ShutsDown, CallbackRests, SubmitFails
<1> QED
  BY <1>1, <1>2

-----------------------------------------------------------------------------
(* The inductive invariant. *)
WaitsAreBarrier ==
  Accounted /\ LocalStaysLocal /\ BatchesSent /\ PastHttpWait /\ PastCallbackWait

IInv == Typed /\ OnePlace /\ CountersExact /\ Chained /\ BlocksOnlyWhenDone /\ WaitsAreBarrier

LEMMA InitInvariant == Init => IInv
<1> SUFFICES ASSUME Init PROVE IInv
  OBVIOUS
<1>1. InQueue(largeQueue) = {} /\ InQueue(callbackQueue) = {}
  BY EmptyElements DEF Init
<1>2. Typed
  <2>1. retryCount \in [Command -> 0..MaxRetries]
    <3>1. MaxRetries \in Nat
      BY PipelineAssumption DEF PipelineAssumption
    <3>2. 0 \in 0..MaxRetries
      BY <3>1
    <3>3. retryCount = [c \in Command |-> 0]
      BY DEF Init
    <3> QED
      BY <3>2, <3>3
  <2>2. /\ largeQueue \in Seq(Command)
        /\ callbackQueue \in Seq(Command)
    BY EmptyElements DEF Init
  <2>3. 1 \in Nat
    OBVIOUS
  <2> QED
    BY <2>1, <2>2, <2>3 DEF Init, Typed, ClientPc, WorkerPc, CallbackPc, InPop
<1>3. OnePlace
  BY <1>1, EmptyElements, PipelineAssumption
  DEF Init, OnePlace, Hands, PipelineAssumption
<1>4. HttpOwned = {} /\ CallbackOwned = {}
  BY <1>1 DEF Init, HttpOwned, CallbackOwned, Held
<1>5. CountersExact
  BY <1>4, FS_EmptySet DEF Init, CountersExact
<1>6. Chained
  BY PipelineAssumption DEF Init, Chained, ChainOrder, PipelineAssumption
<1>7. BlocksOnlyWhenDone
  BY DEF Init, BlocksOnlyWhenDone
<1>8. BatchesSent
  <2>1. DOMAIN Batch \subseteq Nat \ {0}
    BY PipelineAssumption DEF PipelineAssumption
  <2> QED
    BY <2>1 DEF Init, BatchesSent, Sending
<1>9. WaitsAreBarrier
  BY <1>4, <1>8
  DEF Init, WaitsAreBarrier, Accounted, LocalStaysLocal, PastHttpWait, PastCallbackWait
<1> QED
  BY <1>2, <1>3, <1>5, <1>6, <1>7, <1>9 DEF IInv

LEMMA StepInvariant == IInv /\ [Next]_vars => IInv'
<1> SUFFICES ASSUME IInv, [Next]_vars PROVE IInv'
  OBVIOUS
<1>1. Located /\ HttpExact /\ CallbackExact
  BY DEF IInv, Located, CountersExact, HttpExact, CallbackExact
<1>2. Typed' /\ OnePlace'
  BY <1>1, TypedStep, OnePlaceStep
<1>3. CountersExact'
  BY <1>1, HttpStep, CallbackExactStep DEF CountersExact, HttpExact, CallbackExact
<1>4. Chained'
  BY <1>1, ChainedStep DEF IInv
<1>5. BlocksOnlyWhenDone'
  BY <1>1, BlocksStep DEF IInv
<1>6. WaitsAreBarrier'
  BY <1>1, AccountedStep, LocalStep, BatchesStep, HttpWaitStep, CallbackWaitStep
  DEF IInv, WaitsAreBarrier
<1> QED
  BY <1>2, <1>3, <1>4, <1>5, <1>6 DEF IInv

LEMMA Invariance == Spec => []IInv
  BY InitInvariant, StepInvariant, PTL DEF Spec

(* Every variable keeps its type; in particular neither counter is ever    *)
(* counted below zero, and a thread's hand is empty exactly where the code *)
(* has moved the command out of it.                                        *)
THEOREM TypeCorrect == Spec => []TypeOK
<1>1. IInv => TypeOK
  BY OwnedFinite, FS_CardinalityType DEF IInv, Typed, TypeOK, CountersExact
<1> QED
  BY <1>1, Invariance, PTL

(* Both counters are exact at every moment: a wait for idleness, and the   *)
(* worker's choice between blocking and polling, rest on this.             *)
THEOREM CountersAlwaysExact == Spec => []CountersExact
<1>1. IInv => CountersExact
  BY DEF IInv
<1> QED
  BY <1>1, Invariance, PTL

(* A command ends once: as soon as its callback has run, or its transfer   *)
(* has failed for good, it is in no queue, list, transfer or hand again.   *)
THEOREM FatesAreFinal == Spec => []OneFate
<1>1. IInv => OneFate
  <2> SUFFICES ASSUME IInv PROVE OneFate
    OBVIOUS
  <2>1. /\ InQueue(largeQueue) \subseteq Command
        /\ InQueue(callbackQueue) \subseteq Command
    BY QueueElements DEF IInv, Typed
  <2> QED
    BY <2>1, PipelineAssumption
    DEF IInv, Typed, OnePlace, Hands, OneFate, HttpOwned, CallbackOwned, Held,
        PipelineAssumption
<1> QED
  BY <1>1, Invariance, PTL

(* No command is sent before the callback of the one it depends on has run. *)
THEOREM ChainsInOrder == Spec => []ChainOrder
<1>1. IInv => ChainOrder
  BY DEF IInv, Chained
<1> QED
  BY <1>1, Invariance, PTL

(* While the HttpClient worker blocks in pop() there is no transfer for it  *)
(* to drive and no retry for it to time.                                   *)
THEOREM BlockingIsSafe == Spec => []BlocksOnlyWhenDone
<1>1. IInv => BlocksOnlyWhenDone
  BY DEF IInv
<1> QED
  BY <1>1, Invariance, PTL

(* The three waits of initialSync() are a barrier, for every number of      *)
(* batches and commands: two waits on HttpClient and one on                *)
(* CallbackDispatcher in between are enough because no chain of            *)
(* initialSync() returns from a callback to HttpClient.                    *)
THEOREM BarrierHolds == Spec => []BarrierSound
<1>1. IInv => BarrierSound
  <2> SUFFICES ASSUME IInv, Mode = "InitialSync", clientPc = "passed"
               PROVE  /\ Quiet
                      /\ \A i \in DOMAIN Batch :
                           i <= batch => Batch[i] \subseteq finished \cup failed
                      /\ \A c \in finished : NextCommands[c] \subseteq finished
    BY DEF BarrierSound
  <2>1. HttpOwned = {} /\ CallbackOwned = {}
    BY DEF IInv, WaitsAreBarrier, PastHttpWait, PastCallbackWait
  <2>2. Command \subseteq unsent \cup finished \cup failed
    BY <2>1 DEF IInv, WaitsAreBarrier, Accounted
  <2>3. Quiet
    <3>1. largeQueue \in Seq(Command) /\ callbackQueue \in Seq(Command)
      BY DEF IInv, Typed
    <3>2. InQueue(largeQueue) = {} /\ InQueue(callbackQueue) = {}
      BY <2>1 DEF HttpOwned, CallbackOwned
    <3>3. largeQueue = <<>> /\ callbackQueue = <<>>
      BY <3>1, <3>2, NoElements
    <3>4. activeHandles = {} /\ delayedRequests = {}
      BY <2>1 DEF HttpOwned
    <3>5. /\ workerHand = NoCommand
          /\ running = NoCommand
          /\ clientHand = NoCommand
      <4>1. clientPc \notin {"pushHttp", "pushCallback"}
        OBVIOUS
      <4>2. clientHand = NoCommand
        BY <4>1 DEF IInv, Typed
      <4>3. Held(workerHand) = {} /\ Held(running) = {}
        BY <2>1 DEF HttpOwned, CallbackOwned
      <4> QED
        BY <4>2, <4>3 DEF Held
    <3>6. callbackHand = NoCommand
      BY <3>5 DEF IInv, Typed, InPop
    <3> QED
      BY <3>3, <3>4, <3>5, <3>6 DEF Quiet
  <2>4. ASSUME NEW i \in DOMAIN Batch, i <= batch
        PROVE  Batch[i] \subseteq finished \cup failed
    <3>1. i \in Nat /\ batch \in Nat /\ Batch[i] \subseteq Command
      BY PipelineAssumption DEF PipelineAssumption, IInv, Typed
    <3>2. Batch[i] \cap unsent = {}
      BY <2>4, <3>1 DEF IInv, WaitsAreBarrier, BatchesSent, Sending
    <3> QED
      BY <2>2, <3>1, <3>2
  <2>5. ASSUME NEW c \in finished PROVE NextCommands[c] \subseteq finished
    <3>1. c \in Command /\ c # running
      BY <2>3, PipelineAssumption DEF IInv, Typed, Quiet, PipelineAssumption
    <3>2. NextCommands[c] \subseteq finished \cup failed
      BY <2>2, <3>1, PipelineAssumption DEF IInv, Chained, PipelineAssumption
    <3>3. CASE c \in LocalCommand
      BY <3>3, ShapeAssumption DEF InitialSyncShape
    <3>4. CASE c \notin LocalCommand
      <4>1. NextCommands[c] \subseteq LocalCommand
        BY <3>1, <3>4, PipelineAssumption DEF PipelineAssumption
      <4> QED
        BY <3>2, <4>1 DEF IInv, WaitsAreBarrier, LocalStaysLocal
    <3> QED
      BY <3>3, <3>4
  <2> QED
    BY <2>3, <2>4, <2>5
<1> QED
  BY <1>1, Invariance, PTL

-----------------------------------------------------------------------------
(* The shutdown, for either mode and whether or not anybody has waited.  The *)
(* threads end in one order, and each only when it has nothing left; what    *)
(* could fill the queue of the callback worker again has ended before.       *)
WorkerLeavesNothing ==
  workerPc = "exited" => activeHandles = {} /\ delayedRequests = {}
CallbackLeavesNothing ==
  callbackPc = "exited" => callbackClosed /\ callbackQueue = <<>>
EndOrder ==
  /\ callbackClosed => clientPc \in {"notifyCallback", "joinCallback", "stopped"}
  /\ clientPc \in {"closeCallback", "notifyCallback", "joinCallback", "stopped"} =>
       workerPc = "exited"
  /\ clientPc = "stopped" => callbackPc = "exited"
Orderly == WorkerLeavesNothing /\ CallbackLeavesNothing /\ EndOrder

LEMMA OrderlyStep == Orderly /\ [Next]_vars => Orderly'
<1> SUFFICES ASSUME Orderly, [Next]_vars PROVE Orderly'
  OBVIOUS
<1> USE DEF Orderly, WorkerLeavesNothing, CallbackLeavesNothing, EndOrder, httpVars,
        workerVars, callbackVars, dispatcherVars, clientVars, stopVars, fateVars
<1>1. CASE ClientStep
  BY <1>1
  DEF ClientStep, ClientCountsHttp, ClientCountsCallback, ClientPushesHttp,
      ClientPushesCallback, BatchDispatched, WaitHttp, WaitCallback, WaitHttpAgain,
      NextBatch, ClientHasNoHandle, ClientCannotOpen, StopWorker, CloseLarge,
      NotifyLarge, JoinWorker, CloseCallback, NotifyCallback, JoinCallback, ClientAt
<1>2. CASE WorkerStep
  BY <1>2
  DEF WorkerStep, WorkerTop, LoopCondition, PopLarge, PopLargeClosed, WorkerDozes,
      WorkerSleeps, TryPopLarge, TryPopLargeEmpty, StartTransfer, DropAtLimit, Answer, TransferFailed,
      TransferRetryable, RetriesExhausted, TransferOk, Requeue, HandOver, Settle,
      NoMoreMessages, EndOfIteration, WorkerAt
<1>3. CASE CallbackStep
  BY <1>3
  DEF CallbackStep, PopCallback, CallbackWorkerEnds, RunCallback, CallbackThrows,
      ChainCountsHttp, ChainCountsCallback, ChainPushesHttp, ChainPushesCallback,
      CallbackDone, CallbackDozes, CallbackSleeps, ChainHasNoHandle, ChainCannotOpen,
      CallbackAt
<1>4. CASE UNCHANGED vars
  BY <1>4 DEF vars
<1> QED
  BY <1>1, <1>2, <1>3, <1>4 DEF Next, Rest

(* shutdown() leaves no transfer, no retry and no callback behind that was   *)
(* in progress, although it waits for none of them.                        *)
THEOREM ShutdownDrains == Spec => []StoppedDrained
<1>1. Init => Orderly
  BY DEF Init, Orderly, WorkerLeavesNothing, CallbackLeavesNothing, EndOrder
<1>2. Orderly /\ TypeOK => StoppedDrained
  BY DEF Orderly, WorkerLeavesNothing, CallbackLeavesNothing, EndOrder, TypeOK,
         InPop, StoppedDrained
<1> QED
  BY <1>1, <1>2, OrderlyStep, TypeCorrect, PTL DEF Spec

-----------------------------------------------------------------------------
(* ActiveCount, the counter that HttpClient and CallbackDispatcher keep of   *)
(* their commands, for every set of commands and of waiters: it is the      *)
(* number of commands that are in, no wake-up is lost, and every step is a  *)
(* step of IdleBarrier or leaves it unchanged.                             *)

(* The types of the variables the counter does not depend on. *)
CountTyped ==
  /\ mtx \in Task \cup Waiter \cup {Free}
  /\ asleep \subseteq Waiter
  /\ taskPc \in [Task -> TaskPc]
  /\ waitPc \in [Waiter -> WaitPc]

(* The inductive invariant.  That the counter is a natural number is not   *)
(* inductive by itself: a decrement() is only known to find it positive    *)
(* because it counts the commands that are in.                             *)
CountExact == count = Cardinality(Inside)
CountInv == CountTyped /\ CountExact

-----------------------------------------------------------------------------
(* A command that enters makes Inside one larger, one that leaves makes it *)
(* one smaller; Inside is always finite.                                   *)
LEMMA InsideFinite == IsFiniteSet(Inside)
<1>1. Inside \subseteq Task
  BY DEF Inside
<1> QED
  BY <1>1, ActiveCountAssumption, FS_Subset DEF ActiveCountAssumption

(* Increment(t) adds t to the commands that are in. *)
LEMMA IncrementInside ==
  ASSUME CountTyped, NEW t \in Task, Increment(t)
  PROVE  /\ t \notin Inside
         /\ Inside' = Inside \cup {t}
  BY DEF CountTyped, Increment, Inside

(* FetchSub(t) removes t from them. *)
LEMMA FetchSubInside ==
  ASSUME CountTyped, NEW t \in Task, FetchSub(t)
  PROVE  /\ t \in Inside
         /\ Inside' = Inside \ {t}
  BY DEF CountTyped, FetchSub, Inside

(* No other step changes who is in. *)
LEMMA OtherInside ==
  ASSUME CountTyped,
         \/ UNCHANGED countVars
         \/ \E t \in Task : LockToNotify(t) \/ NotifyAll(t)
         \/ \E w \in Waiter : WaiterStep(w)
  PROVE  Inside' = Inside /\ count' = count
<1>1. CASE UNCHANGED countVars
  BY <1>1 DEF countVars, Inside
<1>2. ASSUME NEW t \in Task, LockToNotify(t) \/ NotifyAll(t)
      PROVE  Inside' = Inside /\ count' = count
  BY <1>2 DEF LockToNotify, NotifyAll, Inside, CountTyped
<1>3. ASSUME NEW w \in Waiter, WaiterStep(w)
      PROVE  Inside' = Inside /\ count' = count
  BY <1>3 DEF WaiterStep, CallWait, LockToTest, ReturnIdle, DecideToSleep, Sleep,
              SpuriousWake, Inside
<1> QED
  BY <1>1, <1>2, <1>3

-----------------------------------------------------------------------------
(* Every step preserves the types. *)
LEMMA CountTypedStep == ASSUME CountTyped, [CountNext]_countVars PROVE CountTyped'
<1> USE DEF CountTyped, TaskPc, WaitPc
<1>1. CASE UNCHANGED countVars
  BY <1>1 DEF countVars
<1>2. ASSUME NEW t \in Task, TaskStep(t) PROVE CountTyped'
  <2>1. CASE Increment(t)    BY <2>1 DEF Increment
  <2>2. CASE FetchSub(t)     BY <2>2 DEF FetchSub
  <2>3. CASE LockToNotify(t) BY <2>3 DEF LockToNotify
  <2>4. CASE NotifyAll(t)    BY <2>4 DEF NotifyAll
  <2> QED BY <1>2, <2>1, <2>2, <2>3, <2>4 DEF TaskStep
<1>3. ASSUME NEW w \in Waiter, WaiterStep(w) PROVE CountTyped'
  <2>1. CASE CallWait(w)      BY <2>1 DEF CallWait
  <2>2. CASE LockToTest(w)    BY <2>2 DEF LockToTest
  <2>3. CASE ReturnIdle(w)    BY <2>3 DEF ReturnIdle
  <2>4. CASE DecideToSleep(w) BY <2>4 DEF DecideToSleep
  <2>5. CASE Sleep(w)         BY <2>5 DEF Sleep
  <2>6. CASE SpuriousWake(w)  BY <2>6 DEF SpuriousWake
  <2> QED BY <1>3, <2>1, <2>2, <2>3, <2>4, <2>5, <2>6 DEF WaiterStep
<1> QED
  BY <1>1, <1>2, <1>3 DEF CountNext

(* Initially nobody is in and the counter is zero. *)
LEMMA CountInitInvariant == CountInit => CountInv
<1> SUFFICES ASSUME CountInit PROVE CountInv
  OBVIOUS
<1>1. CountTyped
  BY DEF CountInit, CountTyped, TaskPc, WaitPc
<1>2. Inside = {}
  BY DEF CountInit, Inside
<1> QED
  BY <1>1, <1>2, FS_EmptySet DEF CountInit, CountInv, CountExact

(* Every step preserves the inductive invariant. *)
LEMMA CountStepInvariant == CountInv /\ [CountNext]_countVars => CountInv'
<1> SUFFICES ASSUME CountInv, [CountNext]_countVars PROVE CountInv'
  OBVIOUS
<1> USE DEF CountInv
<1>1. CountTyped'
  BY CountTypedStep
<1>2. CountExact'
  <2>1. ASSUME NEW t \in Task, Increment(t) PROVE CountExact'
    <3>1. count' = count + 1
      BY <2>1 DEF Increment
    <3>2. Cardinality(Inside \cup {t}) = Cardinality(Inside) + 1
      BY <2>1, IncrementInside, InsideFinite, FS_AddElement
    <3> QED
      BY <2>1, <3>1, <3>2, IncrementInside DEF CountExact
  <2>2. ASSUME NEW t \in Task, FetchSub(t) PROVE CountExact'
    <3>1. count' = count - 1
      BY <2>2 DEF FetchSub
    <3>2. Cardinality(Inside \ {t}) = Cardinality(Inside) - 1
      BY <2>2, FetchSubInside, InsideFinite, FS_RemoveElement
    <3> QED
      BY <2>2, <3>1, <3>2, FetchSubInside DEF CountExact
  <2>3. CASE \/ UNCHANGED countVars
             \/ \E t \in Task : LockToNotify(t) \/ NotifyAll(t)
             \/ \E w \in Waiter : WaiterStep(w)
    BY <2>3, OtherInside DEF CountExact
  <2> QED
    BY <2>1, <2>2, <2>3 DEF CountNext, TaskStep
<1> QED
  BY <1>1, <1>2

(* The counter of outstanding commands never goes below zero, and every    *)
(* thread is where increment(), decrement() or waitUntilIdle() put it.     *)
THEOREM CountTypeCorrect == CountSpec => []CountTypeOK
<1>1. CountInv => CountTypeOK
  BY InsideFinite, FS_CardinalityType DEF CountInv, CountExact, CountTypeOK, CountTyped
<1> QED
  BY <1>1, CountInitInvariant, CountStepInvariant, PTL DEF CountSpec

-----------------------------------------------------------------------------
(* One step cannot lose a wake-up: only FetchSub makes the counter zero,   *)
(* and it leaves a notification pending; only NotifyAll ends that, and it  *)
(* wakes everybody while holding _mtx, so nobody is about to sleep.        *)
LEMMA WakeupStep ==
  ASSUME CountInv, NoLostWakeup, [CountNext]_countVars
  PROVE  NoLostWakeup'
<1> USE DEF CountInv, CountTyped, NoLostWakeup, NotificationPending
<1>0. count \in Nat
  BY InsideFinite, FS_CardinalityType DEF CountExact
<1>1. CASE UNCHANGED countVars
  BY <1>1 DEF countVars
<1>2. ASSUME NEW t \in Task, TaskStep(t) PROVE NoLostWakeup'
  <2>1. CASE Increment(t)
    BY <1>0, <2>1 DEF Increment
  <2>2. CASE FetchSub(t)
    BY <1>0, <2>2 DEF FetchSub
  <2>3. CASE LockToNotify(t)
    BY <2>3, ActiveCountAssumption DEF LockToNotify, ActiveCountAssumption
  <2>4. CASE NotifyAll(t)
    BY <2>4, ActiveCountAssumption DEF NotifyAll, ActiveCountAssumption
  <2> QED
    BY <1>2, <2>1, <2>2, <2>3, <2>4 DEF TaskStep
<1>3. ASSUME NEW w \in Waiter, WaiterStep(w) PROVE NoLostWakeup'
  <2>1. CASE CallWait(w)      BY <2>1 DEF CallWait
  <2>2. CASE LockToTest(w)    BY <2>2 DEF LockToTest
  <2>3. CASE ReturnIdle(w)
    BY <2>3, ActiveCountAssumption DEF ReturnIdle, ActiveCountAssumption
  <2>4. CASE DecideToSleep(w) BY <2>4 DEF DecideToSleep
  <2>5. CASE Sleep(w)
    BY <2>5, ActiveCountAssumption DEF Sleep, ActiveCountAssumption
  <2>6. CASE SpuriousWake(w)  BY <2>6 DEF SpuriousWake
  <2> QED
    BY <1>3, <2>1, <2>2, <2>3, <2>4, <2>5, <2>6 DEF WaiterStep
<1> QED
  BY <1>1, <1>2, <1>3 DEF CountNext

(* No decrement() that ends idleness-waiting is missed: a waiter that      *)
(* sleeps while the counter is zero is still going to be notified.         *)
THEOREM WakeupsKept == CountSpec => []NoLostWakeup
<1>1. CountInit => NoLostWakeup
  BY DEF CountInit, NoLostWakeup
<1> QED
  BY <1>1, CountInitInvariant, CountStepInvariant, WakeupStep, PTL DEF CountSpec

-----------------------------------------------------------------------------
(* A return from waitUntilIdle() happens with nobody in. *)
LEMMA IdleMeansNobody == ASSUME CountInv, count = 0 PROVE Inside = {}
  BY InsideFinite, FS_EmptySet DEF CountInv, CountExact

(* A step of a command is Enter, Leave or no step of the barrier. *)
LEMMA TaskStepRefines ==
  ASSUME CountInv, NEW t \in Task, TaskStep(t)
  PROVE  [Barrier!Next]_(Barrier!vars)
<1>1. Waiting' = Waiting
  BY DEF TaskStep, Increment, FetchSub, LockToNotify, NotifyAll, Waiting
<1>2. CASE Increment(t)
  BY <1>1, <1>2, IncrementInside DEF CountInv, Barrier!Enter, Barrier!Next
<1>3. CASE FetchSub(t)
  BY <1>1, <1>3, FetchSubInside DEF CountInv, Barrier!Leave, Barrier!Next
<1>4. CASE LockToNotify(t) \/ NotifyAll(t)
  BY <1>1, <1>4, OtherInside DEF CountInv, Barrier!vars
<1> QED
  BY <1>2, <1>3, <1>4 DEF TaskStep

(* A step of a waiter is Wait, Return or no step of the barrier. *)
LEMMA WaiterStepRefines ==
  ASSUME CountInv, NEW w \in Waiter, WaiterStep(w)
  PROVE  [Barrier!Next]_(Barrier!vars)
<1>1. Inside' = Inside
  BY OtherInside DEF CountInv
<1>2. CASE CallWait(w)
  <2>1. w \notin Waiting /\ Waiting' = Waiting \cup {w}
    BY <1>2 DEF CallWait, Waiting, CountInv, CountTyped
  <2> QED
    BY <1>1, <2>1 DEF Barrier!Wait, Barrier!Next
<1>3. CASE ReturnIdle(w)
  <2>1. w \in Waiting /\ Waiting' = Waiting \ {w}
    BY <1>3 DEF ReturnIdle, Waiting, CountInv, CountTyped
  <2>2. Inside = {}
    BY <1>3, IdleMeansNobody DEF ReturnIdle
  <2> QED
    BY <1>1, <2>1, <2>2 DEF Barrier!Return, Barrier!Next
<1>4. CASE LockToTest(w) \/ DecideToSleep(w) \/ Sleep(w) \/ SpuriousWake(w)
  <2>1. Waiting' = Waiting
    BY <1>4 DEF LockToTest, DecideToSleep, Sleep, SpuriousWake, Waiting, CountInv, CountTyped
  <2> QED
    BY <1>1, <2>1 DEF Barrier!vars
<1> QED
  BY <1>2, <1>3, <1>4 DEF WaiterStep

(* increment(), decrement() and waitUntilIdle() implement the barrier: a   *)
(* wait ends only at a moment when no command is counted in.  (That it     *)
(* does end is checked with TLC.)                                          *)
THEOREM BarrierSafety == CountSpec => Barrier!Spec
<1>1. CountInit => Barrier!Init
  BY DEF CountInit, Barrier!Init, Inside, Waiting
<1>2. CountInv /\ [CountNext]_countVars => [Barrier!Next]_(Barrier!vars)
  <2> SUFFICES ASSUME CountInv, [CountNext]_countVars PROVE [Barrier!Next]_(Barrier!vars)
    OBVIOUS
  <2>1. CASE UNCHANGED countVars
    BY <2>1 DEF countVars, Barrier!vars, Inside, Waiting
  <2> QED
    BY <2>1, TaskStepRefines, WaiterStepRefines DEF CountNext
<1> QED
  BY <1>1, <1>2, CountInitInvariant, CountStepInvariant, PTL DEF CountSpec, Barrier!Spec

=============================================================================
