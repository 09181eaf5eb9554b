------------------------- MODULE ChangeTrackerProofs -------------------------
(***************************************************************************)
(* Proofs about ChangeTracker for any changes, paths, chains, directories,  *)
(* order of arrival and failures.                                          *)
(*                                                                         *)
(* Nothing is assumed of the schedule.  What the two threads do to each     *)
(* other is recorded in raced: the paths on which they have met, one with a *)
(* new change of the path, the other with a completed one.  The proofs show *)
(* that everything else they may do at the same time is harmless: that a    *)
(* path has one change in progress, that its changes start in the order of  *)
(* their arrival and that none is forgotten can fail on these paths only,   *)
(* and a null pointer is followed only when there is one.                   *)
(***************************************************************************)
EXTENDS ChangeTracker, SequenceTheorems, TLAPS

-----------------------------------------------------------------------------
(* What is known of the order in which changes arrived. *)
Earlier(c, d) ==
  \E k, l \in DOMAIN Arrival : k < l /\ Arrival[k] = c /\ Arrival[l] = d

Sorted(s) == \A i, j \in DOMAIN s : i < j => Earlier(s[i], s[j])

(* The changes of path p in the sequence s are in order. *)
SortedOn(s, p) ==
  \A i, j \in DOMAIN s :
    i < j /\ PathOf[s[i]] = p /\ PathOf[s[j]] = p => Earlier(s[i], s[j])

NoRepeat(s) == \A i, j \in DOMAIN s : s[i] = s[j] => i = j

(* No change is earlier than itself: it arrives once. *)
LEMMA NotEarlierThanItself == \A c : ~Earlier(c, c)
<1> SUFFICES ASSUME NEW c, Earlier(c, c) PROVE FALSE
  OBVIOUS
<1>1. PICK k \in DOMAIN Arrival, l \in DOMAIN Arrival :
        k < l /\ Arrival[k] = c /\ Arrival[l] = c
  BY DEF Earlier
<1>2. k # l
  <2>1. k \in Nat /\ l \in Nat
    BY TrackerAssumption, <1>1
  <2> QED
    BY <1>1, <2>1
<1> QED
  BY <1>1, <1>2, TrackerAssumption

(* Elements and order of a queue that grows or shrinks. *)
LEMMA AppendQueue ==
  ASSUME NEW s \in Seq(Change), NEW c \in Change
  PROVE  /\ Append(s, c) \in Seq(Change)
         /\ SetOf(Append(s, c)) = SetOf(s) \cup {c}
         /\ \A p : /\ SortedOn(s, p)
                   /\ PathOf[c] = p => \A x \in SetOf(s) : PathOf[x] = p => Earlier(x, c)
                   => SortedOn(Append(s, c), p)
         /\ NoRepeat(s) /\ c \notin SetOf(s) => NoRepeat(Append(s, c))
<1> DEFINE a == Append(s, c)
<1>1. /\ a \in Seq(Change)
      /\ Len(s) \in Nat
      /\ DOMAIN s = 1..Len(s)
      /\ DOMAIN a = 1..(Len(s) + 1)
      /\ \A i \in 1..Len(s) : a[i] = s[i]
      /\ a[Len(s) + 1] = c
  BY AppendProperties, LenProperties
<1> HIDE DEF a
<1>2. SetOf(a) = SetOf(s) \cup {c}
  <2>1. \A i \in DOMAIN a : i \in 1..Len(s) \/ i = Len(s) + 1
    BY <1>1
  <2>2. SetOf(a) \subseteq SetOf(s) \cup {c}
    BY <1>1, <2>1 DEF SetOf
  <2>3. \A i \in DOMAIN s : i \in DOMAIN a /\ a[i] = s[i]
    BY <1>1
  <2>4. Len(s) + 1 \in DOMAIN a
    BY <1>1
  <2> QED
    BY <1>1, <2>2, <2>3, <2>4 DEF SetOf
<1>3. ASSUME NEW p, SortedOn(s, p),
             PathOf[c] = p => \A x \in SetOf(s) : PathOf[x] = p => Earlier(x, c)
      PROVE  SortedOn(a, p)
  <2> SUFFICES ASSUME NEW i \in DOMAIN a, NEW j \in DOMAIN a, i < j,
                      PathOf[a[i]] = p, PathOf[a[j]] = p
               PROVE  Earlier(a[i], a[j])
    BY DEF SortedOn
  <2>1. i \in DOMAIN s /\ (j \in DOMAIN s \/ j = Len(s) + 1)
    BY <1>1
  <2>2. a[i] = s[i] /\ s[i] \in SetOf(s)
    BY <1>1, <2>1 DEF SetOf
  <2> QED
    BY <1>1, <1>3, <2>1, <2>2 DEF SortedOn
<1>4. ASSUME NoRepeat(s), c \notin SetOf(s) PROVE NoRepeat(a)
  <2> SUFFICES ASSUME NEW i \in DOMAIN a, NEW j \in DOMAIN a, a[i] = a[j]
               PROVE  i = j
    BY DEF NoRepeat
  <2>1. /\ i \in DOMAIN s \/ i = Len(s) + 1
        /\ j \in DOMAIN s \/ j = Len(s) + 1
    BY <1>1
  <2>2. \A k \in DOMAIN s : a[k] = s[k] /\ s[k] # c
    BY <1>1, <1>4 DEF SetOf
  <2> QED
    BY <1>1, <1>4, <2>1, <2>2 DEF NoRepeat
<1> QED
  BY <1>1, <1>2, <1>3, <1>4 DEF a

LEMMA TailQueue ==
  ASSUME NEW s \in Seq(Change), s # <<>>
  PROVE  /\ Head(s) \in Change
         /\ Tail(s) \in Seq(Change)
         /\ SetOf(s) = SetOf(Tail(s)) \cup {Head(s)}
         /\ Sorted(s) => /\ Sorted(Tail(s))
                         /\ \A x \in SetOf(Tail(s)) : Earlier(Head(s), x)
         /\ \A p : SortedOn(s, p) =>
              /\ SortedOn(Tail(s), p)
              /\ PathOf[Head(s)] = p =>
                   \A x \in SetOf(Tail(s)) : PathOf[x] = p => Earlier(Head(s), x)
         /\ NoRepeat(s) => NoRepeat(Tail(s)) /\ Head(s) \notin SetOf(Tail(s))
<1> DEFINE t == Tail(s)
           h == Head(s)
<1>1. /\ h \in Change /\ t \in Seq(Change)
      /\ Len(s) \in Nat \ {0}
      /\ DOMAIN s = 1..Len(s)
      /\ DOMAIN t = 1..(Len(s) - 1)
      /\ h = s[1]
      /\ \A i \in 1..(Len(s) - 1) : t[i] = s[i + 1]
  BY HeadTailProperties, EmptySeq, LenProperties
<1> HIDE DEF t, h
<1>2. 1 \in DOMAIN s /\ \A i \in DOMAIN t : i + 1 \in DOMAIN s /\ 1 < i + 1 /\ i + 1 # 1
  BY <1>1
<1>3. SetOf(s) = SetOf(t) \cup {h}
  <2>1. \A j \in DOMAIN s : j = 1 \/ (j - 1 \in DOMAIN t /\ (j - 1) + 1 = j)
    BY <1>1
  <2>2. ASSUME NEW x \in SetOf(s) PROVE x \in SetOf(t) \cup {h}
    <3>1. PICK j \in DOMAIN s : x = s[j]
      BY DEF SetOf
    <3>2. CASE j = 1
      BY <1>1, <3>1, <3>2
    <3>3. CASE j - 1 \in DOMAIN t /\ (j - 1) + 1 = j
      <4>1. t[j - 1] = s[j]
        BY <1>1, <3>3
      <4> QED
        BY <3>1, <3>3, <4>1 DEF SetOf
    <3> QED
      BY <2>1, <3>2, <3>3
  <2>3. SetOf(t) \cup {h} \subseteq SetOf(s)
    BY <1>1, <1>2 DEF SetOf
  <2> QED
    BY <2>2, <2>3
<1>4. ASSUME Sorted(s) PROVE Sorted(t) /\ \A x \in SetOf(t) : Earlier(h, x)
  <2>1. ASSUME NEW i \in DOMAIN t, NEW j \in DOMAIN t, i < j PROVE Earlier(t[i], t[j])
    <3>1. i + 1 < j + 1
      BY <1>1, <2>1
    <3> QED
      BY <1>1, <1>2, <1>4, <3>1 DEF Sorted
  <2>2. ASSUME NEW i \in DOMAIN t PROVE Earlier(h, t[i])
    BY <1>1, <1>2, <1>4 DEF Sorted
  <2> QED
    BY <2>1, <2>2 DEF Sorted, SetOf
<1>5. ASSUME NoRepeat(s) PROVE NoRepeat(t) /\ h \notin SetOf(t)
  <2>1. ASSUME NEW i \in DOMAIN t, NEW j \in DOMAIN t, t[i] = t[j] PROVE i = j
    <3>1. i + 1 = j + 1
      BY <1>1, <1>2, <1>5, <2>1 DEF NoRepeat
    <3> QED
      BY <1>1, <3>1
  <2>2. ASSUME NEW i \in DOMAIN t, h = t[i] PROVE FALSE
    BY <1>1, <1>2, <1>5, <2>2 DEF NoRepeat
  <2> QED
    BY <2>1, <2>2 DEF NoRepeat, SetOf
<1>6. ASSUME NEW p, SortedOn(s, p)
      PROVE  /\ SortedOn(t, p)
             /\ PathOf[h] = p => \A x \in SetOf(t) : PathOf[x] = p => Earlier(h, x)
  <2>1. ASSUME NEW i \in DOMAIN t, NEW j \in DOMAIN t, i < j,
               PathOf[t[i]] = p, PathOf[t[j]] = p
        PROVE  Earlier(t[i], t[j])
    <3>1. i + 1 < j + 1
      BY <1>1, <2>1
    <3> QED
      BY <1>1, <1>2, <1>6, <2>1, <3>1 DEF SortedOn
  <2>2. ASSUME NEW i \in DOMAIN t, PathOf[h] = p, PathOf[t[i]] = p PROVE Earlier(h, t[i])
    BY <1>1, <1>2, <1>6, <2>2 DEF SortedOn
  <2> QED
    BY <2>1, <2>2 DEF SortedOn, SetOf
<1> QED
  BY <1>1, <1>3, <1>4, <1>5, <1>6 DEF t, h

LEMMA EmptyQueue ==
  /\ <<>> \in Seq(Change) /\ SetOf(<<>>) = {} /\ NoRepeat(<<>>)
  /\ \A p : SortedOn(<<>>, p)
  BY EmptySeq DEF SetOf, SortedOn, NoRepeat

(* Chains are sequences of at least one command, but for directories. *)
LEMMA ChainLen ==
  ASSUME NEW c \in Change
  PROVE  /\ Len(Chain[c]) \in Nat
         /\ c \notin Directory => Len(Chain[c]) > 0
<1>1. Chain[c] \in Seq({"cloud", "local"})
  BY TrackerAssumption
<1>2. Len(Chain[c]) \in Nat /\ (Len(Chain[c]) = 0 => Chain[c] = <<>>)
  BY <1>1, LenProperties, EmptySeq
<1> QED
  BY <1>2, TrackerAssumption

-----------------------------------------------------------------------------
(* The types need to know that directories are only created. *)
NoDirectoryStarts ==
  /\ \A t \in Thread : pc[t] \in {"start", "lookup", "append"} => incoming[t] \notin Directory
  /\ \A p \in Path : currentChanges[p] \notin Directory
  /\ \A c \in Change : SetOf(dependents[c]) \cap Directory = {}
  /\ SetOf(toHandle) \cap Directory = {}
  /\ Started \cap Directory = {}

TypeInv == TypeOK /\ NoDirectoryStarts

LEMMA InitTypeInv == Init => TypeInv
<1> SUFFICES ASSUME Init PROVE TypeInv
  OBVIOUS
<1>1. /\ pendingCmds \in [Change -> Nat] /\ position \in [Change -> Nat]
      /\ \A c \in Change : pendingCmds[c] <= Len(Chain[c]) /\ position[c] <= Len(Chain[c])
  BY ChainLen DEF Init
<1>2. /\ changesBuff \in Seq(Change)
      /\ dependents \in [Change -> Seq(Change)]
      /\ callbacks \in Seq(Change) /\ toHandle \in Seq(Change) /\ dispatched \in Seq(Change)
  BY EmptyQueue, TrackerAssumption DEF Init
<1>3. TypeOK
  BY <1>1, <1>2, TrackerAssumption DEF Init, TypeOK, Thread, HandlePc
<1>4. NoDirectoryStarts
  BY EmptyQueue, TrackerAssumption DEF Init, NoDirectoryStarts, Started, Thread
<1> QED
  BY <1>3, <1>4 DEF TypeInv

(* A command that is handed over. *)
LEMMA SubmitTypes ==
  ASSUME TypeOK, NEW c \in Change, NEW i \in 1..Len(Chain[c]), Submit(c, i)
  PROVE  /\ position' \in [Change -> Nat]
         /\ \A d \in Change : position'[d] <= Len(Chain[d])
         /\ transfers' \subseteq Change
         /\ callbacks' \in Seq(Change)
<1>1. callbacks' \in Seq(Change)
  <2>1. callbacks \in Seq(Change)
    BY DEF TypeOK
  <2>2. Append(callbacks, c) \in Seq(Change)
    BY <2>1, AppendQueue
  <2> QED
    BY <2>1, <2>2 DEF Submit
<1>2. transfers' \subseteq Change
  BY DEF TypeOK, Submit
<1>3. Len(Chain[c]) \in Nat
  BY ChainLen
<1> QED
  BY <1>1, <1>2, <1>3 DEF TypeOK, Submit

(* The steps of handleChange. *)
LEMMA HandleTypes ==
  ASSUME TypeInv, NEW t \in Thread, HandleStep(t)
  PROVE  TypeInv'
<1> USE DEF TypeInv
<1>1. CASE Check(t)
  BY <1>1, TrackerAssumption
  DEF Check, TypeOK, NoDirectoryStarts, At, Goto, HandlePc, trackVars, pipeVars, Started
<1>2. CASE CreatePath(t)
  <2>1. incoming[t] \in Change
    BY <1>2 DEF CreatePath, TypeOK, At
  <2>2. created' \subseteq Dir
    BY <1>2, <2>1, TrackerAssumption DEF CreatePath, TypeOK
  <2> QED
    BY <1>2, <2>2, TrackerAssumption
    DEF CreatePath, TypeOK, NoDirectoryStarts, At, Goto, HandlePc, trackVars, pipeVars, Started
<1>3. CASE DirectoryDone(t)
  BY <1>3, TrackerAssumption
  DEF DirectoryDone, TypeOK, NoDirectoryStarts, At, Return, HandlePc, pipeVars, Started
<1>4. CASE Start(t)
  <2>1. incoming[t] \in Change /\ PathOf[incoming[t]] \in Path
    BY <1>4, TrackerAssumption DEF Start, TypeOK, At
  <2> QED
    BY <1>4, <2>1, TrackerAssumption
    DEF Start, TypeOK, NoDirectoryStarts, At, Goto, HandlePc, pipeVars, Started
<1>5. CASE Dispatch(t)
  <2> DEFINE c == currentChanges[PathOf[incoming[t]]]
  <2>1. CASE c = None \/ c \in SetOf(dispatched)
    BY <1>5, <2>1
    DEF Dispatch, TypeOK, NoDirectoryStarts, At, trackVars, pipeVars, Started
  <2>2. CASE ~(c = None \/ c \in SetOf(dispatched))
    <3>1. incoming[t] \in Change /\ PathOf[incoming[t]] \in Path
      BY <1>5, TrackerAssumption DEF Dispatch, TypeOK, At
    <3>2. c \in Change \ Directory
      BY <2>2, <3>1 DEF TypeOK, NoDirectoryStarts
    <3>3. Submit(c, 1) /\ dispatched' = Append(dispatched, c) /\ Return(t)
          /\ UNCHANGED <<failed, crashed, changesBuff, trackVars, running, toHandle, found, raced>>
      BY <1>5, <2>2 DEF Dispatch
    <3>4. 1 \in 1..Len(Chain[c])
      BY <3>2, ChainLen
    <3>5. /\ dispatched' \in Seq(Change)
          /\ SetOf(dispatched') = SetOf(dispatched) \cup {c}
      BY <3>2, <3>3, AppendQueue DEF TypeOK
    <3>6. /\ position' \in [Change -> Nat]
          /\ \A d \in Change : position'[d] <= Len(Chain[d])
          /\ transfers' \subseteq Change
          /\ callbacks' \in Seq(Change)
      BY <3>2, <3>3, <3>4, SubmitTypes
    <3> HIDE DEF c
    <3>7. TypeOK'
      BY <1>5, <3>3, <3>5, <3>6, TrackerAssumption
      DEF TypeOK, Dispatch, At, Return, HandlePc, trackVars
    <3>8. NoDirectoryStarts'
      BY <3>2, <3>3, <3>5 DEF NoDirectoryStarts, TypeOK, Return, trackVars, Started
    <3> QED BY <3>7, <3>8
  <2> QED BY <2>1, <2>2
<1>6. CASE Lookup(t)
  <2>1. incoming[t] \in Change /\ PathOf[incoming[t]] \in Path
    BY <1>6, TrackerAssumption DEF Lookup, TypeOK, At
  <2> QED
    <3> DEFINE c == currentChanges[PathOf[incoming[t]]]
    <3>1. c = None \/ c \in Change
      BY <2>1 DEF TypeOK
    <3>2. CASE c = None
      BY <1>6, <3>2
      DEF Lookup, TypeOK, NoDirectoryStarts, At, trackVars, pipeVars, Started
    <3>3. CASE c # None
      <4>1. /\ pc[t] = "lookup"
            /\ found' = [found EXCEPT ![t] = c] /\ pc' = [pc EXCEPT ![t] = "append"]
            /\ UNCHANGED <<changesBuff, trackVars, pipeVars, running, toHandle, incoming, crashed, raced>>
        BY <1>6, <3>3 DEF Lookup, At, Goto
      <4> HIDE DEF c
      <4>2. TypeOK'
        BY <3>1, <3>3, <4>1 DEF TypeOK, HandlePc, trackVars, pipeVars
      <4>3. NoDirectoryStarts'
        BY <4>1 DEF TypeOK, NoDirectoryStarts, trackVars, pipeVars, Started
      <4> QED BY <4>2, <4>3
    <3> QED BY <3>2, <3>3
<1>7. CASE AddDependent(t)
  <2>1. incoming[t] \in Change \ Directory /\ found[t] \in Change
    BY <1>7 DEF AddDependent, TypeOK, NoDirectoryStarts, At
  <2>2. /\ dependents' \in [Change -> Seq(Change)]
        /\ \A c \in Change : SetOf(dependents'[c]) \subseteq SetOf(dependents[c]) \cup {incoming[t]}
    BY <1>7, <2>1, AppendQueue DEF AddDependent, TypeOK
  <2> QED
    <3>1. TypeOK'
      BY <1>7, <2>1, <2>2, TrackerAssumption
      DEF AddDependent, TypeOK, At, Return, HandlePc, pipeVars
    <3>2. NoDirectoryStarts'
      <4>1. /\ UNCHANGED <<currentChanges, toHandle, dispatched>>
            /\ \A s \in Thread : pc'[s] \in {"start", "lookup", "append"} =>
                 pc'[s] = pc[s] /\ incoming'[s] = incoming[s]
        BY <1>7 DEF AddDependent, TypeOK, Return, pipeVars
      <4> QED
        BY <2>1, <2>2, <4>1 DEF NoDirectoryStarts, Started
    <3> QED BY <3>1, <3>2
<1> QED
  BY <1>1, <1>2, <1>3, <1>4, <1>5, <1>6, <1>7 DEF HandleStep

(* The other steps of the two threads, and the network. *)
LEMMA QueueTypes ==
  ASSUME TypeInv,
         \/ TakeChange \/ TakeDependent \/ PopCallback \/ RunCallback \/ Complete
         \/ CompletionReturns
         \/ \E c \in Change : NetworkStep(c)
         \/ UNCHANGED vars
  PROVE  TypeInv'
<1> USE DEF TypeInv
<1>1. CASE TakeChange
  <2>1. changesBuff' \in Seq(Change) /\ Head(changesBuff) \in Change
    BY <1>1, TailQueue DEF TakeChange, TypeOK
  <2>2. TypeOK'
    BY <1>1, <2>1, TrackerAssumption
    DEF TakeChange, TypeOK, At, Goto, Thread, HandlePc, trackVars, pipeVars
  <2>3. NoDirectoryStarts'
    BY <1>1 DEF TakeChange, NoDirectoryStarts, TypeOK, At, Goto, Thread, Started,
                trackVars, pipeVars
  <2> QED BY <2>2, <2>3
<1>2. CASE TakeDependent
  <2>1. /\ toHandle' \in Seq(Change) /\ Head(toHandle) \in Change
        /\ SetOf(toHandle') \subseteq SetOf(toHandle)
    BY <1>2, TailQueue DEF TakeDependent, TypeOK
  <2>2. TypeOK'
    BY <1>2, <2>1, TrackerAssumption
    DEF TakeDependent, TypeOK, At, Goto, Thread, HandlePc, trackVars, pipeVars
  <2>3. NoDirectoryStarts'
    BY <1>2, <2>1 DEF TakeDependent, NoDirectoryStarts, TypeOK, At, Goto, Thread, Started,
                trackVars, pipeVars
  <2> QED BY <2>2, <2>3
<1>3. CASE PopCallback
  <2>1. callbacks' \in Seq(Change) /\ running' \in Change
    BY <1>3, TailQueue DEF PopCallback, TypeOK
  <2> QED
    BY <1>3, <2>1
    DEF PopCallback, TypeOK, NoDirectoryStarts, Started, trackVars, threadVars
<1>4. CASE RunCallback
  <2>1. running \in Change /\ position[running] \in Nat
    BY <1>4 DEF RunCallback, TypeOK, Busy
  <2>2. /\ pendingCmds' \in [Change -> Nat]
        /\ \A c \in Change : pendingCmds'[c] <= Len(Chain[c])
    <3>1. pendingCmds' = pendingCmds
          \/ (pendingCmds[running] > 1
               /\ pendingCmds' = [pendingCmds EXCEPT ![running] = @ - 1])
      BY <1>4 DEF RunCallback
    <3>2. Len(Chain[running]) \in Nat
      BY <2>1, ChainLen
    <3>3. /\ pendingCmds \in [Change -> Nat]
          /\ \A c \in Change : pendingCmds[c] <= Len(Chain[c])
      BY DEF TypeOK
    <3>4. CASE pendingCmds[running] > 1
               /\ pendingCmds' = [pendingCmds EXCEPT ![running] = @ - 1]
      <4>1. pendingCmds[running] - 1 \in Nat /\ pendingCmds[running] - 1 <= Len(Chain[running])
        BY <2>1, <3>2, <3>3, <3>4
      <4> QED
        BY <3>3, <3>4, <4>1
    <3> QED
      BY <3>1, <3>3, <3>4
  <2>3. /\ position' \in [Change -> Nat]
        /\ \A c \in Change : position'[c] <= Len(Chain[c])
        /\ transfers' \subseteq Change
        /\ callbacks' \in Seq(Change)
    <3>1. CASE position[running] < Len(Chain[running])
      <4>1. position[running] + 1 \in 1..Len(Chain[running])
        BY <2>1, <3>1, ChainLen
      <4> QED
        BY <1>4, <2>1, <3>1, <4>1, SubmitTypes DEF RunCallback
    <3>2. CASE ~(position[running] < Len(Chain[running]))
      BY <1>4, <3>2 DEF RunCallback, TypeOK
    <3> QED BY <3>1, <3>2
  <2> QED
    BY <1>4, <2>2, <2>3
    DEF RunCallback, TypeOK, NoDirectoryStarts, Started, threadVars
<1>5. CASE Complete
  <2>1. running \in Change /\ PathOf[running] \in Path
    BY <1>5, TrackerAssumption DEF Complete, TypeOK, Busy
  <2>2. /\ pendingCmds' \in [Change -> Nat]
        /\ \A c \in Change : pendingCmds'[c] <= Len(Chain[c])
    BY <1>5, <2>1, ChainLen DEF Complete, TypeOK
  <2>3. /\ dependents' \in [Change -> Seq(Change)] /\ toHandle' \in Seq(Change)
        /\ \A c \in Change : SetOf(dependents'[c]) \subseteq SetOf(dependents[c])
        /\ SetOf(toHandle') = SetOf(dependents[running])
    BY <1>5, <2>1, EmptyQueue DEF Complete, TypeOK
  <2>4. TypeOK'
    BY <1>5, <2>1, <2>2, <2>3 DEF Complete, TypeOK, pipeVars, threadVars
  <2>5. NoDirectoryStarts'
    BY <1>5, <2>1, <2>3, TrackerAssumption
    DEF Complete, TypeOK, NoDirectoryStarts, Started, pipeVars, threadVars
  <2> QED BY <2>4, <2>5
<1>6. CASE CompletionReturns
  BY <1>6 DEF CompletionReturns, TypeOK, NoDirectoryStarts, Started, trackVars, pipeVars,
              threadVars
<1>7. ASSUME NEW c \in Change, NetworkStep(c) PROVE TypeInv'
  <2>1. callbacks \in Seq(Change)
    BY DEF TypeOK
  <2>2. Append(callbacks, c) \in Seq(Change)
    BY <1>7, <2>1, AppendQueue
  <2>3. callbacks' \in Seq(Change) /\ transfers' \subseteq Change /\ failed' \subseteq Change
    BY <1>7, <2>1, <2>2 DEF NetworkStep, TransferOk, TransferFailed, TypeOK
  <2> QED
    BY <1>7, <2>3
    DEF NetworkStep, TransferOk, TransferFailed, TypeOK, NoDirectoryStarts, Started,
        trackVars, threadVars
<1>8. CASE UNCHANGED vars
  BY <1>8 DEF vars, TypeOK, NoDirectoryStarts, Started, trackVars, pipeVars, threadVars
<1> QED
  BY <1>1, <1>2, <1>3, <1>4, <1>5, <1>6, <1>7, <1>8

LEMMA TypeStep == TypeInv /\ [Next]_vars => TypeInv'
<1> SUFFICES ASSUME TypeInv, [Next]_vars PROVE TypeInv'
  OBVIOUS
<1>1. "changes" \in Thread /\ "callback" \in Thread
  BY DEF Thread
<1>2. CASE ChangesStep
  BY <1>1, <1>2, HandleTypes, QueueTypes DEF ChangesStep
<1>3. CASE CallbackStep
  BY <1>1, <1>3, HandleTypes, QueueTypes DEF CallbackStep
<1>4. CASE (\E c \in Change : NetworkStep(c)) \/ UNCHANGED vars
  BY <1>4, QueueTypes
<1> QED
  BY <1>2, <1>3, <1>4 DEF Next, Rest

LEMMA TypesKept == Spec => []TypeInv
  BY InitTypeInv, TypeStep, PTL DEF Spec

(* The variables have their types, however the threads interleave and        *)
(* whatever arrives: a change is dispatched from its first command, each     *)
(* command leads to the next one of its chain, and no count goes below zero. *)
THEOREM TypeCorrect == Spec => []TypeOK
<1>1. TypeInv => TypeOK
  BY DEF TypeInv
<1> QED
  BY <1>1, TypesKept, PTL

-----------------------------------------------------------------------------
(* Where a change can be. *)
Hand(t) == {incoming[t]} \ {None}
Waiting == UNION {SetOf(dependents[c]) : c \in Change}
ToHandle == SetOf(toHandle) \cup Hand("callback")
Entries == {currentChanges[p] : p \in Path} \ {None}

(* What holds whatever the threads do to each other.                       *)

(* _changes_buff hands changes over in the order of their arrival. *)
QueueOrder ==
  /\ Sorted(changesBuff)
  /\ \A c \in Started \cup Waiting \cup ToHandle \cup Hand("changes") \cup Entries,
        d \in SetOf(changesBuff) : Earlier(c, d)

(* Entries, dependents and what is handled at a completion keep to a path. *)
OwnPath ==
  /\ \A p \in Path : currentChanges[p] # None => PathOf[currentChanges[p]] = p
  /\ \A t \in Thread : found[t] # None => PathOf[found[t]] = PathOf[incoming[t]]
  /\ \A c \in Change : \A d \in SetOf(dependents[c]) : PathOf[d] = PathOf[c]
  /\ \A c \in ToHandle : Completing /\ PathOf[c] = PathOf[running]

(* A command of a change is in one place, and changes complete once. *)
OnePlace ==
  /\ NoRepeat(callbacks)
  /\ transfers \cap SetOf(callbacks) = {}
  /\ running \notin transfers \cup SetOf(callbacks)
  /\ transfers \cup SetOf(callbacks) \subseteq Started \ completed
  /\ Busy => running \in Started
  /\ completed \subseteq Started \cup Directory
  /\ \A c \in Change \ Started : pendingCmds[c] = Len(Chain[c])

(* raced records every meeting. *)
Met == Completing /\ Handles(incoming["changes"], PathOf[running]) => PathOf[running] \in raced

Anyway == QueueOrder /\ OwnPath /\ OnePlace /\ Met

(* What holds on a path on which the threads have not met.                 *)

(* Changes come in order: those started, their dependents, the former        *)
(* dependents that onChangeCompleted still has to handle, and new ones.      *)
OrderOn(p) ==
  /\ \A c \in Started \cup Waiting \cup ToHandle, d \in Hand("changes") :
       PathOf[c] = p /\ PathOf[d] = p => Earlier(c, d)
  /\ \A c \in Started, d \in Waiting \cup ToHandle :
       PathOf[c] = p /\ PathOf[d] = p => Earlier(c, d)
  /\ \A c \in Waiting, d \in ToHandle : PathOf[c] = p /\ PathOf[d] = p => Earlier(c, d)
  /\ \A c \in Hand("callback"), d \in SetOf(toHandle) :
       PathOf[c] = p /\ PathOf[d] = p => Earlier(c, d)
  /\ SortedOn(dispatched, p)
  /\ SortedOn(toHandle, p)
  /\ \A c \in Change : SortedOn(dependents[c], p)

(* What a thread knows of the entry of its path. *)
ClaimsOn(p) ==
  \A t \in Thread : Handles(incoming[t], p) =>
    /\ pc[t] \in {"createPath", "start"} => currentChanges[p] = None
    /\ pc[t] = "dispatch" => currentChanges[p] = incoming[t]
    /\ pc[t] = "lookup" => currentChanges[p] # None
    /\ pc[t] = "append" => currentChanges[p] = found[t]

(* The map has exactly the change that was started and has not completed,   *)
(* or the one that is about to be dispatched.                              *)
EntryOn(p) ==
  /\ currentChanges[p] # None =>
       \/ currentChanges[p] \in Started \ completed
       \/ \E t \in Thread : pc[t] = "dispatch" /\ incoming[t] = currentChanges[p]
  /\ \A c \in Started \ completed : PathOf[c] = p => currentChanges[p] = c

(* Only a change in progress has dependents. *)
DependentsOn(p) ==
  \A c \in Change : PathOf[c] = p /\ SetOf(dependents[c]) # {} => c \in Started \ completed

(* _pending_cmds counts the commands from the current one to the last. *)
CountOn(p) ==
  \A c \in Started \ completed : PathOf[c] = p =>
    position[c] \in 1..Len(Chain[c]) /\ pendingCmds[c] = Len(Chain[c]) - position[c] + 1

OnPath(p) == OrderOn(p) /\ ClaimsOn(p) /\ EntryOn(p) /\ DependentsOn(p) /\ CountOn(p)

IInv ==
  /\ Anyway
  /\ \A p \in Path \ raced : OnPath(p)
  /\ CrashesOnlyOnRaces

-----------------------------------------------------------------------------
LEMMA InitIInv == Init => IInv
<1> SUFFICES ASSUME Init PROVE IInv
  OBVIOUS
<1>1. /\ changesBuff = Arrival /\ toHandle = <<>> /\ dispatched = <<>> /\ callbacks = <<>>
      /\ \A c \in Change : dependents[c] = <<>>
      /\ \A t \in Thread : incoming[t] = None /\ pc[t] = "idle" /\ found[t] = None
      /\ \A p \in Path : currentChanges[p] = None
      /\ \A c \in Change : pendingCmds[c] = Len(Chain[c])
      /\ running = None /\ transfers = {} /\ completed = {} /\ ~crashed
  BY DEF Init
<1>2. /\ Started = {} /\ Waiting = {} /\ ToHandle = {} /\ SetOf(toHandle) = {} /\ Entries = {}
      /\ \A t \in Thread : Hand(t) = {}
      /\ \A c \in Change : SetOf(dependents[c]) = {}
      /\ "changes" \in Thread /\ "callback" \in Thread
      /\ ~Busy /\ ~Completing
  BY <1>1, EmptyQueue
  DEF Started, Waiting, ToHandle, Hand, Thread, Entries, Busy, Completing
<1>3. QueueOrder
  <2>1. Sorted(Arrival)
    BY TrackerAssumption DEF Sorted, Earlier
  <2> QED
    BY <1>1, <1>2, <2>1 DEF QueueOrder
<1>4. OwnPath /\ OnePlace /\ Met
  BY <1>1, <1>2, EmptyQueue DEF OwnPath, OnePlace, Met
<1>5. ASSUME NEW p \in Path PROVE OnPath(p)
  BY <1>1, <1>2, EmptyQueue
  DEF OnPath, OrderOn, ClaimsOn, EntryOn, DependentsOn, CountOn, Handles
<1> QED
  BY <1>1, <1>3, <1>4, <1>5 DEF IInv, Anyway, CrashesOnlyOnRaces

(* A thread that handles a change of a path the threads have not met on is    *)
(* alone with that path.                                                    *)
LEMMA Alone ==
  ASSUME TypeInv, Anyway, NEW p \in Path, p \notin raced, NEW t \in Thread,
         Handles(incoming[t], p)
  PROVE  /\ \A u \in Thread : u # t => ~Handles(incoming[u], p)
         /\ t = "changes" => ~(Completing /\ PathOf[running] = p)
         /\ t = "changes" => \A c \in ToHandle : PathOf[c] # p
         /\ t = "callback" => Completing /\ PathOf[running] = p
<1>1. ASSUME Handles(incoming["changes"], p), Completing, PathOf[running] = p PROVE FALSE
  BY <1>1 DEF Anyway, Met
<1>2. ASSUME Handles(incoming["callback"], p) PROVE Completing /\ PathOf[running] = p
  BY <1>2 DEF Anyway, OwnPath, ToHandle, Hand, Handles
<1>3. \A c \in ToHandle : PathOf[c] = p => Completing /\ PathOf[running] = p
  BY DEF Anyway, OwnPath
<1> QED
  BY <1>1, <1>2, <1>3 DEF Thread

(* The sets of changes depend on a few variables each. *)
LEMMA Unmoved ==
  ASSUME UNCHANGED <<currentChanges, dependents, toHandle, dispatched, incoming>>
  PROVE  /\ \A t \in Thread : Hand(t)' = Hand(t)
         /\ Started' = Started /\ Waiting' = Waiting /\ ToHandle' = ToHandle
         /\ Entries' = Entries
  BY DEF Hand, Started, Waiting, ToHandle, Entries

(* Steps that leave all changes where they are keep the parts about them. *)
LEMMA UnmovedOn ==
  ASSUME NEW p \in Path, OnPath(p),
         UNCHANGED <<currentChanges, dependents, toHandle, dispatched, completed, threadVars>>
  PROVE  OrderOn(p)' /\ ClaimsOn(p)' /\ EntryOn(p)' /\ DependentsOn(p)'
<1>1. /\ \A t \in Thread : Hand(t)' = Hand(t)
      /\ Started' = Started /\ Waiting' = Waiting /\ ToHandle' = ToHandle
  BY Unmoved DEF threadVars
<1>2. "changes" \in Thread /\ "callback" \in Thread
  BY DEF Thread
<1>3. OrderOn(p)'
  BY <1>1, <1>2 DEF OnPath, OrderOn
<1>4. ClaimsOn(p)' /\ EntryOn(p)' /\ DependentsOn(p)'
  BY <1>1 DEF OnPath, ClaimsOn, EntryOn, DependentsOn, threadVars
<1> QED
  BY <1>3, <1>4

-----------------------------------------------------------------------------
(* New changes and dependents are taken. *)
LEMMA TakeChangeStep ==
  ASSUME TypeInv, IInv, TakeChange PROVE IInv'
<1> DEFINE h == Head(changesBuff)
<1>1. /\ pc["changes"] = "idle" /\ changesBuff # <<>> /\ ~crashed
      /\ incoming' = [incoming EXCEPT !["changes"] = h]
      /\ changesBuff' = Tail(changesBuff)
      /\ pc' = [pc EXCEPT !["changes"] = "check"]
      /\ raced' = raced \cup {p \in Path : /\ Completing /\ PathOf[running] = p
                                          /\ Handles(h, p)}
      /\ UNCHANGED <<trackVars, pipeVars, running, toHandle, found, crashed>>
  BY DEF TakeChange, At, Goto
<1>2. /\ h \in Change
      /\ SetOf(changesBuff) = SetOf(changesBuff') \cup {h}
      /\ Sorted(changesBuff')
      /\ \A x \in SetOf(changesBuff') : Earlier(h, x)
  BY <1>1, TailQueue DEF TypeInv, TypeOK, IInv, Anyway, QueueOrder
<1>3. /\ incoming'["changes"] = h /\ incoming'["callback"] = incoming["callback"]
      /\ pc'["changes"] = "check" /\ pc'["callback"] = pc["callback"]
      /\ incoming["changes"] = None /\ found["changes"] = None
  BY <1>1 DEF TypeInv, TypeOK, Thread
<1>4. /\ Hand("changes")' = {h} /\ Hand("callback")' = Hand("callback")
      /\ Started' = Started /\ Waiting' = Waiting /\ ToHandle' = ToHandle
      /\ Entries' = Entries
      /\ Completing' = Completing /\ Busy' = Busy
  BY <1>1, <1>2, <1>3, TrackerAssumption
  DEF Hand, Started, Waiting, ToHandle, Entries, Completing, Busy, trackVars, pipeVars
<1>5. QueueOrder'
  BY <1>2, <1>4 DEF IInv, Anyway, QueueOrder
<1>6. OwnPath'
  BY <1>1, <1>3, <1>4 DEF IInv, Anyway, OwnPath, trackVars, Thread
<1>7. OnePlace'
  BY <1>1, <1>4 DEF IInv, Anyway, OnePlace, trackVars, pipeVars
<1>8. Met'
  <2>1. Completing => PathOf[running] \in Path
    BY TrackerAssumption DEF TypeInv, TypeOK, Completing, Busy
  <2> QED
    BY <1>1, <1>3, <1>4, <2>1 DEF Met, Handles
<1>9. ASSUME NEW p \in Path, p \notin raced' PROVE OnPath(p)'
  <2>1. OnPath(p)
    BY <1>1, <1>9 DEF IInv
  <2>2. \A c \in Started \cup Waiting \cup ToHandle : Earlier(c, h)
    BY <1>2 DEF IInv, Anyway, QueueOrder
  <2>3. OrderOn(p)'
    BY <1>1, <1>4, <2>1, <2>2 DEF OnPath, OrderOn, trackVars, pipeVars
  <2>4. ClaimsOn(p)'
    BY <1>1, <1>3, <2>1 DEF OnPath, ClaimsOn, Thread, trackVars
  <2>5. EntryOn(p)'
    BY <1>1, <1>3, <1>4, <2>1 DEF OnPath, EntryOn, Thread, trackVars
  <2>6. DependentsOn(p)' /\ CountOn(p)'
    BY <1>1, <1>4, <2>1 DEF OnPath, DependentsOn, CountOn, trackVars, pipeVars
  <2> QED
    BY <2>3, <2>4, <2>5, <2>6 DEF OnPath
<1> QED
  BY <1>1, <1>5, <1>6, <1>7, <1>8, <1>9 DEF IInv, Anyway, CrashesOnlyOnRaces

LEMMA TakeDependentStep ==
  ASSUME TypeInv, IInv, TakeDependent PROVE IInv'
<1> DEFINE h == Head(toHandle)
<1>1. /\ pc["callback"] = "idle" /\ toHandle # <<>> /\ Completing
      /\ incoming' = [incoming EXCEPT !["callback"] = h]
      /\ toHandle' = Tail(toHandle)
      /\ pc' = [pc EXCEPT !["callback"] = "check"]
      /\ UNCHANGED <<changesBuff, trackVars, pipeVars, running, found, crashed, raced>>
  BY DEF TakeDependent, At, Goto
<1>2. /\ h \in Change
      /\ SetOf(toHandle) = SetOf(toHandle') \cup {h}
      /\ \A p : SortedOn(toHandle, p) =>
           /\ SortedOn(toHandle', p)
           /\ PathOf[h] = p => \A x \in SetOf(toHandle') : PathOf[x] = p => Earlier(h, x)
  BY <1>1, TailQueue DEF TypeInv, TypeOK
<1>3. /\ incoming'["callback"] = h /\ incoming'["changes"] = incoming["changes"]
      /\ pc'["callback"] = "check" /\ pc'["changes"] = pc["changes"]
      /\ incoming["callback"] = None /\ found["callback"] = None
  BY <1>1 DEF TypeInv, TypeOK, Thread
<1>4. /\ Hand("callback")' = {h} /\ Hand("changes")' = Hand("changes")
      /\ Started' = Started /\ Waiting' = Waiting /\ ToHandle' = ToHandle
      /\ Entries' = Entries
      /\ Completing' = Completing /\ Busy' = Busy
  BY <1>1, <1>2, <1>3, TrackerAssumption
  DEF Hand, Started, Waiting, ToHandle, Entries, Completing, Busy, trackVars, pipeVars
<1>5. QueueOrder'
  BY <1>1, <1>4 DEF IInv, Anyway, QueueOrder
<1>6. OwnPath'
  BY <1>1, <1>3, <1>4 DEF IInv, Anyway, OwnPath, trackVars, Thread
<1>7. OnePlace' /\ Met'
  BY <1>1, <1>3, <1>4 DEF IInv, Anyway, OnePlace, Met, trackVars, pipeVars, Handles
<1>8. ASSUME NEW p \in Path, p \notin raced' PROVE OnPath(p)'
  <2>1. OnPath(p)
    BY <1>1, <1>8 DEF IInv
  <2>2. OrderOn(p)'
    BY <1>1, <1>2, <1>4, <2>1 DEF OnPath, OrderOn, trackVars, pipeVars
  <2>3. ClaimsOn(p)'
    BY <1>1, <1>3, <2>1 DEF OnPath, ClaimsOn, Thread, trackVars
  <2>4. EntryOn(p)'
    BY <1>1, <1>3, <1>4, <2>1 DEF OnPath, EntryOn, Thread, trackVars
  <2>5. DependentsOn(p)' /\ CountOn(p)'
    BY <1>1, <1>4, <2>1 DEF OnPath, DependentsOn, CountOn, trackVars, pipeVars
  <2> QED
    BY <2>2, <2>3, <2>4, <2>5 DEF OnPath
<1> QED
  BY <1>1, <1>5, <1>6, <1>7, <1>8 DEF IInv, Anyway, CrashesOnlyOnRaces

-----------------------------------------------------------------------------
(* handleChange, step by step. *)
LEMMA CheckStep ==
  ASSUME TypeInv, IInv, NEW t \in Thread, Check(t) PROVE IInv'
<1>1. /\ pc[t] = "check"
      /\ pc' = [pc EXCEPT ![t] =
                  IF incoming[t] \notin Directory /\ PathTaken(incoming[t]) THEN "lookup"
                  ELSE IF ~(Needs[incoming[t]] \subseteq created) THEN "createPath"
                  ELSE IF incoming[t] \in Directory THEN "dispatch"
                  ELSE "start"]
      /\ UNCHANGED <<changesBuff, trackVars, pipeVars, running, toHandle, incoming, found,
                     crashed, raced>>
  BY DEF Check, At, Goto
<1>2. /\ pc'[t] \in {"lookup", "createPath", "dispatch", "start"}
      /\ pc'[t] = "lookup" => PathTaken(incoming[t])
      /\ pc'[t] \in {"createPath", "start"} /\ incoming[t] \notin Directory
           => ~PathTaken(incoming[t])
      /\ pc'[t] = "dispatch" => incoming[t] \in Directory
      /\ \A u \in Thread : u # t => pc'[u] = pc[u]
  BY <1>1 DEF TypeInv, TypeOK
<1>3. /\ \A u \in Thread : Hand(u)' = Hand(u)
      /\ Started' = Started /\ Waiting' = Waiting /\ ToHandle' = ToHandle
      /\ Entries' = Entries
      /\ Completing' = Completing /\ Busy' = Busy
  BY <1>1, Unmoved DEF Completing, Busy, trackVars, pipeVars
<1>4. Anyway'
  BY <1>1, <1>3
  DEF IInv, Anyway, QueueOrder, OwnPath, OnePlace, Met, trackVars, pipeVars, Thread, Handles
<1>5. ASSUME NEW p \in Path, p \notin raced' PROVE OnPath(p)'
  <2>1. OnPath(p)
    BY <1>1, <1>5 DEF IInv
  <2>2. OrderOn(p)'
    BY <1>1, <1>3, <2>1 DEF OnPath, OrderOn, trackVars, pipeVars, Thread
  <2>3. ClaimsOn(p)'
    BY <1>1, <1>2, <2>1 DEF OnPath, ClaimsOn, PathTaken, Handles, trackVars
  <2>4. EntryOn(p)'
    BY <1>1, <1>2, <1>3, <2>1 DEF OnPath, EntryOn, trackVars
  <2>5. DependentsOn(p)' /\ CountOn(p)'
    BY <1>1, <1>3, <2>1 DEF OnPath, DependentsOn, CountOn, trackVars, pipeVars
  <2> QED
    BY <2>2, <2>3, <2>4, <2>5 DEF OnPath
<1> QED
  BY <1>1, <1>4, <1>5 DEF IInv, CrashesOnlyOnRaces

LEMMA CreatePathStep ==
  ASSUME TypeInv, IInv, NEW t \in Thread, CreatePath(t) PROVE IInv'
<1>1. /\ pc[t] = "createPath"
      /\ pc' = [pc EXCEPT ![t] = IF incoming[t] \in Directory THEN "dispatch" ELSE "start"]
      /\ UNCHANGED <<changesBuff, currentChanges, dependents, pendingCmds, completed,
                     pipeVars, running, toHandle, incoming, found, crashed, raced>>
  BY DEF CreatePath, At, Goto
<1>2. /\ pc'[t] \in {"dispatch", "start"}
      /\ pc'[t] = "dispatch" <=> incoming[t] \in Directory
      /\ \A u \in Thread : u # t => pc'[u] = pc[u]
  BY <1>1 DEF TypeInv, TypeOK
<1>3. /\ \A u \in Thread : Hand(u)' = Hand(u)
      /\ Started' = Started /\ Waiting' = Waiting /\ ToHandle' = ToHandle
      /\ Entries' = Entries
      /\ Completing' = Completing /\ Busy' = Busy
  BY <1>1, Unmoved DEF Completing, Busy, pipeVars
<1>4. Anyway'
  BY <1>1, <1>3
  DEF IInv, Anyway, QueueOrder, OwnPath, OnePlace, Met, pipeVars, Thread, Handles
<1>5. ASSUME NEW p \in Path, p \notin raced' PROVE OnPath(p)'
  <2>1. OnPath(p)
    BY <1>1, <1>5 DEF IInv
  <2>2. OrderOn(p)'
    BY <1>1, <1>3, <2>1 DEF OnPath, OrderOn, pipeVars, Thread
  <2>3. ClaimsOn(p)'
    BY <1>1, <1>2, <2>1 DEF OnPath, ClaimsOn, Handles
  <2>4. EntryOn(p)'
    BY <1>1, <1>2, <1>3, <2>1 DEF OnPath, EntryOn
  <2>5. DependentsOn(p)' /\ CountOn(p)'
    BY <1>1, <1>3, <2>1 DEF OnPath, DependentsOn, CountOn, pipeVars
  <2> QED
    BY <2>2, <2>3, <2>4, <2>5 DEF OnPath
<1> QED
  BY <1>1, <1>4, <1>5 DEF IInv, CrashesOnlyOnRaces

LEMMA DirectoryDoneStep ==
  ASSUME TypeInv, IInv, NEW t \in Thread, DirectoryDone(t) PROVE IInv'
<1>1. /\ pc[t] = "dispatch" /\ incoming[t] \in Directory
      /\ completed' = completed \cup {incoming[t]}
      /\ pc' = [pc EXCEPT ![t] = "idle"] /\ incoming' = [incoming EXCEPT ![t] = None]
      /\ UNCHANGED <<changesBuff, currentChanges, dependents, pendingCmds, created,
                     pipeVars, running, toHandle, found, crashed, raced>>
  BY DEF DirectoryDone, At, Return
<1>2. /\ pc'[t] = "idle" /\ incoming'[t] = None /\ found[t] = None
      /\ \A u \in Thread : u # t => pc'[u] = pc[u] /\ incoming'[u] = incoming[u]
  BY <1>1 DEF TypeInv, TypeOK
<1>3. /\ Hand(t)' = {} /\ \A u \in Thread : u # t => Hand(u)' = Hand(u)
      /\ Started' = Started /\ Waiting' = Waiting /\ ToHandle' \subseteq ToHandle
      /\ Entries' = Entries
      /\ Started' \ completed' = Started \ completed
  BY <1>1, <1>2
  DEF Hand, Started, Waiting, ToHandle, Entries, pipeVars, TypeInv, NoDirectoryStarts, Thread
<1>4. Busy' = Busy /\ Completing' = Completing
  <2>1. Busy => running \notin Directory
    BY DEF IInv, Anyway, OnePlace, TypeInv, NoDirectoryStarts
  <2> QED
    BY <1>1, <2>1 DEF Busy, Completing
<1>5. QueueOrder'
  BY <1>1, <1>3 DEF IInv, Anyway, QueueOrder, Thread
<1>6. OwnPath'
  BY <1>1, <1>2, <1>3, <1>4 DEF IInv, Anyway, OwnPath
<1>7. OnePlace' /\ Met'
  BY <1>1, <1>2, <1>3, <1>4, TrackerAssumption
  DEF IInv, Anyway, OnePlace, Met, pipeVars, Handles, Thread
<1>8. ASSUME NEW p \in Path, p \notin raced' PROVE OnPath(p)'
  <2>1. OnPath(p)
    BY <1>1, <1>8 DEF IInv
  <2>2. OrderOn(p)'
    BY <1>1, <1>3, <2>1 DEF OnPath, OrderOn, pipeVars, Thread
  <2>3. ClaimsOn(p)'
    BY <1>1, <1>2, <2>1 DEF OnPath, ClaimsOn, Handles
  <2>4. EntryOn(p)'
    <3>1. currentChanges[p] # incoming[t]
      BY <1>1 DEF TypeInv, NoDirectoryStarts
    <3> QED
      BY <1>1, <1>2, <1>3, <2>1, <3>1 DEF OnPath, EntryOn
  <2>5. DependentsOn(p)' /\ CountOn(p)'
    BY <1>1, <1>3, <2>1 DEF OnPath, DependentsOn, CountOn, pipeVars
  <2> QED
    BY <2>2, <2>3, <2>4, <2>5 DEF OnPath
<1> QED
  BY <1>1, <1>5, <1>6, <1>7, <1>8 DEF IInv, Anyway, CrashesOnlyOnRaces

LEMMA StartStep ==
  ASSUME TypeInv, IInv, NEW t \in Thread, Start(t) PROVE IInv'
<1> DEFINE c == incoming[t]
<1>1. /\ pc[t] = "start"
      /\ currentChanges' = [currentChanges EXCEPT ![PathOf[c]] = c]
      /\ pc' = [pc EXCEPT ![t] = "dispatch"]
      /\ UNCHANGED <<changesBuff, dependents, pendingCmds, created, completed,
                     pipeVars, running, toHandle, incoming, found, crashed, raced>>
  BY DEF Start, At, Goto
<1>2. /\ c \in Change \ Directory /\ PathOf[c] \in Path /\ c # None
      /\ currentChanges'[PathOf[c]] = c
      /\ \A p \in Path : p # PathOf[c] => currentChanges'[p] = currentChanges[p]
      /\ pc'[t] = "dispatch"
      /\ \A u \in Thread : u # t => pc'[u] = pc[u]
  BY <1>1, TrackerAssumption DEF TypeInv, TypeOK, NoDirectoryStarts
<1>3. /\ \A u \in Thread : Hand(u)' = Hand(u)
      /\ Started' = Started /\ Waiting' = Waiting /\ ToHandle' = ToHandle
      /\ Completing' = Completing /\ Busy' = Busy
  BY <1>1 DEF Hand, Started, Waiting, ToHandle, Completing, Busy, pipeVars
<1>4. QueueOrder'
  <2>1. Entries' \subseteq Entries \cup {c}
    BY <1>2 DEF Entries
  <2>2. c \in Hand("changes") \cup ToHandle
    BY <1>2 DEF Hand, ToHandle, Thread
  <2>3. changesBuff' = changesBuff
    BY <1>1
  <2>4. Hand("changes")' = Hand("changes")
    BY <1>3 DEF Thread
  <2> HIDE DEF c
  <2> QED
    BY <1>3, <2>1, <2>2, <2>3, <2>4 DEF IInv, Anyway, QueueOrder
<1>5. OwnPath'
  BY <1>1, <1>2, <1>3 DEF IInv, Anyway, OwnPath
<1>6. OnePlace' /\ Met'
  BY <1>1, <1>3 DEF IInv, Anyway, OnePlace, Met, pipeVars, Handles
<1>7. ASSUME NEW p \in Path, p \notin raced' PROVE OnPath(p)'
  <2>1. OnPath(p) /\ p \notin raced
    BY <1>1, <1>7 DEF IInv
  <2>2. OrderOn(p)'
    BY <1>1, <1>3, <2>1 DEF OnPath, OrderOn, pipeVars, Thread
  <2>3. DependentsOn(p)' /\ CountOn(p)'
    BY <1>1, <1>3, <2>1 DEF OnPath, DependentsOn, CountOn, pipeVars
  <2>4. CASE p = PathOf[c]
    <3>1. Handles(c, p) /\ currentChanges[p] = None
      BY <1>1, <1>2, <2>1, <2>4 DEF Handles, OnPath, ClaimsOn
    <3>2. \A u \in Thread : u # t => ~Handles(incoming[u], p)
      BY <2>1, <3>1, Alone DEF IInv
    <3>3. ClaimsOn(p)'
      BY <1>1, <1>2, <2>4, <3>2 DEF ClaimsOn, Handles
    <3>4. EntryOn(p)'
      <4>1. None \notin Started
        BY TrackerAssumption DEF TypeInv, TypeOK, Started, SetOf
      <4> QED
        BY <1>1, <1>2, <1>3, <2>1, <2>4, <3>1, <4>1 DEF OnPath, EntryOn
    <3> QED
      BY <2>2, <2>3, <3>3, <3>4 DEF OnPath
  <2>5. CASE p # PathOf[c]
    <3>1. ClaimsOn(p)'
      BY <1>1, <1>2, <2>1, <2>5 DEF OnPath, ClaimsOn, Handles
    <3>2. EntryOn(p)'
      BY <1>1, <1>2, <1>3, <2>1, <2>5 DEF OnPath, EntryOn
    <3> QED
      BY <2>2, <2>3, <3>1, <3>2 DEF OnPath
  <2> QED
    BY <2>4, <2>5
<1> QED
  BY <1>1, <1>4, <1>5, <1>6, <1>7 DEF IInv, Anyway, CrashesOnlyOnRaces

(* Steps that only move commands, or end the process. *)
LEMMA PipelineStep ==
  ASSUME IInv, OnePlace', Completing' <=> Completing,
         UNCHANGED <<changesBuff, currentChanges, dependents, completed, dispatched,
                     toHandle, threadVars, raced>>,
         Completing' => running' = running,
         \A p \in Path \ raced : CountOn(p)',
         CrashesOnlyOnRaces'
  PROVE  IInv'
<1>1. /\ \A u \in Thread : Hand(u)' = Hand(u)
      /\ Started' = Started /\ Waiting' = Waiting /\ ToHandle' = ToHandle
      /\ Entries' = Entries
  BY Unmoved DEF threadVars
<1>2. QueueOrder' /\ OwnPath' /\ Met'
  BY <1>1 DEF IInv, Anyway, QueueOrder, OwnPath, Met, Thread, threadVars, Handles
<1>3. ASSUME NEW p \in Path, p \notin raced' PROVE OnPath(p)'
  <2>1. OnPath(p) /\ CountOn(p)'
    BY <1>3 DEF IInv
  <2> QED
    BY <2>1, UnmovedOn DEF OnPath
<1> QED
  BY <1>2, <1>3 DEF IInv, Anyway

LEMMA CrashStep ==
  ASSUME IInv, raced # {},
         UNCHANGED <<changesBuff, trackVars, pipeVars, running, toHandle, threadVars, raced>>
  PROVE  IInv'
<1>1. OnePlace' /\ (Completing' <=> Completing)
  BY DEF IInv, Anyway, OnePlace, Completing, Busy, Started, trackVars, pipeVars
<1>2. \A p \in Path \ raced : CountOn(p)'
  BY DEF IInv, OnPath, CountOn, Started, trackVars, pipeVars
<1> QED
  BY <1>1, <1>2, PipelineStep DEF CrashesOnlyOnRaces, trackVars, pipeVars

LEMMA LookupStep ==
  ASSUME TypeInv, IInv, NEW t \in Thread, Lookup(t) PROVE IInv'
<1> DEFINE c == currentChanges[PathOf[incoming[t]]]
<1>1. /\ pc[t] = "lookup" /\ incoming[t] \in Change \ Directory
      /\ PathOf[incoming[t]] \in Path /\ incoming[t] # None
  BY TrackerAssumption DEF Lookup, At, TypeInv, TypeOK, NoDirectoryStarts
<1>2. CASE c = None
  <2>1. PathOf[incoming[t]] \in raced
    BY <1>1, <1>2 DEF IInv, OnPath, ClaimsOn, Handles
  <2>2. UNCHANGED <<changesBuff, trackVars, pipeVars, running, toHandle, incoming, raced,
                    pc, found>>
    BY <1>2 DEF Lookup
  <2> QED
    BY <2>1, <2>2, CrashStep DEF threadVars
<1>3. CASE c # None
  <2>1. /\ found' = [found EXCEPT ![t] = c]
        /\ pc' = [pc EXCEPT ![t] = "append"]
        /\ UNCHANGED <<changesBuff, trackVars, pipeVars, running, toHandle, incoming, crashed,
                       raced>>
    BY <1>3 DEF Lookup, Goto
  <2>2. /\ pc'[t] = "append" /\ found'[t] = c /\ PathOf[c] = PathOf[incoming[t]]
        /\ \A u \in Thread : u # t => pc'[u] = pc[u] /\ found'[u] = found[u]
    BY <1>1, <1>3, <2>1 DEF TypeInv, TypeOK, IInv, Anyway, OwnPath
  <2>3. /\ \A u \in Thread : Hand(u)' = Hand(u)
        /\ Started' = Started /\ Waiting' = Waiting /\ ToHandle' = ToHandle
        /\ Entries' = Entries
        /\ Completing' = Completing /\ Busy' = Busy
    BY <2>1, Unmoved DEF Completing, Busy, trackVars, pipeVars
  <2>4. OwnPath'
    BY <2>1, <2>2, <2>3 DEF IInv, Anyway, OwnPath, trackVars
  <2>5. QueueOrder' /\ OnePlace' /\ Met'
    BY <2>1, <2>3
    DEF IInv, Anyway, QueueOrder, OnePlace, Met, trackVars, pipeVars, Thread, Handles
  <2>6. ASSUME NEW p \in Path, p \notin raced' PROVE OnPath(p)'
    <3>1. OnPath(p)
      BY <2>1, <2>6 DEF IInv
    <3>2. OrderOn(p)'
      BY <2>1, <2>3, <3>1 DEF OnPath, OrderOn, trackVars, pipeVars, Thread
    <3>3. ClaimsOn(p)'
      BY <1>1, <2>1, <2>2, <3>1 DEF OnPath, ClaimsOn, trackVars, Handles
    <3>4. EntryOn(p)'
      BY <1>1, <2>1, <2>2, <2>3, <3>1 DEF OnPath, EntryOn, trackVars
    <3>5. DependentsOn(p)' /\ CountOn(p)'
      BY <2>1, <2>3, <3>1 DEF OnPath, DependentsOn, CountOn, trackVars, pipeVars
    <3> QED
      BY <3>2, <3>3, <3>4, <3>5 DEF OnPath
  <2> QED
    BY <2>1, <2>4, <2>5, <2>6 DEF IInv, Anyway, CrashesOnlyOnRaces
<1> QED
  BY <1>2, <1>3

(* A change becomes a dependent. *)
LEMMA AddDependentStep ==
  ASSUME TypeInv, IInv, NEW t \in Thread, AddDependent(t) PROVE IInv'
<1> DEFINE c == found[t]
           d == incoming[t]
<1>1. /\ pc[t] = "append" /\ d \in Change \ Directory /\ c \in Change /\ c # None /\ d # None
      /\ PathOf[c] = PathOf[d] /\ PathOf[d] \in Path
  BY TrackerAssumption
  DEF AddDependent, At, TypeInv, TypeOK, NoDirectoryStarts, IInv, Anyway, OwnPath
<1>2. /\ dependents' = [dependents EXCEPT ![c] = Append(@, d)]
      /\ found' = [found EXCEPT ![t] = None]
      /\ pc' = [pc EXCEPT ![t] = "idle"] /\ incoming' = [incoming EXCEPT ![t] = None]
      /\ UNCHANGED <<changesBuff, currentChanges, pendingCmds, created, completed,
                     pipeVars, running, toHandle, crashed, raced>>
  BY DEF AddDependent, Return
<1>3. /\ pc'[t] = "idle" /\ Hand(t)' = {} /\ Hand(t) = {d}
      /\ found'[t] = None /\ incoming'[t] = None
      /\ \A u \in Thread : u # t => /\ pc'[u] = pc[u] /\ found'[u] = found[u]
                                    /\ incoming'[u] = incoming[u] /\ Hand(u)' = Hand(u)
  BY <1>1, <1>2, TrackerAssumption DEF TypeInv, TypeOK, Hand
<1>4. /\ dependents'[c] = Append(dependents[c], d) /\ dependents[c] \in Seq(Change)
      /\ \A x \in Change : x # c => dependents'[x] = dependents[x]
  BY <1>1, <1>2 DEF TypeInv, TypeOK
<1>5. SetOf(dependents'[c]) = SetOf(dependents[c]) \cup {d}
  BY <1>1, <1>4, AppendQueue
<1>6. Waiting' = Waiting \cup {d}
  <2>1. ASSUME NEW x \in Waiting' PROVE x \in Waiting \cup {d}
    <3>1. PICK y \in Change : x \in SetOf(dependents'[y])
      BY DEF Waiting
    <3>2. x \in SetOf(dependents[y]) \/ x = d
      BY <1>4, <1>5, <3>1
    <3> QED
      BY <3>2 DEF Waiting
  <2>2. ASSUME NEW x \in Waiting PROVE x \in Waiting'
    <3>1. PICK y \in Change : x \in SetOf(dependents[y])
      BY DEF Waiting
    <3>2. x \in SetOf(dependents'[y])
      BY <1>4, <1>5, <3>1
    <3> QED
      BY <3>2 DEF Waiting
  <2>3. d \in Waiting'
    BY <1>1, <1>5 DEF Waiting
  <2> QED
    BY <2>1, <2>2, <2>3
<1>7. /\ Started' = Started /\ ToHandle' \subseteq ToHandle /\ Entries' = Entries
      /\ Hand("changes")' \subseteq Hand("changes")
      /\ Hand("callback")' \subseteq Hand("callback")
      /\ Completing' = Completing /\ Busy' = Busy
  BY <1>2, <1>3 DEF Started, ToHandle, Entries, Completing, Busy, pipeVars, Thread
<1>8. d \in Hand("changes") \cup ToHandle
  BY <1>3 DEF ToHandle, Thread
<1>9. QueueOrder'
  BY <1>2, <1>6, <1>7, <1>8 DEF IInv, Anyway, QueueOrder
<1>10. OwnPath'
  <2>1. \A x \in Change : \A y \in SetOf(dependents'[x]) : PathOf[y] = PathOf[x]
    BY <1>1, <1>4, <1>5 DEF IInv, Anyway, OwnPath
  <2> QED
    BY <1>2, <1>3, <1>7, <2>1 DEF IInv, Anyway, OwnPath
<1>11. OnePlace'
  BY <1>2, <1>7 DEF IInv, Anyway, OnePlace, pipeVars
<1>12. Met'
  BY <1>2, <1>3, <1>7 DEF IInv, Anyway, Met, Handles, Thread
<1>13. ASSUME NEW p \in Path, p \notin raced' PROVE OnPath(p)'
  <2>1. OnPath(p) /\ p \notin raced
    BY <1>2, <1>13 DEF IInv
  <2>2. ASSUME PathOf[d] = p
        PROVE  /\ \A x \in Started \cup Waiting : PathOf[x] = p => Earlier(x, d)
               /\ \A x \in ToHandle' : PathOf[x] = p => Earlier(d, x)
               /\ \A x \in Hand("changes")' : PathOf[x] = p => Earlier(d, x)
               /\ c \in Started \ completed
    <3>1. Handles(d, p)
      BY <1>1, <2>2 DEF Handles
    <3>2. /\ \A u \in Thread : u # t => ~Handles(incoming[u], p)
          /\ t = "changes" => \A x \in ToHandle : PathOf[x] # p
      BY <2>1, <3>1, Alone DEF IInv
    <3>3. c \in Started \ completed
      <4>1. currentChanges[p] = c
        BY <1>1, <2>1, <3>1 DEF OnPath, ClaimsOn
      <4>2. ASSUME NEW u \in Thread, pc[u] = "dispatch", incoming[u] = c PROVE FALSE
        <5>1. Handles(incoming[u], p)
          BY <1>1, <2>2, <4>1, <4>2 DEF Handles, TypeInv, NoDirectoryStarts
        <5> QED
          BY <1>1, <3>2, <4>2, <5>1
      <4> QED
        BY <1>1, <2>1, <4>1, <4>2 DEF OnPath, EntryOn
    <3>4. CASE t = "changes"
      <4>1. Hand("changes")' = {} /\ d \in Hand("changes")
        BY <1>3, <3>4
      <4> QED
        BY <1>7, <2>1, <2>2, <3>2, <3>3, <3>4, <4>1 DEF OnPath, OrderOn
    <3>5. CASE t = "callback"
      <4>1. d \in ToHandle /\ d \in Hand("callback") /\ ToHandle' = SetOf(toHandle)
        BY <1>2, <1>3, <3>5 DEF ToHandle
      <4> QED
        BY <1>7, <2>1, <2>2, <3>3, <4>1 DEF OnPath, OrderOn
    <3> QED
      BY <3>4, <3>5 DEF Thread
  <2>3. SortedOn(dependents'[c], p)
    <3>1. \A x \in SetOf(dependents[c]) : x \in Waiting
      BY <1>1 DEF Waiting
    <3>2. SortedOn(dependents[c], p)
      BY <1>1, <2>1 DEF OnPath, OrderOn
    <3> QED
      BY <1>1, <1>4, <2>2, <3>1, <3>2, AppendQueue
  <2> HIDE DEF c, d
  <2>4. OrderOn(p)'
    BY <1>1, <1>2, <1>4, <1>6, <1>7, <2>1, <2>2, <2>3 DEF OnPath, OrderOn, pipeVars
  <2>5. ClaimsOn(p)'
    BY <1>2, <1>3, <2>1 DEF OnPath, ClaimsOn, Handles
  <2>6. EntryOn(p)'
    BY <1>1, <1>2, <1>3, <1>7, <2>1 DEF OnPath, EntryOn
  <2>7. DependentsOn(p)'
    BY <1>1, <1>2, <1>4, <1>7, <2>1, <2>2 DEF OnPath, DependentsOn
  <2>8. CountOn(p)'
    BY <1>2, <1>7, <2>1 DEF OnPath, CountOn, pipeVars
  <2> QED
    BY <2>4, <2>5, <2>6, <2>7, <2>8 DEF OnPath
<1> QED
  BY <1>2, <1>9, <1>10, <1>11, <1>12, <1>13 DEF IInv, Anyway, CrashesOnlyOnRaces

(* What a change's first or next command does to the pipeline. *)
LEMMA SubmitPlaces ==
  ASSUME TypeInv, NEW c \in Change, NEW i \in Nat, Submit(c, i), NoRepeat(callbacks),
         c \notin transfers \cup SetOf(callbacks),
         transfers \cap SetOf(callbacks) = {}
  PROVE  /\ NoRepeat(callbacks')
         /\ transfers' \cap SetOf(callbacks') = {}
         /\ transfers' \cup SetOf(callbacks') = transfers \cup SetOf(callbacks) \cup {c}
         /\ position'[c] = i /\ \A d \in Change : d # c => position'[d] = position[d]
<1>1. callbacks \in Seq(Change)
  BY DEF TypeInv, TypeOK
<1>2. /\ SetOf(Append(callbacks, c)) = SetOf(callbacks) \cup {c}
      /\ NoRepeat(Append(callbacks, c))
  BY <1>1, AppendQueue
<1> QED
  BY <1>2 DEF Submit, TypeInv, TypeOK

(* On a path without a meeting, what is started has not been started before,  *)
(* is later than what has been, and earlier than what waits.                *)
LEMMA DispatchFacts ==
  ASSUME TypeInv, IInv, NEW p \in Path, p \notin raced, NEW t \in Thread,
         pc[t] = "dispatch", Handles(incoming[t], p)
  PROVE  /\ currentChanges[p] = incoming[t]
         /\ incoming[t] \in Change /\ incoming[t] \notin Started
         /\ \A c \in Started : PathOf[c] = p => Earlier(c, incoming[t])
         /\ \A c \in Waiting : PathOf[c] # p
<1>1. incoming[t] \in Change /\ PathOf[incoming[t]] = p /\ Hand(t) = {incoming[t]}
  BY DEF TypeInv, TypeOK, Hand, Handles
<1>2. OnPath(p) /\ currentChanges[p] = incoming[t]
  BY DEF IInv, OnPath, ClaimsOn
<1>3. \A c \in Started : PathOf[c] = p => Earlier(c, incoming[t])
  <2>1. CASE t = "changes"
    BY <1>1, <1>2, <2>1 DEF OnPath, OrderOn
  <2>2. CASE t = "callback"
    BY <1>1, <1>2, <2>2 DEF OnPath, OrderOn, ToHandle
  <2> QED
    BY <2>1, <2>2 DEF Thread
<1>4. incoming[t] \notin Started
  BY <1>1, <1>3, NotEarlierThanItself
<1>5. ASSUME NEW c \in Waiting, PathOf[c] = p PROVE FALSE
  <2>1. PICK d \in Change : c \in SetOf(dependents[d])
    BY DEF Waiting
  <2>2. PathOf[d] = p
    BY <1>5, <2>1 DEF IInv, Anyway, OwnPath
  <2>3. d \in Started \ completed
    BY <1>2, <2>1, <2>2 DEF OnPath, DependentsOn
  <2> QED
    BY <1>2, <1>4, <2>2, <2>3 DEF OnPath, EntryOn
<1> QED
  BY <1>1, <1>2, <1>3, <1>4, <1>5

LEMMA DispatchStep ==
  ASSUME TypeInv, IInv, NEW t \in Thread, Dispatch(t) PROVE IInv'
<1> DEFINE q == PathOf[incoming[t]]
           c == currentChanges[q]
<1>1. /\ pc[t] = "dispatch" /\ incoming[t] \in Change \ Directory /\ incoming[t] # None
      /\ q \in Path /\ Handles(incoming[t], q)
  BY TrackerAssumption DEF Dispatch, At, TypeInv, TypeOK, Handles
<1>2. q \notin raced => c = incoming[t] /\ c # None /\ c \notin Started
  BY <1>1, DispatchFacts
<1>3. CASE c = None \/ c \in Started
  <2>1. UNCHANGED <<changesBuff, trackVars, pipeVars, running, toHandle, pc, incoming, found,
                    raced>>
    BY <1>3 DEF Dispatch, Started
  <2> QED
    BY <1>2, <1>3, <2>1, CrashStep DEF threadVars
<1>4. CASE c # None /\ c \notin Started
  <2>1. /\ c \in Change \ Directory /\ PathOf[c] = q
        /\ c \notin completed /\ c \notin transfers \cup SetOf(callbacks)
    BY <1>1, <1>4
    DEF TypeInv, TypeOK, NoDirectoryStarts, IInv, Anyway, OwnPath, OnePlace
  <2>2. /\ Submit(c, 1) /\ dispatched' = Append(dispatched, c)
        /\ pc' = [pc EXCEPT ![t] = "idle"] /\ incoming' = [incoming EXCEPT ![t] = None]
        /\ UNCHANGED <<failed, crashed, changesBuff, trackVars, running, toHandle, found,
                       raced>>
    BY <1>4 DEF Dispatch, Started, Return
  <2>3. /\ pc'[t] = "idle" /\ Hand(t)' = {} /\ Hand(t) = {incoming[t]}
        /\ incoming'[t] = None /\ found[t] = None
        /\ \A u \in Thread : u # t => /\ pc'[u] = pc[u] /\ incoming'[u] = incoming[u]
                                      /\ Hand(u)' = Hand(u)
    BY <1>1, <2>2, TrackerAssumption DEF TypeInv, TypeOK, Hand
  <2>4. dispatched \in Seq(Change)
    BY DEF TypeInv, TypeOK
  <2>5. Started' = Started \cup {c}
    BY <2>1, <2>2, <2>4, AppendQueue DEF Started
  <2>6. /\ Waiting' = Waiting /\ ToHandle' \subseteq ToHandle /\ Entries' = Entries
        /\ Hand("changes")' \subseteq Hand("changes")
        /\ Hand("callback")' \subseteq Hand("callback")
        /\ Busy' = Busy /\ Completing' = Completing /\ completed' = completed
    BY <2>2, <2>3 DEF Waiting, ToHandle, Entries, Busy, Completing, trackVars, Thread
  <2>7. QueueOrder'
    <3>1. c \in Entries
      BY <1>1, <1>4 DEF Entries
    <3> QED
      BY <2>2, <2>5, <2>6, <3>1 DEF IInv, Anyway, QueueOrder
  <2>8. OwnPath'
    BY <2>2, <2>3, <2>6 DEF IInv, Anyway, OwnPath, trackVars
  <2>9. /\ NoRepeat(callbacks')
        /\ transfers' \cap SetOf(callbacks') = {}
        /\ transfers' \cup SetOf(callbacks') = transfers \cup SetOf(callbacks) \cup {c}
        /\ position'[c] = 1 /\ \A d \in Change : d # c => position'[d] = position[d]
    BY <2>1, <2>2, SubmitPlaces DEF IInv, Anyway, OnePlace
  <2>10. OnePlace'
    <3>1. running' = running /\ running # c
      <4>1. running = None \/ running \in Started
        BY DEF IInv, Anyway, OnePlace, Busy
      <4> QED
        BY <1>4, <2>2, <4>1
    <3>2. pendingCmds' = pendingCmds
      BY <2>2 DEF trackVars
    <3> HIDE DEF c
    <3> QED
      BY <2>1, <2>5, <2>6, <2>9, <3>1, <3>2 DEF IInv, Anyway, OnePlace
  <2>11. Met'
    BY <2>2, <2>3, <2>6 DEF IInv, Anyway, Met, Handles, Thread
  <2>12. ASSUME NEW p \in Path, p \notin raced' PROVE OnPath(p)'
    <3>1. OnPath(p) /\ p \notin raced
      BY <2>2, <2>12 DEF IInv
    <3>2. ASSUME q = p
          PROVE  /\ \A x \in Started : PathOf[x] = p => Earlier(x, c)
                 /\ \A x \in Waiting \cup ToHandle' : PathOf[x] = p => Earlier(c, x)
                 /\ \A x \in Hand("changes")' : PathOf[x] = p => Earlier(c, x)
                 /\ c = incoming[t]
                 /\ pendingCmds[c] = Len(Chain[c]) /\ Len(Chain[c]) \in Nat /\ Len(Chain[c]) > 0
      <4>1. /\ c = incoming[t]
            /\ \A x \in Started : PathOf[x] = p => Earlier(x, c)
            /\ \A x \in Waiting : PathOf[x] # p
        BY <1>1, <3>1, <3>2, DispatchFacts
      <4>2. pendingCmds[c] = Len(Chain[c]) /\ Len(Chain[c]) \in Nat /\ Len(Chain[c]) > 0
        BY <1>4, <2>1, ChainLen DEF IInv, Anyway, OnePlace
      <4>3. CASE t = "changes"
        <5>1. \A x \in ToHandle : PathOf[x] # p
          BY <1>1, <3>1, <3>2, <4>3, Alone DEF IInv
        <5>2. Hand("changes")' = {}
          BY <2>3, <4>3
        <5> QED
          BY <2>6, <4>1, <4>2, <5>1, <5>2
      <4>4. CASE t = "callback"
        <5>1. c \in ToHandle /\ c \in Hand("callback") /\ ToHandle' = SetOf(toHandle)
          BY <2>2, <2>3, <4>1, <4>4 DEF ToHandle
        <5>2. PathOf[c] = p
          BY <2>1, <3>2
        <5> HIDE DEF c, q
        <5> QED
          BY <2>6, <3>1, <4>1, <4>2, <5>1, <5>2 DEF OnPath, OrderOn
      <4> QED
        BY <4>3, <4>4 DEF Thread
    <3>3. SortedOn(dispatched', p)
      <4>1. SortedOn(dispatched, p)
        BY <3>1 DEF OnPath, OrderOn
      <4> HIDE DEF c, q
      <4> QED
        BY <2>1, <2>2, <2>4, <3>2, <4>1, AppendQueue DEF Started
    <3>4. Started \subseteq Change
      BY <2>4 DEF Started, SetOf
    <3> HIDE DEF c, q
    <3>5. OrderOn(p)'
      BY <2>1, <2>2, <2>5, <2>6, <3>1, <3>2, <3>3 DEF OnPath, OrderOn, trackVars
    <3>6. ClaimsOn(p)'
      BY <2>2, <2>3, <3>1 DEF OnPath, ClaimsOn, trackVars, Handles
    <3>7. EntryOn(p)'
      <4>1. PathOf[c] = p => currentChanges[p] = c
        BY <2>1 DEF c
      <4>2. currentChanges[p] = incoming[t] /\ currentChanges[p] # None => q = p
        BY DEF IInv, Anyway, OwnPath, q
      <4>3. currentChanges[p] # None =>
              \/ currentChanges[p] \in Started' \ completed
              \/ \E u \in Thread : pc'[u] = "dispatch" /\ incoming'[u] = currentChanges[p]
        BY <2>1, <2>3, <2>5, <3>1, <3>2, <4>2 DEF OnPath, EntryOn
      <4> QED
        BY <2>2, <2>5, <2>6, <3>1, <4>1, <4>3 DEF OnPath, EntryOn, trackVars
    <3>8. DependentsOn(p)'
      BY <2>1, <2>2, <2>5, <2>6, <3>1 DEF OnPath, DependentsOn, trackVars
    <3>9. CountOn(p)'
      BY <2>1, <2>2, <2>5, <2>6, <2>9, <3>1, <3>2, <3>4 DEF OnPath, CountOn, trackVars
    <3> QED
      BY <3>5, <3>6, <3>7, <3>8, <3>9 DEF OnPath
  <2> QED
    BY <2>2, <2>7, <2>8, <2>10, <2>11, <2>12 DEF IInv, Anyway, CrashesOnlyOnRaces
<1> QED
  BY <1>3, <1>4

-----------------------------------------------------------------------------
(* The network and the callback worker. *)
LEMMA NetworkIInv ==
  ASSUME TypeInv, IInv, NEW c \in Change, NetworkStep(c) PROVE IInv'
<1>1. callbacks \in Seq(Change)
  BY DEF TypeInv, TypeOK
<1>2. /\ c \in transfers /\ ~crashed
      /\ UNCHANGED <<changesBuff, trackVars, position, dispatched, running, toHandle,
                     threadVars, crashed, raced>>
      /\ transfers' = transfers \ {c}
      /\ callbacks' = callbacks \/ callbacks' = Append(callbacks, c)
  BY DEF NetworkStep, TransferOk, TransferFailed
<1>3. OnePlace'
  <2>1. c \notin SetOf(callbacks) /\ NoRepeat(callbacks)
    BY <1>2 DEF IInv, Anyway, OnePlace
  <2>2. NoRepeat(callbacks') /\ SetOf(callbacks') \subseteq SetOf(callbacks) \cup {c}
    <3>1. /\ SetOf(Append(callbacks, c)) = SetOf(callbacks) \cup {c}
          /\ NoRepeat(Append(callbacks, c))
      BY <1>1, <2>1, AppendQueue
    <3> QED
      BY <1>2, <2>1, <3>1
  <2> QED
    BY <1>2, <2>1, <2>2 DEF IInv, Anyway, OnePlace, Started, Busy, trackVars
<1>4. Completing' <=> Completing
  BY <1>2 DEF Completing, Busy, trackVars
<1>5. \A p \in Path \ raced : CountOn(p)'
  BY <1>2 DEF IInv, OnPath, CountOn, Started, trackVars
<1> QED
  BY <1>2, <1>3, <1>4, <1>5, PipelineStep DEF trackVars, CrashesOnlyOnRaces

LEMMA PopCallbackStep ==
  ASSUME TypeInv, IInv, PopCallback PROVE IInv'
<1>1. /\ ~Busy /\ callbacks # <<>> /\ callbacks \in Seq(Change) /\ ~crashed
      /\ running' = Head(callbacks) /\ callbacks' = Tail(callbacks)
      /\ UNCHANGED <<changesBuff, trackVars, position, transfers, dispatched, failed,
                     toHandle, threadVars, crashed, raced>>
  BY DEF PopCallback, TypeInv, TypeOK
<1>2. /\ SetOf(callbacks) = SetOf(callbacks') \cup {running'}
      /\ NoRepeat(callbacks') /\ running' \notin SetOf(callbacks') /\ running' \in Change
  BY <1>1, TailQueue DEF IInv, Anyway, OnePlace
<1>3. OnePlace'
  BY <1>1, <1>2 DEF IInv, Anyway, OnePlace, Started, trackVars
<1>4. ~Completing' /\ ~Completing
  BY <1>1, <1>2 DEF IInv, Anyway, OnePlace, Completing, Busy, trackVars
<1>5. \A p \in Path \ raced : CountOn(p)'
  BY <1>1 DEF IInv, OnPath, CountOn, Started, trackVars
<1> QED
  BY <1>1, <1>3, <1>4, <1>5, PipelineStep DEF trackVars, CrashesOnlyOnRaces

(* The owner of the command that runs is in the map, unless the threads have *)
(* met on its path.                                                        *)
LEMMA OwnerLives ==
  ASSUME TypeInv, IInv, Busy, ~Completing
  PROVE  /\ running \in Change /\ PathOf[running] \in Path /\ running \notin Directory
         /\ running \in Started \ completed
         /\ Len(Chain[running]) \in Nat
         /\ PathOf[running] \notin raced =>
              /\ OwnerAlive
              /\ position[running] \in 1..Len(Chain[running])
              /\ pendingCmds[running] = Len(Chain[running]) - position[running] + 1
<1>1. running \in Change /\ running \in Started \ completed
  BY DEF TypeInv, TypeOK, IInv, Anyway, OnePlace, Busy, Completing
<1>2. PathOf[running] \in Path /\ Len(Chain[running]) \in Nat
  BY <1>1, ChainLen, TrackerAssumption
<1>3. PathOf[running] \notin raced => OnPath(PathOf[running])
  BY <1>2 DEF IInv
<1> QED
  BY <1>1, <1>2, <1>3 DEF OnPath, EntryOn, CountOn, OwnerAlive, TypeInv, NoDirectoryStarts

LEMMA RunCallbackStep ==
  ASSUME TypeInv, IInv, RunCallback PROVE IInv'
<1> DEFINE c == running
           i == position[running]
<1>1. Busy /\ ~Completing /\ ~crashed
  BY DEF RunCallback
<1>2. /\ c \in Change /\ c \in Started \ completed /\ Len(Chain[c]) \in Nat /\ i \in Nat
      /\ PathOf[c] \notin raced =>
           /\ OwnerAlive /\ i \in 1..Len(Chain[c]) /\ pendingCmds[c] = Len(Chain[c]) - i + 1
  BY <1>1, OwnerLives DEF TypeInv, TypeOK
<1>3. /\ running' = None
      /\ UNCHANGED <<changesBuff, currentChanges, dependents, created, completed,
                     dispatched, failed, toHandle, threadVars, crashed, raced>>
      /\ \A d \in Change : d # c => pendingCmds'[d] = pendingCmds[d]
      /\ OwnerAlive => pendingCmds[c] > 1 /\ pendingCmds' = [pendingCmds EXCEPT ![c] = @ - 1]
  BY <1>2 DEF RunCallback, TypeInv, TypeOK
<1>4. c \notin transfers \cup SetOf(callbacks)
  BY DEF IInv, Anyway, OnePlace
<1>5. /\ NoRepeat(callbacks')
      /\ transfers' \cap SetOf(callbacks') = {}
      /\ transfers' \cup SetOf(callbacks') \subseteq transfers \cup SetOf(callbacks) \cup {c}
      /\ \A d \in Change : d # c => position'[d] = position[d]
      /\ i < Len(Chain[c]) =>
           /\ position'[c] = i + 1
           /\ transfers' \cup SetOf(callbacks') = transfers \cup SetOf(callbacks) \cup {c}
  <2>1. CASE i < Len(Chain[c])
    <3>1. Submit(c, i + 1) /\ i + 1 \in Nat
      BY <1>2, <2>1 DEF RunCallback
    <3> QED
      BY <1>2, <1>4, <3>1, SubmitPlaces DEF IInv, Anyway, OnePlace
  <2>2. CASE ~(i < Len(Chain[c]))
    BY <2>2 DEF RunCallback, IInv, Anyway, OnePlace
  <2> QED
    BY <2>1, <2>2
<1>6. Started \subseteq Change /\ Started' = Started
  BY <1>3 DEF TypeInv, TypeOK, Started, SetOf
<1>7. ~Busy' /\ ~Completing'
  BY <1>3 DEF Busy, Completing
<1>8. OnePlace'
  <2>1. running' \notin transfers' \cup SetOf(callbacks')
    BY <1>2, <1>3, <1>5, <1>6, TrackerAssumption DEF IInv, Anyway, OnePlace
  <2>2. \A d \in Change \ Started' : pendingCmds'[d] = Len(Chain[d])
    BY <1>2, <1>3, <1>6 DEF IInv, Anyway, OnePlace
  <2> HIDE DEF c, i
  <2> QED
    BY <1>2, <1>3, <1>5, <1>6, <1>7, <2>1, <2>2 DEF IInv, Anyway, OnePlace
<1>9. ASSUME NEW p \in Path, p \notin raced PROVE CountOn(p)'
  <2>1. CountOn(p)
    BY <1>9 DEF IInv, OnPath
  <2>2. CASE PathOf[c] = p
    <3>1. pendingCmds[c] > 1 /\ pendingCmds' = [pendingCmds EXCEPT ![c] = @ - 1]
          /\ pendingCmds[c] = Len(Chain[c]) - i + 1
      BY <1>2, <1>3, <1>9, <2>2
    <3>2. i + 1 \in 1..Len(Chain[c]) /\ i < Len(Chain[c])
      BY <1>2, <3>1
    <3>3. pendingCmds'[c] = Len(Chain[c]) - (i + 1) + 1
      BY <1>2, <3>1 DEF TypeInv, TypeOK
    <3> HIDE DEF c, i
    <3> QED
      BY <1>3, <1>5, <1>6, <2>1, <3>2, <3>3 DEF CountOn
  <2>3. CASE PathOf[c] # p
    BY <1>3, <1>5, <1>6, <2>1, <2>3 DEF CountOn
  <2> QED
    BY <2>2, <2>3
<1> QED
  BY <1>1, <1>3, <1>7, <1>8, <1>9, PipelineStep DEF CrashesOnlyOnRaces

LEMMA CompletionReturnsStep ==
  ASSUME TypeInv, IInv, CompletionReturns PROVE IInv'
<1>1. /\ pc["callback"] = "idle" /\ toHandle = <<>> /\ running' = None /\ ~crashed
      /\ UNCHANGED <<changesBuff, trackVars, pipeVars, toHandle, threadVars, crashed, raced>>
  BY DEF CompletionReturns, At
<1>2. /\ \A u \in Thread : Hand(u)' = Hand(u)
      /\ Started' = Started /\ Waiting' = Waiting /\ ToHandle' = ToHandle
      /\ Entries' = Entries
      /\ ~Busy' /\ ~Completing' /\ ToHandle = {}
  <2>1. incoming["callback"] = None
    BY <1>1 DEF TypeInv, TypeOK, Thread
  <2> QED
    BY <1>1, <2>1, Unmoved, EmptyQueue
    DEF ToHandle, Hand, Busy, Completing, threadVars, pipeVars, trackVars
<1>3. QueueOrder' /\ OwnPath' /\ Met'
  BY <1>1, <1>2
  DEF IInv, Anyway, QueueOrder, OwnPath, Met, Thread, trackVars, threadVars
<1>4. OnePlace'
  <2>1. None \notin transfers \cup SetOf(callbacks)
    BY TrackerAssumption DEF IInv, Anyway, OnePlace, TypeInv, TypeOK, Started, SetOf
  <2> QED
    BY <1>1, <1>2, <2>1 DEF IInv, Anyway, OnePlace, trackVars, pipeVars
<1>5. ASSUME NEW p \in Path, p \notin raced' PROVE OnPath(p)'
  <2>1. OnPath(p)
    BY <1>1, <1>5 DEF IInv
  <2>2. CountOn(p)'
    BY <1>1, <1>2, <2>1 DEF OnPath, CountOn, trackVars, pipeVars
  <2> QED
    BY <1>1, <2>1, <2>2, UnmovedOn DEF OnPath, trackVars, pipeVars
<1> QED
  BY <1>1, <1>3, <1>4, <1>5 DEF IInv, Anyway, CrashesOnlyOnRaces


LEMMA CompleteStep ==
  ASSUME TypeInv, IInv, Complete PROVE IInv'
<1> DEFINE c == running
           q == PathOf[c]
<1>1. /\ Busy /\ ~Completing /\ ~crashed /\ currentChanges[q] = c
      /\ pendingCmds' = [pendingCmds EXCEPT ![c] = 0]
      /\ completed' = completed \cup {c}
      /\ toHandle' = dependents[c]
      /\ dependents' = [dependents EXCEPT ![c] = <<>>]
      /\ currentChanges' = [currentChanges EXCEPT ![q] = None]
      /\ raced' = raced \cup {p \in {q} : Handles(incoming["changes"], p)}
      /\ UNCHANGED <<changesBuff, created, pipeVars, running, threadVars, crashed>>
  BY DEF Complete, OwnerAlive
<1>2. c \in Change /\ q \in Path /\ c \in Started \ completed /\ c # None
  BY <1>1, OwnerLives, TrackerAssumption
<1>3. /\ dependents'[c] = <<>> /\ \A d \in Change : d # c => dependents'[d] = dependents[d]
      /\ currentChanges'[q] = None
      /\ \A p \in Path : p # q => currentChanges'[p] = currentChanges[p]
      /\ \A d \in Change : d # c => pendingCmds'[d] = pendingCmds[d]
  BY <1>1, <1>2 DEF TypeInv, TypeOK
<1>4. incoming["callback"] = None /\ Hand("callback") = {}
  BY <1>1 DEF IInv, Anyway, OwnPath, ToHandle, Hand
<1>5. /\ \A u \in Thread : Hand(u)' = Hand(u)
      /\ Started' = Started /\ Waiting' \subseteq Waiting
      /\ ToHandle' = SetOf(dependents[c]) /\ ToHandle' \subseteq Waiting
      /\ Entries' \subseteq Entries
      /\ Busy' /\ Completing' /\ "changes" \in Thread
  <2>1. SetOf(dependents'[c]) = {}
    BY <1>3, EmptyQueue
  <2>2. \A u \in Thread : Hand(u)' = Hand(u)
    BY <1>1 DEF Hand, threadVars
  <2>3. Waiting' \subseteq Waiting
    BY <1>3, <2>1 DEF Waiting
  <2>4. ToHandle' = SetOf(dependents[c])
    BY <1>1, <1>4, <2>2 DEF ToHandle, Thread
  <2>5. Entries' \subseteq Entries
    BY <1>3 DEF Entries
  <2>6. Started' = Started /\ Busy' /\ Completing'
    BY <1>1 DEF Started, Busy, Completing, pipeVars
  <2> QED
    BY <1>2, <2>2, <2>3, <2>4, <2>5, <2>6 DEF Waiting, Thread
<1>6. QueueOrder'
  BY <1>1, <1>5 DEF IInv, Anyway, QueueOrder
<1>7. OwnPath'
  <2>1. \A d \in Change : \A e \in SetOf(dependents'[d]) : PathOf[e] = PathOf[d]
    BY <1>3, EmptyQueue DEF IInv, Anyway, OwnPath
  <2>2. \A d \in SetOf(dependents[c]) : PathOf[d] = q
    BY <1>2 DEF IInv, Anyway, OwnPath
  <2>3. \A t \in Thread : found'[t] # None => PathOf[found'[t]] = PathOf[incoming'[t]]
    BY <1>1 DEF IInv, Anyway, OwnPath, threadVars
  <2>4. \A p \in Path : currentChanges'[p] # None => PathOf[currentChanges'[p]] = p
    BY <1>3 DEF IInv, Anyway, OwnPath
  <2>5. running' = c
    BY <1>1
  <2> QED
    BY <1>5, <2>1, <2>2, <2>3, <2>4, <2>5 DEF OwnPath
<1>8. OnePlace'
  BY <1>1, <1>2, <1>3, <1>5 DEF IInv, Anyway, OnePlace, pipeVars
<1>9. Met'
  BY <1>1 DEF Met, threadVars
<1>10. ASSUME NEW p \in Path, p \notin raced' PROVE OnPath(p)'
  <2>1. OnPath(p)
    BY <1>1, <1>10 DEF IInv
  <2>2. SortedOn(toHandle', p) /\ \A d \in Change : SortedOn(dependents'[d], p)
    BY <1>1, <1>2, <1>3, <2>1, EmptyQueue DEF OnPath, OrderOn
  <2>3. CASE p = q
    <3>1. \A t \in Thread : ~Handles(incoming[t], p)
      BY <1>1, <1>4, <1>10, <2>3 DEF Thread, Handles
    <3>2. \A d \in Started \ completed : PathOf[d] = p => d = c
      BY <1>1, <2>1, <2>3 DEF OnPath, EntryOn
    <3>3. \A d \in Change : PathOf[d] = p => SetOf(dependents'[d]) = {}
      BY <1>3, <2>1, <3>2, EmptyQueue DEF OnPath, DependentsOn
    <3>4. \A d \in Waiting' : PathOf[d] # p
      <4>1. \A d \in Change : \A e \in SetOf(dependents'[d]) : PathOf[e] = PathOf[d]
        BY <1>7 DEF OwnPath
      <4> QED
        BY <3>3, <4>1 DEF Waiting
    <3>5. OrderOn(p)'
      <4>1. dispatched' = dispatched /\ Hand("changes")' = Hand("changes")
            /\ Hand("callback")' = {}
        BY <1>1, <1>4, <1>5 DEF pipeVars, Thread
      <4> QED
        BY <1>5, <2>1, <2>2, <3>4, <4>1 DEF OnPath, OrderOn
    <3>6. ClaimsOn(p)'
      BY <1>1, <3>1 DEF ClaimsOn, threadVars
    <3>7. EntryOn(p)'
      BY <1>1, <1>3, <1>5, <2>3, <3>2 DEF EntryOn
    <3>8. DependentsOn(p)'
      BY <3>3 DEF DependentsOn
    <3>9. CountOn(p)'
      BY <1>1, <1>5, <2>1, <3>2 DEF OnPath, CountOn
    <3> QED
      BY <3>5, <3>6, <3>7, <3>8, <3>9 DEF OnPath
  <2>4. CASE p # q
    <3>1. \A d \in ToHandle' : PathOf[d] # p
      BY <1>1, <1>5, <1>7, <2>4 DEF OwnPath
    <3>2. OrderOn(p)'
      <4>1. dispatched' = dispatched /\ Hand("changes")' = Hand("changes")
            /\ Hand("callback")' = {}
        BY <1>1, <1>4, <1>5 DEF pipeVars, Thread
      <4> QED
        BY <1>5, <2>1, <2>2, <3>1, <4>1 DEF OnPath, OrderOn
    <3>3. ClaimsOn(p)'
      BY <1>1, <1>3, <2>1, <2>4 DEF OnPath, ClaimsOn, threadVars
    <3>4. EntryOn(p)'
      BY <1>1, <1>2, <1>3, <1>5, <2>1, <2>4 DEF OnPath, EntryOn, threadVars, IInv, Anyway, OwnPath
    <3>5. DependentsOn(p)'
      BY <1>1, <1>3, <1>5, <2>1, <2>4 DEF OnPath, DependentsOn
    <3>6. CountOn(p)'
      <4>1. Started \subseteq Change
        BY DEF TypeInv, TypeOK, Started, SetOf
      <4> QED
        BY <1>1, <1>3, <1>5, <2>1, <2>4, <4>1 DEF OnPath, CountOn, pipeVars
    <3> QED
      BY <3>2, <3>3, <3>4, <3>5, <3>6 DEF OnPath
  <2> QED
    BY <2>3, <2>4
<1> QED
  BY <1>1, <1>6, <1>7, <1>8, <1>9, <1>10 DEF IInv, Anyway, CrashesOnlyOnRaces

-----------------------------------------------------------------------------
LEMMA NextIInv == TypeInv /\ IInv /\ [Next]_vars => IInv'
<1> SUFFICES ASSUME TypeInv, IInv, [Next]_vars PROVE IInv'
  OBVIOUS
<1>1. ASSUME NEW t \in Thread, HandleStep(t) PROVE IInv'
  BY <1>1, CheckStep, CreatePathStep, DirectoryDoneStep, StartStep, DispatchStep, LookupStep,
     AddDependentStep
  DEF HandleStep
<1>2. CASE ChangesStep
  BY <1>1, <1>2, TakeChangeStep DEF ChangesStep, Thread
<1>3. CASE CallbackStep
  BY <1>1, <1>3, TakeDependentStep, PopCallbackStep, RunCallbackStep, CompleteStep,
     CompletionReturnsStep
  DEF CallbackStep, Thread
<1>4. ASSUME NEW c \in Change, NetworkStep(c) PROVE IInv'
  BY <1>4, NetworkIInv
<1>5. CASE UNCHANGED vars
  <2>1. OnePlace' /\ (Completing' <=> Completing)
    BY <1>5 DEF vars, trackVars, pipeVars, IInv, Anyway, OnePlace, Completing, Busy, Started
  <2>2. \A p \in Path \ raced : CountOn(p)'
    BY <1>5 DEF vars, trackVars, pipeVars, IInv, OnPath, CountOn, Started
  <2> QED
    BY <1>5, <2>1, <2>2, PipelineStep
    DEF vars, trackVars, pipeVars, IInv, CrashesOnlyOnRaces
<1> QED
  BY <1>2, <1>3, <1>4, <1>5 DEF Next, Rest

LEMMA InvariantKept == Spec => [](TypeInv /\ IInv)
<1>1. Init => TypeInv /\ IInv
  BY InitTypeInv, InitIInv
<1>2. (TypeInv /\ IInv) /\ [Next]_vars => (TypeInv /\ IInv)'
  BY TypeStep, NextIInv
<1> QED
  BY <1>1, <1>2, PTL DEF Spec

(* What is in flight is the entry of its path. *)
LEMMA InvOnePath == TypeInv /\ IInv => OneChangeUnlessRaced
<1> SUFFICES ASSUME TypeInv, IInv, NEW c \in Change, NEW d \in Change,
                    InFlight(c), InFlight(d), PathOf[c] = PathOf[d],
                    PathOf[c] \notin raced
             PROVE  c = d
  BY DEF OneChangeUnlessRaced
<1>1. c \in Started \ completed /\ d \in Started \ completed
  BY DEF InFlight, IInv, Anyway, OnePlace
<1>2. OnPath(PathOf[c])
  BY TrackerAssumption DEF IInv
<1> QED
  BY <1>1, <1>2 DEF OnPath, EntryOn

LEMMA InvInOrder == TypeInv /\ IInv => InOrder
<1> SUFFICES ASSUME TypeInv, IInv,
                    NEW i \in DOMAIN dispatched, NEW j \in DOMAIN dispatched,
                    NEW k \in DOMAIN Arrival, NEW l \in DOMAIN Arrival,
                    dispatched[i] = Arrival[k], dispatched[j] = Arrival[l],
                    PathOf[Arrival[k]] = PathOf[Arrival[l]], k < l,
                    PathOf[Arrival[k]] \notin raced, ~(i < j)
             PROVE  FALSE
  BY DEF InOrder
<1> DEFINE p == PathOf[Arrival[k]]
<1>1. Arrival[k] \in Change /\ p \in Path /\ k \in Nat /\ l \in Nat
  BY TrackerAssumption
<1>2. SortedOn(dispatched, p)
  BY <1>1 DEF IInv, OnPath, OrderOn
<1>3. i \in Nat /\ j \in Nat
  <2>1. dispatched \in Seq(Change)
    BY DEF TypeInv, TypeOK
  <2>2. DOMAIN dispatched = 1..Len(dispatched) /\ Len(dispatched) \in Nat
    BY <2>1, LenProperties
  <2> QED
    BY <2>2
<1>4. i # j
  <2>1. k # l
    BY <1>1
  <2> QED
    BY <2>1, TrackerAssumption
<1>5. Earlier(Arrival[l], Arrival[k])
  BY <1>2, <1>3, <1>4 DEF SortedOn
<1>6. PICK m \in DOMAIN Arrival, n \in DOMAIN Arrival :
        m < n /\ Arrival[m] = Arrival[l] /\ Arrival[n] = Arrival[k]
  BY <1>5 DEF Earlier
<1>7. m = l /\ n = k
  BY <1>6, TrackerAssumption
<1> QED
  BY <1>1, <1>6, <1>7

(* However the two threads interleave, the commands of two changes of one    *)
(* path are never in flight together, except on a path on which one thread   *)
(* had a new change in handleChange while the other had a change of it in    *)
(* onChangeCompleted: the unlocked accesses of the threads to entries of     *)
(* different paths, and the taking and starting of dependents, do no harm.   *)
THEOREM OnePathOneChange == Spec => []OneChangeUnlessRaced
  BY InvariantKept, InvOnePath, PTL

(* However the two threads interleave, the changes of a path on which they   *)
(* have not met are started in the order in which they arrived: a dependent  *)
(* is not overtaken by a change that came after it.                         *)
THEOREM StartedInOrder == Spec => []InOrder
  BY InvariantKept, InvInOrder, PTL

(* However the two threads interleave, the second look at the map, in        *)
(* startChange and for addDependent, finds a change whose commands are still *)
(* there, unless the threads have met on some path before.                  *)
THEOREM NothingCrashes == Spec => []CrashesOnlyOnRaces
<1>1. IInv => CrashesOnlyOnRaces
  BY DEF IInv
<1> QED
  BY <1>1, InvariantKept, PTL
-----------------------------------------------------------------------------
(* Where a change is from its arrival to its completion, and what becomes of *)
(* a change in progress, if the threads have not met on its path.           *)
Unraced == {c \in Change : PathOf[c] \notin raced}
Accounted ==
  SetOf(Arrival) \cap Unraced \subseteq
    SetOf(changesBuff) \cup Hand("changes") \cup ToHandle \cup Waiting \cup Started \cup completed
InWork ==
  (Started \ completed) \cap Unraced
    \subseteq transfers \cup SetOf(callbacks) \cup {running} \cup failed

(* When the threads have nothing left to do, every change that arrived is    *)
(* completed, but for changes of a path one of whose changes failed or on    *)
(* which the threads have met.                                             *)
NothingForgotten ==
  AtRest /\ ~crashed => \A i \in DOMAIN Arrival :
    \/ Arrival[i] \in completed
    \/ \E c \in failed : PathOf[c] = PathOf[Arrival[i]]
    \/ PathOf[Arrival[i]] \in raced

Kept == Accounted /\ InWork

LEMMA InitKept == Init => Kept
  BY DEF Init, Kept, Accounted, InWork, Started, SetOf

(* Steps of handleChange that leave every change where it is. *)
LEMMA KeptUnmoved ==
  ASSUME Kept, UNCHANGED <<changesBuff, incoming, toHandle, dependents, completed, pipeVars,
                           running, raced>>
  PROVE  Kept'
  BY DEF Kept, Accounted, InWork, Hand, ToHandle, Waiting, Started, Unraced, pipeVars

LEMMA KeptHandle ==
  ASSUME TypeInv, IInv, Kept, NEW t \in Thread, HandleStep(t)
  PROVE  Kept'
<1>1. CASE Check(t) \/ CreatePath(t) \/ Start(t)
  BY <1>1, KeptUnmoved DEF Check, CreatePath, Start, trackVars
<1>2. CASE Lookup(t)
  BY <1>2, KeptUnmoved DEF Lookup, trackVars
<1>3. ASSUME NEW u \in Thread, incoming' = [incoming EXCEPT ![t] = None], toHandle' = toHandle
      PROVE  /\ Hand("changes") \cup ToHandle
                  \subseteq (Hand("changes") \cup ToHandle)' \cup Hand(t)
             /\ Hand(t) \subseteq {incoming[t]}
  BY <1>3 DEF Hand, ToHandle, Thread, TypeInv, TypeOK
<1>4. CASE DirectoryDone(t)
  <2>1. /\ incoming' = [incoming EXCEPT ![t] = None]
        /\ completed' = completed \cup {incoming[t]}
        /\ UNCHANGED <<changesBuff, dependents, pipeVars, running, toHandle, raced>>
    BY <1>4 DEF DirectoryDone, Return
  <2>2. Waiting' = Waiting /\ Started' = Started /\ Unraced' = Unraced
    BY <2>1 DEF Waiting, Started, Unraced, pipeVars
  <2> QED
    BY <1>3, <2>1, <2>2 DEF Kept, Accounted, InWork, pipeVars
<1>5. CASE AddDependent(t)
  <2> DEFINE c == found[t]
             d == incoming[t]
  <2>1. /\ c \in Change /\ d \in Change
        /\ dependents' = [dependents EXCEPT ![c] = Append(@, d)]
        /\ incoming' = [incoming EXCEPT ![t] = None]
        /\ UNCHANGED <<changesBuff, completed, pipeVars, running, toHandle, raced>>
    BY <1>5 DEF AddDependent, Return, At, TypeInv, TypeOK
  <2>2. /\ SetOf(dependents'[c]) = SetOf(dependents[c]) \cup {d}
        /\ \A x \in Change : x # c => dependents'[x] = dependents[x]
    BY <2>1, AppendQueue DEF TypeInv, TypeOK
  <2>3. Waiting \cup {d} \subseteq Waiting'
    <3>1. \A x \in Change : SetOf(dependents[x]) \subseteq SetOf(dependents'[x])
      BY <2>1, <2>2
    <3> QED
      BY <2>1, <2>2, <3>1 DEF Waiting
  <2>4. Started' = Started /\ Unraced' = Unraced
    BY <2>1 DEF Started, Unraced, pipeVars
  <2> HIDE DEF c
  <2> QED
    BY <1>3, <2>1, <2>3, <2>4 DEF Kept, Accounted, InWork, pipeVars
<1>6. CASE Dispatch(t)
  <2> DEFINE q == PathOf[incoming[t]]
             c == currentChanges[q]
  <2>1. /\ pc[t] = "dispatch" /\ q \in Path /\ incoming[t] \in Change
        /\ Handles(incoming[t], q)
    BY <1>6, TrackerAssumption DEF Dispatch, At, TypeInv, TypeOK, Handles
  <2>2. q \notin raced => c = incoming[t] /\ c \notin Started
    BY <2>1, DispatchFacts
  <2>3. Unraced' = Unraced
    BY <1>6 DEF Dispatch, Unraced
  <2>4. CASE c = None \/ c \in Started
    BY <1>6, <2>4, KeptUnmoved DEF Dispatch, Started, trackVars
  <2>5. CASE c # None /\ c \notin Started
    <3>1. /\ Submit(c, 1) /\ dispatched' = Append(dispatched, c)
          /\ incoming' = [incoming EXCEPT ![t] = None]
          /\ UNCHANGED <<failed, changesBuff, trackVars, running, toHandle>>
      BY <1>6, <2>5 DEF Dispatch, Started, Return
    <3>2. c \in Change
      BY <2>1, <2>5 DEF TypeInv, TypeOK
    <3>3. Started' = Started \cup {c}
      BY <3>1, <3>2, AppendQueue DEF Started, TypeInv, TypeOK
    <3>4. transfers' \cup SetOf(callbacks') = transfers \cup SetOf(callbacks) \cup {c}
      <4>1. c \notin transfers \cup SetOf(callbacks)
        BY <2>5 DEF IInv, Anyway, OnePlace
      <4> QED
        BY <3>1, <3>2, <4>1, SubmitPlaces DEF IInv, Anyway, OnePlace
    <3>5. Waiting' = Waiting
      BY <3>1 DEF Waiting, trackVars
    <3>6. incoming[t] \in Unraced => incoming[t] = c
      BY <2>2 DEF Unraced
    <3> HIDE DEF c, q
    <3>7. Accounted'
      BY <1>3, <2>3, <3>1, <3>3, <3>5, <3>6 DEF Kept, Accounted, trackVars
    <3>8. InWork'
      BY <2>3, <3>1, <3>3, <3>4 DEF Kept, InWork, trackVars
    <3> QED
      BY <3>7, <3>8 DEF Kept
  <2> QED
    BY <2>4, <2>5
<1> QED
  BY <1>1, <1>2, <1>4, <1>5, <1>6 DEF HandleStep

LEMMA KeptStep ==
  ASSUME TypeInv, IInv, Kept, [Next]_vars PROVE Kept'
<1>2. CASE TakeChange
  <2>1. SetOf(changesBuff) = SetOf(changesBuff') \cup {Head(changesBuff)}
    BY <1>2, TailQueue DEF TakeChange, TypeInv, TypeOK
  <2>2. /\ Head(changesBuff) \in Change /\ incoming'["changes"] = Head(changesBuff)
        /\ incoming["changes"] = None
        /\ incoming'["callback"] = incoming["callback"]
        /\ UNCHANGED <<trackVars, pipeVars, running, toHandle>>
    BY <1>2, TailQueue DEF TakeChange, At, TypeInv, TypeOK, Thread
  <2>3. /\ Hand("changes")' = {Head(changesBuff)} /\ Hand("changes") = {}
        /\ ToHandle' = ToHandle /\ Waiting' = Waiting /\ Started' = Started
    BY <2>2, TrackerAssumption DEF Hand, ToHandle, Waiting, Started, trackVars, pipeVars
  <2>4. Unraced' \subseteq Unraced
    BY <1>2 DEF TakeChange, Unraced
  <2> QED
    BY <2>1, <2>2, <2>3, <2>4 DEF Kept, Accounted, InWork, trackVars, pipeVars
<1>3. CASE TakeDependent
  <2>1. SetOf(toHandle) = SetOf(toHandle') \cup {Head(toHandle)}
    BY <1>3, TailQueue DEF TakeDependent, TypeInv, TypeOK
  <2>2. /\ Head(toHandle) \in Change /\ incoming'["callback"] = Head(toHandle)
        /\ incoming["callback"] = None
        /\ incoming'["changes"] = incoming["changes"]
        /\ UNCHANGED <<changesBuff, trackVars, pipeVars, running, raced>>
    BY <1>3, TailQueue DEF TakeDependent, At, TypeInv, TypeOK, Thread
  <2>3. /\ Hand("changes")' = Hand("changes")
        /\ ToHandle' = ToHandle /\ Waiting' = Waiting /\ Started' = Started
    BY <2>1, <2>2, TrackerAssumption DEF Hand, ToHandle, Waiting, Started, trackVars, pipeVars
  <2> QED
    BY <2>2, <2>3 DEF Kept, Accounted, InWork, trackVars, pipeVars, Unraced
<1>4. ASSUME UNCHANGED <<changesBuff, toHandle, dependents, completed, dispatched, threadVars,
                         raced>>,
             InWork'
      PROVE  Kept'
  BY <1>4 DEF Kept, Accounted, Hand, ToHandle, Waiting, Started, Unraced, threadVars
<1>5. CASE PopCallback
  <2>1. SetOf(callbacks) = SetOf(callbacks') \cup {running'} /\ running = None
    BY <1>5, TailQueue DEF PopCallback, Busy, TypeInv, TypeOK
  <2>2. UNCHANGED <<changesBuff, toHandle, trackVars, transfers, failed, dispatched, threadVars,
                    raced>>
    BY <1>5 DEF PopCallback
  <2>3. None \notin Started
    BY TrackerAssumption DEF TypeInv, TypeOK, Started, SetOf
  <2>4. Started' = Started /\ Unraced' = Unraced
    BY <2>2 DEF Started, Unraced
  <2>5. InWork'
    BY <2>1, <2>2, <2>3, <2>4 DEF Kept, InWork, trackVars
  <2> QED
    BY <1>4, <2>2, <2>5 DEF trackVars
<1>6. CASE RunCallback
  <2> DEFINE c == running
             i == position[running]
  <2>1. Busy /\ ~Completing
    BY <1>6 DEF RunCallback
  <2>2. /\ c \in Change /\ Len(Chain[c]) \in Nat
        /\ c \in Unraced =>
             /\ OwnerAlive /\ i \in 1..Len(Chain[c])
             /\ pendingCmds[c] = Len(Chain[c]) - i + 1
    BY <2>1, OwnerLives DEF Unraced
  <2>3. UNCHANGED <<changesBuff, dependents, completed, dispatched, failed, toHandle,
                    threadVars, raced>>
    BY <1>6 DEF RunCallback
  <2>4. Started' = Started /\ Unraced' = Unraced
    BY <2>3 DEF Started, Unraced
  <2>5. CASE i < Len(Chain[c])
    <3>1. Submit(c, i + 1) /\ i + 1 \in Nat
      BY <1>6, <2>2, <2>5 DEF RunCallback, TypeInv, TypeOK
    <3>2. transfers' \cup SetOf(callbacks') = transfers \cup SetOf(callbacks) \cup {c}
      BY <2>2, <3>1, SubmitPlaces DEF IInv, Anyway, OnePlace
    <3>3. InWork'
      BY <2>3, <2>4, <3>2 DEF Kept, InWork
    <3> QED
      BY <1>4, <2>3, <3>3
  <2>6. CASE ~(i < Len(Chain[c]))
    <3>1. c \notin Unraced
      <4>1. OwnerAlive => pendingCmds[c] > 1
        BY <1>6 DEF RunCallback
      <4> QED
        BY <2>2, <2>6, <4>1
    <3>2. UNCHANGED <<transfers, callbacks>>
      BY <1>6, <2>6 DEF RunCallback
    <3>3. InWork'
      BY <2>3, <2>4, <3>1, <3>2 DEF Kept, InWork
    <3> QED
      BY <1>4, <2>3, <3>3
  <2> QED
    BY <2>5, <2>6
<1>7. CASE Complete
  <2> DEFINE c == running
  <2>1. /\ c \in Change
        /\ completed' = completed \cup {c}
        /\ ToHandle = {} /\ toHandle' = dependents[c]
        /\ dependents' = [dependents EXCEPT ![c] = <<>>]
        /\ Unraced' \subseteq Unraced
        /\ UNCHANGED <<changesBuff, pipeVars, running, threadVars>>
    BY <1>7, OwnerLives DEF Complete, IInv, Anyway, OwnPath, Unraced
  <2>2. Waiting \subseteq Waiting' \cup SetOf(toHandle')
    BY <2>1 DEF Waiting, TypeInv, TypeOK
  <2>3. /\ ToHandle \cup SetOf(toHandle') \subseteq ToHandle'
        /\ Started' = Started /\ Hand("changes")' = Hand("changes")
    BY <2>1, EmptyQueue DEF ToHandle, Hand, Started, pipeVars, threadVars
  <2> HIDE DEF c
  <2>4. Accounted'
    BY <2>1, <2>2, <2>3 DEF Kept, Accounted
  <2>5. InWork'
    BY <2>1, <2>3 DEF Kept, InWork, pipeVars
  <2> QED
    BY <2>4, <2>5 DEF Kept
<1>8. CASE CompletionReturns
  <2>1. /\ running \in completed
        /\ UNCHANGED <<changesBuff, trackVars, pipeVars, toHandle, threadVars, raced>>
    BY <1>8 DEF CompletionReturns, Completing
  <2>2. InWork'
    BY <2>1 DEF Kept, InWork, Started, Unraced, trackVars, pipeVars
  <2> QED
    BY <1>4, <2>1, <2>2 DEF trackVars, pipeVars
<1>9. ASSUME NEW c \in Change, NetworkStep(c) PROVE Kept'
  <2>1. UNCHANGED <<changesBuff, trackVars, dispatched, running, toHandle, threadVars, raced>>
    BY <1>9 DEF NetworkStep, TransferOk, TransferFailed
  <2>2. SetOf(Append(callbacks, c)) = SetOf(callbacks) \cup {c}
    BY AppendQueue DEF TypeInv, TypeOK
  <2>3. transfers \cup SetOf(callbacks) \cup failed
          \subseteq transfers' \cup SetOf(callbacks') \cup failed'
    BY <1>9, <2>2 DEF NetworkStep, TransferOk, TransferFailed
  <2>4. InWork'
    BY <2>1, <2>3 DEF Kept, InWork, Started, Unraced, trackVars
  <2> QED
    BY <1>4, <2>1, <2>4 DEF trackVars
<1>10. CASE UNCHANGED vars
  BY <1>10, KeptUnmoved DEF vars, trackVars, threadVars
<1>11. ASSUME NEW t \in Thread, HandleStep(t) PROVE Kept'
  BY <1>11, KeptHandle
<1> QED
  BY <1>2, <1>3, <1>5, <1>6, <1>7, <1>8, <1>9, <1>10, <1>11
  DEF Next, Rest, ChangesStep, CallbackStep, Thread

LEMMA KeptAtRest ==
  ASSUME TypeInv, IInv, Kept PROVE NothingForgotten
<1> SUFFICES ASSUME AtRest, ~crashed, NEW i \in DOMAIN Arrival, Arrival[i] \notin completed,
                    PathOf[Arrival[i]] \notin raced
             PROVE  \E c \in failed : PathOf[c] = PathOf[Arrival[i]]
  BY DEF NothingForgotten
<1>1. /\ changesBuff = <<>> /\ transfers = {} /\ callbacks = <<>> /\ running = None
      /\ \A t \in Thread : pc[t] = "idle"
  BY DEF AtRest, Busy, Handling
<1>2. ToHandle = {} /\ Hand("changes") = {} /\ SetOf(changesBuff) = {} /\ SetOf(callbacks) = {}
  BY <1>1, EmptyQueue
  DEF IInv, Anyway, OwnPath, Completing, Busy, Hand, TypeInv, TypeOK, Thread
<1>3. Arrival[i] \in Change /\ Arrival[i] \in Unraced
  BY TrackerAssumption DEF Unraced
<1>4. \A c \in Unraced : c \in Started \ completed => c \in failed
  <2>1. None \notin Started
    BY TrackerAssumption DEF TypeInv, TypeOK, Started, SetOf
  <2> QED
    BY <1>1, <1>2, <2>1 DEF Kept, InWork
<1>5. Arrival[i] \in Waiting \cup Started
  BY <1>2, <1>3 DEF Kept, Accounted, SetOf
<1>6. CASE Arrival[i] \in Started
  BY <1>3, <1>4, <1>6
<1>7. CASE Arrival[i] \in Waiting
  <2>1. PICK c \in Change : Arrival[i] \in SetOf(dependents[c])
    BY <1>7 DEF Waiting
  <2>2. PathOf[Arrival[i]] = PathOf[c] /\ PathOf[c] \in Path /\ c \in Unraced
    BY <1>3, <2>1, TrackerAssumption DEF IInv, Anyway, OwnPath, Unraced
  <2>3. c \in Started \ completed
    BY <2>1, <2>2 DEF IInv, OnPath, DependentsOn, Unraced
  <2> QED
    BY <1>4, <2>2, <2>3
<1> QED
  BY <1>5, <1>6, <1>7

(* However the two threads interleave, no change is forgotten: when nothing  *)
(* is left to do, all are completed but those of a path with a failure or on *)
(* which the threads have met.  A dependent is in a list that is read again, *)
(* even while another thread adds to it, or its turn has come.               *)
THEOREM NoneForgotten == Spec => []NothingForgotten
<1>1. Kept /\ (TypeInv /\ IInv) /\ [Next]_vars => Kept'
  BY KeptStep
<1>2. (TypeInv /\ IInv) /\ Kept => NothingForgotten
  BY KeptAtRest
<1> QED
  BY <1>1, <1>2, InvariantKept, InitKept, PTL DEF Spec

=============================================================================
