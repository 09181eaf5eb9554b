-------------------------- MODULE InitialSyncProofs --------------------------
(***************************************************************************)
(* What the initial synchronisation does to files and database, for any     *)
(* clouds, files, ages of variants and failures: it overwrites nothing by    *)
(* something older, loses no newest variant, ends with the same newest       *)
(* variant everywhere and a database that says so, and is cut short by a     *)
(* failed download alone.                                                  *)
(*                                                                         *)
(* That nothing newer is replaced is not inductive: it depends on what the  *)
(* local file is by the time of an upload.  IInv says it phase by phase.     *)
(* Until the downloads are over the clouds contain what was listed, each    *)
(* path has at most one download, and that is of a best variant.  From then *)
(* on nothing changes the local files, and those whose path is not occupied *)
(* are the newest of their path.                                           *)
(*                                                                         *)
(* DbInv adds the database: a row is of the local file (Rows), localMap is  *)
(* the variant to spread (Chosen), a link is of a file in its cloud (Links), *)
(* and what has been pushed is linked, or on its way (Spread).               *)
(***************************************************************************)
EXTENDS InitialSync, WellFoundedInduction, TLAPS

(* No storage has a newer variant than the local one. *)
LocalNewest(p) ==
  /\ store[Local][p] # None
  /\ \A s \in Storage : store[s][p] # None => store[s][p].time <= store[Local][p].time

IsTask(t) == t \in [kind : Kind, path : Path, cloud : Cloud, id : {t.id},
                    data : Variant \cup {None}]

Typed ==
  /\ listed \in Contents /\ store \in Contents
  /\ \A t \in tasks : IsTask(t)
  /\ left \subseteq Path
  /\ DOMAIN localMap \subseteq Path
  /\ phase \in Phase

(* What is known of a local file before anything is downloaded to it. *)
Untouched(p) ==
  /\ p \in DOMAIN localMap <=> listed[Local][p] # None
  /\ p \in DOMAIN localMap => localMap[p].stat = listed[Local][p]
  /\ store[Local][p] = listed[Local][p]

Scanning ==
  phase = "scan" =>
    /\ store = listed /\ tasks = {}
    /\ \A p \in left : listed[Local][p] # None
    /\ \A p \in DOMAIN localMap : /\ listed[Local][p] # None
                                  /\ localMap[p].stat = listed[Local][p]
    /\ \A p \in Path : listed[Local][p] # None => p \in left \/ p \in DOMAIN localMap

(* A download is of a best variant, and of one that is newer than the file  *)
(* it is going to replace.                                                 *)
GoodDownload(t) ==
  /\ t.kind \in Downloads
  /\ t.path \notin left
  /\ t.cloud \in BestIn(t.path)
  /\ t.data \in {None, listed[t.cloud][t.path]}
  /\ store[Local][t.path] = listed[Local][t.path]
  /\ listed[Local][t.path] # None =>
       listed[Local][t.path].time < listed[t.cloud][t.path].time

Reconciling ==
  phase = "reconcile" =>
    /\ \A c \in Cloud : store[c] = listed[c]
    /\ \A p \in left : Untouched(p)
    /\ \A t \in tasks : GoodDownload(t)
    /\ \A t, u \in tasks : t.path = u.path => t = u
    /\ \A p \in DOMAIN localMap :
         p \in left \/ p \in occupied \/ (\E t \in tasks : t.path = p) \/ LocalNewest(p)

Pushing ==
  phase \in {"push", "done"} =>
    /\ left \subseteq DOMAIN localMap
    /\ \A t \in tasks : t.kind \notin Downloads /\ LocalNewest(t.path)
    /\ \A p \in DOMAIN localMap : p \in occupied \/ LocalNewest(p)

Aborted == phase = "aborted" => tasks = {}

IInv == Typed /\ Scanning /\ Reconciling /\ Pushing /\ Aborted

-----------------------------------------------------------------------------
(* A value that is neither None nor untyped has a time. *)
LEMMA Times ==
  ASSUME Typed, NEW s \in Storage, NEW p \in Path
  PROVE  /\ listed[s][p] \in Variant \cup {None}
         /\ store[s][p] \in Variant \cup {None}
         /\ listed[s][p] # None => listed[s][p].time \in Nat
         /\ store[s][p] # None => store[s][p].time \in Nat
<1>1. listed[s][p] \in Variant \cup {None} /\ store[s][p] \in Variant \cup {None}
  BY DEF Typed, Contents
<1>2. \A v \in Variant : v.time \in Nat
  BY InitialSyncAssumption DEF Variant, Time
<1> QED
  BY <1>1, <1>2

LEMMA Bests ==
  ASSUME NEW p \in Path, NEW c \in BestIn(p)
  PROVE  /\ c \in Cloud /\ c \in Storage /\ listed[c][p] # None
         /\ \A d \in Cloud : listed[d][p] # None => listed[d][p].time <= listed[c][p].time
BY DEF BestIn, In, Storage

LEMMA TypedInit == Init => Typed
BY InitialSyncAssumption DEF Init, Typed, Phase, Contents

LEMMA InitIInv == Init => IInv
<1> SUFFICES ASSUME Init PROVE IInv
  OBVIOUS
<1>1. Typed
  BY TypedInit
<1>2. Scanning
  BY DEF Init, Scanning
<1>3. Reconciling /\ Pushing /\ Aborted
  BY DEF Init, Reconciling, Pushing, Aborted
<1> QED
  BY <1>1, <1>2, <1>3 DEF IInv

-----------------------------------------------------------------------------
(* Types. *)
LEMMA StoreTyped ==
  ASSUME Typed, NEW s \in Storage, NEW t, t.path \in Path, NEW v \in Variant \cup {None}
  PROVE  StoreWith(s, t, v) \in Contents
BY DEF Typed, Contents, StoreWith

LEMMA TaskTyped ==
  ASSUME NEW kind \in Kind, NEW p \in Path, NEW c \in Cloud, NEW id
  PROVE  /\ IsTask(Task(kind, p, c, id))
         /\ Task(kind, p, c, id).kind = kind /\ Task(kind, p, c, id).path = p
         /\ Task(kind, p, c, id).cloud = c /\ Task(kind, p, c, id).data = None
BY DEF IsTask, Task

LEMMA TypedStep == Typed /\ [Next]_vars => Typed'
<1> SUFFICES ASSUME Typed, [Next]_vars PROVE Typed'
  OBVIOUS
<1>1. ASSUME NEW p \in Path, Scan(p) PROVE Typed'
  BY <1>1 DEF Scan, Typed, Put
<1>2. ASSUME Scanned PROVE Typed'
  BY <1>2 DEF Scanned, Typed, Phase
<1>3. ASSUME NEW p \in Path, NEW best \in Cloud, Reconcile(p, best) PROVE Typed'
  <2>1. \A kind \in Kind : \A id : IsTask(Task(kind, p, best, id))
    BY TaskTyped
  <2>2. "downloadUpdate" \in Kind /\ "downloadNew" \in Kind
    BY DEF Kind
  <2>3. \A f, v : DOMAIN Put(f, p, v) = DOMAIN f \cup {p}
    BY DEF Put
  <2>4. \A t \in tasks' : IsTask(t)
    BY <1>3, <2>1, <2>2 DEF Reconcile, Typed
  <2>5. DOMAIN localMap' \subseteq Path
    <3>1. localMap' = localMap \/ \E v : localMap' = Put(localMap, p, v)
      BY <1>3 DEF Reconcile
    <3> QED
      BY <3>1, <2>3 DEF Typed
  <2> QED
    BY <1>3, <2>4, <2>5 DEF Reconcile, Typed
<1>4. ASSUME Downloaded PROVE Typed'
  BY <1>4 DEF Downloaded, Typed, Phase
<1>5. ASSUME NEW p \in Path, Push(p) PROVE Typed'
  <2>1. \A t \in Uploads(p) :
          \E kind \in {"upload", "update"}, c \in Cloud : t = Task(kind, p, c, IdOf(p))
    BY DEF Uploads
  <2>2. \A t \in Uploads(p) : IsTask(t)
    BY <2>1, TaskTyped DEF Kind
  <2> QED
    BY <1>5, <2>2 DEF Push, Typed
<1>6. ASSUME NEW p \in Path, PushThrows(p) PROVE Typed'
  BY <1>6 DEF PushThrows, Typed, Phase
<1>7. ASSUME Finish PROVE Typed'
  BY <1>7 DEF Finish, Typed, Phase
<1>8. ASSUME NEW t \in tasks, Transfer(t) PROVE Typed'
  <2>1. Source(t) \in Storage /\ t.cloud \in Storage /\ t.path \in Path
    BY DEF Source, Storage, Typed, IsTask
  <2>2. Transferred(t).data \in Variant \cup {None}
    BY <2>1 DEF Transferred, Typed, Contents, IsTask
  <2>3. IsTask(Transferred(t))
    BY <2>2 DEF Transferred, Typed, IsTask
  <2>4. store' \in Contents
    BY <1>8, <2>1, <2>2, StoreTyped DEF Transfer, Typed
  <2> QED
    BY <1>8, <2>3, <2>4 DEF Transfer, Typed
<1>9. ASSUME NEW t \in tasks, TransferFails(t) PROVE Typed'
  <2>1. Source(t) \in Storage /\ t.cloud \in Storage /\ t.path \in Path
    BY DEF Source, Storage, Typed, IsTask
  <2>2. Transferred(t).data \in Variant \cup {None}
    BY <2>1 DEF Transferred, Typed, Contents, IsTask
  <2>4. store' \in Contents
    BY <1>9, <2>1, <2>2, StoreTyped DEF TransferFails, Typed
  <2> QED
    BY <1>9, <2>4 DEF TransferFails, Typed
<1>10. ASSUME NEW t \in tasks, LocalUpload(t) \/ LocalUpdate(t) PROVE Typed'
  <2>1. Local \in Storage /\ t.path \in Path /\ t.data \in Variant \cup {None}
    BY DEF Storage, Typed, IsTask
  <2>2. store' \in Contents
    BY <1>10, <2>1, StoreTyped DEF LocalUpload, LocalUpdate
  <2> QED
    BY <1>10, <2>2 DEF LocalUpload, LocalUpdate, Typed
<1>11. ASSUME NEW t \in tasks, CloudUpload(t) \/ CloudUpdate(t) PROVE Typed'
  BY <1>11 DEF CloudUpload, CloudUpdate, Typed
<1>12. ASSUME UNCHANGED vars PROVE Typed'
  BY <1>12 DEF vars, Typed
<1> QED
  BY <1>1, <1>2, <1>3, <1>4, <1>5, <1>6, <1>7, <1>8, <1>9, <1>10, <1>11, <1>12
     DEF Next, Main, Work, Rest

-----------------------------------------------------------------------------
(* The phases. *)
Phased == Scanning /\ Reconciling /\ Pushing /\ Aborted

LEMMA OfStoreWith ==
  ASSUME Typed, NEW s \in Storage, NEW t, t.path \in Path, NEW v
  PROVE  /\ StoreWith(s, t, v)[s][t.path] = v
         /\ \A r \in Storage, q \in Path :
              (r # s \/ q # t.path) => StoreWith(s, t, v)[r][q] = store[r][q]
         /\ \A r \in Storage : r # s => StoreWith(s, t, v)[r] = store[r]
BY DEF Typed, Contents, StoreWith

LEMMA ScanStep ==
  ASSUME IInv, NEW p \in Path, Scan(p)
  PROVE  Phased'
<1>1. phase = "scan" /\ phase' = "scan"
  BY DEF Scan
<1>2. Scanning'
  <2> DEFINE v == [stat |-> listed[Local][p], cloud |-> Local, id |-> NewId(db)]
  <2>1. localMap' = Put(localMap, p, v) /\ v.stat = listed[Local][p]
    BY DEF Scan
  <2>2. UNCHANGED <<store, listed, tasks>> /\ left' = left \ {p} /\ p \in left
    BY DEF Scan
  <2> HIDE DEF v
  <2>3. /\ DOMAIN localMap' = DOMAIN localMap \cup {p} /\ localMap'[p].stat = v.stat
        /\ \A q \in DOMAIN localMap : q # p => localMap'[q] = localMap[q]
    BY <2>1 DEF Put
  <2>4. /\ store = listed /\ tasks = {}
        /\ \A q \in left : listed[Local][q] # None
        /\ \A q \in DOMAIN localMap : /\ listed[Local][q] # None
                                      /\ localMap[q].stat = listed[Local][q]
        /\ \A q \in Path : listed[Local][q] # None => q \in left \/ q \in DOMAIN localMap
    BY <1>1 DEF Scanning, IInv
  <2>5. \A q \in DOMAIN localMap' : /\ listed[Local][q] # None
                                    /\ localMap'[q].stat = listed[Local][q]
    BY <2>1, <2>2, <2>3, <2>4
  <2> QED
    BY <2>2, <2>3, <2>4, <2>5 DEF Scanning
<1> QED
  BY <1>1, <1>2 DEF Phased, Reconciling, Pushing, Aborted

LEMMA ScannedStep ==
  ASSUME IInv, Scanned
  PROVE  Phased'
<1>1. /\ phase = "scan" /\ phase' = "reconcile" /\ left = {}
      /\ left' = {p \in Path : In(listed, p) \cap Cloud # {}}
      /\ UNCHANGED <<listed, store, localMap, tasks, occupied>>
  BY DEF Scanned
<1>2. /\ store = listed /\ tasks = {}
      /\ \A p \in DOMAIN localMap : /\ listed[Local][p] # None
                                    /\ localMap[p].stat = listed[Local][p]
      /\ \A p \in Path : listed[Local][p] # None => p \in DOMAIN localMap
  BY <1>1 DEF IInv, Scanning
<1>3. \A p \in left' : Untouched(p)'
  BY <1>1, <1>2 DEF Untouched
<1>4. ASSUME NEW p \in DOMAIN localMap, p \notin left' PROVE LocalNewest(p)'
  <2>1. p \in Path /\ Local \in Storage
    BY DEF IInv, Typed, Storage
  <2>2. \A s \in Storage : listed[s][p] # None => s = Local
    BY <1>1, <1>4, <2>1 DEF In, Storage
  <2>3. listed[Local][p].time \in Nat
    BY <1>2, <2>1, Times DEF IInv
  <2> QED
    BY <1>1, <1>2, <2>2, <2>3 DEF LocalNewest
<1>5. Reconciling'
  BY <1>1, <1>2, <1>3, <1>4 DEF Reconciling
<1> QED
  BY <1>1, <1>5 DEF Phased, Scanning, Pushing, Aborted

LEMMA ReconcileStep ==
  ASSUME IInv, NEW p \in Path, NEW best \in Cloud, Reconcile(p, best)
  PROVE  Phased'
<1> DEFINE here == p \in DOMAIN localMap
           download == ~here \/ localMap[p].stat.time < listed[best][p].time
<1>1. /\ phase = "reconcile" /\ phase' = "reconcile" /\ p \in left
      /\ best \in BestIn(p) /\ left' = left \ {p}
      /\ UNCHANGED <<listed, store, occupied>>
  BY DEF Reconcile
<1>2. /\ \A c \in Cloud : store[c] = listed[c]
      /\ \A q \in left : Untouched(q)
      /\ \A t \in tasks : GoodDownload(t)
      /\ \A t, u \in tasks : t.path = u.path => t = u
      /\ \A q \in DOMAIN localMap :
           q \in left \/ q \in occupied \/ (\E t \in tasks : t.path = q) \/ LocalNewest(q)
  BY <1>1 DEF IInv, Reconciling
<1>3. Untouched(p) /\ Local \in Storage /\ best \in Storage
  BY <1>1, <1>2 DEF Storage
<1>4. \A t \in tasks : GoodDownload(t)'
  BY <1>1, <1>2 DEF GoodDownload, BestIn, In
<1>5. CASE download
  <2>1. PICK kind, id, v :
          /\ kind \in Downloads
          /\ tasks' = tasks \cup {Task(kind, p, best, id)}
          /\ localMap' = Put(localMap, p, v)
    BY <1>5 DEF Reconcile, Downloads
  <2>10. /\ DOMAIN localMap' = DOMAIN localMap \cup {p}
         /\ \A q \in DOMAIN localMap : q # p => localMap'[q] = localMap[q]
    BY <2>1 DEF Put
  <2> DEFINE new == Task(kind, p, best, id)
  <2>2. new.kind \in Downloads /\ new.path = p /\ new.cloud = best /\ new.data = None
    BY <2>1 DEF Task
  <2> HIDE DEF new
  <2>3. \A q \in left' : Untouched(q)'
    BY <1>1, <1>2, <2>10 DEF Untouched
  <2>4. listed[Local][p] # None => listed[Local][p].time < listed[best][p].time
    BY <1>3, <1>5 DEF Untouched
  <2>5. GoodDownload(new)'
    BY <1>1, <1>3, <2>2, <2>4 DEF GoodDownload, Untouched, BestIn, In
  <2>6. \A t \in tasks' : GoodDownload(t)'
    BY <1>4, <2>1, <2>5 DEF new
  <2>7. \A t, u \in tasks' : t.path = u.path => t = u
    BY <1>1, <1>2, <2>1, <2>2 DEF GoodDownload, new
  <2>8. \A q \in DOMAIN localMap' :
          q \in left' \/ q \in occupied' \/ (\E t \in tasks' : t.path = q) \/ LocalNewest(q)'
    <3> SUFFICES ASSUME NEW q \in DOMAIN localMap', q # p
                 PROVE  q \in left' \/ q \in occupied' \/ (\E t \in tasks' : t.path = q)
                        \/ LocalNewest(q)'
      BY <2>1, <2>2 DEF new
    <3>1. q \in DOMAIN localMap
      BY <2>10
    <3> QED
      BY <1>1, <1>2, <2>1, <3>1 DEF LocalNewest
  <2>9. Reconciling'
    BY <1>1, <1>2, <2>3, <2>6, <2>7, <2>8 DEF Reconciling
  <2> QED
    BY <1>1, <2>9 DEF Phased, Scanning, Pushing, Aborted
<1>6. CASE ~download
  <2>1. UNCHANGED <<tasks, localMap>>
    BY <1>6 DEF Reconcile
  <2>2. LocalNewest(p)
    <3>1. store[Local][p] = listed[Local][p] /\ store[Local][p] # None
      BY <1>3, <1>6 DEF Untouched
    <3>2. listed[best][p] # None /\ listed[best][p].time <= listed[Local][p].time
      <4>1. ~(listed[Local][p].time < listed[best][p].time)
        BY <1>3, <1>6 DEF Untouched
      <4>2. listed[best][p] # None
        BY <1>1, Bests
      <4>3. listed[best][p].time \in Nat /\ listed[Local][p].time \in Nat
        BY <1>3, <3>1, <4>2, Times DEF IInv
      <4> QED
        BY <4>1, <4>2, <4>3
    <3>3. ASSUME NEW c \in Cloud, store[c][p] # None
          PROVE  store[c][p].time <= store[Local][p].time
      <4>1. listed[c][p] = store[c][p] /\ c \in Storage
        BY <1>2 DEF Storage
      <4>2. listed[c][p].time <= listed[best][p].time
        BY <1>1, <3>3, <4>1, Bests
      <4>3. /\ listed[c][p].time \in Nat /\ listed[best][p].time \in Nat
            /\ listed[Local][p].time \in Nat
        BY <1>3, <3>1, <3>2, <3>3, <4>1, Times DEF IInv
      <4> QED
        BY <3>1, <3>2, <4>1, <4>2, <4>3
    <3>4. store[Local][p].time \in Nat
      BY <1>3, <3>1, Times DEF IInv
    <3> QED
      BY <3>1, <3>3, <3>4 DEF LocalNewest, Storage
  <2>3. \A q \in left' : Untouched(q)'
    BY <1>1, <1>2, <2>1 DEF Untouched
  <2>4. \A q \in DOMAIN localMap' :
          q \in left' \/ q \in occupied' \/ (\E t \in tasks' : t.path = q) \/ LocalNewest(q)'
    BY <1>1, <1>2, <2>1, <2>2 DEF LocalNewest
  <2>5. Reconciling'
    BY <1>1, <1>2, <1>4, <2>1, <2>3, <2>4 DEF Reconciling
  <2> QED
    BY <1>1, <2>5 DEF Phased, Scanning, Pushing, Aborted
<1> QED
  BY <1>5, <1>6

LEMMA DownloadedStep ==
  ASSUME IInv, Downloaded
  PROVE  Phased'
<1>1. /\ phase = "reconcile" /\ phase' = "push" /\ left = {} /\ tasks = {}
      /\ left' = DOMAIN localMap
      /\ UNCHANGED <<listed, store, localMap, tasks, occupied>>
  BY DEF Downloaded
<1>2. \A p \in DOMAIN localMap : p \in occupied \/ LocalNewest(p)
  BY <1>1 DEF IInv, Reconciling
<1>3. Pushing'
  BY <1>1, <1>2 DEF Pushing, LocalNewest
<1> QED
  BY <1>1, <1>3 DEF Phased, Scanning, Reconciling, Aborted

LEMMA PushStep ==
  ASSUME IInv, NEW p \in Path, Push(p)
  PROVE  Phased'
<1>1. /\ phase = "push" /\ phase' = "push" /\ p \in left /\ left' = left \ {p}
      /\ tasks' = IF p \in occupied THEN tasks ELSE tasks \cup Uploads(p)
      /\ UNCHANGED <<listed, store, localMap, occupied>>
  BY DEF Push
<1>2. /\ left \subseteq DOMAIN localMap
      /\ \A t \in tasks : t.kind \notin Downloads /\ LocalNewest(t.path)
      /\ \A q \in DOMAIN localMap : q \in occupied \/ LocalNewest(q)
  BY <1>1 DEF IInv, Pushing
<1>3. \A t \in Uploads(p) : t.kind \notin Downloads /\ t.path = p
  BY DEF Uploads, Task, Downloads
<1>4. \A t \in tasks' : t.kind \notin Downloads /\ LocalNewest(t.path)'
  BY <1>1, <1>2, <1>3 DEF LocalNewest
<1>5. Pushing'
  BY <1>1, <1>2, <1>4 DEF Pushing, LocalNewest
<1> QED
  BY <1>1, <1>5 DEF Phased, Scanning, Reconciling, Aborted

LEMMA LastSteps ==
  ASSUME IInv, Finish \/ \E p \in Path : PushThrows(p)
  PROVE  Phased'
<1>1. CASE Finish
  BY <1>1 DEF Finish, IInv, Phased, Scanning, Reconciling, Pushing, Aborted, LocalNewest
<1>2. ASSUME NEW p \in Path, PushThrows(p) PROVE Phased'
  BY <1>2 DEF PushThrows, Phased, Scanning, Reconciling, Pushing, Aborted
<1> QED
  BY <1>1, <1>2

(* A command is in progress while something is downloaded or spread. *)
LEMMA Working ==
  ASSUME IInv, NEW t \in tasks
  PROVE  /\ t.kind \in Kind /\ t.path \in Path /\ t.cloud \in Cloud
         /\ t.cloud \in Storage /\ Local \in Storage /\ t.cloud # Local
         /\ \/ phase = "reconcile" /\ GoodDownload(t)
            \/ phase \in {"push", "done"} /\ t.kind \notin Downloads /\ LocalNewest(t.path)
<1>1. t.kind \in Kind /\ t.path \in Path /\ t.cloud \in Cloud
  BY DEF IInv, Typed, IsTask
<1>2. phase # "scan" /\ phase # "aborted" /\ phase \in Phase
  BY DEF IInv, Scanning, Aborted, Typed
<1>3. CASE phase = "reconcile"
  BY <1>1, <1>3, InitialSyncAssumption DEF IInv, Reconciling, Storage
<1>4. CASE phase \in {"push", "done"}
  BY <1>1, <1>4, InitialSyncAssumption DEF IInv, Pushing, Storage
<1> QED
  BY <1>2, <1>3, <1>4 DEF Phase

(* To give a cloud the local variant changes nothing for the local one. *)
LEMMA Spreading ==
  ASSUME Typed, NEW t, t.path \in Path, t.cloud \in Storage, t.cloud # Local,
         LocalNewest(t.path), store' = StoreWith(t.cloud, t, store[Local][t.path]),
         NEW q \in Path, LocalNewest(q)
  PROVE  LocalNewest(q)'
<1>1. Local \in Storage
  BY DEF Storage
<1>2. /\ store'[t.cloud][t.path] = store[Local][t.path]
      /\ \A r \in Storage : (r # t.cloud \/ q # t.path) => store'[r][q] = store[r][q]
  BY OfStoreWith
<1>3. store'[Local][q] = store[Local][q] /\ store[Local][q].time \in Nat
  BY <1>1, <1>2, Times DEF LocalNewest
<1>4. ASSUME NEW s \in Storage, store'[s][q] # None
      PROVE  store'[s][q].time <= store'[Local][q].time
  <2>1. CASE s = t.cloud /\ q = t.path
    BY <1>2, <1>3, <2>1
  <2>2. CASE s # t.cloud \/ q # t.path
    BY <1>2, <1>3, <1>4, <2>2 DEF LocalNewest
  <2> QED
    BY <2>1, <2>2
<1> QED
  BY <1>3, <1>4 DEF LocalNewest

LEMMA TransferStep ==
  ASSUME IInv, NEW t \in tasks, Transfer(t)
  PROVE  Phased'
<1>1. IsTask(t)
  BY DEF IInv, Typed
<1>2. PICK new :
        /\ new.kind = t.kind /\ new.path = t.path /\ new.cloud = t.cloud
        /\ new.data = store[Source(t)][t.path]
        /\ UNCHANGED <<listed, localMap, occupied, phase, left>>
        /\ tasks' = (tasks \ {t}) \cup {new}
        /\ \/ store' = store
           \/ t.kind \notin Downloads /\ store' = StoreWith(t.cloud, t, new.data)
  <2>1. /\ Transferred(t).kind = t.kind /\ Transferred(t).path = t.path
        /\ Transferred(t).cloud = t.cloud /\ Transferred(t).data = store[Source(t)][t.path]
    BY <1>1 DEF Transferred, IsTask
  <2> QED
    BY <2>1 DEF Transfer, Reaches, Downloads
<1>3. CASE phase = "reconcile" /\ GoodDownload(t)
  <2>1. /\ \A c \in Cloud : store[c] = listed[c]
        /\ \A q \in left : Untouched(q)
        /\ \A u \in tasks : GoodDownload(u)
        /\ \A u, w \in tasks : u.path = w.path => u = w
        /\ \A q \in DOMAIN localMap :
             q \in left \/ q \in occupied \/ (\E u \in tasks : u.path = q) \/ LocalNewest(q)
    BY <1>3 DEF IInv, Reconciling
  <2>2. store' = store /\ new.data = listed[t.cloud][t.path]
    BY <1>2, <1>3, <2>1, Working DEF GoodDownload, Source
  <2>3. \A u \in tasks : GoodDownload(u)'
    BY <1>2, <2>1, <2>2 DEF GoodDownload, BestIn, In
  <2>4. GoodDownload(new)'
    BY <1>2, <1>3, <2>2 DEF GoodDownload, BestIn, In
  <2>5. \A u \in tasks' : GoodDownload(u)'
    BY <1>2, <2>3, <2>4 DEF GoodDownload
  <2>6. \A u, w \in tasks' : u.path = w.path => u = w
    BY <1>2, <2>1
  <2>7. \A q \in DOMAIN localMap' :
          q \in left' \/ q \in occupied' \/ (\E u \in tasks' : u.path = q) \/ LocalNewest(q)'
    BY <1>2, <2>1, <2>2 DEF LocalNewest
  <2>8. Reconciling'
    BY <1>2, <2>1, <2>2, <2>5, <2>6, <2>7 DEF Reconciling, Untouched
  <2> QED
    BY <1>2, <1>3, <2>8 DEF Phased, Scanning, Pushing, Aborted
<1>4. CASE phase \in {"push", "done"} /\ t.kind \notin Downloads /\ LocalNewest(t.path)
  <2>1. /\ left \subseteq DOMAIN localMap
        /\ \A u \in tasks : u.kind \notin Downloads /\ LocalNewest(u.path)
        /\ \A q \in DOMAIN localMap : q \in occupied \/ LocalNewest(q)
    BY <1>4 DEF IInv, Pushing
  <2>2. store' = store \/ store' = StoreWith(t.cloud, t, store[Local][t.path])
    BY <1>2, <1>4 DEF Source
  <2>3. \A q \in Path : LocalNewest(q) => LocalNewest(q)'
    <3>1. CASE store' = store
      BY <3>1 DEF LocalNewest
    <3>2. CASE store' = StoreWith(t.cloud, t, store[Local][t.path])
      BY <1>4, <3>2, Working, Spreading DEF IInv
    <3> QED
      BY <2>2, <3>1, <3>2
  <2>4. \A u \in tasks : u.path \in Path
    BY Working
  <2>5. \A u \in tasks' : u.kind \notin Downloads /\ LocalNewest(u.path)'
    BY <1>2, <1>4, <2>1, <2>3, <2>4
  <2>6. \A q \in DOMAIN localMap' : q \in occupied' \/ LocalNewest(q)'
    BY <1>2, <2>1, <2>3 DEF IInv, Typed
  <2> QED
    BY <1>2, <1>4, <2>1, <2>5, <2>6 DEF Phased, Scanning, Reconciling, Pushing, Aborted
<1> QED
  BY <1>3, <1>4, Working

LEMMA TransferFailsStep ==
  ASSUME IInv, NEW t \in tasks, TransferFails(t)
  PROVE  Phased'
<1>1. /\ UNCHANGED <<listed, localMap, phase, left>>
      /\ tasks' = tasks \ {t}
      /\ occupied' = occupied \cup {t.path}
      /\ \/ store' = store
         \/ /\ t.kind \notin Downloads
            /\ store' = StoreWith(t.cloud, t, Transferred(t).data)
  BY DEF TransferFails, Reaches, Downloads
<1>2. CASE phase = "reconcile" /\ GoodDownload(t)
  <2>1. /\ \A c \in Cloud : store[c] = listed[c]
        /\ \A q \in left : Untouched(q)
        /\ \A u \in tasks : GoodDownload(u)
        /\ \A u, w \in tasks : u.path = w.path => u = w
        /\ \A q \in DOMAIN localMap :
             q \in left \/ q \in occupied \/ (\E u \in tasks : u.path = q) \/ LocalNewest(q)
    BY <1>2 DEF IInv, Reconciling
  <2>2. store' = store
    BY <1>1, <1>2 DEF GoodDownload
  <2>3. \A u \in tasks : GoodDownload(u)'
    BY <1>1, <2>1, <2>2 DEF GoodDownload, BestIn, In
  <2>4. \A q \in DOMAIN localMap' :
          q \in left' \/ q \in occupied' \/ (\E u \in tasks' : u.path = q) \/ LocalNewest(q)'
    BY <1>1, <2>1, <2>2 DEF LocalNewest
  <2>5. Reconciling'
    BY <1>1, <2>1, <2>2, <2>3, <2>4 DEF Reconciling, Untouched
  <2> QED
    BY <1>1, <1>2, <2>5 DEF Phased, Scanning, Pushing, Aborted
<1>3. CASE phase \in {"push", "done"} /\ t.kind \notin Downloads /\ LocalNewest(t.path)
  <2>1. /\ left \subseteq DOMAIN localMap
        /\ \A u \in tasks : u.kind \notin Downloads /\ LocalNewest(u.path)
        /\ \A q \in DOMAIN localMap : q \in occupied \/ LocalNewest(q)
    BY <1>3 DEF IInv, Pushing
  <2>2. IsTask(t)
    BY DEF IInv, Typed
  <2>3. Transferred(t).data = store[Local][t.path]
    BY <1>3, <2>2 DEF Transferred, Source, IsTask
  <2>4. store' = store \/ store' = StoreWith(t.cloud, t, store[Local][t.path])
    BY <1>1, <2>3
  <2>5. \A q \in Path : LocalNewest(q) => LocalNewest(q)'
    <3>1. CASE store' = store
      BY <3>1 DEF LocalNewest
    <3>2. CASE store' = StoreWith(t.cloud, t, store[Local][t.path])
      BY <1>3, <3>2, Working, Spreading DEF IInv
    <3> QED
      BY <2>4, <3>1, <3>2
  <2>6. \A u \in tasks' : u.kind \notin Downloads /\ LocalNewest(u.path)'
    BY <1>1, <2>1, <2>5, Working
  <2>7. \A q \in DOMAIN localMap' : q \in occupied' \/ LocalNewest(q)'
    BY <1>1, <2>1, <2>5 DEF IInv, Typed
  <2> QED
    BY <1>1, <1>3, <2>1, <2>6, <2>7 DEF Phased, Scanning, Reconciling, Pushing, Aborted
<1> QED
  BY <1>2, <1>3, Working

(* What a finished download does to the local file. *)
LEMMA Arrival ==
  ASSUME IInv, NEW t \in tasks, LocalUpload(t) \/ LocalUpdate(t)
  PROVE  /\ phase = "reconcile" /\ GoodDownload(t)
         /\ t.data = listed[t.cloud][t.path] /\ t.data # None
         /\ store'[Local][t.path] = t.data
         /\ \A s \in Storage, q \in Path :
              (s # Local \/ q # t.path) => store'[s][q] = store[s][q]
         /\ \A c \in Cloud : store'[c] = store[c]
         /\ tasks' = tasks \ {t}
         /\ UNCHANGED <<listed, localMap, occupied, phase, left>>
<1>1. /\ t.kind \in Downloads /\ t.data # None
      /\ store' = StoreWith(Local, t, t.data)
      /\ tasks' = tasks \ {t}
      /\ UNCHANGED <<listed, localMap, occupied, phase, left>>
  BY DEF LocalUpload, LocalUpdate, Downloads
<1>2. phase = "reconcile" /\ GoodDownload(t) /\ t.path \in Path /\ Local \in Storage
  BY <1>1, Working
<1>3. /\ store'[Local][t.path] = t.data
      /\ \A s \in Storage, q \in Path :
           (s # Local \/ q # t.path) => store'[s][q] = store[s][q]
      /\ \A s \in Storage : s # Local => store'[s] = store[s]
  BY <1>1, <1>2, OfStoreWith DEF IInv
<1>4. \A c \in Cloud : c \in Storage /\ c # Local
  BY InitialSyncAssumption DEF Storage
<1> QED
  BY <1>1, <1>2, <1>3, <1>4 DEF GoodDownload

LEMMA ArrivalStep ==
  ASSUME IInv, NEW t \in tasks, LocalUpload(t) \/ LocalUpdate(t)
  PROVE  Phased'
<1>1. /\ phase = "reconcile" /\ GoodDownload(t)
      /\ t.data = listed[t.cloud][t.path] /\ t.data # None
      /\ store'[Local][t.path] = t.data
      /\ \A s \in Storage, q \in Path :
           (s # Local \/ q # t.path) => store'[s][q] = store[s][q]
      /\ \A c \in Cloud : store'[c] = store[c]
      /\ tasks' = tasks \ {t}
      /\ UNCHANGED <<listed, localMap, occupied, phase, left>>
  BY Arrival
<1>2. /\ \A c \in Cloud : store[c] = listed[c]
      /\ \A q \in left : Untouched(q)
      /\ \A u \in tasks : GoodDownload(u)
      /\ \A u, w \in tasks : u.path = w.path => u = w
      /\ \A q \in DOMAIN localMap :
           q \in left \/ q \in occupied \/ (\E u \in tasks : u.path = q) \/ LocalNewest(q)
  BY <1>1 DEF IInv, Reconciling
<1>3. t.path \in Path /\ Local \in Storage /\ left \subseteq Path /\ DOMAIN localMap \subseteq Path
  BY Working DEF IInv, Typed
<1>4. \A q \in Path : q # t.path => \A s \in Storage : store'[s][q] = store[s][q]
  BY <1>1
<1>5. \A q \in left' : Untouched(q)'
  BY <1>1, <1>2, <1>3, <1>4 DEF Untouched, GoodDownload
<1>6. ASSUME NEW u \in tasks' PROVE GoodDownload(u)'
  <2>1. u \in tasks /\ u.path # t.path
    BY <1>1, <1>2, <1>6
  <2>2. store'[Local][u.path] = store[Local][u.path]
    BY <1>3, <1>4, <2>1, Working
  <2> QED
    BY <1>1, <1>2, <2>1, <2>2 DEF GoodDownload, BestIn, In
<1>7. LocalNewest(t.path)'
  <2>1. ASSUME NEW c \in Cloud, store'[c][t.path] # None
        PROVE  store'[c][t.path].time <= store'[Local][t.path].time
    BY <1>1, <1>2, <1>3, <2>1, Bests DEF GoodDownload
  <2>2. t.data.time \in Nat
    BY <1>1, <1>3, Times, Working DEF IInv
  <2> QED
    BY <1>1, <2>1, <2>2 DEF LocalNewest, Storage
<1>8. \A q \in Path : q # t.path /\ LocalNewest(q) => LocalNewest(q)'
  BY <1>3, <1>4 DEF LocalNewest
<1>9. ASSUME NEW q \in DOMAIN localMap'
      PROVE  q \in left' \/ q \in occupied' \/ (\E u \in tasks' : u.path = q) \/ LocalNewest(q)'
  BY <1>1, <1>2, <1>3, <1>7, <1>8, <1>9
<1>10. Reconciling'
  BY <1>1, <1>2, <1>5, <1>6, <1>9 DEF Reconciling
<1> QED
  BY <1>1, <1>10 DEF Phased, Scanning, Pushing, Aborted

LEMMA SpreadStep ==
  ASSUME IInv, NEW t \in tasks, CloudUpload(t) \/ CloudUpdate(t)
  PROVE  Phased'
<1>1. /\ t.kind \notin Downloads /\ tasks' = tasks \ {t}
      /\ UNCHANGED <<listed, store, localMap, occupied, phase, left>>
  BY DEF CloudUpload, CloudUpdate, Downloads
<1>2. phase \in {"push", "done"}
  BY <1>1, Working DEF GoodDownload
<1>3. Pushing'
  BY <1>1, <1>2 DEF IInv, Pushing, LocalNewest
<1> QED
  BY <1>1, <1>2, <1>3 DEF Phased, Scanning, Reconciling, Aborted

LEMMA StutterStep ==
  ASSUME IInv, UNCHANGED vars
  PROVE  Phased'
<1>1. UNCHANGED <<listed, store, localMap, tasks, occupied, phase, left>>
  BY DEF vars
<1>2. Scanning' /\ Aborted'
  BY <1>1 DEF IInv, Scanning, Aborted
<1>3. Pushing'
  BY <1>1 DEF IInv, Pushing, LocalNewest
<1>4. Reconciling'
  BY <1>1 DEF IInv, Reconciling, Untouched, GoodDownload, BestIn, In, LocalNewest
<1> QED
  BY <1>2, <1>3, <1>4 DEF Phased

LEMMA IInvStep == IInv /\ [Next]_vars => IInv'
<1> SUFFICES ASSUME IInv, [Next]_vars PROVE IInv'
  OBVIOUS
<1>1. Typed'
  BY TypedStep DEF IInv
<1>2. ASSUME Main PROVE Phased'
  BY <1>2, ScanStep, ScannedStep, ReconcileStep, DownloadedStep, PushStep, LastSteps DEF Main
<1>3. ASSUME Work PROVE Phased'
  BY <1>3, TransferStep, TransferFailsStep, ArrivalStep, SpreadStep DEF Work
<1>4. ASSUME UNCHANGED vars PROVE Phased'
  BY <1>4, StutterStep
<1>5. Phased'
  BY <1>2, <1>3, <1>4 DEF Next, Rest
<1> QED
  BY <1>1, <1>5 DEF IInv, Phased

(* What the phases say of the local files holds always. *)
THEOREM PhasesKeep == Spec => []IInv
<1>1. Init => IInv
  BY InitIInv
<1>2. IInv /\ [Next]_vars => IInv'
  BY IInvStep
<1> QED
  BY <1>1, <1>2, PTL DEF Spec

-----------------------------------------------------------------------------
Older ==
  \A s \in Storage, p \in Path :
    store[s][p] # None => store'[s][p] # None /\ store[s][p].time <= store'[s][p].time

(* An upload replaces a cloud's variant by the local one, the newest. *)
LEMMA OlderUploaded ==
  ASSUME IInv, NEW t \in tasks, t.kind \notin Downloads,
         store' = StoreWith(t.cloud, t, Transferred(t).data)
  PROVE  Older
<1>1. IsTask(t) /\ Typed
  BY DEF IInv, Typed
<1>2. Transferred(t).data = store[Local][t.path]
  BY <1>1 DEF Transferred, Source, IsTask
<1>3. t.cloud \in Storage /\ t.path \in Path /\ LocalNewest(t.path) /\ Local \in Storage
  BY Working DEF GoodDownload
<1> SUFFICES ASSUME NEW s \in Storage, NEW p \in Path, store[s][p] # None
             PROVE  store'[s][p] # None /\ store[s][p].time <= store'[s][p].time
  BY DEF Older
<1>4. CASE s = t.cloud /\ p = t.path
  <2>1. store'[s][p] = store[Local][p]
    BY <1>1, <1>2, <1>3, <1>4, OfStoreWith
  <2> QED
    BY <1>3, <1>4, <2>1 DEF LocalNewest
<1>5. CASE s # t.cloud \/ p # t.path
  <2>1. store'[s][p] = store[s][p]
    BY <1>1, <1>3, <1>5, OfStoreWith
  <2>2. store[s][p].time \in Nat
    BY <1>1, Times
  <2> QED
    BY <2>1, <2>2
<1> QED
  BY <1>4, <1>5

(* A download replaces the local variant by a newer one. *)
LEMMA OlderArrived ==
  ASSUME IInv, NEW t \in tasks, LocalUpload(t) \/ LocalUpdate(t)
  PROVE  Older
<1>1. /\ GoodDownload(t) /\ t.data = listed[t.cloud][t.path] /\ t.data # None
      /\ store'[Local][t.path] = t.data
      /\ \A s \in Storage, q \in Path :
           (s # Local \/ q # t.path) => store'[s][q] = store[s][q]
  BY Arrival
<1>2. t.path \in Path /\ t.cloud \in Storage /\ Local \in Storage /\ Typed
  BY Working DEF IInv
<1> SUFFICES ASSUME NEW s \in Storage, NEW p \in Path, store[s][p] # None
             PROVE  store'[s][p] # None /\ store[s][p].time <= store'[s][p].time
  BY DEF Older
<1>3. store[s][p].time \in Nat
  BY <1>2, Times
<1>4. CASE s = Local /\ p = t.path
  <2>1. listed[Local][p] # None /\ store[s][p] = listed[Local][p]
    BY <1>1, <1>4 DEF GoodDownload
  <2>2. listed[Local][p].time < listed[t.cloud][p].time
    BY <1>1, <1>4, <2>1 DEF GoodDownload
  <2>3. listed[Local][p].time \in Nat /\ listed[t.cloud][p].time \in Nat
    BY <1>1, <1>2, <1>4, <2>1, Times
  <2> QED
    BY <1>1, <1>4, <2>1, <2>2, <2>3
<1>5. CASE s # Local \/ p # t.path
  BY <1>1, <1>3, <1>5
<1> QED
  BY <1>4, <1>5

LEMMA OlderKept ==
  ASSUME IInv, UNCHANGED store
  PROVE  Older
BY Times DEF IInv, Older

(* What a step does to the storages. *)
LEMMA Effects ==
  ASSUME IInv, [Next]_vars
  PROVE  /\ UNCHANGED listed
         /\ \/ UNCHANGED store
            \/ \E t \in tasks : /\ t.kind \notin Downloads
                               /\ store' = StoreWith(t.cloud, t, Transferred(t).data)
            \/ \E t \in tasks : LocalUpload(t) \/ LocalUpdate(t)
<1>1. CASE Main
  BY <1>1 DEF Main, Scan, Scanned, Reconcile, Downloaded, Push, PushThrows, Finish
<1>2. ASSUME NEW t \in tasks, Transfer(t) \/ TransferFails(t)
      PROVE  /\ UNCHANGED listed
             /\ \/ UNCHANGED store
                \/ /\ t.kind \notin Downloads
                   /\ store' = StoreWith(t.cloud, t, Transferred(t).data)
  BY <1>2 DEF Transfer, TransferFails, Reaches, Downloads
<1>3. ASSUME NEW t \in tasks, LocalUpload(t) \/ LocalUpdate(t) PROVE UNCHANGED listed
  BY <1>3 DEF LocalUpload, LocalUpdate
<1>4. ASSUME NEW t \in tasks, CloudUpload(t) \/ CloudUpdate(t)
      PROVE  UNCHANGED <<listed, store>>
  BY <1>4 DEF CloudUpload, CloudUpdate
<1>5. CASE UNCHANGED vars
  BY <1>5 DEF vars
<1> QED
  BY <1>1, <1>2, <1>3, <1>4, <1>5 DEF Next, Work, Rest

LEMMA OlderStep == IInv /\ [Next]_vars => Older
BY Effects, OlderKept, OlderUploaded, OlderArrived

(* The initial sync replaces no variant of a file, local or in a cloud, by  *)
(* an older one, whatever the storages contained, whichever commands fail   *)
(* and in whatever order the others run.                                   *)
THEOREM OlderReplaced == Spec => OnlyOlderReplaced
<1>1. IInv /\ [Next]_vars => [Older]_vars
  BY OlderStep
<1>2. Spec => [][Older]_vars
  BY <1>1, PhasesKeep, PTL DEF Spec
<1> QED
  BY <1>2, PTL DEF OnlyOlderReplaced, Older

-----------------------------------------------------------------------------
(* A storage contains nothing but what some storage contained.  With it,    *)
(* what replaces a newest variant is a newest variant.                     *)
FromListed ==
  \A s \in Storage, p \in Path :
    store[s][p] # None => \E r \in Storage : listed[r][p] = store[s][p]

LEMMA FromListedStep == IInv /\ FromListed /\ [Next]_vars => FromListed'
<1> SUFFICES ASSUME IInv, FromListed, [Next]_vars PROVE FromListed'
  OBVIOUS
<1>1. CASE UNCHANGED <<listed, store>>
  BY <1>1 DEF FromListed
<1>2. ASSUME NEW t \in tasks, t.kind \notin Downloads, UNCHANGED listed,
             store' = StoreWith(t.cloud, t, Transferred(t).data)
      PROVE  FromListed'
  <2>1. IsTask(t) /\ Typed
    BY DEF IInv, Typed
  <2>2. Transferred(t).data = store[Local][t.path]
    BY <1>2, <2>1 DEF Transferred, Source, IsTask
  <2>3. t.cloud \in Storage /\ t.path \in Path /\ Local \in Storage
    BY Working
  <2>4. /\ store'[t.cloud][t.path] = store[Local][t.path]
        /\ \A s \in Storage, q \in Path :
             (s # t.cloud \/ q # t.path) => store'[s][q] = store[s][q]
    BY <1>2, <2>1, <2>2, <2>3, OfStoreWith
  <2> QED
    BY <1>2, <2>3, <2>4 DEF FromListed
<1>3. ASSUME NEW t \in tasks, LocalUpload(t) \/ LocalUpdate(t) PROVE FromListed'
  <2>1. /\ t.data = listed[t.cloud][t.path] /\ UNCHANGED listed
        /\ store'[Local][t.path] = t.data
        /\ \A s \in Storage, q \in Path :
             (s # Local \/ q # t.path) => store'[s][q] = store[s][q]
    BY <1>3, Arrival
  <2>2. t.cloud \in Storage /\ Local \in Storage
    BY Working
  <2> QED
    BY <2>1, <2>2 DEF FromListed
<1> QED
  BY <1>1, <1>2, <1>3, Effects

LEMMA MinNat ==
  ASSUME NEW T, T \subseteq Nat, T # {}
  PROVE  \E x \in T : \A y \in T : x <= y
<1> DEFINE R == OpToRel(<, Nat)
<1>1. IsWellFoundedOn(R, Nat)
  BY NatLessThanWellFounded
<1>2. ASSUME NEW x \in Nat, NEW y \in Nat, <<y, x>> \notin R PROVE ~(y < x)
  BY <1>2 DEF OpToRel
<1> HIDE DEF R
<1>3. PICK x \in T : \A y \in T : ~ (<<y, x>> \in R)
  BY <1>1, WFMin
<1>4. \A y \in T : x \in Nat /\ y \in Nat /\ ~(y < x)
  <2>1. \A y \in T : x \in Nat /\ y \in Nat /\ <<y, x>> \notin R
    BY <1>3
  <2> QED
    BY <1>2, <2>1
<1>5. \A y \in T : x <= y
  BY <1>4
<1> QED
  BY <1>5

(* Times are bounded, so there is a newest variant of what exists. *)
LEMMA HasNewest ==
  ASSUME listed \in Contents, NEW p \in Path, In(listed, p) # {}
  PROVE  Newest(p) # {}
<1> DEFINE Age(s) == LastTime - listed[s][p].time
           T == {Age(s) : s \in In(listed, p)}
<1>1. \A s \in In(listed, p) : listed[s][p] \in Variant
  BY DEF In, Contents
<1>2. \A s \in In(listed, p) : listed[s][p].time \in 0..LastTime
  BY <1>1 DEF Variant, Time
<1>3. \A s \in In(listed, p) : Age(s) \in Nat
  BY <1>2, InitialSyncAssumption
<1>4. PICK a \in T : \A b \in T : a <= b
  BY <1>3, MinNat
<1>5. PICK s \in In(listed, p) : a = Age(s)
  BY <1>4
<1>6. \A o \in In(listed, p) : Age(s) <= Age(o)
  BY <1>4, <1>5
<1>7. \A o \in In(listed, p) : listed[o][p].time <= listed[s][p].time
  BY <1>2, <1>5, <1>6, InitialSyncAssumption
<1> QED
  BY <1>5, <1>7 DEF Newest

LEMMA NewestKeptInit == Init => FromListed /\ NewestKept
<1> SUFFICES ASSUME Init PROVE FromListed /\ NewestKept
  OBVIOUS
<1>1. listed \in Contents /\ store = listed
  BY InitialSyncAssumption DEF Init
<1>2. FromListed
  BY <1>1 DEF FromListed
<1>3. ASSUME NEW p \in Path, In(listed, p) # {}
      PROVE  \E s \in Storage : store[s][p] \in Newest(p)
  <2>1. PICK v : v \in Newest(p)
    BY <1>1, <1>3, HasNewest
  <2> QED
    BY <1>1, <2>1 DEF Newest, In
<1> QED
  BY <1>2, <1>3 DEF NewestKept

LEMMA NewestKeptStep == IInv /\ FromListed /\ NewestKept /\ [Next]_vars => NewestKept'
<1> SUFFICES ASSUME IInv, FromListed, NewestKept, [Next]_vars,
                    NEW p \in Path, In(listed', p) # {}
             PROVE  \E s \in Storage : store'[s][p] \in Newest(p)'
  BY DEF NewestKept, In
<1>1. UNCHANGED listed
  BY Effects
<1>2. Newest(p)' = Newest(p)
  BY <1>1 DEF Newest, In
<1>3. PICK s \in Storage : store[s][p] \in Newest(p)
  BY <1>1 DEF NewestKept
<1>4. PICK n \in In(listed, p) :
        /\ store[s][p] = listed[n][p]
        /\ \A o \in In(listed, p) : listed[o][p].time <= listed[n][p].time
  BY <1>3 DEF Newest
<1>5. store[s][p] # None
  BY <1>4 DEF In
<1>6. store'[s][p] # None /\ store[s][p].time <= store'[s][p].time
  BY <1>5, OlderStep DEF Older
<1>7. PICK r \in Storage : listed[r][p] = store'[s][p]
  BY <1>1, <1>6, FromListedStep DEF FromListed
<1>8. r \in In(listed, p)
  BY <1>6, <1>7 DEF In
<1>9. \A o \in In(listed, p) : listed[o][p].time \in Nat
  BY Times DEF IInv, In
<1>10. \A o \in In(listed, p) : listed[o][p].time <= listed[r][p].time
  <2>1. listed[n][p].time <= listed[r][p].time
    BY <1>4, <1>6, <1>7
  <2> QED
    BY <1>4, <1>8, <1>9, <2>1
<1>11. store'[s][p] \in Newest(p)
  BY <1>7, <1>8, <1>10 DEF Newest
<1> QED
  BY <1>2, <1>11

(* At every moment of an initial sync, and of one that was cut short, a     *)
(* newest variant of every file is in some storage.                        *)
THEOREM NewestStays == Spec => []NewestKept
<1>1. Init => FromListed /\ NewestKept
  BY NewestKeptInit
<1>2. IInv /\ FromListed /\ [Next]_vars => FromListed'
  BY FromListedStep
<1>3. IInv /\ FromListed /\ NewestKept /\ [Next]_vars => NewestKept'
  BY NewestKeptStep
<1> QED
  BY <1>1, <1>2, <1>3, PhasesKeep, PTL DEF Spec

-----------------------------------------------------------------------------
(* The database. *)

Tables(d) ==
  d = [files |-> d.files, links |-> d.links, lastId |-> d.lastId] /\ d.lastId \in Nat
PathOfRow(id) == db.files[id].path

DbTyped ==
  /\ Tables(db)
  /\ \A id \in DOMAIN db.files :
       /\ id \in 1..db.lastId
       /\ db.files[id] \in [path : Path, stat : Variant]
  /\ \A key \in DOMAIN db.links : /\ key \in (DOMAIN db.files) \X Cloud
                                  /\ db.links[key] \in Variant
  /\ \A p \in DOMAIN localMap :
       localMap[p] \in [stat : Variant, cloud : Storage, id : 0..db.lastId]
  /\ \A t \in tasks : t.id \in 0..db.lastId
  /\ occupied \subseteq Path

(* A local file has one row, with what is recorded of it; the ids that       *)
(* localMap and the commands carry are of these rows.                       *)
Rows ==
  /\ \A i, j \in DOMAIN db.files : PathOfRow(i) = PathOfRow(j) => i = j
  /\ \A id \in DOMAIN db.files : db.files[id].stat = store[Local][PathOfRow(id)]
  /\ \A p \in Path : store[Local][p] # None =>
       HasRow(db, p) \/ (phase = "scan" /\ p \in left)
  /\ phase = "scan" => \A p \in left : ~HasRow(db, p)
  /\ \A p \in DOMAIN localMap :
       IF listed[Local][p] # None THEN localMap[p].id \in RowsOf(db, p)
                                  ELSE localMap[p].id = 0
  /\ \A t \in tasks : IF t.kind = "downloadNew" THEN listed[Local][t.path] = None /\ ~HasRow(db, t.path)
                                                ELSE t.id \in RowsOf(db, t.path)

(* The variant to spread: where it was found, that it stays there, and when  *)
(* it is here.                                                             *)
Chosen ==
  /\ \A p \in DOMAIN localMap : localMap[p].cloud \in Cloud =>
       /\ listed[localMap[p].cloud][p] = localMap[p].stat
       /\ store[localMap[p].cloud][p] = localMap[p].stat
  /\ phase = "reconcile" =>
       /\ \A t \in tasks : t.path \in DOMAIN localMap /\ t.cloud = localMap[t.path].cloud
       /\ \A p \in Path : In(listed, p) # {} => p \in left \cup DOMAIN localMap
  /\ \A p \in DOMAIN localMap :
       \/ p \in occupied
       \/ phase = "reconcile" /\ \E t \in tasks : t.path = p
       \/ store[Local][p] = localMap[p].stat
  /\ phase \in {"push", "done"} =>
       \A p \in Path : In(listed, p) # {} => p \in DOMAIN localMap

(* A command that spreads a variant. *)
GoodSpread(t) ==
  /\ t.path \in (DOMAIN localMap) \ left
  /\ t.data \in {None, store[Local][t.path]}
  /\ t.data # None /\ Reaches(t) => store[t.cloud][t.path] = t.data
  /\ IF t.kind = "upload" THEN t.cloud \notin In(listed, t.path)
     ELSE t.cloud \in In(listed, t.path) /\ t.cloud # localMap[t.path].cloud

(* What the links say. *)
Links ==
  /\ \A key \in DOMAIN db.links : store[key[2]][PathOfRow(key[1])] # None
  /\ phase = "scan" => DOMAIN db.links = {}
  /\ \A key \in DOMAIN db.links :
       LET p == PathOfRow(key[1]) IN
       /\ phase = "reconcile" => p \notin left
       /\ phase = "reconcile" \/ (phase = "push" /\ p \in left) =>
            /\ p \in DOMAIN localMap
            /\ key[2] = localMap[p].cloud /\ db.links[key] = localMap[p].stat
       /\ phase \in {"push", "done"} /\ key[2] \notin In(listed, p) =>
            db.links[key] = store[Local][p]

(* A cloud whose updates go astray and that has another variant. *)
Unreached(p, c) == c \in Astray \cap In(listed, p) /\ c # localMap[p].cloud

(* A variant that has been pushed is on its way to each cloud, or is there   *)
(* and its link says so.                                                   *)
Spread ==
  phase \in {"push", "done"} =>
    /\ \A t \in tasks : GoodSpread(t)
    /\ \A p \in (DOMAIN localMap) \ left, c \in Cloud : \A id \in RowsOf(db, p) :
         /\ c \in In(listed, p) => <<id, c>> \in DOMAIN db.links
         /\ \/ p \in occupied
            \/ \E t \in tasks : t.path = p /\ t.cloud = c
            \/ /\ <<id, c>> \in DOMAIN db.links
               /\ \/ Unreached(p, c)
                  \/ store[c][p] = store[Local][p] /\ db.links[<<id, c>>] = store[c][p]

Ended == phase = "done" => tasks = {} /\ left = {}

(* No storage has an older variant of a file than the one that it had. *)
NeverOlder ==
  \A s \in Storage, p \in Path :
    listed[s][p] # None => store[s][p] # None /\ listed[s][p].time <= store[s][p].time

DbInv == DbTyped /\ Rows /\ Chosen /\ Links /\ Spread /\ Ended

-----------------------------------------------------------------------------
(* The tables. *)

LEMMA RowAdded ==
  ASSUME NEW d, Tables(d), \A id \in DOMAIN d.files : id \in 1..d.lastId,
         NEW p, NEW stat
  PROVE  LET e == WithFile(d, p, stat)
             n == NewId(d) IN
         /\ Tables(e) /\ e.links = d.links
         /\ e.lastId = d.lastId + 1 /\ n = d.lastId + 1
         /\ n \notin DOMAIN d.files /\ DOMAIN e.files = DOMAIN d.files \cup {n}
         /\ e.files[n] = [path |-> p, stat |-> stat]
         /\ \A id \in DOMAIN d.files : e.files[id] = d.files[id]
         /\ RowsOf(e, p) = RowsOf(d, p) \cup {n}
         /\ \A q : q # p => RowsOf(e, q) = RowsOf(d, q)
<1> DEFINE e == WithFile(d, p, stat)
           n == NewId(d)
           row == [path |-> p, stat |-> stat]
           new == Put(d.files, n, row)
<1>1. e = [files |-> new, links |-> d.links, lastId |-> d.lastId + 1]
  <2>1. e = [d EXCEPT !.files = new, !.lastId = n]
    BY DEF WithFile
  <2> HIDE DEF new
  <2> QED
    BY <2>1 DEF NewId, Tables
<1>2. Tables(e) /\ e.lastId = d.lastId + 1 /\ e.links = d.links /\ e.files = new
  BY <1>1 DEF Tables
<1>3. n = d.lastId + 1 /\ row.path = p /\ n \notin DOMAIN d.files
  BY DEF NewId, Tables
<1> HIDE DEF e, row, n
<1>4. /\ DOMAIN e.files = DOMAIN d.files \cup {n}
      /\ e.files[n] = row
      /\ \A id \in DOMAIN d.files : e.files[id] = d.files[id]
  BY <1>2, <1>3 DEF Put
<1>5. /\ RowsOf(e, p) = RowsOf(d, p) \cup {n}
      /\ \A q : q # p => RowsOf(e, q) = RowsOf(d, q)
  BY <1>3, <1>4 DEF RowsOf
<1> QED
  BY <1>2, <1>3, <1>4, <1>5 DEF e, n, row

LEMMA LinksAdded ==
  ASSUME NEW d, Tables(d), NEW id, NEW stats
  PROVE  LET e == WithLinks(d, id, stats) IN
         /\ Tables(e) /\ e.lastId = d.lastId /\ e.files = d.files
         /\ DOMAIN e.links = DOMAIN d.links \cup ({id} \X DOMAIN stats)
         /\ \A key \in DOMAIN d.links : e.links[key] = d.links[key]
         /\ \A c \in DOMAIN stats :
              <<id, c>> \notin DOMAIN d.links => e.links[<<id, c>>] = stats[c]
<1> DEFINE e == WithLinks(d, id, stats)
           links == [key \in DOMAIN d.links \cup ({id} \X DOMAIN stats) |->
                       IF key \in DOMAIN d.links THEN d.links[key] ELSE stats[key[2]]]
<1>1. e = [files |-> d.files, links |-> links, lastId |-> d.lastId]
  BY DEF WithLinks, Tables
<1>2. Tables(e) /\ e.lastId = d.lastId /\ e.files = d.files /\ e.links = links
  BY <1>1 DEF Tables
<1>3. /\ DOMAIN links = DOMAIN d.links \cup ({id} \X DOMAIN stats)
      /\ \A key \in DOMAIN d.links : links[key] = d.links[key]
      /\ \A c \in DOMAIN stats : <<id, c>> \notin DOMAIN d.links => links[<<id, c>>] = stats[c]
  OBVIOUS
<1> QED
  BY <1>2, <1>3

LEMMA LinkAdded ==
  ASSUME NEW d, Tables(d), NEW id, NEW c, NEW stat
  PROVE  LET e == WithLink(d, id, c, stat) IN
         /\ Tables(e) /\ e.lastId = d.lastId /\ e.files = d.files
         /\ DOMAIN e.links = DOMAIN d.links \cup {<<id, c>>}
         /\ \A key \in DOMAIN d.links : e.links[key] = d.links[key]
         /\ <<id, c>> \notin DOMAIN d.links => e.links[<<id, c>>] = stat
<1> DEFINE stats == [x \in {c} |-> stat]
<1>1. DOMAIN stats = {c} /\ stats[c] = stat /\ {id} \X {c} = {<<id, c>>}
  OBVIOUS
<1>2. WithLink(d, id, c, stat) = WithLinks(d, id, stats)
  BY DEF WithLink
<1> HIDE DEF stats
<1> QED
  BY <1>1, <1>2, LinksAdded

LEMMA LinkUpdated ==
  ASSUME NEW d, Tables(d), NEW id, NEW c, NEW stat
  PROVE  LET e == WithLinkUpdated(d, id, c, stat) IN
         /\ Tables(e) /\ e.lastId = d.lastId /\ e.files = d.files
         /\ DOMAIN e.links = DOMAIN d.links
         /\ \A key \in DOMAIN d.links :
              e.links[key] = IF key = <<id, c>> THEN stat ELSE d.links[key]
<1> DEFINE e == WithLinkUpdated(d, id, c, stat)
           links == [d.links EXCEPT ![<<id, c>>] = stat]
<1>1. CASE <<id, c>> \in DOMAIN d.links
  <2>1. e = [files |-> d.files, links |-> links, lastId |-> d.lastId]
    BY <1>1 DEF WithLinkUpdated, Tables
  <2>2. Tables(e) /\ e.lastId = d.lastId /\ e.files = d.files /\ e.links = links
    BY <2>1 DEF Tables
  <2> QED
    BY <2>2
<1>2. CASE <<id, c>> \notin DOMAIN d.links
  BY <1>2 DEF WithLinkUpdated
<1> QED
  BY <1>1, <1>2

LEMMA FileUpdated ==
  ASSUME NEW d, Tables(d),
         \A i \in DOMAIN d.files : d.files[i] \in [path : Path, stat : Variant],
         NEW id \in DOMAIN d.files, NEW stat \in Variant
  PROVE  LET e == WithFileUpdated(d, id, stat) IN
         /\ Tables(e) /\ e.lastId = d.lastId /\ e.links = d.links
         /\ DOMAIN e.files = DOMAIN d.files
         /\ \A i \in DOMAIN d.files : /\ e.files[i] \in [path : Path, stat : Variant]
                                      /\ e.files[i].path = d.files[i].path
                                      /\ e.files[i].stat = IF i = id THEN stat ELSE d.files[i].stat
<1> DEFINE e == WithFileUpdated(d, id, stat)
           files == [d.files EXCEPT ![id].stat = stat]
<1>1. e = [files |-> files, links |-> d.links, lastId |-> d.lastId]
  BY DEF WithFileUpdated, Tables
<1>2. Tables(e) /\ e.lastId = d.lastId /\ e.links = d.links /\ e.files = files
  BY <1>1 DEF Tables
<1>3. DOMAIN files = DOMAIN d.files
  OBVIOUS
<1>4. ASSUME NEW i \in DOMAIN d.files
      PROVE  /\ files[i] \in [path : Path, stat : Variant]
             /\ files[i].path = d.files[i].path
             /\ files[i].stat = IF i = id THEN stat ELSE d.files[i].stat
  BY <1>4
<1> QED
  BY <1>2, <1>3, <1>4

(* The row of a path. *)
LEMMA OneRow ==
  ASSUME Rows, NEW p, NEW id \in RowsOf(db, p)
  PROVE  /\ id \in DOMAIN db.files /\ PathOfRow(id) = p
         /\ RowsOf(db, p) = {id}
BY DEF Rows, RowsOf, PathOfRow

(* What a row says: there is a local file. *)
LEMMA RowIsHere ==
  ASSUME DbTyped, Rows, NEW p \in Path, HasRow(db, p)
  PROVE  store[Local][p] # None
<1>1. PICK id \in DOMAIN db.files : PathOfRow(id) = p
  BY DEF HasRow, RowsOf, PathOfRow
<1>2. db.files[id].stat \in Variant
  BY DEF DbTyped
<1> QED
  BY <1>1, <1>2, InitialSyncAssumption DEF Rows

LEMMA IdIsRow ==
  ASSUME DbTyped, Rows, NEW p \in DOMAIN localMap, HasId(p)
  PROVE  /\ IdOf(p) \in RowsOf(db, p) /\ RowsOf(db, p) = {IdOf(p)}
         /\ IdOf(p) \in DOMAIN db.files /\ IdOf(p) \in 1..db.lastId
<1>1. localMap[p].id # 0 => IdOf(p) \in RowsOf(db, p)
  BY DEF IdOf, Rows
<1>2. ASSUME localMap[p].id = 0 PROVE IdOf(p) \in RowsOf(db, p)
  <2>1. RowsOf(db, p) # {} /\ RowsOf(db, p) \subseteq Nat
    BY <1>2 DEF HasId, HasRow, RowsOf, DbTyped, Tables
  <2>2. PICK id \in RowsOf(db, p) : \A other \in RowsOf(db, p) : id <= other
    BY <2>1, MinNat
  <2>3. GlobalId(db, p) \in RowsOf(db, p)
    BY <2>2 DEF GlobalId
  <2> QED
    BY <1>2, <2>3 DEF IdOf
<1>3. IdOf(p) \in RowsOf(db, p)
  BY <1>1, <1>2
<1>4. IdOf(p) \in DOMAIN db.files /\ RowsOf(db, p) = {IdOf(p)}
  BY <1>3, OneRow
<1> QED
  BY <1>3, <1>4 DEF DbTyped

(* Where the variant to spread was found. *)
LEMMA ChosenWhere ==
  ASSUME Typed, DbTyped, Chosen, NEW p \in DOMAIN localMap
  PROVE  /\ p \in Path /\ localMap[p].stat \in Variant /\ localMap[p].stat # None
         /\ localMap[p].cloud \in Cloud =>
              /\ localMap[p].cloud \in In(listed, p)
              /\ listed[localMap[p].cloud][p] = localMap[p].stat
              /\ store[localMap[p].cloud][p] = localMap[p].stat
<1>1. localMap[p].stat \in Variant /\ localMap[p].stat # None
  BY InitialSyncAssumption DEF DbTyped
<1> QED
  BY <1>1 DEF Typed, Chosen, In, Storage

LEMMA NeverOlderStep == IInv /\ NeverOlder /\ [Next]_vars => NeverOlder'
<1> SUFFICES ASSUME IInv, NeverOlder, [Next]_vars,
                    NEW s \in Storage, NEW p \in Path, listed'[s][p] # None
             PROVE  store'[s][p] # None /\ listed'[s][p].time <= store'[s][p].time
  BY DEF NeverOlder
<1>1. listed' = listed
  BY Effects
<1>2. store[s][p] # None /\ listed[s][p].time <= store[s][p].time
  BY <1>1 DEF NeverOlder
<1>3. store'[s][p] # None /\ store[s][p].time <= store'[s][p].time
  BY <1>2, OlderStep DEF Older
<1>4. Typed'
  BY TypedStep DEF IInv
<1>5. listed[s][p].time \in Nat /\ store[s][p].time \in Nat
  BY <1>1, <1>2, Times DEF IInv
<1>6. store'[s][p].time \in Nat
  <2>1. \A v \in Variant : v.time \in Nat
    BY InitialSyncAssumption DEF Variant, Time
  <2> QED
    BY <1>3, <1>4, <2>1 DEF Typed, Contents
<1> QED
  BY <1>1, <1>2, <1>3, <1>5, <1>6

LEMMA DbInit == Init => DbInv /\ NeverOlder
<1> SUFFICES ASSUME Init PROVE DbInv /\ NeverOlder
  OBVIOUS
<1>1. /\ store = listed /\ localMap = <<>> /\ tasks = {} /\ occupied = {}
      /\ phase = "scan" /\ left = {p \in Path : listed[Local][p] # None}
      /\ db = [files |-> <<>>, links |-> <<>>, lastId |-> 0]
      /\ listed \in Contents
  BY InitialSyncAssumption DEF Init, EmptyDb
<1>2. DOMAIN localMap = {} /\ DOMAIN db.files = {} /\ DOMAIN db.links = {}
  BY <1>1
<1>3. Tables(db)
  BY <1>1 DEF Tables
<1>4. \A p : ~HasRow(db, p)
  BY <1>2 DEF HasRow, RowsOf
<1>5. \A v \in Variant : v.time \in Nat
  BY InitialSyncAssumption DEF Variant, Time
<1>6. NeverOlder
  <2>1. \A s \in Storage, p \in Path : listed[s][p] # None => listed[s][p].time \in Nat
    BY <1>1, <1>5 DEF Contents
  <2> QED
    BY <1>1, <2>1 DEF NeverOlder
<1>7. DbTyped
  BY <1>1, <1>2, <1>3 DEF DbTyped
<1>8. Rows
  BY <1>1, <1>2, <1>4 DEF Rows
<1>9. Chosen /\ Links /\ Spread /\ Ended
  BY <1>1, <1>2 DEF Chosen, Links, Spread, Ended
<1> QED
  BY <1>6, <1>7, <1>8, <1>9 DEF DbInv

-----------------------------------------------------------------------------
(* What the main thread does to it. *)

LEMMA ScanDb ==
  ASSUME IInv, DbInv, NEW p \in Path, Scan(p)
  PROVE  DbInv'
<1> DEFINE stat == listed[Local][p]
           n == NewId(db)
           v == [stat |-> stat, cloud |-> Local, id |-> n]
<1>1. /\ phase = "scan" /\ phase' = "scan" /\ p \in left /\ left' = left \ {p}
      /\ db' = WithFile(db, p, stat) /\ localMap' = Put(localMap, p, v)
      /\ UNCHANGED <<listed, store, tasks, occupied>>
  BY DEF Scan
<1>2. /\ store = listed /\ tasks = {} /\ stat # None
      /\ \A q \in DOMAIN localMap : listed[Local][q] # None
  BY <1>1 DEF IInv, Scanning
<1>3. stat \in Variant
  BY <1>2 DEF IInv, Typed, Contents, Storage
<1>4. /\ Tables(db) /\ \A id \in DOMAIN db.files : id \in 1..db.lastId
      /\ db.lastId \in Nat
  BY DEF DbInv, DbTyped, Tables
<1>5. /\ Tables(db') /\ db'.links = db.links /\ db'.lastId = db.lastId + 1
      /\ n = db.lastId + 1 /\ n \notin DOMAIN db.files
      /\ DOMAIN db'.files = DOMAIN db.files \cup {n}
      /\ db'.files[n] = [path |-> p, stat |-> stat]
      /\ \A id \in DOMAIN db.files : db'.files[id] = db.files[id]
      /\ RowsOf(db', p) = RowsOf(db, p) \cup {n}
      /\ \A q : q # p => RowsOf(db', q) = RowsOf(db, q)
  BY <1>1, <1>4, RowAdded
<1>6. v.id = n /\ v.stat = stat /\ v.cloud = Local
  OBVIOUS
<1>7. v \in [stat : Variant, cloud : Storage, id : 0..db'.lastId]
  BY <1>3, <1>4, <1>5 DEF Storage
<1> HIDE DEF v, n
<1>8. /\ DOMAIN localMap' = DOMAIN localMap \cup {p} /\ localMap'[p] = v
      /\ \A q \in DOMAIN localMap : q # p => localMap'[q] = localMap[q]
  BY <1>1 DEF Put
<1>9. ~HasRow(db, p) /\ RowsOf(db', p) = {n}
  BY <1>1, <1>5 DEF DbInv, Rows, HasRow
<1>10. DbTyped'
  <2>1. \A id \in DOMAIN db'.files :
          id \in 1..db'.lastId /\ db'.files[id] \in [path : Path, stat : Variant]
    BY <1>3, <1>4, <1>5 DEF DbInv, DbTyped
  <2>2. \A q \in DOMAIN localMap' :
          localMap'[q] \in [stat : Variant, cloud : Storage, id : 0..db'.lastId]
    <3>1. \A q \in DOMAIN localMap :
            localMap[q] \in [stat : Variant, cloud : Storage, id : 0..db'.lastId]
      BY <1>4, <1>5 DEF DbInv, DbTyped
    <3> QED
      BY <1>7, <1>8, <3>1
  <2> QED
    BY <1>1, <1>2, <1>5, <2>1, <2>2 DEF DbInv, DbTyped
<1>11. Rows'
  <2>1. \A i \in DOMAIN db.files : db'.files[i].path = PathOfRow(i) /\ PathOfRow(i) # p
    BY <1>5, <1>9 DEF PathOfRow, HasRow, RowsOf
  <2>2. db'.files[n].path = p /\ db'.files[n].stat = stat
    BY <1>5
  <2>3. \A i, j \in DOMAIN db'.files : db'.files[i].path = db'.files[j].path => i = j
    BY <1>5, <2>1, <2>2 DEF DbInv, Rows
  <2>4. \A id \in DOMAIN db'.files : db'.files[id].stat = store'[Local][db'.files[id].path]
    BY <1>1, <1>2, <1>5, <2>1, <2>2 DEF DbInv, Rows
  <2>5. \A q : q # p => HasRow(db', q) = HasRow(db, q)
    BY <1>5 DEF HasRow
  <2>6. HasRow(db', p)
    BY <1>9 DEF HasRow
  <2>7. \A q \in DOMAIN localMap' : listed'[Local][q] # None /\ localMap'[q].id \in RowsOf(db', q)
    BY <1>1, <1>2, <1>5, <1>6, <1>8, <1>9 DEF DbInv, Rows
  <2>8. \A q \in Path : store'[Local][q] # None => HasRow(db', q) \/ q \in left'
    BY <1>1, <2>5, <2>6 DEF DbInv, Rows
  <2>9. \A q \in left' : ~HasRow(db', q)
    BY <1>1, <2>5 DEF DbInv, Rows
  <2> QED
    BY <1>1, <1>2, <2>3, <2>4, <2>7, <2>8, <2>9 DEF Rows, PathOfRow
<1>12. Chosen'
  <2>1. \A q \in DOMAIN localMap : q # p =>
          /\ localMap[q].cloud \in Cloud =>
               /\ listed[localMap[q].cloud][q] = localMap[q].stat
               /\ store[localMap[q].cloud][q] = localMap[q].stat
          /\ q \in occupied \/ store[Local][q] = localMap[q].stat
    BY <1>1 DEF DbInv, Chosen
  <2>2. v.cloud \notin Cloud /\ store[Local][p] = v.stat
    BY <1>2, <1>6, InitialSyncAssumption
  <2> QED
    BY <1>1, <1>8, <2>1, <2>2 DEF Chosen
<1>13. Links'
  <2>1. DOMAIN db'.links = {}
    BY <1>1, <1>5 DEF DbInv, Links
  <2> QED
    BY <2>1 DEF Links
<1> QED
  BY <1>1, <1>10, <1>11, <1>12, <1>13 DEF DbInv, Spread, Ended

LEMMA ScannedDb ==
  ASSUME IInv, DbInv, Scanned
  PROVE  DbInv'
<1>1. /\ phase = "scan" /\ phase' = "reconcile" /\ left = {}
      /\ left' = {p \in Path : In(listed, p) \cap Cloud # {}}
      /\ UNCHANGED <<listed, store, db, localMap, tasks, occupied>>
  BY DEF Scanned
<1>2. /\ tasks = {} /\ DOMAIN db.links = {}
      /\ \A p \in Path : listed[Local][p] # None => p \in DOMAIN localMap
  BY <1>1 DEF IInv, Scanning, DbInv, Links
<1>3. DbTyped'
  BY <1>1 DEF DbInv, DbTyped
<1>4. Rows'
  BY <1>1, <1>2 DEF DbInv, Rows, PathOfRow
<1>5. Chosen'
  <2>1. \A p \in Path : In(listed, p) # {} => p \in left' \cup DOMAIN localMap
    BY <1>1, <1>2 DEF In, Storage
  <2> QED
    BY <1>1, <1>2, <2>1 DEF DbInv, Chosen, In
<1>6. Links'
  BY <1>1, <1>2 DEF Links
<1> QED
  BY <1>1, <1>3, <1>4, <1>5, <1>6 DEF DbInv, Spread, Ended

LEMMA ReconcileDb ==
  ASSUME IInv, DbInv, NEW p \in Path, NEW best \in Cloud, Reconcile(p, best)
  PROVE  DbInv'
<1> DEFINE here == p \in DOMAIN localMap
           download == ~here \/ localMap[p].stat.time < listed[best][p].time
           id == IF here THEN localMap[p].id ELSE 0
           kind == IF here THEN "downloadUpdate" ELSE "downloadNew"
           v == [stat |-> listed[best][p], cloud |-> best, id |-> id]
           new == Task(kind, p, best, id)
<1>1. /\ phase = "reconcile" /\ phase' = "reconcile" /\ p \in left
      /\ best \in BestIn(p) /\ left' = left \ {p}
      /\ UNCHANGED <<listed, store, db, occupied>>
      /\ IF download THEN tasks' = tasks \cup {new} /\ localMap' = Put(localMap, p, v)
                     ELSE tasks' = tasks /\ localMap' = localMap
  BY DEF Reconcile
<1>2. /\ Untouched(p) /\ \A t \in tasks : t.path # p
      /\ store[best] = listed[best]
  BY <1>1 DEF IInv, Reconciling, GoodDownload
<1>3. listed[best][p] # None /\ listed[best][p] \in Variant /\ best \in Storage
  BY <1>1, Bests, Times DEF IInv
<1>4. here <=> listed[Local][p] # None
  BY <1>2 DEF Untouched
<1>5. /\ here => id \in RowsOf(db, p) /\ id \in 0..db.lastId
      /\ ~here => id = 0 /\ ~HasRow(db, p) /\ id \in 0..db.lastId
  <2>1. here => id \in RowsOf(db, p) /\ id \in 0..db.lastId
    BY <1>4 DEF DbInv, DbTyped, Rows
  <2>2. ~here => store[Local][p] = None
    BY <1>2, <1>4 DEF Untouched
  <2>3. ~here => ~HasRow(db, p)
    BY <2>2, RowIsHere DEF DbInv
  <2> QED
    BY <2>1, <2>3 DEF DbInv, DbTyped, Tables
<1>6. /\ new.kind = kind /\ new.path = p /\ new.cloud = best /\ new.id = id
      /\ v.stat = listed[best][p] /\ v.cloud = best /\ v.id = id
  BY DEF Task
<1>7. v \in [stat : Variant, cloud : Storage, id : 0..db.lastId]
  BY <1>3, <1>5
<1>14. kind = "downloadNew" <=> ~here
  OBVIOUS
<1> HIDE DEF v, new, id, kind
<1>8. /\ DOMAIN localMap' = DOMAIN localMap \cup {p}
      /\ \A q \in DOMAIN localMap : q # p => localMap'[q] = localMap[q]
      /\ localMap'[p] = IF download THEN v ELSE localMap[p]
  BY <1>1 DEF Put
<1>9. tasks' = IF download THEN tasks \cup {new} ELSE tasks
  BY <1>1
<1>15. UNCHANGED <<phase, listed, store, db, occupied>> /\ left' = left \ {p}
  BY <1>1
<1> HIDE DEF download, here
<1>10. DbTyped'
  <2>1. \A q \in DOMAIN localMap' :
          localMap'[q] \in [stat : Variant, cloud : Storage, id : 0..db.lastId]
    BY <1>7, <1>8 DEF DbInv, DbTyped, here, download
  <2>2. \A t \in tasks' : t.id \in 0..db.lastId
    BY <1>5, <1>6, <1>9 DEF DbInv, DbTyped
  <2> QED
    BY <1>15, <2>1, <2>2 DEF DbInv, DbTyped
<1>11. Rows'
  <2>1. \A q \in DOMAIN localMap' :
          IF listed[Local][q] # None THEN localMap'[q].id \in RowsOf(db, q)
                                     ELSE localMap'[q].id = 0
    BY <1>4, <1>5, <1>6, <1>8 DEF DbInv, Rows, here, download
  <2>2. \A t \in tasks' :
          IF t.kind = "downloadNew" THEN listed[Local][t.path] = None /\ ~HasRow(db, t.path)
                                    ELSE t.id \in RowsOf(db, t.path)
    BY <1>4, <1>5, <1>6, <1>9, <1>14 DEF DbInv, Rows
  <2> QED
    BY <1>1, <1>15, <2>1, <2>2 DEF DbInv, Rows, PathOfRow
<1>12. Chosen'
  <2>1. \A q \in DOMAIN localMap' : localMap'[q].cloud \in Cloud =>
          /\ listed[localMap'[q].cloud][q] = localMap'[q].stat
          /\ store[localMap'[q].cloud][q] = localMap'[q].stat
    BY <1>2, <1>6, <1>8 DEF DbInv, Chosen, here, download
  <2>2. \A t \in tasks' : t.path \in DOMAIN localMap' /\ t.cloud = localMap'[t.path].cloud
    <3>1. \A t \in tasks : t.path \in DOMAIN localMap /\ t.cloud = localMap[t.path].cloud
      BY <1>1 DEF DbInv, Chosen
    <3> QED
      BY <1>2, <1>6, <1>8, <1>9, <3>1
  <2>3. \A q \in Path : In(listed, q) # {} => q \in left' \cup DOMAIN localMap'
    BY <1>1, <1>8 DEF DbInv, Chosen
  <2>4. \A q \in DOMAIN localMap' :
          q \in occupied \/ (\E t \in tasks' : t.path = q) \/ store[Local][q] = localMap'[q].stat
    <3>1. \A q \in DOMAIN localMap :
            q \in occupied \/ (\E t \in tasks : t.path = q) \/ store[Local][q] = localMap[q].stat
      BY DEF DbInv, Chosen
    <3> QED
      BY <1>6, <1>8, <1>9, <3>1 DEF here, download
  <2> QED
    BY <1>1, <1>15, <2>1, <2>2, <2>3, <2>4 DEF Chosen, In
<1>13. Links'
  <2>1. \A key \in DOMAIN db.links :
          /\ PathOfRow(key[1]) \notin left
          /\ PathOfRow(key[1]) \in DOMAIN localMap
          /\ key[2] = localMap[PathOfRow(key[1])].cloud
          /\ db.links[key] = localMap[PathOfRow(key[1])].stat
          /\ store[key[2]][PathOfRow(key[1])] # None
    BY <1>1 DEF DbInv, Links
  <2>2. \A key \in DOMAIN db.links :
          /\ PathOfRow(key[1]) \notin left'
          /\ PathOfRow(key[1]) \in DOMAIN localMap'
          /\ key[2] = localMap'[PathOfRow(key[1])].cloud
          /\ db.links[key] = localMap'[PathOfRow(key[1])].stat
    BY <1>1, <1>8, <2>1
  <2> QED
    BY <1>1, <2>1, <2>2 DEF Links, PathOfRow
<1> QED
  BY <1>1, <1>10, <1>11, <1>12, <1>13 DEF DbInv, Spread, Ended

LEMMA DownloadedDb ==
  ASSUME IInv, DbInv, Downloaded
  PROVE  DbInv'
<1>1. /\ phase = "reconcile" /\ phase' = "push" /\ left = {} /\ tasks = {}
      /\ left' = DOMAIN localMap
      /\ UNCHANGED <<listed, store, db, localMap, tasks, occupied>>
  BY DEF Downloaded
<1>2. DbTyped'
  BY <1>1 DEF DbInv, DbTyped
<1>3. Rows'
  BY <1>1 DEF DbInv, Rows, PathOfRow
<1>4. Chosen'
  BY <1>1 DEF DbInv, Chosen, In
<1>5. Links'
  <2>1. ASSUME NEW key \in DOMAIN db.links
        PROVE  /\ PathOfRow(key[1]) \in DOMAIN localMap
               /\ key[2] = localMap[PathOfRow(key[1])].cloud
               /\ db.links[key] = localMap[PathOfRow(key[1])].stat
               /\ store[key[2]][PathOfRow(key[1])] # None
               /\ key[2] \in In(listed, PathOfRow(key[1]))
    <3>1. /\ PathOfRow(key[1]) \in DOMAIN localMap
          /\ key[2] = localMap[PathOfRow(key[1])].cloud
          /\ db.links[key] = localMap[PathOfRow(key[1])].stat
          /\ store[key[2]][PathOfRow(key[1])] # None
      BY <1>1 DEF DbInv, Links
    <3>2. key[2] \in Cloud
      BY DEF DbInv, DbTyped
    <3> QED
      BY <3>1, <3>2, ChosenWhere DEF DbInv, IInv
  <2> QED
    BY <1>1, <2>1 DEF Links, PathOfRow, In
<1>6. Spread' /\ Ended'
  BY <1>1 DEF Spread, Ended
<1> QED
  BY <1>2, <1>3, <1>4, <1>5, <1>6 DEF DbInv

(* Only the phase changes, and there is nothing to be done any more. *)
LEMMA LastDb ==
  ASSUME IInv, DbInv, Finish \/ \E p \in Path : PushThrows(p)
  PROVE  DbInv'
<1>1. CASE Finish
  <2>1. /\ phase = "push" /\ phase' = "done" /\ left = {} /\ tasks = {}
        /\ UNCHANGED <<listed, store, db, localMap, tasks, occupied, left>>
    BY <1>1 DEF Finish
  <2>2. DbTyped'
    BY <2>1 DEF DbInv, DbTyped
  <2>3. Rows'
    BY <2>1 DEF DbInv, Rows, PathOfRow
  <2>4. Chosen'
    BY <2>1 DEF DbInv, Chosen, In
  <2>5. Links'
    BY <2>1 DEF DbInv, Links, PathOfRow, In
  <2>6. Spread' /\ Ended'
    BY <2>1 DEF DbInv, Spread, Ended, GoodSpread, Unreached, In
  <2> QED
    BY <2>2, <2>3, <2>4, <2>5, <2>6 DEF DbInv
<1>2. ASSUME NEW p \in Path, PushThrows(p) PROVE DbInv'
  <2>1. /\ phase = "push" /\ phase' = "aborted" /\ tasks' = {}
        /\ UNCHANGED <<listed, store, db, localMap, occupied, left>>
    BY <1>2 DEF PushThrows
  <2>2. DbTyped'
    BY <2>1 DEF DbInv, DbTyped
  <2>3. Rows'
    BY <2>1 DEF DbInv, Rows, PathOfRow
  <2>4. Chosen'
    BY <2>1 DEF DbInv, Chosen
  <2>5. Links' /\ Spread' /\ Ended'
    BY <2>1 DEF DbInv, Links, Spread, Ended, PathOfRow
  <2> QED
    BY <2>2, <2>3, <2>4, <2>5 DEF DbInv
<1> QED
  BY <1>1, <1>2

LEMMA PushDb ==
  ASSUME IInv, DbInv, NeverOlder, NEW p \in Path, Push(p)
  PROVE  DbInv'
<1> DEFINE id == IdOf(p)
           links == ListedLinks(p)
<1>1. /\ phase = "push" /\ phase' = "push" /\ p \in left /\ HasId(p)
      /\ left' = left \ {p}
      /\ db' = WithLinks(db, id, links)
      /\ tasks' = IF p \in occupied THEN tasks ELSE tasks \cup Uploads(p)
      /\ UNCHANGED <<listed, store, localMap, occupied>>
  BY DEF Push
<1>2. p \in DOMAIN localMap
  BY <1>1 DEF IInv, Pushing
<1>3. /\ id \in RowsOf(db, p) /\ RowsOf(db, p) = {id}
      /\ id \in DOMAIN db.files /\ id \in 1..db.lastId /\ PathOfRow(id) = p
  BY <1>1, <1>2, IdIsRow, OneRow DEF DbInv
<1>4. /\ localMap[p].stat \in Variant
      /\ localMap[p].cloud \in Cloud =>
           /\ localMap[p].cloud \in In(listed, p)
           /\ store[localMap[p].cloud][p] = localMap[p].stat
  BY <1>2, ChosenWhere DEF DbInv, IInv
<1>5. /\ DOMAIN links = Cloud \cap In(listed, p)
      /\ \A c \in DOMAIN links :
           links[c] = IF c = localMap[p].cloud THEN localMap[p].stat ELSE listed[c][p]
  BY DEF ListedLinks
<1>6. \A c \in DOMAIN links : links[c] \in Variant /\ store[c][p] # None
  BY <1>4, <1>5, Times DEF IInv, NeverOlder, In
<1>7. \A t \in Uploads(p) :
        /\ t.kind \in {"upload", "update"} /\ t.path = p /\ t.id = id /\ t.data = None
        /\ t.cloud \in Cloud
        /\ IF t.kind = "upload" THEN t.cloud \notin In(listed, p)
           ELSE t.cloud \in In(listed, p) /\ t.cloud # localMap[p].cloud
  BY DEF Uploads, Task
<1>8. \A c \in Cloud : \/ c \in In(listed, p) /\ c = localMap[p].cloud
                       \/ \E t \in Uploads(p) : t.path = p /\ t.cloud = c
  <2> SUFFICES ASSUME NEW c \in Cloud, c \notin In(listed, p) \/ c # localMap[p].cloud
               PROVE  \E t \in Uploads(p) : t.path = p /\ t.cloud = c
    OBVIOUS
  <2>1. Task("upload", p, c, id) \in Uploads(p) \/ Task("update", p, c, id) \in Uploads(p)
    BY DEF Uploads
  <2> QED
    BY <2>1 DEF Task
<1> HIDE DEF id, links
<1>9. /\ Tables(db') /\ db'.lastId = db.lastId /\ db'.files = db.files
      /\ DOMAIN db'.links = DOMAIN db.links \cup ({id} \X DOMAIN links)
      /\ \A key \in DOMAIN db.links : db'.links[key] = db.links[key]
      /\ \A c \in DOMAIN links :
           <<id, c>> \notin DOMAIN db.links => db'.links[<<id, c>>] = links[c]
  BY <1>1, LinksAdded DEF DbInv, DbTyped
<1>10. \A q : RowsOf(db', q) = RowsOf(db, q) /\ (HasRow(db', q) <=> HasRow(db, q))
  BY <1>9 DEF RowsOf, HasRow
<1>11. \A i : PathOfRow(i)' = PathOfRow(i)
  BY <1>9 DEF PathOfRow
<1>12. ASSUME NEW key \in DOMAIN db'.links, key \notin DOMAIN db.links
       PROVE  /\ key[2] \in DOMAIN links /\ key = <<id, key[2]>> /\ key[1] = id
              /\ key[2] \in Cloud /\ key[2] \in In(listed, p)
              /\ db'.links[key] = links[key[2]]
  <2>1. key \in {id} \X DOMAIN links
    BY <1>9, <1>12
  <2>2. key[1] = id /\ key[2] \in DOMAIN links /\ key = <<id, key[2]>>
    BY <2>1
  <2>3. db'.links[<<id, key[2]>>] = links[key[2]]
    BY <1>9, <1>12, <2>2
  <2> QED
    BY <1>5, <2>2, <2>3
<1>13. DbTyped'
  <2>1. \A key \in DOMAIN db'.links : /\ key \in (DOMAIN db'.files) \X Cloud
                                      /\ db'.links[key] \in Variant
    <3> SUFFICES ASSUME NEW key \in DOMAIN db'.links
                 PROVE  key \in (DOMAIN db.files) \X Cloud /\ db'.links[key] \in Variant
      BY <1>9
    <3>1. CASE key \in DOMAIN db.links
      BY <1>9, <3>1 DEF DbInv, DbTyped
    <3>2. CASE key \notin DOMAIN db.links
      BY <1>3, <1>6, <1>12, <3>2
    <3> QED
      BY <3>1, <3>2
  <2>2. \A t \in tasks' : t.id \in 0..db'.lastId
    BY <1>1, <1>3, <1>7, <1>9 DEF DbInv, DbTyped
  <2> QED
    BY <1>1, <1>9, <2>1, <2>2 DEF DbInv, DbTyped
<1>14. Rows'
  <2>1. \A t \in tasks' :
          IF t.kind = "downloadNew" THEN listed[Local][t.path] = None /\ ~HasRow(db, t.path)
                                    ELSE t.id \in RowsOf(db, t.path)
    BY <1>1, <1>3, <1>7 DEF DbInv, Rows
  <2> QED
    BY <1>1, <1>9, <1>10, <1>11, <2>1 DEF DbInv, Rows
<1>15. Chosen'
  BY <1>1 DEF DbInv, Chosen, In
<1>16. Links'
  <2> SUFFICES ASSUME NEW key \in DOMAIN db'.links
               PROVE  /\ store[key[2]][PathOfRow(key[1])] # None
                      /\ PathOfRow(key[1]) \in left' =>
                           /\ PathOfRow(key[1]) \in DOMAIN localMap
                           /\ key[2] = localMap[PathOfRow(key[1])].cloud
                           /\ db'.links[key] = localMap[PathOfRow(key[1])].stat
                      /\ key[2] \notin In(listed, PathOfRow(key[1])) =>
                           db'.links[key] = store[Local][PathOfRow(key[1])]
    BY <1>1, <1>11 DEF Links, In
  <2>1. CASE key \in DOMAIN db.links
    BY <1>1, <1>9, <2>1 DEF DbInv, Links
  <2>2. CASE key \notin DOMAIN db.links
    BY <1>1, <1>3, <1>6, <1>12, <2>2
  <2> QED
    BY <2>1, <2>2
<1>17. Spread'
  <2>1. \A t \in tasks : GoodSpread(t)'
    BY <1>1 DEF DbInv, Spread, GoodSpread, Reaches, In
  <2>2. \A t \in Uploads(p) : GoodSpread(t)'
    BY <1>1, <1>2, <1>7 DEF GoodSpread, In
  <2>3. \A t \in tasks' : GoodSpread(t)'
    BY <1>1, <2>1, <2>2
  <2>4. ASSUME NEW q \in (DOMAIN localMap) \ left', NEW c \in Cloud, NEW i \in RowsOf(db, q)
        PROVE  /\ c \in In(listed, q) => <<i, c>> \in DOMAIN db'.links
               /\ \/ q \in occupied
                  \/ \E t \in tasks' : t.path = q /\ t.cloud = c
                  \/ /\ <<i, c>> \in DOMAIN db'.links
                     /\ \/ Unreached(q, c)
                        \/ store[c][q] = store[Local][q] /\ db'.links[<<i, c>>] = store[c][q]
    <3>1. CASE q # p
      <4>1. q \in (DOMAIN localMap) \ left
        BY <1>1, <3>1
      <4>2. /\ c \in In(listed, q) => <<i, c>> \in DOMAIN db.links
            /\ \/ q \in occupied
               \/ \E t \in tasks : t.path = q /\ t.cloud = c
               \/ /\ <<i, c>> \in DOMAIN db.links
                  /\ \/ Unreached(q, c)
                     \/ store[c][q] = store[Local][q] /\ db.links[<<i, c>>] = store[c][q]
        BY <1>1, <4>1 DEF DbInv, Spread
      <4>3. tasks \subseteq tasks'
        BY <1>1
      <4> QED
        BY <1>9, <4>2, <4>3
    <3>2. CASE q = p
      <4>1. i = id
        BY <1>3, <3>2
      <4>2. c \in In(listed, p) => <<i, c>> \in DOMAIN db'.links
        BY <1>5, <1>9, <4>1
      <4>3. ASSUME p \notin occupied, c \in In(listed, p), c = localMap[p].cloud
            PROVE  store[c][p] = store[Local][p] /\ db'.links[<<i, c>>] = store[c][p]
        <5>1. store[c][p] = localMap[p].stat
          BY <1>4, <4>3
        <5>2. store[Local][p] = localMap[p].stat
          BY <1>1, <1>2, <4>3 DEF DbInv, Chosen
        <5>3. db'.links[<<i, c>>] = localMap[p].stat
          <6>1. CASE <<i, c>> \in DOMAIN db.links
            <7>1. db.links[<<i, c>>] = localMap[p].stat
              <8>1. <<i, c>>[1] = i /\ PathOfRow(i) = p
                BY <1>3, <4>1
              <8> QED
                BY <1>1, <6>1, <8>1 DEF DbInv, Links
            <7> QED
              BY <1>9, <6>1, <7>1
          <6>2. CASE <<i, c>> \notin DOMAIN db.links
            BY <1>5, <1>9, <4>1, <4>3, <6>2
          <6> QED
            BY <6>1, <6>2
        <5> QED
          BY <5>1, <5>2, <5>3
      <4> QED
        BY <1>1, <1>8, <3>2, <4>2, <4>3
    <3> QED
      BY <3>1, <3>2
  <2> QED
    BY <1>1, <1>10, <2>3, <2>4 DEF Spread, Unreached, In
<1>18. Ended'
  BY <1>1 DEF Ended
<1> QED
  BY <1>13, <1>14, <1>15, <1>16, <1>17, <1>18 DEF DbInv

-----------------------------------------------------------------------------
(* What the workers do to it. *)

(* A command that spreads a variant is not of the storage it was found in.  *)
LEMMA SpreadsElsewhere ==
  ASSUME IInv, DbInv, NEW t \in tasks, t.kind \notin Downloads
  PROVE  /\ phase \in {"push", "done"} /\ GoodSpread(t) /\ LocalNewest(t.path)
         /\ t.kind \in {"upload", "update"}
         /\ t.path \in Path /\ t.cloud \in Cloud /\ t.cloud \in Storage /\ t.cloud # Local
         /\ t.path \in DOMAIN localMap /\ t.path \notin left
         /\ t.cloud # localMap[t.path].cloud
<1>1. /\ phase \in {"push", "done"} /\ LocalNewest(t.path)
      /\ t.kind \in Kind /\ t.path \in Path /\ t.cloud \in Cloud /\ t.cloud \in Storage
      /\ t.cloud # Local
  BY Working DEF GoodDownload
<1>2. GoodSpread(t) /\ t.kind \in {"upload", "update"}
  BY <1>1 DEF DbInv, Spread, Kind, Downloads
<1>3. t.path \in DOMAIN localMap /\ t.path \notin left
  BY <1>2 DEF GoodSpread
<1>4. t.cloud # localMap[t.path].cloud
  BY <1>1, <1>2, <1>3, ChosenWhere DEF GoodSpread, DbInv, IInv
<1> QED
  BY <1>1, <1>2, <1>3, <1>4

(* The local variant gets to a cloud, or not; nothing else is written. *)
LEMMA ReachedDb ==
  ASSUME IInv, DbInv, NEW t \in tasks, t.kind \notin Downloads,
         UNCHANGED <<listed, db, localMap, phase, left>>,
         occupied \subseteq occupied', occupied' \subseteq Path,
         \A u \in tasks' \ tasks :
           /\ u.kind = t.kind /\ u.path = t.path /\ u.cloud = t.cloud /\ u.id = t.id
           /\ u.data = store[Local][t.path]
           /\ Reaches(t) => store' = StoreWith(t.cloud, t, store[Local][t.path]),
         \A u \in tasks : u # t => u \in tasks',
         t.path \in occupied' \/ (\E u \in tasks' : u.path = t.path /\ u.cloud = t.cloud),
         store' = store \/ store' = StoreWith(t.cloud, t, store[Local][t.path])
  PROVE  /\ DbTyped' /\ Rows' /\ Chosen' /\ Links' /\ Spread'
<1>1. /\ phase \in {"push", "done"} /\ GoodSpread(t) /\ LocalNewest(t.path)
      /\ t.kind \in {"upload", "update"}
      /\ t.path \in Path /\ t.cloud \in Cloud /\ t.cloud \in Storage /\ t.cloud # Local
      /\ t.path \in DOMAIN localMap /\ t.path \notin left
      /\ t.cloud # localMap[t.path].cloud
  BY SpreadsElsewhere
<1>2. /\ store[Local][t.path] # None /\ Local \in Storage /\ DOMAIN localMap \subseteq Path
      /\ \A i \in DOMAIN db.files : PathOfRow(i) \in Path
      /\ Cloud \subseteq Storage
  BY <1>1 DEF LocalNewest, Storage, IInv, Typed, DbInv, DbTyped, PathOfRow
<1>3. \A s \in Storage, q \in Path :
        \/ store'[s][q] = store[s][q]
        \/ s = t.cloud /\ q = t.path /\ store'[s][q] = store[Local][t.path]
  <2>1. CASE store' = store
    BY <2>1
  <2>2. CASE store' = StoreWith(t.cloud, t, store[Local][t.path])
    BY <1>1, <2>2, OfStoreWith DEF IInv
  <2> QED
    BY <2>1, <2>2
<1>4. \A q \in Path : store'[Local][q] = store[Local][q]
  BY <1>1, <1>2, <1>3
<1>5. \A u \in tasks' :
        \/ u \in tasks
        \/ /\ u.kind = t.kind /\ u.path = t.path /\ u.cloud = t.cloud /\ u.id = t.id
           /\ u.data = store[Local][t.path]
           /\ Reaches(t) => store' = StoreWith(t.cloud, t, store[Local][t.path])
  OBVIOUS
<1>6. DbTyped'
  BY <1>5 DEF DbInv, DbTyped
<1>7. Rows'
  <2>1. \A u \in tasks' :
          IF u.kind = "downloadNew" THEN listed[Local][u.path] = None /\ ~HasRow(db, u.path)
                                    ELSE u.id \in RowsOf(db, u.path)
    BY <1>5 DEF DbInv, Rows
  <2>2. \A i \in DOMAIN db.files : db.files[i].stat = store'[Local][PathOfRow(i)]
    BY <1>2, <1>4 DEF DbInv, Rows
  <2> QED
    BY <1>2, <1>4, <2>1, <2>2 DEF DbInv, Rows, PathOfRow
<1>8. Chosen'
  <2>1. \A q \in DOMAIN localMap : localMap[q].cloud \in Cloud =>
          store'[localMap[q].cloud][q] = store[localMap[q].cloud][q]
    BY <1>1, <1>2, <1>3
  <2> QED
    BY <1>1, <1>2, <1>4, <2>1 DEF DbInv, Chosen, In
<1>9. Links'
  <2>1. \A key \in DOMAIN db.links :
          /\ key[1] \in DOMAIN db.files /\ key[2] \in Storage
          /\ PathOfRow(key[1]) \in Path
    BY <1>2 DEF DbInv, DbTyped
  <2>2. \A key \in DOMAIN db.links :
          /\ store'[key[2]][PathOfRow(key[1])] # None
          /\ store'[Local][PathOfRow(key[1])] = store[Local][PathOfRow(key[1])]
    BY <1>2, <1>3, <1>4, <2>1 DEF DbInv, Links
  <2> QED
    BY <1>1, <2>2 DEF DbInv, Links, PathOfRow, In
<1>10. Spread'
  <2>1. ASSUME NEW u \in tasks PROVE GoodSpread(u)'
    <3>1. GoodSpread(u) /\ u.path \in Path /\ u.cloud \in Storage
      BY <1>1, Working DEF DbInv, Spread
    <3>2. store'[Local][u.path] = store[Local][u.path]
      BY <1>4, <3>1
    <3>3. u.data # None /\ Reaches(u) => store'[u.cloud][u.path] = u.data
      BY <1>3, <3>1 DEF GoodSpread
    <3> QED
      BY <3>1, <3>2, <3>3 DEF GoodSpread, Reaches, In
  <2>2. ASSUME NEW u \in tasks', u \notin tasks PROVE GoodSpread(u)'
    <3>1. /\ u.kind = t.kind /\ u.path = t.path /\ u.cloud = t.cloud
          /\ u.data = store[Local][t.path]
          /\ Reaches(t) => store' = StoreWith(t.cloud, t, store[Local][t.path])
      BY <1>5, <2>2
    <3>2. Reaches(u) => Reaches(t)
      BY <3>1 DEF Reaches
    <3>3. Reaches(u) => store'[u.cloud][u.path] = u.data
      BY <1>1, <3>1, <3>2, OfStoreWith DEF IInv
    <3> QED
      BY <1>1, <1>4, <3>1, <3>3 DEF GoodSpread, Reaches, In
  <2>3. ASSUME NEW q \in (DOMAIN localMap) \ left, NEW c \in Cloud, NEW i \in RowsOf(db, q)
        PROVE  /\ c \in In(listed, q) => <<i, c>> \in DOMAIN db.links
               /\ \/ q \in occupied'
                  \/ \E u \in tasks' : u.path = q /\ u.cloud = c
                  \/ /\ <<i, c>> \in DOMAIN db.links
                     /\ \/ Unreached(q, c)
                        \/ store'[c][q] = store'[Local][q] /\ db.links[<<i, c>>] = store'[c][q]
    <3>1. /\ c \in In(listed, q) => <<i, c>> \in DOMAIN db.links
          /\ \/ q \in occupied
             \/ \E u \in tasks : u.path = q /\ u.cloud = c
             \/ /\ <<i, c>> \in DOMAIN db.links
                /\ \/ Unreached(q, c)
                   \/ store[c][q] = store[Local][q] /\ db.links[<<i, c>>] = store[c][q]
      BY <1>1 DEF DbInv, Spread
    <3>2. ASSUME NEW u \in tasks, u.path = q, u.cloud = c
          PROVE  q \in occupied' \/ \E w \in tasks' : w.path = q /\ w.cloud = c
      BY <3>2
    <3>3. /\ store'[Local][q] = store[Local][q]
          /\ store'[c][q] = store[c][q] \/ store'[c][q] = store[Local][q]
      BY <1>2, <1>3, <1>4
    <3> QED
      BY <3>1, <3>2, <3>3
  <2> QED
    BY <1>1, <2>1, <2>2, <2>3 DEF Spread, Unreached, In
<1> QED
  BY <1>6, <1>7, <1>8, <1>9, <1>10

LEMMA TransferDb ==
  ASSUME IInv, DbInv, NEW t \in tasks, Transfer(t)
  PROVE  DbInv'
<1>1. IsTask(t)
  BY DEF IInv, Typed
<1>2. PICK new :
        /\ new.kind = t.kind /\ new.path = t.path /\ new.cloud = t.cloud /\ new.id = t.id
        /\ new.data = store[Source(t)][t.path]
        /\ UNCHANGED <<listed, db, localMap, occupied, phase, left>>
        /\ tasks' = (tasks \ {t}) \cup {new}
        /\ store' = IF Reaches(t) THEN StoreWith(t.cloud, t, new.data) ELSE store
  <2>1. /\ Transferred(t).kind = t.kind /\ Transferred(t).path = t.path
        /\ Transferred(t).cloud = t.cloud /\ Transferred(t).id = t.id
        /\ Transferred(t).data = store[Source(t)][t.path]
    BY <1>1 DEF Transferred, IsTask
  <2> QED
    BY <2>1 DEF Transfer
<1>3. Ended'
  BY <1>2 DEF DbInv, Ended
<1>4. CASE t.kind \in Downloads
  <2>1. store' = store /\ phase = "reconcile"
    BY <1>2, <1>4, Working DEF Reaches, Downloads
  <2>2. DbTyped'
    BY <1>2, <2>1 DEF DbInv, DbTyped
  <2>3. Rows'
    BY <1>2, <2>1 DEF DbInv, Rows, PathOfRow
  <2>4. Chosen'
    <3>1. \A q \in DOMAIN localMap :
            q \in occupied \/ (\E u \in tasks' : u.path = q) \/ store[Local][q] = localMap[q].stat
      BY <1>2, <2>1 DEF DbInv, Chosen
    <3> QED
      BY <1>2, <2>1, <3>1 DEF DbInv, Chosen, In
  <2>5. Links'
    BY <1>2, <2>1 DEF DbInv, Links, PathOfRow
  <2>6. Spread'
    BY <1>2, <2>1 DEF Spread
  <2> QED
    BY <1>3, <2>2, <2>3, <2>4, <2>5, <2>6 DEF DbInv
<1>5. CASE t.kind \notin Downloads
  <2>1. new.data = store[Local][t.path]
    BY <1>2, <1>5 DEF Source
  <2>2. /\ \A u \in tasks' \ tasks : u = new
        /\ \A u \in tasks : u # t => u \in tasks'
        /\ new \in tasks'
    BY <1>2
  <2>3. DbTyped' /\ Rows' /\ Chosen' /\ Links' /\ Spread'
    BY <1>2, <1>5, <2>1, <2>2, ReachedDb DEF DbInv, DbTyped
  <2> QED
    BY <1>3, <2>3 DEF DbInv
<1> QED
  BY <1>4, <1>5

LEMMA TransferFailsDb ==
  ASSUME IInv, DbInv, NEW t \in tasks, TransferFails(t)
  PROVE  DbInv'
<1>1. IsTask(t) /\ t.path \in Path
  BY DEF IInv, Typed, IsTask
<1>2. /\ UNCHANGED <<listed, db, localMap, phase, left>>
      /\ tasks' = tasks \ {t} /\ occupied' = occupied \cup {t.path}
      /\ \/ store' = store
         \/ t.kind \notin Downloads /\ store' = StoreWith(t.cloud, t, Transferred(t).data)
  BY DEF TransferFails, Reaches, Downloads
<1>3. Ended'
  BY <1>2 DEF DbInv, Ended
<1>4. CASE t.kind \in Downloads
  <2>1. store' = store /\ phase = "reconcile"
    BY <1>2, <1>4, Working
  <2>2. DbTyped'
    BY <1>1, <1>2, <2>1 DEF DbInv, DbTyped
  <2>3. Rows'
    BY <1>2, <2>1 DEF DbInv, Rows, PathOfRow
  <2>4. Chosen'
    <3>1. \A q \in DOMAIN localMap :
            q \in occupied' \/ (\E u \in tasks' : u.path = q) \/ store[Local][q] = localMap[q].stat
      BY <1>2, <2>1 DEF DbInv, Chosen
    <3> QED
      BY <1>2, <2>1, <3>1 DEF DbInv, Chosen, In
  <2>5. Links'
    BY <1>2, <2>1 DEF DbInv, Links, PathOfRow
  <2>6. Spread'
    BY <1>2, <2>1 DEF Spread
  <2> QED
    BY <1>3, <2>2, <2>3, <2>4, <2>5, <2>6 DEF DbInv
<1>5. CASE t.kind \notin Downloads
  <2>1. Transferred(t).data = store[Local][t.path]
    BY <1>1, <1>5 DEF Transferred, Source, IsTask
  <2>2. tasks' \ tasks = {} /\ \A u \in tasks : u # t => u \in tasks'
    BY <1>2
  <2>3. DbTyped' /\ Rows' /\ Chosen' /\ Links' /\ Spread'
    BY <1>1, <1>2, <1>5, <2>1, <2>2, ReachedDb DEF DbInv, DbTyped
  <2> QED
    BY <1>3, <2>3 DEF DbInv
<1> QED
  BY <1>4, <1>5

(* A finished download: the local variant is the chosen one from now on. *)
LEMMA ArrivedChosen ==
  ASSUME IInv, DbInv, NEW t \in tasks, LocalUpload(t) \/ LocalUpdate(t)
  PROVE  /\ t.path \in DOMAIN localMap /\ t.path \in Path /\ t.path \notin left
         /\ t.cloud = localMap[t.path].cloud /\ t.cloud \in Cloud
         /\ t.data = localMap[t.path].stat /\ t.data \in Variant /\ t.data # None
         /\ phase = "reconcile" /\ phase' = "reconcile"
         /\ tasks' = tasks \ {t} /\ \A u \in tasks' : u.path # t.path
         /\ store'[Local][t.path] = t.data
         /\ \A q \in Path : q # t.path => store'[Local][q] = store[Local][q]
         /\ \A c \in Cloud : store'[c] = store[c]
         /\ store[t.cloud][t.path] # None
         /\ UNCHANGED <<listed, localMap, occupied, left>>
         /\ Chosen' /\ Spread' /\ Ended'
<1>1. /\ phase = "reconcile" /\ GoodDownload(t)
      /\ t.data = listed[t.cloud][t.path] /\ t.data # None
      /\ store'[Local][t.path] = t.data
      /\ \A s \in Storage, q \in Path :
           (s # Local \/ q # t.path) => store'[s][q] = store[s][q]
      /\ \A c \in Cloud : store'[c] = store[c]
      /\ tasks' = tasks \ {t}
      /\ UNCHANGED <<listed, localMap, occupied, phase, left>>
  BY Arrival
<1>2. /\ t.path \in DOMAIN localMap /\ t.path \in Path /\ t.path \notin left
      /\ t.cloud = localMap[t.path].cloud /\ t.cloud \in Cloud
  BY <1>1, Working DEF DbInv, Chosen, GoodDownload
<1>3. /\ t.data = localMap[t.path].stat /\ t.data \in Variant
      /\ store[t.cloud][t.path] # None
  BY <1>1, <1>2, ChosenWhere DEF DbInv, IInv
<1>4. \A u \in tasks' : u.path # t.path
  BY <1>1 DEF IInv, Reconciling
<1>5. \A q \in Path : q # t.path => store'[Local][q] = store[Local][q]
  BY <1>1, Working
<1>6. Chosen'
  <2>1. \A q \in DOMAIN localMap : q \in Path
    BY DEF IInv, Typed
  <2>2. \A q \in DOMAIN localMap : q # t.path =>
          q \in occupied \/ (\E u \in tasks' : u.path = q) \/ store'[Local][q] = localMap[q].stat
    BY <1>1, <1>5, <2>1 DEF DbInv, Chosen
  <2> QED
    BY <1>1, <1>3, <2>2 DEF DbInv, Chosen, In
<1> QED
  BY <1>1, <1>2, <1>3, <1>4, <1>5, <1>6 DEF Spread, Ended

LEMMA LocalUploadDb ==
  ASSUME IInv, DbInv, NEW t \in tasks, LocalUpload(t)
  PROVE  DbInv'
<1> DEFINE n == NewId(db)
           p == t.path
           d == WithFile(db, p, t.data)
<1>1. /\ p \in DOMAIN localMap /\ p \in Path /\ p \notin left
      /\ t.cloud = localMap[p].cloud /\ t.cloud \in Cloud
      /\ t.data = localMap[p].stat /\ t.data \in Variant /\ t.data # None
      /\ phase = "reconcile" /\ phase' = "reconcile"
      /\ tasks' = tasks \ {t} /\ \A u \in tasks' : u.path # p
      /\ store'[Local][p] = t.data
      /\ \A q \in Path : q # p => store'[Local][q] = store[Local][q]
      /\ \A c \in Cloud : store'[c] = store[c]
      /\ store[t.cloud][p] # None
      /\ UNCHANGED <<listed, localMap, occupied, left>>
      /\ Chosen' /\ Spread' /\ Ended'
  BY ArrivedChosen
<1>2. /\ Tables(db) /\ \A id \in DOMAIN db.files : id \in 1..db.lastId
      /\ db.lastId \in Nat
  BY DEF DbInv, DbTyped, Tables
<1>3. listed[Local][p] = None /\ ~HasRow(db, p)
  BY DEF LocalUpload, DbInv, Rows
<1>4. /\ Tables(d) /\ d.links = db.links /\ d.lastId = db.lastId + 1
      /\ n = db.lastId + 1 /\ n \notin DOMAIN db.files
      /\ DOMAIN d.files = DOMAIN db.files \cup {n}
      /\ d.files[n] = [path |-> p, stat |-> t.data]
      /\ \A id \in DOMAIN db.files : d.files[id] = db.files[id]
      /\ RowsOf(d, p) = RowsOf(db, p) \cup {n}
      /\ \A q : q # p => RowsOf(d, q) = RowsOf(db, q)
  BY <1>2, RowAdded
<1>5. db' = WithLink(d, n, t.cloud, t.data)
  BY DEF LocalUpload
<1> HIDE DEF d, n
<1>6. /\ Tables(db') /\ db'.lastId = d.lastId /\ db'.files = d.files
      /\ DOMAIN db'.links = DOMAIN d.links \cup {<<n, t.cloud>>}
      /\ \A key \in DOMAIN d.links : db'.links[key] = d.links[key]
      /\ <<n, t.cloud>> \notin DOMAIN d.links => db'.links[<<n, t.cloud>>] = t.data
  BY <1>4, <1>5, LinkAdded
<1>7. <<n, t.cloud>> \notin DOMAIN db.links
  BY <1>4 DEF DbInv, DbTyped
<1>8. \A q : RowsOf(db', q) = RowsOf(d, q)
  BY <1>6 DEF RowsOf
<1>9. \A i \in DOMAIN db.files : /\ db'.files[i] = db.files[i] /\ PathOfRow(i) # p
                                 /\ PathOfRow(i) \in Path
  BY <1>3, <1>4, <1>6 DEF PathOfRow, HasRow, RowsOf, DbInv, DbTyped
<1>10. /\ DOMAIN db'.files = DOMAIN db.files \cup {n}
       /\ db'.files[n].path = p /\ db'.files[n].stat = t.data
       /\ db'.files[n] \in [path : Path, stat : Variant]
  BY <1>1, <1>4, <1>6
<1>11. DbTyped'
  <2>1. \A id \in DOMAIN db'.files :
          id \in 1..db'.lastId /\ db'.files[id] \in [path : Path, stat : Variant]
    BY <1>2, <1>4, <1>6, <1>9, <1>10 DEF DbInv, DbTyped
  <2>2. \A key \in DOMAIN db'.links : /\ key \in (DOMAIN db'.files) \X Cloud
                                      /\ db'.links[key] \in Variant
    BY <1>1, <1>4, <1>6, <1>7, <1>10 DEF DbInv, DbTyped
  <2>3. \A q \in DOMAIN localMap :
          localMap[q] \in [stat : Variant, cloud : Storage, id : 0..db'.lastId]
    BY <1>2, <1>4, <1>6 DEF DbInv, DbTyped
  <2>4. \A u \in tasks' : u.id \in 0..db'.lastId
    BY <1>1, <1>2, <1>4, <1>6 DEF DbInv, DbTyped
  <2> QED
    BY <1>1, <1>6, <2>1, <2>2, <2>3, <2>4 DEF DbInv, DbTyped
<1>12. Rows'
  <2>1. \A i, j \in DOMAIN db'.files : db'.files[i].path = db'.files[j].path => i = j
    BY <1>9, <1>10 DEF DbInv, Rows, PathOfRow
  <2>2. \A i \in DOMAIN db'.files : db'.files[i].stat = store'[Local][db'.files[i].path]
    BY <1>1, <1>9, <1>10 DEF DbInv, Rows, PathOfRow
  <2>3. \A q \in Path : store'[Local][q] # None => HasRow(db', q)
    BY <1>1, <1>4, <1>8 DEF DbInv, Rows, HasRow
  <2>4. \A q \in DOMAIN localMap :
          IF listed[Local][q] # None THEN localMap[q].id \in RowsOf(db', q)
                                     ELSE localMap[q].id = 0
    BY <1>3, <1>4, <1>8 DEF DbInv, Rows
  <2>5. \A u \in tasks' :
          IF u.kind = "downloadNew" THEN listed[Local][u.path] = None /\ ~HasRow(db', u.path)
                                    ELSE u.id \in RowsOf(db', u.path)
    BY <1>1, <1>4, <1>8 DEF DbInv, Rows, HasRow
  <2> QED
    BY <1>1, <2>1, <2>2, <2>3, <2>4, <2>5 DEF Rows, PathOfRow
<1>13. Links'
  <2> SUFFICES ASSUME NEW key \in DOMAIN db'.links
               PROVE  /\ store'[key[2]][db'.files[key[1]].path] # None
                      /\ db'.files[key[1]].path \notin left
                      /\ db'.files[key[1]].path \in DOMAIN localMap
                      /\ key[2] = localMap[db'.files[key[1]].path].cloud
                      /\ db'.links[key] = localMap[db'.files[key[1]].path].stat
    BY <1>1 DEF Links, PathOfRow
  <2>1. CASE key \in DOMAIN db.links
    <3>1. key[1] \in DOMAIN db.files /\ key[2] \in Cloud
      BY <2>1 DEF DbInv, DbTyped
    <3>2. /\ store[key[2]][PathOfRow(key[1])] # None
          /\ PathOfRow(key[1]) \notin left
          /\ PathOfRow(key[1]) \in DOMAIN localMap
          /\ key[2] = localMap[PathOfRow(key[1])].cloud
          /\ db.links[key] = localMap[PathOfRow(key[1])].stat
      BY <1>1, <2>1 DEF DbInv, Links
    <3>3. db'.files[key[1]].path = PathOfRow(key[1]) /\ db'.links[key] = db.links[key]
      BY <1>4, <1>6, <1>9, <2>1, <3>1 DEF PathOfRow
    <3> QED
      BY <1>1, <3>1, <3>2, <3>3
  <2>2. CASE key = <<n, t.cloud>>
    BY <1>1, <1>4, <1>6, <1>7, <1>10, <2>2
  <2> QED
    BY <1>4, <1>6, <2>1, <2>2
<1> QED
  BY <1>1, <1>11, <1>12, <1>13 DEF DbInv

LEMMA LocalUpdateDb ==
  ASSUME IInv, DbInv, NEW t \in tasks, LocalUpdate(t)
  PROVE  DbInv'
<1> DEFINE p == t.path
           d == WithLinkUpdated(db, t.id, t.cloud, t.data)
<1>1. /\ p \in DOMAIN localMap /\ p \in Path /\ p \notin left
      /\ t.cloud = localMap[p].cloud /\ t.cloud \in Cloud
      /\ t.data = localMap[p].stat /\ t.data \in Variant /\ t.data # None
      /\ phase = "reconcile" /\ phase' = "reconcile"
      /\ tasks' = tasks \ {t} /\ \A u \in tasks' : u.path # p
      /\ store'[Local][p] = t.data
      /\ \A q \in Path : q # p => store'[Local][q] = store[Local][q]
      /\ \A c \in Cloud : store'[c] = store[c]
      /\ store[t.cloud][p] # None
      /\ UNCHANGED <<listed, localMap, occupied, left>>
      /\ Chosen' /\ Spread' /\ Ended'
  BY ArrivedChosen
<1>2. t.id \in RowsOf(db, p)
  BY DEF LocalUpdate, DbInv, Rows
<1>3. t.id \in DOMAIN db.files /\ PathOfRow(t.id) = p
  BY <1>2, OneRow DEF DbInv
<1>4. /\ Tables(d) /\ d.lastId = db.lastId /\ d.files = db.files
      /\ DOMAIN d.links = DOMAIN db.links
      /\ \A key \in DOMAIN db.links :
           d.links[key] = IF key = <<t.id, t.cloud>> THEN t.data ELSE db.links[key]
  BY LinkUpdated DEF DbInv, DbTyped
<1>5. db' = WithFileUpdated(d, t.id, t.data)
  BY DEF LocalUpdate
<1> HIDE DEF d
<1>6. \A i \in DOMAIN d.files : d.files[i] \in [path : Path, stat : Variant]
  BY <1>4 DEF DbInv, DbTyped
<1>7. /\ Tables(db') /\ db'.lastId = db.lastId /\ db'.links = d.links
      /\ DOMAIN db'.files = DOMAIN db.files
      /\ \A i \in DOMAIN db.files :
           /\ db'.files[i] \in [path : Path, stat : Variant]
           /\ db'.files[i].path = db.files[i].path
           /\ db'.files[i].stat = IF i = t.id THEN t.data ELSE db.files[i].stat
  <2>1. Tables(d) /\ t.id \in DOMAIN d.files /\ t.data \in Variant
    BY <1>1, <1>3, <1>4
  <2>2. LET e == WithFileUpdated(d, t.id, t.data) IN
        /\ Tables(e) /\ e.lastId = d.lastId /\ e.links = d.links
        /\ DOMAIN e.files = DOMAIN d.files
        /\ \A i \in DOMAIN d.files :
             /\ e.files[i] \in [path : Path, stat : Variant]
             /\ e.files[i].path = d.files[i].path
             /\ e.files[i].stat = IF i = t.id THEN t.data ELSE d.files[i].stat
    BY <1>6, <2>1, FileUpdated
  <2> QED
    BY <1>4, <1>5, <2>2
<1>8. \A q : RowsOf(db', q) = RowsOf(db, q) /\ (HasRow(db', q) <=> HasRow(db, q))
  BY <1>7 DEF RowsOf, HasRow
<1>9. \A i \in DOMAIN db.files : /\ db'.files[i].path = PathOfRow(i)
                                 /\ PathOfRow(i) \in Path
                                 /\ PathOfRow(i) = p => i = t.id
  BY <1>3, <1>7 DEF PathOfRow, DbInv, DbTyped, Rows
<1>10. DbTyped'
  <2>1. \A key \in DOMAIN db'.links : db'.links[key] \in Variant
    BY <1>1, <1>4, <1>7 DEF DbInv, DbTyped
  <2> QED
    BY <1>1, <1>4, <1>7, <2>1 DEF DbInv, DbTyped
<1>11. Rows'
  <2>1. \A i, j \in DOMAIN db'.files : db'.files[i].path = db'.files[j].path => i = j
    BY <1>7, <1>9 DEF DbInv, Rows
  <2>2. \A i \in DOMAIN db'.files : db'.files[i].stat = store'[Local][db'.files[i].path]
    BY <1>1, <1>3, <1>7, <1>9 DEF DbInv, Rows
  <2>3. \A q \in Path : store'[Local][q] # None => HasRow(db', q)
    <3>1. HasRow(db, p)
      BY <1>2 DEF HasRow
    <3> QED
      BY <1>1, <1>8, <3>1 DEF DbInv, Rows
  <2> QED
    BY <1>1, <1>8, <2>1, <2>2, <2>3 DEF DbInv, Rows, PathOfRow
<1>12. Links'
  <2> SUFFICES ASSUME NEW key \in DOMAIN db'.links
               PROVE  /\ store'[key[2]][db'.files[key[1]].path] # None
                      /\ db'.files[key[1]].path \notin left
                      /\ db'.files[key[1]].path \in DOMAIN localMap
                      /\ key[2] = localMap[db'.files[key[1]].path].cloud
                      /\ db'.links[key] = localMap[db'.files[key[1]].path].stat
    BY <1>1 DEF Links, PathOfRow
  <2>1. key[1] \in DOMAIN db.files /\ key[2] \in Cloud /\ key \in DOMAIN db.links
    BY <1>4, <1>7 DEF DbInv, DbTyped
  <2>2. /\ store[key[2]][PathOfRow(key[1])] # None
        /\ PathOfRow(key[1]) \notin left
        /\ PathOfRow(key[1]) \in DOMAIN localMap
        /\ key[2] = localMap[PathOfRow(key[1])].cloud
        /\ db.links[key] = localMap[PathOfRow(key[1])].stat
    BY <1>1, <2>1 DEF DbInv, Links
  <2>3. db'.links[key] = localMap[PathOfRow(key[1])].stat
    <3>1. CASE key = <<t.id, t.cloud>>
      BY <1>1, <1>3, <1>4, <1>7, <2>1, <3>1
    <3>2. CASE key # <<t.id, t.cloud>>
      BY <1>4, <1>7, <2>1, <2>2, <3>2
    <3> QED
      BY <3>1, <3>2
  <2> QED
    BY <1>1, <1>9, <2>1, <2>2, <2>3
<1> QED
  BY <1>1, <1>10, <1>11, <1>12 DEF DbInv

(* The callback of a command that has spread a variant: the link. *)
LEMMA LinkedDb ==
  ASSUME IInv, DbInv, NEW t \in tasks, t.kind \notin Downloads, t.data # None,
         UNCHANGED <<listed, store, localMap, occupied, phase, left>>,
         tasks' = tasks \ {t},
         Tables(db'), db'.lastId = db.lastId, db'.files = db.files,
         DOMAIN db'.links \subseteq DOMAIN db.links \cup {<<t.id, t.cloud>>},
         DOMAIN db.links \subseteq DOMAIN db'.links,
         <<t.id, t.cloud>> \in DOMAIN db'.links,
         \A key \in DOMAIN db.links : key # <<t.id, t.cloud>> => db'.links[key] = db.links[key],
         db'.links[<<t.id, t.cloud>>] = t.data
  PROVE  DbInv'
<1> DEFINE p == t.path
           c == t.cloud
           k == <<t.id, c>>
<1>1. /\ phase \in {"push", "done"} /\ GoodSpread(t)
      /\ t.kind \in {"upload", "update"}
      /\ p \in Path /\ c \in Cloud /\ p \in DOMAIN localMap /\ p \notin left
      /\ c # localMap[p].cloud
  BY SpreadsElsewhere
<1>2. t.id \in RowsOf(db, p)
  BY <1>1 DEF DbInv, Rows
<1>3. t.id \in DOMAIN db.files /\ PathOfRow(t.id) = p /\ RowsOf(db, p) = {t.id}
  BY <1>2, OneRow DEF DbInv
<1>4. t.data = store[Local][p] /\ t.data \in Variant
  BY <1>1 DEF GoodSpread, IInv, Typed, IsTask
<1>5. (Reaches(t) => store[c][p] = t.data) /\ (~Reaches(t) => Unreached(p, c))
  BY <1>1 DEF GoodSpread, Reaches, Unreached
<1>6. store[c][p] # None
  <2>1. t.kind = "update" => k \in DOMAIN db.links
    BY <1>1, <1>2 DEF DbInv, Spread, GoodSpread
  <2>2. t.kind = "update" => store[c][p] # None
    <3>1. k[1] = t.id /\ k[2] = c
      OBVIOUS
    <3> QED
      BY <1>3, <2>1, <3>1 DEF DbInv, Links
  <2>3. t.kind = "upload" => store[c][p] = t.data
    BY <1>5 DEF Reaches
  <2> QED
    BY <1>1, <2>2, <2>3
<1>7. \A q : RowsOf(db', q) = RowsOf(db, q) /\ (HasRow(db', q) <=> HasRow(db, q))
  BY DEF RowsOf, HasRow
<1>8. \A i : PathOfRow(i)' = PathOfRow(i)
  BY DEF PathOfRow
<1>9. DbTyped'
  <2>1. \A key \in DOMAIN db'.links : /\ key \in (DOMAIN db.files) \X Cloud
                                      /\ db'.links[key] \in Variant
    <3> SUFFICES ASSUME NEW key \in DOMAIN db'.links
                 PROVE  key \in (DOMAIN db.files) \X Cloud /\ db'.links[key] \in Variant
      OBVIOUS
    <3>1. CASE key = k
      BY <1>1, <1>3, <1>4, <3>1
    <3>2. CASE key # k
      <4>1. key \in DOMAIN db.links /\ db'.links[key] = db.links[key]
        BY <3>2
      <4> QED
        BY <4>1 DEF DbInv, DbTyped
    <3> QED
      BY <3>1, <3>2
  <2> QED
    BY <2>1 DEF DbInv, DbTyped
<1>10. Rows'
  BY <1>7, <1>8 DEF DbInv, Rows
<1>11. Chosen'
  BY <1>1 DEF DbInv, Chosen, In
<1>12. Links'
  <2> SUFFICES ASSUME NEW key \in DOMAIN db'.links
               PROVE  /\ store[key[2]][PathOfRow(key[1])] # None
                      /\ phase = "push" /\ PathOfRow(key[1]) \in left =>
                           /\ PathOfRow(key[1]) \in DOMAIN localMap
                           /\ key[2] = localMap[PathOfRow(key[1])].cloud
                           /\ db'.links[key] = localMap[PathOfRow(key[1])].stat
                      /\ key[2] \notin In(listed, PathOfRow(key[1])) =>
                           db'.links[key] = store[Local][PathOfRow(key[1])]
    BY <1>1, <1>8 DEF Links, In
  <2>1. CASE key = k
    <3>1. key[1] = t.id /\ key[2] = c
      BY <2>1
    <3> QED
      BY <1>1, <1>3, <1>4, <1>6, <2>1, <3>1
  <2>2. CASE key # k
    <3>1. key \in DOMAIN db.links /\ db'.links[key] = db.links[key]
      BY <2>2
    <3> QED
      BY <1>1, <3>1 DEF DbInv, Links
  <2> QED
    BY <2>1, <2>2
<1>13. Spread'
  <2>1. \A u \in tasks' : GoodSpread(u)'
    BY <1>1 DEF DbInv, Spread, GoodSpread, Reaches, In
  <2>2. ASSUME NEW q \in (DOMAIN localMap) \ left, NEW b \in Cloud, NEW i \in RowsOf(db, q)
        PROVE  /\ b \in In(listed, q) => <<i, b>> \in DOMAIN db'.links
               /\ \/ q \in occupied
                  \/ \E u \in tasks' : u.path = q /\ u.cloud = b
                  \/ /\ <<i, b>> \in DOMAIN db'.links
                     /\ \/ Unreached(q, b)
                        \/ store[b][q] = store[Local][q] /\ db'.links[<<i, b>>] = store[b][q]
    <3>1. /\ b \in In(listed, q) => <<i, b>> \in DOMAIN db.links
          /\ \/ q \in occupied
             \/ \E u \in tasks : u.path = q /\ u.cloud = b
             \/ /\ <<i, b>> \in DOMAIN db.links
                /\ \/ Unreached(q, b)
                   \/ store[b][q] = store[Local][q] /\ db.links[<<i, b>>] = store[b][q]
      BY <1>1 DEF DbInv, Spread
    <3>2. CASE q = p /\ b = c
      <4>1. <<i, b>> = k
        BY <1>3, <3>2
      <4>2. Unreached(q, b) \/ (store[b][q] = store[Local][q] /\ db'.links[<<i, b>>] = store[b][q])
        BY <1>4, <1>5, <3>2, <4>1
      <4> QED
        BY <4>1, <4>2
    <3>3. CASE q # p \/ b # c
      <4>1. <<i, b>> # k
        BY <1>3, <3>3 DEF RowsOf, PathOfRow
      <4>2. \A u \in tasks : u.path = q /\ u.cloud = b => u \in tasks'
        BY <3>3
      <4> QED
        BY <3>1, <4>1, <4>2
    <3> QED
      BY <3>2, <3>3
  <2> QED
    BY <1>1, <1>7, <2>1, <2>2 DEF Spread, Unreached, In
<1>14. Ended'
  BY DEF DbInv, Ended
<1> QED
  BY <1>9, <1>10, <1>11, <1>12, <1>13, <1>14 DEF DbInv

LEMMA CloudDb ==
  ASSUME IInv, DbInv, NEW t \in tasks, CloudUpload(t) \/ CloudUpdate(t)
  PROVE  DbInv'
<1>1. /\ t.kind \notin Downloads /\ t.data # None /\ tasks' = tasks \ {t}
      /\ UNCHANGED <<listed, store, localMap, occupied, phase, left>>
  BY DEF CloudUpload, CloudUpdate, Downloads
<1>2. /\ phase \in {"push", "done"} /\ GoodSpread(t) /\ t.cloud \in Cloud
      /\ t.path \in DOMAIN localMap /\ t.path \notin left
  BY <1>1, SpreadsElsewhere
<1>3. t.id \in RowsOf(db, t.path)
  BY <1>1 DEF DbInv, Rows, Downloads
<1>4. PathOfRow(t.id) = t.path /\ Tables(db)
  BY <1>3, OneRow DEF DbInv, DbTyped
<1>5. CASE CloudUpload(t)
  <2>1. /\ db' = WithLink(db, t.id, t.cloud, t.data)
        /\ t.cloud \notin In(listed, t.path) /\ t.data = store[Local][t.path]
    BY <1>2, <1>5 DEF CloudUpload, GoodSpread
  <2>2. /\ Tables(db') /\ db'.lastId = db.lastId /\ db'.files = db.files
        /\ DOMAIN db'.links = DOMAIN db.links \cup {<<t.id, t.cloud>>}
        /\ \A key \in DOMAIN db.links : db'.links[key] = db.links[key]
        /\ <<t.id, t.cloud>> \notin DOMAIN db.links => db'.links[<<t.id, t.cloud>>] = t.data
    BY <1>4, <2>1, LinkAdded
  <2>3. <<t.id, t.cloud>> \in DOMAIN db.links => db.links[<<t.id, t.cloud>>] = t.data
    <3>1. <<t.id, t.cloud>>[1] = t.id /\ <<t.id, t.cloud>>[2] = t.cloud
      OBVIOUS
    <3> QED
      BY <1>2, <1>4, <2>1, <3>1 DEF DbInv, Links
  <2> QED
    BY <1>1, <2>2, <2>3, LinkedDb
<1>6. CASE CloudUpdate(t)
  <2>1. /\ db' = WithLinkUpdated(db, t.id, t.cloud, t.data)
        /\ t.cloud \in In(listed, t.path)
    BY <1>2, <1>6 DEF CloudUpdate, GoodSpread
  <2>2. <<t.id, t.cloud>> \in DOMAIN db.links
    BY <1>2, <1>3, <2>1 DEF DbInv, Spread
  <2>3. /\ Tables(db') /\ db'.lastId = db.lastId /\ db'.files = db.files
        /\ DOMAIN db'.links = DOMAIN db.links
        /\ \A key \in DOMAIN db.links :
             db'.links[key] = IF key = <<t.id, t.cloud>> THEN t.data ELSE db.links[key]
    BY <1>4, <2>1, LinkUpdated
  <2> QED
    BY <1>1, <2>2, <2>3, LinkedDb
<1> QED
  BY <1>5, <1>6

LEMMA StutterDb ==
  ASSUME DbInv, UNCHANGED vars
  PROVE  DbInv'
<1>1. UNCHANGED <<listed, store, db, localMap, tasks, occupied, phase, left>>
  BY DEF vars
<1>2. DbTyped'
  BY <1>1 DEF DbInv, DbTyped
<1>3. Rows'
  BY <1>1 DEF DbInv, Rows, PathOfRow
<1>4. Chosen'
  BY <1>1 DEF DbInv, Chosen, In
<1>5. Links'
  BY <1>1 DEF DbInv, Links, PathOfRow, In
<1>6. Spread' /\ Ended'
  BY <1>1 DEF DbInv, Spread, Ended, GoodSpread, Unreached, In
<1> QED
  BY <1>2, <1>3, <1>4, <1>5, <1>6 DEF DbInv

LEMMA DbStep == IInv /\ NeverOlder /\ DbInv /\ [Next]_vars => DbInv'
<1> SUFFICES ASSUME IInv, NeverOlder, DbInv, [Next]_vars PROVE DbInv'
  OBVIOUS
<1>1. ASSUME Main PROVE DbInv'
  BY <1>1, ScanDb, ScannedDb, ReconcileDb, DownloadedDb, PushDb, LastDb DEF Main
<1>2. ASSUME Work PROVE DbInv'
  BY <1>2, TransferDb, TransferFailsDb, LocalUploadDb, LocalUpdateDb, CloudDb DEF Work
<1>3. ASSUME UNCHANGED vars PROVE DbInv'
  BY <1>3, StutterDb
<1> QED
  BY <1>1, <1>2, <1>3 DEF Next, Rest

(* What the database says of the storages holds always. *)
LEMMA DatabaseKeeps == Spec => [](DbInv /\ NeverOlder)
<1>1. Init => DbInv /\ NeverOlder
  BY DbInit
<1>2. IInv /\ DbInv /\ NeverOlder /\ [Next]_vars => (DbInv /\ NeverOlder)'
  BY DbStep, NeverOlderStep
<1> QED
  BY <1>1, <1>2, PhasesKeep, PTL DEF Spec

-----------------------------------------------------------------------------
(* All variables have their types, for any clouds, files, ages and failures. *)
THEOREM TypeCorrect == Spec => []TypeOK
<1>1. IInv /\ DbInv => TypeOK
  <2> SUFFICES ASSUME IInv, DbInv PROVE TypeOK
    OBVIOUS
  <2>1. \A t \in tasks : t \in [kind : Kind, path : Path, cloud : Cloud,
                               id : 0..db.lastId, data : Variant \cup {None}]
    BY DEF IInv, Typed, IsTask, DbInv, DbTyped
  <2> QED
    BY <2>1 DEF IInv, Typed, DbInv, DbTyped, TypeOK
<1> QED
  BY <1>1, PhasesKeep, DatabaseKeeps, PTL

(* At the end every file none of whose commands failed is the same newest   *)
(* variant wherever it can be supplied, and the database says so.            *)
LEMMA DoneMeansSame ==
  ASSUME IInv, FromListed, NeverOlder, DbInv, phase = "done",
         NEW p \in Path \ occupied, In(listed, p) # {}
  PROVE  \E v \in Newest(p), id \in DOMAIN db.files :
           /\ \A s \in Supplied(p) : store[s][p] = v
           /\ RowsOf(db, p) = {id}
           /\ db.files[id].stat = store[Local][p]
           /\ LinkedClouds(db, id) = Cloud
           /\ \A c \in Cloud \cap Supplied(p) : db.links[<<id, c>>] = store[c][p]
<1> DEFINE v == store[Local][p]
<1>1. tasks = {} /\ left = {} /\ p \in DOMAIN localMap /\ Local \in Storage
  BY DEF DbInv, Ended, Chosen, Storage
<1>2. LocalNewest(p) /\ v # None /\ v.time \in Nat
  BY <1>1, Times DEF IInv, Pushing, LocalNewest
<1>3. v \in Newest(p)
  <2>1. PICK r \in Storage : listed[r][p] = v
    BY <1>1, <1>2 DEF FromListed
  <2>2. ASSUME NEW o \in In(listed, p) PROVE listed[o][p].time <= v.time
    <3>1. o \in Storage /\ listed[o][p] # None
      BY DEF In
    <3>2. store[o][p] # None /\ listed[o][p].time <= store[o][p].time
      BY <3>1 DEF NeverOlder
    <3>3. store[o][p].time <= v.time
      BY <1>2, <3>1, <3>2 DEF LocalNewest
    <3>4. listed[o][p].time \in Nat /\ store[o][p].time \in Nat
      BY <3>1, <3>2, Times DEF IInv
    <3> QED
      BY <1>2, <3>2, <3>3, <3>4
  <2>3. r \in In(listed, p)
    BY <1>2, <2>1 DEF In
  <2> QED
    BY <2>1, <2>2, <2>3 DEF Newest
<1>4. PICK id \in RowsOf(db, p) : TRUE
  BY <1>2 DEF DbInv, Rows, HasRow
<1>5. id \in DOMAIN db.files /\ PathOfRow(id) = p /\ RowsOf(db, p) = {id}
  BY <1>4, OneRow DEF DbInv
<1>6. db.files[id].stat = v
  BY <1>5 DEF DbInv, Rows
<1>7. ASSUME NEW c \in Cloud
      PROVE  /\ <<id, c>> \in DOMAIN db.links
             /\ Unreached(p, c) \/ (store[c][p] = v /\ db.links[<<id, c>>] = store[c][p])
  BY <1>1, <1>4 DEF DbInv, Spread
<1>8. \A c \in Cloud \cap Supplied(p) : ~Unreached(p, c)
  BY DEF Supplied, Unreached, In
<1>9. LinkedClouds(db, id) = Cloud
  <2>1. \A c \in Cloud : c \in LinkedClouds(db, id)
    <3> SUFFICES ASSUME NEW c \in Cloud PROVE c \in LinkedClouds(db, id)
      OBVIOUS
    <3>1. <<id, c>>[1] = id /\ <<id, c>>[2] = c /\ <<id, c>> \in DOMAIN db.links
      BY <1>7
    <3> QED
      BY <3>1 DEF LinkedClouds
  <2>2. \A c \in LinkedClouds(db, id) : c \in Cloud
    BY DEF LinkedClouds, DbInv, DbTyped
  <2> QED
    BY <2>1, <2>2
<1>10. \A s \in Supplied(p) : store[s][p] = v
  BY <1>7, <1>8 DEF Supplied, Storage
<1>11. \A c \in Cloud \cap Supplied(p) : db.links[<<id, c>>] = store[c][p]
  BY <1>7, <1>8
<1> QED
  BY <1>3, <1>5, <1>6, <1>9, <1>10, <1>11

(* Whatever the storages contained, whichever commands fail and in whatever *)
(* order the others run: initialSync() ends with the same newest variant     *)
(* of each file wherever it can be supplied and with a database that says    *)
(* so, but for the files of failed commands, and of these too it says        *)
(* nothing that is not so.                                                  *)
THEOREM SyncConverges == Spec => []Converged
<1>1. IInv /\ FromListed /\ NeverOlder /\ DbInv => Converged
  <2> SUFFICES ASSUME IInv, FromListed, NeverOlder, DbInv PROVE Converged
    OBVIOUS
  <2>1. \A i \in DOMAIN db.files : store[Local][db.files[i].path] # None
    BY InitialSyncAssumption DEF DbInv, DbTyped, Rows, PathOfRow
  <2>2. \A key \in DOMAIN db.links : store[key[2]][db.files[key[1]].path] # None
    BY DEF DbInv, Links, PathOfRow
  <2> QED
    BY <2>1, <2>2, DoneMeansSame DEF Converged
<1>2. Init => FromListed
  BY NewestKeptInit
<1>3. IInv /\ FromListed /\ [Next]_vars => FromListed'
  BY FromListedStep
<1> QED
  BY <1>1, <1>2, <1>3, PhasesKeep, DatabaseKeeps, PTL DEF Spec

-----------------------------------------------------------------------------
(* What an abort means: getGlobalIdByPath() has thrown for a file without a  *)
(* row, hence for one that is not here, though it was to be downloaded.      *)
LEMMA ThrowsAfterFailure ==
  ASSUME IInv, DbInv, NEW p \in Path, PushThrows(p)
  PROVE  p \in occupied /\ listed[Local][p] = None /\ store[Local][p] = None
<1>1. phase = "push" /\ p \in DOMAIN localMap /\ localMap[p].id = 0 /\ ~HasRow(db, p)
  BY DEF PushThrows, HasId, IInv, Pushing
<1>2. listed[Local][p] = None
  BY <1>1 DEF DbInv, Rows, HasRow
<1>3. store[Local][p] = None
  BY <1>1 DEF DbInv, Rows
<1>4. p \in occupied
  BY <1>1, <1>3, ChosenWhere DEF DbInv, Chosen, IInv
<1> QED
  BY <1>2, <1>3, <1>4

(* The initial sync is only cut short by a failed download of a file that    *)
(* was in clouds alone.                                                     *)
THEOREM AbortsExplained == Spec => []AbortsOnlyAfterFailure
<1>1. Init => AbortsOnlyAfterFailure
  BY DEF Init, AbortsOnlyAfterFailure
<1>2. IInv /\ DbInv /\ AbortsOnlyAfterFailure /\ [Next]_vars => AbortsOnlyAfterFailure'
  <2> SUFFICES ASSUME IInv, DbInv, AbortsOnlyAfterFailure, [Next]_vars, phase' = "aborted"
               PROVE  \E p \in occupied' : listed'[Local][p] = None /\ store'[Local][p] = None
    BY DEF AbortsOnlyAfterFailure
  <2>1. ASSUME NEW p \in Path, PushThrows(p)
        PROVE  \E q \in occupied' : listed'[Local][q] = None /\ store'[Local][q] = None
    BY <2>1, ThrowsAfterFailure DEF PushThrows
  <2>2. CASE phase = "aborted"
    <3>1. UNCHANGED vars
      <4>1. tasks = {}
        BY <2>2 DEF IInv, Aborted
      <4> QED
        BY <2>2, <4>1 DEF Next, Main, Work, Rest, Scan, Scanned, Reconcile, Downloaded, Push,
                          PushThrows, Finish
    <3> QED
      BY <2>2, <3>1 DEF AbortsOnlyAfterFailure, vars
  <2>3. CASE phase # "aborted"
    <3>1. \E p \in Path : PushThrows(p)
      BY <2>3 DEF Next, Main, Work, Rest, Scan, Scanned, Reconcile, Downloaded, Push, Finish,
                  Transfer, TransferFails, LocalUpload, LocalUpdate, CloudUpload, CloudUpdate, vars
    <3> QED
      BY <2>1, <3>1
  <2> QED
    BY <2>2, <2>3
<1> QED
  BY <1>1, <1>2, PhasesKeep, DatabaseKeeps, PTL DEF Spec

=============================================================================
