----------------------------- MODULE InitialSync -----------------------------
(***************************************************************************)
(* What the initial synchronisation does to files and database:            *)
(* SyncManager::initialSync() (src/sync-manager.cpp) and the completion    *)
(* callbacks of the commands that it creates.                              *)
(*                                                                         *)
(* The main thread lists all storages, picks the newest variant of each    *)
(* file, has it downloaded, waits, and then has it uploaded wherever it is *)
(* missing or older.  The commands run meanwhile, in any order, and each    *)
(* may fail.  How they reach their threads, and that the waits are a       *)
(* barrier, is the topic of CommandPipeline; that the path of a failed     *)
(* command stays occupied is that of ChangeTracker.                        *)
(*                                                                         *)
(* Files only: directories are the topic of Directories.  Nobody else      *)
(* touches the storages meanwhile.  Dropbox's setupUpdateHandle() leaves    *)
(* the home directory out of the path: an update goes to another place of    *)
(* that cloud (unless the home directory is all of it).                     *)
(***************************************************************************)
EXTENDS Database

CONSTANTS
  Cloud,
  Astray,       \* the clouds whose updates do not reach the home directory
  Local,
  Path,
  None,         \* no file
  LastTime,     \* the last moment that a modification time can name
  Beginning     \* the contents of the storages to begin with

Storage == Cloud \cup {Local}

Time == 0..LastTime

(* What a file contains: which storage had it, and how old it was there. *)
Variant == [time : Time, origin : Storage]
Contents == [Storage -> [Path -> Variant \cup {None}]]

ASSUME InitialSyncAssumption ==
  /\ Local \notin Cloud /\ Astray \subseteq Cloud
  /\ LastTime \in Nat
  /\ None \notin Variant
  /\ Beginning \subseteq Contents

VARIABLES
  listed,     \* what the storages contain when they are listed
  store,      \* what they contain
  db,
  localMap,   \* local_files_map: path to [stat, cloud, id] of the variant to spread
  tasks,      \* commands in progress
  occupied,   \* paths of _current_changes whose change never completes
  phase,      \* where the main thread is
  left        \* paths that it has yet to treat there

vars == <<listed, store, db, localMap, tasks, occupied, phase, left>>

Phase == {"scan", "reconcile", "push", "done", "aborted"}
Kind == {"downloadNew", "downloadUpdate", "upload", "update"}
Task(kind, path, cloud, id) ==
  [kind |-> kind, path |-> path, cloud |-> cloud, id |-> id, data |-> None]

In(contents, path) == {s \in Storage : contents[s][path] # None}

Init ==
  /\ listed \in Beginning /\ store = listed
  /\ db = EmptyDb
  /\ localMap = <<>>
  /\ tasks = {} /\ occupied = {}
  /\ phase = "scan" /\ left = {p \in Path : listed[Local][p] # None}

-----------------------------------------------------------------------------
(* The main thread. *)

(* A row for a local file. *)
Scan(p) ==
  /\ phase = "scan" /\ p \in left
  /\ db' = WithFile(db, p, listed[Local][p])
  /\ localMap' = Put(localMap, p,
                     [stat |-> listed[Local][p], cloud |-> Local, id |-> NewId(db)])
  /\ left' = left \ {p}
  /\ UNCHANGED <<listed, store, tasks, occupied, phase>>

Scanned ==
  /\ phase = "scan" /\ left = {}
  /\ phase' = "reconcile"
  /\ left' = {p \in Path : In(listed, p) \cap Cloud # {}}
  /\ UNCHANGED <<listed, store, db, localMap, tasks, occupied>>

(* Mutant: the oldest. *)
OldestIn(p) ==
  {c \in In(listed, p) \cap Cloud :
     \A d \in In(listed, p) \cap Cloud : listed[d][p].time >= listed[c][p].time}

(* The clouds with the newest variant: which of them becomes "best" depends *)
(* on the order of a hash table.                                           *)
BestIn(p) ==
  {c \in In(listed, p) \cap Cloud :
     \A d \in In(listed, p) \cap Cloud : listed[d][p].time <= listed[c][p].time}

(* A file that is in some cloud: downloaded if it is not here, or older.    *)
Reconcile(p, best) ==
  LET here == p \in DOMAIN localMap
      download == ~here \/ localMap[p].stat.time < listed[best][p].time
      id == IF here THEN localMap[p].id ELSE 0
      kind == IF here THEN "downloadUpdate" ELSE "downloadNew"
  IN
  /\ phase = "reconcile" /\ p \in left /\ best \in BestIn(p)
  /\ IF download
     THEN /\ tasks' = tasks \cup {Task(kind, p, best, id)}
          /\ localMap' = Put(localMap, p,
                             [stat |-> listed[best][p], cloud |-> best, id |-> id])
     ELSE UNCHANGED <<tasks, localMap>>
  /\ left' = left \ {p}
  /\ UNCHANGED <<listed, store, db, occupied, phase>>

(* Mutant: the downloads are not waited for. *)
NotDownloaded ==
  /\ phase = "reconcile" /\ left = {}
  /\ phase' = "push" /\ left' = DOMAIN localMap
  /\ UNCHANGED <<listed, store, db, localMap, tasks, occupied>>

(* The three waits. *)
Downloaded ==
  /\ phase = "reconcile" /\ left = {} /\ tasks = {}
  /\ phase' = "push" /\ left' = DOMAIN localMap
  /\ UNCHANGED <<listed, store, db, localMap, tasks, occupied>>

(* The id of a file of localMap: one that was downloaded has its row by now. *)
HasId(p) == localMap[p].id # 0 \/ HasRow(db, p)
IdOf(p) == IF localMap[p].id # 0 THEN localMap[p].id ELSE GlobalId(db, p)

(* The commands that spread a variant: to the clouds without the file, and  *)
(* to those with another variant.                                          *)
Uploads(p) ==
  {Task("upload", p, c, IdOf(p)) : c \in Cloud \ In(listed, p)} \cup
  {Task("update", p, c, IdOf(p)) :
     c \in (Cloud \cap In(listed, p)) \ {localMap[p].cloud}}

(* The links of the clouds that have the file. *)
ListedLinks(p) ==
  [c \in Cloud \cap In(listed, p) |->
     IF c = localMap[p].cloud THEN localMap[p].stat ELSE listed[c][p]]

(* Mutant: as if handleChange did not look at the path's last change. *)
PushRegardless(p) ==
  /\ phase = "push" /\ p \in left /\ HasId(p)
  /\ db' = WithLinks(db, IdOf(p), ListedLinks(p))
  /\ tasks' = tasks \cup Uploads(p)
  /\ left' = left \ {p}
  /\ UNCHANGED <<listed, store, localMap, occupied, phase>>

(* A change for the path; if the path is occupied, it becomes a dependent   *)
(* of a change that never completes.                                       *)
Push(p) ==
  /\ phase = "push" /\ p \in left /\ HasId(p)
  /\ db' = WithLinks(db, IdOf(p), ListedLinks(p))
  /\ tasks' = IF p \in occupied THEN tasks ELSE tasks \cup Uploads(p)
  /\ left' = left \ {p}
  /\ UNCHANGED <<listed, store, localMap, occupied, phase>>

(* getGlobalIdByPath() throws and nobody catches: the program ends. *)
PushThrows(p) ==
  /\ phase = "push" /\ p \in left /\ ~HasId(p)
  /\ phase' = "aborted" /\ tasks' = {}
  /\ UNCHANGED <<listed, store, db, localMap, occupied, left>>

Finish ==
  /\ phase = "push" /\ left = {} /\ tasks = {}
  /\ phase' = "done"
  /\ UNCHANGED <<listed, store, db, localMap, tasks, occupied, left>>

-----------------------------------------------------------------------------
(* The two workers. *)

Downloads == {"downloadNew", "downloadUpdate"}
Source(t) == IF t.kind \in Downloads THEN t.cloud ELSE Local
Transferred(t) == [t EXCEPT !.data = store[Source(t)][t.path]]
StoreWith(s, t, data) == [store EXCEPT ![s][t.path] = data]

(* An upload ends in the cloud, an update too if it finds its way. *)
Reaches(t) ==
  t.kind = "upload" \/ (t.kind = "update" /\ t.cloud \notin Astray)

(* A transfer; a download ends in a temporary file. *)
Transfer(t) ==
  /\ t \in tasks /\ t.data = None
  /\ tasks' = (tasks \ {t}) \cup {Transferred(t)}
  /\ store' = IF Reaches(t) THEN StoreWith(t.cloud, t, Transferred(t).data)
              ELSE store
  /\ UNCHANGED <<listed, db, localMap, occupied, phase, left>>

(* A transfer that fails for good; an upload may have reached the cloud.     *)
TransferFails(t) ==
  /\ t \in tasks /\ t.data = None
  /\ tasks' = tasks \ {t}
  /\ occupied' = occupied \cup {t.path}
  /\ \/ UNCHANGED store
     \/ /\ Reaches(t)
        /\ store' = StoreWith(t.cloud, t, Transferred(t).data)
  /\ UNCHANGED <<listed, db, localMap, phase, left>>

(* LocalUploadCommand's callback: rename, row, link. *)
LocalUpload(t) ==
  /\ t \in tasks /\ t.kind = "downloadNew" /\ t.data # None
  /\ store' = StoreWith(Local, t, t.data)
  /\ db' = WithLink(WithFile(db, t.path, t.data), NewId(db), t.cloud, t.data)
  /\ tasks' = tasks \ {t}
  /\ UNCHANGED <<listed, localMap, occupied, phase, left>>

(* Mutant: the row keeps what it said of the old file. *)
LocalUpdateForgetsRow(t) ==
  /\ t \in tasks /\ t.kind = "downloadUpdate" /\ t.data # None
  /\ store' = StoreWith(Local, t, t.data)
  /\ db' = WithLinkUpdated(db, t.id, t.cloud, t.data)
  /\ tasks' = tasks \ {t}
  /\ UNCHANGED <<listed, localMap, occupied, phase, left>>

(* LocalUpdateCommand's callback: the old file is removed, the new one      *)
(* renamed, link and row updated.                                          *)
LocalUpdate(t) ==
  /\ t \in tasks /\ t.kind = "downloadUpdate" /\ t.data # None
  /\ store' = StoreWith(Local, t, t.data)
  /\ db' = WithFileUpdated(WithLinkUpdated(db, t.id, t.cloud, t.data), t.id, t.data)
  /\ tasks' = tasks \ {t}
  /\ UNCHANGED <<listed, localMap, occupied, phase, left>>

(* CloudUploadCommand's and CloudUpdateCommand's callbacks. *)
CloudUpload(t) ==
  /\ t \in tasks /\ t.kind = "upload" /\ t.data # None
  /\ db' = WithLink(db, t.id, t.cloud, t.data)
  /\ tasks' = tasks \ {t}
  /\ UNCHANGED <<listed, store, localMap, occupied, phase, left>>

CloudUpdate(t) ==
  /\ t \in tasks /\ t.kind = "update" /\ t.data # None
  /\ db' = WithLinkUpdated(db, t.id, t.cloud, t.data)
  /\ tasks' = tasks \ {t}
  /\ UNCHANGED <<listed, store, localMap, occupied, phase, left>>

Main ==
  \/ \E p \in Path : Scan(p)
  \/ Scanned
  \/ \E p \in Path, best \in Cloud : Reconcile(p, best)
  \/ Downloaded
  \/ \E p \in Path : Push(p)
  \/ \E p \in Path : PushThrows(p)
  \/ Finish
Work ==
  \E t \in tasks :
    \/ Transfer(t)
    \/ TransferFails(t)
    \/ LocalUpload(t)
    \/ LocalUpdate(t)
    \/ CloudUpload(t)
    \/ CloudUpdate(t)
Rest == phase \in {"done", "aborted"} /\ UNCHANGED vars

Next == Main \/ Work \/ Rest

Spec == Init /\ [][Next]_vars

-----------------------------------------------------------------------------
(* The variables have their types. *)
TypeOK ==
  /\ listed \in Contents /\ store \in Contents
  /\ \A id \in DOMAIN db.files : id \in 1..db.lastId
  /\ \A id \in DOMAIN db.files : db.files[id] \in [path : Path, stat : Variant]
  /\ \A key \in DOMAIN db.links : /\ key \in (DOMAIN db.files) \X Cloud
                                  /\ db.links[key] \in Variant
  /\ DOMAIN localMap \subseteq Path
  /\ \A p \in DOMAIN localMap :
       localMap[p] \in [stat : Variant, cloud : Storage, id : 0..db.lastId]
  /\ tasks \subseteq [kind : Kind, path : Path, cloud : Cloud, id : 0..db.lastId,
                      data : Variant \cup {None}]
  /\ occupied \subseteq Path
  /\ phase \in Phase
  /\ left \subseteq Path

Newest(p) ==
  {listed[s][p] : s \in {s \in In(listed, p) :
     \A o \in In(listed, p) : listed[o][p].time <= listed[s][p].time}}

(* Whatever fails and in whatever order the commands run, at every moment a *)
(* newest variant of every file is in some storage: the initial sync never  *)
(* destroys it.                                                            *)
NewestKept ==
  \A p \in Path : In(listed, p) # {} => \E s \in Storage : store[s][p] \in Newest(p)

(* A variant is only ever replaced by one that is at least as new. *)
OnlyOlderReplaced ==
  [][\A s \in Storage, p \in Path :
       store[s][p] # None =>
         store'[s][p] # None /\ store[s][p].time <= store'[s][p].time]_vars

(* A cloud whose updates go astray gets a variant only if it had none.      *)
Supplied(p) ==
  {s \in Storage : s \in Astray => listed[s][p] = None \/ s = localMap[p].cloud}

(* When the initial sync is done, all storages that can be supplied have    *)
(* the same newest variant of every file none of whose commands failed, and *)
(* the database says so: one row, with what is recorded of the local file,  *)
(* and a link to each cloud, with what is recorded of its file.  The daemon  *)
(* compares with these records.  Of a file whose commands failed the         *)
(* database tells nothing that is not so: a row means a local file, and a     *)
(* link a file in that cloud.                                              *)
Converged ==
  /\ phase = "done" =>
       \A p \in Path \ occupied : In(listed, p) # {} =>
         \E v \in Newest(p), id \in DOMAIN db.files :
           /\ \A s \in Supplied(p) : store[s][p] = v
           /\ RowsOf(db, p) = {id}
           /\ db.files[id].stat = store[Local][p]
           /\ LinkedClouds(db, id) = Cloud
           /\ \A c \in Cloud \cap Supplied(p) : db.links[<<id, c>>] = store[c][p]
  /\ \A i \in DOMAIN db.files : store[Local][db.files[i].path] # None
  /\ \A key \in DOMAIN db.links : store[key[2]][db.files[key[1]].path] # None

(* The initial sync is only aborted for a file that is in clouds alone and   *)
(* whose download failed.                                                  *)
AbortsOnlyAfterFailure ==
  phase = "aborted" =>
    \E p \in occupied : listed[Local][p] = None /\ store[Local][p] = None

=============================================================================
