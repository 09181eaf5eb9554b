----------------------------- MODULE Directories -----------------------------
(***************************************************************************)
(* How a directory comes to exist in every storage: the directory half of  *)
(* SyncManager::handleChange() and SyncManager::createPath()               *)
(* (src/sync-manager.cpp), with LocalStorage::createPath(),                *)
(* GoogleDrive::createPath(), Dropbox::createPath() and the database.      *)
(*                                                                         *)
(* The changes worker takes changes that need a directory: a new directory *)
(* found in one storage, or the parent of a new file.  What the database   *)
(* does not know as mirrored to all clouds is created step by step: local  *)
(* directories, their rows, the clouds' folders, their links.  Meanwhile   *)
(* users make directories of their own, and the process may die; a         *)
(* restarted daemon asks the clouds for all changes since the initial      *)
(* synchronisation.                                                        *)
(*                                                                         *)
(* Not here: how storages notice changes, and the removal of directories.  *)
(***************************************************************************)
EXTENDS Database, SequencesExt

CONSTANTS
  Cloud,
  Local,
  Name,
  Path,           \* directories, as sequences of names
  MaxMade,        \* bound: users make directories until there are as many
  MaxRestarts     \* bound: restarts of the daemon

Storage == Cloud \cup {Local}

ASSUME DirectoriesAssumption ==
  /\ Local \notin Cloud
  /\ IsFiniteSet(Cloud)
  /\ MaxMade \in Nat /\ MaxRestarts \in Nat
  /\ Path \subseteq Seq(Name) \ {<<>>}
  /\ \A p \in Path : \A n \in DOMAIN p : Prefix(p, n) \in Path

VARIABLES
  exists,     \* [Storage -> directories in it]
  db,
  changes,    \* _changes_buff: directories that changes need
  step,       \* what createPath does next, or "idle"
  path,       \* its arguments: the path
  missing,    \* and how many components it lacks
  made,       \* local directories it has created and not yet written to db
  ids,        \* path_to_global_id
  todo,       \* clouds it has not visited
  entries,    \* [cloud, id] of folders whose links it is going to write
  up,         \* the process runs
  threw,      \* the process was ended by an exception of createPath
  byUser,     \* directories users have made: pairs of storage and path
  restarts    \* restarts so far

pathVars == <<step, path, missing, made, ids, todo, entries>>
dirVars == <<exists, db, changes, pathVars, up, threw, byUser, restarts>>

Step == {"idle", "local", "rows", "clouds", "links"}
NumClouds == Cardinality(Cloud)

(* The prefixes of the path that createPath is to make, shortest first. *)
Lacking == [i \in 1..missing |-> Prefix(path, Len(path) - missing + i)]
LackingSet == {Lacking[i] : i \in 1..missing}

Idle ==
  /\ step' = "idle" /\ path' = <<>> /\ missing' = 0 /\ made' = <<>>
  /\ ids' = <<>> /\ todo' = {} /\ entries' = {}

DirInit ==
  /\ exists = [s \in Storage |-> {}]
  /\ db = EmptyDb
  /\ changes = <<>>
  /\ step = "idle" /\ path = <<>> /\ missing = 0 /\ made = <<>>
  /\ ids = <<>> /\ todo = {} /\ entries = {}
  /\ up = TRUE /\ threw = FALSE
  /\ byUser = {} /\ restarts = 0

-----------------------------------------------------------------------------
(* A user makes a directory, with the parents it lacks; the storage reports *)
(* them in some order (initialSync() goes through a hash table), unless     *)
(* nobody listens: the watcher is gone with the process, a cloud remembers  *)
(* (Restart).                                                              *)
UserMakes(s, p) ==
  LET new == {Prefix(p, n) : n \in DOMAIN p} \ exists[s] IN
  /\ Cardinality(byUser) < MaxMade
  /\ new # {}
  /\ exists' = [exists EXCEPT ![s] = @ \cup new]
  /\ byUser' = byUser \cup {<<s, q>> : q \in new}
  /\ IF up THEN \E order \in SetToSeqs(new) : changes' = changes \o order
     ELSE UNCHANGED changes
  /\ UNCHANGED <<db, pathVars, up, threw, restarts>>

-----------------------------------------------------------------------------
(* Mutant: one component too many is kept. *)
HandleOffByOne ==
  /\ up /\ step = "idle" /\ changes # <<>>
  /\ changes' = Tail(changes)
  /\ LET lacks == Len(MissingPathPart(db, Head(changes), NumClouds)) IN
       IF lacks = 0 THEN UNCHANGED pathVars
       ELSE /\ step' = "local" /\ path' = Head(changes) /\ missing' = lacks + 1
            /\ todo' = Cloud
            /\ UNCHANGED <<made, ids, entries>>
  /\ UNCHANGED <<exists, db, up, threw, byUser, restarts>>

(* handleChange: what is missing, if anything, of the head's directory. *)
Handle ==
  /\ up /\ step = "idle" /\ changes # <<>>
  /\ changes' = Tail(changes)
  /\ LET lacks == Len(MissingPathPart(db, Head(changes), NumClouds)) IN
       IF lacks = 0 THEN UNCHANGED pathVars
       ELSE /\ step' = "local" /\ path' = Head(changes) /\ missing' = lacks
            /\ todo' = Cloud
            /\ UNCHANGED <<made, ids, entries>>
  /\ UNCHANGED <<exists, db, up, threw, byUser, restarts>>

(* Mutant: the answer of create_directory is not tested. *)
CreateLocalUntested(p) ==
  /\ up /\ step = "local"
  /\ p \in LackingSet /\ \A i \in DOMAIN made : made[i] # p
  /\ \A q \in LackingSet : Len(q) < Len(p) => q \in exists[Local]
  /\ exists' = [exists EXCEPT ![Local] = @ \cup {p}]
  /\ made' = Append(made, p)
  /\ UNCHANGED <<db, changes, step, path, missing, ids, todo, entries, up, threw, byUser, restarts>>

(* LocalStorage::createPath, one segment: a directory that exists already   *)
(* is left out of the result.                                              *)
CreateLocal(p) ==
  /\ up /\ step = "local"
  /\ p \in LackingSet \ exists[Local]
  /\ \A q \in LackingSet : Len(q) < Len(p) => q \in exists[Local]
  /\ exists' = [exists EXCEPT ![Local] = @ \cup {p}]
  /\ made' = Append(made, p)
  /\ UNCHANGED <<db, changes, step, path, missing, ids, todo, entries, up, threw, byUser, restarts>>

LocalCreated ==
  /\ up /\ step = "local"
  /\ LackingSet \subseteq exists[Local]
  /\ step' = "rows"
  /\ UNCHANGED <<exists, db, changes, path, missing, made, ids, todo, entries, up, threw, byUser, restarts>>

(* syncDbWrite of the local entries, one add_file. *)
WriteRow ==
  /\ up /\ step = "rows" /\ made # <<>>
  /\ db' = WithFile(db, Head(made), Local)
  /\ ids' = Put(ids, Head(made), NewId(db))
  /\ made' = Tail(made)
  /\ UNCHANGED <<exists, changes, step, path, missing, todo, entries, up, threw, byUser, restarts>>

(* Mutant: the write is not waited for. *)
RowsUnwritten ==
  /\ up /\ step = "rows"
  /\ step' = "clouds"
  /\ UNCHANGED <<exists, db, changes, path, missing, made, ids, todo, entries, up, threw, byUser, restarts>>

RowsWritten ==
  /\ up /\ step = "rows" /\ made = <<>>
  /\ step' = "clouds"
  /\ UNCHANGED <<exists, db, changes, path, missing, made, ids, todo, entries, up, threw, byUser, restarts>>

IdOf(p) == IF p \in DOMAIN ids THEN ids[p] ELSE GlobalId(db, p)

(* createPath of one cloud, which creates folders or finds them, and the    *)
(* ids of their entries.                                                   *)
CreateInCloud(c) ==
  /\ up /\ step = "clouds" /\ c \in todo
  /\ \A p \in LackingSet : p \in DOMAIN ids \/ HasRow(db, p)
  /\ exists' = [exists EXCEPT ![c] = @ \cup LackingSet]
  /\ entries' = entries \cup {<<c, IdOf(p)>> : p \in LackingSet}
  /\ todo' = todo \ {c}
  /\ UNCHANGED <<db, changes, step, path, missing, made, ids, up, threw, byUser, restarts>>

(* The same, when a folder has no row: getGlobalIdByPath() throws, and      *)
(* nothing on the changes worker's stack catches.                          *)
CreateInCloudThrows(c) ==
  /\ up /\ step = "clouds" /\ c \in todo
  /\ \E p \in LackingSet : p \notin DOMAIN ids /\ ~HasRow(db, p)
  /\ exists' = [exists EXCEPT ![c] = @ \cup LackingSet]
  /\ up' = FALSE /\ threw' = TRUE
  /\ changes' = <<>> /\ Idle
  /\ UNCHANGED <<db, byUser, restarts>>

(* Mutant: the first cloud will do. *)
CloudVisited ==
  /\ up /\ step = "clouds" /\ todo # Cloud
  /\ step' = "links"
  /\ UNCHANGED <<exists, db, changes, path, missing, made, ids, todo, entries, up, threw, byUser, restarts>>

CloudsVisited ==
  /\ up /\ step = "clouds" /\ todo = {}
  /\ step' = "links"
  /\ UNCHANGED <<exists, db, changes, path, missing, made, ids, todo, entries, up, threw, byUser, restarts>>

(* syncDbWrite of the clouds' entries, one add_file_link. *)
WriteLink(e) ==
  /\ up /\ step = "links" /\ e \in entries
  /\ CanLink(db, e[2])
  /\ db' = WithLink(db, e[2], e[1], e[1])
  /\ entries' = entries \ {e}
  /\ UNCHANGED <<exists, changes, step, path, missing, made, ids, todo, up, threw, byUser, restarts>>

PathCreated ==
  /\ up /\ step = "links" /\ entries = {}
  /\ Idle
  /\ UNCHANGED <<exists, db, changes, up, threw, byUser, restarts>>

-----------------------------------------------------------------------------
(* The process is killed, or a request of createPath fails (which throws);  *)
(* in a cloud some of the folders may have been created by then.           *)
Die ==
  /\ up /\ restarts < MaxRestarts
  /\ \/ UNCHANGED exists
     \/ /\ step = "clouds"
        /\ \E c \in todo, n \in 1..missing :
             exists' = [exists EXCEPT ![c] = @ \cup {Lacking[i] : i \in 1..n}]
  /\ up' = FALSE
  /\ changes' = <<>> /\ Idle
  /\ UNCHANGED <<db, threw, byUser, restarts>>

(* The daemon starts again with the delta tokens of the initial sync: every *)
(* folder without a link is a new one, parents first.                      *)
Unlinked(c) ==
  {p \in exists[c] : ~(HasRow(db, p) /\ c \in LinkedClouds(db, GlobalId(db, p)))}
Restart ==
  /\ ~up /\ restarts < MaxRestarts
  /\ up' = TRUE /\ threw' = FALSE /\ restarts' = restarts + 1
  /\ \E order \in SetToSeqs(UNION {Unlinked(c) : c \in Cloud}) :
       /\ \A i, j \in DOMAIN order : i < j => Len(order[i]) <= Len(order[j])
       /\ changes' = order
  /\ UNCHANGED <<exists, db, pathVars, byUser>>

(* Nothing to do, or not to be restarted. *)
DirRest ==
  /\ IF up THEN step = "idle" /\ changes = <<>> ELSE restarts = MaxRestarts
  /\ UNCHANGED dirVars

User == \E s \in Storage, p \in Path : UserMakes(s, p)
Create ==
  \/ Handle
  \/ \E p \in Path : CreateLocal(p)
  \/ LocalCreated
  \/ WriteRow
  \/ RowsWritten
  \/ \E c \in Cloud : CreateInCloud(c) \/ CreateInCloudThrows(c)
  \/ CloudsVisited
  \/ \E e \in entries : WriteLink(e)
  \/ PathCreated

DirNext == User \/ Create \/ Die \/ Restart \/ DirRest

DirSpec == DirInit /\ [][DirNext]_dirVars
(* The changes worker is a running thread and its requests are answered.   *)
DirFairSpec == DirSpec /\ WF_dirVars(Create)

-----------------------------------------------------------------------------
(* The variables have their types. *)
DirTypeOK ==
  /\ exists \in [Storage -> SUBSET Path]
  /\ DOMAIN db = {"files", "links", "lastId"} /\ db.lastId \in Nat
  /\ \A id \in DOMAIN db.files : id \in 1..db.lastId /\ db.files[id].path \in Path
  /\ \A key \in DOMAIN db.links : key[1] \in DOMAIN db.files /\ key[2] \in Cloud
  /\ changes \in Seq(Path)
  /\ step \in Step
  /\ step = "idle" \/ path \in Path
  /\ missing \in 0..Len(path)
  /\ made \in Seq(Path)
  /\ DOMAIN ids \subseteq Path
  /\ todo \subseteq Cloud
  /\ entries \subseteq Cloud \X DOMAIN db.files
  /\ up \in BOOLEAN /\ threw \in BOOLEAN
  /\ restarts \in 0..MaxRestarts

(* Whatever the users do meanwhile and wherever the process died before, the *)
(* database stays true: a row is only made for a directory that exists       *)
(* locally, a link only for a folder that its cloud really has, and no       *)
(* directory has two rows: the queries by path, which take the first, would  *)
(* not see the links of the other (files.path is not UNIQUE, createPath      *)
(* relies on what the file system tells it).                               *)
RowsAndLinksReal ==
  /\ \A id \in DOMAIN db.files : db.files[id].path \in exists[Local]
  /\ \A key \in DOMAIN db.links : db.files[key[1]].path \in exists[key[2]]
  /\ \A i, j \in DOMAIN db.files : db.files[i].path = db.files[j].path => i = j

(* When createPath() returns, the whole path exists in every storage and    *)
(* getMissingPathPart() finds nothing missing, so that it is not called for *)
(* this path again.                                                        *)
PathComplete ==
  [][(step = "links" /\ step' = "idle" /\ up') =>
       /\ MissingPathPart(db', path, NumClouds) = <<>>
       /\ \A n \in DOMAIN path, s \in Storage : Prefix(path, n) \in exists'[s]]_dirVars

(* createPath() throws only about directories that a user made locally, or  *)
(* that an earlier life of the process left behind.                        *)
ThrowsOnlyOnStrangers ==
  threw => restarts > 0 \/ \E p \in Path : <<Local, p>> \in byUser

(* A directory that a user makes in a cloud while the daemon runs comes to  *)
(* exist in every storage, unless the daemon dies first.                   *)
ReachesAllStorages ==
  \A c \in Cloud, p \in Path :
    (up /\ <<c, p>> \in byUser) ~> (\A s \in Storage : p \in exists[s]) \/ ~up

=============================================================================
