------------------------------ MODULE LocalEvents ------------------------------
(***************************************************************************)
(* How the daemon follows the local directory: the watcher's callback      *)
(* onFsEvent(), proccessChanges() and the handle*() functions of            *)
(* LocalStorage (src/LocalStorage.cpp), the events it expects because it    *)
(* writes to the directory itself (EventsRegistry), and the callbacks of    *)
(* the commands that carry changes out in the directory, the database and  *)
(* a cloud.                                                                *)
(*                                                                         *)
(* Four threads and the users meet here: users write files, the system     *)
(* notes it down, the watcher's thread passes it on unless the file has     *)
(* gone, the polling thread looks at the disk and at the database as they   *)
(* are by then, and the callback worker writes both.  A file is the same   *)
(* by its inode (file_id), which an editor that saves to another file and   *)
(* renames that changes, and a move does not.                              *)
(*                                                                         *)
(* Not here: directories (a local one is in Directories), requests that    *)
(* fail and updates that do not reach their file (CloudChanges), times:     *)
(* fromWatcherTime() is applied to a time in seconds as if it were in        *)
(* nanoseconds, so that no event is later than a row's time and only the    *)
(* hash counts.                                                            *)
(***************************************************************************)
EXTENDS Database, EventsRegistry, SequencesExt

CONSTANTS
  Path,       \* files of the directory
  Tmp,        \* any file that ignoreTmp() ignores
  Cloud,      \* the id of the cloud
  MaxUser,    \* bound: what users do
  MaxForeign, \* bound: changes from the cloud
  MaxRestarts \* bound: restarts of the daemon

ASSUME LocalEventsAssumption ==
  /\ IsFiniteSet(Path) /\ {Tmp, <<>>, "up", "killed"} \cap Path = {} /\ Tmp # <<>>
  /\ {MaxUser, MaxForeign, MaxRestarts} \subseteq Nat

VARIABLES
  disk,       \* [Path -> file]
  beside,     \* paths with an editor's backup next to them
  notices,    \* what the system has noted down for the watcher
  events,     \* _events_buff
  expected,   \* _expected_events
  seen,       \* handleUpdated()'s update, until it is in the database
  out,        \* _changes_queue
  changes,    \* changes handed over and not yet started
  running,    \* changes whose commands are at work
  db,
  remote,     \* [id in the cloud -> path and hash]
  status,     \* "up", "killed", or the path over which it was aborted
  fresh,      \* the last number given to an inode, a content, an id
  users,      \* how often users did something
  foreign,    \* how many changes came from the cloud
  restarts,   \* how often the daemon was started again
  fate        \* [Path -> what excuses a difference at this path]

fsVars == <<disk, beside>>
eventVars == <<notices, events, seen, out>>
vars == <<fsVars, eventVars, expected, changes, running, db, remote, status,
          fresh, users, foreign, restarts, fate>>

Up == status = "up"
NoFile == [inode |-> 0, hash |-> 0, by |-> "none"]
Exists(path) == disk[path] # NoFile
StatOf(path) == [inode |-> disk[path].inode, hash |-> disk[path].hash]
FileBy(who) == [inode |-> fresh', hash |-> fresh', by |-> who]
Fates == {"raced", "hidden", "renewed", "overwritten", "unwatched", "lost"}

(* raced: a user touched what the program was at work on; hidden: a file was *)
(* deleted while its backup stayed; renewed: an editor made a backup of the  *)
(* file by renaming it, and wrote a new one; overwritten: a user moved a     *)
(* file over another one; unwatched: it happened while no daemon was         *)
(* running; lost: the process ended while it was at work on it.             *)

Notice(type, path, to, by) == [type |-> type, path |-> path, to |-> to, by |-> by]
NoTo == <<>>
NoStat == [inode |-> 0, hash |-> 0]

Link(gid) == db.links[<<gid, Cloud>>]
Linked(gid) == <<gid, Cloud>> \in DOMAIN db.links

-----------------------------------------------------------------------------
(* After the initial synchronisation some files are everywhere: a sequence,  *)
(* in the order in which it came upon them.                                *)
SyncedAs(n) == [inode |-> n, hash |-> n]
Synced(s) ==
  [files |-> [n \in DOMAIN s |-> [path |-> s[n], stat |-> SyncedAs(n)]],
   links |-> [key \in (DOMAIN s) \X {Cloud} |-> [id |-> key[1]]],
   lastId |-> Len(s)]

Init ==
  /\ \E s \in UNION {SetToSeqs(have) : have \in SUBSET Path} :
       /\ db = Synced(s)
       /\ disk = [p \in Path |-> IF p \in Range(s)
                    THEN LET n == GlobalId(db, p) IN [inode |-> n, hash |-> n, by |-> "user"]
                    ELSE NoFile]
       /\ remote = [n \in DOMAIN s |-> [path |-> s[n], hash |-> n]]
       /\ fresh = Len(s)
  /\ beside = {} /\ notices = <<>> /\ events = <<>> /\ expected = NothingExpected
  /\ seen = <<>> /\ out = <<>> /\ changes = <<>> /\ running = {}
  /\ status = "up" /\ users = 0 /\ foreign = 0 /\ restarts = 0
  /\ fate = [p \in Path |-> {}]

-----------------------------------------------------------------------------
(* Who is at work on what. *)
Work == Range(notices) \cup Range(events) \cup Range(seen) \cup Range(out)
        \cup Range(changes) \cup running
WorkOn(path) == {w \in Work : path \in {w.path, w.to}}
Busy(path) == WorkOn(path) # {} \/ path \in DOMAIN expected
Together(path) ==
  {p \in Path : p = path \/ (WorkOn(path) \cap WorkOn(p)) # {}}

(* Edits may follow each other, and the creation of a file, at any time.    *)
Bothers(w) ==
  \/ w.by # "user"
  \/ w.path # Tmp /\ w.type \notin {"New", "Update", "create", "modify"}

(* Something happens to these paths: what one was excused for goes for all. *)
Befalls(paths, raced, what) ==
  LET struck == IF raced THEN UNION {Together(p) : p \in paths} ELSE {}
      old == UNION {fate[p] : p \in paths}
  IN  fate' = [p \in Path |-> fate[p] \cup (IF p \in paths THEN old \cup what ELSE {})
                                     \cup (IF p \in struck THEN {"raced"} ELSE {})]

-----------------------------------------------------------------------------
(* What users do: the new content of paths, what the system notes down, and  *)
(* whether it happens to what the program is at work on.                   *)
User(files, noted, raced, what) ==
  /\ users < MaxUser /\ users' = users + 1
  /\ disk' = [p \in Path |-> IF p \in DOMAIN files THEN files[p] ELSE disk[p]]
  /\ notices' = IF Up THEN notices \o noted ELSE <<>>
  /\ Befalls(DOMAIN files, raced, what \cup (IF Up THEN {} ELSE {"unwatched"}))
  /\ UNCHANGED <<events, seen, out, expected, changes, running, db, remote,
                 status, foreign, restarts>>
New1(path, file) == [p \in {path} |-> file]

UserCreates(p) ==
  /\ ~Exists(p) /\ fresh' = fresh + 1
  /\ User(New1(p, FileBy("user")),
          <<Notice("create", p, NoTo, "user"), Notice("modify", p, NoTo, "user")>>, Busy(p), {})
  /\ UNCHANGED beside

(* A file that is moved into the directory. *)
UserBrings(p) ==
  /\ fresh' = fresh + 1
  /\ User(New1(p, FileBy("user")), <<Notice("rename", p, NoTo, "user")>>, Busy(p),
          IF Exists(p) THEN {"overwritten"} ELSE {})
  /\ UNCHANGED beside

EditRaces(p) == p \in DOMAIN expected \/ \E w \in WorkOn(p) : Bothers(w)
UserEdits(p) ==
  /\ Exists(p) /\ fresh' = fresh + 1
  /\ User(New1(p, [disk[p] EXCEPT !.hash = fresh', !.by = "user"]),
          <<Notice("modify", p, NoTo, "user")>>, EditRaces(p), {})
  /\ UNCHANGED beside

(* An editor writes another file and renames that. *)
UserSaves(p) ==
  /\ Exists(p) /\ fresh' = fresh + 1
  /\ User(New1(p, FileBy("user")), <<Notice("rename", Tmp, p, "user")>>, EditRaces(p), {})
  /\ UNCHANGED beside

(* An editor renames the file to its backup and writes the file anew. *)
UserRenews(p) ==
  /\ Exists(p) /\ fresh' = fresh + 1
  /\ User(New1(p, FileBy("user")),
          <<Notice("rename", p, Tmp, "user"), Notice("create", p, NoTo, "user"),
            Notice("modify", p, NoTo, "user")>>, Busy(p), {"renewed"})
  /\ beside' = beside \cup {p}

(* An editor copies the file to its backup. *)
UserBacksUp(p) ==
  /\ Exists(p) /\ p \notin beside
  /\ User(<<>>, <<>>, FALSE, {})
  /\ beside' = beside \cup {p}
  /\ UNCHANGED fresh

UserDeletes(p, noted) ==
  /\ Exists(p)
  /\ User(New1(p, NoFile), <<Notice(noted, p, NoTo, "user")>>, Busy(p),
          IF p \in beside THEN {"hidden"} ELSE {})
  /\ UNCHANGED <<beside, fresh>>

UserMoves(p, q) ==
  /\ Exists(p) /\ p # q
  /\ User([x \in {p, q} |-> IF x = p THEN NoFile ELSE disk[p]],
          <<Notice("rename", p, q, "user")>>, Busy(p) \/ Busy(q),
          IF Exists(q) THEN {"overwritten"} ELSE {})
  /\ UNCHANGED <<beside, fresh>>

-----------------------------------------------------------------------------
(* The process ends, and with it what it has in memory and what the system   *)
(* has noted down for it.                                                  *)
Ends(how) ==
  /\ Up /\ status' = how
  /\ notices' = <<>> /\ events' = <<>> /\ seen' = <<>> /\ out' = <<>>
  /\ expected' = NothingExpected /\ changes' = <<>> /\ running' = {}
  /\ fate' = [p \in Path |-> fate[p] \cup (IF p # how /\ WorkOn(p) # {} THEN {"lost"} ELSE {})]
  /\ UNCHANGED <<fsVars, db, remote, fresh, users, foreign, restarts>>
Abort(path) == Ends(path)
Die == restarts < MaxRestarts /\ Ends("killed")

(* daemonMode(): the initial synchronisation is done, and nothing looks at   *)
(* what has happened to the directory since.                               *)
Restart ==
  /\ ~Up /\ restarts < MaxRestarts
  /\ status' = "up" /\ restarts' = restarts + 1
  /\ UNCHANGED <<fsVars, eventVars, expected, changes, running, db, remote, fresh,
                 users, foreign, fate>>

(* onFsEvent(), on the watcher's thread.                                    *)
OnFsEvent ==
  /\ Up /\ notices # <<>>
  /\ LET e == Head(notices) IN
       events' = IF e.type \in {"create", "modify"} /\ ~Exists(e.path)
                 THEN events ELSE Append(events, e)
  /\ notices' = Tail(notices)
  /\ UNCHANGED <<fsVars, expected, seen, out, changes, running, db, remote,
                 status, fresh, users, foreign, restarts, fate>>

-----------------------------------------------------------------------------
(* proccessChanges(), on the polling thread: one event.                     *)
Next1(e) == Up /\ seen = <<>> /\ events # <<>> /\ e = Head(events) /\ events' = Tail(events)
Looks == UNCHANGED <<fsVars, notices, changes, running, db, remote, fresh, users, foreign, restarts, fate>>

ChangeOf(type, gid, path, to, by) ==
  [type |-> type, gid |-> gid, path |-> path, to |-> to, stat |-> StatOf(path), cid |-> 0,
   by |-> by, stage |-> "waiting"]
Ignored == UNCHANGED <<expected, seen, out, status>>
Awaited(path, type) ==
  /\ Expects(expected, path, type)
  /\ expected' = Checked(expected, path, type)
  /\ UNCHANGED <<seen, out, status>>
Emits(c) == out' = Append(out, c) /\ UNCHANGED <<expected, seen, status>>

(* file_size() of a file that has gone throws, and nothing catches it.      *)
Created(path, e) ==
  IF Expects(expected, path, "New") THEN Awaited(path, "New")
  ELSE Exists(path) /\ Emits(ChangeOf("New", 0, path, NoTo, e.by))
CreatedGone(path) == ~Exists(path) /\ ~Expects(expected, path, "New")

(* An editor's file or our own download next to it makes it look like a part *)
(* of a save.                                                              *)
TmpExists(path) ==
  path \in beside \/ \E c \in running : c.by = "cloud" /\ c.path = path /\ c.stage = "loading"
Deleted(path, e) ==
  IF Expects(expected, path, "Delete") THEN Awaited(path, "Delete")
  ELSE IF Exists(path) \/ TmpExists(path) \/ ~HasRow(db, path) THEN Ignored
  ELSE Emits(ChangeOf("Delete", GlobalId(db, path), path, NoTo, e.by))

(* getFileByFileId(). *)
RowsWith(inode) == {gid \in DOMAIN db.files : db.files[gid].stat.inode = inode}

(* Mutant: only by the inode, which an editor that saves changes. *)
RowForInode(path) ==
  IF RowsWith(disk[path].inode) # {} THEN CHOOSE gid \in RowsWith(disk[path].inode) : TRUE
  ELSE 0

(* For an update also getFileByPath().                                     *)
RowFor(path) ==
  IF RowsWith(disk[path].inode) # {}
  THEN CHOOSE gid \in RowsWith(disk[path].inode) : \A o \in RowsWith(disk[path].inode) : gid <= o
  ELSE IF HasRow(db, path) THEN GlobalId(db, path) ELSE 0
Updated(path) ==
  LET gid == RowFor(path) IN
  IF gid = 0 \/ ~Exists(path) \/ db.files[gid].stat.hash = disk[path].hash THEN Ignored
  ELSE /\ seen' = <<ChangeOf("Update", gid, path, NoTo, disk[path].by)>>
       /\ UNCHANGED <<expected, out, status>>

Moved(e) ==
  IF Expects(expected, e.path, "Move") THEN Awaited(e.path, "Move")
  ELSE IF RowsWith(disk[e.to].inode) = {} THEN Created(e.to, e)
  ELSE Emits(ChangeOf("Move", CHOOSE gid \in RowsWith(disk[e.to].inode) : TRUE,
                      e.path, e.to, e.by))

HandleCreated == \E e \in Range(events) :
  Next1(e) /\ e.type = "create" /\ Created(e.path, e) /\ Looks
HandleDeleted == \E e \in Range(events) :
  Next1(e) /\ e.type = "destroy" /\ Deleted(e.path, e) /\ Looks
HandleUpdated == \E e \in Range(events) :
  Next1(e) /\ e.type = "modify" /\ Updated(e.path) /\ Looks

(* handleRenamed(): in or out of the directory (no row has the full path    *)
(* that it asks for), to a file that is ignored, from one, and proper.       *)
HandleRenamed == \E e \in Range(events) :
  /\ Next1(e) /\ e.type = "rename"
  /\ IF e.to = NoTo THEN IF Exists(e.path) THEN Created(e.path, e) ELSE Deleted(e.path, e)
     ELSE IF e.to = Tmp THEN Ignored
     ELSE IF e.path = Tmp THEN Updated(e.to)
     ELSE Moved(e)
  /\ Looks

(* The same where file_size() throws.                                       *)
HandleGone ==
  /\ Up /\ seen = <<>> /\ events # <<>>
  /\ LET e == Head(events) IN
     \/ e.type = "create" /\ CreatedGone(e.path) /\ Abort(e.path)
     \/ /\ e.type = "rename" /\ e.to \in Path /\ e.path \in Path
        /\ ~Expects(expected, e.path, "Move") /\ RowsWith(disk[e.to].inode) = {}
        /\ CreatedGone(e.to) /\ Abort(e.to)

(* handleUpdated(), the rest: syncDbWrite() waits until no callback runs.    *)
WriteSeen ==
  /\ Up /\ seen # <<>> /\ \A c \in running : c.stage # "placed"
  /\ LET c == seen[1] IN
       /\ db' = WithFileUpdated(db, c.gid, c.stat)
       /\ out' = Append(out, c)
  /\ seen' = <<>>
  /\ UNCHANGED <<fsVars, notices, events, expected, changes, running, remote,
                 status, fresh, users, foreign, restarts, fate>>

(* All events are dealt with: pollingLoop() hands the changes over.         *)
HandOver ==
  /\ Up /\ events = <<>> /\ seen = <<>> /\ out # <<>>
  /\ changes' = changes \o out /\ out' = <<>>
  /\ UNCHANGED <<fsVars, notices, events, seen, expected, running, db, remote,
                 status, fresh, users, foreign, restarts, fate>>

-----------------------------------------------------------------------------
(* A change starts when no earlier one of its path is left (ChangeTracker). *)
Ready(k) ==
  /\ Up
  /\ \A c \in running : c.path # changes[k].path
  /\ \A j \in DOMAIN changes : j < k => changes[j].path # changes[k].path
Staged(c, stage) == [c EXCEPT !.stage = stage]
Starts(k, c, stage) ==
  /\ changes' = RemoveAt(changes, k)
  /\ running' = running \cup {Staged(c, stage)}
Finished(c) == running' = running \ {c}
Local(c) == c.by # "cloud"

(* What the callback of a local change's first command does to the rows: of *)
(* a new file, what it looks like by now.                                  *)
Noted(c) ==
  CASE c.type = "New" -> WithFile(db, c.path, StatOf(c.path))
    [] c.type = "Update" -> WithFileUpdated(db, c.gid, c.stat)
    [] c.type = "Move" -> WithFileMoved(db, c.gid, c.to)
    [] c.type = "Delete" -> WithoutFile(db, c.gid)
LocalCallback(k) ==
  LET c == changes[k]
      gid == IF c.type = "New" THEN NewId(db) ELSE c.gid
  IN  /\ Ready(k) /\ Local(c) /\ (c.type # "New" => Linked(c.gid))
      /\ db' = Noted(c)
      /\ Starts(k, [c EXCEPT !.gid = gid,
                             !.cid = IF c.type = "New" THEN 0 ELSE Link(gid).id], "request")
      /\ UNCHANGED <<fsVars, eventVars, expected, remote, status, fresh, users, foreign, restarts, fate>>

(* The row or the link has gone: the query for the id in the cloud throws.  *)
LocalCallbackThrows(k) ==
  /\ Ready(k) /\ Local(changes[k])
  /\ changes[k].type # "New" /\ ~Linked(changes[k].gid)
  /\ Abort(changes[k].path)

(* The cloud's command: the request reads the file when it is sent, and what *)
(* comes back makes the link.  Nothing to open, or no row to link: throws.  *)
Request(c) ==
  /\ Up /\ c \in running /\ c.stage = "request"
  /\ c.type \in {"New", "Update"} => Exists(c.path)
  /\ c.type = "New" => CanLink(db, c.gid)
  /\ CASE c.type = "New" ->
            /\ fresh' = fresh + 1
            /\ remote' = Put(remote, fresh', [path |-> c.path, hash |-> disk[c.path].hash])
            /\ db' = WithLink(db, c.gid, Cloud, [id |-> fresh'])
       [] c.type = "Update" ->
            /\ remote' = [remote EXCEPT ![c.cid].hash = disk[c.path].hash]
            /\ UNCHANGED <<db, fresh>>
       [] c.type = "Move" ->
            /\ remote' = [remote EXCEPT ![c.cid].path = c.to]
            /\ UNCHANGED <<db, fresh>>
       [] c.type = "Delete" ->
            /\ remote' = [x \in DOMAIN remote \ {c.cid} |-> remote[x]]
            /\ UNCHANGED <<db, fresh>>
  /\ Finished(c)
  /\ UNCHANGED <<fsVars, eventVars, expected, changes, status, users, foreign, restarts, fate>>
RequestThrows(c) ==
  /\ Up /\ c \in running /\ c.stage = "request"
  /\ (c.type \in {"New", "Update"} /\ ~Exists(c.path)) \/ (c.type = "New" /\ ~CanLink(db, c.gid))
  /\ Abort(c.path)

-----------------------------------------------------------------------------
(* Changes from the cloud: what a user did there, as GoogleDrive and Dropbox *)
(* report it, to a file that is linked or to a path without a row.          *)
FromCloud(type, gid, cid, path, to) ==
  /\ Up /\ foreign < MaxForeign /\ foreign' = foreign + 1
  /\ changes' = Append(changes, [type |-> type, gid |-> gid, cid |-> cid, path |-> path,
                                 to |-> to, stat |-> NoStat, by |-> "cloud",
                                 stage |-> "waiting"])
  /\ Befalls({path, to} \cap Path, \E p \in {path, to} \cap Path : Busy(p), {})
  /\ UNCHANGED <<fsVars, eventVars, expected, running, db, status, users, restarts>>
InCloud(path) == \E cid \in DOMAIN remote : remote[cid].path = path

CloudHasNew(p) ==
  /\ ~HasRow(db, p) /\ ~InCloud(p) /\ fresh' = fresh + 1
  /\ remote' = Put(remote, fresh', [path |-> p, hash |-> fresh'])
  /\ FromCloud("New", 0, fresh', p, NoTo)
CloudHasUpdate(gid) ==
  /\ Linked(gid) /\ Link(gid).id \in DOMAIN remote /\ fresh' = fresh + 1
  /\ remote' = [remote EXCEPT ![Link(gid).id].hash = fresh']
  /\ FromCloud("Update", gid, Link(gid).id, db.files[gid].path, NoTo)
CloudHasMove(gid, q) ==
  /\ Linked(gid) /\ Link(gid).id \in DOMAIN remote /\ ~HasRow(db, q) /\ ~InCloud(q)
  /\ remote' = [remote EXCEPT ![Link(gid).id].path = q]
  /\ FromCloud("Move", gid, Link(gid).id, db.files[gid].path, q)
  /\ UNCHANGED fresh
CloudHasDelete(gid) ==
  /\ Linked(gid) /\ Link(gid).id \in DOMAIN remote
  /\ remote' = [x \in DOMAIN remote \ {Link(gid).id} |-> remote[x]]
  /\ FromCloud("Delete", gid, Link(gid).id, db.files[gid].path, NoTo)
  /\ UNCHANGED fresh

(* The download makes a temporary file next to the path. *)
Load(k) ==
  /\ Ready(k) /\ ~Local(changes[k]) /\ changes[k].type \in {"New", "Update"}
  /\ Starts(k, changes[k], "loading")
  /\ UNCHANGED <<fsVars, eventVars, expected, db, remote, status, fresh, users, foreign, restarts, fate>>

(* Mutant: every event is expected as a new file. *)
ExpectNew(path, type) == expected' = Expecting(expected, path, "New")
Expect(path, type) == expected' = Expecting(expected, path, type)
Gone(path) ==
  IF Exists(path) THEN <<Notice("destroy", path, NoTo, "program")>> ELSE <<>>

(* proccesUpload(), proccesUpdate() up to the rename of the temporary file;  *)
(* remove() and rename() are one step, since the Delete of the first is      *)
(* expected.                                                               *)
Place(c) ==
  /\ Up /\ c \in running /\ c.stage = "loading"
  /\ fresh' = fresh + 1
  /\ disk' = [disk EXCEPT ![c.path] =
                [inode |-> fresh', hash |-> IF c.cid \in DOMAIN remote THEN remote[c.cid].hash ELSE fresh',
                 by |-> "program"]]
  /\ IF c.type = "New" THEN UNCHANGED expected ELSE Expect(c.path, "Delete")
  /\ notices' = notices \o (IF c.type = "New" THEN <<>> ELSE Gone(c.path))
                        \o <<Notice("rename", Tmp, c.path, "program")>>
  /\ running' = (running \ {c}) \cup {[c EXCEPT !.stage = "placed"]}
  /\ UNCHANGED <<beside, events, seen, out, changes, db, remote, status, users, foreign, restarts, fate>>

(* proccesMove() up to the rename; without the file that throws.            *)
PlaceMove(k) ==
  LET c == changes[k] IN
  /\ Ready(k) /\ c.by = "cloud" /\ c.type = "Move" /\ Exists(c.path)
  /\ Expect(c.path, "Move")
  /\ disk' = [disk EXCEPT ![c.to] = disk[c.path], ![c.path] = NoFile]
  /\ notices' = Append(notices, Notice("rename", c.path, c.to, "program"))
  /\ Starts(k, c, "placed")
  /\ UNCHANGED <<beside, events, seen, out, db, remote, status, fresh, users, foreign, restarts, fate>>
PlaceMoveThrows(k) ==
  /\ Ready(k) /\ changes[k].by = "cloud" /\ changes[k].type = "Move" /\ ~Exists(changes[k].path)
  /\ Abort(changes[k].path)

(* LocalDeleteCommand up to remove(), which does not mind that nothing is    *)
(* there.                                                                  *)
PlaceDelete(k) ==
  LET c == changes[k] IN
  /\ Ready(k) /\ c.by = "cloud" /\ c.type = "Delete"
  /\ Expect(c.path, "Delete")
  /\ disk' = [disk EXCEPT ![c.path] = NoFile]
  /\ notices' = notices \o Gone(c.path)
  /\ Starts(k, c, "placed")
  /\ UNCHANGED <<beside, events, seen, out, db, remote, status, fresh, users, foreign, restarts, fate>>

(* The rest of these callbacks: the file is looked at and put down.         *)
(* Mutant: the file is looked for where it was. *)
OldTarget(c) == c.path
Target(c) == IF c.type = "Move" THEN c.to ELSE c.path
Recorded(c) ==
  CASE c.type = "New" ->
         WithLink(WithFile(db, c.path, StatOf(c.path)), NewId(db), Cloud, [id |-> c.cid])
    [] c.type = "Update" -> WithFileUpdated(db, c.gid, StatOf(c.path))
    [] c.type = "Move" -> WithFileMoved(db, c.gid, c.to)
    [] c.type = "Delete" -> WithoutFile(db, c.gid)
Record(c) ==
  /\ Up /\ c \in running /\ c.stage = "placed"
  /\ c.type # "Delete" => Exists(Target(c))
  /\ db' = Recorded(c)
  /\ Finished(c)
  /\ UNCHANGED <<fsVars, eventVars, expected, changes, remote, status, fresh, users, foreign, restarts, fate>>
RecordThrows(c) ==
  /\ Up /\ c \in running /\ c.stage = "placed" /\ c.type # "Delete" /\ ~Exists(Target(c))
  /\ Abort(Target(c))

-----------------------------------------------------------------------------
Quiet ==
  /\ Up /\ notices = <<>> /\ events = <<>> /\ seen = <<>> /\ out = <<>>
  /\ changes = <<>> /\ running = {}
Rest == (Quiet \/ (~Up /\ restarts = MaxRestarts)) /\ UNCHANGED vars

Users ==
  \E p \in Path :
    \/ UserCreates(p) \/ UserBrings(p) \/ UserEdits(p) \/ UserSaves(p) \/ UserRenews(p)
    \/ UserBacksUp(p) \/ (\E noted \in {"destroy", "rename"} : UserDeletes(p, noted))
    \/ \E q \in Path : UserMoves(p, q)
Polling ==
  HandleCreated \/ HandleDeleted \/ HandleUpdated \/ HandleRenamed \/ HandleGone
  \/ WriteSeen \/ HandOver
Clouds ==
  \/ \E p \in Path : CloudHasNew(p)
  \/ \E gid \in DOMAIN db.files :
       CloudHasUpdate(gid) \/ CloudHasDelete(gid) \/ \E q \in Path : CloudHasMove(gid, q)
Commands ==
  \/ \E k \in DOMAIN changes :
       LocalCallback(k) \/ LocalCallbackThrows(k) \/ Load(k) \/ PlaceMove(k)
       \/ PlaceMoveThrows(k) \/ PlaceDelete(k)
  \/ \E c \in running : Request(c) \/ RequestThrows(c) \/ Place(c) \/ Record(c) \/ RecordThrows(c)

Next == Users \/ OnFsEvent \/ Polling \/ Clouds \/ Commands \/ Die \/ Restart \/ Rest

Spec == Init /\ [][Next]_vars

-----------------------------------------------------------------------------
(* The variables have their types. *)
TypeOK ==
  /\ \A p \in Path : disk[p].inode \in 0..fresh /\ (Exists(p) <=> disk[p].inode > 0)
  /\ beside \subseteq Path
  /\ \A e \in Range(notices) \cup Range(events) : e.type \in {"create", "modify", "destroy", "rename"}
  /\ Range(expected) \subseteq ChangeTypes
  /\ Len(seen) <= 1
  /\ \A c \in Range(out) \cup Range(changes) \cup running : c.type \in ChangeTypes /\ c.path \in Path
  /\ \A c \in running : c.stage \in {"request", "loading", "placed"}
  /\ \A key \in DOMAIN db.links : key[1] \in DOMAIN db.files
  /\ status \in {"up", "killed"} \cup Path
  /\ fate \in [Path -> SUBSET Fates]

(* At this path the directory, the database and the cloud agree.            *)
Agrees(p) ==
  LET there == {cid \in DOMAIN remote : remote[cid].path = p} IN
  IF ~Exists(p) THEN RowsOf(db, p) = {} /\ there = {}
  ELSE \E gid \in RowsOf(db, p) :
         /\ RowsOf(db, p) = {gid} /\ db.files[gid].stat = StatOf(p)
         /\ Linked(gid) /\ there = {Link(gid).id} /\ remote[Link(gid).id].hash = disk[p].hash

(* When all events are dealt with and all changes carried out, what a user   *)
(* did to a file has reached the database and the cloud, and what happened   *)
(* in the cloud the directory.                                             *)
Converges == Quiet => \A p \in Path : fate[p] = {} => Agrees(p)

(* What the program does to the directory does not come back as a change,    *)
(* unless the event is looked at before the callback that caused it has put  *)
(* the file down: only then it is taken for a user's update.                *)
Early(c) == c.type = "Update" /\ \E r \in running : r.stage = "placed" /\ r.path = c.path
NoEcho ==
  [][\A c \in Range(seen' \o out') \ Range(seen \o out) :
       c.by = "program" => fate[c.path] # {} \/ Early(c)]_vars

(* The daemon is aborted only over a file that a user touched while it was   *)
(* at work on it, or that one of the other hazards has already struck.       *)
AbortsOnlyOnRaces == status \in Path => fate[status] # {}

=============================================================================
