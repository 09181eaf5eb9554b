----------------------------- MODULE CloudChanges -----------------------------
(***************************************************************************)
(* How the daemon follows one cloud: getChanges() and proccessChanges() of *)
(* GoogleDrive and Dropbox (src/google.cpp, src/dropbox.cpp), the events   *)
(* they expect because the program causes them (EventsRegistry), and what  *)
(* the commands of changes leave in the database.                          *)
(*                                                                         *)
(* Users write to the cloud.  The polling thread reads what has changed    *)
(* since its token, compares each entry with the database and with the     *)
(* expected events, and hands over changes, which other threads carry out  *)
(* later.  Meanwhile changes from other storages are written to this       *)
(* cloud: registered when the request starts, effective when the server    *)
(* gets it, recorded when the callback runs.  The process may die; a new   *)
(* one starts from the token of the initial synchronisation.               *)
(*                                                                         *)
(* A file is the same by its id; its name does not change, so that a        *)
(* rename is a move.  Times are in seconds, so that two versions can have  *)
(* the same.  Not here: the local side (a change from the cloud finds the   *)
(* local file where the database has it), folders that move or vanish, and  *)
(* a folder with the name of another folder or of a file.                  *)
(***************************************************************************)
EXTENDS Database, EventsRegistry, SequencesExt

CONSTANTS
  Kinds,          \* "google", "dropbox": which adapters to check
  File, Folder,   \* ids of things in the cloud
  NameOf,         \* [File \cup Folder -> names]
  Home, Elsewhere,\* the directory that is synchronised, one that is not
  Cloud,          \* the id of the cloud
  PageSize,       \* as many entries the server never splits into pages
  MaxForeign,     \* bound: what users do in the cloud
  MaxOwn,         \* bound: what the program writes to the cloud
  MaxRestarts     \* bound: restarts of the daemon

Id == File \cup Folder
None == "none"

ASSUME CloudChangesAssumption ==
  /\ Kinds \subseteq {"google", "dropbox"}
  /\ File \cap Folder = {}
  /\ IsFiniteSet(Id)
  /\ Home # Elsewhere /\ None \notin {Home, Elsewhere}
  /\ {Home, Elsewhere, None, "up", "killed", "pages"} \cap Id = {}
  /\ \A d \in Folder, id \in Id : NameOf[d] = NameOf[id] => d = id
  /\ \A id, a, b \in Id : id # <<NameOf[a]>> /\ id # <<NameOf[a], NameOf[b]>>
  /\ {PageSize, MaxForeign, MaxOwn, MaxRestarts} \subseteq Nat

VARIABLES
  kind,       \* the adapter
  item,       \* [Id -> what the cloud has under this id]
  feed,       \* the cloud's log: keys of changed things, with their writer
  token,      \* _page_token: how much of the log has been read
  batch,      \* entries fetched and not yet looked at (_events_buff, pages)
  working,    \* whether proccessChanges() has taken the batch
  expected,   \* _expected_events
  old,        \* old_expected, its copy for the batch
  pathMap,    \* path_map, for the batch
  out,        \* changes, for the batch
  doomed,     \* pending_deletes, for the batch
  changes,    \* changes handed over and not yet carried out
  writes,     \* the program's own writes in progress
  stuck,      \* paths left in _current_changes by a failed command
  db,
  status,     \* "up", "killed", "pages", or the id over which it threw
  foreign, own, restarts,     \* how often, for the bounds
  fate        \* [Id -> what excuses a difference between cloud and database]

cloudVars == <<item, feed>>
batchVars == <<batch, working, old, pathMap, out, doomed>>
workVars == <<changes, writes, stuck, db>>
countVars == <<foreign, own, restarts>>
vars == <<kind, cloudVars, token, batchVars, expected, workVars, status,
          countVars, fate>>

Up == status = "up"
NoPath == <<>>
NoHash == 0
Unborn == [dir |-> Home, time |-> 0, hash |-> NoHash, live |-> FALSE]
Fates == {"raced", "moved", "same second", "stranger", "early", "unmoved",
          "overtaken", "failed", "halved", "torn", "astray"}

(* raced: a user wrote while the program was at work on the same thing, the  *)
(* program while it had not read of it, or two things are taken to be at     *)
(* one path;                                                               *)
(* moved: a Dropbox user moved it; same second: a user wrote twice in one    *)
(* second; stranger: put into a folder that is not in the home directory;     *)
(* early: moved in Google Drive into a folder without a row, which is taken   *)
(* for a deletion; unmoved: a local move to the home directory, which is not  *)
(* carried out in Google Drive;                                            *)
(* overtaken: an expected event was forgotten before it came; failed: a      *)
(* request failed for good; halved: the process died between a move and the *)
(* update that came with it, whose time the link already has; torn: it died   *)
(* between the row and the link of a new file; astray: an update went to     *)
(* another place.                                                          *)
Suffers(ids, what) ==
  fate' = [id \in Id |-> IF id \in ids THEN fate[id] \cup {what} ELSE fate[id]]

-----------------------------------------------------------------------------
(* The cloud.  NoPath is the path of what is not in the home directory.    *)
PathIn(dir, name) ==
  IF dir = Home THEN <<name>>
  ELSE IF dir \in Folder /\ item[dir].live /\ item[dir].dir = Home
       THEN <<NameOf[dir], name>> ELSE NoPath
PathOf(id) == IF item[id].live THEN PathIn(item[id].dir, NameOf[id]) ELSE NoPath
At(path) == {id \in Id : PathOf(id) = path /\ path # NoPath}
Born(id) == item[id].time > 0

(* Where a thing may be taken to be: what is in a folder outside of the home  *)
(* directory can look as if it were at the top of that.                    *)
Apparent(it, id) ==
  IF it.live /\ it.dir \in Folder /\ item[it.dir].dir # Home THEN <<NameOf[id]>>
  ELSE IF it.live THEN PathIn(it.dir, NameOf[id]) ELSE NoPath
Near(path) == {id \in Id : Apparent(item[id], id) = path}

(* What the log names: Google the id, Dropbox the paths that have changed.  *)
Keys(id, from, to) ==
  IF kind = "google" THEN <<id>>
  ELSE (IF from \in {to, NoPath} THEN <<>> ELSE <<from>>)
       \o (IF to = NoPath THEN <<>> ELSE <<to>>)

Stored(id, it, by) ==
  /\ item' = [item EXCEPT ![id] = it]
  /\ LET to == IF it.live THEN PathIn(it.dir, NameOf[id]) ELSE NoPath
         keys == Keys(id, PathOf(id), to)
     IN  feed' = feed \o [i \in DOMAIN keys |-> [key |-> keys[i], id |-> id, by |-> by]]

(* A page has one entry per key, in the order of the keys' last changes; it   *)
(* is the program's if no user has a part in it.                           *)
Unread == SubSeq(feed, token + 1, Len(feed))
LastOf(log) ==
  LET last == {i \in DOMAIN log : \A j \in DOMAIN log : j > i => log[j].key # log[i].key}
      nth(n) == CHOOSE i \in last : Cardinality({j \in last : j <= i}) = n
  IN  [n \in 1..Cardinality(last) |-> log[nth(n)]]

EntryOf(rec) ==
  LET by == IF \E i \in DOMAIN Unread : Unread[i].id = rec.id /\ Unread[i].by = "user"
            THEN "user" ELSE "program"
      of(id) == [id |-> id, gone |-> ~item[id].live, dir |-> item[id].dir,
                 path |-> Apparent(item[id], id), time |-> item[id].time,
                 hash |-> item[id].hash, by |-> by]
  IN  IF kind = "google" THEN of(rec.key)
      ELSE IF At(rec.key) # {} THEN of(CHOOSE id \in At(rec.key) : TRUE)
      ELSE [id |-> None, gone |-> TRUE, dir |-> Home, path |-> rec.key,
            time |-> 0, hash |-> NoHash, by |-> by]

-----------------------------------------------------------------------------
(* The database's view of this cloud.                                      *)
Known(id) == LinkedTo(db, Cloud, id)
Linked(gid) == <<gid, Cloud>> \in DOMAIN db.links
Link(gid) == db.links[<<gid, Cloud>>]
RowPath(gid) == db.files[gid].path
LinkStat(id, dir, time, hash) == [id |-> id, parent |-> dir, time |-> time, hash |-> hash]

FolderPath(d) == <<NameOf[d]>>
FolderAt(path) == {d \in Folder : Len(path) = 2 /\ path[1] = NameOf[d]}

(* createPath() for a folder of the home directory, and for the parent of a *)
(* file (Directories has it in detail).                                     *)
WithFolder(base, d) ==
  IF HasRow(base, FolderPath(d)) THEN base
  ELSE WithLink(WithFile(base, FolderPath(d), None), NewId(base), Cloud,
                LinkStat(d, Home, 1, NoHash))
WithParents(base, path) ==
  IF FolderAt(path) = {} THEN base
  ELSE WithFolder(base, CHOOSE d \in FolderAt(path) : TRUE)

(* What is in the cloud when the initial synchronisation ends: at most one  *)
(* file, with a link, and so for folders.                                  *)
InitialItem == [dir |-> Home, time |-> 1, hash |-> 1, live |-> TRUE]
Recorded(ids) ==
  [files |-> [n \in DOMAIN ids |-> [path |-> <<NameOf[ids[n]]>>, stat |-> None]],
   links |-> [key \in (DOMAIN ids) \X {Cloud} |->
                LinkStat(ids[key[1]], Home, 1, IF ids[key[1]] \in File THEN 1 ELSE NoHash)],
   lastId |-> Len(ids)]

Init ==
  /\ kind \in Kinds
  /\ \E have \in SUBSET Id :
       /\ Cardinality(have \cap File) <= 1
       /\ item = [id \in Id |-> IF id \in have THEN InitialItem ELSE Unborn]
       /\ db = Recorded(SetToSeq(have))
  /\ feed = <<>> /\ token = 0
  /\ batch = <<>> /\ working = FALSE /\ expected = NothingExpected
  /\ old = NothingExpected /\ pathMap = <<>> /\ out = <<>> /\ doomed = {}
  /\ changes = <<>> /\ writes = {} /\ stuck = {}
  /\ status = "up"
  /\ foreign = 0 /\ own = 0 /\ restarts = 0
  /\ fate = [id \in Id |-> {}]

-----------------------------------------------------------------------------
(* Who is at work on what. *)
InProgress == Range(changes) \cup Range(out) \cup doomed
Occupied == {w.path : w \in writes} \cup stuck
Busy(id) ==
  \/ \E c \in InProgress : c.id = id
  \/ \E w \in writes : w.id = id
  \/ \E i \in DOMAIN batch : batch[i].id = id
  \/ id \in DOMAIN expected \cup DOMAIN old
BusyPath(path) ==
  \/ \E i \in DOMAIN batch : batch[i].path = path
  \/ \E c \in InProgress : path \in {c.path, c.to}
  \/ path \in Occupied \/ \E w \in writes : path = w.to
  \/ path \in DOMAIN expected \cup DOMAIN old

-----------------------------------------------------------------------------
(* What users do in the cloud. *)
Place(id) ==
  {Home} \cup (IF kind = "google" THEN {Elsewhere} ELSE {})
         \cup (IF id \in File THEN {d \in Folder : item[d].live} ELSE {})
Free(id, dir) == PathIn(dir, NameOf[id]) = NoPath \/ At(PathIn(dir, NameOf[id])) = {}

(* A user and the program are at work on the same id, path or folder, or     *)
(* the path has a row that belongs to something else, or something else is   *)
(* taken to be there.                                                      *)
WorkedOn(path) ==
  {x.id : x \in {x \in InProgress \cup writes : path \in {x.path, x.to}}}
  \cup {Link(gid).id : gid \in {r \in RowsOf(db, path) : Linked(r)}}
OthersAt(id, path) == {gid \in RowsOf(db, path) : gid \notin Known(id)}
Interferes(id, path) ==
  \/ Busy(id) \/ BusyPath(path) \/ \E d \in FolderAt(path) : Busy(d)
  \/ OthersAt(id, path) # {}

User(id, it, what) ==
  /\ foreign < MaxForeign /\ foreign' = foreign + 1
  /\ Stored(id, it, "user")
  /\ LET path == Apparent(it, id)
         from == Apparent(item[id], id)
         near == IF path = NoPath THEN {} ELSE Near(path) \ {id}
         races == IF Interferes(id, path) \/ BusyPath(from) \/ near # {}
                  THEN {id} \cup WorkedOn(path) \cup WorkedOn(from) \cup near
                  ELSE {}
     IN  fate' = [i \in Id |-> (IF i = id THEN (fate[i] \ {"same second"}) \cup what ELSE fate[i])
                              \cup (IF i \in races THEN {"raced"} ELSE {})]
  /\ UNCHANGED <<kind, token, batchVars, expected, workVars, status, own, restarts>>

UserCreates(id, dir) ==
  /\ ~Born(id) /\ \A w \in writes : w.id # id
  /\ dir \in Place(id) /\ Free(id, dir)
  /\ User(id, [dir |-> dir, time |-> 1, hash |-> 1, live |-> TRUE],
          IF dir \in Folder /\ item[dir].dir # Home THEN {"stranger"} ELSE {})

UserEdits(id, later) ==
  /\ item[id].live
  /\ User(id, [item[id] EXCEPT !.time = @ + later, !.hash = @ + 1],
          IF later = 0 THEN {"same second"} ELSE {})

UserMoves(id, dir) ==
  /\ item[id].live /\ dir \in Place(id) \ {item[id].dir} /\ Free(id, dir)
  /\ User(id, [item[id] EXCEPT !.dir = dir],
          (IF kind = "dropbox" THEN {"moved"} ELSE {})
          \cup (IF dir \in Folder /\ item[dir].dir # Home THEN {"stranger"} ELSE {})
          \cup (IF dir \in Folder /\ Known(dir) = {} THEN {"early"} ELSE {})
          \cup (fate[id] \cap {"same second"}))

UserTrashes(id) ==
  item[id].live /\ User(id, [item[id] EXCEPT !.live = FALSE], fate[id] \cap {"same second"})

(* Google only: what is taken out of the trash is the same file. *)
UserRestores(id) ==
  /\ kind = "google" /\ Born(id) /\ ~item[id].live /\ Free(id, item[id].dir)
  /\ User(id, [item[id] EXCEPT !.live = TRUE], fate[id] \cap {"same second"})

-----------------------------------------------------------------------------
(* The end of the process: memory is lost, and with it what it had in work.  *)
Stop(how, lasting, torn) ==
  /\ status' = how
  /\ token' = 0 /\ batch' = <<>> /\ working' = FALSE
  /\ expected' = NothingExpected /\ old' = NothingExpected
  /\ pathMap' = <<>> /\ out' = <<>> /\ doomed' = {}
  /\ changes' = <<>> /\ writes' = {} /\ stuck' = {}
  /\ db' = lasting
  /\ LET late == {w.id : w \in {w \in writes : w.stage = "arrived"}}
         lost == {w.id : w \in {w \in writes : w.stage # "arrived" /\ w.op \in {"Move", "Delete"}}}
         rest == {c \in Range(changes) : c.type = "Update" /\ c.id # how /\ Linked(c.gid) /\ Link(c.gid).time = c.time}
     IN  fate' = [id \in Id |-> fate[id]
                    \cup (IF id \in torn THEN {"torn"} ELSE {})
                    \cup (IF \E c \in rest : c.id = id THEN {"halved"} ELSE {})
                    \cup (IF id \in late THEN {"overtaken"} ELSE {})
                    \cup (IF id \in lost THEN {"failed"} ELSE {})]
  /\ UNCHANGED <<kind, cloudVars, countVars>>

-----------------------------------------------------------------------------
(* The polling thread. *)

(* getChanges(), one page: the token moves on; nothing unread, no effect.   *)
Fetch ==
  /\ Up /\ ~working /\ batch = <<>> /\ Unread # <<>>
  /\ LET page == LastOf(Unread) IN batch' = [i \in DOMAIN page |-> EntryOf(page[i])]
  /\ token' = Len(feed)
  /\ UNCHANGED <<kind, cloudVars, working, old, pathMap, out, doomed, expected,
                 workVars, status, countVars, fate>>

(* The same where the server splits the list: GoogleDrive looks for the     *)
(* next page under another name and then for a token that only the last     *)
(* page has; Dropbox reads the second page into the response of the first.   *)
(* Both throw.                                                             *)
FetchPages ==
  /\ Up /\ ~working /\ batch = <<>>
  /\ Len(LastOf(Unread)) > PageSize
  /\ Stop("pages", db, {})

(* A write whose event is expected, and is in the batch or already seen. *)
InBatch(w) ==
  \E i \in DOMAIN batch : /\ batch[i].by = "program"
                          /\ batch[i].id = w.id \/ batch[i].path = w.path

(* proccessChanges() takes the batch, and a copy of what is expected.       *)
TakeBatch ==
  /\ Up /\ ~working /\ batch # <<>>
  /\ working' = TRUE
  /\ old' = expected /\ expected' = NothingExpected
  /\ Suffers({w.id : w \in {w \in writes : w.stage # "queued" /\ ~InBatch(w)}}, "overtaken")
  /\ UNCHANGED <<kind, cloudVars, token, batch, pathMap, out, doomed, workVars,
                 status, countVars>>

(* The rows an entry can be about: Dropbox does not give the id of what is  *)
(* gone, it is looked up by the path.                                      *)
Lookup(e) ==
  LET found == IF e.id # None THEN Known(e.id)
               ELSE IF HasRow(db, e.path) /\ Linked(GlobalId(db, e.path))
                    THEN Known(Link(GlobalId(db, e.path)).id) ELSE {}
  IN  IF found = {} THEN {0} ELSE found

(* The paths a folder has in the database; the home directory has none.     *)
DirPaths(dir) ==
  IF Known(dir) # {} THEN {RowPath(gid) : gid \in Known(dir)}
  ELSE IF dir = Home THEN {NoPath} ELSE {}

(* Where GoogleDrive takes an entry to have been and to be.  It may find     *)
(* that a new one is nowhere (NoPath), or that a known one is gone.         *)
GoogleVerdict(e, gid) ==
  IF gid = 0
  THEN LET parents == IF DirPaths(e.dir) # {} THEN DirPaths(e.dir)
                      ELSE IF e.dir \in DOMAIN pathMap THEN {pathMap[e.dir]} ELSE {}
       IN  [from |-> NoPath, gone |-> e.gone,
            to |-> IF e.gone \/ parents = {} THEN NoPath
                   ELSE Append(CHOOSE p \in parents : TRUE, NameOf[e.id])]
  ELSE LET moved == ~e.gone /\ Link(gid).parent # e.dir
           gone == e.gone \/ (moved /\ DirPaths(e.dir) = {})
       IN  [from |-> RowPath(gid), gone |-> gone,
            to |-> IF moved /\ ~gone
                   THEN Append(CHOOSE p \in DirPaths(e.dir) : TRUE, NameOf[e.id])
                   ELSE RowPath(gid)]

DropboxVerdict(e, gid) ==
  [from |-> IF gid = 0 THEN NoPath ELSE RowPath(gid), gone |-> e.gone, to |-> e.path]

Verdict(e, gid) == IF kind = "google" THEN GoogleVerdict(e, gid) ELSE DropboxVerdict(e, gid)

Needs(e, gid, v) ==
  IF gid = 0 THEN (IF v.gone THEN {} ELSE {"New"})
  ELSE IF v.gone THEN {"Delete"}
  ELSE (IF v.to # v.from THEN {"Move"} ELSE {})
       \cup (IF e.id \in File /\ e.time > Link(gid).time /\ e.hash # Link(gid).hash
             THEN {"Update"} ELSE {})

(* Under which key an event is expected. *)
EventKey(type, id, path) ==
  IF type = "New" \/ (type = "Delete" /\ kind = "dropbox") THEN path ELSE id
Awaited(e, gid, v) ==
  LET id == IF e.id # None THEN e.id ELSE IF gid = 0 THEN None ELSE Link(gid).id
  IN  {type \in Needs(e, gid, v) : Expects(old, EventKey(type, id, v.to), type)}

(* Mutant: the update that goes with a move still has the old path. *)
ChangeOfOldPath(type, e, gid, v) ==
  [type |-> type, id |-> IF e.id # None THEN e.id ELSE Link(gid).id, gid |-> gid,
   path |-> IF type \in {"Move", "Update"} THEN v.from ELSE v.to, to |-> v.to,
   dir |-> e.dir, time |-> e.time, hash |-> e.hash, by |-> e.by, then |-> <<>>]

ChangeOf(type, e, gid, v) ==
  [type |-> type, id |-> IF e.id # None THEN e.id ELSE Link(gid).id, gid |-> gid,
   path |-> IF type = "Move" THEN v.from ELSE v.to, to |-> v.to,
   dir |-> e.dir, time |-> e.time, hash |-> e.hash, by |-> e.by, then |-> <<>>]

(* What the adapters emit for what an entry needs: an update after a move   *)
(* is its dependent.                                                       *)
Emitted(e, gid, v) ==
  LET needs == Needs(e, gid, v)
      ch(type) == ChangeOf(type, e, gid, v)
  IN  IF needs = {"Move", "Update"} THEN {[ch("Move") EXCEPT !.then = <<ch("Update")>>]}
      ELSE {ch(type) : type \in needs}

(* Only a file that Dropbox has moved is taken off the deletes, and under   *)
(* its new path.                                                           *)
Saved(emitted) == {c \in doomed : \E m \in emitted : m.type = "Move" /\ m.to = c.path}

(* proccessChanges() looks at the next entry of the batch.                  *)
Entry(gid) ==
  /\ Up /\ working /\ batch # <<>>
  /\ LET e == Head(batch)
         v == Verdict(e, gid)
         awaited == Awaited(e, gid, v)
         id == IF e.id # None THEN e.id ELSE IF gid = 0 THEN None ELSE Link(gid).id
         emitted == IF v.to = NoPath \/ awaited # {} THEN {} ELSE Emitted(e, gid, v)
         deletes == {c \in emitted : kind = "dropbox" /\ c.type = "Delete"}
     IN  /\ gid \in Lookup(e)
         /\ old' = IF v.to = NoPath \/ awaited = {} THEN old
                   ELSE LET type == IF "Move" \in awaited THEN "Move"
                                    ELSE CHOOSE t \in awaited : TRUE
                        IN  Checked(old, EventKey(type, id, v.to), type)
         /\ pathMap' = IF kind = "google" /\ gid = 0 /\ ~e.gone /\ e.id \in Folder
                       THEN Put(pathMap, e.id, v.to) ELSE pathMap
         /\ out' = out \o SetToSeq(emitted \ deletes)
         /\ doomed' = (doomed \ Saved(emitted))
              \cup {c \in deletes : \A other \in doomed : other.path # c.path}
  /\ batch' = Tail(batch)
  /\ UNCHANGED <<kind, cloudVars, token, working, expected, workVars, status,
                 countVars, fate>>

(* The changes of the batch go to the changes worker, Dropbox's deletes     *)
(* last and in any order.                                                  *)
BatchDone ==
  /\ Up /\ working /\ batch = <<>>
  /\ \E order \in SetToSeqs(doomed) : changes' = changes \o out \o order
  /\ working' = FALSE /\ old' = NothingExpected /\ pathMap' = <<>>
  /\ out' = <<>> /\ doomed' = {}
  /\ UNCHANGED <<kind, cloudVars, token, batch, expected, writes, stuck, db,
                 status, countVars, fate>>

-----------------------------------------------------------------------------
(* The commands of a change: they start when their path is free and no      *)
(* earlier change of the path waits, and are one step here (ChangeTracker   *)
(* and CommandPipeline have them in detail).                               *)
Ready(k) ==
  /\ Up
  /\ changes[k].path \notin Occupied
  /\ \A j \in DOMAIN changes : j < k => changes[j].path # changes[k].path

(* The row still is where the change was made for. *)
InPlace(c) == c.gid \in DOMAIN db.files /\ RowPath(c.gid) = c.path

Carried(k, result) ==
  /\ db' = result
  /\ changes' = changes[k].then \o RemoveAt(changes, k)
  /\ UNCHANGED <<kind, cloudVars, token, batchVars, expected, writes, stuck,
                 status, countVars, fate>>

(* LocalUploadCommand after a download: a row and a link, whether or not    *)
(* the path has a row; of a folder only what getMissingPathPart() lacks.    *)
NewRow(base, c) == WithFile(WithParents(base, c.path), c.path, None)
CarryNew(k) ==
  LET c == changes[k]
      row == NewRow(db, c)
  IN  /\ Ready(k) /\ c.type = "New"
      /\ IF c.id \in Folder THEN Carried(k, WithFolder(db, c.id))
         ELSE Carried(k, WithLink(row, row.lastId, Cloud, LinkStat(c.id, c.dir, c.time, c.hash)))

(* LocalUpdateCommand. *)
CarryUpdate(k) ==
  LET c == changes[k] IN
  /\ Ready(k) /\ c.type = "Update" /\ InPlace(c)
  /\ Carried(k, IF ~Linked(c.gid) THEN db
                ELSE WithLinkUpdated(db, c.gid, Cloud,
                                     [Link(c.gid) EXCEPT !.time = c.time, !.hash = c.hash]))

(* Mutant: the link keeps the old parent. *)
CarryMovePathOnly(k) ==
  LET c == changes[k] IN
  /\ Ready(k) /\ c.type = "Move" /\ InPlace(c)
  /\ Carried(k, WithFileMoved(db, c.gid, c.to))

(* LocalMoveCommand. *)
CarryMove(k) ==
  LET c == changes[k] IN
  /\ Ready(k) /\ c.type = "Move" /\ InPlace(c)
  /\ Carried(k, WithLinkMoved(WithFileMoved(db, c.gid, c.to), c.gid, Cloud, c.dir, c.time))

(* LocalDeleteCommand: by the row's id, wherever its path is by now.        *)
CarryDelete(k) ==
  LET c == changes[k] IN
  /\ Ready(k) /\ c.type = "Delete" /\ c.gid \in DOMAIN db.files
  /\ Carried(k, WithoutFile(db, c.gid))

(* A local file that is not where the change was made for, or a row that is *)
(* gone: rename() or the query for the other clouds' ids throws, and        *)
(* nothing on the callback worker's stack catches.  (An update whose row is  *)
(* elsewhere by now may go through, and write at the old path: that is taken *)
(* for a throw as well, and happens only to what was raced.)               *)
Throws(k) ==
  LET c == changes[k] IN
  /\ Ready(k) /\ c.type # "New"
  /\ IF c.type = "Delete" THEN c.gid \notin DOMAIN db.files ELSE ~InPlace(c)
  /\ Stop(c.id, db, {})

(* A download that fails for good leaves its path in _current_changes;      *)
(* Dropbox downloads by path, and it may be another file's by now.          *)
CarryFails(k) ==
  /\ Ready(k) /\ changes[k].type \in {"New", "Update"} /\ changes[k].id \in File
  /\ changes' = RemoveAt(changes, k)
  /\ stuck' = stuck \cup {changes[k].path}
  /\ Suffers({changes[k].id}, "failed")
  /\ UNCHANGED <<kind, cloudVars, token, batchVars, expected, writes, db,
                 status, countVars>>

-----------------------------------------------------------------------------
(* What the program writes to this cloud because of another storage. *)
MayBegin(path) ==
  /\ Up /\ own < MaxOwn /\ own' = own + 1
  /\ path \notin Occupied /\ \A k \in DOMAIN changes : changes[k].path # path

Begin(w, result, races) ==
  /\ writes' = writes \cup {w}
  /\ db' = result
  /\ Suffers(IF races THEN UNION {{w.id}, Near(w.path), Near(w.to), WorkedOn(w.path), WorkedOn(w.to)} ELSE {},
             IF w.dir = None THEN "unmoved" ELSE "raced")
  /\ UNCHANGED <<kind, cloudVars, token, batchVars, expected, changes, stuck,
                 status, foreign, restarts>>

WriteOf(op, id, gid, path, to, dir) ==
  [op |-> op, id |-> id, gid |-> gid, path |-> path, to |-> to, dir |-> dir,
   stage |-> "queued", time |-> 0, hash |-> NoHash]

(* The directories the program knows here, by their paths in the database. *)
KnownDirs == {Home} \cup {d \in Folder : Known(d) # {}}
PathUnder(dir, id) == Append(CHOOSE p \in DirPaths(dir) : TRUE, NameOf[id])

(* Something has been written to them that is not read: by a user, or by the *)
(* program, whose earlier event comes at a time when it is not expected.     *)
Unnoticed(id, path) ==
  \E i \in DOMAIN Unread : Unread[i].id = id \/ Unread[i].key = path

(* LocalUploadCommand of a new local file: a row. *)
BeginUpload(id, dir) ==
  LET path == PathUnder(dir, id) IN
  /\ ~Born(id) /\ \A w \in writes : w.id # id
  /\ dir \in KnownDirs /\ MayBegin(path) /\ ~HasRow(db, path)
  /\ Begin(WriteOf("New", id, NewId(db), path, path, dir), WithFile(db, path, None),
           BusyPath(path) \/ Near(path) # {} \/ Unnoticed(id, path))

(* The rows of files that have a link. *)
LinkedRows == {gid \in DOMAIN db.files : Linked(gid) /\ Link(gid).id \in File}
Races(gid, path) ==
  \/ Interferes(Link(gid).id, path) \/ PathOf(Link(gid).id) # RowPath(gid)
  \/ Unnoticed(Link(gid).id, path)

BeginUpdate(gid) ==
  /\ MayBegin(RowPath(gid))
  /\ Begin(WriteOf("Update", Link(gid).id, gid, RowPath(gid), RowPath(gid), Home), db,
           Races(gid, RowPath(gid)))

(* LocalMoveCommand: the row moves at once.  For a move to the home          *)
(* directory there is no row to get the new parent's id from, and            *)
(* GoogleDrive asks for no new parent: the file stays where it is.          *)
BeginMove(gid, dir) ==
  LET to == PathUnder(dir, Link(gid).id) IN
  /\ MayBegin(RowPath(gid)) /\ dir \in KnownDirs /\ ~HasRow(db, to)
  /\ Begin(WriteOf("Move", Link(gid).id, gid, RowPath(gid), to,
                   IF kind = "google" /\ dir = Home THEN None ELSE dir),
           WithFileMoved(db, gid, to),
           Races(gid, to) \/ Near(to) # {} \/ (kind = "google" /\ dir = Home))

(* LocalDeleteCommand: the row and its links go at once. *)
BeginDelete(gid) ==
  /\ MayBegin(RowPath(gid))
  /\ Begin(WriteOf("Delete", Link(gid).id, gid, RowPath(gid), RowPath(gid), Home),
           WithoutFile(db, gid), Races(gid, RowPath(gid)))

(* Mutant: a new file is expected under its id. *)
RegisteredById(w) == Expecting(expected, w.id, w.op)

(* execute(): the setup*Handle functions register the event to expect,      *)
(* before the request is sent.                                             *)
Registered(w) ==
  IF kind = "dropbox" /\ w.op = "Move"
  THEN Expecting(Expecting(expected, w.path, "Delete"), w.id, "Move")
  ELSE Expecting(expected, EventKey(w.op, w.id, w.path), w.op)
Send(w) ==
  /\ Up /\ w \in writes /\ w.stage = "queued"
  /\ expected' = Registered(w)
  /\ writes' = (writes \ {w}) \cup {[w EXCEPT !.stage = "sent"]}
  /\ UNCHANGED <<kind, cloudVars, token, batchVars, changes, stuck, db, status,
                 countVars, fate>>

(* What the request reaches in the home directory.  GoogleDrive names it by *)
(* its id, Dropbox by its path: an upload overwrites what is there, and      *)
(* makes a file where there is none; an update lacks the home directory in    *)
(* its path and reaches nothing there.                                     *)
Reaches(w) ==
  IF kind = "google" THEN {w.id}
  ELSE IF w.op = "Update" THEN {}
  ELSE IF At(w.path) # {} THEN At(w.path)
  ELSE IF w.op = "New" /\ ~item[w.id].live THEN {w.id} ELSE {}
Effect(w, id) ==
  CASE w.op \in {"New", "Update"} /\ Born(id) ->
         [item[id] EXCEPT !.time = @ + 1, !.hash = @ + 1, !.live = @ \/ kind = "dropbox"]
    [] w.op \in {"New", "Update"} /\ ~Born(id) ->
         [dir |-> w.dir, time |-> 1, hash |-> 1, live |-> TRUE]
    [] w.op = "Move" -> [item[id] EXCEPT !.dir = IF w.dir = None THEN @ ELSE w.dir]
    [] w.op = "Delete" -> [item[id] EXCEPT !.live = FALSE]

(* The server has the request; a move to a path that is taken fails.        *)
Arrive(w) ==
  /\ Up /\ w \in writes /\ w.stage = "sent"
  /\ kind = "dropbox" /\ w.op = "Move" => At(w.to) = {}
  /\ \E id \in Reaches(w) :
       LET it == Effect(w, id) IN
       /\ Stored(id, it, "program")
       /\ writes' = (writes \ {w}) \cup
            {[w EXCEPT !.stage = "arrived", !.id = id, !.dir = it.dir,
                       !.time = it.time, !.hash = it.hash]}
       /\ Suffers({id} \ {w.id}, "raced")
  /\ UNCHANGED <<kind, token, batchVars, expected, changes, stuck, db, status, countVars>>

(* Dropbox makes or overwrites a file outside of the home directory. *)
GoesAstray(w) ==
  /\ Up /\ w \in writes /\ w.stage = "sent"
  /\ kind = "dropbox" /\ w.op = "Update"
  /\ writes' = (writes \ {w}) \cup
       {[w EXCEPT !.stage = "arrived", !.time = item[w.id].time + 1]}
  /\ Suffers({w.id}, "astray")
  /\ UNCHANGED <<kind, cloudVars, token, batchVars, expected, changes, stuck, db,
                 status, countVars>>

(* The callback: what the answer says goes into the link.  Dropbox's answer *)
(* to an update has no .tag, without which proccesUpdate() does not take     *)
(* the time and the hash from it: the time is the one of the storage that    *)
(* the update came from, which may be later or not.                        *)
Recording(w) ==
  CASE w.op = "New" -> {WithLink(db, w.gid, Cloud, LinkStat(w.id, w.dir, w.time, w.hash))}
    [] w.op = "Update" /\ Linked(w.gid) ->
         {WithLinkUpdated(db, w.gid, Cloud, [Link(w.gid) EXCEPT !.time = t[1], !.hash = t[2]]) :
            t \in IF kind = "google" THEN {<<w.time, w.hash>>}
                  ELSE {<<Link(w.gid).time, NoHash>>, <<w.time, NoHash>>}}
    [] w.op = "Move" -> {WithLinkMoved(db, w.gid, Cloud, w.dir, w.time)}
    [] OTHER -> {db}
Finish(w) ==
  /\ Up /\ w \in writes /\ w.stage = "arrived"
  /\ db' \in Recording(w)
  /\ writes' = writes \ {w}
  /\ UNCHANGED <<kind, cloudVars, token, batchVars, expected, changes, stuck,
                 status, countVars, fate>>

(* The request fails for good, before or after it had its effect.           *)
Fail(w) ==
  /\ Up /\ w \in writes /\ w.stage \in {"sent", "arrived"}
  /\ writes' = writes \ {w}
  /\ stuck' = stuck \cup {w.path}
  /\ Suffers({w.id}, "failed")
  /\ UNCHANGED <<kind, cloudVars, token, batchVars, expected, changes, db,
                 status, countVars>>

-----------------------------------------------------------------------------
Die == Up /\ restarts < MaxRestarts /\ Stop("killed", db, {})
(* The process dies between the row and the link of a new file.             *)
DieMidway(k) ==
  /\ restarts < MaxRestarts
  /\ Ready(k) /\ changes[k].type = "New" /\ changes[k].id \in File
  /\ Stop("killed", NewRow(db, changes[k]), {changes[k].id})
Restart ==
  /\ ~Up /\ restarts < MaxRestarts
  /\ status' = "up" /\ restarts' = restarts + 1
  /\ UNCHANGED <<kind, cloudVars, token, batchVars, expected, workVars, foreign, own, fate>>

(* All that happened has been noticed and carried out, but for what waits    *)
(* for a failed command.                                                   *)
Quiet ==
  /\ Up /\ Unread = <<>> /\ batch = <<>> /\ ~working /\ writes = {}
  /\ \A k \in DOMAIN changes : ~Ready(k)
Rest == (IF Up THEN Quiet ELSE restarts = MaxRestarts) /\ UNCHANGED vars

InCloud ==
  \/ \E id \in Id, dir \in Id \cup {Home, Elsewhere} :
       UserCreates(id, dir) \/ (id \in File /\ UserMoves(id, dir))
  \/ \E id \in File : UserTrashes(id) \/ UserRestores(id) \/ \E later \in 0..1 : UserEdits(id, later)
Poll == Fetch \/ FetchPages \/ TakeBatch \/ (\E gid \in 0..db.lastId : Entry(gid)) \/ BatchDone
Carry ==
  \E k \in DOMAIN changes :
    CarryNew(k) \/ CarryUpdate(k) \/ CarryMove(k) \/ CarryDelete(k) \/ Throws(k) \/ CarryFails(k)
Write ==
  \/ \E id \in File, dir \in {Home} \cup Folder : BeginUpload(id, dir)
  \/ \E gid \in LinkedRows :
       BeginUpdate(gid) \/ BeginDelete(gid) \/ \E dir \in {Home} \cup Folder : BeginMove(gid, dir)
  \/ \E w \in writes : Send(w) \/ Arrive(w) \/ GoesAstray(w) \/ Finish(w) \/ Fail(w)
Crash == Die \/ (\E k \in DOMAIN changes : DieMidway(k)) \/ Restart

Next == InCloud \/ Poll \/ Carry \/ Write \/ Crash \/ Rest

Spec == Init /\ [][Next]_vars

-----------------------------------------------------------------------------
(* The variables have their types. *)
TypeOK ==
  /\ kind \in Kinds
  /\ \A id \in Id : item[id].dir \in {Home, Elsewhere} \cup Folder
  /\ token \in 0..Len(feed)
  /\ working => Up
  /\ \A c \in InProgress : c.type \in ChangeTypes /\ c.id \in Id
  /\ Range(expected) \cup Range(old) \subseteq ChangeTypes
  /\ \A w \in writes : w.stage \in {"queued", "sent", "arrived"} /\ w.id \in Id
  /\ \A key \in DOMAIN db.links : key[1] \in DOMAIN db.files
  /\ status \in {"up", "killed", "pages"} \cup Id
  /\ fate \in [Id -> SUBSET Fates]

(* The database agrees with the cloud about this id: one row with a link and *)
(* with the path where the thing is, or none if it is not in the home         *)
(* directory, and of a file its time and hash.                             *)
Agrees(id) ==
  IF PathOf(id) = NoPath THEN Known(id) = {}
  ELSE \E gid \in Known(id) :
         /\ Known(id) = {gid} /\ RowPath(gid) = PathOf(id)
         /\ id \in File =>
              Link(gid).time = item[id].time /\ Link(gid).hash = item[id].hash

(* When everything has come to its end, the database mirrors the cloud.      *)
MirrorsCloud == Quiet => \A id \in Id : fate[id] = {} => Agrees(id)

(* What the program writes to a cloud does not come back as a change from    *)
(* that cloud.                                                             *)
NoEcho ==
  [][\A c \in (Range(out') \cup doomed') \ (Range(out) \cup doomed) :
       c.by = "program" /\ c.id \in File => fate[c.id] # {}]_vars

(* The daemon is ended by an exception only over a file that someone else    *)
(* wrote to while it was at work on it.                                     *)
ThrowsOnlyOnRaces == status \in Id => fate[status] # {}

=============================================================================
