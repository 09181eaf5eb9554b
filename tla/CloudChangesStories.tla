-------------------------- MODULE CloudChangesStories --------------------------
(****************************************************************************)
(* More proofs about CloudChanges: what is known at every moment of a file  *)
(* of which nothing excuses that the database differs from the cloud, and   *)
(* from that, that the database mirrors the cloud when all is done, that    *)
(* no write of the program comes back as a change, and that no change       *)
(* throws over such a file.                                                 *)
(****************************************************************************)
EXTENDS CloudChangesProofs

-----------------------------------------------------------------------------
(* The stories.  What is known of a file of which only edits in one second *)
(* may go unnoticed.                                                       *)

(* What is named anywhere has been in the cloud, but for what is on its way to it. *)
Births ==
  /\ \A id \in Id : Born(id) \/ item[id] = Unborn
  /\ \A n \in DOMAIN feed : Born(feed[n].id)
  /\ \A i \in DOMAIN batch : batch[i].id = None \/ Born(batch[i].id)
  /\ \A c \in InProgress : Born(c.id)
  /\ \A g \in DOMAIN db.files : LinkedIn(db, g) => Born(LinkIn(db, g).id)
  /\ \A w \in writes :
       IF w.op = "New" /\ w.stage # "arrived"
       THEN ~Born(w.id) /\ \A v \in writes : v.id = w.id => v = w
       ELSE Born(w.id)

(* Dropbox's entries have a path each. *)
OnePath ==
  kind = "dropbox" => \A i, j \in DOMAIN batch : batch[i].path = batch[j].path => i = j

(* A folder without a row is still to come. *)
FolderStory ==
  \A d \in HomeFolder :
    LinkedTo(db, Cloud, d) = {} =>
      \E n \in DOMAIN feed :
        /\ feed[n].id = d
        /\ n > token \/ (\E i \in DOMAIN batch : batch[i].id = d) \/ \E c \in InProgress : c.id = d

Clean(f) == f \in File /\ fate[f] \subseteq {"same second"}
Tied(f) == "same second" \in fate[f]

Rows(f) == RowsIn(db, f)
Waiting(f) == {c \in Range(changes) : c.id = f}
Fresh(f) == {c \in Range(out) \cup doomed : c.id = f}
Writing(f) == {w \in writes : w.id = f}
Entries(f) == {e \in Range(batch) : e.id = f}
Loc(it, f) == IF it.live /\ it.dir # Elsewhere THEN Spot(it.dir, f) ELSE NoPath
Here(f) == Spot(item[f].dir, f)

(* The paths of a file: where it is, and where the program takes it to be. *)
Tracks(id, p) ==
  \/ \E r \in Rows(id) : r.path = p
  \/ \E x \in Waiting(id) \cup Fresh(id) \cup Writing(id) : p \in {x.path, x.to}

Claims(f, p) == Tracks(f, p) \/ (p # NoPath /\ p = Loc(item[f], f))
Touches(id, p) == Tracks(id, p) \/ p = Apparent(item[id], id) \/ \E e \in Entries(id) : e.path = p
Gone(f) == {e \in Range(batch) : e.id = None /\ Claims(f, e.path)}

(* Nothing else is at its paths. *)
Alone(f) ==
  /\ item[f].dir \in Folder => item[f].dir \in HomeFolder
  /\ \A id \in File : \A p : id # f /\ Claims(f, p) => ~Touches(id, p)
  /\ \A p \in stuck : ~Claims(f, p)
  /\ \A g \in Loose(db) : Claims(f, PathOfRow(db, g)) => \E w \in Writing(f) : w.gid = g
  /\ \A w \in writes : \A r \in Rows(f) : r.gid = w.gid => w.id = f

Told(f) == \E n \in DOMAIN feed : n > token /\ (feed[n].id = f \/ Claims(f, feed[n].key))
UserRec(f, from) ==
  \E n \in DOMAIN feed :
    n > from /\ feed[n].id = f /\ feed[n].by = "user" /\ (kind = "dropbox" => feed[n].key = Here(f))

LastSay(f) ==
  kind = "dropbox" /\ Born(f) /\ Claims(f, Here(f)) =>
    \A n \in DOMAIN feed : feed[n].key = Here(f) /\ feed[n].id # f =>
      \E m \in DOMAIN feed : m > n /\ feed[m].key = Here(f) /\ feed[m].id = f

Silent(f) == \A k : k = f \/ Claims(f, k) => k \notin DOMAIN expected /\ k \notin DOMAIN old

(* What a row says of a file that has it: nothing newer than the file; all. *)
SoundRow(r, it, f, tied) ==
  /\ r.link.time <= it.time /\ r.link.hash <= it.hash
  /\ r.link.hash = it.hash => r.link.time = it.time
  /\ r.link.time = it.time => (r.link.hash = it.hash \/ tied)
  /\ r.link.parent # Elsewhere /\ r.path = Spot(r.link.parent, f)
  /\ kind = "dropbox" => r.link.parent = it.dir

UpToDate(r, it, tied) ==
  /\ r.link.time = it.time /\ r.link.hash <= it.hash
  /\ r.link.hash = it.hash \/ tied

AgreedRow(r, it, f, tied) ==
  r.path = Loc(it, f) /\ r.link.parent = it.dir /\ UpToDate(r, it, tied)

Sound(f) == Rows(f) = {} \/ \E r : Rows(f) = {r} /\ SoundRow(r, item[f], f, Tied(f))
Agreed(f) ==
  IF Loc(item[f], f) = NoPath THEN Rows(f) = {}
  ELSE \E r : Rows(f) = {r} /\ AgreedRow(r, item[f], f, Tied(f))

(* A user's write that the program will learn of. *)
News(f, e) == e.by = "user" /\ (e.id = None => \E r \in Rows(f) : r.path = e.path)
Behind(f) == Silent(f) /\ (UserRec(f, token) \/ \E e \in Entries(f) \cup Gone(f) : News(f, e))

(* A change that leads from the row to the file. *)
Snapshot(c, it) == c.dir = it.dir /\ c.time = it.time /\ c.hash = it.hash
RightRow(c, r, it, f, tied) ==
  LET here == Loc(it, f) IN
  /\ r.gid = c.gid /\ r.path = c.path
  /\ \/ c.type = "Delete" /\ here = NoPath /\ SoundRow(r, it, f, tied)
     \/ /\ c.type = "Update" /\ c.path = here /\ r.link.parent = it.dir
        /\ r.link.time <= it.time /\ r.link.hash < it.hash /\ Snapshot(c, it)
     \/ /\ c.type = "Move" /\ kind = "google" /\ c.to = here /\ here # NoPath
        /\ Snapshot(c, it) /\ SoundRow(r, it, f, tied)
        /\ \/ c.then = <<>> /\ r.link.time = it.time
           \/ \E u : c.then = <<u>> /\ Snapshot(u, it) /\ r.link.hash < it.hash

Right(c, f) ==
  \/ c.type = "New" /\ Rows(f) = {} /\ c.path = Loc(item[f], f) /\ Snapshot(c, item[f])
  \/ \E r : Rows(f) = {r} /\ RightRow(c, r, item[f], f, Tied(f))

Once(s, f) == \A i, j \in DOMAIN s : s[i].id = f /\ s[j].id = f => i = j
OneChange(f) ==
  /\ Once(changes, f) /\ Once(out, f) /\ (Waiting(f) = {} \/ Fresh(f) = {})
  /\ \A i \in DOMAIN out : out[i].id = f => \A c \in doomed : c.id # f

Changing(f, c) ==
  /\ Waiting(f) \cup Fresh(f) = {c} /\ Writing(f) = {} /\ Entries(f) = {} /\ Gone(f) = {} /\ ~Told(f)
  /\ Right(c, f)
  /\ c \in Fresh(f) /\ c.type = "Update" => \A r \in Rows(f) : r.link.time < item[f].time

(* A write from the row to the file. *)
Arrived(w) == w.stage = "arrived"
WriteKey(w) == IF w.op = "New" THEN w.path ELSE w.id
WriteRow(w, r, it, f, tied) ==
  LET here == Loc(it, f) IN
  /\ r.gid = w.gid /\ r.path = w.to
  /\ \/ /\ w.op = "Update" /\ w.path = here /\ ~Arrived(w) /\ AgreedRow(r, it, f, tied)
     \/ /\ w.op = "Update" /\ w.path = here /\ Arrived(w) /\ kind = "google"
        /\ r.link.parent = it.dir /\ r.link.time < it.time /\ r.link.hash < it.hash
     \/ /\ w.op = "Move" /\ w.path # w.to /\ UpToDate(r, it, tied) /\ w.dir \notin {None, Elsewhere}
        /\ IF Arrived(w) THEN here = w.to ELSE here = w.path /\ r.link.parent = it.dir

WriteRight(w, f) ==
  LET it == item[f]
      here == Loc(it, f)
  IN  /\ Arrived(w) => w.time = it.time /\ w.hash = it.hash /\ w.dir = it.dir
      /\ kind = "google" /\ w.dir \in Folder => LinkedTo(db, Cloud, w.dir) # {}
      /\ \/ w.op = "New" /\ Rows(f) = {} /\ IF Arrived(w) THEN here = w.path ELSE it = Unborn
         \/ w.op = "Delete" /\ Rows(f) = {} /\ here = IF Arrived(w) THEN NoPath ELSE w.path
         \/ \E r : Rows(f) = {r} /\ WriteRow(w, r, it, f, Tied(f))

Awaits(w, f) ==
  /\ ~Arrived(w) => ~Told(f) /\ Entries(f) = {} /\ Gone(f) = {}
  /\ Arrived(w) => \A e \in Gone(f) : w.op \in {"Move", "Delete"} /\ e.path # Loc(item[f], f)
  /\ w.op \in {"New", "Update"} =>
       /\ w.stage = "queued" => WriteKey(w) \notin DOMAIN expected /\ WriteKey(w) \notin DOMAIN old
       /\ w.stage = "sent" => Expects(expected, WriteKey(w), w.op)
       /\ Arrived(w) /\ Told(f) => Expects(expected, WriteKey(w), w.op)
       /\ Arrived(w) /\ Entries(f) # {} => Expects(IF working THEN old ELSE expected, WriteKey(w), w.op)

Sending(f, w) ==
  Writing(f) = {w} /\ Waiting(f) = {} /\ Fresh(f) = {} /\ WriteRight(w, f) /\ Awaits(w, f)

Resting(f) ==
  /\ Waiting(f) = {} /\ Fresh(f) = {} /\ Writing(f) = {}
  /\ Sound(f) /\ (Agreed(f) \/ Behind(f))

Phase(f) == (\E c : Changing(f, c)) \/ (\E w : Sending(f, w)) \/ Resting(f)

(* What is in the batch is still so. *)
Current(it, e) == e.gone = ~it.live /\ e.dir = it.dir /\ e.time = it.time /\ e.hash = it.hash
Notices(f) ==
  /\ \A e \in Entries(f) :
       Current(item[f], e) /\ ~Told(f) /\ (e.by = "program" => (Agreed(f) \/ Writing(f) # {}))
  /\ \A e \in Gone(f) : (\E r \in Rows(f) : r.path = e.path) =>
       ~item[f].live /\ Writing(f) = {} /\ e.by = "user" /\ ~Told(f)
  /\ Agreed(f) \/ Writing(f) # {} \/ UserRec(f, 0)
  /\ LastSay(f)

(* A folder comes before what is in it. *)
FolderFirst(f) ==
  LET d == item[f].dir IN
  kind = "google" /\ d \in Folder /\ LinkedTo(db, Cloud, d) = {} =>
    /\ Rows(f) = {} /\ Writing(f) = {}
    /\ \A m, n \in DOMAIN feed : feed[m].id = d /\ feed[n].id = f => m < n
    /\ \/ Waiting(f) \cup Fresh(f) # {}
       \/ Agreed(f)
       \/ \E n \in DOMAIN feed : n > token /\ feed[n].id = d
       \/ \E i \in DOMAIN batch :
            /\ batch[i].id = f
            /\ d \in DOMAIN pathMap \/ \E j \in DOMAIN batch : j < i /\ batch[j].id = d

Story(f) == Alone(f) /\ OneChange(f) /\ Phase(f) /\ Notices(f) /\ FolderFirst(f)
Stories == \A f \in File : Clean(f) => Story(f)
ThrownOver == status \in Id => ~Clean(status)
Inv == TypeInv /\ Births /\ OnePath /\ FolderStory /\ Stories /\ ThrownOver

-----------------------------------------------------------------------------
(* What the pieces of a story have in common. *)

LEMMA RowIn ==
  ASSUME TypeInv, NEW id \in Id, NEW r \in Rows(id)
  PROVE  /\ r.gid \in DOMAIN db.files /\ LinkedIn(db, r.gid) /\ LinkIn(db, r.gid).id = id
         /\ r.path = PathOfRow(db, r.gid) /\ r.link = LinkIn(db, r.gid) /\ r.link \in LinkSet
         /\ r.path \in Spots(id, HomeFolder) /\ r.gid \in 1..db.lastId /\ r.gid \in Nat /\ r.gid # 0
<1>1. Tables(db) /\ \A g \in DOMAIN db.files : RowOK(db, g, HomeFolder)
  BY DEF TypeInv, DbTyped, DbOK
<1>2. /\ r.gid \in DOMAIN db.files /\ LinkedIn(db, r.gid) /\ LinkIn(db, r.gid).id = id
      /\ r.path = PathOfRow(db, r.gid) /\ r.link = LinkIn(db, r.gid)
  BY <1>1, RowsAre DEF Rows
<1>3. RowOK(db, r.gid, HomeFolder) /\ r.gid \in 1..db.lastId /\ db.lastId \in Nat
  BY <1>1, <1>2 DEF Tables
<1> QED
  BY <1>2, <1>3 DEF RowOK

LEMMA LocIs ==
  ASSUME TypeInv, NEW f \in File, item[f].dir \in Folder => item[f].dir \in HomeFolder
  PROVE  /\ Loc(item[f], f) = PathOf(f) /\ Loc(item[f], f) = Apparent(item[f], f)
         /\ Loc(item[f], f) # NoPath => /\ Loc(item[f], f) \in Spots(f, HomeFolder)
                                        /\ item[f].live /\ item[f].dir \in {Home} \cup HomeFolder
                                        /\ Loc(item[f], f) = Spot(item[f].dir, f) /\ item[f].time > 0
         /\ item[f].live /\ item[f].dir # Elsewhere => Loc(item[f], f) # NoPath
         /\ item[f] \in Item
<1>1. CloudTyped /\ f \in Id /\ item[f] \in Item /\ ItemOK(item[f], f, LiveFolder, kind)
  BY DEF TypeInv, CloudTyped, Id
<1>2. item[f].dir \in {Home, Elsewhere} \cup HomeFolder /\ item[f].live \in BOOLEAN /\ item[f].dir \in Dir
  BY <1>1 DEF Item, Dir
<1>3. PathOf(f) = IF item[f].live /\ item[f].dir \in {Home} \cup HomeFolder THEN Spot(item[f].dir, f) ELSE NoPath
  BY <1>1, PathIs
<1>4. Elsewhere \notin {Home} \cup HomeFolder
  BY Names, HomesAreLive DEF Id
<1>5. Loc(item[f], f) = PathOf(f)
  BY <1>2, <1>3, <1>4 DEF Loc
<1>6. Apparent(item[f], f) = Seen(item[f].live, item[f].dir, f, HomeFolder)
  BY <1>1, <1>2, ApparentIs DEF ItemOK
<1>7. Seen(item[f].live, item[f].dir, f, HomeFolder) = Loc(item[f], f)
  BY <1>2, <1>4, Names, HomesAreLive DEF Seen, Loc, Id
<1>8. item[f].live /\ item[f].dir # Elsewhere => /\ Loc(item[f], f) = Spot(item[f].dir, f)
                                                 /\ item[f].dir \in {Home} \cup HomeFolder
                                                 /\ Spot(item[f].dir, f) \in Spots(f, HomeFolder)
                                                 /\ Spot(item[f].dir, f) # NoPath
  <2>1. HomeFolder \in SUBSET Folder
    BY HomesAreLive
  <2> QED
    BY <1>1, <1>2, <2>1, SpotsIn, SpotKinds DEF Loc
<1>9. Loc(item[f], f) # NoPath => item[f].live /\ item[f].dir # Elsewhere
  BY DEF Loc
<1> QED
  BY <1>1, <1>5, <1>6, <1>7, <1>8, <1>9 DEF ItemOK

(* What a file's paths can be. *)
LEMMA TracksIn ==
  ASSUME TypeInv, NEW id \in Id, NEW p, Tracks(id, p)
  PROVE  p \in Spots(id, HomeFolder)
<1>1. \A r \in Rows(id) : r.path \in Spots(id, HomeFolder)
  BY RowIn
<1>2. \A c \in Waiting(id) \cup Fresh(id) : c.path \in Spots(id, HomeFolder) /\ c.to \in Spots(id, HomeFolder)
  <2> TAKE c \in Waiting(id) \cup Fresh(id)
  <2>1. c \in InProgress /\ c.id = id
    BY DEF Waiting, Fresh, InProgress
  <2> QED
    BY <2>1 DEF TypeInv, ChangesTyped, ChangeOK
<1>3. \A w \in Writing(id) : w.path \in Spots(id, HomeFolder) /\ w.to \in Spots(id, HomeFolder)
  BY DEF Writing, TypeInv, WritesTyped, WriteOK
<1> QED
  BY <1>1, <1>2, <1>3 DEF Tracks

LEMMA ClaimsIn ==
  ASSUME TypeInv, NEW f \in File, Alone(f), NEW p, Claims(f, p)
  PROVE  /\ p \in Spots(f, HomeFolder) /\ p # NoPath /\ p \in FileSpots(HomeFolder)
         /\ p \notin Id /\ p \in Paths /\ \A d \in Folder : p # FolderPath(d)
<1>1. p \in Spots(f, HomeFolder)
  BY TracksIn, LocIs DEF Claims, Alone, Id
<1>2. HomeFolder \in SUBSET Folder /\ f \in Id
  BY HomesAreLive DEF Id
<1>3. p \in FileSpots(HomeFolder) /\ p # NoPath /\ p \in Paths
  BY <1>1, <1>2, SpotsIn
<1>4. p \notin Id
  <2>1. PICK dir \in {Home} \cup HomeFolder : p = Spot(dir, f)
    BY <1>1, <1>2, SpotsIn, ZenonT(30)
  <2> QED
    BY <1>2, <2>1, SpotKinds
<1>5. \A d \in Folder : p # FolderPath(d)
  BY <1>2, <1>3, FolderSpots
<1> QED
  BY <1>1, <1>3, <1>4, <1>5

(* Whose the paths are where a thing is. *)
LEMMA TouchesWhere ==
  ASSUME TypeInv, NEW id \in Id, PathOf(id) # NoPath
  PROVE  Touches(id, PathOf(id)) /\ Apparent(item[id], id) = PathOf(id)
<1>1. CloudTyped /\ item[id] \in Item /\ ItemOK(item[id], id, LiveFolder, kind)
  BY DEF TypeInv, CloudTyped
<1>2. item[id].dir \in Dir /\ item[id].live \in BOOLEAN
  BY <1>1 DEF Item
<1>3. Apparent(item[id], id) = Seen(item[id].live, item[id].dir, id, HomeFolder)
  BY <1>1, <1>2, ApparentIs DEF ItemOK
<1>4. item[id].live /\ item[id].dir \in {Home} \cup HomeFolder /\ PathOf(id) = Spot(item[id].dir, id)
  BY <1>1, PathIs
<1>5. Elsewhere \notin {Home} \cup HomeFolder
  BY Names, HomesAreLive DEF Id
<1>6. Seen(item[id].live, item[id].dir, id, HomeFolder) = PathOf(id)
  BY <1>4, <1>5 DEF Seen
<1> QED
  BY <1>3, <1>6 DEF Touches

(* Nothing but the file is where it claims to be. *)
LEMMA OnlyHere ==
  ASSUME TypeInv, NEW f \in File, Alone(f), NEW p, Claims(f, p)
  PROVE  /\ \A id \in Id : PathOf(id) = p => id = f
         /\ At(p) \subseteq {f}
         /\ p = PathOf(f) => At(p) = {f}
<1>1. p \in FileSpots(HomeFolder) /\ p # NoPath /\ \A d \in Folder : p # FolderPath(d)
  BY ClaimsIn
<1>2. ASSUME NEW id \in Id, PathOf(id) = p PROVE id = f
  <2>1. Touches(id, p)
    BY <1>1, <1>2, TouchesWhere
  <2>2. id \in File
    BY <1>1, <1>2, AtIs DEF At, TypeInv
  <2> QED
    BY <2>1, <2>2 DEF Alone
<1> QED
  BY <1>1, <1>2 DEF At, Id

-----------------------------------------------------------------------------
(* What a step leaves of a file's story. *)

SameOf(f) ==
  /\ kind' = kind /\ item'[f] = item[f] /\ Rows(f)' = Rows(f) /\ Writing(f)' = Writing(f)
  /\ Tied(f)' <=> Tied(f)
  /\ (Waiting(f) \cup Fresh(f))' = Waiting(f) \cup Fresh(f) /\ Fresh(f)' \subseteq Fresh(f)

FoldersKept == \A d \in Folder : LinkedTo(db, Cloud, d) # {} => LinkedTo(db', Cloud, d) # {}
RegKept(f) ==
  \A k : k = f \/ Claims(f, k) =>
    /\ k \in DOMAIN expected' => k \in DOMAIN expected
    /\ k \in DOMAIN old' => k \in DOMAIN old
    /\ \A t : Expects(expected, k, t) => Expects(expected', k, t)
    /\ Entries(f) # {} => working' = working /\ \A t : Expects(old, k, t) => Expects(old', k, t)

BatchKeptFor(f) ==
  /\ Entries(f)' = Entries(f) /\ Gone(f)' \subseteq Gone(f)
  /\ \A e \in Gone(f) : News(f, e) => e \in Gone(f)'

LEMMA ClaimsKept ==
  ASSUME NEW f, SameOf(f)
  PROVE  \A p : (Tracks(f, p)' <=> Tracks(f, p)) /\ (Claims(f, p)' <=> Claims(f, p))
<1>1. \A p : Tracks(f, p)' <=> Tracks(f, p)
  BY DEF SameOf, Tracks
<1> QED
  BY <1>1 DEF SameOf, Claims, Loc, Spot

LEMMA RightKept ==
  ASSUME NEW f, SameOf(f)
  PROVE  /\ \A c : Right(c, f)' <=> Right(c, f)
         /\ Sound(f)' <=> Sound(f)
         /\ Agreed(f)' <=> Agreed(f)
         /\ FoldersKept => \A w : WriteRight(w, f) => WriteRight(w, f)'
<1>1. kind' = kind /\ item'[f] = item[f] /\ Rows(f)' = Rows(f) /\ (Tied(f)' <=> Tied(f))
  BY DEF SameOf
<1>3. \A c, r : RightRow(c, r, item[f], f, Tied(f))' <=> RightRow(c, r, item[f], f, Tied(f))
  BY <1>1 DEF RightRow, Snapshot, SoundRow, Loc, Spot
<1>4. \A c : Right(c, f)' <=> Right(c, f)
  BY <1>1, <1>3 DEF Right, Snapshot, Loc, Spot
<1>5. Sound(f)' <=> Sound(f)
  BY <1>1 DEF Sound, SoundRow, Spot
<1>6. Agreed(f)' <=> Agreed(f)
  BY <1>1 DEF Agreed, AgreedRow, UpToDate, Loc, Spot
<1>7. \A w, r : WriteRow(w, r, item[f], f, Tied(f))' <=> WriteRow(w, r, item[f], f, Tied(f))
  BY <1>1 DEF WriteRow, AgreedRow, UpToDate, Arrived, Loc, Spot
<1>8. ASSUME FoldersKept, NEW w, WriteRight(w, f) PROVE WriteRight(w, f)'
  <2>1. kind = "google" /\ w.dir \in Folder => LinkedTo(db', Cloud, w.dir) # {}
    BY <1>8 DEF WriteRight, FoldersKept
  <2> QED
    BY <1>1, <1>7, <1>8, <2>1 DEF WriteRight, Arrived, Loc, Spot, Unborn
<1> QED
  BY <1>4, <1>5, <1>6, <1>8

LEMMA NewsKept ==
  ASSUME NEW f, SameOf(f)
  PROVE  /\ \A e : News(f, e)' <=> News(f, e)
         /\ Here(f)' = Here(f)
<1> QED
  BY DEF SameOf, News, Here, Spot

LEMMA AwaitsKept ==
  ASSUME NEW f, SameOf(f), NEW w, w \in Writing(f), Awaits(w, f), BatchKeptFor(f), RegKept(f),
         Told(f)' => Told(f)
  PROVE  Awaits(w, f)'
<1>1. WriteKey(w) = f \/ Claims(f, WriteKey(w))
  BY DEF WriteKey, Claims, Tracks, Writing
<1>2. /\ WriteKey(w) \in DOMAIN expected' => WriteKey(w) \in DOMAIN expected
      /\ WriteKey(w) \in DOMAIN old' => WriteKey(w) \in DOMAIN old
      /\ Expects(expected, WriteKey(w), w.op) => Expects(expected', WriteKey(w), w.op)
      /\ Entries(f) # {} => working' = working /\ (Expects(old, WriteKey(w), w.op) => Expects(old', WriteKey(w), w.op))
  BY <1>1 DEF RegKept
<1>3. Entries(f)' = Entries(f) /\ Gone(f)' \subseteq Gone(f)
  BY DEF BatchKeptFor
<1>4. Loc(item[f], f)' = Loc(item[f], f)
  BY DEF SameOf, Loc, Spot
<1>5. /\ ~Arrived(w) => ~Told(f)' /\ Entries(f)' = {} /\ Gone(f)' = {}
      /\ Arrived(w) => \A e \in Gone(f)' : w.op \in {"Move", "Delete"} /\ e.path # Loc(item[f], f)'
  BY <1>3, <1>4 DEF Awaits
<1>6. w.op \in {"New", "Update"} =>
        /\ w.stage = "queued" => WriteKey(w) \notin DOMAIN expected' /\ WriteKey(w) \notin DOMAIN old'
        /\ w.stage = "sent" => Expects(expected', WriteKey(w), w.op)
        /\ Arrived(w) /\ Told(f)' => Expects(expected', WriteKey(w), w.op)
        /\ Arrived(w) /\ Entries(f)' # {} => Expects(IF working' THEN old' ELSE expected', WriteKey(w), w.op)
  BY <1>2, <1>3 DEF Awaits
<1> QED
  BY <1>5, <1>6 DEF Awaits, WriteKey, Arrived, Expects

LEMMA PhaseKept ==
  ASSUME NEW f, SameOf(f), BatchKeptFor(f), RegKept(f), FoldersKept, Phase(f),
         Told(f)' => Told(f), UserRec(f, token) => UserRec(f, token)'
  PROVE  Phase(f)'
<1>1. CASE \E c : Changing(f, c)
  <2>1. PICK c : Changing(f, c)
    BY <1>1
  <2>2. /\ (Waiting(f) \cup Fresh(f))' = {c} /\ Writing(f)' = {} /\ Entries(f)' = {} /\ Gone(f)' = {} /\ ~Told(f)'
        /\ c \in Fresh(f)' => c \in Fresh(f)
    BY <2>1 DEF Changing, SameOf, BatchKeptFor
  <2>3. Right(c, f)'
    BY <2>1, RightKept DEF Changing
  <2>4. c \in Fresh(f)' /\ c.type = "Update" => \A r \in Rows(f)' : r.link.time < item[f]'.time
    BY <2>1, <2>2 DEF Changing, SameOf
  <2>5. Changing(f, c)'
    BY <2>2, <2>3, <2>4 DEF Changing
  <2> QED
    BY <2>5 DEF Phase
<1>2. CASE \E w : Sending(f, w)
  <2>1. PICK w : Sending(f, w)
    BY <1>2
  <2>2. Writing(f)' = {w} /\ Waiting(f)' = {} /\ Fresh(f)' = {}
    BY <2>1 DEF Sending, SameOf
  <2>3. WriteRight(w, f)'
    BY <2>1, RightKept DEF Sending
  <2>4. Awaits(w, f)'
    BY <2>1, AwaitsKept DEF Sending
  <2>5. Sending(f, w)'
    BY <2>2, <2>3, <2>4 DEF Sending
  <2> QED
    BY <2>5 DEF Phase
<1>3. CASE Resting(f)
  <2>1. Waiting(f)' = {} /\ Fresh(f)' = {} /\ Writing(f)' = {}
    BY <1>3 DEF Resting, SameOf
  <2>2. Sound(f)' /\ (Agreed(f)' \/ Behind(f))
    BY <1>3, RightKept DEF Resting
  <2>3. ASSUME Behind(f) PROVE Behind(f)'
    <3>1. Silent(f)'
      BY <2>3, ClaimsKept DEF Behind, Silent, RegKept
    <3>2. ASSUME NEW e \in Entries(f) \cup Gone(f), News(f, e)
          PROVE  e \in (Entries(f) \cup Gone(f))' /\ News(f, e)'
      BY <3>2, NewsKept DEF BatchKeptFor
    <3> QED
      BY <2>3, <3>1, <3>2 DEF Behind
  <2>4. Resting(f)'
    BY <2>1, <2>2, <2>3 DEF Resting
  <2> QED
    BY <2>4 DEF Phase
<1> QED
  BY <1>1, <1>2, <1>3 DEF Phase

LEMMA NoticesKept ==
  ASSUME NEW f, SameOf(f), BatchKeptFor(f), Notices(f), LastSay(f)',
         Told(f)' => Told(f), UserRec(f, 0) => UserRec(f, 0)'
  PROVE  Notices(f)'
<1>1. item'[f] = item[f] /\ Rows(f)' = Rows(f) /\ Writing(f)' = Writing(f) /\ (Agreed(f)' <=> Agreed(f))
  BY RightKept DEF SameOf
<1>2. Entries(f)' = Entries(f) /\ Gone(f)' \subseteq Gone(f)
  BY DEF BatchKeptFor
<1> QED
  BY <1>1, <1>2 DEF Notices, Current

LEMMA AloneKept ==
  ASSUME TypeInv, World, NEW f \in File, SameOf(f), Alone(f),
         \A id \in File : \A p : id # f /\ Claims(f, p) /\ Touches(id, p)' => Touches(id, p),
         \A p \in stuck' : p \in stuck \/ ~Claims(f, p),
         \A g \in Loose(db') : \/ g \in Loose(db) /\ PathOfRow(db', g) = PathOfRow(db, g)
                               \/ ~Claims(f, PathOfRow(db', g)),
         \A w \in writes' : \/ \E v \in writes : v.gid = w.gid /\ v.id = w.id
                            \/ \A r \in Rows(f) : r.gid # w.gid
  PROVE  Alone(f)'
<1>1. /\ item'[f] = item[f] /\ Rows(f)' = Rows(f) /\ Writing(f)' = Writing(f)
      /\ \A p : Claims(f, p)' <=> Claims(f, p)
  BY ClaimsKept DEF SameOf
<1>2. item[f]'.dir \in Folder => item[f]'.dir \in HomeFolder'
  BY <1>1 DEF Alone, World, Grows
<1>3. \A id \in File : \A p : id # f /\ Claims(f, p)' => ~Touches(id, p)'
  BY <1>1 DEF Alone
<1>4. \A p \in stuck' : ~Claims(f, p)'
  BY <1>1 DEF Alone
<1>5. \A g \in Loose(db)' : Claims(f, PathOfRow(db, g))' => \E w \in Writing(f)' : w.gid = g
  BY <1>1 DEF Alone
<1>6. \A w \in writes' : \A r \in Rows(f)' : r.gid = w.gid => w.id = f
  BY <1>1 DEF Alone
<1> QED
  BY <1>2, <1>3, <1>4, <1>5, <1>6 DEF Alone

(* A step of the commands and the writes, as the other files see it. *)
Aside == UNCHANGED <<kind, item, feed, token, batch, working, old, pathMap, out, doomed>>

LEMMA WorkFrame ==
  ASSUME TypeInv, NEW f \in File, Aside, FoldersKept, Rows(f)' = Rows(f), Waiting(f)' = Waiting(f), Writing(f)' = Writing(f),
         Tied(f)' <=> Tied(f), Once(changes, f) => Once(changes', f), Story(f), Alone(f)',
         \A k : k = f \/ Claims(f, k) =>
           /\ k \in DOMAIN expected' => k \in DOMAIN expected
           /\ \A t : Expects(expected, k, t) => Expects(expected', k, t)
  PROVE  Story(f)'
<1>1. Fresh(f)' = Fresh(f) /\ Entries(f)' = Entries(f)
  BY DEF Aside, Fresh, Entries
<1>2. SameOf(f)
  BY <1>1 DEF Aside, SameOf
<1>3. \A p : Claims(f, p)' <=> Claims(f, p)
  BY <1>2, ClaimsKept
<1>4. Gone(f)' = Gone(f)
  BY <1>3 DEF Aside, Gone
<1>5. (Told(f)' <=> Told(f)) /\ (LastSay(f)' <=> LastSay(f)) /\ Here(f)' = Here(f)
  BY <1>3 DEF Aside, Told, LastSay, Here, Spot, Born
<1>7. (UserRec(f, token)' <=> UserRec(f, token)) /\ (UserRec(f, 0)' <=> UserRec(f, 0))
  BY DEF Aside, UserRec, Here, Spot
<1>8. BatchKeptFor(f) /\ RegKept(f)
  BY <1>1, <1>4 DEF BatchKeptFor, RegKept, Aside
<1>9. Phase(f)'
  BY <1>2, <1>5, <1>7, <1>8, PhaseKept DEF Story
<1>10. Notices(f)'
  BY <1>2, <1>5, <1>7, <1>8, NoticesKept DEF Story, Notices
<1>11. OneChange(f)'
  BY <1>1 DEF Story, OneChange, Once, Aside
<1>12. FolderFirst(f)'
  <2>1. Agreed(f)' <=> Agreed(f)
    BY <1>2, RightKept
  <2> SUFFICES ASSUME (kind = "google" /\ item[f].dir \in Folder /\ LinkedTo(db, Cloud, item[f].dir) = {})'
               PROVE  FolderFirst(f)'
    BY DEF FolderFirst
  <2>2. kind = "google" /\ item[f].dir \in Folder /\ LinkedTo(db, Cloud, item[f].dir) = {}
    BY DEF FoldersKept, Aside
  <2>3. FolderFirst(f)
    BY DEF Story
  <2> QED
    BY <1>1, <2>1, <2>2, <2>3 DEF FolderFirst, Aside
<1> QED
  BY <1>9, <1>10, <1>11, <1>12 DEF Story

(* The changes after one has been carried out, or given up. *)
LEMMA ChangesAre ==
  ASSUME IsSeq(changes), NEW k \in DOMAIN changes, NEW then, then = <<>> \/ \E u : then = <<u>> /\ u.id = changes[k].id,
         changes' = then \o RemoveAt(changes, k)
  PROVE  /\ \A f : f # changes[k].id =>
              Waiting(f)' = Waiting(f) /\ (Once(changes, f) => Once(changes', f))
         /\ \A f : f = changes[k].id /\ Once(changes, f) => Waiting(f)' = Range(then) /\ Once(changes', f)
         /\ Range(changes') \subseteq Range(changes) \cup Range(then)
         /\ \A c \in Range(changes) : c = changes[k] \/ c \in Range(changes')
<1> DEFINE rest == RemoveAt(changes, k)
           n == Len(then)
<1>1. /\ IsSeq(rest) /\ Range(rest) \subseteq Range(changes)
      /\ \A i \in DOMAIN rest :
           \/ i < k /\ i \in DOMAIN changes /\ rest[i] = changes[i]
           \/ i >= k /\ i + 1 \in DOMAIN changes /\ rest[i] = changes[i + 1]
      /\ \A i \in DOMAIN changes :
           \/ i < k /\ i \in DOMAIN rest /\ rest[i] = changes[i]
           \/ i = k
           \/ i > k /\ i - 1 \in DOMAIN rest /\ rest[i - 1] = changes[i]
  BY Removed
<1>2. /\ IsSeq(then) /\ n \in 0..1 /\ DOMAIN then = 1..n
      /\ \A u \in Range(then) : u.id = changes[k].id
  <2>1. CASE then = <<>>
    BY <2>1, NothingSeq, SeqFacts
  <2>2. CASE \E u : then = <<u>> /\ u.id = changes[k].id
    BY <2>2, SingleSeq
  <2> QED
    BY <2>1, <2>2
<1> HIDE DEF rest, n
<1>3. /\ IsSeq(then \o rest) /\ Range(then \o rest) = Range(then) \cup Range(rest)
      /\ \A i \in DOMAIN (then \o rest) :
           \/ i \in DOMAIN then /\ (then \o rest)[i] = then[i]
           \/ i > Len(then) /\ i - Len(then) \in DOMAIN rest /\ (then \o rest)[i] = rest[i - Len(then)]
  BY <1>1, <1>2, Joined, SMTT(30)
<1>4. changes' = then \o rest
  BY DEF rest
<1>5. /\ IsSeq(changes') /\ Range(changes') = Range(then) \cup Range(rest)
      /\ \A i \in DOMAIN changes' :
           \/ i \in DOMAIN then /\ changes'[i] = then[i]
           \/ i > n /\ i - n \in DOMAIN rest /\ changes'[i] = rest[i - n]
  BY <1>3, <1>4 DEF n
<1>6. DOMAIN rest \subseteq Nat /\ DOMAIN changes \subseteq Nat /\ DOMAIN changes' \subseteq Nat
  BY <1>1, <1>5, SeqFacts
<1>7. \A c \in Range(changes) : c = changes[k] \/ c \in Range(rest)
  BY <1>1 DEF Range
<1>8. ASSUME NEW f, f # changes[k].id PROVE Waiting(f)' = Waiting(f) /\ (Once(changes, f) => Once(changes', f))
  <2>1. Waiting(f)' = Waiting(f)
    BY <1>1, <1>2, <1>5, <1>7, <1>8 DEF Waiting
  <2>2. ASSUME Once(changes, f), NEW i \in DOMAIN changes', NEW j \in DOMAIN changes', changes'[i].id = f, changes'[j].id = f
        PROVE  i = j
    <3>1. i - n \in DOMAIN rest /\ j - n \in DOMAIN rest /\ rest[i - n].id = f /\ rest[j - n].id = f
      BY <1>2, <1>5, <1>8, <2>2 DEF Range
    <3>2. PICK x : x \in DOMAIN changes /\ rest[i - n] = changes[x] /\ (IF i - n < k THEN x = i - n ELSE x = i - n + 1)
      BY <1>1, <3>1, <1>6
    <3>3. PICK y : y \in DOMAIN changes /\ rest[j - n] = changes[y] /\ (IF j - n < k THEN y = j - n ELSE y = j - n + 1)
      BY <1>1, <3>1, <1>6
    <3>4. x = y
      BY <2>2, <3>1, <3>2, <3>3 DEF Once
    <3> QED
      BY <1>2, <1>6, <3>1, <3>2, <3>3, <3>4, SMTT(30)
  <2> QED
    BY <2>1, <2>2 DEF Once
<1>9. ASSUME NEW f, f = changes[k].id, Once(changes, f) PROVE Waiting(f)' = Range(then) /\ Once(changes', f)
  <2>1. ASSUME NEW i \in DOMAIN rest PROVE rest[i].id # f
    <3>1. PICK x : x \in DOMAIN changes /\ rest[i] = changes[x] /\ (IF i < k THEN x = i ELSE x = i + 1)
      BY <1>1, <1>6
    <3>2. x # k
      BY <3>1, <1>6
    <3> QED
      BY <1>9, <3>1, <3>2 DEF Once
  <2>2. Waiting(f)' = Range(then)
    BY <1>2, <1>5, <1>9, <2>1 DEF Waiting, Range
  <2>3. \A i \in DOMAIN changes' : changes'[i].id = f => i \in 1..n
    BY <1>2, <1>5, <2>1
  <2> QED
    BY <1>2, <2>2, <2>3 DEF Once
<1> QED
  BY <1>1, <1>5, <1>7, <1>8, <1>9

LEMMA AloneLess ==
  ASSUME NEW f \in File, Alone(f), item[f]'.dir \in Folder => item[f]'.dir \in HomeFolder',
         \A p : Claims(f, p)' => Claims(f, p),
         \A id \in File : \A p : id # f /\ Claims(f, p) /\ Touches(id, p)' => Touches(id, p),
         stuck' \subseteq stuck,
         \A g \in Loose(db') : g \in Loose(db) /\ PathOfRow(db', g) = PathOfRow(db, g),
         \A w \in Writing(f) : w.gid \in Loose(db') => \E v \in Writing(f)' : v.gid = w.gid,
         \A w \in writes', r \in Rows(f)' : r.gid = w.gid => w.id = f
  PROVE  Alone(f)'
<1>1. \A id \in File : \A p : id # f /\ Claims(f, p)' => ~Touches(id, p)'
  BY DEF Alone
<1>2. \A p \in stuck' : ~Claims(f, p)'
  BY DEF Alone
<1>3. \A g \in Loose(db)' : Claims(f, PathOfRow(db, g))' => \E w \in Writing(f)' : w.gid = g
  BY DEF Alone
<1> QED
  BY <1>1, <1>2, <1>3 DEF Alone

LEMMA TouchesAside ==
  ASSUME Aside, NEW id
  PROVE  /\ \A p : Touches(id, p)' => Tracks(id, p)' \/ Touches(id, p)
         /\ \A p : Tracks(id, p) => Touches(id, p)
<1>1. Apparent(item[id], id)' = Apparent(item[id], id) /\ Entries(id)' = Entries(id)
  BY DEF Aside, Apparent, PathIn, Entries
<1> QED
  BY <1>1 DEF Touches

(* A file with which everything is right again. *)
LEMMA Settled ==
  ASSUME Aside, NEW f \in File, Story(f), Alone(f)', Waiting(f)' = {}, Fresh(f)' = {}, Writing(f)' = {},
         Agreed(f)', Sound(f)', \A p : Claims(f, p)' => Claims(f, p),
         \A e \in Gone(f)' : \A r \in Rows(f)' : r.path # e.path,
         kind = "google" /\ item[f].dir \in Folder => LinkedTo(db', Cloud, item[f].dir) # {}
  PROVE  Story(f)'
<1>1. Entries(f)' = Entries(f) /\ Gone(f)' \subseteq Gone(f) /\ (Told(f)' => Told(f)) /\ (LastSay(f) => LastSay(f)')
  BY DEF Aside, Entries, Gone, Told, LastSay, Here, Spot, Born
<1>2. OneChange(f)'
  BY DEF OneChange, Once, Waiting, Fresh, Range
<1>3. Phase(f)'
  BY DEF Phase, Resting
<1>4. Notices(f)'
  <2>1. \A e \in Entries(f)' : Current(item[f], e)' /\ ~Told(f)'
    BY <1>1 DEF Story, Notices, Aside, Current
  <2> QED
    BY <1>1, <2>1 DEF Notices, Story
<1>5. FolderFirst(f)'
  BY DEF FolderFirst, Aside
<1> QED
  BY <1>2, <1>3, <1>4, <1>5 DEF Story

LEMMA SufferedClean ==
  ASSUME fate \in [Id -> SUBSET Fates], NEW f \in File, NEW ids, NEW what, what # "same second",
         Suffers(ids, what), Clean(f)'
  PROVE  f \notin ids /\ Clean(f) /\ (Tied(f)' <=> Tied(f))
<1>1. f \in Id /\ fate'[f] = IF f \in ids THEN fate[f] \cup {what} ELSE fate[f]
  BY DEF Suffers, Id
<1>2. fate'[f] \subseteq {"same second"}
  BY DEF Clean
<1> QED
  BY <1>1, <1>2 DEF Clean, Tied

LEMMA SameFate ==
  ASSUME fate' = fate, NEW f, Clean(f)' PROVE Clean(f) /\ (Tied(f)' <=> Tied(f))
<1> QED
  BY DEF Clean, Tied

(* The rest of the invariant under such a step. *)
LEMMA AsideKept ==
  ASSUME Inv, TypeInv', Aside, FoldersKept,
         \A c \in InProgress : c.id \in Folder => c \in InProgress' \/ LinkedTo(db', Cloud, c.id) # {},
         \A c \in InProgress' : \E d \in InProgress : d.id = c.id,
         \A id \in File : Rows(id)' # {} => Rows(id) # {} \/ Born(id),
         \A w \in writes' : IF w.op = "New" /\ w.stage # "arrived"
                            THEN ~Born(w.id) /\ \A v \in writes' : v.id = w.id => v = w
                            ELSE Born(w.id)
  PROVE  Births' /\ OnePath' /\ FolderStory'
<1>1. \A id : Born(id)' <=> Born(id)
  BY DEF Aside, Born
<1>2. \A c \in InProgress' : Born(c.id)
  BY DEF Inv, Births
<1>3. ASSUME NEW g \in DOMAIN db'.files, LinkedIn(db', g) PROVE Born(LinkIn(db', g).id)
  <2>0. PICK id : id = LinkIn(db', g).id
    OBVIOUS
  <2> SUFFICES Born(id)
    BY <2>0
  <2>1. RowOK(db', g, HomeFolder') /\ Tables(db') /\ Tables(db)
    BY DEF TypeInv, DbTyped, DbOK, Inv
  <2>2. id \in Id /\ (id \in Folder => id \in HomeFolder')
    BY <1>3, <2>0, <2>1 DEF RowOK, LinkSet
  <2>3. CASE id \in Folder
    <3>1. HomeFolder' = HomeFolder /\ CloudTyped
      BY SameWorld DEF Aside, Inv, TypeInv
    <3>2. item[id].live /\ ItemOK(item[id], id, LiveFolder, kind) /\ id \in Id
      BY <2>2, <2>3, <3>1 DEF HomeFolder, LiveFolder, CloudTyped
    <3>3. item[id].time > 0
      BY <3>2 DEF ItemOK
    <3> QED
      BY <3>3 DEF Born
  <2>4. CASE id \in File
    <3>1. RowsIn(db', id) # {}
      BY <1>3, <2>0, <2>1, RowsAre
    <3>2. Rows(id) # {} => Born(id)
      BY <2>1, RowsAre DEF Rows, Inv, Births
    <3> QED
      BY <2>4, <3>1, <3>2 DEF Rows
  <2> QED
    BY <2>0, <2>2, <2>3, <2>4 DEF Id
<1>4. Births'
  BY <1>1, <1>2, <1>3 DEF Births, Inv, Aside, Born, Unborn
<1>5. OnePath'
  BY DEF OnePath, Inv, Aside
<1>6. FolderStory'
  <2>1. HomeFolder' = HomeFolder /\ HomeFolder \subseteq Folder
    BY SameWorld, HomesAreLive DEF Aside
  <2> SUFFICES ASSUME NEW d \in HomeFolder, LinkedTo(db', Cloud, d) = {}
               PROVE  \E n \in DOMAIN feed' :
                        /\ feed'[n].id = d
                        /\ n > token' \/ (\E i \in DOMAIN batch' : batch'[i].id = d) \/ \E c \in InProgress' : c.id = d
    BY <2>1 DEF FolderStory
  <2>2. d \in Folder /\ LinkedTo(db, Cloud, d) = {}
    BY <2>1 DEF FoldersKept
  <2>3. \E n \in DOMAIN feed :
          /\ feed[n].id = d
          /\ n > token \/ (\E i \in DOMAIN batch : batch[i].id = d) \/ \E c \in InProgress : c.id = d
    BY <2>2 DEF Inv, FolderStory
  <2>4. (\E c \in InProgress : c.id = d) => \E c \in InProgress' : c.id = d
    BY <2>2
  <2> QED
    BY <2>3, <2>4 DEF Aside
<1> QED
  BY <1>4, <1>5, <1>6

(* Commands of a change, as the other files see them. *)
LEMMA CarriedIs ==
  ASSUME TypeInv, NEW k \in DOMAIN changes, NEW result, Carried(k, result)
  PROVE  /\ Aside /\ db' = result /\ changes' = changes[k].then \o RemoveAt(changes, k)
         /\ UNCHANGED <<expected, writes, stuck, status, fate>>
         /\ IsSeq(changes) /\ changes[k] \in InProgress /\ ChangeOK(changes[k], db, HomeFolder)
         /\ \/ changes[k].then = <<>>
            \/ \E u : /\ changes[k].then = <<u>> /\ u.id = changes[k].id /\ DependentOK(u, changes[k])
                      /\ changes[k].type = "Move"
<1>1. /\ db' = result /\ changes' = changes[k].then \o RemoveAt(changes, k)
      /\ UNCHANGED <<expected, writes, stuck, status, fate>> /\ Aside
  BY DEF Carried, cloudVars, batchVars, Aside
<1>2. IsSeq(changes) /\ changes[k] \in InProgress /\ ChangeOK(changes[k], db, HomeFolder)
  BY DEF TypeInv, ChangesTyped, InProgress, Range
<1> QED
  BY <1>1, <1>2 DEF ChangeOK, DependentOK

LEMMA CarriedTracks ==
  ASSUME TypeInv, NEW k \in DOMAIN changes, NEW result, Carried(k, result),
         \A id \in File : id # changes[k].id => RowsIn(result, id) = RowsIn(db, id),
         \A r \in RowsIn(result, changes[k].id) :
           \/ \E s \in RowsIn(db, changes[k].id) : s.path = r.path
           \/ r.path \in {changes[k].path, changes[k].to},
         NEW id \in File, NEW p, Tracks(id, p)'
  PROVE  Tracks(id, p)
<1> DEFINE c == changes[k]
           then == c.then
<1>1. /\ Aside /\ db' = result /\ changes' = then \o RemoveAt(changes, k) /\ writes' = writes
      /\ IsSeq(changes) /\ c \in Range(changes)
      /\ then = <<>> \/ \E u : then = <<u>> /\ u.id = c.id /\ DependentOK(u, c)
  BY CarriedIs DEF Range
<1> HIDE DEF then
<1>2. Range(changes') \subseteq Range(changes) \cup Range(then)
  BY <1>1, ChangesAre
<1>3. \A u \in Range(then) : u.id = c.id /\ u.path = c.to /\ u.to = c.to
  BY <1>1, NothingSeq, SingleSeq DEF DependentOK
<1>4. \A x \in Waiting(id)' : x \in Waiting(id) \/ (id = c.id /\ x.path = c.to /\ x.to = c.to)
  BY <1>2, <1>3 DEF Waiting
<1>5. Fresh(id)' = Fresh(id) /\ Writing(id)' = Writing(id)
  BY <1>1 DEF Aside, Fresh, Writing
<1>6. \A r \in Rows(id)' : (\E s \in Rows(id) : s.path = r.path) \/ (id = c.id /\ r.path \in {c.path, c.to})
  BY <1>1 DEF Rows
<1>7. id = c.id => c \in Waiting(id)
  BY <1>1 DEF Waiting
<1> HIDE DEF c
<1>8. CASE \E r \in Rows(id)' : r.path = p
  BY <1>6, <1>7, <1>8 DEF Tracks
<1>9. CASE \E x \in (Waiting(id) \cup Fresh(id) \cup Writing(id))' : p \in {x.path, x.to}
  BY <1>4, <1>5, <1>7, <1>9 DEF Tracks
<1> QED
  BY <1>8, <1>9 DEF Tracks

LEMMA CarriedKept ==
  ASSUME Inv, TypeInv', NEW k \in DOMAIN changes, NEW result, Carried(k, result), FoldersKept,
         \A g \in Loose(result) : g \in Loose(db) /\ PathOfRow(result, g) = PathOfRow(db, g),
         \A id \in File : id # changes[k].id => RowsIn(result, id) = RowsIn(db, id),
         \A r \in RowsIn(result, changes[k].id) :
           \/ \E s \in RowsIn(db, changes[k].id) : s.path = r.path
           \/ r.path \in {changes[k].path, changes[k].to},
         changes[k].id \in Folder => LinkedTo(result, Cloud, changes[k].id) # {},
         \A f \in File : f = changes[k].id /\ Clean(f) => Story(f)'
  PROVE  Inv'
<1> DEFINE c == changes[k]
           then == c.then
<1>1. /\ Aside /\ db' = result /\ changes' = then \o RemoveAt(changes, k)
      /\ UNCHANGED <<expected, writes, stuck, status, fate>> /\ TypeInv
      /\ IsSeq(changes) /\ c \in InProgress
      /\ then = <<>> \/ \E u : then = <<u>> /\ u.id = c.id
  BY CarriedIs DEF Inv
<1> HIDE DEF then
<1>2. /\ \A f : f # c.id => Waiting(f)' = Waiting(f) /\ (Once(changes, f) => Once(changes', f))
      /\ Range(changes') \subseteq Range(changes) \cup Range(then)
      /\ \A x \in Range(changes) : x = c \/ x \in Range(changes')
  BY <1>1, ChangesAre
<1>3. \A u \in Range(then) : u.id = c.id
  BY <1>1, NothingSeq, SingleSeq
<1> HIDE DEF c
<1>4. Births' /\ OnePath' /\ FolderStory'
  <2>1. \A x \in InProgress : x.id \in Folder => x \in InProgress' \/ LinkedTo(db', Cloud, x.id) # {}
    BY <1>1, <1>2 DEF InProgress, Aside, c
  <2>2. \A x \in InProgress' : \E y \in InProgress : y.id = x.id
    BY <1>1, <1>2, <1>3 DEF InProgress, Aside
  <2>3. \A id \in File : Rows(id)' # {} => Rows(id) # {} \/ Born(id)
    BY <1>1 DEF Rows, Inv, Births, c
  <2>4. \A w \in writes' : IF w.op = "New" /\ w.stage # "arrived"
                           THEN ~Born(w.id) /\ \A v \in writes' : v.id = w.id => v = w
                           ELSE Born(w.id)
    BY <1>1 DEF Inv, Births
  <2> QED
    BY <1>1, <2>1, <2>2, <2>3, <2>4, AsideKept
<1>5. ASSUME NEW f \in File, Clean(f)', f # c.id PROVE Story(f)'
  <2>1. Clean(f) /\ (Tied(f)' <=> Tied(f))
    BY <1>1, <1>5, SameFate
  <2>2. Story(f)
    BY <2>1 DEF Inv, Stories
  <2>3. Rows(f)' = Rows(f) /\ Writing(f)' = Writing(f) /\ Waiting(f)' = Waiting(f) /\ (Once(changes, f) => Once(changes', f))
    BY <1>1, <1>2, <1>5 DEF Rows, Writing, c
  <2>4. SameOf(f)
    BY <1>1, <2>1, <2>3 DEF SameOf, Aside, Fresh
  <2>5. ASSUME NEW id \in File, NEW p, Touches(id, p)' PROVE Touches(id, p)
    <3>1. Tracks(id, p)' => Tracks(id, p)
      BY <1>1, CarriedTracks
    <3> QED
      BY <1>1, <2>5, <3>1, TouchesAside
  <2>6. World
    BY <1>1, SameWorld DEF Aside
  <2>7. Alone(f)'
    BY <1>1, <2>2, <2>4, <2>5, <2>6, AloneKept DEF Story
  <2>8. \A key : key = f \/ Claims(f, key) =>
          /\ key \in DOMAIN expected' => key \in DOMAIN expected
          /\ \A t : Expects(expected, key, t) => Expects(expected', key, t)
    BY <1>1
  <2>9. /\ TypeInv /\ f \in File /\ Aside /\ FoldersKept /\ Rows(f)' = Rows(f) /\ Waiting(f)' = Waiting(f)
        /\ Writing(f)' = Writing(f) /\ (Tied(f)' <=> Tied(f)) /\ (Once(changes, f) => Once(changes', f)) /\ Story(f)
    BY <1>1, <1>5, <2>1, <2>2, <2>3
  <2> QED
    BY <2>7, <2>8, <2>9, WorkFrame
<1>6. Stories'
  <2> SUFFICES ASSUME NEW f \in File, Clean(f)' PROVE Story(f)'
    BY DEF Stories
  <2>1. Clean(f)
    BY <1>1, SameFate
  <2> QED
    BY <1>5, <2>1 DEF c
<1>7. ThrownOver'
  BY <1>1, SameFate DEF ThrownOver, Inv
<1> QED
  BY <1>4, <1>6, <1>7 DEF Inv

(* A change of a file of which all is known. *)
LEMMA ChangingIs ==
  ASSUME Inv, NEW k \in DOMAIN changes, changes[k].id \in File, Clean(changes[k].id)
  PROVE  /\ Story(changes[k].id) /\ Changing(changes[k].id, changes[k]) /\ Waiting(changes[k].id) = {changes[k]}
         /\ Fresh(changes[k].id) = {} /\ Once(changes, changes[k].id)
<1> DEFINE c == changes[k]
           f == c.id
<1>1. c \in Waiting(f)
  BY DEF Waiting, Range, Inv, TypeInv
<1>2. Story(f)
  BY DEF Inv, Stories
<1>3. Fresh(f) = {} /\ Once(changes, f)
  BY <1>1, <1>2 DEF Story, OneChange
<1>4. PICK d : Changing(f, d)
  BY <1>1, <1>2 DEF Story, Phase, Sending, Resting
<1>5. d = c /\ Waiting(f) = {c}
  BY <1>1, <1>3, <1>4 DEF Changing
<1> QED
  BY <1>2, <1>3, <1>4, <1>5

(* After the last command of a change: the file's one row, or none. *)
LEMMA CarriedSettles ==
  ASSUME Inv, NEW k \in DOMAIN changes, NEW result, Carried(k, result), NEW f \in File, f = changes[k].id, Clean(f),
         changes[k].then = <<>>,
         \A g \in Loose(result) : g \in Loose(db) /\ PathOfRow(result, g) = PathOfRow(db, g),
         \A id \in File : id # f => RowsIn(result, id) = RowsIn(db, id),
         \A r \in RowsIn(result, f) : /\ r.path \in {changes[k].path, changes[k].to}
                                      /\ (\E s \in RowsIn(db, f) : s.gid = r.gid) \/ (\A w \in writes : w.gid # r.gid),
         IF Loc(item[f], f) = NoPath THEN RowsIn(result, f) = {}
         ELSE \E r : RowsIn(result, f) = {r} /\ AgreedRow(r, item[f], f, Tied(f)) /\ SoundRow(r, item[f], f, Tied(f)),
         kind = "google" /\ item[f].dir \in Folder => LinkedTo(result, Cloud, item[f].dir) # {}
  PROVE  Story(f)'
<1> DEFINE c == changes[k]
<1>1. /\ Aside /\ db' = result /\ changes' = <<>> \o RemoveAt(changes, k)
      /\ UNCHANGED <<expected, writes, stuck, status, fate>> /\ TypeInv /\ IsSeq(changes) /\ f \in Id
  BY CarriedIs DEF Inv, Id
<1>2. Story(f) /\ Changing(f, c) /\ Waiting(f) = {c} /\ Fresh(f) = {} /\ Once(changes, f)
  BY ChangingIs
<1>3. Waiting(f)' = {} /\ Fresh(f)' = {} /\ Writing(f)' = {} /\ Writing(f) = {}
  <2>1. Waiting(f)' = Range(<<>>)
    BY <1>1, <1>2, ChangesAre
  <2> QED
    BY <1>1, <1>2, <2>1, NothingSeq DEF Changing, Writing, Fresh, Aside
<1>4. Rows(f)' = RowsIn(result, f) /\ (Tied(f)' <=> Tied(f)) /\ Loc(item[f], f)' = Loc(item[f], f)
  BY <1>1 DEF Rows, Tied, Loc, Spot, Aside
<1>5. Agreed(f)' /\ Sound(f)'
  BY <1>1, <1>4 DEF Agreed, Sound, AgreedRow, SoundRow, UpToDate, Loc, Spot, Aside
<1>6. \A p : Tracks(f, p)' => Tracks(f, p)
  BY <1>2, <1>3, <1>4 DEF Tracks
<1>7. \A p : Claims(f, p)' => Claims(f, p)
  BY <1>4, <1>6 DEF Claims
<1>8. \A id \in File : \A p : Touches(id, p)' => Touches(id, p)
  <2> TAKE id \in File
  <2> TAKE p
  <2>1. Tracks(id, p)' => Tracks(id, p)
    BY <1>1, CarriedTracks
  <2> QED
    BY <1>1, <2>1, TouchesAside
<1>9. \A w \in writes', r \in Rows(f)' : r.gid = w.gid => w.id = f
  BY <1>1, <1>2, <1>4 DEF Story, Alone, Rows
<1>10. item[f]'.dir \in Folder => item[f]'.dir \in HomeFolder'
  BY <1>1, <1>2, SameWorld DEF Aside, Story, Alone
<1>11. Alone(f)'
  BY <1>1, <1>2, <1>3, <1>7, <1>8, <1>9, <1>10, AloneLess DEF Story
<1>12. Gone(f)' = {}
  BY <1>1, <1>2, <1>7 DEF Gone, Changing, Aside
<1> QED
  BY <1>1, <1>2, <1>3, <1>5, <1>7, <1>11, <1>12, Settled

(* The new row of a file is the only change, but for a folder's. *)
LEMMA NewFileMore ==
  ASSUME TypeInv, NEW id \in File, NEW p \in Spots(id, HomeFolder), NEW c, c.path = p,
         NEW stat \in LinkSet, stat.id = id,
         NEW e, e = WithLink(NewRow(db, c), NewRow(db, c).lastId, Cloud, stat)
  PROVE  /\ \A g \in Loose(e) : g \in Loose(db) /\ PathOfRow(e, g) = PathOfRow(db, g)
         /\ \A d \in Folder : LinkedTo(db, Cloud, d) # {} => LinkedTo(e, Cloud, d) # {}
         /\ \A d \in HomeFolder : p = Spot(d, id) => LinkedTo(e, Cloud, d) # {}
<1> DEFINE b == WithParents(db, p)
           row == NewRow(db, c)
           n == row.lastId
<1>1. /\ DbOK(b, HomeFolder) /\ Loose(b) = Loose(db) /\ p \in Paths
      /\ \A g \in Loose(b) : PathOfRow(b, g) = PathOfRow(db, g)
      /\ \A d \in Folder : LinkedTo(db, Cloud, d) # {} => RowsIn(b, d) = RowsIn(db, d)
  BY ParentsMade
<1>2. \A d \in HomeFolder : p = Spot(d, id) => LinkedTo(b, Cloud, d) # {}
  <2> SUFFICES ASSUME NEW d \in HomeFolder, p = Spot(d, id) PROVE LinkedTo(b, Cloud, d) # {}
    OBVIOUS
  <2>1. d \in Folder /\ d # Home /\ id \in Id /\ HomeFolder \in SUBSET Folder
    BY HomesAreLive, Names DEF Id
  <2>2. FolderAt(p) = {d}
    BY <2>1, SpotKinds
  <2>3. b = WithFolder(db, d)
    BY <2>2 DEF WithParents
  <2> QED
    BY <2>1, <2>3, FolderMade DEF TypeInv, DbTyped
<1>3. row = WithFile(b, p, None) /\ e = WithLink(row, n, Cloud, stat)
  BY DEF NewRow
<1>4. Tables(b) /\ Tables(db)
  BY <1>1 DEF TypeInv, DbTyped, DbOK
<1> HIDE DEF b, row
<1>5. /\ Tables(row) /\ n = NewId(b) /\ n \notin DOMAIN b.files /\ n \in DOMAIN row.files
      /\ ~LinkedIn(row, n) /\ Others(b, row, n)
  BY <1>1, <1>3, <1>4, RowAdded
<1> HIDE DEF n
<1>6. Tables(e) /\ LinkedIn(e, n) /\ LinkIn(e, n) = stat /\ Others(row, e, n)
  BY <1>3, <1>5, LinkAdded
<1>7. \A g \in Loose(e) : g \in Loose(db) /\ PathOfRow(e, g) = PathOfRow(db, g)
  <2> SUFFICES ASSUME NEW g \in Loose(e) PROVE g \in Loose(db) /\ PathOfRow(e, g) = PathOfRow(db, g)
    OBVIOUS
  <2>1. g # n
    BY <1>6 DEF Loose
  <2>2. g \in Loose(row) /\ PathOfRow(e, g) = PathOfRow(row, g)
    BY <1>6, <2>1, LooseKept
  <2>3. g \in Loose(b) /\ PathOfRow(row, g) = PathOfRow(b, g)
    BY <1>5, <2>1, <2>2, LooseKept
  <2> QED
    BY <1>1, <2>2, <2>3
<1>8. ASSUME NEW d \in Folder, LinkedTo(b, Cloud, d) # {} PROVE LinkedTo(e, Cloud, d) # {}
  <2>1. ~LinkedIn(b, n) /\ stat.id # d
    BY <1>4, <1>5, Key, Names
  <2>2. LinkedTo(row, Cloud, d) = LinkedTo(b, Cloud, d)
    BY <1>4, <1>5, <2>1, RowsKept
  <2>3. LinkedTo(e, Cloud, d) = LinkedTo(row, Cloud, d)
    BY <1>5, <1>6, <2>1, RowsKept
  <2> QED
    BY <1>8, <2>2, <2>3
<1>9. \A d \in Folder : LinkedTo(db, Cloud, d) # {} => LinkedTo(b, Cloud, d) # {}
  BY <1>1, <1>4, RowsAre
<1> QED
  BY <1>2, <1>7, <1>8, <1>9, HomesAreLive

(* One row of a file has changed. *)
LEMMA OneRow ==
  ASSUME TypeInv, NEW g, LinkedIn(db, g), NEW f \in File, LinkIn(db, g).id = f,
         NEW e, Tables(e), Others(db, e, g), g \notin Loose(e), LinkedIn(e, g) => LinkIn(e, g).id = f
  PROVE  /\ \A h \in Loose(e) : h \in Loose(db) /\ PathOfRow(e, h) = PathOfRow(db, h)
         /\ \A id : id # f => RowsIn(e, id) = RowsIn(db, id)
         /\ \A d \in Folder : LinkedTo(e, Cloud, d) = LinkedTo(db, Cloud, d)
         /\ LinkedIn(e, g) => RowsIn(e, f) = {r \in RowsIn(db, f) : r.gid # g}
                                \cup {[gid |-> g, path |-> PathOfRow(e, g), link |-> LinkIn(e, g)]}
         /\ ~LinkedIn(e, g) => RowsIn(e, f) = {r \in RowsIn(db, f) : r.gid # g}
         /\ \A r : RowsIn(db, f) = {r} => r.gid = g /\ r.path = PathOfRow(db, g) /\ r.link = LinkIn(db, g)
<1>1. Tables(db)
  BY DEF TypeInv, DbTyped, DbOK
<1>2. \A h \in Loose(e) : h \in Loose(db) /\ PathOfRow(e, h) = PathOfRow(db, h)
  BY LooseKept
<1>3. \A id : id # f => RowsIn(e, id) = RowsIn(db, id) /\ LinkedTo(e, Cloud, id) = LinkedTo(db, Cloud, id)
  BY <1>1, RowsKept
<1>4. LinkedIn(e, g) => RowsIn(e, f) = {r \in RowsIn(db, f) : r.gid # g}
                                \cup {[gid |-> g, path |-> PathOfRow(e, g), link |-> LinkIn(e, g)]}
  BY <1>1, RowsMore
<1>5. ~LinkedIn(e, g) => RowsIn(e, f) = {r \in RowsIn(db, f) : r.gid # g}
  BY <1>1, RowsLess
<1>6. [gid |-> g, path |-> PathOfRow(db, g), link |-> LinkIn(db, g)] \in RowsIn(db, f)
  BY <1>1, RowsAre, Key
<1> QED
  BY <1>2, <1>3, <1>4, <1>5, <1>6, Names

(* The command of a change of a row. *)
LEMMA RowCarried ==
  ASSUME Inv, TypeInv', NEW k \in DOMAIN changes, NEW result, Carried(k, result),
         NEW g, g = changes[k].gid, g \in DOMAIN db.files, changes[k].type # "New",
         Tables(result), Others(db, result, g), g \notin Loose(result),
         LinkedIn(result, g) => LinkIn(result, g).id = changes[k].id,
         LinkedIn(result, g) => PathOfRow(result, g) \in {changes[k].path, changes[k].to},
         \A f \in File : f = changes[k].id /\ Clean(f) => Story(f)'
  PROVE  Inv'
<1> DEFINE f == changes[k].id
<1>1. LinkedIn(db, g) /\ LinkIn(db, g).id = f /\ f \in File
  BY ChangeIs DEF Inv
<1>2. /\ \A h \in Loose(result) : h \in Loose(db) /\ PathOfRow(result, h) = PathOfRow(db, h)
      /\ \A id : id # f => RowsIn(result, id) = RowsIn(db, id)
      /\ \A d \in Folder : LinkedTo(result, Cloud, d) = LinkedTo(db, Cloud, d)
      /\ LinkedIn(result, g) => RowsIn(result, f) = {r \in RowsIn(db, f) : r.gid # g}
                                \cup {[gid |-> g, path |-> PathOfRow(result, g), link |-> LinkIn(result, g)]}
      /\ ~LinkedIn(result, g) => RowsIn(result, f) = {r \in RowsIn(db, f) : r.gid # g}
  BY <1>1, OneRow DEF Inv
<1>3. db' = result
  BY CarriedIs DEF Inv
<1>4. FoldersKept
  BY <1>2, <1>3 DEF FoldersKept
<1>5. \A r \in RowsIn(result, f) : (\E s \in RowsIn(db, f) : s.path = r.path) \/ r.path \in {changes[k].path, changes[k].to}
  BY <1>2
<1>6. f \notin Folder
  BY <1>1, Names
<1> QED
  BY <1>2, <1>4, <1>5, <1>6, CarriedKept

(* The folder of a file that has a row is known. *)
LEMMA ParentKnown ==
  ASSUME NEW f, Story(f), Rows(f) # {}, kind = "google", item[f].dir \in Folder
  PROVE  LinkedTo(db, Cloud, item[f].dir) # {}
<1> QED
  BY DEF Story, FolderFirst

(* What a path that a change has says of the place. *)
LEMMA HereIs ==
  ASSUME TypeInv, NEW f \in File, Alone(f), Loc(item[f], f) # NoPath
  PROVE  item[f].dir \in {Home} \cup HomeFolder /\ item[f].dir # Elsewhere
         /\ Loc(item[f], f) = Spot(item[f].dir, f) /\ Loc(item[f], f) \in Spots(f, HomeFolder)
<1>1. item[f].dir \in {Home} \cup HomeFolder /\ Loc(item[f], f) = Spot(item[f].dir, f) /\ Loc(item[f], f) \in Spots(f, HomeFolder)
  BY LocIs DEF Alone
<1> QED
  BY <1>1, Names, HomesAreLive DEF Id

LEMMA CarryUpdateKept ==
  ASSUME Inv, TypeInv', NEW k \in DOMAIN changes, CarryUpdate(k) PROVE Inv'
<1> DEFINE c == changes[k]
           g == c.gid
           stat == [Link(g) EXCEPT !.time = c.time, !.hash = c.hash]
           e == WithLinkUpdated(db, g, Cloud, stat)
<1>1. /\ TypeInv /\ ChangeOK(c, db, HomeFolder) /\ DbOK(db, HomeFolder) /\ c.type = "Update" /\ g \in DOMAIN db.files
      /\ RowPath(g) = c.path
  BY ChangeIs DEF Inv, TypeInv, DbTyped, CarryUpdate, InPlace
<1>2. /\ LinkedIn(db, g) /\ LinkIn(db, g).id = c.id /\ c.id \in File
      /\ LinkIn(db, g) \in LinkSet
  BY <1>1, ChangeIs
<1>3. Carried(k, e) /\ Link(g) = LinkIn(db, g) /\ RowPath(g) = PathOfRow(db, g)
  BY <1>2, DbNames DEF CarryUpdate
<1>4. /\ stat \in LinkSet /\ stat.id = LinkIn(db, g).id /\ stat.parent = LinkIn(db, g).parent
      /\ stat.time = c.time /\ stat.hash = c.hash
  BY <1>1, <1>2, <1>3 DEF LinkSet, ChangeOK
<1> HIDE DEF stat
<1>5. /\ DbOK(e, HomeFolder) /\ LinkedIn(e, g) /\ LinkIn(e, g) = stat /\ PathOfRow(e, g) = PathOfRow(db, g)
      /\ Others(db, e, g)
  BY <1>1, <1>2, <1>4, RelinkedIs
<1>6. Tables(e) /\ g \notin Loose(e) /\ LinkIn(e, g).id = c.id
  BY <1>2, <1>4, <1>5 DEF DbOK, Loose
<1> HIDE DEF e, g
<1>7. ASSUME NEW f \in File, f = c.id, Clean(f) PROVE Story(f)'
  <2>1. Story(f) /\ Changing(f, c) /\ Alone(f) /\ Right(c, f)
    BY <1>1, <1>7, ChangingIs DEF Story, Changing
  <2>2. PICK r : Rows(f) = {r} /\ RightRow(c, r, item[f], f, Tied(f))
    BY <1>1, <2>1 DEF Right
  <2>3. /\ c.path = Loc(item[f], f) /\ r.link.parent = item[f].dir /\ Snapshot(c, item[f])
    BY <1>1, <2>2 DEF RightRow
  <2>4. /\ \A h \in Loose(e) : h \in Loose(db) /\ PathOfRow(e, h) = PathOfRow(db, h)
        /\ \A id : id # f => RowsIn(e, id) = RowsIn(db, id)
        /\ \A d \in Folder : LinkedTo(e, Cloud, d) = LinkedTo(db, Cloud, d)
        /\ RowsIn(e, f) = {x \in RowsIn(db, f) : x.gid # g} \cup {[gid |-> g, path |-> PathOfRow(e, g), link |-> LinkIn(e, g)]}
        /\ \A x : RowsIn(db, f) = {x} => x.gid = g /\ x.path = PathOfRow(db, g) /\ x.link = LinkIn(db, g)
    BY <1>1, <1>2, <1>5, <1>6, <1>7, OneRow
  <2>5. PICK v : v = [gid |-> g, path |-> PathOfRow(e, g), link |-> LinkIn(e, g)]
    OBVIOUS
  <2>6. RowsIn(e, f) = {v}
    BY <2>2, <2>4, <2>5 DEF Rows
  <2>7. v.gid = g /\ v.path = c.path /\ v.link = stat /\ r.gid = g /\ r.link = LinkIn(db, g) /\ r \in RowsIn(db, f)
    BY <1>1, <1>3, <1>5, <2>2, <2>4, <2>5 DEF Rows
  <2>8. Loc(item[f], f) # NoPath /\ item[f].dir # Elsewhere /\ Loc(item[f], f) = Spot(item[f].dir, f)
    <3>1. c.path \in Spots(f, HomeFolder)
      BY <1>1, <1>7 DEF ChangeOK
    <3>2. c.path # NoPath
      BY <3>1, SpotsIn, HomesAreLive DEF Id
    <3> QED
      BY <1>1, <2>1, <2>3, <3>2, HereIs
  <2>9. item[f].time \in Nat /\ item[f].hash \in Nat
    BY <1>1, LocIs, <2>1 DEF Alone, Item
  <2>10. AgreedRow(v, item[f], f, Tied(f)) /\ SoundRow(v, item[f], f, Tied(f))
    BY <1>4, <2>3, <2>7, <2>8, <2>9 DEF AgreedRow, UpToDate, SoundRow, Snapshot
  <2>11. kind = "google" /\ item[f].dir \in Folder => LinkedTo(e, Cloud, item[f].dir) # {}
    BY <2>1, <2>2, <2>4, ParentKnown
  <2>12. c.then = <<>>
    BY <1>1 DEF ChangeOK
  <2>13. \A x \in RowsIn(e, f) : x.path \in {c.path, c.to} /\ \E s \in RowsIn(db, f) : s.gid = x.gid
    BY <2>6, <2>7
  <2> QED
    BY <1>3, <1>7, <2>4, <2>6, <2>8, <2>10, <2>11, <2>12, <2>13, CarriedSettles, SMTT(30)
<1> QED
  BY <1>1, <1>3, <1>5, <1>6, <1>7, RowCarried DEF g

LEMMA CarryDeleteKept ==
  ASSUME Inv, TypeInv', NEW k \in DOMAIN changes, CarryDelete(k) PROVE Inv'
<1> DEFINE c == changes[k]
           g == c.gid
           e == WithoutFile(db, g)
<1>1. /\ TypeInv /\ ChangeOK(c, db, HomeFolder) /\ DbOK(db, HomeFolder) /\ c.type = "Delete" /\ g \in DOMAIN db.files
      /\ Carried(k, e)
  BY ChangeIs DEF Inv, TypeInv, DbTyped, CarryDelete
<1>2. LinkedIn(db, g) /\ LinkIn(db, g).id = c.id /\ c.id \in File /\ g \notin Loose(db)
  BY <1>1, ChangeIs DEF Loose
<1>3. DbOK(e, HomeFolder) /\ ~LinkedIn(e, g) /\ g \notin DOMAIN e.files /\ Others(db, e, g)
  BY <1>1, <1>2, DroppedIs
<1>4. Tables(e) /\ g \notin Loose(e)
  BY <1>3 DEF DbOK, Loose
<1> HIDE DEF e, g
<1>5. ASSUME NEW f \in File, f = c.id, Clean(f) PROVE Story(f)'
  <2>1. Story(f) /\ Right(c, f)
    BY <1>1, <1>5, ChangingIs DEF Changing
  <2>2. PICK r : Rows(f) = {r} /\ RightRow(c, r, item[f], f, Tied(f))
    BY <1>1, <2>1 DEF Right
  <2>3. Loc(item[f], f) = NoPath
    BY <1>1, <2>2 DEF RightRow
  <2>4. /\ \A h \in Loose(e) : h \in Loose(db) /\ PathOfRow(e, h) = PathOfRow(db, h)
        /\ \A id : id # f => RowsIn(e, id) = RowsIn(db, id)
        /\ \A d \in Folder : LinkedTo(e, Cloud, d) = LinkedTo(db, Cloud, d)
        /\ RowsIn(e, f) = {x \in RowsIn(db, f) : x.gid # g}
        /\ \A x : RowsIn(db, f) = {x} => x.gid = g
    BY <1>1, <1>2, <1>3, <1>4, <1>5, OneRow
  <2>5. RowsIn(e, f) = {}
    BY <2>2, <2>4 DEF Rows
  <2>6. kind = "google" /\ item[f].dir \in Folder => LinkedTo(e, Cloud, item[f].dir) # {}
    BY <2>1, <2>2, <2>4, ParentKnown
  <2>7. c.then = <<>>
    BY <1>1 DEF ChangeOK
  <2> QED
    BY <1>1, <1>5, <2>3, <2>4, <2>5, <2>6, <2>7, CarriedSettles
<1> QED
  BY <1>1, <1>3, <1>4, <1>5, RowCarried DEF g

LEMMA CarryNewKept ==
  ASSUME Inv, TypeInv', NEW k \in DOMAIN changes, CarryNew(k) PROVE Inv'
<1> DEFINE c == changes[k]
           stat == LinkStat(c.id, c.dir, c.time, c.hash)
<1>1. /\ TypeInv /\ ChangeOK(c, db, HomeFolder) /\ DbOK(db, HomeFolder) /\ c.type = "New"
      /\ HomeFolder \in SUBSET Folder
  BY ChangeIs, HomesAreLive DEF Inv, TypeInv, DbTyped, CarryNew
<1>2. CASE c.id \in Folder
  <2> DEFINE e == WithFolder(db, c.id)
  <2>1. Carried(k, e) /\ c.id \in HomeFolder /\ c.id \notin File
    BY <1>1, <1>2, Names DEF CarryNew, ChangeOK
  <2>2. /\ DbOK(e, HomeFolder) /\ Loose(e) = Loose(db) /\ LinkedTo(e, Cloud, c.id) # {}
        /\ \A g \in Loose(e) : PathOfRow(e, g) = PathOfRow(db, g)
        /\ \A id : id # c.id => RowsIn(e, id) = RowsIn(db, id)
    BY <1>1, <2>1, FolderMade
  <2> HIDE DEF e
  <2>3. \A r \in RowsIn(e, c.id) : r.path = c.path
    <3> TAKE r \in RowsIn(e, c.id)
    <3>1. RowOK(e, r.gid, HomeFolder) /\ LinkedIn(e, r.gid) /\ LinkIn(e, r.gid).id = c.id /\ r.path = PathOfRow(e, r.gid)
      BY <2>2, RowsAre DEF DbOK
    <3>2. r.path \in Spots(c.id, HomeFolder) /\ c.path \in Spots(c.id, HomeFolder)
      BY <1>1, <3>1 DEF RowOK, ChangeOK
    <3> QED
      BY <1>2, <3>2, FolderSpots
  <2>4. FoldersKept
    <3>1. db' = e
      BY <2>1, CarriedIs DEF Inv
    <3>2. \A d \in Folder : LinkedTo(db, Cloud, d) # {} => LinkedTo(e, Cloud, d) # {}
      <4> SUFFICES ASSUME NEW d \in Folder, LinkedTo(db, Cloud, d) # {}, d # c.id PROVE LinkedTo(e, Cloud, d) # {}
        BY <2>2
      <4>1. RowsIn(e, d) = RowsIn(db, d) /\ Tables(e) /\ Tables(db)
        BY <1>1, <2>2 DEF DbOK
      <4> QED
        BY <4>1, RowsAre
    <3> QED
      BY <3>1, <3>2 DEF FoldersKept
  <2> QED
    BY <2>1, <2>2, <2>3, <2>4, CarriedKept
<1>3. CASE c.id \in File
  <2> DEFINE e == WithLink(NewRow(db, c), NewRow(db, c).lastId, Cloud, stat)
  <2>1. /\ stat \in LinkSet /\ stat.id = c.id /\ stat.parent = c.dir /\ stat.time = c.time /\ stat.hash = c.hash
    BY <1>1 DEF ChangeOK, LinkStat, LinkSet
  <2>2. Carried(k, e) /\ c.id \notin Folder
    BY <1>3, Names DEF CarryNew
  <2> HIDE DEF stat
  <2>3. c.path \in Spots(c.id, HomeFolder)
    BY <1>1 DEF ChangeOK
  <2>4. /\ \E n : /\ n \notin DOMAIN db.files /\ n > db.lastId
                  /\ RowsIn(e, c.id) = RowsIn(db, c.id) \cup {[gid |-> n, path |-> c.path, link |-> stat]}
        /\ \A i \in File : i # c.id => RowsIn(e, i) = RowsIn(db, i)
    BY <1>1, <1>3, <2>1, <2>3, NewFileIs
  <2>5. /\ \A g \in Loose(e) : g \in Loose(db) /\ PathOfRow(e, g) = PathOfRow(db, g)
        /\ \A d \in Folder : LinkedTo(db, Cloud, d) # {} => LinkedTo(e, Cloud, d) # {}
        /\ \A d \in HomeFolder : c.path = Spot(d, c.id) => LinkedTo(e, Cloud, d) # {}
    BY <1>1, <1>3, <2>1, <2>3, NewFileMore
  <2> HIDE DEF e
  <2>6. PICK n : /\ n \notin DOMAIN db.files /\ n > db.lastId
                 /\ RowsIn(e, c.id) = RowsIn(db, c.id) \cup {[gid |-> n, path |-> c.path, link |-> stat]}
    BY <2>4
  <2>7. FoldersKept
    <3>1. db' = e
      BY <2>2, CarriedIs DEF Inv
    <3> QED
      BY <2>5, <3>1 DEF FoldersKept
  <2>8. ASSUME NEW f \in File, f = c.id, Clean(f) PROVE Story(f)'
    <3>1. Story(f) /\ Alone(f) /\ Right(c, f)
      BY <1>1, <2>8, ChangingIs DEF Story, Changing
    <3>2. Rows(f) = {} /\ c.path = Loc(item[f], f) /\ Snapshot(c, item[f])
      BY <1>1, <3>1 DEF Right, RightRow
    <3>3. PICK v : v = [gid |-> n, path |-> c.path, link |-> stat]
      OBVIOUS
    <3>4. RowsIn(e, f) = {v} /\ v.gid = n /\ v.path = c.path /\ v.link = stat
      BY <2>6, <2>8, <3>2, <3>3 DEF Rows
    <3>5. Loc(item[f], f) # NoPath /\ item[f].dir # Elsewhere /\ Loc(item[f], f) = Spot(item[f].dir, f)
          /\ item[f].dir \in {Home} \cup HomeFolder
      <4>1. c.path # NoPath
        BY <1>1, <2>3, <2>8, SpotsIn DEF Id
      <4> QED
        BY <1>1, <3>1, <3>2, <4>1, HereIs
    <3>6. item[f].time \in Nat /\ item[f].hash \in Nat
      BY <1>1, <3>1, LocIs DEF Alone, Item
    <3>7. AgreedRow(v, item[f], f, Tied(f)) /\ SoundRow(v, item[f], f, Tied(f))
      BY <2>1, <3>2, <3>4, <3>5, <3>6 DEF AgreedRow, UpToDate, SoundRow, Snapshot
    <3>8. item[f].dir \in Folder => LinkedTo(e, Cloud, item[f].dir) # {}
      BY <2>5, <2>8, <3>2, <3>5, Names DEF Id
    <3>9. \A w \in writes : w.gid # n
      <4> TAKE w \in writes
      <4>1. WriteOK(w, db, HomeFolder, kind) /\ Tables(db)
        BY <1>1, WrittenIs DEF DbOK
      <4>2. w.gid \in 1..db.lastId
        BY <4>1 DEF WriteOK, Loose, Tables
      <4> QED
        BY <2>6, <4>1, <4>2 DEF Tables
    <3>10. c.then = <<>>
      BY <1>1 DEF ChangeOK
    <3> QED
      BY <2>2, <2>4, <2>5, <2>8, <3>4, <3>5, <3>7, <3>8, <3>9, <3>10, CarriedSettles
  <2>9. \A r \in RowsIn(e, c.id) : (\E s \in RowsIn(db, c.id) : s.path = r.path) \/ r.path \in {c.path, c.to}
    BY <2>6
  <2> QED
    BY <2>2, <2>4, <2>5, <2>7, <2>8, <2>9, CarriedKept
<1> QED
  BY <1>1, <1>2, <1>3, Names DEF ChangeOK

(* After a move that has an update to come. *)
LEMMA CarriedOn ==
  ASSUME Inv, NEW k \in DOMAIN changes, NEW result, Carried(k, result), NEW f \in File, f = changes[k].id, Clean(f),
         NEW u, changes[k].then = <<u>>, u.id = f,
         \A g \in Loose(result) : g \in Loose(db) /\ PathOfRow(result, g) = PathOfRow(db, g),
         \A id \in File : id # f => RowsIn(result, id) = RowsIn(db, id),
         NEW v, RowsIn(result, f) = {v}, v.path \in {changes[k].path, changes[k].to},
         \E s \in RowsIn(db, f) : s.gid = v.gid,
         RightRow(u, v, item[f], f, Tied(f)),
         Agreed(f) => AgreedRow(v, item[f], f, Tied(f)), Loc(item[f], f) # NoPath,
         kind = "google" /\ item[f].dir \in Folder => LinkedTo(result, Cloud, item[f].dir) # {}
  PROVE  Story(f)'
<1> DEFINE c == changes[k]
<1>1. /\ Aside /\ db' = result /\ changes' = <<u>> \o RemoveAt(changes, k)
      /\ UNCHANGED <<expected, writes, stuck, status, fate>> /\ TypeInv /\ IsSeq(changes) /\ f \in Id
  BY CarriedIs DEF Inv, Id
<1>2. Story(f) /\ Changing(f, c) /\ Waiting(f) = {c} /\ Fresh(f) = {} /\ Once(changes, f)
  BY ChangingIs
<1>3. Waiting(f)' = {u} /\ Fresh(f)' = {} /\ Writing(f)' = {} /\ Writing(f) = {} /\ Once(changes', f)
  <2>1. Waiting(f)' = Range(<<u>>) /\ Once(changes', f)
    BY <1>1, <1>2, ChangesAre
  <2>2. Writing(f)' = {} /\ Writing(f) = {} /\ Fresh(f)' = {}
    BY <1>1, <1>2 DEF Changing, Writing, Fresh, Aside
  <2> QED
    BY <2>1, <2>2, SingleSeq
<1>4. Rows(f)' = {v} /\ (Tied(f)' <=> Tied(f)) /\ Loc(item[f], f)' = Loc(item[f], f)
  BY <1>1 DEF Rows, Tied, Loc, Spot, Aside
<1>5. \A p : Tracks(f, p)' => Tracks(f, p)
  <2> SUFFICES ASSUME NEW p, Tracks(f, p)' PROVE Tracks(f, p)
    OBVIOUS
  <2>1. \A r \in RowsIn(result, changes[k].id) :
           \/ \E s \in RowsIn(db, changes[k].id) : s.path = r.path
           \/ r.path \in {changes[k].path, changes[k].to}
    OBVIOUS
  <2>2. \A id \in File : id # changes[k].id => RowsIn(result, id) = RowsIn(db, id)
    OBVIOUS
  <2> QED
    BY <1>1, <2>1, <2>2, CarriedTracks
<1>6. \A p : Claims(f, p)' => Claims(f, p)
  BY <1>4, <1>5 DEF Claims
<1>7. \A id \in File : \A p : id # f /\ Claims(f, p) /\ Touches(id, p)' => Touches(id, p)
  <2> TAKE id \in File
  <2> TAKE p
  <2>0. \A r \in RowsIn(result, changes[k].id) :
           \/ \E s \in RowsIn(db, changes[k].id) : s.path = r.path
           \/ r.path \in {changes[k].path, changes[k].to}
    OBVIOUS
  <2>1. Tracks(id, p)' => Tracks(id, p)
    BY <1>1, <2>0, CarriedTracks
  <2> QED
    BY <1>1, <2>1, TouchesAside
<1>8. \A w \in writes', r \in Rows(f)' : r.gid = w.gid => w.id = f
  BY <1>1, <1>2, <1>4 DEF Story, Alone, Rows
<1>9. item[f]'.dir \in Folder => item[f]'.dir \in HomeFolder'
  BY <1>1, <1>2, SameWorld DEF Aside, Story, Alone
<1>10. Alone(f)'
  BY <1>1, <1>2, <1>3, <1>6, <1>7, <1>8, <1>9, AloneLess DEF Story
<1>11. Entries(f)' = {} /\ Gone(f)' = {} /\ ~Told(f)' /\ (LastSay(f) => LastSay(f)')
  <2>1. Entries(f) = {} /\ Gone(f) = {} /\ ~Told(f)
    BY <1>2 DEF Changing
  <2> QED
    BY <1>1, <1>6, <2>1 DEF Aside, Entries, Gone, Told, LastSay, Here, Spot, Born
<1>12. Right(u, f)'
  <2>1. RightRow(u, v, item[f], f, Tied(f))'
    BY <1>1, <1>4 DEF RightRow, Snapshot, SoundRow, Loc, Spot, Aside
  <2> QED
    BY <1>4, <2>1 DEF Right
<1>13. Changing(f, u)'
  BY <1>3, <1>11, <1>12 DEF Changing
<1>14. OneChange(f)'
  BY <1>1, <1>2, <1>3 DEF OneChange, Story, Aside
<1>15. Agreed(f) => Agreed(f)'
  BY <1>1, <1>4 DEF Agreed, AgreedRow, UpToDate, Loc, Spot, Aside
<1>16. Notices(f)'
  <2>1. UserRec(f, 0)' <=> UserRec(f, 0)
    BY <1>1 DEF UserRec, Here, Spot, Aside
  <2> QED
    BY <1>2, <1>3, <1>11, <1>15, <2>1 DEF Notices, Story
<1>17. FolderFirst(f)'
  BY <1>1 DEF FolderFirst, Aside
<1> QED
  BY <1>10, <1>13, <1>14, <1>16, <1>17 DEF Story, Phase

LEMMA CarryMoveKept ==
  ASSUME Inv, TypeInv', NEW k \in DOMAIN changes, CarryMove(k) PROVE Inv'
<1> DEFINE c == changes[k]
           g == c.gid
           p == c.to
           dir == c.dir
           time == c.time
           e == WithLinkMoved(WithFileMoved(db, g, p), g, Cloud, dir, time)
<1>1. /\ TypeInv /\ ChangeOK(c, db, HomeFolder) /\ DbOK(db, HomeFolder) /\ c.type = "Move" /\ g \in DOMAIN db.files
      /\ HomeFolder \in SUBSET Folder /\ Carried(k, e)
  BY ChangeIs, HomesAreLive DEF Inv, TypeInv, DbTyped, CarryMove, InPlace
<1>2. /\ LinkedIn(db, g) /\ LinkIn(db, g).id = c.id /\ c.id \in File
      /\ LinkIn(db, g) \in LinkSet
  BY <1>1, ChangeIs
<1>3. p \in Spots(LinkIn(db, g).id, HomeFolder) /\ dir \in Dir /\ time \in Nat /\ LinkIn(db, g).id \in File
  BY <1>1, <1>2 DEF ChangeOK
<1>4. /\ p = c.to /\ g = c.gid /\ dir = c.dir /\ time = c.time
      /\ e = WithLinkMoved(WithFileMoved(db, g, p), g, Cloud, dir, time)
  OBVIOUS
<1> HIDE DEF g, p, dir, time, e
<1>5. /\ DbOK(e, HomeFolder) /\ LinkedIn(e, g) /\ PathOfRow(e, g) = p /\ Others(db, e, g)
      /\ LinkIn(e, g).id = LinkIn(db, g).id /\ LinkIn(e, g).parent = dir
      /\ LinkIn(e, g).time = time /\ LinkIn(e, g).hash = LinkIn(db, g).hash
  <2>1. /\ DbOK(db, HomeFolder) /\ HomeFolder \in SUBSET Folder /\ LinkedIn(db, g) /\ LinkIn(db, g).id \in File
        /\ LinkIn(db, g) \in LinkSet /\ p \in Spots(LinkIn(db, g).id, HomeFolder) /\ dir \in Dir /\ time \in Nat
        /\ e = WithLinkMoved(WithFileMoved(db, g, p), g, Cloud, dir, time)
    BY <1>1, <1>2, <1>3, <1>4
  <2> QED
    BY <2>1, MovedWithLinkIs
<1>6. /\ Tables(e) /\ g \notin Loose(e) /\ LinkIn(e, g).id = c.id /\ LinkIn(e, g).parent = dir
      /\ LinkIn(e, g).time = time /\ LinkIn(e, g).hash = LinkIn(db, g).hash
  BY <1>2, <1>5 DEF DbOK, Loose
<1>7. ASSUME NEW f \in File, f = c.id, Clean(f) PROVE Story(f)'
  <2>1. Story(f) /\ Changing(f, c) /\ Alone(f) /\ Right(c, f)
    BY <1>1, <1>7, ChangingIs DEF Story, Changing
  <2>2. PICK r : Rows(f) = {r} /\ RightRow(c, r, item[f], f, Tied(f))
    BY <1>1, <2>1 DEF Right
  <2>3. /\ p = Loc(item[f], f) /\ Loc(item[f], f) # NoPath /\ Snapshot(c, item[f]) /\ SoundRow(r, item[f], f, Tied(f))
        /\ \/ c.then = <<>> /\ r.link.time = item[f].time
           \/ \E u : c.then = <<u>> /\ Snapshot(u, item[f]) /\ r.link.hash < item[f].hash
        /\ kind = "google"
    BY <1>1, <1>4, <2>2 DEF RightRow
  <2>4. /\ \A h \in Loose(e) : h \in Loose(db) /\ PathOfRow(e, h) = PathOfRow(db, h)
        /\ \A id : id # f => RowsIn(e, id) = RowsIn(db, id)
        /\ \A d \in Folder : LinkedTo(e, Cloud, d) = LinkedTo(db, Cloud, d)
        /\ RowsIn(e, f) = {x \in RowsIn(db, f) : x.gid # g} \cup {[gid |-> g, path |-> PathOfRow(e, g), link |-> LinkIn(e, g)]}
        /\ \A x : RowsIn(db, f) = {x} => x.gid = g /\ x.path = PathOfRow(db, g) /\ x.link = LinkIn(db, g)
    <3>1. /\ TypeInv /\ LinkedIn(db, g) /\ f \in File /\ LinkIn(db, g).id = f /\ Tables(e) /\ Others(db, e, g)
          /\ g \notin Loose(e) /\ LinkedIn(e, g) /\ LinkIn(e, g).id = f
      BY <1>1, <1>2, <1>5, <1>6, <1>7
    <3> QED
      BY <3>1, OneRow
  <2>5. PICK v : v = [gid |-> g, path |-> PathOfRow(e, g), link |-> LinkIn(e, g)]
    OBVIOUS
  <2>6. RowsIn(e, f) = {v}
    BY <2>2, <2>4, <2>5 DEF Rows
  <2>7. /\ v.gid = g /\ v.path = p /\ v.link = LinkIn(e, g) /\ r.gid = g /\ r.link = LinkIn(db, g) /\ r \in RowsIn(db, f)
    BY <1>5, <2>2, <2>4, <2>5 DEF Rows
  <2>8. item[f].dir # Elsewhere /\ Loc(item[f], f) = Spot(item[f].dir, f)
    BY <1>1, <2>1, <2>3, HereIs
  <2>9. item[f].time \in Nat /\ item[f].hash \in Nat /\ r.link.hash \in Nat
    BY <1>1, <1>2, LocIs, <2>1, <2>7 DEF Alone, Item, LinkSet
  <2>10. /\ v.path = Loc(item[f], f) /\ v.link.parent = item[f].dir /\ v.link.time = item[f].time
         /\ v.link.hash = r.link.hash
    BY <1>4, <1>6, <2>3, <2>7 DEF Snapshot
  <2>11. kind = "google" /\ item[f].dir \in Folder => LinkedTo(e, Cloud, item[f].dir) # {}
    BY <2>1, <2>2, <2>4, ParentKnown
  <2>12. \A x \in RowsIn(e, f) : x.path \in {c.path, c.to} /\ \E s \in RowsIn(db, f) : s.gid = x.gid
    BY <1>4, <2>6, <2>7
  <2>13. CASE c.then = <<>> /\ r.link.time = item[f].time
    <3>1. AgreedRow(v, item[f], f, Tied(f)) /\ SoundRow(v, item[f], f, Tied(f))
      BY <2>3, <2>8, <2>9, <2>10, <2>13 DEF AgreedRow, UpToDate, SoundRow
    <3>2. /\ Inv /\ Carried(k, e) /\ f \in File /\ f = changes[k].id /\ Clean(f) /\ changes[k].then = <<>>
          /\ (\A h \in Loose(e) : h \in Loose(db) /\ PathOfRow(e, h) = PathOfRow(db, h))
          /\ (\A id \in File : id # f => RowsIn(e, id) = RowsIn(db, id))
      BY <1>1, <1>7, <2>4, <2>13
    <3>3. \A x \in RowsIn(e, f) :
            /\ x.path \in {changes[k].path, changes[k].to}
            /\ (\E s \in RowsIn(db, f) : s.gid = x.gid) \/ (\A w \in writes : w.gid # x.gid)
      BY <2>12
    <3>4. IF Loc(item[f], f) = NoPath THEN RowsIn(e, f) = {}
          ELSE \E x : RowsIn(e, f) = {x} /\ AgreedRow(x, item[f], f, Tied(f)) /\ SoundRow(x, item[f], f, Tied(f))
      BY <2>3, <2>6, <3>1
    <3> HIDE DEF c
    <3> QED
      BY <2>11, <3>2, <3>3, <3>4, CarriedSettles
  <2>14. CASE \E u : c.then = <<u>> /\ Snapshot(u, item[f]) /\ r.link.hash < item[f].hash
    <3>1. PICK u : c.then = <<u>> /\ Snapshot(u, item[f]) /\ r.link.hash < item[f].hash
      BY <2>14
    <3>2. DependentOK(u, c)
      <4>1. PICK y \in Range(c.then) : c.then = <<y>> /\ DependentOK(y, c)
        BY <1>1, <3>1 DEF ChangeOK
      <4> QED
        BY <3>1, <4>1
    <3>3. u.type = "Update" /\ u.id = f /\ u.gid = g /\ u.path = p
      BY <1>4, <1>7, <3>2 DEF DependentOK
    <3>4. RightRow(u, v, item[f], f, Tied(f))
      BY <2>3, <2>7, <2>9, <2>10, <3>1, <3>3 DEF RightRow
    <3>5. Agreed(f) => AgreedRow(v, item[f], f, Tied(f))
      <4> SUFFICES ASSUME Agreed(f) PROVE AgreedRow(v, item[f], f, Tied(f))
        OBVIOUS
      <4>1. AgreedRow(r, item[f], f, Tied(f))
        BY <2>2, <2>3 DEF Agreed
      <4> QED
        BY <2>9, <2>10, <3>1, <4>1 DEF AgreedRow, UpToDate
    <3>6. /\ Inv /\ Carried(k, e) /\ f \in File /\ f = changes[k].id /\ Clean(f) /\ changes[k].then = <<u>> /\ u.id = f
          /\ (\A h \in Loose(e) : h \in Loose(db) /\ PathOfRow(e, h) = PathOfRow(db, h))
          /\ (\A id \in File : id # f => RowsIn(e, id) = RowsIn(db, id))
      BY <1>1, <1>7, <2>4, <3>1, <3>3
    <3>7. /\ RowsIn(e, f) = {v} /\ v.path \in {changes[k].path, changes[k].to} /\ \E s \in RowsIn(db, f) : s.gid = v.gid
      BY <2>6, <2>12
    <3>8. Loc(item[f], f) # NoPath
      BY <2>3
    <3> HIDE DEF c
    <3> QED
      BY <2>11, <3>4, <3>5, <3>6, <3>7, <3>8, CarriedOn
  <2> QED
    BY <2>3, <2>13, <2>14
<1> QED
  BY <1>1, <1>4, <1>5, <1>6, <1>7, RowCarried

LEMMA CarryFailsKept ==
  ASSUME Inv, TypeInv', NEW k \in DOMAIN changes, CarryFails(k) PROVE Inv'
<1> DEFINE c == changes[k]
<1>1. /\ Aside /\ UNCHANGED <<expected, writes, db, status>>
      /\ changes' = RemoveAt(changes, k) /\ stuck' = stuck \cup {c.path}
      /\ Suffers({c.id}, "failed") /\ c.id \in File
  BY DEF CarryFails, cloudVars, batchVars, Aside
<1>2. /\ TypeInv /\ IsSeq(changes) /\ c \in InProgress /\ c \in Waiting(c.id) /\ c.id \notin Folder
      /\ fate \in [Id -> SUBSET Fates]
  BY <1>1, Names DEF Inv, TypeInv, ChangesTyped, InProgress, Range, Waiting, RestTyped
<1>3. changes' = <<>> \o RemoveAt(changes, k)
  <2>1. IsSeq(RemoveAt(changes, k))
    BY <1>2, Removed
  <2>2. RemoveAt(changes, k) \in Seq(Range(RemoveAt(changes, k)))
    BY <2>1 DEF IsSeq
  <2> HIDE DEF c
  <2> QED
    BY <1>1, <2>2, ConcatEmptySeq
<1>4. /\ \A f : f # c.id => Waiting(f)' = Waiting(f) /\ (Once(changes, f) => Once(changes', f))
      /\ Range(changes') \subseteq Range(changes)
      /\ \A x \in Range(changes) : x = c \/ x \in Range(changes')
  BY <1>2, <1>3, ChangesAre, NothingSeq
<1>5. FoldersKept
  BY <1>1 DEF FoldersKept
<1>6. Births' /\ OnePath' /\ FolderStory'
  <2>1. \A x \in InProgress : x.id \in Folder => x \in InProgress' \/ LinkedTo(db', Cloud, x.id) # {}
    BY <1>1, <1>2, <1>4 DEF InProgress, Aside
  <2>2. \A x \in InProgress' : \E y \in InProgress : y.id = x.id
    BY <1>1, <1>4 DEF InProgress, Aside
  <2>3. \A id \in File : Rows(id)' # {} => Rows(id) # {} \/ Born(id)
    BY <1>1 DEF Rows
  <2>4. \A w \in writes' : IF w.op = "New" /\ w.stage # "arrived"
                           THEN ~Born(w.id) /\ \A v \in writes' : v.id = w.id => v = w
                           ELSE Born(w.id)
    BY <1>1 DEF Inv, Births
  <2> QED
    BY <1>1, <1>5, <2>1, <2>2, <2>3, <2>4, AsideKept
<1>7. ASSUME NEW f \in File, Clean(f)' PROVE Story(f)'
  <2>1. f # c.id /\ Clean(f) /\ (Tied(f)' <=> Tied(f))
    BY <1>1, <1>2, <1>7, SufferedClean
  <2>2. Story(f)
    BY <2>1 DEF Inv, Stories
  <2>3. Rows(f)' = Rows(f) /\ Writing(f)' = Writing(f) /\ Waiting(f)' = Waiting(f) /\ (Once(changes, f) => Once(changes', f))
    BY <1>1, <1>4, <2>1 DEF Rows, Writing
  <2>4. SameOf(f)
    BY <1>1, <2>1, <2>3 DEF SameOf, Aside, Fresh
  <2>5. ASSUME NEW id \in File, NEW p, Touches(id, p)' PROVE Touches(id, p)
    <3>1. Waiting(id)' \subseteq Waiting(id) /\ Fresh(id)' = Fresh(id) /\ Writing(id)' = Writing(id) /\ Rows(id)' = Rows(id)
      BY <1>1, <1>4 DEF Waiting, Fresh, Writing, Rows, Aside
    <3>2. Tracks(id, p)' => Tracks(id, p)
      BY <3>1 DEF Tracks
    <3> QED
      BY <1>1, <2>5, <3>2, TouchesAside
  <2>6. World
    BY <1>1, SameWorld DEF Aside
  <2>7. ~Claims(f, c.path)
    <3>1. Touches(c.id, c.path)
      BY <1>2 DEF Touches, Tracks
    <3> QED
      BY <1>1, <2>1, <2>2, <3>1 DEF Story, Alone
  <2>8. Alone(f)'
    BY <1>1, <1>2, <2>2, <2>4, <2>5, <2>6, <2>7, AloneKept DEF Story
  <2>9. \A key : key = f \/ Claims(f, key) =>
          /\ key \in DOMAIN expected' => key \in DOMAIN expected
          /\ \A t : Expects(expected, key, t) => Expects(expected', key, t)
    BY <1>1
  <2>10. /\ TypeInv /\ f \in File /\ Aside /\ FoldersKept /\ Rows(f)' = Rows(f) /\ Waiting(f)' = Waiting(f)
         /\ Writing(f)' = Writing(f) /\ (Tied(f)' <=> Tied(f)) /\ (Once(changes, f) => Once(changes', f)) /\ Story(f)
    BY <1>1, <1>2, <1>5, <1>7, <2>1, <2>2, <2>3
  <2> QED
    BY <2>8, <2>9, <2>10, WorkFrame
<1>8. Stories'
  <2> SUFFICES ASSUME NEW f \in File, Clean(f)' PROVE Story(f)'
    BY DEF Stories
  <2> QED
    BY <1>7
<1>9. ThrownOver'
  <2> SUFFICES ASSUME NEW f, f = status, Clean(f)' PROVE f \notin Id
    BY <1>1 DEF ThrownOver
  <2>1. f \in File
    BY DEF Clean
  <2>2. Clean(f)
    BY <1>1, <1>2, <2>1, SufferedClean
  <2> QED
    BY <2>2 DEF Inv, ThrownOver
<1> QED
  BY <1>6, <1>8, <1>9 DEF Inv

(* What survives the end of the process. *)
LEMMA Surviving ==
  ASSUME TypeInv, NEW f \in File, Story(f),
         \A w \in Writing(f) : w.stage # "arrived" /\ w.op \notin {"Move", "Delete"},
         \A c \in Waiting(f) : ~(c.type = "Update" /\ Linked(c.gid) /\ Link(c.gid).time = c.time)
  PROVE  /\ Sound(f) /\ (Agreed(f) \/ UserRec(f, 0))
         /\ \A w \in Writing(f) : w.op = "New" => Rows(f) = {} /\ Loc(item[f], f) = NoPath
<1>1. Alone(f) /\ Phase(f) /\ (Agreed(f) \/ Writing(f) # {} \/ UserRec(f, 0)) /\ f \in Id
  BY DEF Story, Notices, Id
<1>2. CASE \E c : Changing(f, c)
  <2>1. PICK c : Changing(f, c)
    BY <1>2
  <2>2. /\ Waiting(f) \cup Fresh(f) = {c} /\ Writing(f) = {} /\ Right(c, f)
        /\ c \in Fresh(f) /\ c.type = "Update" => \A r \in Rows(f) : r.link.time < item[f].time
    BY <2>1 DEF Changing
  <2>3. CASE Rows(f) = {}
    BY <1>1, <2>2, <2>3 DEF Sound
  <2>4. CASE \E r : Rows(f) = {r} /\ RightRow(c, r, item[f], f, Tied(f))
    <3>1. PICK r : Rows(f) = {r} /\ RightRow(c, r, item[f], f, Tied(f))
      BY <2>4
    <3>2. SoundRow(r, item[f], f, Tied(f))
      <4>1. CASE c.type # "Update"
        BY <3>1, <4>1 DEF RightRow
      <4>2. CASE c.type = "Update"
        <5>1. /\ r.gid = c.gid /\ r.path = c.path /\ c.path = Loc(item[f], f) /\ r.link.parent = item[f].dir
              /\ r.link.time <= item[f].time /\ r.link.hash < item[f].hash /\ Snapshot(c, item[f])
          BY <3>1, <4>2 DEF RightRow
        <5>2. /\ r.gid \in DOMAIN db.files /\ LinkedIn(db, r.gid) /\ r.link = LinkIn(db, r.gid) /\ r.link \in LinkSet
              /\ r.path \in Spots(f, HomeFolder)
          BY <1>1, <3>1, RowIn
        <5>3. r.path # NoPath
          <6>1. HomeFolder \in SUBSET Folder
            BY HomesAreLive
          <6> QED
            BY <1>1, <5>2, <6>1, SpotsIn
        <5>4. item[f].dir # Elsewhere /\ Loc(item[f], f) = Spot(item[f].dir, f)
          BY <1>1, <5>1, <5>3, HereIs
        <5>5. r.link.time # item[f].time
          <6>1. CASE c \in Fresh(f)
            BY <2>2, <3>1, <4>2, <5>2, <6>1, LocIs, <1>1 DEF Alone, Item, LinkSet
          <6>2. CASE c \in Waiting(f)
            BY <4>2, <5>1, <5>2, <6>2, DbNames DEF Snapshot
          <6> QED
            BY <2>2, <6>1, <6>2
        <5>6. item[f].time \in Nat /\ item[f].hash \in Nat /\ r.link.hash \in Nat /\ r.link.time \in Nat
          BY <1>1, <5>2, LocIs DEF Alone, Item, LinkSet
        <5> QED
          BY <5>1, <5>4, <5>5, <5>6 DEF SoundRow
      <4> QED
        BY <4>1, <4>2
    <3> QED
      BY <1>1, <2>2, <3>1, <3>2 DEF Sound
  <2> QED
    BY <2>2, <2>3, <2>4 DEF Right
<1>3. CASE \E w : Sending(f, w)
  <2>1. PICK w : Sending(f, w)
    BY <1>3
  <2>2. Writing(f) = {w} /\ WriteRight(w, f) /\ ~Arrived(w) /\ w.op \notin {"Move", "Delete"}
    BY <2>1 DEF Sending, Arrived
  <2>3. CASE w.op = "New" /\ Rows(f) = {} /\ item[f] = Unborn
    <3>1. Loc(item[f], f) = NoPath
      BY <2>3 DEF Loc, Unborn
    <3> QED
      BY <2>2, <2>3, <3>1 DEF Sound, Agreed
  <2>4. CASE \E r : Rows(f) = {r} /\ WriteRow(w, r, item[f], f, Tied(f))
    <3>1. PICK r : Rows(f) = {r} /\ WriteRow(w, r, item[f], f, Tied(f))
      BY <2>4
    <3>2. AgreedRow(r, item[f], f, Tied(f)) /\ w.op = "Update"
      BY <2>2, <3>1 DEF WriteRow
    <3>3. r.link \in LinkSet /\ r.path \in Spots(f, HomeFolder)
      BY <1>1, <3>1, RowIn
    <3>4. r.path # NoPath
      <4>1. HomeFolder \in SUBSET Folder
        BY HomesAreLive
      <4> QED
        BY <1>1, <3>3, <4>1, SpotsIn
    <3>5. Loc(item[f], f) # NoPath /\ item[f].dir # Elsewhere /\ Loc(item[f], f) = Spot(item[f].dir, f)
      BY <1>1, <3>2, <3>4, HereIs DEF AgreedRow
    <3>6. item[f].time \in Nat /\ item[f].hash \in Nat /\ r.link.hash \in Nat /\ r.link.time \in Nat
      BY <1>1, <3>3, LocIs DEF Alone, Item, LinkSet
    <3>7. SoundRow(r, item[f], f, Tied(f))
      BY <3>2, <3>5, <3>6 DEF SoundRow, AgreedRow, UpToDate
    <3> QED
      BY <2>2, <3>1, <3>2, <3>5, <3>7 DEF Sound, Agreed
  <2> QED
    BY <2>2, <2>3, <2>4 DEF WriteRight
<1>4. CASE Resting(f)
  BY <1>1, <1>4 DEF Resting
<1> QED
  BY <1>1, <1>2, <1>3, <1>4 DEF Phase

LEMMA StopKept ==
  ASSUME Inv, TypeInv', NEW how \in {"killed", "pages"} \cup Id, NEW lasting, NEW torn, Stop(how, lasting, torn),
         how \in Id => ~Clean(how),
         \A id \in File : RowsIn(lasting, id) = RowsIn(db, id),
         \A d \in Folder : LinkedTo(db, Cloud, d) # {} => LinkedTo(lasting, Cloud, d) # {},
         \A g \in Loose(lasting) :
           \/ g \in Loose(db) /\ PathOfRow(lasting, g) = PathOfRow(db, g)
           \/ \E c \in InProgress : c.id \in torn /\ c.id \in File /\ PathOfRow(lasting, g) = c.path
  PROVE  Inv'
<1>1. /\ status' = how /\ token' = 0 /\ batch' = <<>> /\ expected' = <<>> /\ old' = <<>>
      /\ out' = <<>> /\ doomed' = {} /\ changes' = <<>> /\ writes' = {} /\ stuck' = {} /\ db' = lasting
      /\ UNCHANGED <<kind, item, feed>>
  BY DEF Stop, cloudVars, NothingExpected
<1>2. /\ TypeInv /\ HomeFolder' = HomeFolder /\ CloudTyped /\ DOMAIN batch' = {} /\ Range(batch') = {}
      /\ DOMAIN changes' = {} /\ Range(changes') = {} /\ DOMAIN out' = {} /\ Range(out') = {} /\ InProgress' = {}
      /\ DOMAIN expected' = {} /\ DOMAIN old' = {}
  BY <1>1, SameWorld, NothingSeq DEF Inv, TypeInv, InProgress
<1>3. \A id : (Born(id)' <=> Born(id)) /\ Waiting(id)' = {} /\ Fresh(id)' = {} /\ Writing(id)' = {} /\ Entries(id)' = {} /\ Gone(id)' = {}
  BY <1>1, <1>2 DEF Born, Waiting, Fresh, Writing, Entries, Gone
<1>4. \A id \in File : Rows(id)' = Rows(id)
  BY <1>1 DEF Rows
<1>5. Births'
  <2>1. ASSUME NEW g \in DOMAIN db'.files, LinkedIn(db', g) PROVE Born(LinkIn(db', g).id)
    <3>0. PICK id : id = LinkIn(db', g).id
      OBVIOUS
    <3> SUFFICES Born(id)
      BY <3>0
    <3>1. RowOK(db', g, HomeFolder) /\ Tables(db') /\ Tables(db)
      BY <1>2 DEF TypeInv, DbTyped, DbOK
    <3>2. id \in Id /\ (id \in Folder => id \in HomeFolder)
      BY <2>1, <3>0, <3>1 DEF RowOK, LinkSet
    <3>3. CASE id \in Folder
      <4>1. item[id].live /\ ItemOK(item[id], id, LiveFolder, kind)
        BY <1>2, <3>2, <3>3 DEF HomeFolder, LiveFolder, CloudTyped
      <4> QED
        BY <4>1 DEF ItemOK, Born
    <3>4. CASE id \in File
      <4>1. RowsIn(db', id) # {}
        BY <2>1, <3>0, <3>1, RowsAre
      <4>2. Rows(id) # {}
        BY <1>1, <3>4, <4>1 DEF Rows
      <4> QED
        BY <3>1, <4>2, RowsAre DEF Rows, Inv, Births
    <3> QED
      BY <3>2, <3>3, <3>4 DEF Id
  <2>2. /\ \A id \in Id : Born(id) \/ item[id] = Unborn
        /\ \A n \in DOMAIN feed : Born(feed[n].id)
    BY DEF Inv, Births
  <2> QED
    BY <1>1, <1>2, <2>1, <2>2 DEF Births, Born, Unborn
<1>6. OnePath'
  BY <1>2 DEF OnePath
<1>7. FolderStory'
  <2> SUFFICES ASSUME NEW d \in HomeFolder, LinkedTo(lasting, Cloud, d) = {}
               PROVE  \E n \in DOMAIN feed : feed[n].id = d /\ n > 0
    BY <1>1, <1>2 DEF FolderStory
  <2>1. LinkedTo(db, Cloud, d) = {}
    BY HomesAreLive
  <2>2. PICK n \in DOMAIN feed : feed[n].id = d
    BY <2>1 DEF Inv, FolderStory
  <2>3. n > 0
    BY <1>2, SeqFacts DEF CloudTyped
  <2> QED
    BY <2>2, <2>3
<1>8. ASSUME NEW f \in File, Clean(f)' PROVE Story(f)'
  <2>1. /\ Clean(f) /\ (Tied(f)' <=> Tied(f)) /\ f \notin torn
        /\ \A w \in Writing(f) : w.stage # "arrived" /\ w.op \notin {"Move", "Delete"}
        /\ \A c \in Waiting(f) : c.id # how => ~(c.type = "Update" /\ Linked(c.gid) /\ Link(c.gid).time = c.time)
    <3>1. f \in Id /\ fate'[f] \subseteq {"same second"}
      BY <1>8 DEF Clean, Id
    <3> DEFINE late == {w.id : w \in {w \in writes : w.stage = "arrived"}}
               lost == {w.id : w \in {w \in writes : w.stage # "arrived" /\ w.op \in {"Move", "Delete"}}}
               rest == {c \in Range(changes) : c.type = "Update" /\ c.id # how /\ Linked(c.gid) /\ Link(c.gid).time = c.time}
    <3>2. fate' = [id \in Id |-> fate[id]
                    \cup (IF id \in torn THEN {"torn"} ELSE {})
                    \cup (IF \E c \in rest : c.id = id THEN {"halved"} ELSE {})
                    \cup (IF id \in late THEN {"overtaken"} ELSE {})
                    \cup (IF id \in lost THEN {"failed"} ELSE {})]
      BY DEF Stop
    <3> HIDE DEF late, lost, rest
    <3>3. fate'[f] = fate[f]
                    \cup (IF f \in torn THEN {"torn"} ELSE {})
                    \cup (IF \E c \in rest : c.id = f THEN {"halved"} ELSE {})
                    \cup (IF f \in late THEN {"overtaken"} ELSE {})
                    \cup (IF f \in lost THEN {"failed"} ELSE {})
      BY <3>1, <3>2
    <3>4. f \notin torn /\ ~(\E c \in rest : c.id = f) /\ f \notin late /\ f \notin lost
      <4>1. "torn" \notin fate'[f] /\ "halved" \notin fate'[f] /\ "overtaken" \notin fate'[f] /\ "failed" \notin fate'[f]
        BY <3>1
      <4> QED
        BY <3>3, <4>1
    <3>5. fate'[f] = fate[f]
      BY <3>3, <3>4
    <3>6. Clean(f) /\ (Tied(f)' <=> Tied(f))
      BY <1>8, <3>5 DEF Clean, Tied
    <3>7. \A w \in Writing(f) : w.stage # "arrived" /\ w.op \notin {"Move", "Delete"}
      BY <3>4 DEF Writing, late, lost
    <3>8. \A c \in Waiting(f) : c.id # how => ~(c.type = "Update" /\ Linked(c.gid) /\ Link(c.gid).time = c.time)
      BY <3>4 DEF Waiting, rest
    <3> QED
      BY <3>4, <3>6, <3>7, <3>8
  <2>2. Story(f) /\ Alone(f) /\ FolderFirst(f) /\ f \in Id
    BY <2>1 DEF Inv, Stories, Story, Id
  <2>3. f # how
    BY <2>1, <2>2
  <2>4. \A c \in Waiting(f) : ~(c.type = "Update" /\ Linked(c.gid) /\ Link(c.gid).time = c.time)
    BY <2>1, <2>3 DEF Waiting
  <2>5. /\ Sound(f) /\ (Agreed(f) \/ UserRec(f, 0))
        /\ \A w \in Writing(f) : w.op = "New" => Rows(f) = {} /\ Loc(item[f], f) = NoPath
    BY <1>2, <2>1, <2>2, <2>4, Surviving
  <2>6. Rows(f)' = Rows(f) /\ item'[f] = item[f]
    BY <1>1, <1>4
  <2>7. /\ Sound(f)' /\ (Agreed(f) => Agreed(f)') /\ Loc(item[f], f)' = Loc(item[f], f) /\ Here(f)' = Here(f)
        /\ (UserRec(f, 0) => UserRec(f, 0)' /\ UserRec(f, token)')
    <3>1. Sound(f)' <=> Sound(f)
      BY <1>1, <2>1, <2>6 DEF Sound, SoundRow, Spot
    <3>2. Agreed(f)' <=> Agreed(f)
      BY <1>1, <2>1, <2>6 DEF Agreed, AgreedRow, UpToDate, Loc, Spot
    <3>3. Loc(item[f], f)' = Loc(item[f], f) /\ Here(f)' = Here(f)
      BY <2>6 DEF Loc, Spot, Here
    <3>4. UserRec(f, 0) => UserRec(f, 0)' /\ UserRec(f, token)'
      BY <1>1, <3>3 DEF UserRec
    <3> QED
      BY <2>5, <3>1, <3>2, <3>3, <3>4
  <2>8. \A id \in File : \A p : Tracks(id, p)' => Tracks(id, p)
    BY <1>3, <1>4 DEF Tracks
  <2>9. \A p : Claims(f, p)' => Claims(f, p)
    BY <2>7, <2>8 DEF Claims
  <2>10. Alone(f)'
    <3>1. item[f]'.dir \in Folder => item[f]'.dir \in HomeFolder'
      BY <1>2, <2>2, <2>6 DEF Alone
    <3>2. ASSUME NEW id \in File, NEW p, id # f, Claims(f, p)', Touches(id, p)' PROVE FALSE
      <4>1. Apparent(item[id], id)' = Apparent(item[id], id)
        BY <1>1 DEF Apparent, PathIn
      <4>2. Touches(id, p)
        BY <1>3, <2>8, <3>2, <4>1 DEF Touches
      <4> QED
        BY <2>2, <2>9, <3>2, <4>2 DEF Alone
    <3>3. ASSUME NEW g \in Loose(lasting), Claims(f, PathOfRow(lasting, g))' PROVE FALSE
      <4>1. Claims(f, PathOfRow(lasting, g))
        BY <2>9, <3>3, <1>1
      <4>2. CASE \E c \in InProgress : c.id \in torn /\ c.id \in File /\ PathOfRow(lasting, g) = c.path
        <5>1. PICK c \in InProgress : c.id \in torn /\ c.id \in File /\ PathOfRow(lasting, g) = c.path
          BY <4>2
        <5>2. Touches(c.id, c.path)
          BY DEF InProgress, Touches, Tracks, Waiting, Fresh
        <5> QED
          BY <2>1, <2>2, <4>1, <5>1, <5>2 DEF Alone
      <4>3. CASE g \in Loose(db) /\ PathOfRow(lasting, g) = PathOfRow(db, g)
        <5>1. PICK w \in Writing(f) : w.gid = g
          BY <2>2, <4>1, <4>3 DEF Alone
        <5>2. w.op = "New"
          <6>1. WriteOK(w, db, HomeFolder, kind)
            BY <1>2, WrittenIs DEF Writing
          <6> QED
            BY <4>3, <5>1, <6>1 DEF WriteOK, Loose
        <5>3. Rows(f) = {} /\ Loc(item[f], f) = NoPath
          BY <2>5, <5>2
        <5>4. \A p : ~Tracks(f, p)'
          BY <1>3, <2>6, <5>3 DEF Tracks
        <5>5. Claims(f, PathOfRow(lasting, g))' => Loc(item[f], f)' # NoPath
          BY <1>1, <5>4 DEF Claims
        <5> QED
          BY <2>7, <3>3, <5>3, <5>5
      <4> QED
        BY <4>2, <4>3
    <3> QED
      BY <1>1, <3>1, <3>2, <3>3 DEF Alone
  <2>11. OneChange(f)'
    BY <1>1, <1>2, <1>3 DEF OneChange, Once
  <2>12. Phase(f)'
    <3>1. Silent(f)'
      BY <1>2 DEF Silent
    <3>2. Resting(f)'
      BY <1>3, <2>5, <2>7, <3>1 DEF Resting, Behind
    <3> QED
      BY <3>2 DEF Phase
  <2>13. Notices(f)'
    <3>1. LastSay(f)'
      BY <1>1, <1>3, <2>2, <2>7, <2>9 DEF LastSay, Story, Notices
    <3> QED
      BY <1>3, <2>5, <2>7, <3>1 DEF Notices
  <2>14. FolderFirst(f)'
    <3> SUFFICES ASSUME (kind = "google" /\ item[f].dir \in Folder /\ LinkedTo(db, Cloud, item[f].dir) = {})'
                 PROVE  FolderFirst(f)'
      BY DEF FolderFirst
    <3>1. kind = "google" /\ item[f].dir \in Folder /\ LinkedTo(db, Cloud, item[f].dir) = {}
      BY <1>1
    <3>2. /\ Rows(f) = {} /\ \A m, n \in DOMAIN feed : feed[m].id = item[f].dir /\ feed[n].id = f => m < n
      BY <2>2, <3>1 DEF FolderFirst
    <3>3. item[f].dir \in HomeFolder
      BY <2>2, <3>1 DEF Alone
    <3>4. PICK n \in DOMAIN feed : feed[n].id = item[f].dir
      BY <3>1, <3>3 DEF Inv, FolderStory
    <3>5. n > 0
      BY <1>2, SeqFacts DEF CloudTyped
    <3> QED
      BY <1>1, <1>3, <2>6, <3>2, <3>4, <3>5 DEF FolderFirst
  <2> QED
    BY <2>10, <2>11, <2>12, <2>13, <2>14 DEF Story
<1>9. Stories'
  <2> SUFFICES ASSUME NEW f \in File, Clean(f)' PROVE Story(f)'
    BY DEF Stories
  <2> QED
    BY <1>8
<1>10. ThrownOver'
  <2> SUFFICES ASSUME NEW f, f = how, f \in Id, Clean(f)' PROVE FALSE
    BY <1>1 DEF ThrownOver
  <2>1. fate[f] \subseteq fate'[f]
    BY DEF Stop
  <2> QED
    BY <2>1 DEF Clean
<1> QED
  BY <1>5, <1>6, <1>7, <1>9, <1>10 DEF Inv

LEMMA NewRowMore ==
  ASSUME TypeInv, NEW id \in File, NEW p \in Spots(id, HomeFolder), NEW c, c.path = p, NEW e, e = NewRow(db, c)
  PROVE  \A g \in Loose(e) : \/ g \in Loose(db) /\ PathOfRow(e, g) = PathOfRow(db, g)
                             \/ PathOfRow(e, g) = p
<1> DEFINE b == WithParents(db, p)
           n == NewId(b)
<1>1. /\ DbOK(b, HomeFolder) /\ Loose(b) = Loose(db) /\ p \in Paths
      /\ \A g \in Loose(b) : PathOfRow(b, g) = PathOfRow(db, g)
  BY ParentsMade
<1>2. e = WithFile(b, p, None) /\ Tables(b)
  BY <1>1 DEF NewRow, DbOK
<1> HIDE DEF b
<1>3. PathOfRow(e, n) = p /\ Others(b, e, n)
  BY <1>1, <1>2, RowAdded
<1> HIDE DEF n
<1> QED
  BY <1>1, <1>3, LooseKept

LEMMA ThrowsKept ==
  ASSUME Inv, TypeInv', NEW k \in DOMAIN changes, Throws(k) PROVE Inv'
<1> DEFINE c == changes[k]
<1>1. /\ TypeInv /\ ChangeOK(c, db, HomeFolder) /\ c.id \in Id /\ Stop(c.id, db, {}) /\ c.type # "New"
      /\ (c.gid \notin DOMAIN db.files \/ (c.type # "Delete" /\ RowPath(c.gid) # c.path))
  BY ChangeIs DEF Throws, ChangeOK, Inv, InPlace
<1>2. ASSUME NEW f, f = c.id, Clean(f) PROVE FALSE
  <2>1. Right(c, f) /\ f \in Id
    BY <1>1, <1>2, ChangingIs DEF Changing, Clean
  <2>2. PICK r : Rows(f) = {r} /\ RightRow(c, r, item[f], f, Tied(f))
    BY <1>1, <2>1 DEF Right
  <2>3. r.gid = c.gid /\ r.path = c.path
    BY <2>2 DEF RightRow
  <2>4. r.gid \in DOMAIN db.files /\ r.path = PathOfRow(db, r.gid)
    BY <1>1, <2>1, <2>2, RowIn
  <2> QED
    BY <1>1, <2>3, <2>4, DbNames
<1>3. ~Clean(c.id)
  BY <1>2
<1> HIDE DEF c
<1> QED
  BY <1>1, <1>3, StopKept

LEMMA DieMidwayKept ==
  ASSUME Inv, TypeInv', NEW k \in DOMAIN changes, DieMidway(k) PROVE Inv'
<1> DEFINE c == changes[k]
           e == NewRow(db, c)
<1>1. c.id \in File /\ Stop("killed", e, {c.id}) /\ TypeInv /\ c \in InProgress /\ "killed" \notin Id
  BY ChangeIs, Names DEF DieMidway, Inv
<1>2. c.path \in Spots(c.id, HomeFolder)
  BY <1>1, ChangeIs DEF ChangeOK
<1>3. /\ DbOK(e, HomeFolder) /\ (\A id \in File : RowsIn(e, id) = RowsIn(db, id))
      /\ \A d \in Folder : LinkedTo(db, Cloud, d) # {} => RowsIn(e, d) = RowsIn(db, d)
  BY <1>1, <1>2, NewRowIs
<1>4. \A g \in Loose(e) : \/ g \in Loose(db) /\ PathOfRow(e, g) = PathOfRow(db, g)
                          \/ PathOfRow(e, g) = c.path
  BY <1>1, <1>2, NewRowMore
<1> HIDE DEF e, c
<1>5. \A d \in Folder : LinkedTo(db, Cloud, d) # {} => LinkedTo(e, Cloud, d) # {}
  <2> TAKE d \in Folder
  <2>1. Tables(e) /\ Tables(db)
    BY <1>1, <1>3 DEF DbOK, TypeInv, DbTyped
  <2> QED
    BY <1>3, <2>1, RowsAre
<1>6. \A g \in Loose(e) :
           \/ g \in Loose(db) /\ PathOfRow(e, g) = PathOfRow(db, g)
           \/ \E x \in InProgress : x.id \in {c.id} /\ x.id \in File /\ PathOfRow(e, g) = x.path
  BY <1>1, <1>4
<1> QED
  BY <1>1, <1>3, <1>5, <1>6, StopKept

LEMMA EndKept ==
  ASSUME Inv, TypeInv', NEW how \in {"killed", "pages"}, Stop(how, db, {}) PROVE Inv'
<1>1. how \notin Id
  BY Names
<1> QED
  BY <1>1, StopKept

(* A step that is not about any file. *)
LEMMA StillKept ==
  ASSUME Inv, TypeInv', Aside, UNCHANGED <<changes, writes, stuck, db, expected, fate>>, ThrownOver'
  PROVE  Inv'
<1>1. TypeInv /\ FoldersKept /\ World
  BY SameWorld DEF Inv, FoldersKept, Aside
<1>2. \A id : /\ Waiting(id)' = Waiting(id) /\ Fresh(id)' = Fresh(id) /\ Writing(id)' = Writing(id) /\ Rows(id)' = Rows(id)
              /\ Tied(id)' = Tied(id) /\ (Once(changes, id) => Once(changes', id))
  BY DEF Waiting, Fresh, Writing, Rows, Tied, Aside
<1>3. InProgress' = InProgress
  BY DEF InProgress, Aside
<1>4. Births' /\ OnePath' /\ FolderStory'
  <2>1. \A w \in writes' : IF w.op = "New" /\ w.stage # "arrived"
                           THEN ~Born(w.id) /\ \A v \in writes' : v.id = w.id => v = w
                           ELSE Born(w.id)
    BY DEF Inv, Births
  <2> QED
    BY <1>1, <1>2, <1>3, <2>1, AsideKept
<1>5. ASSUME NEW f \in File, Clean(f)' PROVE Story(f)'
  <2>1. Clean(f) /\ Story(f)
    BY <1>5 DEF Inv, Stories, Clean
  <2>2. SameOf(f)
    BY <1>2 DEF SameOf, Aside
  <2>3. \A id \in File : \A p : Touches(id, p)' => Touches(id, p)
    BY <1>2, TouchesAside DEF Tracks
  <2>4. Alone(f)'
    BY <1>1, <2>1, <2>2, <2>3, AloneKept DEF Story
  <2>5. \A key : key = f \/ Claims(f, key) =>
          /\ key \in DOMAIN expected' => key \in DOMAIN expected
          /\ \A t : Expects(expected, key, t) => Expects(expected', key, t)
    OBVIOUS
  <2>6. /\ Rows(f)' = Rows(f) /\ Waiting(f)' = Waiting(f) /\ Writing(f)' = Writing(f)
        /\ (Tied(f)' <=> Tied(f)) /\ (Once(changes, f) => Once(changes', f))
    BY <1>2
  <2> QED
    BY <1>1, <1>5, <2>1, <2>4, <2>5, <2>6, WorkFrame
<1>6. Stories'
  <2> SUFFICES ASSUME NEW f \in File, Clean(f)' PROVE Story(f)'
    BY DEF Stories
  <2> QED
    BY <1>5
<1> QED
  BY <1>4, <1>6 DEF Inv

LEMMA RestartKept ==
  ASSUME Inv, TypeInv', Restart PROVE Inv'
<1>1. /\ Aside /\ UNCHANGED <<changes, writes, stuck, db, expected, fate>> /\ status' = "up"
  BY DEF Restart, cloudVars, batchVars, workVars, Aside
<1>2. ThrownOver'
  BY <1>1, Names DEF ThrownOver
<1> QED
  BY <1>1, <1>2, StillKept

LEMMA StutterKept ==
  ASSUME Inv, UNCHANGED vars PROVE Inv'
<1>1. /\ Aside /\ UNCHANGED <<changes, writes, stuck, db, expected, fate, status>> /\ TypeInv'
  BY StutterTyped DEF vars, cloudVars, batchVars, workVars, Aside, Inv
<1>2. ThrownOver'
  BY <1>1 DEF ThrownOver, Inv, Clean
<1> QED
  BY <1>1, <1>2, StillKept

LEMMA CarryKept ==
  ASSUME Inv, TypeInv', Carry PROVE Inv'
BY CarryNewKept, CarryUpdateKept, CarryMoveKept, CarryDeleteKept, CarryFailsKept, ThrowsKept
   DEF Carry

LEMMA CrashKept ==
  ASSUME Inv, TypeInv', Crash PROVE Inv'
<1>1. ASSUME Die PROVE Inv'
  BY <1>1, EndKept DEF Die
<1> QED
  BY <1>1, DieMidwayKept, RestartKept DEF Crash

LEMMA InitKept ==
  ASSUME Init PROVE Inv
<1>1. /\ kind \in Kinds /\ feed = <<>> /\ token = 0 /\ batch = <<>> /\ working = FALSE
      /\ expected = <<>> /\ old = <<>> /\ pathMap = <<>> /\ out = <<>> /\ doomed = {}
      /\ changes = <<>> /\ writes = {} /\ stuck = {} /\ status = "up" /\ fate = [id \in Id |-> {}]
  BY DEF Init, NothingExpected
<1>2. PICK have \in SUBSET Id :
        /\ Cardinality(have \cap File) <= 1
        /\ item = [id \in Id |-> IF id \in have THEN InitialItem ELSE Unborn]
        /\ db = Recorded(SetToSeq(have))
  BY DEF Init
<1>3. \A id \in Id : /\ item[id].dir = Home /\ (item[id].live <=> id \in have) /\ (item[id].live \/ item[id] = Unborn)
                     /\ id \in have => item[id].time = 1 /\ item[id].hash = 1 /\ item[id].live
  BY <1>2 DEF InitialItem, Unborn
<1>4. have \cap Folder \subseteq HomeFolder /\ HomeFolder \subseteq have
  BY <1>3 DEF LiveFolder, HomeFolder, Id
<1>5. TypeInv
  BY InitTyped
<1>6. /\ DbOK(db, HomeFolder)
      /\ Loose(db) = {} /\ \A g \in DOMAIN db.files : LinkIn(db, g).id \in have
      /\ \A id \in have : \E g \in DOMAIN db.files : LinkIn(db, g).id = id
      /\ \A a, b \in DOMAIN db.files : LinkIn(db, a).id = LinkIn(db, b).id => a = b
      /\ \A g \in DOMAIN db.files :
           /\ LinkedIn(db, g) /\ PathOfRow(db, g) = Spot(Home, LinkIn(db, g).id)
           /\ LinkIn(db, g).parent = Home
           /\ LinkIn(db, g).time = 1 /\ (LinkIn(db, g).id \in File => LinkIn(db, g).hash = 1)
  BY <1>2, <1>4, RecordedTyped
<1>7. \A id \in Id : id \notin have => item[id] = Unborn /\ Rows(id) = {}
  <2> SUFFICES ASSUME NEW id \in Id, id \notin have PROVE Rows(id) = {}
    BY <1>3
  <2>1. Tables(db)
    BY <1>6 DEF DbOK
  <2> QED
    BY <1>6, <2>1, RowsAre DEF Rows
<1>8. \A f \in File, g \in File : f \in have /\ g \in have => f = g
  <2>1. IsFiniteSet(have \cap File)
    BY Names, FS_Subset
  <2> SUFFICES ASSUME NEW f \in File, NEW g \in File, f \in have, g \in have, f # g PROVE FALSE
    OBVIOUS
  <2>2. {f, g} \subseteq have \cap File /\ f # g
    OBVIOUS
  <2>3. Cardinality({f, g}) <= Cardinality(have \cap File) /\ Cardinality(have \cap File) \in Nat /\ Cardinality({f, g}) \in Nat
    BY <2>1, <2>2, FS_Subset, FS_CardinalityType
  <2>4. Cardinality({f, g}) = 2
    <3>1. IsFiniteSet({f}) /\ Cardinality({f}) = 1 /\ {f, g} = {f} \cup {g} /\ g \notin {f}
      BY <2>2, FS_Singleton
    <3>2. Cardinality({f} \cup {g}) = Cardinality({f}) + 1
      BY <3>1, FS_AddElement
    <3> QED
      BY <3>1, <3>2
  <2> QED
    BY <1>2, <2>3, <2>4
<1>9. /\ DOMAIN feed = {} /\ DOMAIN batch = {} /\ Range(batch) = {} /\ Range(changes) = {} /\ Range(out) = {} /\ InProgress = {}
      /\ DOMAIN expected = {} /\ DOMAIN old = {} /\ DOMAIN out = {} /\ DOMAIN changes = {}
  BY <1>1, NothingSeq DEF InProgress
<1>10. \A id : Waiting(id) = {} /\ Fresh(id) = {} /\ Writing(id) = {} /\ Entries(id) = {} /\ Gone(id) = {}
  BY <1>1, <1>9 DEF Waiting, Fresh, Writing, Entries, Gone
<1>11. Births
  <2>1. \A id \in have : Born(id)
    BY <1>3 DEF Born
  <2>2. \A id \in Id : Born(id) \/ item[id] = Unborn
    BY <1>7, <2>1
  <2> QED
    BY <1>1, <1>6, <1>9, <2>1, <2>2 DEF Births
<1>12. OnePath
  BY <1>9 DEF OnePath
<1>13. FolderStory
  <2> SUFFICES ASSUME NEW d \in HomeFolder, LinkedTo(db, Cloud, d) = {} PROVE FALSE
    BY DEF FolderStory
  <2>1. Tables(db)
    BY <1>6 DEF DbOK
  <2>2. PICK g \in DOMAIN db.files : LinkIn(db, g).id = d
    BY <1>4, <1>6
  <2>3. LinkedIn(db, g) /\ \A id : LinkedTo(db, Cloud, id) =
                      {x \in DOMAIN db.files : LinkedIn(db, x) /\ LinkIn(db, x).id = id}
    BY <1>6, <2>1, <2>2, Key
  <2> QED
    BY <2>2, <2>3
<1>14. ASSUME NEW f \in File PROVE Story(f)
  <2>1. f \in Id /\ item[f].dir = Home /\ Home \notin Folder /\ Home # Elsewhere
    BY <1>3, Names DEF Id
  <2>2. f \in have => \E r : Rows(f) = {r} /\ r.path = Spot(Home, f) /\ r.link.parent = Home /\ r.link.time = 1 /\ r.link.hash = 1
    <3> SUFFICES ASSUME f \in have
                 PROVE  \E r : Rows(f) = {r} /\ r.path = Spot(Home, f) /\ r.link.parent = Home /\ r.link.time = 1 /\ r.link.hash = 1
      OBVIOUS
    <3>0. Tables(db)
      BY <1>6 DEF DbOK
    <3>1. PICK g \in DOMAIN db.files : LinkIn(db, g).id = f
      BY <1>6
    <3>2. PICK r : r = [gid |-> g, path |-> PathOfRow(db, g), link |-> LinkIn(db, g)]
      OBVIOUS
    <3>3. r \in Rows(f)
      BY <1>6, <3>0, <3>1, <3>2, RowsAre DEF Rows
    <3>4. \A x \in Rows(f) : x = r
      <4> SUFFICES ASSUME NEW x \in Rows(f) PROVE x = r
        OBVIOUS
      <4>1. PICK h \in LinkedTo(db, Cloud, f) : x = [gid |-> h, path |-> PathOfRow(db, h), link |-> LinkIn(db, h)]
        BY DEF Rows, RowsIn
      <4>2. h \in DOMAIN db.files /\ LinkIn(db, h).id = f
        BY <3>0, Key
      <4>3. h = g
        BY <1>6, <3>1, <4>2
      <4> QED
        BY <3>2, <4>1, <4>3
    <3>5. Rows(f) = {r}
      BY <3>3, <3>4
    <3> QED
      BY <1>6, <3>1, <3>2, <3>5
  <2>3. \A p : Claims(f, p) => f \in have
    BY <1>3, <1>7, <1>10, <2>1 DEF Claims, Tracks, Loc
  <2>4. Alone(f)
    <3>1. ASSUME NEW id \in File, NEW p, id # f, Claims(f, p), Touches(id, p), p # NoPath PROVE FALSE
      <4>1. id \notin have /\ id \in Id
        BY <1>8, <2>3, <3>1 DEF Id
      <4>2. Apparent(item[id], id) = NoPath
        BY <1>7, <4>1 DEF Apparent, Unborn
      <4> QED
        BY <1>7, <1>10, <3>1, <4>1, <4>2 DEF Touches, Tracks
    <3>2. \A p : Claims(f, p) => p # NoPath
      <4> SUFFICES ASSUME NEW p, Claims(f, p), Tracks(f, p) PROVE p # NoPath
        BY DEF Claims
      <4>1. p \in Spots(f, HomeFolder) /\ HomeFolder \in SUBSET Folder
        BY <1>5, <2>1, TracksIn, HomesAreLive
      <4> QED
        BY <2>1, <4>1, SpotsIn
    <3> QED
      BY <1>1, <1>6, <2>1, <3>1, <3>2 DEF Alone
  <2>5. OneChange(f)
    BY <1>1, <1>9, <1>10 DEF OneChange, Once
  <2>6. Sound(f) /\ Agreed(f)
    <3>1. CASE f \in have
      <4>1. item[f].time = 1 /\ item[f].hash = 1 /\ Loc(item[f], f) = Spot(Home, f) /\ Loc(item[f], f) # NoPath
        BY <1>3, <2>1, <3>1, SpotKinds DEF Loc
      <4> QED
        BY <2>1, <2>2, <3>1, <4>1 DEF Sound, Agreed, SoundRow, AgreedRow, UpToDate
    <3>2. CASE f \notin have
      BY <1>3, <1>7, <2>1, <3>2 DEF Sound, Agreed, Loc
    <3> QED
      BY <3>1, <3>2
  <2>7. Phase(f)
    BY <1>10, <2>6 DEF Phase, Resting
  <2>8. Notices(f)
    BY <1>9, <1>10, <2>6 DEF Notices, LastSay
  <2>9. FolderFirst(f)
    BY <2>1 DEF FolderFirst
  <2> QED
    BY <2>4, <2>5, <2>7, <2>8, <2>9 DEF Story
<1>15. ThrownOver
  BY <1>1, Names DEF ThrownOver
<1> QED
  BY <1>5, <1>11, <1>12, <1>13, <1>14, <1>15 DEF Inv, Stories

(* A step of a write to one file, as another sees it. *)
Apart(f, g) ==
  /\ Rows(f)' = Rows(f) /\ Writing(f)' = Writing(f)
  /\ \A p : Claims(f, p) /\ Tracks(g, p)' => Touches(g, p)
  /\ \A p \in stuck' : p \in stuck \/ ~Claims(f, p)
  /\ \A h \in Loose(db') : \/ h \in Loose(db) /\ PathOfRow(db', h) = PathOfRow(db, h)
                           \/ ~Claims(f, PathOfRow(db', h))
  /\ \A w \in writes' : \/ \E v \in writes : v.gid = w.gid /\ v.id = w.id
                        \/ \A r \in Rows(f) : r.gid # w.gid
  /\ \A k : k = f \/ Claims(f, k) =>
       /\ k \in DOMAIN expected' => k \in DOMAIN expected
       /\ \A t : Expects(expected, k, t) => Expects(expected', k, t)

LEMMA ApartKept ==
  ASSUME TypeInv, Aside, UNCHANGED changes, FoldersKept, NEW g \in File, NEW f \in File, f # g,
         Story(f), Tied(f)' <=> Tied(f), Apart(f, g), \A id \in File : \A p : id # g /\ Tracks(id, p)' => Tracks(id, p)
  PROVE  Story(f)'
<1>1. Waiting(f)' = Waiting(f) /\ (Once(changes, f) => Once(changes', f)) /\ Fresh(f)' = Fresh(f)
  BY DEF Waiting, Once, Aside, Fresh
<1>2. /\ Rows(f)' = Rows(f) /\ Writing(f)' = Writing(f)
      /\ \A p : Claims(f, p) /\ Tracks(g, p)' => Touches(g, p)
      /\ \A p \in stuck' : p \in stuck \/ ~Claims(f, p)
      /\ \A h \in Loose(db') : \/ h \in Loose(db) /\ PathOfRow(db', h) = PathOfRow(db, h)
                               \/ ~Claims(f, PathOfRow(db', h))
      /\ \A w \in writes' : \/ \E v \in writes : v.gid = w.gid /\ v.id = w.id
                            \/ \A r \in Rows(f) : r.gid # w.gid
      /\ \A k : k = f \/ Claims(f, k) =>
           /\ k \in DOMAIN expected' => k \in DOMAIN expected
           /\ \A t : Expects(expected, k, t) => Expects(expected', k, t)
  BY DEF Apart
<1>3. SameOf(f)
  BY <1>1, <1>2 DEF SameOf, Aside
<1>4. \A id \in File : \A p : id # f /\ Claims(f, p) /\ Touches(id, p)' => Touches(id, p)
  BY <1>2, TouchesAside
<1>5. World /\ Alone(f)
  BY SameWorld DEF Aside, Story
<1>6. Alone(f)'
  BY <1>2, <1>3, <1>4, <1>5, AloneKept
<1> QED
  BY <1>1, <1>2, <1>6, WorkFrame

LEMMA WritesKept ==
  ASSUME Inv, TypeInv', Aside, UNCHANGED <<changes, status>>, FoldersKept, NEW g \in File,
         \A f \in File : Clean(f)' => Clean(f) /\ (f # g => (Tied(f)' <=> Tied(f))),
         \A f \in File : f # g /\ Story(f) /\ Clean(f)' => Apart(f, g),
         \A id \in File : \A p : id # g /\ Tracks(id, p)' => Tracks(id, p),
         \A id \in File : Rows(id)' # {} => Rows(id) # {} \/ Born(id),
         \A w \in writes' : IF w.op = "New" /\ w.stage # "arrived"
                            THEN ~Born(w.id) /\ \A v \in writes' : v.id = w.id => v = w
                            ELSE Born(w.id),
         Clean(g)' => Story(g)'
  PROVE  Inv'
<1>1. TypeInv
  BY DEF Inv
<1>2. InProgress' = InProgress
  BY DEF InProgress, Aside
<1>3. Births' /\ OnePath' /\ FolderStory'
  BY <1>2, AsideKept
<1>4. ASSUME NEW f \in File, Clean(f)' PROVE Story(f)'
  <2>1. CASE f = g
    BY <1>4, <2>1
  <2>2. CASE f # g
    <3>1. Clean(f) /\ (Tied(f)' <=> Tied(f))
      BY <1>4, <2>2
    <3>2. Story(f)
      BY <3>1 DEF Inv, Stories
    <3> QED
      BY <1>1, <1>4, <2>2, <3>1, <3>2, ApartKept
  <2> QED
    BY <2>1, <2>2
<1>5. Stories'
  BY <1>4 DEF Stories, Clean
<1>6. ThrownOver'
  <2> SUFFICES ASSUME status \in Id, Clean(status)' PROVE FALSE
    BY DEF ThrownOver
  <2>1. status \in File
    BY DEF Clean
  <2> QED
    BY <2>1 DEF Inv, ThrownOver
<1> QED
  BY <1>3, <1>5, <1>6 DEF Inv

(* A write ends, or goes on. *)
LEMMA Another ==
  ASSUME Inv, NEW w \in writes, NEW f \in File, f # w.id, Story(f)
  PROVE  /\ ~Claims(f, w.path) /\ ~Claims(f, w.to) /\ w.id # f
         /\ \A r \in Rows(f) : r.gid # w.gid
<1>1. w.id \in File
  BY DEF Inv, TypeInv, WritesTyped, WriteOK, Request
<1>2. Touches(w.id, w.path) /\ Touches(w.id, w.to)
  BY DEF Touches, Tracks, Writing
<1> QED
  BY <1>1, <1>2 DEF Story, Alone

LEMMA FailKept ==
  ASSUME Inv, TypeInv', NEW w \in writes, Fail(w) PROVE Inv'
<1>1. /\ Aside /\ UNCHANGED <<changes, status, expected, db>> /\ writes' = writes \ {w}
      /\ stuck' = stuck \cup {w.path} /\ Suffers({w.id}, "failed")
  BY DEF Fail, cloudVars, batchVars, Aside
<1>2. TypeInv /\ w.id \in File /\ fate \in [Id -> SUBSET Fates]
  BY DEF Inv, TypeInv, WritesTyped, WriteOK, Request, RestTyped
<1>3. FoldersKept
  BY <1>1 DEF FoldersKept
<1>4. \A f \in File : Clean(f)' => f # w.id /\ Clean(f) /\ (Tied(f)' <=> Tied(f))
  BY <1>1, <1>2, SufferedClean
<1>5. \A id : Rows(id)' = Rows(id) /\ Waiting(id)' = Waiting(id) /\ Fresh(id)' = Fresh(id) /\ Writing(id)' \subseteq Writing(id)
  BY <1>1 DEF Rows, Waiting, Fresh, Writing, Aside
<1>6. \A id, p : Tracks(id, p)' => Tracks(id, p)
  BY <1>5 DEF Tracks
<1>7. ASSUME NEW f \in File, f # w.id, Story(f) PROVE Apart(f, w.id)
  <2>1. Writing(f)' = Writing(f)
    BY <1>1, <1>7 DEF Writing
  <2>2. \A p : Tracks(w.id, p)' => Touches(w.id, p)
    BY <1>6 DEF Touches
  <2> QED
    BY <1>1, <1>5, <1>7, <2>1, <2>2, Another DEF Apart
<1>8. \A v \in writes' : IF v.op = "New" /\ v.stage # "arrived"
                         THEN ~Born(v.id) /\ \A x \in writes' : x.id = v.id => x = v
                         ELSE Born(v.id)
  BY <1>1 DEF Inv, Births
<1>9. \A id \in File : Rows(id)' # {} => Rows(id) # {} \/ Born(id)
  BY <1>5
<1> QED
  BY <1>1, <1>2, <1>3, <1>4, <1>6, <1>7, <1>8, <1>9, WritesKept

LEMMA GoesAstrayKept ==
  ASSUME Inv, TypeInv', NEW w \in writes, GoesAstray(w) PROVE Inv'
<1> DEFINE u == [w EXCEPT !.stage = "arrived", !.time = item[w.id].time + 1]
<1>1. /\ Aside /\ UNCHANGED <<changes, status, expected, db, stuck>> /\ writes' = (writes \ {w}) \cup {u}
      /\ Suffers({w.id}, "astray") /\ w.stage = "sent" /\ w.op = "Update"
  BY DEF GoesAstray, cloudVars, batchVars, Aside
<1>2. TypeInv /\ w.id \in File /\ fate \in [Id -> SUBSET Fates] /\ w \in Request
  BY DEF Inv, TypeInv, WritesTyped, WriteOK, Request, RestTyped
<1>3. u.id = w.id /\ u.gid = w.gid /\ u.path = w.path /\ u.to = w.to /\ u.op = w.op /\ u.stage = "arrived"
  BY <1>2 DEF Request
<1> HIDE DEF u
<1>4. FoldersKept
  BY <1>1 DEF FoldersKept
<1>5. \A f \in File : Clean(f)' => f # w.id /\ Clean(f) /\ (Tied(f)' <=> Tied(f))
  BY <1>1, <1>2, SufferedClean
<1>6. \A id : Rows(id)' = Rows(id) /\ Waiting(id)' = Waiting(id) /\ Fresh(id)' = Fresh(id)
  BY <1>1 DEF Rows, Waiting, Fresh, Aside
<1>7. \A id : \A x \in Writing(id)' : \E v \in Writing(id) : v.path = x.path /\ v.to = x.to
  BY <1>1, <1>3 DEF Writing
<1>8. \A id, p : Tracks(id, p)' => Tracks(id, p)
  BY <1>6, <1>7 DEF Tracks
<1>9. ASSUME NEW f \in File, f # w.id, Story(f) PROVE Apart(f, w.id)
  <2>1. Writing(f)' = Writing(f)
    BY <1>1, <1>3, <1>9 DEF Writing
  <2>2. \A p : Tracks(w.id, p)' => Touches(w.id, p)
    BY <1>8 DEF Touches
  <2> QED
    BY <1>1, <1>3, <1>6, <1>9, <2>1, <2>2 DEF Apart
<1>10. \A v \in writes' : IF v.op = "New" /\ v.stage # "arrived"
                         THEN ~Born(v.id) /\ \A x \in writes' : x.id = v.id => x = v
                         ELSE Born(v.id)
  <2>1. \A v \in writes : IF v.op = "New" /\ v.stage # "arrived"
                         THEN ~Born(v.id) /\ \A x \in writes : x.id = v.id => x = v
                         ELSE Born(v.id)
    BY DEF Inv, Births
  <2>2. Born(u.id) /\ u.op # "New"
    BY <1>1, <1>3, <2>1
  <2> QED
    BY <1>1, <1>3, <2>1, <2>2
<1>11. \A id \in File : Rows(id)' # {} => Rows(id) # {} \/ Born(id)
  BY <1>6
<1> QED
  BY <1>1, <1>2, <1>4, <1>5, <1>8, <1>9, <1>10, <1>11, WritesKept

(* A write of a file of which all is known. *)
LEMMA SendingIs ==
  ASSUME Inv, NEW w \in writes, Clean(w.id)
  PROVE  /\ Story(w.id) /\ Sending(w.id, w) /\ Writing(w.id) = {w} /\ w.id \in File
         /\ Waiting(w.id) = {} /\ Fresh(w.id) = {}
<1> DEFINE f == w.id
<1>1. Story(f) /\ w \in Writing(f) /\ f \in File
  BY DEF Inv, Stories, Writing, Clean
<1>2. PICK x : Sending(f, x)
  BY <1>1 DEF Story, Phase, Changing, Resting
<1>3. x = w
  BY <1>1, <1>2 DEF Sending
<1> QED
  BY <1>1, <1>2, <1>3 DEF Sending

(* The keys under which a write is expected. *)
LEMMA RegisteredIs ==
  ASSUME TypeInv, NEW w \in writes
  PROVE  /\ \A k : k \in DOMAIN Registered(w) => k \in DOMAIN expected \/ k \in {w.id, w.path}
         /\ \A k, t : Expects(expected, k, t) => Expects(Registered(w), k, t)
         /\ w.op \in {"New", "Update"} /\ WriteKey(w) \notin DOMAIN expected =>
              Expects(Registered(w), WriteKey(w), w.op)
<1>1. \A map, key, type :
        /\ \A k : k \in DOMAIN Expecting(map, key, type) => k \in DOMAIN map \/ k = key
        /\ \A k, t : Expects(map, k, t) => Expects(Expecting(map, key, type), k, t)
        /\ key \notin DOMAIN map => Expects(Expecting(map, key, type), key, type)
  BY DEF Expecting, Expects
<1>2. \A map, type, type2, key, key2 :
        /\ \A k : k \in DOMAIN Expecting(Expecting(map, key, type), key2, type2) => k \in DOMAIN map \/ k \in {key, key2}
        /\ \A k, t : Expects(map, k, t) => Expects(Expecting(Expecting(map, key, type), key2, type2), k, t)
  BY <1>1
<1>3. EventKey(w.op, w.id, w.path) \in {w.id, w.path}
      /\ (w.op \in {"New", "Update"} => EventKey(w.op, w.id, w.path) = WriteKey(w))
  BY DEF EventKey, WriteKey
<1>4. CASE kind = "dropbox" /\ w.op = "Move"
  BY <1>2, <1>4 DEF Registered
<1>5. CASE ~(kind = "dropbox" /\ w.op = "Move")
  <2>1. Registered(w) = Expecting(expected, EventKey(w.op, w.id, w.path), w.op)
    BY <1>5 DEF Registered
  <2> QED
    BY <1>1, <1>3, <2>1
<1> QED
  BY <1>4, <1>5

LEMMA SendKept ==
  ASSUME Inv, TypeInv', NEW w \in writes, Send(w) PROVE Inv'
<1> DEFINE u == [w EXCEPT !.stage = "sent"]
<1>1. /\ Aside /\ UNCHANGED <<changes, status, db, stuck, fate>> /\ writes' = (writes \ {w}) \cup {u}
      /\ w.stage = "queued" /\ expected' = Registered(w)
  BY DEF Send, cloudVars, batchVars, Aside
<1>2. TypeInv /\ w.id \in File /\ w.id \in Id /\ w \in Request
  BY DEF Inv, TypeInv, WritesTyped, WriteOK, Request, Id
<1>3. /\ u.id = w.id /\ u.gid = w.gid /\ u.path = w.path /\ u.to = w.to /\ u.op = w.op /\ u.dir = w.dir
      /\ u.time = w.time /\ u.hash = w.hash /\ u.stage = "sent"
  BY <1>2 DEF Request
<1> HIDE DEF u
<1>4. FoldersKept
  BY <1>1 DEF FoldersKept
<1>5. \A f \in File : Clean(f)' => Clean(f) /\ (Tied(f)' <=> Tied(f))
  BY <1>1, SameFate
<1>6. \A id : Rows(id)' = Rows(id) /\ Waiting(id)' = Waiting(id) /\ Fresh(id)' = Fresh(id)
  BY <1>1 DEF Rows, Waiting, Fresh, Aside
<1>7. \A id : \A x \in Writing(id)' : \E v \in Writing(id) : v.path = x.path /\ v.to = x.to
  BY <1>1, <1>3 DEF Writing
<1>8. \A id, p : Tracks(id, p)' => Tracks(id, p)
  BY <1>6, <1>7 DEF Tracks
<1>9. ASSUME NEW f \in File, f # w.id, Story(f) PROVE Apart(f, w.id)
  <2>1. Writing(f)' = Writing(f)
    BY <1>1, <1>3, <1>9 DEF Writing
  <2>2. \A p : Tracks(w.id, p)' => Touches(w.id, p)
    BY <1>8 DEF Touches
  <2>3. ~Claims(f, w.path) /\ ~Claims(f, w.id)
    <3>1. Alone(f)
      BY <1>9 DEF Story
    <3> QED
      BY <1>2, <1>9, <3>1, Another, ClaimsIn
  <2>4. \A k : k = f \/ Claims(f, k) =>
          /\ k \in DOMAIN expected' => k \in DOMAIN expected
          /\ \A t : Expects(expected, k, t) => Expects(expected', k, t)
    <3>1. ~Claims(f, w.id) /\ ~Claims(f, w.path) /\ f # w.path
      <4>1. w.path \notin Id /\ f \in Id
        <5>1. w.path \in Spots(w.id, HomeFolder) /\ HomeFolder \in SUBSET Folder
          BY <1>2, HomesAreLive DEF TypeInv, WritesTyped, WriteOK
        <5>2. PICK dir \in {Home} \cup HomeFolder : w.path = Spot(dir, w.id)
          BY <1>2, <5>1, SpotsIn
        <5> QED
          BY <1>2, <5>1, <5>2, SpotKinds DEF Id
      <4> QED
        BY <2>3, <4>1
    <3> QED
      BY <1>1, <1>2, <1>9, <3>1, RegisteredIs
  <2> QED
    BY <1>1, <1>3, <1>6, <1>9, <2>1, <2>2, <2>4 DEF Apart
<1>10. \A v \in writes' : IF v.op = "New" /\ v.stage # "arrived"
                         THEN ~Born(v.id) /\ \A x \in writes' : x.id = v.id => x = v
                         ELSE Born(v.id)
  <2>1. \A v \in writes : IF v.op = "New" /\ v.stage # "arrived"
                         THEN ~Born(v.id) /\ \A x \in writes : x.id = v.id => x = v
                         ELSE Born(v.id)
    BY DEF Inv, Births
  <2>2. IF u.op = "New" /\ u.stage # "arrived" THEN ~Born(u.id) ELSE Born(u.id)
    BY <1>1, <1>3, <2>1
  <2>3. u.op = "New" => \A x \in writes : x.id = u.id => x = w
    BY <1>1, <1>3, <2>1
  <2> QED
    BY <1>1, <1>3, <2>1, <2>2, <2>3
<1>11. \A id \in File : Rows(id)' # {} => Rows(id) # {} \/ Born(id)
  BY <1>6
<1>12. ASSUME Clean(w.id)' PROVE Story(w.id)'
  <2> DEFINE f == w.id
  <2>1. Clean(f) /\ (Tied(f)' <=> Tied(f))
    BY <1>1, <1>12, SameFate
  <2>2. Story(f) /\ Sending(f, w) /\ Writing(f) = {w} /\ f \in File /\ Waiting(f) = {} /\ Fresh(f) = {}
    BY <2>1, SendingIs
  <2> HIDE DEF f
  <2>3. Writing(f)' = {u}
    <3>1. f = w.id
      BY DEF f
    <3> QED
      BY <1>1, <1>3, <2>2, <3>1 DEF Writing
  <2>4. Rows(f)' = Rows(f) /\ Waiting(f)' = {} /\ Fresh(f)' = {} /\ Entries(f)' = Entries(f)
    BY <1>1, <1>6, <2>2 DEF Entries, Aside
  <2>5. \A p : Claims(f, p)' => Claims(f, p)
    BY <1>1, <1>8 DEF Claims, Loc, Spot, Aside
  <2>6. Alone(f)'
    <3>1. \A id \in File : \A p : id # f /\ Claims(f, p) /\ Touches(id, p)' => Touches(id, p)
      BY <1>1, <1>8, TouchesAside
    <3>2. item[f]'.dir \in Folder => item[f]'.dir \in HomeFolder'
      BY <1>1, <2>2, SameWorld DEF Aside, Story, Alone
    <3>3. \A v \in writes', r \in Rows(f)' : r.gid = v.gid => v.id = f
      BY <1>1, <1>3, <2>2, <2>4 DEF Story, Alone
    <3>4. \A v \in Writing(f) : v.gid \in Loose(db') => \E x \in Writing(f)' : x.gid = v.gid
      BY <1>3, <2>2, <2>3
    <3> QED
      BY <1>1, <2>2, <2>5, <3>1, <3>2, <3>3, <3>4, AloneLess DEF Story
  <2>7. Gone(f)' \subseteq Gone(f) /\ (Told(f)' => Told(f)) /\ (LastSay(f) => LastSay(f)')
    BY <1>1, <2>5 DEF Aside, Gone, Told, LastSay, Here, Spot, Born
  <2>8. OneChange(f)'
    BY <2>4 DEF OneChange, Once, Waiting, Fresh, Range
  <2>9. ~Arrived(w) /\ ~Arrived(u) /\ WriteKey(u) = WriteKey(w)
    BY <1>1, <1>3 DEF Arrived, WriteKey
  <2>10. WriteRight(u, f)'
    <3>1. WriteRight(w, f)
      BY <2>2 DEF Sending
    <3>2. WriteRight(u, f)
      BY <1>3, <2>9, <3>1 DEF WriteRight, WriteRow
    <3>3. item'[f] = item[f] /\ kind' = kind /\ db' = db
      BY <1>1 DEF Aside
    <3>4. \A r : WriteRow(u, r, item[f], f, Tied(f))' <=> WriteRow(u, r, item[f], f, Tied(f))
      BY <2>1, <3>3 DEF f, WriteRow, AgreedRow, UpToDate, Arrived, Loc, Spot
    <3> QED
      BY <2>4, <3>2, <3>3, <3>4 DEF WriteRight, Arrived, Loc, Spot, Unborn
  <2>11. Awaits(u, f)'
    <3>1. Awaits(w, f)
      BY <2>2 DEF Sending
    <3>2. u.op \in {"New", "Update"} => Expects(expected', WriteKey(u), u.op)
      BY <1>1, <1>2, <1>3, <2>9, <3>1, RegisteredIs DEF Awaits
    <3>3. ~Told(f)' /\ Entries(f)' = {} /\ Gone(f)' = {}
      BY <2>4, <2>7, <2>9, <3>1 DEF Awaits
    <3>4. Arrived(u)' <=> Arrived(u)
      BY DEF Arrived
    <3>5. WriteKey(u)' = WriteKey(u)
      BY DEF WriteKey
    <3> QED
      BY <1>3, <2>9, <3>2, <3>3, <3>4, <3>5 DEF Awaits
  <2>12. Phase(f)'
    <3>1. Sending(f, u)'
      BY <2>3, <2>4, <2>10, <2>11 DEF Sending
    <3> QED
      BY <3>1 DEF Phase
  <2>13. Notices(f)'
    <3>1. Entries(f) = {} /\ Gone(f) = {}
      BY <2>2, <2>9 DEF Sending, Awaits
    <3> QED
      BY <2>2, <2>3, <2>4, <2>7, <3>1 DEF Notices, Story
  <2>14. FolderFirst(f)'
    BY <1>1, <2>2, <2>4 DEF FolderFirst, Story, Aside
  <2>15. Story(f)'
    BY <2>6, <2>8, <2>12, <2>13, <2>14 DEF Story
  <2> QED
    BY <2>15 DEF f
<1> QED
  BY <1>1, <1>2, <1>4, <1>5, <1>8, <1>9, <1>10, <1>11, <1>12, WritesKept

(* The one row that the callback of a write changes. *)
LEMMA RecordedRow ==
  ASSUME TypeInv, NEW w \in writes, w.stage = "arrived", NEW e \in Recording(w), NEW g, g = w.gid
  PROVE  \/ /\ e = db /\ w.op # "New"
            /\ w.op \in {"Update", "Move"} => ~LinkedIn(db, g)
         \/ /\ Tables(e) /\ Others(db, e, g) /\ g \in DOMAIN db.files /\ LinkedIn(e, g)
            /\ PathOfRow(e, g) = PathOfRow(db, g) /\ LinkIn(e, g).id \in File
            /\ \/ /\ w.op = "New" /\ ~LinkedIn(db, g) /\ PathOfRow(db, g) = w.path
                  /\ LinkIn(e, g) = LinkStat(w.id, w.dir, w.time, w.hash)
               \/ /\ w.op = "Update" /\ LinkedIn(db, g) /\ LinkIn(e, g).id = LinkIn(db, g).id
                  /\ LinkIn(e, g).parent = LinkIn(db, g).parent
                  /\ kind = "google" => LinkIn(e, g).time = w.time /\ LinkIn(e, g).hash = w.hash
               \/ /\ w.op = "Move" /\ LinkedIn(db, g) /\ LinkIn(e, g).id = LinkIn(db, g).id
                  /\ LinkIn(e, g).parent = w.dir /\ LinkIn(e, g).time = w.time
                  /\ LinkIn(e, g).hash = LinkIn(db, g).hash
<1>1. /\ w \in Request /\ DbOK(db, HomeFolder) /\ Tables(db)
      /\ w.op \in {"New", "Update", "Move", "Delete"} /\ w.id \in File
  BY WrittenIs DEF TypeInv, DbTyped, DbOK, Request, ChangeTypes
<1>2. Linked(g) <=> LinkedIn(db, g)
  BY DbNames
<1>3. CASE w.op = "New"
  <2> DEFINE stat == LinkStat(w.id, w.dir, w.time, w.hash)
  <2>1. e = WithLink(db, g, Cloud, stat)
    BY <1>3 DEF Recording
  <2>2. g \in Loose(db) /\ PathOfRow(db, g) = w.path
    BY <1>3, WrittenIs
  <2>3. stat.id = w.id
    BY DEF LinkStat
  <2> HIDE DEF stat
  <2>4. g \in DOMAIN db.files /\ ~LinkedIn(db, g)
    BY <2>2 DEF Loose
  <2>5. Tables(e) /\ e.files = db.files /\ LinkedIn(e, g) /\ LinkIn(e, g) = stat /\ Others(db, e, g)
    BY <1>1, <2>1, <2>4, LinkAdded
  <2>6. PathOfRow(e, g) = PathOfRow(db, g)
    BY <2>5 DEF PathOfRow
  <2> QED
    BY <1>1, <1>3, <2>2, <2>3, <2>4, <2>5, <2>6 DEF stat
<1>4. CASE w.op = "Update" /\ Linked(g)
  <2>1. PICK t : /\ e = WithLinkUpdated(db, g, Cloud, [Link(g) EXCEPT !.time = t[1], !.hash = t[2]])
                 /\ t \in IF kind = "google" THEN {<<w.time, w.hash>>}
                          ELSE {<<Link(g).time, NoHash>>, <<w.time, NoHash>>}
    BY <1>4 DEF Recording
  <2> DEFINE time == t[1]
             hash == t[2]
             was == Link(g)
             stat == [was EXCEPT !.time = time, !.hash = hash]
  <2>2. was \in LinkSet /\ was.id \in File /\ was = LinkIn(db, g) /\ LinkedIn(db, g)
    BY <1>4, WrittenIs
  <2>3. e = WithLinkUpdated(db, g, Cloud, stat)
    BY <2>1
  <2>4. kind = "google" => time = w.time /\ hash = w.hash
    BY <2>1
  <2> HIDE DEF was, time, hash
  <2>5. stat.id = was.id /\ stat.parent = was.parent /\ stat.time = time /\ stat.hash = hash
    BY <2>2 DEF LinkSet
  <2> HIDE DEF stat
  <2>6. Tables(e) /\ e.files = db.files /\ LinkedIn(e, g) /\ LinkIn(e, g) = stat /\ Others(db, e, g)
    BY <1>1, <2>2, <2>3, LinkChanged
  <2>7. PathOfRow(e, g) = PathOfRow(db, g) /\ g \in DOMAIN db.files
    BY <1>1, <2>2, <2>6, Key DEF PathOfRow
  <2> QED
    BY <1>4, <2>2, <2>4, <2>5, <2>6, <2>7
<1>5. CASE w.op = "Move" /\ Linked(g)
  <2> DEFINE dir == w.dir
             time == w.time
             was == LinkIn(db, g)
             stat == [was EXCEPT !.parent = dir, !.time = time]
  <2>1. e = WithLinkMoved(db, g, Cloud, dir, time)
    BY <1>5 DEF Recording
  <2>2. was \in LinkSet /\ was.id \in File /\ LinkedIn(db, g)
    BY <1>5, WrittenIs
  <2> HIDE DEF dir, time
  <2>3. e = WithLinkUpdated(db, g, Cloud, stat)
    BY <2>1, <2>2 DEF WithLinkMoved, WithLinkUpdated, LinkedIn, LinkIn
  <2> HIDE DEF was
  <2>4. stat.id = was.id /\ stat.parent = dir /\ stat.time = time /\ stat.hash = was.hash
    BY <2>2 DEF LinkSet
  <2> HIDE DEF stat
  <2>5. Tables(e) /\ e.files = db.files /\ LinkedIn(e, g) /\ LinkIn(e, g) = stat /\ Others(db, e, g)
    BY <1>1, <2>2, <2>3, LinkChanged
  <2>6. PathOfRow(e, g) = PathOfRow(db, g) /\ g \in DOMAIN db.files
    BY <1>1, <2>2, <2>5, Key DEF PathOfRow
  <2> QED
    BY <1>5, <2>2, <2>4, <2>5, <2>6 DEF was, dir, time
<1>6. CASE w.op \in {"Update", "Move"} /\ ~Linked(g)
  <2>1. e = db
    <3>1. CASE w.op = "Move"
      <4>1. e = WithLinkMoved(db, g, Cloud, w.dir, w.time)
        BY <3>1 DEF Recording
      <4> QED
        BY <1>2, <1>6, <4>1 DEF WithLinkMoved, LinkedIn
    <3>2. CASE w.op = "Update"
      BY <1>6, <3>2 DEF Recording
    <3> QED
      BY <1>6, <3>1, <3>2
  <2> QED
    BY <1>2, <1>6, <2>1
<1>7. CASE w.op = "Delete"
  <2>1. e = db
    BY <1>7 DEF Recording
  <2> QED
    BY <1>7, <2>1
<1> QED
  BY <1>1, <1>3, <1>4, <1>5, <1>6, <1>7

(* What it leaves of the other rows. *)
LEMMA RecordedApart ==
  ASSUME Inv, NEW w \in writes, w.stage = "arrived", NEW e \in Recording(w)
  PROVE  /\ \A d \in Folder : LinkedTo(e, Cloud, d) = LinkedTo(db, Cloud, d)
         /\ \A h \in Loose(e) : h \in Loose(db) /\ PathOfRow(e, h) = PathOfRow(db, h)
         /\ \A id, r : r \in RowsIn(e, id) =>
              (\E s \in Rows(id) : s.path = r.path /\ s.gid = r.gid) \/ (id = w.id /\ r.path = w.path)
         /\ \A f \in File : f # w.id /\ Story(f) => RowsIn(e, f) = Rows(f)
<1> DEFINE g == w.gid
<1>1. TypeInv /\ Tables(db) /\ w.id \in File
  BY WrittenIs DEF Inv, TypeInv, DbTyped, DbOK, Request
<1>2. CASE e = db
  BY <1>2, <1>1 DEF Rows
<1>3. CASE /\ Tables(e) /\ Others(db, e, g) /\ g \in DOMAIN db.files /\ LinkedIn(e, g)
           /\ PathOfRow(e, g) = PathOfRow(db, g) /\ LinkIn(e, g).id \in File
           /\ \/ /\ ~LinkedIn(db, g) /\ PathOfRow(db, g) = w.path /\ LinkIn(e, g).id = w.id
              \/ LinkedIn(db, g) /\ LinkIn(e, g).id = LinkIn(db, g).id
  <2> HIDE DEF g
  <2>1. ASSUME NEW d \in Folder PROVE LinkedTo(e, Cloud, d) = LinkedTo(db, Cloud, d)
    <3>1. (LinkedIn(db, g) => LinkIn(db, g).id # d) /\ LinkIn(e, g).id # d
      BY <1>1, <1>3, Names
    <3> QED
      BY <1>1, <1>3, <3>1, RowsKept
  <2>2. \A h \in Loose(e) : h \in Loose(db) /\ PathOfRow(e, h) = PathOfRow(db, h)
    <3>1. g \notin Loose(e)
      BY <1>3 DEF Loose
    <3> QED
      BY <1>3, <3>1, LooseKept
  <2>3. ASSUME NEW id, NEW r \in RowsIn(e, id)
        PROVE  (\E s \in Rows(id) : s.path = r.path /\ s.gid = r.gid) \/ (id = w.id /\ r.path = w.path)
    <3>1. /\ r.gid \in DOMAIN e.files /\ LinkedIn(e, r.gid)
          /\ r.path = PathOfRow(e, r.gid) /\ r.link = LinkIn(e, r.gid) /\ r.link.id = id
      BY <1>3, <2>3, RowsAre
    <3>2. CASE r.gid # g
      BY <1>1, <1>3, <3>2, RowsElse DEF Rows
    <3>3. CASE r.gid = g /\ LinkedIn(db, g)
      <4>1. LinkIn(db, g).id = id
        BY <1>3, <3>1, <3>3
      <4>2. [gid |-> g, path |-> PathOfRow(db, g), link |-> LinkIn(db, g)] \in RowsIn(db, id)
        BY <1>1, <1>3, <3>3, <4>1, RowsAre
      <4> QED
        BY <1>3, <3>1, <3>3, <4>2 DEF Rows
    <3>4. CASE r.gid = g /\ ~LinkedIn(db, g)
      BY <1>3, <3>1, <3>4
    <3> QED
      BY <3>2, <3>3, <3>4
  <2>4. ASSUME NEW f \in File, f # w.id, Story(f) PROVE RowsIn(e, f) = Rows(f)
    <3>1. \A r \in Rows(f) : r.gid # g
      BY <2>4, Another DEF g
    <3>2. ASSUME LinkedIn(db, g), LinkIn(db, g).id = f PROVE FALSE
      <4>1. [gid |-> g, path |-> PathOfRow(db, g), link |-> LinkIn(db, g)] \in Rows(f)
        BY <1>1, <1>3, <3>2, RowsAre DEF Rows
      <4> QED
        BY <3>1, <4>1
    <3>3. LinkIn(e, g).id # f
      BY <1>3, <2>4, <3>2
    <3> QED
      BY <1>1, <1>3, <3>2, <3>3, RowsKept DEF Rows
  <2> QED
    BY <2>1, <2>2, <2>3, <2>4
<1>4. \/ e = db
      \/ /\ Tables(e) /\ Others(db, e, g) /\ g \in DOMAIN db.files /\ LinkedIn(e, g)
         /\ PathOfRow(e, g) = PathOfRow(db, g) /\ LinkIn(e, g).id \in File
         /\ \/ /\ ~LinkedIn(db, g) /\ PathOfRow(db, g) = w.path /\ LinkIn(e, g).id = w.id
            \/ LinkedIn(db, g) /\ LinkIn(e, g).id = LinkIn(db, g).id
  BY <1>1, RecordedRow DEF LinkStat
<1> QED
  BY <1>2, <1>3, <1>4

(* What the row says of a file after the callback of its write: all. *)
LEMMA FinishedRow ==
  ASSUME Inv, NEW w \in writes, w.stage = "arrived", NEW e \in Recording(w), NEW f \in File, f = w.id, Clean(f)
  PROVE  /\ IF Loc(item[f], f) = NoPath THEN RowsIn(e, f) = {}
            ELSE \E r : RowsIn(e, f) = {r} /\ AgreedRow(r, item[f], f, Tied(f)) /\ SoundRow(r, item[f], f, Tied(f))
         /\ \A r \in RowsIn(e, f) : r.gid = w.gid
<1> DEFINE g == w.gid
           it == item[f]
           here == Loc(it, f)
<1>1. /\ Story(f) /\ WriteRight(w, f) /\ Arrived(w) /\ TypeInv /\ Tables(db) /\ f \in Id
      /\ it.dir \in Folder => it.dir \in HomeFolder
  BY SendingIs DEF Sending, Arrived, Inv, TypeInv, DbTyped, DbOK, Story, Alone, Id
<1>2. w.time = it.time /\ w.hash = it.hash /\ w.dir = it.dir
  BY <1>1 DEF WriteRight
<1>3. here # NoPath => it.dir \in {Home} \cup HomeFolder /\ here = Spot(it.dir, f) /\ it.dir # Elsewhere
  BY <1>1, HereIs DEF Story
<1>4. \/ /\ e = db /\ w.op # "New"
         /\ w.op \in {"Update", "Move"} => ~LinkedIn(db, g)
      \/ /\ Tables(e) /\ Others(db, e, g) /\ g \in DOMAIN db.files /\ LinkedIn(e, g)
         /\ PathOfRow(e, g) = PathOfRow(db, g) /\ LinkIn(e, g).id \in File
         /\ \/ /\ w.op = "New" /\ ~LinkedIn(db, g) /\ PathOfRow(db, g) = w.path
               /\ LinkIn(e, g) = LinkStat(w.id, w.dir, w.time, w.hash)
            \/ /\ w.op = "Update" /\ LinkedIn(db, g) /\ LinkIn(e, g).id = LinkIn(db, g).id
               /\ LinkIn(e, g).parent = LinkIn(db, g).parent
               /\ kind = "google" => LinkIn(e, g).time = w.time /\ LinkIn(e, g).hash = w.hash
            \/ /\ w.op = "Move" /\ LinkedIn(db, g) /\ LinkIn(e, g).id = LinkIn(db, g).id
               /\ LinkIn(e, g).parent = w.dir /\ LinkIn(e, g).time = w.time
               /\ LinkIn(e, g).hash = LinkIn(db, g).hash
  BY <1>1, RecordedRow
<1> HIDE DEF g, it, here
<1>5. CASE w.op = "New"
  <2>1. Rows(f) = {} /\ here = w.path
    BY <1>1, <1>5 DEF WriteRight, WriteRow, here, it
  <2>2. /\ Tables(e) /\ Others(db, e, g) /\ LinkedIn(e, g)
        /\ PathOfRow(e, g) = w.path /\ LinkIn(e, g) = LinkStat(f, w.dir, w.time, w.hash)
    BY <1>4, <1>5
  <2>3. /\ LinkIn(e, g).id = f /\ LinkIn(e, g).parent = it.dir
        /\ LinkIn(e, g).time = it.time /\ LinkIn(e, g).hash = it.hash
    BY <1>2, <2>2 DEF LinkStat
  <2>4. PICK r : r = [gid |-> g, path |-> PathOfRow(e, g), link |-> LinkIn(e, g)]
    OBVIOUS
  <2>5. RowsIn(e, f) = {r}
    BY <1>1, <2>1, <2>2, <2>3, <2>4, RowsMore DEF Rows
  <2>6. r.path = here /\ r.link.parent = it.dir /\ r.link.time = it.time /\ r.link.hash = it.hash /\ r.gid = g
    BY <2>1, <2>2, <2>3, <2>4
  <2>7. here # NoPath /\ it.time \in Nat /\ it.hash \in Nat
    <3>1. w.path # NoPath
      <4>1. w.path \in Spots(w.id, HomeFolder) /\ HomeFolder \in SUBSET Folder
        BY <1>1, HomesAreLive DEF TypeInv, WritesTyped, WriteOK
      <4> QED
        BY <1>1, <4>1, SpotsIn
    <3> QED
      BY <1>1, <2>1, <3>1 DEF it, TypeInv, CloudTyped, Item
  <2>8. AgreedRow(r, it, f, Tied(f)) /\ SoundRow(r, it, f, Tied(f))
    BY <1>3, <2>6, <2>7 DEF AgreedRow, SoundRow, UpToDate, here
  <2> QED
    BY <2>5, <2>6, <2>7, <2>8 DEF it, here, g
<1>6. CASE w.op = "Delete"
  <2>1. Rows(f) = {} /\ here = NoPath
    BY <1>1, <1>6 DEF WriteRight, WriteRow, here, it
  <2>2. e = db
    BY <1>4, <1>6
  <2> QED
    BY <2>1, <2>2 DEF Rows, it, here
<1>7. CASE w.op \in {"Update", "Move"}
  <2>1. PICK s : Rows(f) = {s} /\ WriteRow(w, s, it, f, Tied(f))
    BY <1>1, <1>7 DEF WriteRight, it
  <2>2. /\ g \in DOMAIN db.files /\ LinkedIn(db, g) /\ LinkIn(db, g).id = f
        /\ s.path = PathOfRow(db, g) /\ s.link = LinkIn(db, g) /\ s.gid = g
    <3>1. s.gid = g
      BY <2>1 DEF WriteRow, g
    <3> QED
      BY <1>1, <2>1, <3>1, RowsAre DEF Rows
  <2>3. /\ Tables(e) /\ Others(db, e, g) /\ LinkedIn(e, g)
        /\ PathOfRow(e, g) = s.path /\ LinkIn(e, g).id = f
    BY <1>4, <1>7, <2>2
  <2>4. PICK r : r = [gid |-> g, path |-> PathOfRow(e, g), link |-> LinkIn(e, g)]
    OBVIOUS
  <2>5. RowsIn(e, f) = {r}
    <3>1. {x \in RowsIn(db, f) : x.gid # g} = {}
      BY <2>1, <2>2 DEF Rows
    <3> QED
      BY <1>1, <2>3, <2>4, <3>1, RowsMore
  <2>6. r.path = here /\ here # NoPath
    <3>1. w.path # NoPath /\ w.to # NoPath
      <4>1. w.path \in Spots(w.id, HomeFolder) /\ w.to \in Spots(w.id, HomeFolder) /\ HomeFolder \in SUBSET Folder
        BY <1>1, HomesAreLive DEF TypeInv, WritesTyped, WriteOK
      <4> QED
        BY <1>1, <4>1, SpotsIn
    <3>2. s.path = w.to /\ here \in {w.path, w.to}
      BY <1>1, <2>1 DEF WriteRow, here
    <3>3. w.op = "Update" => w.to = w.path
      BY <1>1 DEF TypeInv, WritesTyped, WriteOK
    <3>4. w.op = "Move" => here = w.to
      BY <1>1, <2>1 DEF WriteRow, here
    <3> QED
      BY <1>7, <2>3, <2>4, <3>1, <3>2, <3>3, <3>4
  <2>7. it.time \in Nat /\ it.hash \in Nat
    BY <1>1 DEF it, TypeInv, CloudTyped, Item
  <2>8. r.link.parent = it.dir /\ UpToDate(r, it, Tied(f)) /\ r.gid = g
    <3>1. CASE w.op = "Update"
      <4>1. kind = "google" /\ s.link.parent = it.dir
        BY <1>1, <2>1, <3>1 DEF WriteRow
      <4>2. LinkIn(e, g).parent = it.dir /\ LinkIn(e, g).time = it.time /\ LinkIn(e, g).hash = it.hash
        BY <1>2, <1>4, <2>2, <3>1, <4>1
      <4> QED
        BY <2>4, <2>7, <4>2 DEF UpToDate
    <3>2. CASE w.op = "Move"
      <4>1. UpToDate(s, it, Tied(f))
        BY <1>1, <2>1, <3>2 DEF WriteRow
      <4>2. LinkIn(e, g).parent = it.dir /\ LinkIn(e, g).time = it.time /\ LinkIn(e, g).hash = s.link.hash
        BY <1>2, <1>4, <2>2, <3>2
      <4> QED
        BY <2>4, <4>1, <4>2 DEF UpToDate
    <3> QED
      BY <1>7, <3>1, <3>2
  <2>9. AgreedRow(r, it, f, Tied(f)) /\ SoundRow(r, it, f, Tied(f))
    BY <1>3, <2>6, <2>7, <2>8 DEF AgreedRow, SoundRow, UpToDate, here
  <2> QED
    BY <2>5, <2>6, <2>8, <2>9 DEF it, here, g
<1>8. w.op \in {"New", "Update", "Move", "Delete"}
  BY <1>1, WrittenIs DEF Request, ChangeTypes
<1> QED
  BY <1>5, <1>6, <1>7, <1>8

LEMMA FinishKept ==
  ASSUME Inv, TypeInv', NEW w \in writes, Finish(w) PROVE Inv'
<1>1. /\ Aside /\ UNCHANGED <<changes, status, expected, stuck, fate>> /\ writes' = writes \ {w}
      /\ w.stage = "arrived"
  BY DEF Finish, cloudVars, batchVars, Aside
<1>2. PICK e \in Recording(w) : db' = e
  BY DEF Finish
<1>3. TypeInv /\ w.id \in File /\ w.id \in Id
  BY WrittenIs DEF Inv, Request, Id
<1>4. /\ \A d \in Folder : LinkedTo(e, Cloud, d) = LinkedTo(db, Cloud, d)
      /\ \A h \in Loose(e) : h \in Loose(db) /\ PathOfRow(e, h) = PathOfRow(db, h)
      /\ \A id, r : r \in RowsIn(e, id) =>
           (\E s \in Rows(id) : s.path = r.path /\ s.gid = r.gid) \/ (id = w.id /\ r.path = w.path)
      /\ \A f \in File : f # w.id /\ Story(f) => RowsIn(e, f) = Rows(f)
  BY <1>1, RecordedApart
<1>5. FoldersKept
  BY <1>2, <1>4 DEF FoldersKept
<1>6. \A f \in File : Clean(f)' => Clean(f) /\ (Tied(f)' <=> Tied(f))
  BY <1>1, SameFate
<1>7. \A id : Rows(id)' = RowsIn(e, id) /\ Waiting(id)' = Waiting(id) /\ Fresh(id)' = Fresh(id) /\ Writing(id)' \subseteq Writing(id)
  BY <1>1, <1>2 DEF Rows, Waiting, Fresh, Writing, Aside
<1>8. \A id, p : Tracks(id, p)' => Tracks(id, p)
  <2>1. \A id, p : (\E r \in Rows(id)' : r.path = p) => Tracks(id, p)
    <3> SUFFICES ASSUME NEW id, NEW r \in RowsIn(e, id) PROVE Tracks(id, r.path)
      BY <1>7
    <3>1. CASE \E s \in Rows(id) : s.path = r.path
      BY <3>1 DEF Tracks
    <3>2. CASE id = w.id /\ r.path = w.path
      BY <3>2 DEF Tracks, Writing
    <3> QED
      BY <1>4, <3>1, <3>2
  <2> QED
    BY <1>7, <2>1 DEF Tracks
<1>9. ASSUME NEW f \in File, f # w.id, Story(f) PROVE Apart(f, w.id)
  <2>1. Writing(f)' = Writing(f) /\ Rows(f)' = Rows(f)
    BY <1>1, <1>4, <1>7, <1>9 DEF Writing
  <2>2. \A p : Tracks(w.id, p)' => Touches(w.id, p)
    BY <1>8 DEF Touches
  <2>3. \A h \in Loose(db') : h \in Loose(db) /\ PathOfRow(db', h) = PathOfRow(db, h)
    BY <1>2, <1>4
  <2> QED
    BY <1>1, <1>9, <2>1, <2>2, <2>3 DEF Apart
<1>10. \A v \in writes' : IF v.op = "New" /\ v.stage # "arrived"
                         THEN ~Born(v.id) /\ \A x \in writes' : x.id = v.id => x = v
                         ELSE Born(v.id)
  BY <1>1 DEF Inv, Births
<1>11. \A id \in File : Rows(id)' # {} => Rows(id) # {} \/ Born(id)
  <2>1. Born(w.id)
    BY <1>1 DEF Inv, Births
  <2> QED
    BY <1>4, <1>7, <2>1
<1>12. ASSUME Clean(w.id)' PROVE Story(w.id)'
  <2> DEFINE f == w.id
  <2>1. Clean(f) /\ (Tied(f)' <=> Tied(f))
    BY <1>1, <1>12, SameFate
  <2>2. Story(f) /\ Sending(f, w) /\ Writing(f) = {w} /\ f \in File /\ Waiting(f) = {} /\ Fresh(f) = {}
    BY <2>1, SendingIs
  <2>3. /\ IF Loc(item[f], f) = NoPath THEN RowsIn(e, f) = {}
           ELSE \E r : RowsIn(e, f) = {r} /\ AgreedRow(r, item[f], f, Tied(f)) /\ SoundRow(r, item[f], f, Tied(f))
        /\ \A r \in RowsIn(e, f) : r.gid = w.gid
    BY <1>1, <1>3, <2>1, FinishedRow
  <2>4. Writing(f)' = {} /\ Waiting(f)' = {} /\ Fresh(f)' = {}
    BY <1>1, <1>7, <2>2 DEF Writing
  <2> HIDE DEF f
  <2>5. \A p : Claims(f, p)' => Claims(f, p)
    BY <1>1, <1>8 DEF Claims, Loc, Spot, Aside
  <2>6. item'[f] = item[f] /\ kind' = kind /\ Rows(f)' = RowsIn(e, f)
    BY <1>1, <1>7 DEF Aside
  <2>7. Agreed(f)' /\ Sound(f)'
    BY <2>1, <2>3, <2>6 DEF Agreed, Sound, AgreedRow, SoundRow, UpToDate, Loc, Spot
  <2>8. Alone(f)'
    <3>1. \A id \in File : \A p : id # f /\ Claims(f, p) /\ Touches(id, p)' => Touches(id, p)
      BY <1>1, <1>8, TouchesAside
    <3>2. item[f]'.dir \in Folder => item[f]'.dir \in HomeFolder'
      BY <1>1, <2>2, SameWorld DEF Aside, Story, Alone
    <3>3. ASSUME NEW v \in writes', NEW r \in Rows(f)', r.gid = v.gid PROVE v.id = f
      <4>1. r.gid = w.gid /\ v.gid = w.gid /\ v # w /\ v \in writes
        BY <1>1, <2>3, <2>6, <3>3
      <4>2. CASE w.op = "New"
        <5>1. w.gid \in Loose(db)
          BY <1>3, <4>2, WrittenIs
        <5>2. v.op = "New"
          BY <1>3, <4>1, <5>1, WrittenIs DEF WriteOK, Loose
        <5> QED
          BY <1>3, <4>1, <4>2, <5>2 DEF TypeInv, WritesTyped
      <4>3. CASE w.op # "New"
        <5>1. \E s \in Rows(f) : s.gid = v.gid
          <6>1. r.path = w.path => \E s \in Rows(f) : s.gid = w.gid
            <7>1. Rows(f) # {}
              <8>1. WriteRight(w, f)
                BY <2>2 DEF Sending
              <8>2. Loc(item[f], f) # NoPath
                BY <2>3, <2>6, <3>3 DEF f
              <8> QED
                BY <1>1, <4>3, <8>1, <8>2 DEF WriteRight, Arrived
            <7>2. \E s : Rows(f) = {s} /\ s.gid = w.gid
              BY <2>2, <4>3, <7>1 DEF Sending, WriteRight, WriteRow
            <7> QED
              BY <7>2
          <6> QED
            BY <1>4, <2>6, <4>1, <6>1
        <5> QED
          BY <2>2, <4>1, <5>1 DEF Story, Alone
      <4> QED
        BY <4>2, <4>3
    <3>4. \A v \in Writing(f) : v.gid \in Loose(db') => \E x \in Writing(f)' : x.gid = v.gid
      <4>1. w.gid \notin Loose(db')
        <5>0. PICK g : g = w.gid
          OBVIOUS
        <5>1. (e = db /\ w.op # "New") \/ LinkedIn(e, g)
          BY <1>1, <1>3, <5>0, RecordedRow
        <5>2. w.op # "New" => g \notin Loose(db)
          BY <1>3, <5>0, WrittenIs DEF WriteOK, Loose
        <5> QED
          BY <1>2, <5>0, <5>1, <5>2 DEF Loose
      <4> QED
        BY <2>2, <4>1
    <3>5. \A g \in Loose(db') : g \in Loose(db) /\ PathOfRow(db', g) = PathOfRow(db, g)
      BY <1>2, <1>4
    <3> QED
      BY <1>1, <2>2, <2>5, <3>1, <3>2, <3>3, <3>4, <3>5, AloneLess DEF Story
  <2>9. \A x \in Gone(f)' : \A r \in Rows(f)' : r.path # x.path
    <3>1. Gone(f)' \subseteq Gone(f)
      BY <1>1, <2>5 DEF Gone, Aside
    <3>2. \A x \in Gone(f) : x.path # Loc(item[f], f)
      BY <1>1, <2>2 DEF Sending, Awaits, Arrived
    <3>3. \A r \in Rows(f)' : r.path = Loc(item[f], f)
      BY <2>3, <2>6 DEF f, AgreedRow
    <3> QED
      BY <3>1, <3>2, <3>3
  <2>10. kind = "google" /\ item[f].dir \in Folder => LinkedTo(db', Cloud, item[f].dir) # {}
    <3>1. kind = "google" /\ w.dir \in Folder => LinkedTo(db, Cloud, w.dir) # {}
      BY <2>2 DEF Sending, WriteRight
    <3>2. w.dir = item[f].dir
      BY <1>1, <2>2 DEF Sending, WriteRight, Arrived
    <3> QED
      BY <1>5, <3>1, <3>2 DEF FoldersKept
  <2>11. Story(f)'
    BY <1>1, <2>2, <2>4, <2>5, <2>7, <2>8, <2>9, <2>10, Settled
  <2> QED
    BY <2>11 DEF f
<1> QED
  BY <1>1, <1>3, <1>5, <1>6, <1>8, <1>9, <1>10, <1>11, <1>12, WritesKept

(* A write that begins. *)
LEMMA BegunIs ==
  ASSUME Inv, NEW w, NEW result, NEW races, Begin(w, result, races)
  PROVE  /\ Aside /\ UNCHANGED <<changes, stuck, expected, status>> /\ writes' = writes \cup {w} /\ db' = result
         /\ \A f \in File : Clean(f)' => Clean(f) /\ (Tied(f)' <=> Tied(f))
         /\ \A f \in File : Clean(f)' /\ races =>
              f # w.id /\ f \notin Near(w.path) /\ f \notin Near(w.to) /\ f \notin WorkedOn(w.path) /\ f \notin WorkedOn(w.to)
<1> DEFINE all == UNION {{w.id}, Near(w.path), Near(w.to), WorkedOn(w.path), WorkedOn(w.to)}
           ids == IF races THEN all ELSE {}
           why == IF w.dir = None THEN "unmoved" ELSE "raced"
<1>1. /\ Aside /\ UNCHANGED <<changes, stuck, expected, status>> /\ writes' = writes \cup {w} /\ db' = result
      /\ Suffers(ids, why)
  BY DEF Begin, cloudVars, batchVars, Aside
<1>2. fate \in [Id -> SUBSET Fates]
  BY DEF Inv, TypeInv, RestTyped
<1>3. \A f : f \in all <=> \/ f = w.id \/ f \in Near(w.path) \/ f \in Near(w.to)
                           \/ f \in WorkedOn(w.path) \/ f \in WorkedOn(w.to)
  OBVIOUS
<1>4. (races => ids = all) /\ (~races => ids = {})
  OBVIOUS
<1>6. why # "same second"
  OBVIOUS
<1> HIDE DEF all, ids, why
<1>5. \A f \in File : Clean(f)' => f \notin ids /\ Clean(f) /\ (Tied(f)' <=> Tied(f))
  BY <1>1, <1>2, <1>6, SufferedClean
<1> QED
  BY <1>1, <1>3, <1>4, <1>5

(* The place of a new row is nobody else's, or else there is a race. *)
LEMMA NotTheirs ==
  ASSUME Inv, NEW w, NEW result, NEW races, Begin(w, result, races), NEW f \in File, Story(f), Clean(f)',
         NEW p, p \in {w.path, w.to}, ~HasRow(db, p), BusyPath(p) \/ Near(p) # {} => races, f # w.id \/ ~races
  PROVE  f # w.id => ~Claims(f, p)
<1> SUFFICES ASSUME f # w.id, Claims(f, p) PROVE FALSE
  OBVIOUS
<1>1. races => f \notin Near(p) /\ f \notin WorkedOn(p)
  BY BegunIs
<1>2. TypeInv /\ Alone(f) /\ f \in Id
  BY DEF Inv, Story, Id
<1>3. CASE \E r \in Rows(f) : r.path = p
  BY <1>2, <1>3, RowIn DEF HasRow, RowsOf, PathOfRow
<1>4. CASE \E x \in Waiting(f) \cup Fresh(f) \cup Writing(f) : p \in {x.path, x.to}
  <2>1. PICK x \in InProgress \cup writes : x.id = f /\ p \in {x.path, x.to}
    BY <1>4 DEF Waiting, Fresh, Writing, InProgress
  <2>2. f \in WorkedOn(p)
    BY <2>1 DEF WorkedOn
  <2>3. BusyPath(p)
    BY <2>1 DEF BusyPath, Occupied
  <2> QED
    BY <1>1, <2>2, <2>3
<1>5. CASE p # NoPath /\ p = Loc(item[f], f)
  <2>1. f \in Near(p)
    BY <1>2, <1>5, LocIs DEF Near, Alone
  <2> QED
    BY <1>1, <2>1
<1> QED
  BY <1>3, <1>4, <1>5 DEF Claims, Tracks

(* What is known of a file that nobody is at work on, and nothing unread. *)
LEMMA AtRest ==
  ASSUME Inv, NEW g \in LinkedRows, NEW f, f = Link(g).id, Clean(f), ~Busy(f), PathOf(f) = RowPath(g),
         \A i \in DOMAIN Unread : Unread[i].id # f
  PROVE  /\ f \in File /\ Story(f) /\ Waiting(f) = {} /\ Fresh(f) = {} /\ Writing(f) = {} /\ Entries(f) = {}
         /\ f \notin DOMAIN expected /\ f \notin DOMAIN old
         /\ \E r : Rows(f) = {r} /\ r.gid = g /\ r.path = RowPath(g) /\ r.link = LinkIn(db, g)
                                 /\ AgreedRow(r, item[f], f, Tied(f))
         /\ Loc(item[f], f) = RowPath(g) /\ RowPath(g) # NoPath /\ Agreed(f) /\ Gone(f) = {} /\ ~Told(f)
         /\ \A p : Claims(f, p) => p = RowPath(g)
         /\ kind = "google" /\ item[f].dir \in Folder => LinkedTo(db, Cloud, item[f].dir) # {}
         /\ Born(f)
<1>1. /\ TypeInv /\ CloudTyped /\ f \in File /\ f \in Id /\ Story(f) /\ Tables(db) /\ g \in DOMAIN db.files
      /\ LinkedIn(db, g) /\ LinkIn(db, g).id = f /\ RowPath(g) = PathOfRow(db, g) /\ RowPath(g) \in Paths
  BY RowIs DEF Inv, Clean, Stories, TypeInv, DbTyped, DbOK, Id
<1>2. Waiting(f) = {} /\ Fresh(f) = {} /\ Writing(f) = {} /\ Entries(f) = {} /\ f \notin DOMAIN expected /\ f \notin DOMAIN old
  <2>1. \A x \in InProgress \cup writes : x.id # f
    BY DEF Busy
  <2>2. \A i \in DOMAIN batch : batch[i].id # f
    BY DEF Busy
  <2> QED
    BY <2>1, <2>2 DEF Busy, Waiting, Fresh, Writing, Entries, InProgress, Range
<1>3. Resting(f)
  BY <1>1, <1>2 DEF Story, Phase, Changing, Sending
<1>4. Loc(item[f], f) = RowPath(g) /\ RowPath(g) # NoPath /\ item[f].live /\ Here(f) = RowPath(g)
  <2>1. Loc(item[f], f) = PathOf(f)
    BY <1>1, LocIs DEF Story, Alone
  <2>2. RowPath(g) # NoPath
    <3>1. RowPath(g) \in Spots(f, HomeFolder) /\ HomeFolder \in SUBSET Folder
      BY RowIs, HomesAreLive, <1>1
    <3> QED
      BY <1>1, <3>1, SpotsIn
  <2>3. item[f].live /\ Loc(item[f], f) = Spot(item[f].dir, f)
    BY <2>1, <2>2 DEF Loc
  <2> QED
    BY <2>1, <2>2, <2>3 DEF Here
<1>5. [gid |-> g, path |-> PathOfRow(db, g), link |-> LinkIn(db, g)] \in Rows(f)
  BY <1>1, RowsAre DEF Rows
<1>6. PICK r : Rows(f) = {r}
  BY <1>3, <1>5 DEF Resting, Sound
<1>7. r.gid = g /\ r.path = RowPath(g) /\ r.link = LinkIn(db, g)
  BY <1>1, <1>5, <1>6
<1>8. \A e \in Gone(f) : e.path # r.path
  BY <1>1, <1>4, <1>6 DEF Story, Notices
<1>9. Agreed(f)
  <2> SUFFICES ASSUME Behind(f) PROVE FALSE
    BY <1>3 DEF Resting
  <2>1. ~UserRec(f, token)
    BY <1>1, UnreadIs DEF UserRec
  <2>2. PICK e \in Gone(f) : News(f, e)
    BY <1>2, <2>1 DEF Behind
  <2>3. e.path = r.path
    BY <1>6, <2>2 DEF News, Gone
  <2> QED
    BY <1>8, <2>3
<1>10. AgreedRow(r, item[f], f, Tied(f))
  BY <1>4, <1>6, <1>9 DEF Agreed
<1>11. \A p : Claims(f, p) => p = RowPath(g)
  BY <1>2, <1>4, <1>6, <1>7 DEF Claims, Tracks
<1>12. Gone(f) = {}
  BY <1>7, <1>8, <1>11 DEF Gone
<1>13. Born(f)
  BY <1>1 DEF Inv, Births
<1>14. ~Told(f)
  <2> SUFFICES ASSUME NEW n \in DOMAIN feed, n > token, feed[n].id = f \/ Claims(f, feed[n].key) PROVE FALSE
    BY DEF Told
  <2>1. feed[n].id # f /\ n \in Nat /\ token \in Nat
    BY <1>1, UnreadIs, SeqFacts DEF CloudTyped
  <2>2. feed[n].key = RowPath(g)
    BY <1>11, <2>1
  <2>3. kind = "dropbox"
    <3>1. kind = "google" => feed[n].key \in Id
      BY <1>1 DEF CloudTyped, RecordOK
    <3>2. RowPath(g) \notin Id
      BY <1>1, <2>1, ClaimsIn, <2>2 DEF Story
    <3> QED
      BY <1>1, <2>2, <3>1, <3>2 DEF CloudTyped
  <2>4. Claims(f, Here(f))
    BY <1>4 DEF Claims
  <2>5. PICK m \in DOMAIN feed : m > n /\ feed[m].id = f
    BY <1>1, <1>4, <1>13, <2>1, <2>2, <2>3, <2>4 DEF Story, Notices, LastSay
  <2>6. m > token
    BY <1>1, <2>1, <2>5, SeqFacts DEF CloudTyped
  <2> QED
    BY <1>1, <2>5, <2>6, UnreadIs
<1>15. kind = "google" /\ item[f].dir \in Folder => LinkedTo(db, Cloud, item[f].dir) # {}
  BY <1>1, <1>6, ParentKnown
<1> QED
  BY <1>1, <1>2, <1>4, <1>6, <1>7, <1>9, <1>10, <1>11, <1>12, <1>13, <1>14, <1>15

(* Nothing but the file is at a place, or on its way to it. *)
Vacant(f, p) ==
  /\ \A id \in File : id # f => ~Touches(id, p)
  /\ p \notin stuck /\ (\A g \in Loose(db) : PathOfRow(db, g) # p)
  /\ (\A i \in DOMAIN batch : batch[i].path # p) /\ \A n \in DOMAIN feed : n > token => feed[n].key # p

(* A write of a file that was at rest. *)
LEMMA BegunKept ==
  ASSUME Inv, TypeInv', NEW w, NEW result, NEW races, Begin(w, result, races), FoldersKept,
         NEW g \in LinkedRows, NEW f, f = Link(g).id, Clean(f), ~Busy(f), PathOf(f) = RowPath(g),
         \A i \in DOMAIN Unread : Unread[i].id # f, Tied(f)' <=> Tied(f),
         w.id = f, w.gid = g, w.path = RowPath(g), w.stage = "queued", w.op \in {"Update", "Move", "Delete"},
         \A h \in Loose(result) : h \in Loose(db) /\ PathOfRow(result, h) = PathOfRow(db, h),
         \A id \in File : id # f => RowsIn(result, id) = Rows(id),
         \A r \in RowsIn(result, f) : r.gid = g /\ r.path = w.to,
         w.to = w.path \/ Vacant(f, w.to), WriteRight(w, f)'
  PROVE  Story(f)'
<1>1. /\ Aside /\ UNCHANGED <<changes, stuck, expected, status>> /\ writes' = writes \cup {w} /\ db' = result
      /\ TypeInv
  BY BegunIs DEF Inv
<1>2. /\ f \in File /\ Story(f) /\ Waiting(f) = {} /\ Fresh(f) = {} /\ Writing(f) = {} /\ Entries(f) = {}
      /\ f \notin DOMAIN expected /\ f \notin DOMAIN old
      /\ \E r : Rows(f) = {r} /\ r.gid = g /\ r.path = RowPath(g) /\ r.link = LinkIn(db, g)
                              /\ AgreedRow(r, item[f], f, Tied(f))
      /\ Loc(item[f], f) = RowPath(g) /\ RowPath(g) # NoPath /\ Agreed(f) /\ Gone(f) = {} /\ ~Told(f)
      /\ \A p : Claims(f, p) => p = RowPath(g)
      /\ kind = "google" /\ item[f].dir \in Folder => LinkedTo(db, Cloud, item[f].dir) # {}
      /\ Born(f)
  BY AtRest
<1>3. Rows(f)' = RowsIn(result, f) /\ Waiting(f)' = {} /\ Fresh(f)' = {} /\ Writing(f)' = {w} /\ Entries(f)' = {}
  BY <1>1, <1>2 DEF Rows, Waiting, Fresh, Writing, Entries, Aside
<1>4. \A id \in File : id # f => Rows(id)' = Rows(id) /\ Waiting(id)' = Waiting(id) /\ Fresh(id)' = Fresh(id) /\ Writing(id)' = Writing(id)
  BY <1>1 DEF Rows, Waiting, Fresh, Writing, Aside
<1>5. Loc(item[f], f)' = Loc(item[f], f) /\ Here(f)' = Here(f) /\ item'[f] = item[f] /\ kind' = kind
  BY <1>1 DEF Aside, Loc, Here, Spot
<1>6. \A p : Claims(f, p)' => p \in {w.path, w.to}
  BY <1>2, <1>3, <1>5 DEF Claims, Tracks
<1>7. Claims(f, w.path)
  BY <1>2 DEF Claims
<1>8. Alone(f) /\ Alone(f)'
  <2>1. Alone(f)
    BY <1>2 DEF Story
  <2>2. item[f]'.dir \in Folder => item[f]'.dir \in HomeFolder'
    BY <1>1, <2>1, SameWorld DEF Aside, Alone
  <2>3. ASSUME NEW id \in File, id # f, NEW p, Claims(f, p)', Touches(id, p)' PROVE FALSE
    <3>1. Touches(id, p)
      <4>1. Tracks(id, p)' => Tracks(id, p)
        BY <1>4, <2>3 DEF Tracks
      <4> QED
        BY <1>1, <2>3, <4>1, TouchesAside
    <3>2. p = w.path \/ (p = w.to /\ Vacant(f, p))
      BY <1>6, <2>3
    <3> QED
      BY <1>7, <2>1, <2>3, <3>1, <3>2 DEF Alone, Vacant
  <2>4. \A p \in stuck' : ~Claims(f, p)'
    BY <1>1, <1>6, <1>7, <2>1 DEF Alone, Vacant
  <2>5. ASSUME NEW h \in Loose(db'), NEW p, p = PathOfRow(db', h), Claims(f, p)' PROVE FALSE
    <3>1. h \in Loose(db) /\ PathOfRow(db', h) = PathOfRow(db, h)
      BY <1>1, <2>5
    <3>2. p = w.path \/ (p = w.to /\ Vacant(f, w.to))
      BY <1>6, <2>5
    <3>3. CASE p = w.path
      <4>1. Claims(f, PathOfRow(db, h))
        BY <1>7, <2>5, <3>1, <3>3
      <4> QED
        BY <1>2, <2>1, <3>1, <4>1 DEF Alone
    <3>4. CASE p = w.to /\ Vacant(f, w.to)
      BY <2>5, <3>1, <3>4 DEF Vacant
    <3> QED
      BY <3>2, <3>3, <3>4
  <2>6. \A v \in writes' : \A r \in Rows(f)' : r.gid = v.gid => v.id = f
    BY <1>1, <1>2, <1>3, <2>1 DEF Alone
  <2>7. \A h \in Loose(db)' : Claims(f, PathOfRow(db, h))' => \E x \in Writing(f)' : x.gid = h
    BY <2>5
  <2> QED
    BY <2>1, <2>2, <2>3, <2>4, <2>6, <2>7 DEF Alone
<1>9. ~Told(f)' /\ Gone(f)' = {}
  <2>1. \A i \in DOMAIN batch : w.to # w.path => batch[i].path # w.to
    BY DEF Vacant
  <2>2. Gone(f)' = {}
    <3> SUFFICES ASSUME NEW e \in Range(batch), e.id = None, Claims(f, e.path)' PROVE FALSE
      BY <1>1 DEF Gone, Aside
    <3>1. e.path = w.path
      BY <1>6, <2>1 DEF Range
    <3> QED
      BY <1>2, <1>7, <3>1 DEF Gone
  <2>3. ~Told(f)'
    <3>1. ASSUME NEW n \in DOMAIN feed, n > token, feed[n].id = f PROVE FALSE
      BY <1>2, <3>1 DEF Told
    <3>2. ASSUME NEW n \in DOMAIN feed, n > token, NEW k, k = feed[n].key, Claims(f, k)' PROVE FALSE
      <4>1. k = w.path
        BY <1>6, <3>2 DEF Vacant
      <4> QED
        BY <1>2, <1>7, <3>2, <4>1 DEF Told
    <3> QED
      BY <1>1, <3>1, <3>2 DEF Told, Aside
  <2> QED
    BY <2>2, <2>3
<1>10. Phase(f)'
  <2>1. ~Arrived(w) /\ (Arrived(w)' <=> Arrived(w)) /\ WriteKey(w)' = WriteKey(w) /\ (w.op \in {"New", "Update"} => WriteKey(w) = f)
    BY DEF Arrived, WriteKey
  <2>2. Awaits(w, f)'
    BY <1>1, <1>2, <1>3, <1>9, <2>1 DEF Awaits, Aside
  <2>3. Sending(f, w)'
    BY <1>3, <2>2 DEF Sending
  <2> QED
    BY <2>3 DEF Phase
<1>11. Notices(f)'
  <2>1. LastSay(f)'
    <3>1. LastSay(f)
      BY <1>2 DEF Story, Notices
    <3>2. Claims(f, Here(f))
      <4>1. Loc(item[f], f) = Here(f)
        BY <1>2 DEF Loc, Here
      <4> QED
        BY <1>2, <4>1 DEF Claims
    <3> QED
      BY <1>1, <1>2, <1>5, <3>1, <3>2 DEF LastSay, Aside
  <2> QED
    BY <1>3, <1>9, <2>1 DEF Notices
<1>12. OneChange(f)'
  BY <1>3 DEF OneChange, Once, Waiting, Fresh, Range
<1>13. FolderFirst(f)'
  BY <1>1, <1>2, <1>5 DEF FolderFirst, FoldersKept
<1> QED
  BY <1>8, <1>10, <1>11, <1>12, <1>13 DEF Story

(* The others, when a write of a row begins. *)
LEMMA BegunApart ==
  ASSUME Inv, TypeInv', NEW w, NEW result, NEW races, Begin(w, result, races), FoldersKept,
         NEW g \in LinkedRows, w.id = Link(g).id, w.gid = g, w.path = RowPath(g), w.op # "New",
         \A h \in Loose(result) : h \in Loose(db) /\ PathOfRow(result, h) = PathOfRow(db, h),
         \A id \in File : id # w.id => RowsIn(result, id) = Rows(id),
         \A r \in RowsIn(result, w.id) : r.path = w.to \/ r \in Rows(w.id),
         RowsIn(result, w.id) # {} => Rows(w.id) # {},
         \A f \in File : f # w.id /\ Story(f) /\ Clean(f)' => w.to = w.path \/ ~Claims(f, w.to),
         Clean(w.id)' => Story(w.id)'
  PROVE  Inv'
<1>1. /\ Aside /\ UNCHANGED <<changes, stuck, expected, status>> /\ writes' = writes \cup {w} /\ db' = result
      /\ TypeInv /\ Tables(db) /\ w.id \in File /\ LinkedIn(db, g) /\ g \in DOMAIN db.files
      /\ RowPath(g) = PathOfRow(db, g) /\ LinkIn(db, g).id = w.id
  BY BegunIs, RowIs DEF Inv, TypeInv, DbTyped, DbOK
<1>2. \A id : Rows(id)' = RowsIn(result, id) /\ Waiting(id)' = Waiting(id) /\ Fresh(id)' = Fresh(id)
  BY <1>1 DEF Rows, Waiting, Fresh, Aside
<1>3. \A id : id # w.id => Writing(id)' = Writing(id)
  BY <1>1 DEF Writing
<1>4. Writing(w.id)' = Writing(w.id) \cup {w}
  BY <1>1 DEF Writing
<1>5. [gid |-> g, path |-> PathOfRow(db, g), link |-> LinkIn(db, g)] \in Rows(w.id)
  BY <1>1, RowsAre DEF Rows
<1>6. \A p : Tracks(w.id, p)' => Tracks(w.id, p) \/ p \in {w.path, w.to}
  BY <1>2, <1>4 DEF Tracks
<1>7. Tracks(w.id, w.path)
  BY <1>1, <1>5 DEF Tracks
<1>8. \A id \in File : \A p : id # w.id /\ Tracks(id, p)' => Tracks(id, p)
  BY <1>2, <1>3 DEF Tracks, Rows
<1>9. ASSUME NEW f \in File, f # w.id, Story(f), Clean(f)' PROVE Apart(f, w.id)
  <2>1. Rows(f)' = Rows(f) /\ Writing(f)' = Writing(f)
    BY <1>2, <1>3, <1>9
  <2>2. \A p : Claims(f, p) /\ Tracks(w.id, p)' => Touches(w.id, p)
    BY <1>6, <1>7, <1>9 DEF Touches
  <2>3. \A r \in Rows(f) : r.gid # w.gid
    <3>1. \A r \in Rows(f) : LinkIn(db, r.gid).id = f
      BY <1>1, <1>9, RowIn DEF Id
    <3> QED
      BY <1>1, <1>9, <3>1
  <2> QED
    BY <1>1, <2>1, <2>2, <2>3 DEF Apart
<1>10. \A f \in File : Clean(f)' => Clean(f) /\ (Tied(f)' <=> Tied(f))
  BY BegunIs
<1>11. Born(w.id)
  BY <1>1 DEF Inv, Births
<1>12. \A id \in File : Rows(id)' # {} => Rows(id) # {} \/ Born(id)
  BY <1>2, <1>11 DEF Rows
<1>13. \A v \in writes' : IF v.op = "New" /\ v.stage # "arrived"
                         THEN ~Born(v.id) /\ \A x \in writes' : x.id = v.id => x = v
                         ELSE Born(v.id)
  BY <1>1, <1>11 DEF Inv, Births
<1> QED
  BY <1>1, <1>8, <1>9, <1>10, <1>12, <1>13, WritesKept

LEMMA VacantIs ==
  ASSUME Inv, NEW f \in Id, NEW p, ~BusyPath(p), OthersAt(f, p) = {}, Near(p) \ {f} = {}
  PROVE  /\ \A id \in File : id # f => ~Touches(id, p)
         /\ p \notin stuck /\ (\A g \in Loose(db) : PathOfRow(db, g) # p)
         /\ (\A i \in DOMAIN batch : batch[i].path # p)
         /\ p \notin DOMAIN expected /\ p \notin DOMAIN old
<1>1. TypeInv /\ Tables(db)
  BY DEF Inv, TypeInv, DbTyped, DbOK
<1>2. \A g \in DOMAIN db.files : PathOfRow(db, g) = p => LinkedIn(db, g) /\ LinkIn(db, g).id = f
  BY <1>1, Key DEF OthersAt, RowsOf, Known, PathOfRow
<1>3. ASSUME NEW id \in File, id # f, Touches(id, p) PROVE FALSE
  <2>1. id \in Id
    BY DEF Id
  <2>2. CASE \E r \in Rows(id) : r.path = p
    <3>1. PICK r \in Rows(id) : r.path = p
      BY <2>2
    <3>2. r.gid \in DOMAIN db.files /\ LinkIn(db, r.gid).id = id /\ PathOfRow(db, r.gid) = p
      BY <1>1, <2>1, <3>1, RowIn
    <3> QED
      BY <1>2, <1>3, <3>2
  <2>3. CASE \E x \in Waiting(id) \cup Fresh(id) \cup Writing(id) : p \in {x.path, x.to}
    BY <2>3 DEF BusyPath, Occupied, Waiting, Fresh, Writing, InProgress
  <2>4. CASE p = Apparent(item[id], id)
    BY <1>3, <2>1, <2>4 DEF Near
  <2>5. CASE \E e \in Entries(id) : e.path = p
    BY <2>5 DEF BusyPath, Entries, Range
  <2> QED
    BY <1>3, <2>2, <2>3, <2>4, <2>5 DEF Touches, Tracks
<1>4. p \notin stuck /\ (\A i \in DOMAIN batch : batch[i].path # p) /\ p \notin DOMAIN expected /\ p \notin DOMAIN old
  BY DEF BusyPath, Occupied
<1> QED
  BY <1>2, <1>3, <1>4 DEF Loose

LEMMA NoRace ==
  ASSUME NEW g, NEW path, ~Races(g, path)
  PROVE  /\ ~Busy(Link(g).id) /\ ~BusyPath(path) /\ OthersAt(Link(g).id, path) = {}
         /\ PathOf(Link(g).id) = RowPath(g)
         /\ \A i \in DOMAIN Unread : Unread[i].id # Link(g).id /\ Unread[i].key # path
BY DEF Races, Interferes, Unnoticed

LEMMA WriteRowKept ==
  ASSUME Aside, NEW f, Tied(f)' <=> Tied(f)
  PROVE  \A w, r : WriteRow(w, r, item[f], f, Tied(f))' <=> WriteRow(w, r, item[f], f, Tied(f))
BY DEF Aside, WriteRow, AgreedRow, UpToDate, Arrived, Loc, Spot

LEMMA BeginUpdateKept ==
  ASSUME Inv, TypeInv', NEW g \in LinkedRows, BeginUpdate(g) PROVE Inv'
<1> DEFINE p == RowPath(g)
<1>1. PICK f : f = Link(g).id
  OBVIOUS
<1>2. PICK w : w = WriteOf("Update", f, g, p, p, Home)
  OBVIOUS
<1>3. PICK races : races = Races(g, p)
  OBVIOUS
<1>4. Begin(w, db, races)
  BY <1>1, <1>2, <1>3 DEF BeginUpdate
<1>5. w.op = "Update" /\ w.id = f /\ w.gid = g /\ w.path = p /\ w.to = p /\ w.dir = Home /\ w.stage = "queued"
  BY <1>2 DEF WriteOf
<1>6. /\ Aside /\ db' = db /\ FoldersKept /\ TypeInv /\ f \in File /\ Home \notin Folder
      /\ \A x \in File : Clean(x)' => Clean(x) /\ (Tied(x)' <=> Tied(x))
      /\ Clean(f)' => ~races
  BY <1>1, <1>4, <1>5, BegunIs, RowIs, Names DEF FoldersKept, Inv, Id
<1> HIDE DEF p
<1>7. ASSUME Clean(f)' PROVE Story(f)'
  <2>1. /\ ~Busy(f) /\ PathOf(f) = RowPath(g) /\ \A i \in DOMAIN Unread : Unread[i].id # f
    BY <1>1, <1>3, <1>6, <1>7, NoRace
  <2>2. Clean(f) /\ (Tied(f)' <=> Tied(f))
    BY <1>6, <1>7
  <2>3. /\ \E r : Rows(f) = {r} /\ r.gid = g /\ r.path = RowPath(g) /\ r.link = LinkIn(db, g)
                              /\ AgreedRow(r, item[f], f, Tied(f))
        /\ Loc(item[f], f) = RowPath(g)
    BY <1>1, <2>1, <2>2, AtRest
  <2>4. PICK r : Rows(f) = {r} /\ r.gid = g /\ r.path = RowPath(g) /\ AgreedRow(r, item[f], f, Tied(f))
    BY <2>3
  <2>5. WriteRow(w, r, item[f], f, Tied(f))
    BY <1>5, <2>3, <2>4 DEF WriteRow, Arrived, p
  <2>6. Rows(f)' = {r}
    BY <1>6, <2>4 DEF Rows
  <2>7. WriteRow(w, r, item[f], f, Tied(f))'
    BY <1>6, <2>2, <2>5, WriteRowKept
  <2>8. WriteRight(w, f)'
    BY <1>5, <1>6, <2>6, <2>7 DEF WriteRight, Arrived
  <2>9. \A x \in RowsIn(db, f) : x.gid = g /\ x.path = w.to
    BY <1>5, <2>4 DEF Rows, p
  <2>10. w.path = RowPath(g) /\ w.to = w.path /\ w.op \in {"Update", "Move", "Delete"}
    BY <1>5 DEF p
  <2> QED
    BY <1>1, <1>4, <1>5, <1>6, <2>1, <2>2, <2>8, <2>9, <2>10, BegunKept DEF Rows
<1>8. w.path = RowPath(g) /\ w.to = w.path
  BY <1>5 DEF p
<1> QED
  BY <1>1, <1>4, <1>5, <1>6, <1>7, <1>8, BegunApart DEF Rows

LEMMA BeginDeleteKept ==
  ASSUME Inv, TypeInv', NEW g \in LinkedRows, BeginDelete(g) PROVE Inv'
<1> DEFINE p == RowPath(g)
<1>1. PICK f : f = Link(g).id
  OBVIOUS
<1>2. PICK w : w = WriteOf("Delete", f, g, p, p, Home)
  OBVIOUS
<1>3. PICK races : races = Races(g, p)
  OBVIOUS
<1>0. PICK e : e = WithoutFile(db, g)
  OBVIOUS
<1>4. Begin(w, e, races)
  BY <1>0, <1>1, <1>2, <1>3 DEF BeginDelete
<1>5. w.op = "Delete" /\ w.id = f /\ w.gid = g /\ w.path = p /\ w.to = p /\ w.dir = Home /\ w.stage = "queued"
  BY <1>2 DEF WriteOf
<1>6. /\ Aside /\ db' = e /\ TypeInv /\ f \in File /\ Home \notin Folder /\ DbOK(db, HomeFolder)
      /\ \A x \in File : Clean(x)' => Clean(x) /\ (Tied(x)' <=> Tied(x))
      /\ Clean(f)' => ~races
      /\ g \in DOMAIN db.files /\ LinkedIn(db, g) /\ LinkIn(db, g).id = f /\ g \notin Loose(db)
  BY <1>1, <1>4, <1>5, BegunIs, RowIs, Names DEF Inv, Id, TypeInv, DbTyped
<1>7. DbOK(e, HomeFolder) /\ ~LinkedIn(e, g) /\ g \notin DOMAIN e.files /\ Others(db, e, g) /\ Tables(e) /\ g \notin Loose(e)
  BY <1>0, <1>6, DroppedIs DEF DbOK, Loose
<1>8. /\ \A h \in Loose(e) : h \in Loose(db) /\ PathOfRow(e, h) = PathOfRow(db, h)
      /\ \A id : id # f => RowsIn(e, id) = RowsIn(db, id)
      /\ \A d \in Folder : LinkedTo(e, Cloud, d) = LinkedTo(db, Cloud, d)
      /\ RowsIn(e, f) = {r \in RowsIn(db, f) : r.gid # g}
  BY <1>6, <1>7, OneRow
<1>9. FoldersKept
  BY <1>6, <1>8 DEF FoldersKept
<1> HIDE DEF p
<1>10. ASSUME Clean(f)' PROVE Story(f)'
  <2>1. /\ ~Busy(f) /\ PathOf(f) = RowPath(g) /\ \A i \in DOMAIN Unread : Unread[i].id # f
    BY <1>1, <1>3, <1>6, <1>10, NoRace
  <2>2. Clean(f) /\ (Tied(f)' <=> Tied(f))
    BY <1>6, <1>10
  <2>3. /\ \E r : Rows(f) = {r} /\ r.gid = g /\ r.path = RowPath(g) /\ r.link = LinkIn(db, g)
                              /\ AgreedRow(r, item[f], f, Tied(f))
        /\ Loc(item[f], f) = RowPath(g)
    BY <1>1, <2>1, <2>2, AtRest
  <2>4. RowsIn(e, f) = {}
    BY <1>8, <2>3 DEF Rows
  <2>5. Rows(f)' = {} /\ Loc(item[f], f)' = w.path
    BY <1>5, <1>6, <2>3, <2>4 DEF Rows, Loc, Spot, Aside, p
  <2>6. WriteRight(w, f)'
    BY <1>5, <1>6, <2>5 DEF WriteRight, Arrived
  <2>7. w.path = RowPath(g) /\ w.to = w.path /\ w.op \in {"Update", "Move", "Delete"}
    BY <1>5 DEF p
  <2> QED
    BY <1>1, <1>4, <1>5, <1>6, <1>8, <1>9, <2>1, <2>2, <2>4, <2>6, <2>7, BegunKept DEF Rows
<1>11. w.path = RowPath(g) /\ w.to = w.path
  BY <1>5 DEF p
<1> QED
  BY <1>1, <1>4, <1>5, <1>6, <1>8, <1>9, <1>10, <1>11, BegunApart DEF Rows

LEMMA BeginMoveKept ==
  ASSUME Inv, TypeInv', NEW g \in LinkedRows, NEW dir, BeginMove(g, dir) PROVE Inv'
<1> DEFINE p == RowPath(g)
<1>1. PICK f : f = Link(g).id
  OBVIOUS
<1>2. PICK to : to = PathUnder(dir, f)
  OBVIOUS
<1>3. PICK there : there = IF kind = "google" /\ dir = Home THEN None ELSE dir
  OBVIOUS
<1>4. PICK w : w = WriteOf("Move", f, g, p, to, there)
  OBVIOUS
<1>5. PICK races : races = (Races(g, to) \/ Near(to) # {} \/ (kind = "google" /\ dir = Home))
  OBVIOUS
<1>0. PICK e : e = WithFileMoved(db, g, to)
  OBVIOUS
<1>6. Begin(w, e, races) /\ dir \in KnownDirs /\ ~HasRow(db, to)
  BY <1>0, <1>1, <1>2, <1>3, <1>4, <1>5 DEF BeginMove
<1>7. w.op = "Move" /\ w.id = f /\ w.gid = g /\ w.path = p /\ w.to = to /\ w.dir = there /\ w.stage = "queued"
  BY <1>4 DEF WriteOf
<1>8. /\ Aside /\ db' = e /\ TypeInv /\ DbTyped /\ f \in File /\ f \in Id /\ Home \notin Folder /\ DbOK(db, HomeFolder)
      /\ HomeFolder \in SUBSET Folder
      /\ \A x \in File : Clean(x)' => Clean(x) /\ (Tied(x)' <=> Tied(x))
      /\ Clean(f)' => ~races
      /\ g \in DOMAIN db.files /\ LinkedIn(db, g) /\ LinkIn(db, g).id = f /\ g \notin Loose(db)
      /\ p = PathOfRow(db, g)
  BY <1>1, <1>6, <1>7, BegunIs, RowIs, Names, HomesAreLive DEF Inv, Id, TypeInv, DbTyped
<1>9. dir \in {Home} \cup HomeFolder /\ to = Spot(dir, f) /\ to \in Spots(f, HomeFolder) /\ dir \notin {None, Elsewhere}
  <2>1. dir \in {Home} \cup HomeFolder /\ to = Spot(dir, f)
    BY <1>2, <1>6, <1>8, UnderIs
  <2>2. to \in Spots(f, HomeFolder)
    BY <1>8, <2>1, SpotsIn
  <2>3. dir \notin {None, Elsewhere}
    BY <1>8, <2>1, Names DEF Dir
  <2> QED
    BY <2>1, <2>2, <2>3
<1>10. /\ DbOK(e, HomeFolder) /\ LinkedIn(e, g) /\ LinkIn(e, g) = LinkIn(db, g) /\ PathOfRow(e, g) = to
       /\ Others(db, e, g) /\ Tables(e) /\ g \notin Loose(e)
  <2>1. DbOK(db, HomeFolder) /\ LinkedIn(db, g) /\ LinkIn(db, g).id \in File /\ to \in Spots(LinkIn(db, g).id, HomeFolder)
    BY <1>8, <1>9
  <2>2. /\ DbOK(e, HomeFolder) /\ LinkedIn(e, g) /\ LinkIn(e, g) = LinkIn(db, g) /\ PathOfRow(e, g) = to
        /\ Others(db, e, g)
    BY <1>0, <1>8, <2>1, MovedIs
  <2> QED
    BY <2>2 DEF DbOK, Loose
<1>11. PICK v : v = [gid |-> g, path |-> PathOfRow(e, g), link |-> LinkIn(e, g)]
  OBVIOUS
<1>12. /\ \A h \in Loose(e) : h \in Loose(db) /\ PathOfRow(e, h) = PathOfRow(db, h)
       /\ \A id : id # f => RowsIn(e, id) = RowsIn(db, id)
       /\ \A d \in Folder : LinkedTo(e, Cloud, d) = LinkedTo(db, Cloud, d)
       /\ RowsIn(e, f) = {r \in RowsIn(db, f) : r.gid # g} \cup {v}
  BY <1>8, <1>10, <1>11, OneRow
<1>13. v.gid = g /\ v.path = to /\ v.link = LinkIn(db, g)
  BY <1>10, <1>11
<1>14. FoldersKept /\ Rows(f) # {}
  <2>1. Rows(f) # {}
    BY <1>8, RowsAre DEF Rows, DbOK
  <2> QED
    BY <1>8, <1>12, <2>1 DEF FoldersKept
<1>15. p # to
  BY <1>6, <1>8 DEF HasRow, RowsOf, PathOfRow
<1> HIDE DEF p
<1>16. ASSUME Clean(f)' PROVE Story(f)'
  <2>1. ~Races(g, to) /\ Near(to) = {} /\ there = dir
    BY <1>3, <1>5, <1>8, <1>16
  <2>2. /\ ~Busy(f) /\ PathOf(f) = RowPath(g) /\ (\A i \in DOMAIN Unread : Unread[i].id # f /\ Unread[i].key # to)
        /\ ~BusyPath(to) /\ OthersAt(f, to) = {}
    BY <1>1, <2>1, NoRace
  <2>3. Clean(f) /\ (Tied(f)' <=> Tied(f))
    BY <1>8, <1>16
  <2>4. /\ \E r : Rows(f) = {r} /\ r.gid = g /\ r.path = RowPath(g) /\ r.link = LinkIn(db, g)
                              /\ AgreedRow(r, item[f], f, Tied(f))
        /\ Loc(item[f], f) = RowPath(g)
    BY <1>1, <2>2, <2>3, AtRest
  <2>5. PICK r : Rows(f) = {r} /\ r.gid = g /\ r.link = LinkIn(db, g) /\ AgreedRow(r, item[f], f, Tied(f))
    BY <2>4
  <2>6. Rows(f)' = {v} /\ RowsIn(e, f) = {v}
    BY <1>8, <1>12, <2>5 DEF Rows
  <2>7. WriteRow(w, v, item[f], f, Tied(f))
    BY <1>7, <1>9, <1>13, <1>15, <2>1, <2>4, <2>5 DEF WriteRow, AgreedRow, UpToDate, Arrived, p
  <2>8. WriteRow(w, v, item[f], f, Tied(f))'
    BY <1>8, <2>3, <2>7, WriteRowKept
  <2>9. w.dir \in Folder => LinkedTo(db', Cloud, w.dir) # {}
    BY <1>6, <1>7, <1>8, <1>12, <2>1 DEF KnownDirs, Known
  <2>10. WriteRight(w, f)'
    BY <1>7, <2>6, <2>8, <2>9 DEF WriteRight, Arrived
  <2>11. Vacant(f, to)
    <3>1. \A n \in DOMAIN feed : n > token => feed[n].key # to
      BY <1>8, <2>2, UnreadIs DEF TypeInv
    <3>2. Near(to) \ {f} = {}
      BY <2>1
    <3> QED
      BY <1>8, <2>2, <3>1, <3>2, VacantIs DEF Vacant
  <2>12. w.path = RowPath(g) /\ (w.to = w.path \/ Vacant(f, w.to)) /\ w.op \in {"Update", "Move", "Delete"}
    BY <1>7, <2>11 DEF p
  <2>13. \A x \in RowsIn(e, f) : x.gid = g /\ x.path = w.to
    BY <1>7, <1>13, <2>6
  <2>14. /\ \A h \in Loose(e) : h \in Loose(db) /\ PathOfRow(e, h) = PathOfRow(db, h)
         /\ \A id \in File : id # f => RowsIn(e, id) = Rows(id)
         /\ \A i \in DOMAIN Unread : Unread[i].id # f
    BY <1>12, <2>2 DEF Rows
  <2> QED
    BY <1>1, <1>6, <1>7, <1>14, <2>2, <2>3, <2>10, <2>12, <2>13, <2>14, BegunKept
<1>17. ASSUME NEW x \in File, x # w.id, Story(x), Clean(x)' PROVE ~Claims(x, w.to)
  <2>1. BusyPath(w.to) \/ Near(w.to) # {} => races
    BY <1>5, <1>7 DEF Races, Interferes
  <2> QED
    BY <1>6, <1>7, <1>17, <2>1, NotTheirs
<1>18. w.path = RowPath(g) /\ w.op # "New" /\ w.id = Link(g).id /\ w.gid = g
  BY <1>1, <1>7 DEF p
<1>19. /\ \A h \in Loose(e) : h \in Loose(db) /\ PathOfRow(e, h) = PathOfRow(db, h)
       /\ \A id \in File : id # w.id => RowsIn(e, id) = Rows(id)
       /\ \A r \in RowsIn(e, w.id) : r.path = w.to \/ r \in Rows(w.id)
       /\ RowsIn(e, w.id) # {} => Rows(w.id) # {}
  BY <1>7, <1>12, <1>13, <1>14 DEF Rows
<1>20. Clean(w.id)' => Story(w.id)'
  <2>1. w.id = f
    BY <1>7
  <2> QED
    BY <1>16, <2>1
<1> QED
  BY <1>6, <1>14, <1>17, <1>18, <1>19, <1>20, BegunApart

(* Nothing names what has not been in the cloud. *)
LEMMA Nameless ==
  ASSUME Inv, NEW f \in File, ~Born(f)
  PROVE  /\ item[f] = Unborn /\ Rows(f) = {} /\ Waiting(f) = {} /\ Fresh(f) = {} /\ Entries(f) = {}
         /\ \A n \in DOMAIN feed : feed[n].id # f
         /\ \A w \in Writing(f) : w.op = "New" /\ w.stage # "arrived" /\ Writing(f) = {w}
<1>1. Births /\ TypeInv /\ Tables(db) /\ f \in Id
  BY DEF Inv, TypeInv, DbTyped, DbOK, Id
<1>2. Rows(f) = {}
  <2> SUFFICES ASSUME NEW r \in Rows(f) PROVE FALSE
    OBVIOUS
  <2>1. r.gid \in DOMAIN db.files /\ LinkedIn(db, r.gid) /\ LinkIn(db, r.gid).id = f
    BY <1>1, RowIn
  <2> QED
    BY <1>1, <2>1 DEF Births
<1>3. Waiting(f) = {} /\ Fresh(f) = {}
  BY <1>1 DEF Births, Waiting, Fresh, InProgress
<1>4. Entries(f) = {}
  <2>1. f # None
    BY <1>1, Names
  <2> QED
    BY <1>1, <2>1 DEF Births, Entries, Range
<1>5. \A w \in Writing(f) : w.op = "New" /\ w.stage # "arrived" /\ Writing(f) = {w}
  BY <1>1 DEF Births, Writing
<1> QED
  BY <1>1, <1>2, <1>3, <1>4, <1>5 DEF Births

LEMMA BeginUploadKept ==
  ASSUME Inv, TypeInv', NEW f \in File, NEW dir, BeginUpload(f, dir) PROVE Inv'
<1>1. PICK p : p = PathUnder(dir, f)
  OBVIOUS
<1>2. PICK n : n = NewId(db)
  OBVIOUS
<1>3. PICK w : w = WriteOf("New", f, n, p, p, dir)
  OBVIOUS
<1>4. PICK races : races = (BusyPath(p) \/ Near(p) # {} \/ Unnoticed(f, p))
  OBVIOUS
<1>5. PICK e : e = WithFile(db, p, None)
  OBVIOUS
<1>6. /\ Begin(w, e, races) /\ dir \in KnownDirs /\ ~HasRow(db, p) /\ ~Born(f) /\ \A v \in writes : v.id # f
  BY <1>1, <1>2, <1>3, <1>4, <1>5 DEF BeginUpload
<1>7. w.op = "New" /\ w.id = f /\ w.gid = n /\ w.path = p /\ w.to = p /\ w.dir = dir /\ w.stage = "queued"
  BY <1>3 DEF WriteOf
<1>8. /\ Aside /\ UNCHANGED <<changes, stuck, expected, status>> /\ writes' = writes \cup {w} /\ db' = e
      /\ TypeInv /\ DbTyped /\ f \in Id /\ Tables(db) /\ Births /\ HomeFolder \in SUBSET Folder
      /\ \A x \in File : Clean(x)' => Clean(x) /\ (Tied(x)' <=> Tied(x))
      /\ Clean(f)' => ~races
  BY <1>6, <1>7, BegunIs, HomesAreLive DEF Inv, Id, TypeInv, DbTyped, DbOK
<1>9. p = Spot(dir, f) /\ p \in Paths /\ dir \in {Home} \cup HomeFolder
  <2>1. dir \in {Home} \cup HomeFolder /\ p = Spot(dir, f)
    BY <1>1, <1>6, <1>8, UnderIs
  <2> QED
    BY <1>8, <2>1, SpotKinds
<1>10. /\ Tables(e) /\ n \notin DOMAIN db.files /\ DOMAIN e.files = DOMAIN db.files \cup {n}
       /\ PathOfRow(e, n) = p /\ ~LinkedIn(e, n) /\ Others(db, e, n)
  BY <1>2, <1>5, <1>8, <1>9, RowAdded
<1>11. \A id : LinkedTo(e, Cloud, id) = LinkedTo(db, Cloud, id) /\ RowsIn(e, id) = RowsIn(db, id)
  <2>1. ~LinkedIn(db, n)
    BY <1>8, <1>10, Key
  <2> QED
    BY <1>8, <1>10, <2>1, RowsKept
<1>12. /\ \A id : Rows(id)' = Rows(id) /\ Waiting(id)' = Waiting(id) /\ Fresh(id)' = Fresh(id) /\ Entries(id)' = Entries(id)
       /\ \A id : id # f => Writing(id)' = Writing(id)
       /\ FoldersKept
  BY <1>7, <1>8, <1>11 DEF Rows, Waiting, Fresh, Entries, Writing, Aside, FoldersKept
<1>13. /\ item[f] = Unborn /\ Rows(f) = {} /\ Waiting(f) = {} /\ Fresh(f) = {} /\ Entries(f) = {}
       /\ \A m \in DOMAIN feed : feed[m].id # f
  BY <1>6, Nameless
<1>14. Writing(f)' = {w}
  BY <1>6, <1>7, <1>8 DEF Writing
<1>15. \A h \in Loose(db') : h = n \/ (h \in Loose(db) /\ PathOfRow(db', h) = PathOfRow(db, h))
  BY <1>8, <1>10, LooseKept
<1>16. \A id \in File : \A q : id # f /\ Tracks(id, q)' => Tracks(id, q)
  BY <1>12 DEF Tracks
<1>17. ASSUME NEW x \in File, x # f, Story(x), Clean(x)' PROVE Apart(x, f)
  <2>1. ~Claims(x, p)
    BY <1>4, <1>6, <1>7, <1>17, NotTheirs
  <2>2. \A q : Tracks(f, q)' => q = p
    BY <1>7, <1>12, <1>13, <1>14 DEF Tracks
  <2>3. \A r \in Rows(x) : r.gid # n
    BY <1>8, <1>10, RowIn DEF Id
  <2>4. \A h \in Loose(db') : \/ h \in Loose(db) /\ PathOfRow(db', h) = PathOfRow(db, h)
                             \/ ~Claims(x, PathOfRow(db', h))
    BY <1>8, <1>10, <1>15, <2>1
  <2> QED
    BY <1>7, <1>8, <1>12, <1>17, <2>1, <2>2, <2>3, <2>4 DEF Apart
<1>18. \A v \in writes' : IF v.op = "New" /\ v.stage # "arrived"
                         THEN ~Born(v.id) /\ \A x \in writes' : x.id = v.id => x = v
                         ELSE Born(v.id)
  BY <1>6, <1>7, <1>8 DEF Births
<1>19. ASSUME Clean(f)' PROVE Story(f)'
  <2>1. ~BusyPath(p) /\ Near(p) = {} /\ ~Unnoticed(f, p)
    BY <1>4, <1>8, <1>19
  <2>2. /\ \A id \in File : id # f => ~Touches(id, p)
        /\ p \notin stuck /\ (\A g \in Loose(db) : PathOfRow(db, g) # p)
        /\ (\A i \in DOMAIN batch : batch[i].path # p)
        /\ p \notin DOMAIN expected /\ p \notin DOMAIN old
    <3>1. OthersAt(f, p) = {} /\ Near(p) \ {f} = {}
      BY <1>6, <2>1 DEF OthersAt, HasRow
    <3> QED
      BY <1>8, <2>1, <3>1, VacantIs
  <2>3. item'[f] = Unborn /\ Home \notin Folder /\ item[f]' = Unborn
    BY <1>8, <1>13, Names DEF Aside, Id
  <2>4. \A q : Claims(f, q)' => q = p
    BY <1>7, <1>12, <1>13, <1>14, <2>3 DEF Claims, Tracks, Loc, Unborn
  <2>5. Alone(f)'
    <3>1. ASSUME NEW id \in File, id # f, NEW q, Claims(f, q)', Touches(id, q)' PROVE FALSE
      <4>1. Touches(id, q)
        BY <1>8, <1>16, <3>1, TouchesAside
      <4> QED
        BY <2>2, <2>4, <3>1, <4>1
    <3>2. \A q \in stuck' : ~Claims(f, q)'
      BY <1>8, <2>2, <2>4
    <3>3. ASSUME NEW h \in Loose(db'), NEW q, q = PathOfRow(db', h), Claims(f, q)' PROVE h = n
      BY <1>15, <2>2, <2>4, <3>3
    <3>4. \A h \in Loose(db)' : Claims(f, PathOfRow(db, h))' => \E x \in Writing(f)' : x.gid = h
      BY <1>7, <1>14, <3>3
    <3>5. Rows(f)' = {}
      BY <1>12, <1>13
    <3>6. item[f]'.dir \notin Folder
      BY <2>3 DEF Unborn
    <3> QED
      BY <3>1, <3>2, <3>4, <3>5, <3>6 DEF Alone
  <2>6. ~Told(f)' /\ Gone(f)' = {} /\ Entries(f)' = {}
    <3>1. \A m \in DOMAIN feed : m > token => feed[m].key # p
      BY <1>8, <2>1, UnreadIs DEF TypeInv, Unnoticed
    <3>2. ASSUME NEW m \in DOMAIN feed, m > token, NEW k, k = feed[m].key, Claims(f, k)' PROVE FALSE
      BY <2>4, <3>1, <3>2
    <3>3. ~Told(f)'
      BY <1>8, <1>13, <3>2 DEF Told, Aside
    <3>4. ASSUME NEW x \in Range(batch), NEW k, k = x.path, Claims(f, k)' PROVE FALSE
      BY <2>2, <2>4, <3>4 DEF Range
    <3>5. Gone(f)' = {}
      BY <1>8, <3>4 DEF Gone, Aside
    <3> QED
      BY <1>12, <1>13, <3>3, <3>5
  <2>7. Phase(f)'
    <3>1. ~Arrived(w) /\ WriteKey(w) = p
      BY <1>7 DEF Arrived, WriteKey
    <3>2. Awaits(w, f)'
      BY <1>7, <1>8, <2>2, <2>6, <3>1 DEF Awaits, Aside, Arrived, WriteKey
    <3>3. w.dir \in Folder => LinkedTo(db', Cloud, w.dir) # {}
      BY <1>6, <1>7, <1>8, <1>11, <2>3 DEF KnownDirs, Known
    <3>4. WriteRight(w, f)'
      BY <1>7, <1>12, <1>13, <2>3, <3>1, <3>3 DEF WriteRight, Arrived
    <3>5. Sending(f, w)'
      BY <1>12, <1>13, <1>14, <3>2, <3>4 DEF Sending
    <3> QED
      BY <3>5 DEF Phase
  <2>8. OneChange(f)'
    BY <1>12, <1>13 DEF OneChange, Once, Waiting, Fresh, Range
  <2>9. Notices(f)'
    <3>1. LastSay(f)'
      BY <2>3 DEF LastSay, Born, Unborn
    <3>2. Writing(f)' # {}
      BY <1>14
    <3> QED
      BY <2>6, <3>1, <3>2 DEF Notices
  <2>10. FolderFirst(f)'
    BY <2>3 DEF FolderFirst, Unborn
  <2> QED
    BY <2>5, <2>7, <2>8, <2>9, <2>10 DEF Story
<1>20. \A id \in File : Rows(id)' # {} => Rows(id) # {} \/ Born(id)
  BY <1>12
<1> QED
  BY <1>8, <1>12, <1>16, <1>17, <1>18, <1>19, <1>20, WritesKept

(* A step of the cloud. *)
Outside == UNCHANGED <<kind, token, batch, working, old, pathMap, out, doomed, expected, changes, stuck, db, status>>

(* The log afterwards, and the other things. *)
LEMMA StoredIs ==
  ASSUME Inv, Outside, NEW id \in Id, NEW it \in Item, ItemOK(it, id, LiveFolder, kind),
         id \in Folder => it.live /\ ~item[id].live,
         NEW by \in {"user", "program"}, Stored(id, it, by), NEW place, place = Apparent(it, id)
  PROVE  /\ World /\ item' = [item EXCEPT ![id] = it] /\ item'[id] = it /\ IsSeq(feed) /\ IsSeq(feed') /\ Len(feed) \in Nat
         /\ place = Seen(it.live, it.dir, id, HomeFolder)
         /\ \A i \in Id : i # id => item'[i] = item[i] /\ Apparent(item[i], i)' = Apparent(item[i], i)
                                    /\ (item[i].dir \in Folder => item[i].dir # id)
         /\ \A n \in DOMAIN feed : n \in DOMAIN feed' /\ feed'[n] = feed[n] /\ n \in Nat /\ n <= Len(feed)
         /\ \A n \in DOMAIN feed' : n \notin DOMAIN feed =>
              /\ n \in Nat /\ n > Len(feed) /\ n > token /\ feed'[n].id = id /\ feed'[n].by = by
              /\ IF kind = "google" THEN feed'[n].key = id
                 ELSE feed'[n].key # NoPath /\ (feed'[n].key = place \/ feed'[n].key = PathOf(id))
         /\ kind = "google" => \E n \in DOMAIN feed' : n \notin DOMAIN feed
         /\ kind # "google" /\ PathOf(id) # NoPath => \E n \in DOMAIN feed' : n \notin DOMAIN feed /\ feed'[n].key = PathOf(id)
         /\ kind # "google" /\ it.live /\ it.dir \in {Home} \cup HomeFolder =>
              \E n \in DOMAIN feed' : n \notin DOMAIN feed /\ feed'[n].key = place
<1>1. TypeInv /\ CloudTyped /\ UNCHANGED <<kind, token>> /\ IsSeq(feed) /\ token \in 0..Len(feed) /\ item \in [Id -> Item]
  BY DEF Inv, TypeInv, CloudTyped, Outside
<1>2. World /\ item' = [item EXCEPT ![id] = it]
  BY <1>1, StoredTyped
<1>3. item'[id] = it /\ \A i \in Id : i # id => item'[i] = item[i]
  BY <1>1, <1>2
<1>4. ASSUME NEW i \in Id, i # id
      PROVE  Apparent(item[i], i)' = Apparent(item[i], i) /\ (item[i].dir \in Folder => item[i].dir # id)
  <2>1. ItemOK(item[i], i, LiveFolder, kind)
    BY <1>1 DEF CloudTyped
  <2>2. item[i].dir \in Folder => item[i].dir # id /\ item[i].dir \in Id
    BY <2>1 DEF ItemOK, LiveFolder, Id
  <2>3. item[i].dir \in Folder => item'[item[i].dir] = item[item[i].dir]
    BY <1>3, <2>2
  <2>4. item'[i] = item[i]
    BY <1>3, <1>4
  <2> QED
    BY <2>2, <2>3, <2>4 DEF Apparent, PathIn
<1>5. PICK to : to = IF it.live THEN PathIn(it.dir, NameOf[id]) ELSE NoPath
  OBVIOUS
<1>6. /\ IsSeq(feed') /\ Len(feed') \in Nat /\ Len(feed) <= Len(feed')
      /\ \A n \in DOMAIN feed : n \in DOMAIN feed' /\ feed'[n] = feed[n]
      /\ \A n \in Fresher :
           /\ n \in Nat /\ n > Len(feed) /\ feed'[n].id = id /\ feed'[n].by = by
           /\ IF kind = "google" THEN feed'[n].key = id
              ELSE feed'[n].key \in {PathOf(id), to} \ {NoPath}
      /\ kind = "google" => \E n \in Fresher : feed'[n].key = id
      /\ kind # "google" =>
           /\ PathOf(id) # NoPath => \E n \in Fresher : feed'[n].key = PathOf(id)
           /\ to # NoPath => Len(feed') \in Fresher /\ feed'[Len(feed')].key = to
  BY <1>1, <1>5, LogGrows
<1>7. place = Seen(it.live, it.dir, id, HomeFolder)
  BY <1>1, ApparentIs DEF ItemOK, Item
<1>8. to = IF it.live /\ it.dir \in {Home} \cup HomeFolder THEN Spot(it.dir, id) ELSE NoPath
  BY <1>5, PlaceIn DEF Item
<1>9. it.live /\ it.dir \in {Home} \cup HomeFolder => place = to /\ to # NoPath
  <2>1. Elsewhere \notin {Home} \cup HomeFolder /\ Home \notin HomeFolder /\ HomeFolder \in SUBSET Folder
    BY Names, HomesAreLive DEF Id
  <2> QED
    BY <1>7, <1>8, <2>1, SpotKinds DEF Seen
<1>10. to # NoPath => place = to
  BY <1>8, <1>9
<1>11. \A n : n \in Fresher <=> n \in DOMAIN feed' /\ n \notin DOMAIN feed
  BY DEF Fresher
<1>12. \A n \in DOMAIN feed : n \in Nat /\ n <= Len(feed)
  BY <1>1, SeqFacts
<1>13. \A n \in Nat : n > Len(feed) => n > token
  BY <1>1, SeqFacts
<1>14. Len(feed) \in Nat
  BY <1>1, SeqFacts
<1> QED
  BY <1>1, <1>2, <1>3, <1>4, <1>6, <1>7, <1>9, <1>10, <1>11, <1>12, <1>13, <1>14

(* Another file. *)
LEMMA OutsideKept ==
  ASSUME Inv, Outside, NEW id \in Id, NEW it \in Item, ItemOK(it, id, LiveFolder, kind),
         id \in Folder => it.live /\ ~item[id].live,
         NEW by \in {"user", "program"}, Stored(id, it, by), NEW place, place = Apparent(it, id),
         NEW f \in File, f # id, Story(f), Tied(f)' <=> Tied(f), Writing(f)' = Writing(f),
         place # NoPath => ~Claims(f, place),
         \A q : Claims(f, q) /\ Tracks(id, q)' => Tracks(id, q),
         \A i \in File : \A q : i # id /\ Tracks(i, q)' => Tracks(i, q),
         \A w \in writes' : \/ \E v \in writes : v.gid = w.gid /\ v.id = w.id
                            \/ \A r \in Rows(f) : r.gid # w.gid
  PROVE  Story(f)'
<1>1. TypeInv /\ CloudTyped /\ Alone(f) /\ f \in Id /\ Notices(f) /\ kind \in {"google", "dropbox"}
  BY DEF Inv, TypeInv, Story, Id, CloudTyped
<1>2. /\ World /\ item'[id] = it /\ IsSeq(feed) /\ Len(feed) \in Nat
      /\ \A i \in Id : i # id => item'[i] = item[i] /\ Apparent(item[i], i)' = Apparent(item[i], i)
                                 /\ (item[i].dir \in Folder => item[i].dir # id)
      /\ \A n \in DOMAIN feed : n \in DOMAIN feed' /\ feed'[n] = feed[n] /\ n \in Nat /\ n <= Len(feed)
      /\ \A n \in DOMAIN feed' : n \notin DOMAIN feed =>
           /\ n \in Nat /\ n > Len(feed) /\ n > token /\ feed'[n].id = id /\ feed'[n].by = by
           /\ IF kind = "google" THEN feed'[n].key = id
              ELSE feed'[n].key # NoPath /\ (feed'[n].key = place \/ feed'[n].key = PathOf(id))
      /\ place = Seen(it.live, it.dir, id, HomeFolder)
  BY StoredIs
<1>3. SameOf(f)
  <2>1. Rows(f)' = Rows(f) /\ Waiting(f)' = Waiting(f) /\ Fresh(f)' = Fresh(f) /\ kind' = kind
    BY DEF Outside, Rows, Waiting, Fresh
  <2> QED
    BY <1>1, <1>2, <2>1 DEF SameOf
<1>4. \A p : Claims(f, p)' <=> Claims(f, p)
  BY <1>3, ClaimsKept
<1>5. \A p : Claims(f, p) => p # NoPath /\ p \notin Id /\ p # PathOf(id) /\ p # place
  BY <1>1, ClaimsIn, OnlyHere
<1>6. \A n \in DOMAIN feed' : n \notin DOMAIN feed => ~Claims(f, feed'[n].key)
  BY <1>2, <1>5
<1>7. Entries(f)' = Entries(f) /\ Gone(f)' = Gone(f)
  BY <1>4 DEF Outside, Entries, Gone
<1>8. Told(f)' => Told(f)
  <2> SUFFICES ASSUME NEW n \in DOMAIN feed', n > token', NEW k, k = feed'[n].key, feed'[n].id = f \/ Claims(f, k)' PROVE Told(f)
    BY DEF Told
  <2>1. n \in DOMAIN feed
    BY <1>2, <1>4, <1>6
  <2> QED
    BY <1>2, <1>4, <2>1 DEF Told, Outside
<1>9. Here(f)' = Here(f) /\ (Born(f)' <=> Born(f))
  BY <1>3 DEF Here, Born, SameOf, Spot
<1>10. (UserRec(f, token) => UserRec(f, token)') /\ (UserRec(f, 0) => UserRec(f, 0)')
  BY <1>2, <1>9 DEF UserRec, Outside
<1>11. LastSay(f)'
  <2> SUFFICES ASSUME kind = "dropbox", Born(f), Claims(f, Here(f)), NEW n \in DOMAIN feed', feed'[n].key = Here(f), feed'[n].id # f
               PROVE  \E m \in DOMAIN feed' : m > n /\ feed'[m].key = Here(f) /\ feed'[m].id = f
    <3>1. Claims(f, Here(f))' => Claims(f, Here(f))
      <4>1. ASSUME NEW p, p = Here(f), Claims(f, p)' PROVE Claims(f, p)
        BY <1>4, <4>1
      <4> QED
        BY <1>9, <4>1
    <3> QED
      BY <1>9, <3>1 DEF LastSay, Outside
  <2>1. n \in DOMAIN feed
    BY <1>6
  <2>2. PICK m \in DOMAIN feed : m > n /\ feed[m].key = Here(f) /\ feed[m].id = f
    BY <1>1, <1>2, <2>1 DEF Notices, LastSay
  <2> QED
    BY <1>2, <2>2
<1>12. BatchKeptFor(f) /\ RegKept(f) /\ FoldersKept
  BY <1>7 DEF BatchKeptFor, RegKept, FoldersKept, Outside
<1>13. Phase(f)'
  BY <1>3, <1>8, <1>10, <1>12, PhaseKept DEF Story
<1>14. Notices(f)'
  BY <1>1, <1>3, <1>8, <1>10, <1>11, <1>12, NoticesKept
<1>15. OneChange(f)'
  <2>1. Waiting(f)' = Waiting(f) /\ Fresh(f)' = Fresh(f)
    BY DEF Outside, Waiting, Fresh
  <2> QED
    BY <2>1 DEF Story, OneChange, Once, Outside
<1>16. Alone(f)'
  <2>1. ASSUME NEW i \in File, NEW p, i # f, Claims(f, p), Touches(i, p)' PROVE Touches(i, p)
    <3>1. CASE i # id
      <4>1. Tracks(i, p)' => Tracks(i, p)
        BY <3>1
      <4>2. Apparent(item[i], i)' = Apparent(item[i], i) /\ Entries(i)' = Entries(i)
        BY <1>2, <3>1 DEF Id, Outside, Entries
      <4> QED
        BY <2>1, <4>1, <4>2 DEF Touches
    <3>2. CASE i = id
      <4>1. Tracks(i, p)' => Tracks(i, p)
        BY <2>1, <3>2
      <4>2. Entries(i)' = Entries(i)
        BY DEF Outside, Entries
      <4>3. p # Apparent(item[i], i)'
        <5>1. Apparent(item[i], i)' = place
          <6>1. item'[i] = it
            BY <1>2, <3>2
          <6>2. it.dir \in Folder => it.dir \in LiveFolder /\ it.dir # id /\ it.dir \in Id
            BY <2>1, <3>2, Names DEF ItemOK, Id, LiveFolder
          <6>3. it.dir \in Folder => item'[it.dir] = item[it.dir]
            BY <1>2, <6>2
          <6> QED
            BY <3>2, <6>1, <6>3 DEF Apparent, PathIn
        <5> QED
          BY <1>5, <2>1, <5>1
      <4> QED
        BY <2>1, <4>1, <4>2, <4>3 DEF Touches
    <3> QED
      BY <3>1, <3>2
  <2>2. (\A p \in stuck' : p \in stuck \/ ~Claims(f, p)) /\ db' = db
    BY DEF Outside
  <2>3. \A g \in Loose(db') : \/ g \in Loose(db) /\ PathOfRow(db', g) = PathOfRow(db, g)
                              \/ ~Claims(f, PathOfRow(db', g))
    BY <2>2
  <2> QED
    BY <1>1, <1>2, <1>3, <2>1, <2>2, <2>3, AloneKept
<1>17. FolderFirst(f)'
  <2>1. Agreed(f)' <=> Agreed(f)
    BY <1>3, RightKept
  <2>2. item'[f] = item[f]
    BY <1>3 DEF SameOf
  <2> SUFFICES ASSUME NEW d, d = item[f].dir, kind = "google", d \in Folder, LinkedTo(db, Cloud, d) = {} PROVE FolderFirst(f)'
    BY <2>2 DEF FolderFirst, Outside
  <2>3. /\ Rows(f) = {} /\ Writing(f) = {}
        /\ \A m, n \in DOMAIN feed : feed[m].id = d /\ feed[n].id = f => m < n
        /\ \/ Waiting(f) \cup Fresh(f) # {}
           \/ Agreed(f)
           \/ \E n \in DOMAIN feed : n > token /\ feed[n].id = d
           \/ \E i \in DOMAIN batch :
                /\ batch[i].id = f
                /\ d \in DOMAIN pathMap \/ \E j \in DOMAIN batch : j < i /\ batch[j].id = d
    BY DEF FolderFirst, Story
  <2>4. \A m \in DOMAIN feed' : feed'[m].id = d \/ feed'[m].id = f => m \in DOMAIN feed
    BY <1>1, <1>2
  <2>5. \A m, n \in DOMAIN feed' : feed'[m].id = d /\ feed'[n].id = f => m < n
    BY <1>2, <2>3, <2>4
  <2>6. (Waiting(f) \cup Fresh(f))' = Waiting(f) \cup Fresh(f) /\ Rows(f)' = Rows(f) /\ Writing(f)' = Writing(f)
    BY <1>3 DEF SameOf
  <2>7. (\E n \in DOMAIN feed : n > token /\ feed[n].id = d) => \E n \in DOMAIN feed' : n > token /\ feed'[n].id = d
    BY <1>2
  <2>8. UNCHANGED <<token, batch, pathMap, db, kind>>
    BY DEF Outside
  <2> QED
    BY <2>1, <2>2, <2>3, <2>5, <2>6, <2>7, <2>8 DEF FolderFirst
<1> QED
  BY <1>13, <1>14, <1>15, <1>16, <1>17 DEF Story

(* The rest of the invariant under a step of the cloud. *)
LEMMA OutsideRest ==
  ASSUME Inv, Outside, NEW id \in Id, NEW it \in Item, ItemOK(it, id, LiveFolder, kind), it.time > 0,
         id \in Folder => it.live /\ ~item[id].live,
         NEW by \in {"user", "program"}, Stored(id, it, by),
         \A w \in writes' :
           /\ w.id \in Id
           /\ IF w.op = "New" /\ w.stage # "arrived"
              THEN w.id # id /\ ~Born(w.id) /\ \A v \in writes' : v.id = w.id => v = w
              ELSE w.id = id \/ Born(w.id)
  PROVE  Births' /\ OnePath' /\ FolderStory'
<1>1. TypeInv /\ CloudTyped /\ BatchTyped /\ ChangesTyped /\ DbTyped /\ Tables(db) /\ Births /\ IsSeq(feed)
  BY DEF Inv, TypeInv, CloudTyped, DbTyped, DbOK
<1>2. PICK place : place = Apparent(it, id)
  OBVIOUS
<1>3. /\ World /\ item'[id] = it
      /\ \A i \in Id : i # id => item'[i] = item[i]
      /\ \A n \in DOMAIN feed : n \in DOMAIN feed' /\ feed'[n] = feed[n] /\ n \in Nat
      /\ \A n \in DOMAIN feed' : n \notin DOMAIN feed => n \in Nat /\ n > token /\ feed'[n].id = id
      /\ kind = "google" => \E n \in DOMAIN feed' : n \notin DOMAIN feed
      /\ kind # "google" /\ it.live /\ it.dir \in {Home} \cup HomeFolder => \E n \in DOMAIN feed' : n \notin DOMAIN feed
  BY <1>2, StoredIs
<1>4. \A i \in Id : (Born(i) => Born(i)') /\ (i # id => (Born(i)' <=> Born(i)))
  BY <1>3 DEF Born
<1>5. Born(id)'
  BY <1>3 DEF Born
<1>6. UNCHANGED <<kind, token, batch, out, doomed, changes, db>> /\ InProgress' = InProgress
  BY DEF Outside, InProgress
<1>7. Births'
  <2>1. \A i \in Id : Born(i)' \/ item'[i] = Unborn
    BY <1>1, <1>3, <1>4, <1>5 DEF Births
  <2>2. ASSUME NEW n \in DOMAIN feed', NEW i, i = feed'[n].id PROVE Born(i)'
    <3>1. CASE n \in DOMAIN feed
      <4>1. feed'[n] = feed[n] /\ Born(feed[n].id) /\ feed[n].id \in Id
        BY <1>1, <1>3, <3>1 DEF Births, CloudTyped, RecordOK
      <4> QED
        BY <1>4, <2>2, <4>1
    <3>2. CASE n \notin DOMAIN feed
      BY <1>3, <1>5, <2>2, <3>2
    <3> QED
      BY <3>1, <3>2
  <2>3. ASSUME NEW n \in DOMAIN batch', NEW i, i = batch'[n].id, i # None PROVE Born(i)'
    <3>1. Born(i) /\ i \in Id
      BY <1>1, <1>6, <2>3 DEF Births, BatchTyped, EntryOK
    <3> QED
      BY <1>4, <3>1
  <2>4. ASSUME NEW c \in InProgress, NEW i, i = c.id PROVE Born(i)'
    <3>1. Born(i) /\ i \in Id
      BY <1>1, <2>4 DEF Births, ChangesTyped, ChangeOK
    <3> QED
      BY <1>4, <3>1
  <2>5. ASSUME NEW g \in DOMAIN db.files, LinkedIn(db, g), NEW i, i = LinkIn(db, g).id PROVE Born(i)'
    <3>1. Born(i) /\ i \in Id
      BY <1>1, <2>5 DEF Births, DbTyped, DbOK, RowOK, LinkSet
    <3> QED
      BY <1>4, <3>1
  <2>6. ASSUME NEW w \in writes', NEW i, i = w.id
        PROVE  IF w.op = "New" /\ w.stage # "arrived" THEN ~Born(i)' /\ \A v \in writes' : v.id = i => v = w ELSE Born(i)'
    BY <1>4, <1>5, <2>6
  <2>7. \A n \in DOMAIN feed' : Born(feed[n].id)'
    BY <2>2
  <2>8. \A n \in DOMAIN batch' : (batch[n].id = None)' \/ Born(batch[n].id)'
    BY <2>3
  <2>9. \A c \in InProgress' : Born(c.id)'
    BY <1>6, <2>4
  <2>10. \A g \in DOMAIN db'.files : LinkedIn(db', g) => Born(LinkIn(db, g).id)'
    BY <1>6, <2>5
  <2>11. \A w \in writes' : IF w.op = "New" /\ w.stage # "arrived" THEN ~Born(w.id)' /\ \A v \in writes' : v.id = w.id => v = w
                            ELSE Born(w.id)'
    BY <2>6
  <2> QED
    BY <2>1, <2>7, <2>8, <2>9, <2>10, <2>11 DEF Births
<1>8. OnePath'
  BY <1>6 DEF Inv, OnePath
<1>9. ASSUME NEW d \in HomeFolder', LinkedTo(db', Cloud, d) = {}
      PROVE \E n \in DOMAIN feed' :
              /\ feed'[n].id = d
              /\ n > token' \/ (\E i \in DOMAIN batch' : batch'[i].id = d) \/ \E c \in InProgress' : c.id = d
  <2>1. CASE d \in HomeFolder
    <3>1. PICK n \in DOMAIN feed : /\ feed[n].id = d
                                   /\ n > token \/ (\E i \in DOMAIN batch : batch[i].id = d) \/ \E c \in InProgress : c.id = d
      BY <1>6, <1>9, <2>1 DEF Inv, FolderStory
    <3> QED
      BY <1>3, <1>6, <3>1
  <2>2. CASE d \notin HomeFolder
    <3>1. d \in Folder /\ d \in Id /\ item'[d].live /\ item'[d].dir = Home
      BY <1>9 DEF HomeFolder, LiveFolder, Id
    <3>2. d = id
      BY <1>3, <2>2, <3>1 DEF HomeFolder, LiveFolder
    <3>3. PICK n \in DOMAIN feed' : n \notin DOMAIN feed
      BY <1>3, <3>1, <3>2
    <3> QED
      BY <1>3, <1>6, <3>2, <3>3
  <2> QED
    BY <2>1, <2>2
<1>10. FolderStory'
  BY <1>9 DEF FolderStory
<1> QED
  BY <1>7, <1>8, <1>10

(* What a request reaches was in the cloud, or is new; where it is afterwards. *)
LEMMA PlaceReached ==
  ASSUME Inv, NEW w \in writes, w.stage = "sent", NEW id \in Reaches(w), NEW it, it = Effect(w, id)
  PROVE  /\ id \in File /\ id \in Id /\ it \in Item /\ ItemOK(it, id, LiveFolder, kind) /\ it.time > 0
         /\ id # w.id => Born(id) /\ kind = "dropbox" /\ id \in At(w.path)
         /\ ~Born(id) => id = w.id /\ w.op = "New"
         /\ Apparent(it, id) \in {NoPath, w.path, w.to, Apparent(item[id], id)}
<1>1. TypeInv /\ CloudTyped /\ Births /\ WriteOK(w, db, HomeFolder, kind) /\ w \in Request /\ w.stage # "arrived"
      /\ kind \in {"google", "dropbox"} /\ HomeFolder \in SUBSET Folder
  BY HomesAreLive DEF Inv, TypeInv, WritesTyped, WriteOK, CloudTyped
<1>2. /\ id \in File /\ id \in Id /\ w.path \in Spots(id, HomeFolder) /\ w.to \in Spots(id, HomeFolder)
      /\ kind = "google" => id = w.id
  BY <1>1, ReachedIs
<1>3. it \in Item /\ ItemOK(it, id, LiveFolder, kind)
  BY <1>1, EffectIs
<1>4. item[id] \in Item /\ ItemOK(item[id], id, LiveFolder, kind)
  BY <1>1, <1>2 DEF CloudTyped
<1>5. id \in At(w.path) => item[id].live /\ Born(id)
  BY <1>1, <1>2, <1>4, AtIs DEF ItemOK, Born
<1>6. id # w.id => Born(id) /\ kind = "dropbox" /\ id \in At(w.path)
  BY <1>1, <1>2, <1>5 DEF Reaches
<1>7. ~Born(id) => id = w.id /\ w.op = "New"
  BY <1>1, <1>6 DEF Births
<1>8. w.op \in ChangeTypes
  BY <1>1 DEF Request
<1>9. w.op \in {"New", "Update", "Move", "Delete"}
  BY <1>8 DEF ChangeTypes
<1>10. Apparent(it, id) = Seen(it.live, it.dir, id, HomeFolder) /\ it.live \in BOOLEAN /\ it.dir \in Dir
  BY <1>1, <1>3, ApparentIs DEF ItemOK, Item
<1>11. Apparent(item[id], id) = Seen(item[id].live, item[id].dir, id, HomeFolder)
  BY <1>1, <1>4, ApparentIs DEF ItemOK, Item
<1>12. \A dir \in {Home} \cup HomeFolder : Seen(TRUE, dir, id, HomeFolder) = Spot(dir, id)
  <2>1. Elsewhere \notin {Home} \cup HomeFolder
    BY Names, HomesAreLive DEF Id
  <2> QED
    BY <2>1 DEF Seen
<1>13. CASE w.op \in {"New", "Update"} /\ Born(id)
  <2>1. it = [item[id] EXCEPT !.time = @ + 1, !.hash = @ + 1, !.live = @ \/ kind = "dropbox"]
    BY <1>13 DEF Effect
  <2>2. it.time = item[id].time + 1 /\ it.dir = item[id].dir /\ it.live = (item[id].live \/ kind = "dropbox")
    BY <1>4, <2>1 DEF Item
  <2>3. it.time > 0
    BY <1>4, <2>2 DEF Item
  <2>4. kind = "dropbox" => item[id].live
    <3> SUFFICES ASSUME kind = "dropbox", id \notin At(w.path) PROVE FALSE
      BY <1>5
    <3>1. w.op = "New" /\ id = w.id
      BY <1>13 DEF Reaches
    <3> QED
      BY <1>1, <1>13, <3>1 DEF Births
  <2>5. it.live = item[id].live
    BY <1>1, <1>4, <2>2, <2>4 DEF Item
  <2> QED
    BY <1>2, <1>3, <1>6, <1>7, <1>10, <1>11, <2>2, <2>3, <2>5
<1>14. CASE w.op \in {"New", "Update"} /\ ~Born(id)
  <2>1. it = [dir |-> w.dir, time |-> 1, hash |-> 1, live |-> TRUE]
    BY <1>14 DEF Effect
  <2>2. id = w.id /\ w.op = "New"
    BY <1>7, <1>14
  <2>3. w.dir \in {Home} \cup HomeFolder /\ w.to = Spot(w.dir, id)
    BY <1>1, <2>2 DEF WriteOK
  <2>4. it.live = TRUE /\ it.time = 1 /\ it.dir = w.dir
    BY <2>1
  <2>5. Apparent(it, id) = w.to
    BY <1>10, <1>12, <2>3, <2>4
  <2>6. it.time > 0
    BY <2>4
  <2> QED
    BY <1>2, <1>3, <1>6, <1>7, <2>5, <2>6
<1>15. CASE w.op = "Move"
  <2>1. it = [item[id] EXCEPT !.dir = IF w.dir = None THEN item[id].dir ELSE w.dir]
    BY <1>15 DEF Effect
  <2>2. it.live = item[id].live /\ it.time = item[id].time /\ it.dir = IF w.dir = None THEN item[id].dir ELSE w.dir
    BY <1>4, <2>1 DEF Item
  <2>3. it.time > 0
    BY <1>4, <1>7, <1>15, <2>2 DEF Born, Item
  <2>4. w.dir # None => w.dir \in {Home} \cup HomeFolder /\ w.to = Spot(w.dir, w.id)
    BY <1>1, <1>15 DEF WriteOK
  <2>5. w.dir # None => w.to = Spot(w.dir, id)
    <3> SUFFICES ASSUME w.dir # None PROVE Spot(w.dir, w.id) = Spot(w.dir, id)
      BY <2>4
    <3>1. PICK a \in {Home} \cup HomeFolder : w.to = Spot(a, id)
      BY <1>1, <1>2, SpotsIn
    <3>2. PICK i : i = w.id
      OBVIOUS
    <3>3. PICK b : b = w.dir
      OBVIOUS
    <3>4. /\ a \in {Home} \cup Folder /\ b \in {Home} \cup Folder /\ i \in Id
          /\ Spot(a, id) = Spot(b, i)
      BY <1>1, <2>4, <3>1, <3>2, <3>3 DEF Request, Id
    <3>5. NameOf[id] = NameOf[i]
      BY <1>2, <3>4, OneSpot
    <3> QED
      BY <3>2, <3>5 DEF Spot
  <2>6. w.dir = None => Apparent(it, id) = Apparent(item[id], id)
    BY <1>10, <1>11, <2>2
  <2>7. w.dir # None => Apparent(it, id) \in {NoPath, w.to}
    <3>1. CASE it.live
      BY <1>10, <1>12, <2>2, <2>4, <2>5, <3>1
    <3>2. CASE ~it.live
      BY <1>10, <3>2 DEF Seen
    <3> QED
      BY <3>1, <3>2
  <2> QED
    BY <1>2, <1>3, <1>6, <1>7, <2>3, <2>6, <2>7
<1>16. CASE w.op = "Delete"
  <2>1. it = [item[id] EXCEPT !.live = FALSE]
    BY <1>16 DEF Effect
  <2>2. it.live = FALSE /\ it.time = item[id].time
    BY <1>4, <2>1 DEF Item
  <2>3. it.time > 0
    BY <1>4, <1>7, <1>16, <2>2 DEF Born, Item
  <2>4. Apparent(it, id) = NoPath
    BY <1>10, <2>2 DEF Seen
  <2> QED
    BY <1>2, <1>3, <1>6, <1>7, <2>3, <2>4
<1> QED
  BY <1>9, <1>13, <1>14, <1>15, <1>16

LEMMA ArriveIs ==
  ASSUME Inv, NEW w \in writes, Arrive(w)
  PROVE  \E id \in Reaches(w) : \E it, v :
           /\ it = Effect(w, id) /\ Stored(id, it, "program") /\ Outside /\ w.stage = "sent"
           /\ kind = "dropbox" => w.op # "Update"
           /\ writes' = (writes \ {w}) \cup {v}
           /\ v.op = w.op /\ v.gid = w.gid /\ v.path = w.path /\ v.to = w.to
           /\ v.id = id /\ v.dir = it.dir /\ v.time = it.time /\ v.hash = it.hash /\ v.stage = "arrived"
           /\ Suffers({id} \ {w.id}, "raced")
<1>1. PICK id \in Reaches(w) :
        /\ Stored(id, Effect(w, id), "program")
        /\ writes' = (writes \ {w}) \cup
             {[w EXCEPT !.stage = "arrived", !.id = id, !.dir = Effect(w, id).dir,
                        !.time = Effect(w, id).time, !.hash = Effect(w, id).hash]}
        /\ Suffers({id} \ {w.id}, "raced")
  BY DEF Arrive
<1>2. PICK it : it = Effect(w, id)
  OBVIOUS
<1>3. PICK dir, time, hash : dir = it.dir /\ time = it.time /\ hash = it.hash
  OBVIOUS
<1>8. PICK v : v = [w EXCEPT !.stage = "arrived", !.id = id, !.dir = dir, !.time = time, !.hash = hash]
  OBVIOUS
<1>4. w \in Request
  BY DEF Inv, TypeInv, WritesTyped, WriteOK
<1>5. /\ v.op = w.op /\ v.gid = w.gid /\ v.path = w.path /\ v.to = w.to
      /\ v.id = id /\ v.dir = it.dir /\ v.time = it.time /\ v.hash = it.hash /\ v.stage = "arrived"
  <2>1. /\ v.op = w.op /\ v.gid = w.gid /\ v.path = w.path /\ v.to = w.to
        /\ v.id = id /\ v.dir = dir /\ v.time = time /\ v.hash = hash /\ v.stage = "arrived"
    BY <1>4, <1>8 DEF Request
  <2> QED
    BY <1>3, <2>1
<1>6. Outside /\ w.stage = "sent"
  BY DEF Arrive, Outside, batchVars
<1>7. kind = "dropbox" => w.op # "Update"
  BY DEF Reaches
<1> QED
  BY <1>1, <1>2, <1>3, <1>5, <1>6, <1>7, <1>8

(* The file of a request that arrives. *)
LEMMA ArriveOwn ==
  ASSUME Inv, NEW w \in writes, w.stage = "sent", NEW f \in Reaches(w), f = w.id, Clean(f), Tied(f)' <=> Tied(f),
         NEW it, it = Effect(w, f), Stored(f, it, "program"), Outside, kind = "dropbox" => w.op # "Update",
         NEW v, writes' = (writes \ {w}) \cup {v},
         v.op = w.op, v.gid = w.gid, v.path = w.path, v.to = w.to,
         v.id = f, v.dir = it.dir, v.time = it.time, v.hash = it.hash, v.stage = "arrived"
  PROVE  Story(f)'
<1>1. /\ f \in File /\ f \in Id /\ it \in Item /\ ItemOK(it, f, LiveFolder, kind) /\ it.time > 0
      /\ ~Born(f) => w.op = "New"
      /\ TypeInv /\ CloudTyped /\ Births /\ kind \in {"google", "dropbox"} /\ w.op \in ChangeTypes
      /\ f \notin Folder /\ item[f] \in Item /\ WriteOK(w, db, HomeFolder, kind) /\ w \in Request
  BY PlaceReached, Names DEF Inv, TypeInv, CloudTyped, WritesTyped, WriteOK, Request
<1>2. PICK place : place = Apparent(it, f)
  OBVIOUS
<1>3. /\ World /\ item'[f] = it /\ IsSeq(feed) /\ Len(feed) \in Nat
      /\ \A i \in Id : i # f => item'[i] = item[i] /\ Apparent(item[i], i)' = Apparent(item[i], i)
      /\ \A n \in DOMAIN feed : n \in DOMAIN feed' /\ feed'[n] = feed[n] /\ n \in Nat /\ n <= Len(feed)
      /\ \A n \in DOMAIN feed' : n \notin DOMAIN feed => n \in Nat /\ n > Len(feed) /\ feed'[n].id = f
      /\ kind # "google" /\ PathOf(f) # NoPath => \E n \in DOMAIN feed' : n \notin DOMAIN feed /\ feed'[n].key = PathOf(f)
      /\ kind # "google" /\ it.live /\ it.dir \in {Home} \cup HomeFolder =>
           \E n \in DOMAIN feed' : n \notin DOMAIN feed /\ feed'[n].key = place
      /\ place = Seen(it.live, it.dir, f, HomeFolder)
  BY <1>1, <1>2, StoredIs
<1>4. /\ Story(f) /\ Sending(f, w) /\ Writing(f) = {w} /\ Waiting(f) = {} /\ Fresh(f) = {}
  BY SendingIs
<1>5. /\ ~Arrived(w) /\ ~Told(f) /\ Entries(f) = {} /\ Gone(f) = {} /\ WriteRight(w, f) /\ Alone(f)
      /\ w.op \in {"New", "Update"} => Expects(expected, WriteKey(w), w.op)
  BY <1>4 DEF Sending, Awaits, Arrived, Story
<1>6. /\ Rows(f)' = Rows(f) /\ Waiting(f)' = {} /\ Fresh(f)' = {} /\ Writing(f)' = {v} /\ Entries(f)' = {}
      /\ kind' = kind
  <2>1. Writing(f)' = {v}
    BY <1>4 DEF Writing
  <2> QED
    BY <1>4, <1>5, <2>1 DEF Outside, Rows, Waiting, Fresh, Entries
<1>7. HomeFolder \in SUBSET Folder /\ Home \notin Folder /\ Elsewhere \notin {Home} \cup HomeFolder /\ None \notin Dir
  BY Names, HomesAreLive DEF Id
<1>8. item[f].dir \in Folder => item[f].dir \in HomeFolder
  BY <1>5 DEF Alone
<1>9. w.path # NoPath /\ w.to # NoPath
  BY <1>1, <1>7, SpotsIn DEF WriteOK
<1>10. kind = "google" /\ item[f].dir \in Folder => LinkedTo(db, Cloud, item[f].dir) # {}
  BY <1>4 DEF Story, FolderFirst

(* What the request has done. *)
<1>11. /\ it.dir \in {w.dir, item[f].dir} /\ (it.dir \in Folder => it.dir \in HomeFolder)
       /\ kind = "google" /\ it.dir \in Folder => LinkedTo(db, Cloud, it.dir) # {}
       /\ \/ w.op = "New" /\ Rows(f) = {} /\ Loc(it, f) = w.path
          \/ w.op = "Delete" /\ Rows(f) = {} /\ Loc(it, f) = NoPath /\ w.path = Loc(item[f], f) /\ it.dir = item[f].dir
          \/ \E r : Rows(f) = {r} /\ WriteRow(w, r, item[f], f, Tied(f)) /\ WriteRow(v, r, it, f, Tied(f))
                    /\ Loc(it, f) = w.to /\ w.op \in {"Update", "Move"}
  <2>1. CASE w.op = "New"
    <3>1. Rows(f) = {} /\ item[f] = Unborn
      BY <1>5, <2>1 DEF WriteRight, WriteRow
    <3>2. it = [dir |-> w.dir, time |-> 1, hash |-> 1, live |-> TRUE]
      BY <2>1, <3>1 DEF Effect, Born, Unborn
    <3>3. w.dir \in {Home} \cup HomeFolder /\ w.to = Spot(w.dir, f) /\ w.to = w.path
      BY <1>1, <2>1 DEF WriteOK
    <3>4. it.live = TRUE /\ it.dir = w.dir
      BY <3>2
    <3>5. Loc(it, f) = w.path
      BY <1>7, <3>3, <3>4 DEF Loc
    <3>6. kind = "google" /\ w.dir \in Folder => LinkedTo(db, Cloud, w.dir) # {}
      BY <1>5 DEF WriteRight
    <3> QED
      BY <1>7, <2>1, <3>1, <3>3, <3>4, <3>5, <3>6
  <2>2. CASE w.op = "Delete"
    <3>1. Rows(f) = {} /\ w.path = Loc(item[f], f)
      BY <1>5, <2>2 DEF WriteRight, WriteRow
    <3>2. it = [item[f] EXCEPT !.live = FALSE]
      BY <2>2 DEF Effect
    <3>3. it.live = FALSE /\ it.dir = item[f].dir
      BY <1>1, <3>2 DEF Item
    <3>4. Loc(it, f) = NoPath
      BY <3>3 DEF Loc
    <3> QED
      BY <1>8, <1>10, <2>2, <3>1, <3>3, <3>4
  <2>3. CASE w.op = "Update"
    <3>1. PICK r : Rows(f) = {r} /\ WriteRow(w, r, item[f], f, Tied(f))
      BY <1>5, <2>3 DEF WriteRight
    <3>2. w.path = Loc(item[f], f) /\ AgreedRow(r, item[f], f, Tied(f)) /\ r.gid = w.gid /\ r.path = w.to
      BY <1>5, <2>3, <3>1 DEF WriteRow
    <3>3. Born(f) /\ kind = "google"
      BY <1>1, <2>3
    <3>4. it = [item[f] EXCEPT !.time = @ + 1, !.hash = @ + 1, !.live = @ \/ kind = "dropbox"]
      BY <2>3, <3>3 DEF Effect
    <3>5. it.time = item[f].time + 1 /\ it.hash = item[f].hash + 1 /\ it.dir = item[f].dir /\ it.live = (item[f].live \/ kind = "dropbox")
      BY <1>1, <3>4 DEF Item
    <3>6. item[f].live /\ it.live
      BY <1>9, <3>2, <3>5 DEF Loc
    <3>7. Loc(it, f) = w.path
      BY <3>2, <3>5, <3>6 DEF Loc
    <3>8. r.link.parent = it.dir /\ r.link.time = item[f].time /\ r.link.hash <= item[f].hash
      BY <3>2, <3>5 DEF AgreedRow, UpToDate
    <3>9. r \in Rows(f)
      BY <3>1
    <3>10. r.link.hash \in Nat /\ r.link.time \in Nat /\ item[f].hash \in Nat /\ item[f].time \in Nat
      BY <1>1, <3>9, RowIn DEF LinkSet, Item
    <3>11. r.link.time < it.time /\ r.link.hash < it.hash
      BY <3>5, <3>8, <3>10
    <3>12. WriteRow(v, r, it, f, Tied(f))
      BY <2>3, <3>2, <3>3, <3>7, <3>8, <3>11 DEF WriteRow, Arrived
    <3>13. w.to = w.path
      BY <1>1, <2>3 DEF WriteOK
    <3> QED
      BY <1>8, <1>10, <2>3, <3>1, <3>5, <3>7, <3>12, <3>13
  <2>4. CASE w.op = "Move"
    <3>1. PICK r : Rows(f) = {r} /\ WriteRow(w, r, item[f], f, Tied(f))
      BY <1>5, <2>4 DEF WriteRight
    <3>2. /\ w.path = Loc(item[f], f) /\ UpToDate(r, item[f], Tied(f)) /\ r.gid = w.gid /\ r.path = w.to
          /\ w.path # w.to /\ w.dir \notin {None, Elsewhere}
      BY <1>5, <2>4, <3>1 DEF WriteRow
    <3>3. it = [item[f] EXCEPT !.dir = IF w.dir = None THEN @ ELSE w.dir]
      BY <2>4 DEF Effect
    <3>4. it.time = item[f].time /\ it.hash = item[f].hash /\ it.dir = w.dir /\ it.live = item[f].live
      BY <1>1, <3>2, <3>3 DEF Item
    <3>5. item[f].live
      BY <1>9, <3>2 DEF Loc
    <3>6. w.dir \in {Home} \cup HomeFolder /\ w.to = Spot(w.dir, f)
      BY <1>1, <1>5, <2>4, <3>2 DEF WriteOK, Arrived
    <3>7. Loc(it, f) = w.to
      BY <1>7, <3>4, <3>5, <3>6 DEF Loc
    <3>8. WriteRow(v, r, it, f, Tied(f))
      BY <1>7, <2>4, <3>2, <3>4, <3>6, <3>7 DEF WriteRow, Arrived, UpToDate, Dir
    <3>9. kind = "google" /\ w.dir \in Folder => LinkedTo(db, Cloud, w.dir) # {}
      BY <1>5 DEF WriteRight
    <3> QED
      BY <1>7, <2>4, <3>1, <3>4, <3>6, <3>7, <3>8, <3>9
  <2> QED
    BY <1>1, <2>1, <2>2, <2>3, <2>4 DEF ChangeTypes
<1>12. Loc(it, f) \in {NoPath, w.path, w.to} /\ Loc(item[f], f)' = Loc(it, f) /\ item'[f] = it
  BY <1>3, <1>11 DEF Loc, Spot
<1>13. \A q : Claims(f, q)' => Claims(f, q)
  <2>1. Tracks(f, w.path) /\ Tracks(f, w.to)
    BY <1>4 DEF Tracks
  <2>2. \A q : Tracks(f, q)' => Tracks(f, q)
    BY <1>6, <2>1 DEF Tracks
  <2> QED
    BY <1>12, <2>1, <2>2 DEF Claims
<1>14. Gone(f)' = {} /\ Entries(f)' = {}
  BY <1>5, <1>6, <1>13 DEF Gone, Outside
<1>15. WriteRight(v, f)'
  <2>1. (\E r : Rows(f) = {r} /\ WriteRow(v, r, it, f, Tied(f))) => \E r : Rows(f)' = {r} /\ WriteRow(v, r, item[f], f, Tied(f))'
    BY <1>3, <1>6 DEF WriteRow, AgreedRow, UpToDate, Arrived, Loc, Spot
  <2>2. Arrived(v)
    BY DEF Arrived
  <2> QED
    BY <1>3, <1>6, <1>11, <1>12, <2>1, <2>2 DEF WriteRight, Arrived, Outside
<1>16. Phase(f)'
  <2>1. Arrived(v) /\ WriteKey(v) = WriteKey(w) /\ v.stage = "arrived"
    BY DEF Arrived, WriteKey
  <2>2. Awaits(v, f)'
    BY <1>5, <1>14, <2>1 DEF Awaits, Outside, Arrived, WriteKey
  <2>3. Sending(f, v)'
    BY <1>6, <1>15, <2>2 DEF Sending
  <2> QED
    BY <2>3 DEF Phase
<1>17. OneChange(f)'
  BY <1>6 DEF OneChange, Once, Waiting, Fresh, Range
<1>18. Alone(f)'
  <2>1. item[f]'.dir \in Folder => item[f]'.dir \in HomeFolder'
    BY <1>3, <1>11 DEF World, Grows
  <2>2. ASSUME NEW i \in File, NEW p, i # f, Claims(f, p), Touches(i, p)' PROVE Touches(i, p)
    <3>1. i \in Id /\ Apparent(item[i], i)' = Apparent(item[i], i)
      BY <1>3, <2>2 DEF Id
    <3>2. Rows(i)' = Rows(i) /\ Waiting(i)' = Waiting(i) /\ Fresh(i)' = Fresh(i) /\ Entries(i)' = Entries(i)
      BY DEF Outside, Rows, Waiting, Fresh, Entries
    <3>3. Writing(i)' \subseteq Writing(i)
      BY <2>2 DEF Writing
    <3> QED
      BY <2>2, <3>1, <3>2, <3>3 DEF Touches, Tracks
  <2>3. db' = db /\ stuck' = stuck
    BY DEF Outside
  <2>4. \A g \in Loose(db') : g \in Loose(db) /\ PathOfRow(db', g) = PathOfRow(db, g)
    BY <2>3
  <2>5. \A x \in Writing(f) : x.gid \in Loose(db') => \E y \in Writing(f)' : y.gid = x.gid
    BY <1>4, <1>6
  <2>6. \A x \in writes', r \in Rows(f)' : r.gid = x.gid => x.id = f
    BY <1>5, <1>6 DEF Alone
  <2>7. /\ f \in File /\ Alone(f) /\ stuck' \subseteq stuck
        /\ \A p : Claims(f, p)' => Claims(f, p)
        /\ \A i \in File : \A p : i # f /\ Claims(f, p) /\ Touches(i, p)' => Touches(i, p)
    BY <1>1, <1>5, <1>13, <2>2, <2>3
  <2> QED
    BY <2>1, <2>4, <2>5, <2>6, <2>7, AloneLess
<1>19. Notices(f)'
  <2>1. LastSay(f)'
    <3> SUFFICES ASSUME kind = "dropbox", NEW here, here = Here(f)', Claims(f, here)',
                        NEW n \in DOMAIN feed', feed'[n].key = here, feed'[n].id # f
                 PROVE  \E m \in DOMAIN feed' : m > n /\ feed'[m].key = here /\ feed'[m].id = f
      <4>1. Claims(f, Here(f))' => \A here : here = Here(f)' => Claims(f, here)'
        OBVIOUS
      <4> QED
        BY <1>6, <4>1 DEF LastSay
    <3>1. here = Spot(it.dir, f) /\ n <= Len(feed) /\ n \in Nat
      BY <1>3 DEF Here, Spot
    <3>2. \E m \in DOMAIN feed' : m \notin DOMAIN feed /\ feed'[m].key = here
      <4>1. CASE w.op = "Delete"
        <5>1. w.path = Loc(item[f], f) /\ it.dir = item[f].dir
          BY <1>11, <4>1
        <5>2. PathOf(f) = here /\ PathOf(f) # NoPath
          <6>1. Loc(item[f], f) = PathOf(f)
            BY <1>1, <1>8, LocIs
          <6>2. Loc(item[f], f) = Spot(item[f].dir, f)
            BY <1>9, <5>1 DEF Loc
          <6> QED
            BY <1>9, <3>1, <5>1, <6>1, <6>2
        <5> QED
          BY <1>3, <5>2
      <4>2. CASE w.op # "Delete"
        <5>1. Loc(it, f) # NoPath
          BY <1>9, <1>11, <4>2
        <5>2. it.live /\ it.dir # Elsewhere /\ Loc(it, f) = Spot(it.dir, f)
          BY <5>1 DEF Loc
        <5>3. it.dir \in {Home} \cup HomeFolder
          BY <1>1, <1>11, <5>2 DEF Item, Dir
        <5>4. place = here
          BY <1>3, <1>7, <3>1, <5>2, <5>3 DEF Seen
        <5> QED
          BY <1>3, <5>2, <5>3, <5>4, ZenonT(30)
      <4> QED
        BY <4>1, <4>2
    <3> QED
      BY <1>3, <3>1, <3>2
  <2> QED
    BY <1>6, <1>14, <2>1 DEF Notices
<1>20. FolderFirst(f)'
  BY <1>3, <1>11 DEF FolderFirst, Outside
<1> QED
  BY <1>16, <1>17, <1>18, <1>19, <1>20 DEF Story

LEMMA ArriveKept ==
  ASSUME Inv, TypeInv', NEW w \in writes, Arrive(w) PROVE Inv'
<1>1. PICK id \in Reaches(w) : \E it, v :
           /\ it = Effect(w, id) /\ Stored(id, it, "program") /\ Outside /\ w.stage = "sent"
           /\ kind = "dropbox" => w.op # "Update"
           /\ writes' = (writes \ {w}) \cup {v}
           /\ v.op = w.op /\ v.gid = w.gid /\ v.path = w.path /\ v.to = w.to
           /\ v.id = id /\ v.dir = it.dir /\ v.time = it.time /\ v.hash = it.hash /\ v.stage = "arrived"
           /\ Suffers({id} \ {w.id}, "raced")
  BY ArriveIs
<1>2. PICK it, v :
           /\ it = Effect(w, id) /\ Stored(id, it, "program") /\ Outside /\ w.stage = "sent"
           /\ kind = "dropbox" => w.op # "Update"
           /\ writes' = (writes \ {w}) \cup {v}
           /\ v.op = w.op /\ v.gid = w.gid /\ v.path = w.path /\ v.to = w.to
           /\ v.id = id /\ v.dir = it.dir /\ v.time = it.time /\ v.hash = it.hash /\ v.stage = "arrived"
           /\ Suffers({id} \ {w.id}, "raced")
  BY <1>1
<1>3. PICK place : place = Apparent(it, id)
  OBVIOUS
<1>4. /\ id \in File /\ id \in Id /\ it \in Item /\ ItemOK(it, id, LiveFolder, kind) /\ it.time > 0
      /\ id # w.id => Born(id) /\ kind = "dropbox" /\ id \in At(w.path)
      /\ ~Born(id) => id = w.id /\ w.op = "New"
      /\ place \in {NoPath, w.path, w.to, Apparent(item[id], id)}
  BY <1>2, <1>3, PlaceReached
<1>5. id \notin Folder /\ TypeInv /\ Births /\ fate \in [Id -> SUBSET Fates]
  BY <1>4, Names DEF Inv, TypeInv, RestTyped
<1>6. \A f \in File : Clean(f)' => f \notin {id} \ {w.id} /\ Clean(f) /\ (Tied(f)' <=> Tied(f))
  BY <1>2, <1>5, SufferedClean
<1>7. \A q : Tracks(id, q)' => Tracks(id, q) \/ q \in {w.path, w.to}
  BY <1>2 DEF Tracks, Rows, Waiting, Fresh, Writing, Outside
<1>8. \A i \in File : \A q : i # id /\ Tracks(i, q)' => Tracks(i, q)
  BY <1>2 DEF Tracks, Rows, Waiting, Fresh, Writing, Outside

(* A file that is not the request's. *)
<1>9. ASSUME NEW f \in File, f # id, Clean(f)' PROVE Story(f)'
  <2>1. Clean(f) /\ (Tied(f)' <=> Tied(f)) /\ Story(f) /\ Alone(f)
    BY <1>6, <1>9 DEF Inv, Stories, Story
  <2>2. f # w.id
    <3> SUFFICES ASSUME f = w.id PROVE FALSE
      OBVIOUS
    <3>1. Claims(f, w.path)
      BY DEF Claims, Tracks, Writing
    <3>2. id \in At(w.path)
      BY <1>4, <1>9
    <3> QED
      BY <1>5, <1>9, <2>1, <3>1, <3>2, OnlyHere
  <2>3. ~Claims(f, w.path) /\ ~Claims(f, w.to) /\ \A r \in Rows(f) : r.gid # w.gid
    BY <2>1, <2>2, Another
  <2>4. place # NoPath => ~Claims(f, place)
    BY <1>4, <1>9, <2>1, <2>3 DEF Alone, Touches
  <2>5. \A q : Claims(f, q) /\ Tracks(id, q)' => Tracks(id, q)
    BY <1>7, <2>3
  <2>6. Writing(f)' = Writing(f)
    BY <1>2, <1>9, <2>2 DEF Writing
  <2>7. \A x \in writes' : \/ \E y \in writes : y.gid = x.gid /\ y.id = x.id
                           \/ \A r \in Rows(f) : r.gid # x.gid
    BY <1>2, <2>3
  <2>8. "program" \in {"user", "program"}
    OBVIOUS
  <2> QED
    BY <1>2, <1>3, <1>4, <1>5, <1>8, <1>9, <2>1, <2>4, <2>5, <2>6, <2>7, <2>8, OutsideKept
<1>10. ASSUME Clean(id)' PROVE Story(id)'
  <2>1. id = w.id /\ Clean(id) /\ (Tied(id)' <=> Tied(id))
    BY <1>4, <1>6, <1>10
  <2> QED
    BY <1>2, <2>1, ArriveOwn
<1>11. \A x \in writes' :
           /\ x.id \in Id
           /\ IF x.op = "New" /\ x.stage # "arrived"
              THEN x.id # id /\ ~Born(x.id) /\ \A y \in writes' : y.id = x.id => y = x
              ELSE x.id = id \/ Born(x.id)
  <2> TAKE x \in writes'
  <2>1. CASE x = v
    BY <1>2, <1>4, <2>1
  <2>2. CASE x \in writes /\ x # w
    <3>1. x.id \in File
      BY <1>5, <2>2 DEF TypeInv, WritesTyped, WriteOK, Request
    <3>2. CASE x.op = "New" /\ x.stage # "arrived"
      <4>1. ~Born(x.id) /\ \A y \in writes : y.id = x.id => y = x
        BY <1>5, <2>2, <3>2 DEF Births
      <4>2. x.id # id
        <5> SUFFICES ASSUME x.id = id PROVE FALSE
          OBVIOUS
        <5>1. id = w.id
          BY <1>4, <4>1
        <5> QED
          BY <2>2, <4>1, <5>1
      <4>3. \A y \in writes' : y.id = x.id => y = x
        BY <1>2, <4>1, <4>2
      <4> QED
        BY <3>1, <3>2, <4>1, <4>2, <4>3 DEF Id
    <3>3. CASE ~(x.op = "New" /\ x.stage # "arrived")
      BY <1>5, <2>2, <3>1, <3>3 DEF Births, Id
    <3> QED
      BY <3>2, <3>3
  <2> QED
    BY <1>2, <2>1, <2>2
<1>12. Births' /\ OnePath' /\ FolderStory'
  <2>1. "program" \in {"user", "program"}
    OBVIOUS
  <2> QED
    BY <1>2, <1>4, <1>5, <1>11, <2>1, OutsideRest
<1>13. Stories'
  BY <1>9, <1>10 DEF Stories
<1>14. ThrownOver'
  <2>1. status' = status
    BY <1>2 DEF Outside
  <2>2. status \in Id => status \in Id /\ ~Clean(status)
    BY DEF Inv, ThrownOver
  <2>3. \A i : Clean(i)' => Clean(i)
    BY <1>6 DEF Clean
  <2> QED
    BY <2>1, <2>2, <2>3 DEF ThrownOver
<1> QED
  BY <1>12, <1>13, <1>14 DEF Inv

(* What users do. *)
LEMMA UserIs ==
  ASSUME Inv, NEW id \in Id, NEW it, NEW what, User(id, it, what),
         NEW place, place = Apparent(it, id), NEW from, from = Apparent(item[id], id)
  PROVE  /\ Outside /\ writes' = writes /\ Stored(id, it, "user")
         /\ \A f \in File : Clean(f)' => Clean(f)
         /\ \A f \in File : f # id /\ Clean(f)' =>
              (Tied(f)' <=> Tied(f)) /\ (place # NoPath /\ Story(f) => ~Claims(f, place))
         /\ id \in File /\ Clean(id)' =>
              /\ what \subseteq {"same second"} /\ (Tied(id)' <=> "same second" \in what)
              /\ ~Interferes(id, place) /\ ~BusyPath(from)
              /\ place # NoPath => Near(place) \ {id} = {}
<1> DEFINE near == IF place = NoPath THEN {} ELSE Near(place) \ {id}
           bad == Interferes(id, place) \/ BusyPath(from) \/ near # {}
           all == {id} \cup WorkedOn(place) \cup WorkedOn(from) \cup near
           races == IF bad THEN all ELSE {}
<1>1. /\ Stored(id, it, "user")
      /\ fate' = [i \in Id |-> (IF i = id THEN (fate[i] \ {"same second"}) \cup what ELSE fate[i])
                               \cup (IF i \in races THEN {"raced"} ELSE {})]
      /\ Outside /\ writes' = writes
  BY DEF User, Outside, batchVars, workVars
<1>2. TypeInv /\ Tables(db)
  BY DEF Inv, TypeInv, DbTyped, DbOK
<1>3. ASSUME NEW f \in File, Clean(f)' PROVE f \notin races /\ fate'[f] \subseteq {"same second"}
  <2>1. f \in Id /\ fate'[f] \subseteq {"same second"}
    BY <1>3 DEF Clean, Id
  <2>2. f \in races => "raced" \in fate'[f]
    BY <1>1, <2>1
  <2> QED
    BY <2>1, <2>2
<1>4. ASSUME NEW f \in File, f # id PROVE fate'[f] = fate[f] \cup (IF f \in races THEN {"raced"} ELSE {})
  BY <1>1, <1>4 DEF Id
<1>5. id \in File => fate'[id] = ((fate[id] \ {"same second"}) \cup what) \cup (IF id \in races THEN {"raced"} ELSE {})
  BY <1>1
<1>6. \A f \in File : Clean(f)' => Clean(f)
  BY <1>3, <1>4, <1>5 DEF Clean
<1>7. ASSUME NEW f \in File, f # id, Clean(f)' PROVE (Tied(f)' <=> Tied(f)) /\ (bad => f \notin all)
  BY <1>3, <1>4, <1>7 DEF Tied
<1>8. ASSUME NEW f \in File, f # id, Clean(f)', place # NoPath, Story(f), Claims(f, place) PROVE FALSE
  <2>1. bad => f \notin WorkedOn(place) /\ f \notin near
    BY <1>7, <1>8
  <2>2. f \in Id /\ Alone(f)
    BY <1>8 DEF Id, Story
  <2>3. CASE \E r \in Rows(f) : r.path = place
    <3>1. PICK r \in Rows(f) : r.path = place
      BY <2>3
    <3>2. r.gid \in DOMAIN db.files /\ LinkedIn(db, r.gid) /\ LinkIn(db, r.gid).id = f /\ PathOfRow(db, r.gid) = place
      BY <1>2, <2>2, <3>1, RowIn
    <3>3. r.gid \in RowsOf(db, place) /\ Linked(r.gid) /\ Link(r.gid).id = f /\ r.gid \notin Known(id)
      BY <1>2, <1>8, <3>2, Key DEF RowsOf, PathOfRow, Linked, LinkedIn, Link, LinkIn, Known
    <3>4. f \in WorkedOn(place)
      BY <3>3 DEF WorkedOn
    <3>5. Interferes(id, place)
      BY <3>3 DEF Interferes, OthersAt
    <3> QED
      BY <2>1, <3>4, <3>5
  <2>4. CASE \E x \in Waiting(f) \cup Fresh(f) \cup Writing(f) : place \in {x.path, x.to}
    <3>1. PICK x \in InProgress \cup writes : x.id = f /\ place \in {x.path, x.to}
      BY <2>4 DEF Waiting, Fresh, Writing, InProgress
    <3>2. f \in WorkedOn(place)
      BY <3>1 DEF WorkedOn
    <3>3. BusyPath(place)
      BY <3>1 DEF BusyPath, Occupied
    <3> QED
      BY <2>1, <3>2, <3>3 DEF Interferes
  <2>5. CASE place = Loc(item[f], f)
    <3>1. f \in near
      BY <1>2, <1>8, <2>2, <2>5, LocIs DEF Near, Alone
    <3> QED
      BY <2>1, <3>1
  <2> QED
    BY <1>8, <2>3, <2>4, <2>5 DEF Claims, Tracks
<1>9. ASSUME id \in File, Clean(id)'
      PROVE  what \subseteq {"same second"} /\ (Tied(id)' <=> "same second" \in what) /\ ~bad
  <2>1. id \notin races /\ fate'[id] \subseteq {"same second"}
    BY <1>3, <1>9
  <2>2. ~bad
    BY <2>1
  <2>3. fate'[id] = (fate[id] \ {"same second"}) \cup what
    BY <1>5, <1>9, <2>1
  <2> QED
    BY <2>1, <2>2, <2>3 DEF Tied
<1> QED
  BY <1>1, <1>6, <1>7, <1>8, <1>9

(* All but the thing that it is about. *)
LEMMA UserElse ==
  ASSUME Inv, TypeInv', NEW id \in Id, NEW it \in Item, ItemOK(it, id, LiveFolder, kind), it.time > 0,
         id \in Folder => it.live /\ ~item[id].live,
         NEW what, User(id, it, what), Born(id) \/ \A w \in writes : w.id # id,
         id \in File /\ Clean(id)' => Story(id)'
  PROVE  Inv'
<1>1. PICK place, from : place = Apparent(it, id) /\ from = Apparent(item[id], id)
  OBVIOUS
<1>2. /\ Outside /\ writes' = writes /\ Stored(id, it, "user")
      /\ \A f \in File : Clean(f)' => Clean(f)
      /\ \A f \in File : f # id /\ Clean(f)' =>
           (Tied(f)' <=> Tied(f)) /\ (place # NoPath /\ Story(f) => ~Claims(f, place))
  BY <1>1, UserIs
<1>3. TypeInv /\ Births
  BY DEF Inv
<1>4. \A i, q : Tracks(i, q)' => Tracks(i, q)
  BY <1>2 DEF Tracks, Rows, Waiting, Fresh, Writing, Outside
<1>5. "user" \in {"user", "program"}
  OBVIOUS
<1>6. ASSUME NEW f \in File, f # id, Clean(f)' PROVE Story(f)'
  <2>1. Story(f) /\ Clean(f)
    BY <1>2, <1>6 DEF Inv, Stories
  <2>2. (Tied(f)' <=> Tied(f)) /\ (place # NoPath => ~Claims(f, place))
    BY <1>2, <1>6, <2>1
  <2>3. Writing(f)' = Writing(f)
    BY <1>2 DEF Writing
  <2>4. \A x \in writes' : \/ \E y \in writes : y.gid = x.gid /\ y.id = x.id
                           \/ \A r \in Rows(f) : r.gid # x.gid
    BY <1>2
  <2>5. \A q : Claims(f, q) /\ Tracks(id, q)' => Tracks(id, q)
    BY <1>4
  <2>6. \A i \in File : \A q : i # id /\ Tracks(i, q)' => Tracks(i, q)
    BY <1>4
  <2> QED
    BY <1>1, <1>2, <1>5, <1>6, <2>1, <2>2, <2>3, <2>4, <2>5, <2>6, OutsideKept
<1>7. Stories'
  <2>1. ASSUME NEW f \in File, Clean(f)' PROVE Story(f)'
    <3>1. CASE f = id
      BY <2>1, <3>1
    <3>2. CASE f # id
      BY <1>6, <2>1, <3>2
    <3> QED
      BY <3>1, <3>2
  <2> QED
    BY <2>1 DEF Stories
<1>8. \A x \in writes' :
           /\ x.id \in Id
           /\ IF x.op = "New" /\ x.stage # "arrived"
              THEN x.id # id /\ ~Born(x.id) /\ \A y \in writes' : y.id = x.id => y = x
              ELSE x.id = id \/ Born(x.id)
  BY <1>2, <1>3 DEF Births, TypeInv, WritesTyped, WriteOK, Request, Id
<1>9. Births' /\ OnePath' /\ FolderStory'
  BY <1>2, <1>5, <1>8, OutsideRest
<1>10. ThrownOver'
  <2>1. status' = status
    BY <1>2 DEF Outside
  <2>2. status \in Id => status \in Id /\ ~Clean(status)
    BY DEF Inv, ThrownOver
  <2>3. \A i : Clean(i)' => Clean(i)
    BY <1>2 DEF Clean
  <2> QED
    BY <2>1, <2>2, <2>3 DEF ThrownOver
<1> QED
  BY <1>7, <1>9, <1>10 DEF Inv

LEMMA Between ==
  ASSUME NEW a \in Nat, NEW b \in Nat, NEW c \in Nat, a <= b, c > b
  PROVE  c > a
OBVIOUS
LEMMA Positive ==
  ASSUME NEW b \in Nat, NEW c \in Nat, c > b PROVE c > 0
OBVIOUS
(* What a user's write to a file leaves. *)
LEMMA UserHere ==
  ASSUME Inv, NEW f \in File, Clean(f)', NEW it, NEW what, User(f, it, what),
         NEW place, place = Apparent(it, f), NEW from, from = Apparent(item[f], f)
  PROVE  /\ Outside /\ writes' = writes /\ Stored(f, it, "user") /\ Clean(f)
         /\ (Tied(f)' <=> "same second" \in what)
         /\ ~Interferes(f, place) /\ ~BusyPath(from) /\ (place # NoPath => Near(place) \ {f} = {})
<1>1. PICK id : id = f
  OBVIOUS
<1>2. id \in Id /\ User(id, it, what) /\ place = Apparent(it, id) /\ from = Apparent(item[id], id)
  BY <1>1 DEF Id
<1>3. /\ Outside /\ writes' = writes /\ Stored(id, it, "user")
      /\ \A x \in File : Clean(x)' => Clean(x)
  BY <1>2, UserIs
<1>4. id \in File /\ Clean(id)'
  BY <1>1
<1>5. (Tied(id)' <=> "same second" \in what) /\ ~Interferes(id, place) /\ ~BusyPath(from)
  BY <1>2, <1>4, UserIs
<1>6. place # NoPath => Near(place) \ {id} = {}
  BY <1>2, <1>4, UserIs
<1> QED
  BY <1>1, <1>3, <1>5, <1>6

StoredSo(f, it, by, place) ==
  /\ World /\ item'[f] = it /\ IsSeq(feed) /\ Len(feed) \in Nat
  /\ place = Seen(it.live, it.dir, f, HomeFolder)
  /\ \A i \in Id : i # f => item'[i] = item[i] /\ Apparent(item[i], i)' = Apparent(item[i], i)
  /\ \A n \in DOMAIN feed : n \in DOMAIN feed' /\ feed'[n] = feed[n] /\ n \in Nat /\ n <= Len(feed)
  /\ \A n \in DOMAIN feed' : n \notin DOMAIN feed =>
       n \in Nat /\ n > Len(feed) /\ n > token /\ feed'[n].id = f /\ feed'[n].by = by
  /\ kind = "google" => \E n \in DOMAIN feed' : n \notin DOMAIN feed
  /\ kind # "google" /\ PathOf(f) # NoPath => \E n \in DOMAIN feed' : n \notin DOMAIN feed /\ feed'[n].key = PathOf(f)
  /\ kind # "google" /\ it.live /\ it.dir \in {Home} \cup HomeFolder =>
       \E n \in DOMAIN feed' : n \notin DOMAIN feed /\ feed'[n].key = place

LEMMA StoredHere ==
  ASSUME Inv, Outside, NEW f \in File, NEW it \in Item, ItemOK(it, f, LiveFolder, kind),
         NEW by \in {"user", "program"}, Stored(f, it, by), NEW place, place = Apparent(it, f)
  PROVE  StoredSo(f, it, by, place)
<1>1. f \in Id /\ (f \in Folder => it.live /\ ~item[f].live)
  BY Names
<1>2. \A i \in Id : i # f => item'[i] = item[i] /\ Apparent(item[i], i)' = Apparent(item[i], i)
  BY <1>1, StoredIs
<1>3. \A n \in DOMAIN feed' : n \notin DOMAIN feed =>
        n \in Nat /\ n > Len(feed) /\ n > token /\ feed'[n].id = f /\ feed'[n].by = by
  BY <1>1, StoredIs
<1>4. /\ World /\ item'[f] = it /\ IsSeq(feed) /\ Len(feed) \in Nat
      /\ place = Seen(it.live, it.dir, f, HomeFolder)
      /\ \A n \in DOMAIN feed : n \in DOMAIN feed' /\ feed'[n] = feed[n] /\ n \in Nat /\ n <= Len(feed)
      /\ kind = "google" => \E n \in DOMAIN feed' : n \notin DOMAIN feed
      /\ kind # "google" /\ PathOf(f) # NoPath => \E n \in DOMAIN feed' : n \notin DOMAIN feed /\ feed'[n].key = PathOf(f)
      /\ kind # "google" /\ it.live /\ it.dir \in {Home} \cup HomeFolder =>
           \E n \in DOMAIN feed' : n \notin DOMAIN feed /\ feed'[n].key = place
  BY <1>1, StoredIs
<1> QED
  BY <1>2, <1>3, <1>4 DEF StoredSo

(* The file that a user writes to, when the program is not at work on it. *)
LEMMA UserOwn ==
  ASSUME Inv, NEW f \in File, Clean(f)', NEW it \in Item, ItemOK(it, f, LiveFolder, kind), it.time > 0,
         NEW what, User(f, it, what),
         it.dir \in Folder => it.dir \in HomeFolder,
         item[f].live \/ kind = "google" \/ ~Born(f),
         it.live \/ (item[f].live /\ it.dir = item[f].dir),
         \A r \in Rows(f) : SoundRow(r, item[f], f, Tied(f)) => SoundRow(r, it, f, "same second" \in what),
         kind = "google" /\ it.dir \in Folder /\ LinkedTo(db, Cloud, it.dir) = {} =>
           Rows(f) = {} /\ \A m, n \in DOMAIN feed : feed[m].id = it.dir /\ feed[n].id = f => m < n
  PROVE  Story(f)'
<1>1. PICK place, from : place = Apparent(it, f) /\ from = Apparent(item[f], f)
  OBVIOUS
<1>2. /\ TypeInv /\ CloudTyped /\ Births /\ f \in Id /\ f \notin Folder /\ kind \in {"google", "dropbox"} /\ None \notin Id
      /\ item[f] \in Item /\ ItemOK(item[f], f, LiveFolder, kind) /\ Home \notin Folder
      /\ Elsewhere \notin {Home} \cup HomeFolder /\ HomeFolder \in SUBSET Folder
  BY Names, HomesAreLive DEF Inv, TypeInv, CloudTyped, Id
<1>3. /\ Outside /\ writes' = writes /\ Stored(f, it, "user") /\ Clean(f)
      /\ (Tied(f)' <=> "same second" \in what)
      /\ ~Interferes(f, place) /\ ~BusyPath(from) /\ (place # NoPath => Near(place) \ {f} = {})
  BY <1>1, UserHere
<1>4. /\ "user" \in {"user", "program"} /\ (f \in Folder => it.live /\ ~item[f].live)
      /\ f \in Id /\ place = Apparent(it, f)
  BY <1>1, <1>2
<1>5. /\ World /\ item'[f] = it /\ IsSeq(feed) /\ Len(feed) \in Nat
      /\ place = Seen(it.live, it.dir, f, HomeFolder)
      /\ \A i \in Id : i # f => item'[i] = item[i] /\ Apparent(item[i], i)' = Apparent(item[i], i)
      /\ \A n \in DOMAIN feed : n \in DOMAIN feed' /\ feed'[n] = feed[n] /\ n \in Nat /\ n <= Len(feed)
      /\ \A n \in DOMAIN feed' : n \notin DOMAIN feed =>
           n \in Nat /\ n > Len(feed) /\ n > token /\ feed'[n].id = f /\ feed'[n].by = "user"
      /\ kind = "google" => \E n \in DOMAIN feed' : n \notin DOMAIN feed
      /\ kind # "google" /\ PathOf(f) # NoPath => \E n \in DOMAIN feed' : n \notin DOMAIN feed /\ feed'[n].key = PathOf(f)
      /\ kind # "google" /\ it.live /\ it.dir \in {Home} \cup HomeFolder =>
           \E n \in DOMAIN feed' : n \notin DOMAIN feed /\ feed'[n].key = place
  <2>1. PICK by \in {"user", "program"} : by = "user"
    OBVIOUS
  <2>2. Outside /\ Stored(f, it, by) /\ place = Apparent(it, f)
    BY <1>3, <1>4, <2>1
  <2>3. StoredSo(f, it, by, place)
    BY <2>2, StoredHere
  <2> QED
    BY <2>1, <2>3 DEF StoredSo
<1>6. /\ Story(f) /\ Alone(f) /\ Notices(f)
      /\ item[f].dir \in Folder => item[f].dir \in HomeFolder
  BY <1>3 DEF Inv, Stories, Story, Alone
<1>7. ~Busy(f) /\ ~BusyPath(place) /\ OthersAt(f, place) = {} /\ \A d \in FolderAt(place) : ~Busy(d)
  BY <1>3 DEF Interferes
<1>8. /\ Waiting(f) = {} /\ Fresh(f) = {} /\ Writing(f) = {} /\ Entries(f) = {}
      /\ f \notin DOMAIN expected /\ f \notin DOMAIN old
  <2>1. \A x \in InProgress \cup writes : x.id # f
    BY <1>7 DEF Busy
  <2>2. \A i \in DOMAIN batch : batch[i].id # f
    BY <1>7 DEF Busy
  <2> QED
    BY <1>7, <2>1, <2>2 DEF Busy, Waiting, Fresh, Writing, Entries, InProgress, Range
<1>9. Resting(f)
  BY <1>6, <1>8 DEF Story, Phase, Changing, Sending
<1>10. /\ Rows(f)' = Rows(f) /\ Waiting(f)' = {} /\ Fresh(f)' = {} /\ Writing(f)' = {} /\ Entries(f)' = {}
       /\ kind' = kind /\ token' = token
  BY <1>3, <1>8 DEF Outside, Rows, Waiting, Fresh, Writing, Entries
<1>11. Loc(it, f) = place /\ Loc(item[f], f) = from
  <2>1. Loc(item[f], f) = from
    BY <1>1, <1>2, <1>6, LocIs
  <2>2. Loc(it, f) = place
    BY <1>2, <1>5 DEF Loc, Seen, Item, Dir
  <2> QED
    BY <2>1, <2>2
<1>12. Loc(item[f], f)' = place /\ Here(f)' = Spot(it.dir, f) /\ Here(f) = Spot(item[f].dir, f)
  BY <1>5, <1>11 DEF Loc, Here, Spot
<1>13. \A p : Claims(f, p)' => (\E r \in Rows(f) : r.path = p) \/ (p = place /\ p # NoPath)
  BY <1>10, <1>12 DEF Claims, Tracks
<1>14. \A r \in Rows(f) : Claims(f, r.path)
  BY DEF Claims, Tracks

(* Of the places of its rows nothing is expected. *)
<1>15. \A r \in Rows(f) : /\ r.path \notin DOMAIN expected /\ r.path \notin DOMAIN old
                          /\ \A i \in DOMAIN batch : batch[i].id = None => batch[i].path # r.path
  <2>1. CASE Agreed(f)
    <3>1. \A r \in Rows(f) : r.path = from
      BY <1>11, <2>1 DEF Agreed, AgreedRow
    <3> QED
      BY <1>3, <3>1 DEF BusyPath
  <2>2. CASE ~Agreed(f)
    <3>1. Silent(f)
      BY <1>9, <2>2 DEF Resting, Behind
    <3>2. \A r \in Rows(f) : r.path \notin DOMAIN expected /\ r.path \notin DOMAIN old
      BY <1>14, <3>1 DEF Silent
    <3>3. ASSUME NEW r \in Rows(f), NEW i \in DOMAIN batch, batch[i].id = None, batch[i].path = r.path PROVE FALSE
      <4>1. batch[i] \in Gone(f)
        BY <1>14, <3>3 DEF Gone, Range
      <4>2. ~item[f].live
        BY <1>6, <3>3, <4>1 DEF Notices
      <4>3. kind = "dropbox"
        BY <1>2, <3>3 DEF TypeInv, BatchTyped, EntryOK
      <4>4. ~Born(f)
        BY <4>2, <4>3
      <4> QED
        BY <3>3, <4>4, Nameless
    <3> QED
      BY <3>2, <3>3
  <2> QED
    BY <2>1, <2>2
<1>16. place # NoPath =>
         /\ \A i \in File : i # f => ~Touches(i, place)
         /\ place \notin stuck /\ (\A g \in Loose(db) : PathOfRow(db, g) # place)
         /\ (\A i \in DOMAIN batch : batch[i].path # place)
         /\ place \notin DOMAIN expected /\ place \notin DOMAIN old
  BY <1>2, <1>3, <1>7, VacantIs
<1>17. Alone(f)'
  <2>1. item[f]'.dir \in Folder => item[f]'.dir \in HomeFolder'
    BY <1>5 DEF World, Grows
  <2>2. ASSUME NEW i \in File, NEW p, i # f, Claims(f, p)', Touches(i, p)' PROVE FALSE
    <3>1. i \in Id /\ Apparent(item[i], i)' = Apparent(item[i], i)
      BY <1>5, <2>2 DEF Id
    <3>2. /\ Rows(i)' = Rows(i) /\ Waiting(i)' = Waiting(i) /\ Fresh(i)' = Fresh(i) /\ Entries(i)' = Entries(i)
          /\ Writing(i)' = Writing(i)
      BY <1>3 DEF Outside, Rows, Waiting, Fresh, Entries, Writing
    <3>3. Touches(i, p)
      BY <2>2, <3>1, <3>2 DEF Touches, Tracks
    <3>4. (\E r \in Rows(f) : r.path = p) \/ (p = place /\ p # NoPath)
      BY <1>13, <2>2
    <3>5. Claims(f, p) \/ (p = place /\ p # NoPath)
      BY <1>14, <3>4
    <3>6. ~Claims(f, p)
      BY <1>6, <2>2, <3>3 DEF Alone
    <3> QED
      BY <1>16, <2>2, <3>3, <3>5, <3>6
  <2>3. db' = db /\ stuck' = stuck /\ writes' = writes
    BY <1>3 DEF Outside
  <2>4. \A p \in stuck' : ~Claims(f, p)'
    <3> SUFFICES ASSUME NEW p \in stuck, Claims(f, p)' PROVE FALSE
      BY <2>3
    <3>4. (\E r \in Rows(f) : r.path = p) \/ (p = place /\ p # NoPath)
      BY <1>13
    <3>5. Claims(f, p) \/ (p = place /\ p # NoPath)
      BY <1>14, <3>4
    <3> QED
      BY <1>6, <1>16, <3>5 DEF Alone
  <2>5. ASSUME NEW g \in Loose(db), NEW p, p = PathOfRow(db, g), Claims(f, p)' PROVE FALSE
    <3>3. Claims(f, p)'
      BY <2>5
    <3>4. (\E r \in Rows(f) : r.path = p) \/ (p = place /\ p # NoPath)
      BY <1>13, <3>3
    <3>5. p # place \/ place = NoPath
      BY <1>16, <2>5
    <3>1. PICK r \in Rows(f) : r.path = p
      BY <3>4, <3>5
    <3>2. Claims(f, PathOfRow(db, g))
      BY <1>14, <2>5, <3>1
    <3> QED
      BY <1>6, <1>8, <2>5, <3>2 DEF Alone
  <2>6. \A g \in Loose(db)' : Claims(f, PathOfRow(db, g))' => \E x \in Writing(f)' : x.gid = g
    BY <2>3, <2>5
  <2>7. \A w \in writes' : \A r \in Rows(f)' : r.gid = w.gid => w.id = f
    BY <1>6, <1>10, <2>3 DEF Alone
  <2> QED
    BY <2>1, <2>2, <2>4, <2>6, <2>7 DEF Alone

(* The log tells of it. *)
<1>18. \E n \in DOMAIN feed' : n \notin DOMAIN feed /\ (kind = "dropbox" => feed'[n].key = Spot(it.dir, f))
  <2>1. CASE kind = "google"
    BY <1>5, <2>1
  <2>2. CASE kind = "dropbox" /\ it.live
    <3>1. it.dir \in {Home} \cup HomeFolder
      BY <1>2, <2>2 DEF ItemOK, Item, Dir
    <3>2. place = Spot(it.dir, f)
      BY <1>2, <1>5, <2>2, <3>1 DEF Seen
    <3> QED
      BY <1>5, <2>2, <3>1, <3>2
  <2>3. CASE kind = "dropbox" /\ ~it.live
    <3>1. item[f].live /\ it.dir = item[f].dir
      BY <2>3
    <3>2. item[f].dir \in {Home} \cup HomeFolder
      BY <1>2, <1>6, <2>3 DEF ItemOK, Item, Dir
    <3>3. PathOf(f) = Spot(it.dir, f)
      BY <1>2, <3>1, <3>2, PathIs
    <3>4. PathOf(f) # NoPath
      <4>1. item[f].dir \in {Home} \cup Folder
        BY <1>2, <3>2
      <4> QED
        BY <1>2, <3>1, <3>3, <4>1, SpotKinds
    <3> QED
      BY <1>5, <2>3, <3>3, <3>4
  <2> QED
    BY <1>2, <2>1, <2>2, <2>3
<1>19. UserRec(f, token)' /\ UserRec(f, 0)'
  <2>1. PICK n \in DOMAIN feed' : n \notin DOMAIN feed /\ (kind = "dropbox" => feed'[n].key = Spot(it.dir, f))
    BY <1>18
  <2>2. n > token /\ n \in Nat /\ n > Len(feed) /\ feed'[n].id = f /\ feed'[n].by = "user"
    BY <1>5, <2>1
  <2>3. n > 0
    <3>1. Len(feed) \in Nat
      BY <1>5
    <3> QED
      BY <2>2, <3>1, Positive
  <2> QED
    BY <1>10, <1>12, <2>1, <2>2, <2>3 DEF UserRec
<1>20. LastSay(f)'
  <2> SUFFICES ASSUME kind = "dropbox", NEW n \in DOMAIN feed', feed'[n].key = Spot(it.dir, f), feed'[n].id # f
               PROVE  \E m \in DOMAIN feed' : m > n /\ feed'[m].key = Spot(it.dir, f) /\ feed'[m].id = f
    BY <1>10, <1>12 DEF LastSay
  <2>1. n \in DOMAIN feed
    BY <1>5
  <2>2. PICK m \in DOMAIN feed' : m \notin DOMAIN feed /\ feed'[m].key = Spot(it.dir, f)
    BY <1>18
  <2>3. m \in Nat /\ m > Len(feed) /\ feed'[m].id = f /\ n \in Nat /\ n <= Len(feed)
    BY <1>5, <2>1, <2>2
  <2>4. m > n
    <3>1. Len(feed) \in Nat
      BY <1>5
    <3> QED
      BY <2>3, <3>1, Between
  <2> QED
    BY <2>2, <2>3, <2>4
<1>21. Silent(f)'
  <2>1. ASSUME NEW k, Claims(f, k)' PROVE k \notin DOMAIN expected /\ k \notin DOMAIN old
    <3>1. (\E r \in Rows(f) : r.path = k) \/ (k = place /\ k # NoPath)
      BY <1>13, <2>1
    <3>2. CASE \E r \in Rows(f) : r.path = k
      BY <1>15, <3>2
    <3>3. CASE k = place /\ k # NoPath
      BY <1>16, <3>3
    <3> QED
      BY <3>1, <3>2, <3>3
  <2>2. expected' = expected /\ old' = old
    BY <1>3 DEF Outside
  <2> QED
    BY <1>8, <2>1, <2>2 DEF Silent
<1>22. Sound(f)'
  <2>1. CASE Rows(f) = {}
    BY <1>10, <2>1 DEF Sound
  <2>2. CASE Rows(f) # {}
    <3>1. PICK r : Rows(f) = {r} /\ SoundRow(r, item[f], f, Tied(f))
      BY <1>9, <2>2 DEF Resting, Sound
    <3>2. SoundRow(r, it, f, "same second" \in what)
      BY <3>1
    <3>3. SoundRow(r, item[f], f, Tied(f))'
      BY <1>3, <1>5, <1>10, <3>2 DEF SoundRow, Spot
    <3> QED
      BY <1>10, <3>1, <3>3 DEF Sound
  <2> QED
    BY <2>1, <2>2
<1>23. Phase(f)'
  BY <1>10, <1>19, <1>21, <1>22 DEF Phase, Resting, Behind
<1>24. OneChange(f)'
  BY <1>10 DEF OneChange, Once, Waiting, Fresh, Range
<1>25. Notices(f)'
  <2>1. batch' = batch
    BY <1>3 DEF Outside
  <2>2. ASSUME NEW e \in Range(batch), e.id = None, NEW r \in Rows(f), r.path = e.path PROVE FALSE
    BY <1>15, <2>2 DEF Range
  <2>3. \A e \in Gone(f)' : ~\E r \in Rows(f)' : r.path = e.path
    BY <1>10, <2>1, <2>2 DEF Gone
  <2> QED
    BY <1>10, <1>19, <1>20, <2>3 DEF Notices
<1>26. FolderFirst(f)'
  <2> SUFFICES ASSUME NEW d, d = it.dir, kind = "google", d \in Folder, LinkedTo(db, Cloud, d) = {} PROVE FolderFirst(f)'
    BY <1>3, <1>5 DEF FolderFirst, Outside
  <2>1. Rows(f) = {} /\ \A m, n \in DOMAIN feed : feed[m].id = d /\ feed[n].id = f => m < n
    OBVIOUS
  <2>2. \A m, n \in DOMAIN feed' : feed'[m].id = d /\ feed'[n].id = f => m < n
    BY <1>2, <1>5, <2>1
  <2>3. CASE it.live
    <3>1. place = Spot(d, f) /\ d \in HomeFolder
      BY <1>2, <1>5, <2>3 DEF Seen
    <3>2. FolderAt(place) = {d}
      <4>1. d \in {Home} \cup Folder /\ d # Home
        BY <1>2
      <4> QED
        BY <1>2, <3>1, <4>1, SpotKinds
    <3>3. ~Busy(d)
      BY <1>7, <3>2
    <3>4. PICK n \in DOMAIN feed : /\ feed[n].id = d
                                   /\ n > token \/ (\E i \in DOMAIN batch : batch[i].id = d) \/ \E c \in InProgress : c.id = d
      BY <3>1 DEF Inv, FolderStory
    <3>5. n > token
      BY <3>3, <3>4 DEF Busy
    <3>6. \E m \in DOMAIN feed' : m > token /\ feed'[m].id = d
      BY <1>5, <3>4, <3>5
    <3> QED
      BY <1>3, <1>5, <1>10, <2>1, <2>2, <3>6, ZenonT(30) DEF FolderFirst, Outside
  <2>4. CASE ~it.live
    <3>1. place = NoPath
      BY <1>5, <2>4 DEF Seen
    <3>2. Agreed(f)'
      BY <1>10, <1>12, <2>1, <3>1 DEF Agreed
    <3> QED
      BY <1>3, <1>5, <1>10, <2>1, <2>2, <3>2 DEF FolderFirst, Outside
  <2> QED
    BY <2>3, <2>4
<1> QED
  BY <1>17, <1>23, <1>24, <1>25, <1>26 DEF Story

(* What users do to a file that stays in its directory. *)
LEMMA UserStaysKept ==
  ASSUME Inv, TypeInv', NEW f \in File, NEW it \in Item, ItemOK(it, f, LiveFolder, kind), it.time > 0, Born(f),
         it.dir = item[f].dir, NEW what, User(f, it, what), item[f].live \/ kind = "google", it.live \/ item[f].live,
         \A r \in Rows(f) : SoundRow(r, item[f], f, Tied(f)) => SoundRow(r, it, f, "same second" \in what)
  PROVE  Inv'
<1>1. f \in Id /\ f \notin Folder
  BY Names DEF Id
<1>2. ASSUME Clean(f)' PROVE Story(f)'
  <2>1. PICK place, from : place = Apparent(it, f) /\ from = Apparent(item[f], f)
    OBVIOUS
  <2>2. Clean(f)
    BY <1>2, <2>1, UserHere
  <2>3. Story(f)
    BY <2>2 DEF Inv, Stories
  <2>4. it.dir \in Folder => it.dir \in HomeFolder
    BY <2>3 DEF Story, Alone
  <2>5. kind = "google" /\ it.dir \in Folder /\ LinkedTo(db, Cloud, it.dir) = {} =>
          Rows(f) = {} /\ \A m, n \in DOMAIN feed : feed[m].id = it.dir /\ feed[n].id = f => m < n
    BY <2>3 DEF Story, FolderFirst
  <2> QED
    BY <1>2, <2>4, <2>5, UserOwn
<1> QED
  BY <1>1, <1>2, UserElse

LEMMA UserTrashesKept ==
  ASSUME Inv, TypeInv', NEW id \in File, UserTrashes(id) PROVE Inv'
<1> DEFINE it == [item[id] EXCEPT !.live = FALSE]
           what == fate[id] \cap {"same second"}
<1>0. /\ item \in [Id -> Item] /\ \A i \in Id : ItemOK(item[i], i, LiveFolder, kind)
      /\ kind \in {"google", "dropbox"}
  BY DEF Inv, TypeInv, CloudTyped
<1>1. User(id, it, what) /\ id \in Id /\ id \notin Folder /\ item[id].live
  BY Names DEF UserTrashes
<1>2. /\ it \in Item /\ ~it.live /\ it.dir = item[id].dir /\ it.time = item[id].time /\ it.hash = item[id].hash
  BY <1>0, <1>1 DEF Item
<1>3. "same second" \in what <=> Tied(id)
  BY DEF Tied
<1> HIDE DEF it, what
<1>4. ItemOK(it, id, LiveFolder, kind) /\ it.time > 0
  BY <1>0, <1>1, <1>2 DEF ItemOK
<1>5. Born(id)
  BY <1>2, <1>4 DEF Born
<1>6. \A r \in Rows(id) : SoundRow(r, item[id], id, Tied(id)) => SoundRow(r, it, id, "same second" \in what)
  BY <1>2, <1>3 DEF SoundRow
<1> QED
  BY <1>1, <1>2, <1>4, <1>5, <1>6, UserStaysKept

LEMMA UserRestoresKept ==
  ASSUME Inv, TypeInv', NEW id \in File, UserRestores(id) PROVE Inv'
<1> DEFINE it == [item[id] EXCEPT !.live = TRUE]
           what == fate[id] \cap {"same second"}
<1>0. /\ item \in [Id -> Item] /\ \A i \in Id : ItemOK(item[i], i, LiveFolder, kind)
      /\ kind \in {"google", "dropbox"}
  BY DEF Inv, TypeInv, CloudTyped
<1>1. User(id, it, what) /\ id \in Id /\ id \notin Folder /\ Born(id) /\ item[id].time > 0 /\ kind = "google"
  BY Names DEF UserRestores, Born
<1>2. /\ it \in Item /\ it.live /\ it.dir = item[id].dir /\ it.time = item[id].time /\ it.hash = item[id].hash
  BY <1>0, <1>1 DEF Item
<1>3. "same second" \in what <=> Tied(id)
  BY DEF Tied
<1> HIDE DEF it, what
<1>4. ItemOK(it, id, LiveFolder, kind) /\ it.time > 0
  BY <1>0, <1>1, <1>2 DEF ItemOK
<1>6. \A r \in Rows(id) : SoundRow(r, item[id], id, Tied(id)) => SoundRow(r, it, id, "same second" \in what)
  BY <1>2, <1>3 DEF SoundRow
<1> QED
  BY <1>1, <1>2, <1>4, <1>6, UserStaysKept

LEMMA UserEditsKept ==
  ASSUME Inv, TypeInv', NEW id \in File, NEW later \in 0..1, UserEdits(id, later) PROVE Inv'
<1> DEFINE it == [item[id] EXCEPT !.time = @ + later, !.hash = @ + 1]
           what == IF later = 0 THEN {"same second"} ELSE {}
<1>0. /\ item \in [Id -> Item] /\ \A i \in Id : ItemOK(item[i], i, LiveFolder, kind)
      /\ kind \in {"google", "dropbox"}
  BY DEF Inv, TypeInv, CloudTyped
<1>10. later \in Nat
  OBVIOUS
<1>11. User(id, it, what) /\ item[id].live
  BY DEF UserEdits
<1>1. User(id, it, what) /\ id \in Id /\ id \notin Folder /\ item[id].live /\ later \in Nat
  BY <1>10, <1>11, Names
<1>2. item[id] \in Item /\ item[id].time \in Nat /\ item[id].hash \in Nat /\ item[id].time > 0
  BY <1>0, <1>1 DEF Item, ItemOK
<1>3. PICK time, hash : time = item[id].time + later /\ hash = item[id].hash + 1
  OBVIOUS
<1>4. /\ time \in Nat /\ hash \in Nat /\ time > 0 /\ hash > item[id].hash /\ time >= item[id].time
      /\ (time = item[id].time => later = 0)
  <2>1. \A t, h, n \in Nat : t > 0 =>
          /\ t + n \in Nat /\ h + 1 \in Nat /\ t + n > 0 /\ h + 1 > h /\ t + n >= t
          /\ (t + n = t => n = 0)
    OBVIOUS
  <2> QED
    BY <1>2, <1>3, <1>10, <2>1
<1>5. it \in Item /\ it.live /\ it.dir = item[id].dir /\ it.time = time /\ it.hash = hash
  <2>1. PICK was : was = item[id]
    OBVIOUS
  <2>2. it = [was EXCEPT !.time = time, !.hash = hash]
    BY <1>3, <2>1
  <2>3. was \in Item /\ was.live
    BY <1>1, <1>2, <2>1
  <2> HIDE DEF it
  <2> QED
    BY <1>4, <2>1, <2>2, <2>3 DEF Item
<1>6. "same second" \in what <=> later = 0
  OBVIOUS
<1> HIDE DEF it, what
<1>7. ItemOK(it, id, LiveFolder, kind) /\ it.time > 0 /\ Born(id)
  BY <1>0, <1>1, <1>2, <1>4, <1>5 DEF ItemOK, Born
<1>8. ASSUME NEW r \in Rows(id), SoundRow(r, item[id], id, Tied(id)) PROVE SoundRow(r, it, id, "same second" \in what)
  <2>1. r.link.time \in Nat /\ r.link.hash \in Nat
    BY <1>1, RowIn DEF Inv, LinkSet
  <2>2. r.link.time <= time /\ r.link.hash < hash /\ (r.link.time = time => later = 0)
    <3>1. r.link.time <= item[id].time /\ r.link.hash <= item[id].hash
      BY <1>8 DEF SoundRow
    <3> QED
      BY <1>2, <1>4, <2>1, <3>1
  <2>3. r.link.hash <= hash /\ r.link.hash # hash
    BY <1>4, <2>1, <2>2
  <2> QED
    BY <1>5, <1>6, <1>8, <2>2, <2>3 DEF SoundRow
<1> QED
  BY <1>1, <1>5, <1>7, <1>8, UserStaysKept

LEMMA UserMovesKept ==
  ASSUME Inv, TypeInv', NEW id \in File, NEW dir, UserMoves(id, dir) PROVE Inv'
<1> DEFINE it == [item[id] EXCEPT !.dir = dir]
           what == (IF kind = "dropbox" THEN {"moved"} ELSE {})
             \cup (IF dir \in Folder /\ item[dir].dir # Home THEN {"stranger"} ELSE {})
             \cup (IF dir \in Folder /\ Known(dir) = {} THEN {"early"} ELSE {})
             \cup (fate[id] \cap {"same second"})
<1>0. /\ item \in [Id -> Item] /\ \A i \in Id : ItemOK(item[i], i, LiveFolder, kind)
      /\ kind \in {"google", "dropbox"}
  BY DEF Inv, TypeInv, CloudTyped
<1>1. User(id, it, what) /\ dir \in Place(id) /\ id \in Id /\ id \notin Folder /\ item[id].live
  BY Names DEF UserMoves
<1>2. /\ dir \in Dir /\ (dir \in Folder => dir \in LiveFolder)
      /\ kind = "dropbox" => dir # Elsewhere
  BY <1>0, <1>1, Names DEF Place, Dir, LiveFolder
<1>3. item[id] \in Item /\ ItemOK(item[id], id, LiveFolder, kind)
  BY <1>0, <1>1
<1>4. it \in Item /\ it.live /\ it.time = item[id].time /\ it.hash = item[id].hash /\ it.dir = dir
  BY <1>1, <1>2, <1>3 DEF Item
<1>5. what \subseteq {"same second"} =>
        /\ kind = "google" /\ (dir \in Folder => item[dir].dir = Home /\ Known(dir) # {})
        /\ "same second" \in what <=> Tied(id)
  BY <1>0 DEF Tied
<1> HIDE DEF it, what
<1>6. ItemOK(it, id, LiveFolder, kind) /\ it.time > 0 /\ Born(id)
  BY <1>1, <1>2, <1>3, <1>4 DEF ItemOK, Born
<1>7. ASSUME Clean(id)' PROVE Story(id)'
  <2>1. PICK place, from : place = Apparent(it, id) /\ from = Apparent(item[id], id)
    OBVIOUS
  <2>2. Clean(id)
    BY <1>1, <1>7, <2>1, UserHere
  <2>3. what \subseteq {"same second"}
    BY <1>1, <1>7, <2>1, UserIs, ZenonT(30)
  <2>4. it.dir \in Folder => it.dir \in HomeFolder
    BY <1>2, <1>4, <1>5, <2>3 DEF HomeFolder
  <2>5. \A r \in Rows(id) : SoundRow(r, item[id], id, Tied(id)) => SoundRow(r, it, id, "same second" \in what)
    <3>1. kind = "google" /\ ("same second" \in what <=> Tied(id))
      BY <1>5, <2>3
    <3> QED
      BY <1>4, <3>1 DEF SoundRow
  <2>6. it.dir \in Folder => LinkedTo(db, Cloud, it.dir) # {}
    BY <1>4, <1>5, <2>3, DbNames
  <2>7. /\ kind = "google" /\ it.dir \in Folder /\ LinkedTo(db, Cloud, it.dir) = {} =>
             Rows(id) = {} /\ \A m, n \in DOMAIN feed : feed[m].id = it.dir /\ feed[n].id = id => m < n
        /\ item[id].live \/ kind = "google" \/ ~Born(id)
        /\ it.live \/ (item[id].live /\ it.dir = item[id].dir)
    BY <1>1, <1>4, <2>6
  <2> QED
    BY <1>1, <1>4, <1>6, <1>7, <2>4, <2>5, <2>7, UserOwn
<1> QED
  BY <1>1, <1>4, <1>6, <1>7, UserElse

LEMMA UserCreatesKept ==
  ASSUME Inv, TypeInv', NEW id \in Id, NEW dir, UserCreates(id, dir) PROVE Inv'
<1> DEFINE it == [dir |-> dir, time |-> 1, hash |-> 1, live |-> TRUE]
           what == IF dir \in Folder /\ item[dir].dir # Home THEN {"stranger"} ELSE {}
<1>0. /\ item \in [Id -> Item] /\ \A i \in Id : ItemOK(item[i], i, LiveFolder, kind)
      /\ kind \in {"google", "dropbox"}
  BY DEF Inv, TypeInv, CloudTyped
<1>1. User(id, it, what) /\ ~Born(id) /\ dir \in Place(id) /\ \A w \in writes : w.id # id
  BY DEF UserCreates
<1>2. /\ dir \in Dir /\ (dir \in Folder => dir \in LiveFolder /\ id \notin Folder)
      /\ kind = "dropbox" => dir # Elsewhere
  BY <1>0, <1>1, Names DEF Place, Dir, LiveFolder
<1>3. it \in Item /\ it.live /\ it.time > 0 /\ it.dir = dir
  BY <1>2 DEF Item
<1>4. ~item[id].live
  BY <1>0, <1>1 DEF Born, ItemOK
<1>5. what \subseteq {"same second"} => (dir \in Folder => item[dir].dir = Home)
  OBVIOUS
<1> HIDE DEF it, what
<1>6. ItemOK(it, id, LiveFolder, kind)
  BY <1>2, <1>3 DEF ItemOK
<1>7. ASSUME id \in File, Clean(id)' PROVE Story(id)'
  <2>1. PICK place, from : place = Apparent(it, id) /\ from = Apparent(item[id], id)
    OBVIOUS
  <2>3. what \subseteq {"same second"}
    BY <1>1, <1>7, <2>1, UserIs, ZenonT(30)
  <2>4. it.dir \in Folder => it.dir \in HomeFolder
    BY <1>2, <1>3, <1>5, <2>3 DEF HomeFolder
  <2>5. Rows(id) = {} /\ \A n \in DOMAIN feed : feed[n].id # id
    BY <1>1, <1>7, Nameless
  <2>6. \A r \in Rows(id) : SoundRow(r, item[id], id, Tied(id)) => SoundRow(r, it, id, "same second" \in what)
    BY <2>5
  <2>7. /\ kind = "google" /\ it.dir \in Folder /\ LinkedTo(db, Cloud, it.dir) = {} =>
             Rows(id) = {} /\ \A m, n \in DOMAIN feed : feed[m].id = it.dir /\ feed[n].id = id => m < n
        /\ item[id].live \/ kind = "google" \/ ~Born(id)
        /\ it.live \/ (item[id].live /\ it.dir = item[id].dir)
    BY <1>1, <1>3, <2>5
  <2> QED
    BY <1>1, <1>3, <1>6, <1>7, <2>4, <2>6, <2>7, UserOwn
<1> QED
  BY <1>1, <1>3, <1>4, <1>6, <1>7, UserElse

LEMMA UsersKept ==
  ASSUME Inv, TypeInv', InCloud PROVE Inv'
BY UserCreatesKept, UserMovesKept, UserTrashesKept, UserRestoresKept, UserEditsKept DEF InCloud

(* What the program writes. *)
LEMMA OwnKept ==
  ASSUME Inv, TypeInv', Write PROVE Inv'
BY BeginUploadKept, BeginUpdateKept, BeginDeleteKept, BeginMoveKept, SendKept, ArriveKept, GoesAstrayKept,
   FinishKept, FailKept DEF Write

(* A step of the polling thread. *)
Polled == UNCHANGED <<kind, item, feed, writes, stuck, db, status>>

LEMMA PolledTouches ==
  ASSUME Polled, NEW id, (Waiting(id) \cup Fresh(id))' \subseteq Waiting(id) \cup Fresh(id),
         NEW p, \A e \in Entries(id)' : e.path = p => Touches(id, p), Touches(id, p)'
  PROVE  Touches(id, p)
<1>1. Rows(id)' = Rows(id) /\ Writing(id)' = Writing(id)
  BY DEF Polled, Rows, Writing
<1>2. Apparent(item[id], id)' = Apparent(item[id], id)
  BY DEF Polled, Apparent, PathIn
<1>3. Tracks(id, p)' => Tracks(id, p)
  BY <1>1 DEF Tracks
<1> QED
  BY <1>2, <1>3 DEF Touches

LEMMA PolledAlone ==
  ASSUME TypeInv, Polled, NEW f \in File, SameOf(f), Alone(f),
         \A id \in File : \A p : id # f /\ Claims(f, p) /\ Touches(id, p)' => Touches(id, p)
  PROVE  Alone(f)'
<1>1. World /\ db' = db /\ stuck' = stuck /\ writes' = writes
  BY SameWorld DEF Polled
<1>2. \A p \in stuck' : p \in stuck \/ ~Claims(f, p)
  BY <1>1
<1>3. \A g \in Loose(db') : \/ g \in Loose(db) /\ PathOfRow(db', g) = PathOfRow(db, g)
                            \/ ~Claims(f, PathOfRow(db', g))
  BY <1>1
<1>4. \A w \in writes' : \/ \E v \in writes : v.gid = w.gid /\ v.id = w.id
                         \/ \A r \in Rows(f) : r.gid # w.gid
  BY <1>1
<1> QED
  BY <1>1, <1>2, <1>3, <1>4, AloneKept

LEMMA PolledBirths ==
  ASSUME Births, Polled, \A i \in DOMAIN batch' : batch'[i].id = None \/ Born(batch'[i].id),
         \A c \in InProgress' : Born(c.id)
  PROVE  Births'
BY DEF Births, Polled, Born

LEMMA PolledLog ==
  ASSUME Polled, NEW f, SameOf(f)
  PROVE  /\ LastSay(f) => LastSay(f)'
         /\ UserRec(f, 0) => UserRec(f, 0)'
         /\ token' = token => (UserRec(f, token) => UserRec(f, token)') /\ (Told(f)' => Told(f))
         /\ FoldersKept /\ Here(f)' = Here(f) /\ Loc(item[f], f)' = Loc(item[f], f)
<1>1. Here(f)' = Here(f) /\ Loc(item[f], f)' = Loc(item[f], f) /\ (Born(f)' <=> Born(f))
  BY DEF Polled, Here, Spot, Loc, Born
<1>2. \A p : Claims(f, p)' <=> Claims(f, p)
  BY ClaimsKept
<1>3. LastSay(f) => LastSay(f)'
  <2>1. PICK p : p = Here(f)
    OBVIOUS
  <2>2. Claims(f, p)' <=> Claims(f, p)
    BY <1>2
  <2>3. (Claims(f, Here(f)) <=> Claims(f, p)) /\ (Claims(f, Here(f))' <=> Claims(f, p)')
    BY <1>1, <2>1
  <2> QED
    BY <1>1, <2>2, <2>3 DEF Polled, LastSay
<1>4. UserRec(f, 0) => UserRec(f, 0)'
  BY <1>1 DEF Polled, UserRec
<1>5. ASSUME token' = token PROVE (UserRec(f, token) => UserRec(f, token)') /\ (Told(f)' => Told(f))
  <2>1. UserRec(f, token) => UserRec(f, token)'
    BY <1>1, <1>5 DEF Polled, UserRec
  <2>2. ASSUME Told(f)' PROVE Told(f)
    <3>0. PICK n \in DOMAIN feed : \E k : n > token /\ k = feed[n].key /\ (feed[n].id = f \/ Claims(f, k)')
      BY <1>5, <2>2 DEF Told, Polled
    <3>1. PICK k : n > token /\ k = feed[n].key /\ (feed[n].id = f \/ Claims(f, k)')
      BY <3>0
    <3>2. Claims(f, k)' => Claims(f, k)
      BY <1>2
    <3> QED
      BY <3>1, <3>2 DEF Told
  <2> QED
    BY <2>1, <2>2
<1>6. FoldersKept
  BY DEF Polled, FoldersKept
<1> QED
  BY <1>1, <1>3, <1>4, <1>5, <1>6

(* The changes of a batch, all together. *)
LEMMA HandedOver ==
  ASSUME TypeInv, BatchDone
  PROVE  /\ Polled /\ UNCHANGED <<token, batch, expected, fate>> /\ batch = <<>>
         /\ old' = <<>> /\ pathMap' = <<>> /\ out' = <<>> /\ doomed' = {} /\ InProgress' = InProgress
         /\ \A f : (Waiting(f) \cup Fresh(f))' = Waiting(f) \cup Fresh(f) /\ Fresh(f)' = {}
         /\ \A f : OneChange(f) /\ (\A c, d \in Fresh(f) : c = d) => OneChange(f)'
<1>1. /\ Polled /\ UNCHANGED <<token, batch, expected, fate>> /\ batch = <<>>
      /\ old' = <<>> /\ pathMap' = <<>> /\ out' = <<>> /\ doomed' = {}
  BY DEF BatchDone, cloudVars, NothingExpected, Polled
<1>2. PICK order \in SetToSeqs(doomed) : changes' = changes \o out \o order
  BY DEF BatchDone
<1>3. IsSeq(changes) /\ IsSeq(out) /\ IsFiniteSet(doomed)
  BY DEF TypeInv, ChangesTyped
<1>4. IsSeq(changes \o out) /\ Range(changes \o out) = Range(changes) \cup Range(out)
  BY <1>3, Joined
<1>5. IsSeq(order) /\ Range(order) = doomed /\ \A i, j \in DOMAIN order : order[i] = order[j] => i = j
  BY <1>3, Ordered
<1>6. Range(changes') = Range(changes) \cup Range(out) \cup doomed
  BY <1>2, <1>4, <1>5, Joined
<1>7. Range(out') = {}
  BY <1>1, NothingSeq
<1>8. InProgress' = InProgress
  BY <1>1, <1>6, <1>7 DEF InProgress
<1>9. \A f : (Waiting(f) \cup Fresh(f))' = Waiting(f) \cup Fresh(f) /\ Fresh(f)' = {}
  BY <1>1, <1>6, <1>7 DEF Waiting, Fresh
<1>10. ASSUME NEW f, OneChange(f), \A c, d \in Fresh(f) : c = d PROVE OneChange(f)'
  <2>1. Once(changes, f) /\ Once(out, f) /\ (Waiting(f) = {} \/ Fresh(f) = {})
        /\ \A i \in DOMAIN out : out[i].id = f => \A c \in doomed : c.id # f
    BY <1>10 DEF OneChange
  <2>2. Once(order, f)
    BY <1>5, <1>10 DEF Once, Fresh, Range
  <2>3. PICK s : s = changes \o out
    OBVIOUS
  <2>4. /\ IsSeq(s)
        /\ \A i \in DOMAIN s : \/ i \in DOMAIN changes /\ s[i] = changes[i]
                               \/ i > Len(changes) /\ i - Len(changes) \in DOMAIN out /\ s[i] = out[i - Len(changes)]
    BY <1>3, <2>3, Joined
  <2>5. /\ \A i \in DOMAIN changes : changes[i] \in Range(changes)
        /\ \A i \in DOMAIN out : out[i] \in Range(out)
        /\ \A i \in DOMAIN order : order[i] \in doomed
    BY <1>5 DEF Range
  <2>6. Once(s, f)
    <3> SUFFICES ASSUME NEW i \in DOMAIN s, NEW j \in DOMAIN s, s[i].id = f, s[j].id = f PROVE i = j
      BY DEF Once
    <3>1. CASE i \in DOMAIN changes /\ s[i] = changes[i]
      <4>1. changes[i] \in Waiting(f)
        BY <2>5, <3>1 DEF Waiting
      <4>2. \A k \in DOMAIN out : out[k].id # f
        BY <2>1, <2>5, <4>1 DEF Fresh
      <4>3. j \in DOMAIN changes /\ s[j] = changes[j]
        BY <2>4, <4>2
      <4> QED
        BY <2>1, <3>1, <4>3 DEF Once
    <3>2. CASE i > Len(changes) /\ i - Len(changes) \in DOMAIN out /\ s[i] = out[i - Len(changes)]
      <4>1. out[i - Len(changes)] \in Fresh(f)
        BY <2>5, <3>2 DEF Fresh
      <4>2. \A k \in DOMAIN changes : changes[k].id # f
        BY <2>1, <2>5, <4>1 DEF Waiting
      <4>3. j > Len(changes) /\ j - Len(changes) \in DOMAIN out /\ s[j] = out[j - Len(changes)]
        BY <2>4, <4>2
      <4>4. i - Len(changes) = j - Len(changes)
        BY <2>1, <3>2, <4>3 DEF Once
      <4>5. i \in Nat /\ j \in Nat /\ Len(changes) \in Nat
        BY <1>3, <2>4, SeqFacts
      <4> QED
        BY <4>4, <4>5
    <3> QED
      BY <2>4, <3>1, <3>2
  <2>7. changes' = s \o order
    BY <1>2, <2>3
  <2>8. \A i \in DOMAIN changes' : \/ i \in DOMAIN s /\ changes'[i] = s[i]
                                   \/ i > Len(s) /\ i - Len(s) \in DOMAIN order /\ changes'[i] = order[i - Len(s)]
    BY <1>5, <2>4, <2>7, Joined
  <2>9. \A i \in DOMAIN s, k \in DOMAIN order : ~(s[i].id = f /\ order[k].id = f)
    <3> SUFFICES ASSUME NEW i \in DOMAIN s, NEW k \in DOMAIN order, s[i].id = f, order[k].id = f PROVE FALSE
      OBVIOUS
    <3>1. order[k] \in Fresh(f)
      BY <2>5 DEF Fresh
    <3>2. \A m \in DOMAIN changes : changes[m].id # f
      BY <2>1, <2>5, <3>1 DEF Waiting
    <3>3. \A m \in DOMAIN out : out[m].id # f
      BY <2>1, <2>5
    <3> QED
      BY <2>4, <3>2, <3>3
  <2>10. Once(changes', f)
    <3> SUFFICES ASSUME NEW i \in DOMAIN changes', NEW j \in DOMAIN changes', changes'[i].id = f, changes'[j].id = f PROVE i = j
      BY DEF Once
    <3>1. CASE i \in DOMAIN s /\ changes'[i] = s[i]
      <4>1. j \in DOMAIN s /\ changes'[j] = s[j]
        BY <2>8, <2>9, <3>1
      <4> QED
        BY <2>6, <3>1, <4>1 DEF Once
    <3>2. CASE i > Len(s) /\ i - Len(s) \in DOMAIN order /\ changes'[i] = order[i - Len(s)]
      <4>1. j > Len(s) /\ j - Len(s) \in DOMAIN order /\ changes'[j] = order[j - Len(s)]
        BY <2>8, <2>9, <3>2
      <4>2. i - Len(s) = j - Len(s)
        BY <2>2, <3>2, <4>1 DEF Once
      <4>3. IsSeq(changes')
        BY <1>5, <2>4, <2>7, Joined
      <4>4. i \in Nat /\ j \in Nat /\ Len(s) \in Nat
        BY <2>4, <4>3, SeqFacts
      <4> QED
        BY <4>2, <4>4
    <3> QED
      BY <2>8, <3>1, <3>2
  <2>11. DOMAIN out' = {}
    BY <1>1, NothingSeq
  <2> QED
    BY <1>9, <2>10, <2>11 DEF OneChange, Once
<1> QED
  BY <1>1, <1>8, <1>9, <1>10

LEMMA BatchDoneKept ==
  ASSUME Inv, TypeInv', BatchDone PROVE Inv'
<1>1. /\ Polled /\ UNCHANGED <<token, batch, expected, fate>> /\ batch = <<>>
      /\ old' = <<>> /\ pathMap' = <<>> /\ out' = <<>> /\ doomed' = {} /\ InProgress' = InProgress
      /\ \A f : (Waiting(f) \cup Fresh(f))' = Waiting(f) \cup Fresh(f) /\ Fresh(f)' = {}
  BY HandedOver DEF Inv
<1>2. Range(batch) = {} /\ DOMAIN batch = {}
  BY <1>1, NothingSeq
<1>3. ASSUME NEW f \in File, Clean(f)' PROVE Story(f)'
  <2>1. Clean(f) /\ (Tied(f)' <=> Tied(f))
    BY <1>1, <1>3, SameFate
  <2>2. Story(f)
    BY <2>1 DEF Inv, Stories
  <2>3. SameOf(f)
    BY <1>1, <2>1 DEF SameOf, Polled, Rows, Writing
  <2>4. BatchKeptFor(f)
    BY <1>1, <1>2 DEF BatchKeptFor, Entries, Gone
  <2>5. RegKept(f)
    BY <1>1, <1>2, NothingSeq DEF RegKept, Entries
  <2>6. /\ LastSay(f) => LastSay(f)'
        /\ UserRec(f, 0) => UserRec(f, 0)'
        /\ UserRec(f, token) => UserRec(f, token)'
        /\ Told(f)' => Told(f)
        /\ FoldersKept
    BY <1>1, <2>3, PolledLog
  <2>7. Phase(f)'
    BY <2>2, <2>3, <2>4, <2>5, <2>6, PhaseKept DEF Story
  <2>8. Notices(f)'
    BY <2>2, <2>3, <2>4, <2>6, NoticesKept DEF Story, Notices
  <2>9. ASSUME NEW id \in File, NEW p, Touches(id, p)' PROVE Touches(id, p)
    <3>1. Entries(id)' = {} /\ (Waiting(id) \cup Fresh(id))' \subseteq Waiting(id) \cup Fresh(id)
      BY <1>1, <1>2 DEF Entries
    <3>2. \A e \in Entries(id)' : e.path = p => Touches(id, p)
      BY <3>1
    <3> QED
      BY <1>1, <2>9, <3>1, <3>2, PolledTouches
  <2>10. Alone(f)'
    BY <1>1, <2>2, <2>3, <2>9, PolledAlone DEF Story, Inv
  <2>11. OneChange(f)'
    <3>1. \A c, d \in Fresh(f) : c = d
      BY <2>2 DEF Story, Phase, Changing, Sending, Resting
    <3> QED
      BY <2>2, <3>1, HandedOver DEF Story, Inv
  <2>12. FolderFirst(f)'
    <3>1. Agreed(f)' <=> Agreed(f)
      BY <2>3, RightKept
    <3>2. Rows(f)' = Rows(f) /\ Writing(f)' = Writing(f) /\ (Waiting(f) \cup Fresh(f))' = Waiting(f) \cup Fresh(f)
      BY <2>3 DEF SameOf
    <3>3. FolderFirst(f)
      BY <2>2 DEF Story
    <3> QED
      BY <1>1, <1>2, <3>1, <3>2, <3>3 DEF FolderFirst, Polled
  <2> QED
    BY <2>7, <2>8, <2>10, <2>11, <2>12 DEF Story
<1>4. Births'
  BY <1>1, <1>2, PolledBirths DEF Inv, Births
<1>5. OnePath'
  BY <1>1, <1>2 DEF OnePath
<1>6. FolderStory'
  BY <1>1, SameWorld DEF Inv, FolderStory, Polled
<1>7. ThrownOver'
  BY <1>1 DEF Inv, ThrownOver, Polled, Clean
<1> QED
  BY <1>3, <1>4, <1>5, <1>6, <1>7 DEF Inv, Stories

(* An entry of the batch about a file's path, or the file. *)
LEMMA EntryAbout ==
  ASSUME TypeInv, NEW f \in File, Alone(f), NEW e \in Range(batch), e.id = f \/ Claims(f, e.path)
  PROVE  e \in Entries(f) \/ (e \in Gone(f) /\ kind = "dropbox")
<1>1. PICK i \in DOMAIN batch : e = batch[i]
  BY DEF Range
<1>2. EntryOK(e, HomeFolder, LiveFolder, kind)
  BY <1>1 DEF TypeInv, BatchTyped
<1>3. CASE e.id = f
  BY <1>3 DEF Entries
<1>4. CASE e.id # f /\ e.id = None
  BY <1>2, <1>4, Names DEF EntryOK, Gone
<1>5. CASE e.id # f /\ e.id \in File
  <2>1. Touches(e.id, e.path)
    BY DEF Touches, Entries
  <2> QED
    BY <1>5, <2>1 DEF Alone
<1>6. CASE e.id # f /\ e.id \in Folder
  <2>1. e.id \in Id /\ e.path = Seen(~e.gone, e.dir, e.id, HomeFolder) /\ e.dir \in {Home, Elsewhere}
    BY <1>2, <1>6, Names DEF EntryOK
  <2>2. e.path = NoPath \/ e.path = FolderPath(e.id)
    <3>1. Home \notin HomeFolder
      BY Names, HomesAreLive DEF Id
    <3>2. FolderPath(e.id) = Spot(Home, e.id)
      BY <1>6, FolderSpots
    <3> QED
      BY <2>1, <3>1, <3>2 DEF Seen
  <2> QED
    BY <1>6, <2>2, ClaimsIn
<1> QED
  BY <1>2, <1>3, <1>4, <1>5, <1>6 DEF EntryOK, Id

LEMMA TakeBatchKept ==
  ASSUME Inv, TypeInv', TakeBatch PROVE Inv'
<1>1. /\ Polled /\ UNCHANGED <<token, batch, pathMap, out, doomed, changes>>
      /\ ~working /\ old' = expected /\ DOMAIN expected' = {}
      /\ Suffers({w.id : w \in {w \in writes : w.stage # "queued" /\ ~InBatch(w)}}, "overtaken")
  BY NothingSeq DEF TakeBatch, cloudVars, workVars, NothingExpected, Polled
<1>2. fate \in [Id -> SUBSET Fates]
  BY DEF Inv, TypeInv, RestTyped
<1>3. \A f \in File : Clean(f)' =>
        /\ Clean(f) /\ (Tied(f)' <=> Tied(f))
        /\ \A w \in Writing(f) : w.stage # "queued" => InBatch(w)
  <2> SUFFICES ASSUME NEW f \in File, Clean(f)'
               PROVE  /\ Clean(f) /\ (Tied(f)' <=> Tied(f))
                      /\ \A w \in Writing(f) : w.stage # "queued" => InBatch(w)
    OBVIOUS
  <2>1. PICK ids : ids = {w.id : w \in {w \in writes : w.stage # "queued" /\ ~InBatch(w)}}
    OBVIOUS
  <2>2. Suffers(ids, "overtaken")
    BY <1>1, <2>1
  <2>3. f \notin ids /\ Clean(f) /\ (Tied(f)' <=> Tied(f))
    BY <1>2, <2>2, SufferedClean
  <2> QED
    BY <2>1, <2>3 DEF Writing
<1>4. ASSUME NEW f \in File, Clean(f)' PROVE Story(f)'
  <2>1. Clean(f) /\ (Tied(f)' <=> Tied(f)) /\ \A w \in Writing(f) : w.stage # "queued" => InBatch(w)
    BY <1>3, <1>4
  <2>2. Story(f)
    BY <2>1 DEF Inv, Stories
  <2>3. SameOf(f)
    BY <1>1, <2>1 DEF SameOf, Polled, Rows, Writing, Waiting, Fresh
  <2>4. BatchKeptFor(f)
    <3>1. \A e : Claims(f, e.path)' <=> Claims(f, e.path)
      <4> SUFFICES ASSUME NEW e, NEW p, p = e.path PROVE Claims(f, p)' <=> Claims(f, p)
        OBVIOUS
      <4> QED
        BY <2>3, ClaimsKept
    <3> QED
      BY <1>1, <3>1 DEF BatchKeptFor, Entries, Gone
  <2>5. /\ LastSay(f) => LastSay(f)'
        /\ UserRec(f, 0) => UserRec(f, 0)'
        /\ UserRec(f, token) => UserRec(f, token)'
        /\ Told(f)' => Told(f)
        /\ FoldersKept
    BY <1>1, <2>3, PolledLog
  <2>6. Notices(f)'
    BY <2>2, <2>3, <2>4, <2>5, NoticesKept DEF Story, Notices
  <2>7. ASSUME NEW id \in File, NEW p, Touches(id, p)' PROVE Touches(id, p)
    <3>1. Entries(id)' = Entries(id) /\ (Waiting(id) \cup Fresh(id))' = Waiting(id) \cup Fresh(id)
      BY <1>1 DEF Entries, Waiting, Fresh
    <3>2. \A e \in Entries(id)' : e.path = p => Touches(id, p)
      BY <3>1 DEF Touches
    <3> QED
      BY <1>1, <2>7, <3>1, <3>2, PolledTouches
  <2>8. Alone(f)'
    BY <1>1, <2>2, <2>3, <2>7, PolledAlone DEF Story, Inv
  <2>9. OneChange(f)'
    BY <1>1, <2>2 DEF OneChange, Once, Waiting, Fresh, Story
  <2>10. FolderFirst(f)'
    <3>1. Agreed(f)' <=> Agreed(f)
      BY <2>3, RightKept
    <3>2. Rows(f)' = Rows(f) /\ Writing(f)' = Writing(f) /\ (Waiting(f) \cup Fresh(f))' = Waiting(f) \cup Fresh(f)
      BY <2>3 DEF SameOf
    <3>3. FolderFirst(f)
      BY <2>2 DEF Story
    <3> QED
      BY <1>1, <3>1, <3>2, <3>3 DEF FolderFirst, Polled
  <2>11. CASE \E c : Changing(f, c)
    <3>1. PICK c : Changing(f, c)
      BY <2>11
    <3>2. Right(c, f)'
      BY <2>3, <3>1, RightKept DEF Changing
    <3>3. /\ (Waiting(f) \cup Fresh(f))' = {c} /\ Writing(f)' = {} /\ Entries(f)' = {} /\ Gone(f)' = {} /\ ~Told(f)'
          /\ Fresh(f)' \subseteq Fresh(f)
      BY <2>3, <2>4, <2>5, <3>1 DEF Changing, SameOf, BatchKeptFor
    <3>4. Changing(f, c)'
      BY <2>3, <3>1, <3>2, <3>3 DEF Changing, SameOf
    <3>5. Phase(f)'
      BY <3>4 DEF Phase
    <3> QED
      BY <2>6, <2>8, <2>9, <2>10, <3>5 DEF Story
  <2>12. CASE \E w : Sending(f, w)
    <3>1. PICK w : Sending(f, w)
      BY <2>12
    <3>2. Writing(f)' = {w} /\ Waiting(f)' = {} /\ Fresh(f)' = {} /\ w \in Writing(f) /\ w \in writes
      BY <2>3, <3>1 DEF Sending, SameOf, Writing
    <3>3. WriteRight(w, f)'
      BY <2>3, <2>5, <3>1, RightKept DEF Sending
    <3>4. Awaits(w, f)
      BY <3>1 DEF Sending
    <3>5. Entries(f)' = Entries(f) /\ Gone(f)' \subseteq Gone(f) /\ Loc(item[f], f)' = Loc(item[f], f)
      BY <2>3, <2>4 DEF BatchKeptFor, SameOf, Loc, Spot
    <3>6. w.op \in {"New", "Update"} /\ w.stage # "queued" => \E e \in Entries(f) : e.by = "program"
      <4> SUFFICES ASSUME w.op \in {"New", "Update"}, w.stage # "queued" PROVE \E e \in Entries(f) : e.by = "program"
        OBVIOUS
      <4>1. PICK i \in DOMAIN batch : batch[i].by = "program" /\ (batch[i].id = w.id \/ batch[i].path = w.path)
        BY <2>1, <3>2 DEF InBatch
      <4>2. PICK e : e = batch[i]
        OBVIOUS
      <4>3. w.id = f /\ Claims(f, w.path)
        BY <3>2 DEF Writing, Claims, Tracks
      <4>4. e \in Range(batch) /\ (e.id = f \/ Claims(f, e.path))
        BY <4>1, <4>2, <4>3 DEF Range
      <4>5. e \in Entries(f) \/ e \in Gone(f)
        BY <2>2, <4>4, EntryAbout DEF Story, Inv
      <4>6. e \notin Gone(f)
        BY <3>4 DEF Awaits
      <4> QED
        BY <4>1, <4>2, <4>5, <4>6
    <3>7. w.op \in {"New", "Update"} /\ w.stage # "queued" => Arrived(w) /\ ~Told(f)
      BY <2>2, <3>4, <3>6 DEF Story, Notices, Awaits
    <3>8. Awaits(w, f)'
      <4>1. /\ ~Arrived(w) => ~Told(f)' /\ Entries(f)' = {} /\ Gone(f)' = {}
            /\ Arrived(w) => \A e \in Gone(f)' : w.op \in {"Move", "Delete"} /\ e.path # Loc(item[f], f)'
        BY <2>5, <3>4, <3>5 DEF Awaits
      <4>2. w.op \in {"New", "Update"} =>
              /\ w.stage = "queued" => WriteKey(w) \notin DOMAIN expected' /\ WriteKey(w) \notin DOMAIN old'
              /\ w.stage # "sent" \/ Expects(expected', WriteKey(w), w.op)
              /\ Arrived(w) => ~Told(f)'
              /\ Arrived(w) /\ Entries(f)' # {} => Expects(old', WriteKey(w), w.op)
        BY <1>1, <2>5, <3>4, <3>5, <3>7 DEF Awaits, Arrived
      <4>3. working'
        BY DEF TakeBatch
      <4> QED
        BY <4>1, <4>2, <4>3 DEF Awaits, WriteKey, Arrived, Expects
    <3>9. Sending(f, w)'
      BY <3>2, <3>3, <3>8 DEF Sending
    <3>10. Phase(f)'
      BY <3>9 DEF Phase
    <3> QED
      BY <2>6, <2>8, <2>9, <2>10, <3>10 DEF Story
  <2>13. CASE Resting(f)
    <3>1. Waiting(f)' = {} /\ Fresh(f)' = {} /\ Writing(f)' = {}
      BY <2>3, <2>13 DEF Resting, SameOf
    <3>2. Sound(f)' /\ (Agreed(f)' \/ Behind(f))
      BY <2>3, <2>13, RightKept DEF Resting
    <3>3. ASSUME Behind(f) PROVE Behind(f)'
      <4>1. \A k : (k = f \/ Claims(f, k)') => k \notin DOMAIN expected' /\ k \notin DOMAIN old'
        BY <1>1, <2>3, <3>3, ClaimsKept DEF Behind, Silent
      <4>2. Silent(f)'
        BY <4>1 DEF Silent
      <4>3. ASSUME NEW e \in Entries(f) \cup Gone(f), News(f, e)
            PROVE  e \in (Entries(f) \cup Gone(f))' /\ News(f, e)'
        BY <2>3, <2>4, <4>3, NewsKept DEF BatchKeptFor
      <4> QED
        BY <2>5, <3>3, <4>2, <4>3 DEF Behind
    <3>4. Resting(f)'
      BY <3>1, <3>2, <3>3 DEF Resting
    <3>5. Phase(f)'
      BY <3>4 DEF Phase
    <3> QED
      BY <2>6, <2>8, <2>9, <2>10, <3>5 DEF Story
  <2> QED
    BY <2>2, <2>11, <2>12, <2>13 DEF Story, Phase
<1>5. InProgress' = InProgress
  BY <1>1 DEF InProgress
<1>6. Births'
  BY <1>1, <1>5, PolledBirths DEF Inv, Births
<1>7. OnePath'
  BY <1>1 DEF Inv, OnePath, Polled
<1>8. FolderStory'
  BY <1>1, <1>5, SameWorld DEF Inv, FolderStory, Polled
<1>9. ThrownOver'
  BY <1>1, <1>3 DEF Inv, ThrownOver, Polled, Clean
<1> QED
  BY <1>4, <1>6, <1>7, <1>8, <1>9 DEF Inv, Stories

(* What an entry has of the record that it is made from. *)
Read(e, rec) ==
  /\ EntryOK(e, HomeFolder, LiveFolder, kind)
  /\ e.by = IF \E n \in DOMAIN feed : n > token /\ feed[n].id = rec.id /\ feed[n].by = "user"
            THEN "user" ELSE "program"
  /\ e.id \in Id => Current(item[e.id], e) /\ e.path = Apparent(item[e.id], e.id)
  /\ kind = "google" => e.id = rec.key /\ rec.key = rec.id
  /\ kind = "dropbox" => e.path = rec.key /\ (IF At(rec.key) = {} THEN e.id = None ELSE e.id \in At(rec.key))

(* A page of the log. *)
PageSo(pos) ==
  /\ IsSeq(batch')
  /\ \A i \in DOMAIN batch' :
       i \in Nat /\ pos[i] \in DOMAIN feed /\ pos[i] \in Nat /\ token < pos[i] /\ Read(batch'[i], feed[pos[i]])
  /\ \A i, j \in DOMAIN batch' : i < j => pos[i] < pos[j]
  /\ \A i, j \in DOMAIN batch' : feed[pos[i]].key = feed[pos[j]].key => i = j
  /\ \A n \in DOMAIN feed : n > token =>
       \E i \in DOMAIN batch' : feed[pos[i]].key = feed[n].key /\ n <= pos[i]

LEMMA ReadIs ==
  ASSUME TypeInv, NEW rec, RecordOK(rec, HomeFolder, LiveFolder, kind), NEW e, e = EntryOf(rec)
  PROVE  Read(e, rec)
<1>1. CloudTyped
  BY DEF TypeInv
<1>2. /\ EntryOK(e, HomeFolder, LiveFolder, kind)
      /\ e.by = IF \E i \in DOMAIN Unread : Unread[i].id = rec.id /\ Unread[i].by = "user"
                THEN "user" ELSE "program"
      /\ e.id \in Id => Current(item[e.id], e)
      /\ kind = "google" => e.id = rec.key
      /\ kind = "dropbox" => e.path = rec.key /\ (IF At(rec.key) = {} THEN e.id = None ELSE e.id \in At(rec.key))
  BY <1>1, EntryIs DEF Current
<1>3. (\E i \in DOMAIN Unread : Unread[i].id = rec.id /\ Unread[i].by = "user")
        <=> \E n \in DOMAIN feed : n > token /\ feed[n].id = rec.id /\ feed[n].by = "user"
  <2>1. ASSUME NEW i \in DOMAIN Unread, Unread[i].id = rec.id, Unread[i].by = "user"
        PROVE  \E n \in DOMAIN feed : n > token /\ feed[n].id = rec.id /\ feed[n].by = "user"
    <3>1. token + i \in DOMAIN feed /\ Unread[i] = feed[token + i]
      BY <1>1, UnreadIs
    <3>2. i \in Nat /\ i > 0 /\ token \in Nat
      <4>1. i \in 1..Len(Unread) /\ Len(Unread) \in Nat
        BY <1>1, UnreadIs, SeqFacts
      <4> QED
        BY <1>1, <4>1 DEF CloudTyped
    <3>3. token + i > token
      BY <3>2
    <3> QED
      BY <2>1, <3>1, <3>3
  <2>2. ASSUME NEW n \in DOMAIN feed, n > token, feed[n].id = rec.id, feed[n].by = "user"
        PROVE  \E i \in DOMAIN Unread : Unread[i].id = rec.id /\ Unread[i].by = "user"
    BY <1>1, <2>2, UnreadIs
  <2> QED
    BY <2>1, <2>2
<1>4. kind = "google" => rec.key = rec.id
  BY DEF RecordOK
<1>5. e.id \in Id => e.path = Apparent(item[e.id], e.id)
  <2> SUFFICES ASSUME e.id \in Id PROVE e.path = Apparent(item[e.id], e.id)
    OBVIOUS
  <2>1. e.path = Seen(~e.gone, e.dir, e.id, HomeFolder) /\ e.gone = ~item[e.id].live /\ e.dir = item[e.id].dir
    BY <1>2, Names DEF EntryOK, Current
  <2>2. item[e.id] \in Item /\ ItemOK(item[e.id], e.id, LiveFolder, kind)
    BY <1>1 DEF CloudTyped
  <2>3. item[e.id].dir \in Dir /\ item[e.id].live \in BOOLEAN /\ (item[e.id].dir \in Folder => item[e.id].dir \in LiveFolder)
    BY <2>2 DEF Item, ItemOK
  <2>4. Apparent(item[e.id], e.id) = Seen(item[e.id].live, item[e.id].dir, e.id, HomeFolder)
    BY <1>1, <2>3, ApparentIs
  <2>5. ~e.gone = item[e.id].live
    BY <2>1, <2>3
  <2>6. CASE item[e.id].live
    BY <2>1, <2>4, <2>5, <2>6 DEF Seen
  <2>7. CASE ~item[e.id].live
    BY <2>1, <2>4, <2>5, <2>7 DEF Seen
  <2> QED
    BY <2>6, <2>7
<1> QED
  BY <1>2, <1>3, <1>4, <1>5 DEF Read

LEMMA PageOf ==
  ASSUME TypeInv, Fetch
  PROVE  \E pos : PageSo(pos)
<1>1. CloudTyped /\ token \in Nat
  BY DEF TypeInv, CloudTyped
<1>2. PICK pos :
           /\ IsSeq(batch')
           /\ \A i \in DOMAIN batch' : /\ pos[i] \in DOMAIN feed /\ token < pos[i]
                                       /\ batch'[i] = EntryOf(feed[pos[i]])
           /\ \A i, j \in DOMAIN batch' : i < j => pos[i] < pos[j]
           /\ \A i, j \in DOMAIN batch' : feed[pos[i]].key = feed[pos[j]].key => i = j
           /\ \A n \in DOMAIN feed : n > token =>
                \E i \in DOMAIN batch' : feed[pos[i]].key = feed[n].key /\ n <= pos[i]
  BY <1>1, FetchedIs
<1>3. ASSUME NEW i \in DOMAIN batch' PROVE i \in Nat /\ pos[i] \in Nat /\ Read(batch'[i], feed[pos[i]])
  <2>1. i \in Nat
    BY <1>2, SeqFacts
  <2>2. pos[i] \in Nat
    <3>1. pos[i] \in DOMAIN feed /\ IsSeq(feed)
      BY <1>1, <1>2 DEF CloudTyped
    <3> QED
      BY <3>1, SeqFacts
  <2>3. RecordOK(feed[pos[i]], HomeFolder, LiveFolder, kind)
    BY <1>1, <1>2 DEF CloudTyped
  <2> QED
    BY <1>2, <2>1, <2>2, <2>3, ReadIs
<1> QED
  BY <1>2, <1>3 DEF PageSo

(* What the page says last of the place of a file is about the file. *)
LEMMA LastHere ==
  ASSUME TypeInv, NEW pos, PageSo(pos), NEW f, LastSay(f), kind = "dropbox", Born(f), Claims(f, Here(f)),
         NEW i \in DOMAIN batch', feed[pos[i]].key = Here(f)
  PROVE  feed[pos[i]].id = f
<1> SUFFICES ASSUME feed[pos[i]].id # f PROVE FALSE
  OBVIOUS
<1>1. pos[i] \in DOMAIN feed /\ pos[i] \in Nat /\ token < pos[i] /\ token \in Nat
  BY DEF PageSo, TypeInv, CloudTyped
<1>2. PICK m \in DOMAIN feed : m > pos[i] /\ feed[m].key = Here(f)
  BY <1>1 DEF LastSay
<1>3. m \in Nat
  <2>1. IsSeq(feed)
    BY DEF TypeInv, CloudTyped
  <2> QED
    BY <2>1, SeqFacts
<1>4. m > token
  BY <1>1, <1>2, <1>3
<1>5. PICK j \in DOMAIN batch' : feed[pos[j]].key = feed[m].key /\ m <= pos[j]
  BY <1>4 DEF PageSo
<1>6. j = i
  BY <1>2, <1>5 DEF PageSo
<1> QED
  BY <1>1, <1>2, <1>3, <1>5, <1>6

(* What the page says of a file. *)
LEMMA PageAbout ==
  ASSUME Inv, NEW pos, PageSo(pos), NEW f \in File, Alone(f), LastSay(f)
  PROVE  /\ \A e \in Range(batch') : e.id = f =>
              Told(f) /\ Current(item[f], e) /\ (UserRec(f, token) => e.by = "user")
         /\ \A e \in Range(batch') : e.id = None /\ Claims(f, e.path) =>
              /\ Told(f) /\ kind = "dropbox" /\ e.path # Loc(item[f], f) /\ e.path # PathOf(f)
              /\ UserRec(f, token) /\ e.path = Here(f) => e.by = "user"
         /\ UserRec(f, token) /\ (kind = "google" \/ Claims(f, Here(f))) =>
              \E e \in Range(batch') : e.by = "user" /\ (e.id = f \/ (e.id = None /\ kind = "dropbox" /\ e.path = Here(f)))
<1>1. TypeInv /\ f \in Id /\ None \notin Id /\ kind \in {"google", "dropbox"} /\ token \in Nat
  BY Names DEF Inv, TypeInv, CloudTyped, Id
<1>2. UserRec(f, token) => Born(f)
  BY DEF Inv, Births, UserRec
<1>3. /\ Loc(item[f], f) = PathOf(f)
      /\ PathOf(f) # NoPath => PathOf(f) = Here(f) /\ Claims(f, PathOf(f))
  <2>1. item[f].dir \in Folder => item[f].dir \in HomeFolder
    BY DEF Alone
  <2> QED
    BY <1>1, <2>1, LocIs DEF Here, Claims
<1>4. ASSUME NEW e \in Range(batch'), NEW i \in DOMAIN batch', e = batch'[i]
      PROVE  /\ pos[i] \in DOMAIN feed /\ pos[i] > token /\ Read(e, feed[pos[i]])
             /\ UserRec(f, token) /\ feed[pos[i]].id = f => e.by = "user"
             /\ kind = "dropbox" /\ UserRec(f, token) /\ e.path = Here(f) /\ Claims(f, Here(f)) => e.by = "user"
  <2>1. pos[i] \in DOMAIN feed /\ pos[i] \in Nat /\ token < pos[i] /\ Read(e, feed[pos[i]])
    BY <1>4 DEF PageSo
  <2>2. UserRec(f, token) /\ feed[pos[i]].id = f => e.by = "user"
    BY <2>1 DEF UserRec, Read
  <2>3. kind = "dropbox" /\ UserRec(f, token) /\ e.path = Here(f) /\ Claims(f, Here(f)) => e.by = "user"
    <3> SUFFICES ASSUME kind = "dropbox", UserRec(f, token), e.path = Here(f), Claims(f, Here(f)) PROVE e.by = "user"
      OBVIOUS
    <3>1. feed[pos[i]].key = Here(f)
      BY <2>1 DEF Read
    <3>2. feed[pos[i]].id = f
      BY <1>1, <1>2, <3>1, LastHere
    <3> QED
      BY <2>2, <3>2
  <2>4. pos[i] > token
    BY <1>1, <2>1
  <2> QED
    BY <2>1, <2>2, <2>3, <2>4
<1>5. ASSUME NEW e \in Range(batch'), e.id = f
      PROVE  Told(f) /\ Current(item[f], e) /\ (UserRec(f, token) => e.by = "user")
  <2>1. PICK i \in DOMAIN batch' : e = batch'[i]
    BY DEF Range
  <2>2. /\ pos[i] \in DOMAIN feed /\ pos[i] > token /\ Read(e, feed[pos[i]])
        /\ UserRec(f, token) /\ feed[pos[i]].id = f => e.by = "user"
        /\ kind = "dropbox" /\ UserRec(f, token) /\ e.path = Here(f) /\ Claims(f, Here(f)) => e.by = "user"
    BY <1>4, <2>1
  <2>3. Current(item[f], e)
    BY <1>1, <1>5, <2>2 DEF Read
  <2>4. CASE kind = "google"
    <3>1. feed[pos[i]].id = f
      BY <1>5, <2>2, <2>4 DEF Read
    <3> QED
      BY <2>2, <2>3, <3>1 DEF Told
  <2>5. CASE kind = "dropbox"
    <3>1. feed[pos[i]].key = e.path /\ f \in At(e.path)
      BY <1>1, <1>5, <2>2, <2>5 DEF Read
    <3>2. e.path = PathOf(f) /\ e.path # NoPath
      BY <3>1 DEF At
    <3>3. e.path = Here(f) /\ Claims(f, e.path)
      BY <1>3, <3>2
    <3>4. Told(f)
      <4>1. Claims(f, feed[pos[i]].key)
        BY <3>1, <3>3
      <4> QED
        BY <2>2, <4>1 DEF Told
    <3>5. Claims(f, Here(f))
      BY <3>3
    <3> QED
      BY <2>2, <2>3, <2>5, <3>3, <3>4, <3>5
  <2> QED
    BY <1>1, <2>4, <2>5
<1>6. ASSUME NEW e \in Range(batch'), e.id = None, Claims(f, e.path)
      PROVE  /\ Told(f) /\ kind = "dropbox" /\ e.path # Loc(item[f], f) /\ e.path # PathOf(f)
             /\ UserRec(f, token) /\ e.path = Here(f) => e.by = "user"
  <2>1. PICK i \in DOMAIN batch' : e = batch'[i]
    BY DEF Range
  <2>2. /\ pos[i] \in DOMAIN feed /\ pos[i] > token /\ Read(e, feed[pos[i]])
        /\ kind = "dropbox" /\ UserRec(f, token) /\ e.path = Here(f) /\ Claims(f, Here(f)) => e.by = "user"
    BY <1>4, <2>1
  <2>3. kind = "dropbox"
    BY <1>1, <1>6, <2>2 DEF Read, EntryOK
  <2>4. feed[pos[i]].key = e.path /\ At(e.path) = {}
    BY <1>1, <1>6, <2>2, <2>3, Names DEF Read, At
  <2>5. e.path # NoPath
    BY <1>1, <1>6, ClaimsIn
  <2>6. e.path # PathOf(f)
    BY <1>1, <2>4, <2>5 DEF At
  <2>7. Told(f)
    <3>1. Claims(f, feed[pos[i]].key)
      BY <1>6, <2>4
    <3> QED
      BY <2>2, <3>1 DEF Told
  <2>8. e.path = Here(f) => Claims(f, Here(f))
    BY <1>6
  <2> QED
    BY <1>3, <2>2, <2>3, <2>6, <2>7, <2>8
<1>7. ASSUME UserRec(f, token), kind = "google" \/ Claims(f, Here(f))
      PROVE  \E e \in Range(batch') : e.by = "user" /\ (e.id = f \/ (e.id = None /\ kind = "dropbox" /\ e.path = Here(f)))
  <2>1. PICK n \in DOMAIN feed : n > token /\ feed[n].id = f /\ feed[n].by = "user" /\ (kind = "dropbox" => feed[n].key = Here(f))
    BY <1>7 DEF UserRec
  <2>2. PICK i \in DOMAIN batch' : feed[pos[i]].key = feed[n].key
    BY <2>1 DEF PageSo
  <2>3. PICK e \in Range(batch') : e = batch'[i]
    BY DEF Range
  <2>4. Read(e, feed[pos[i]])
    BY <1>4, <2>3
  <2>5. CASE kind = "google"
    <3>1. feed[n].key = f
      <4>1. RecordOK(feed[n], HomeFolder, LiveFolder, kind)
        BY <1>1 DEF TypeInv, CloudTyped
      <4> QED
        BY <2>1, <2>5, <4>1 DEF RecordOK
    <3>2. e.id = f
      BY <2>2, <2>4, <2>5, <3>1 DEF Read
    <3> QED
      BY <1>5, <1>7, <3>2
  <2>6. CASE kind = "dropbox"
    <3>1. feed[pos[i]].key = Here(f)
      BY <2>1, <2>2, <2>6
    <3>2. e.path = Here(f)
      BY <2>4, <2>6, <3>1 DEF Read
    <3>3. e.by = "user"
      BY <1>4, <1>7, <2>3, <2>6, <3>2
    <3>4. e.id = None \/ e.id \in At(Here(f))
      BY <2>4, <2>6, <3>1 DEF Read
    <3>5. At(Here(f)) \subseteq {f}
      <4>1. PICK p : p = Here(f)
        OBVIOUS
      <4>2. Claims(f, p)
        BY <1>7, <2>6, <4>1
      <4>3. At(p) \subseteq {f}
        BY <1>1, <4>2, OnlyHere
      <4> QED
        BY <4>1, <4>3
    <3> QED
      BY <2>6, <3>2, <3>3, <3>4, <3>5
  <2> QED
    BY <1>1, <2>5, <2>6
<1> QED
  BY <1>5, <1>6, <1>7

(* A file, when a page is read. *)
LEMMA FetchOwn ==
  ASSUME Inv, Polled, UNCHANGED <<working, old, pathMap, out, doomed, expected, changes, fate>>,
         ~working, batch = <<>>, token' = Len(feed), NEW pos, PageSo(pos), NEW f \in File, Story(f)
  PROVE  Story(f)'
<1>1. TypeInv /\ f \in Id /\ None \notin Id /\ kind \in {"google", "dropbox"} /\ IsSeq(feed)
  BY Names DEF Inv, TypeInv, CloudTyped, Id
<1>2. SameOf(f)
  BY DEF SameOf, Polled, Rows, Writing, Waiting, Fresh, Tied
<1>3. /\ LastSay(f) => LastSay(f)'
      /\ UserRec(f, 0) => UserRec(f, 0)'
      /\ FoldersKept /\ Here(f)' = Here(f) /\ Loc(item[f], f)' = Loc(item[f], f)
  BY <1>2, PolledLog
<1>4. Alone(f) /\ LastSay(f) /\ Notices(f)
  BY DEF Story, Notices
<1>5. /\ \A e \in Range(batch') : e.id = f =>
           Told(f) /\ Current(item[f], e) /\ (UserRec(f, token) => e.by = "user")
      /\ \A e \in Range(batch') : e.id = None /\ Claims(f, e.path) =>
           /\ Told(f) /\ kind = "dropbox" /\ e.path # Loc(item[f], f) /\ e.path # PathOf(f)
           /\ UserRec(f, token) /\ e.path = Here(f) => e.by = "user"
      /\ UserRec(f, token) /\ (kind = "google" \/ Claims(f, Here(f))) =>
           \E e \in Range(batch') : e.by = "user" /\ (e.id = f \/ (e.id = None /\ kind = "dropbox" /\ e.path = Here(f)))
  BY <1>4, PageAbout
<1>6. Entries(f) = {} /\ Gone(f) = {}
  BY NothingSeq DEF Entries, Gone
<1>7. Entries(f)' = {e \in Range(batch') : e.id = f} /\ Gone(f)' = {e \in Range(batch') : e.id = None /\ Claims(f, e.path)}
  <2>1. \A e : Claims(f, e.path)' <=> Claims(f, e.path)
    <3> SUFFICES ASSUME NEW e, NEW p, p = e.path PROVE Claims(f, p)' <=> Claims(f, p)
      OBVIOUS
    <3> QED
      BY <1>2, ClaimsKept
  <2> QED
    BY <2>1 DEF Entries, Gone
<1>8. ~Told(f)'
  <2>1. \A n \in DOMAIN feed : ~(n > Len(feed))
    BY <1>1, SeqFacts
  <2> QED
    BY <2>1 DEF Told, Polled
<1>9. ~Told(f) => Entries(f)' = {} /\ Gone(f)' = {}
  BY <1>5, <1>7
<1>10. Rows(f)' = Rows(f) /\ Writing(f)' = Writing(f) /\ Waiting(f)' = Waiting(f) /\ Fresh(f)' = Fresh(f)
       /\ item'[f] = item[f] /\ kind' = kind
  BY DEF Polled, Rows, Writing, Waiting, Fresh
<1>11. Agreed(f)' <=> Agreed(f)
  BY <1>2, RightKept

(* Of a file that the program is not at work on, and that is not as it should be. *)
<1>12. ASSUME Resting(f), ~Agreed(f)
       PROVE  /\ UserRec(f, token) /\ Silent(f) /\ Sound(f)
              /\ kind = "dropbox" => Claims(f, Here(f))
              /\ kind = "dropbox" /\ ~item[f].live => \E r \in Rows(f) : r.path = Here(f)
              /\ \A r \in Rows(f) : kind = "dropbox" => r.path = Here(f)
  <2>1. UserRec(f, token) /\ Silent(f) /\ Sound(f)
    BY <1>6, <1>12 DEF Resting, Behind
  <2>2. \A r \in Rows(f) : kind = "dropbox" => r.path = Here(f)
    BY <2>1 DEF Sound, SoundRow, Here
  <2>3. kind = "dropbox" /\ ~item[f].live => \E r \in Rows(f) : r.path = Here(f)
    BY <1>12, <2>2 DEF Agreed, Loc
  <2>4. kind = "dropbox" => Claims(f, Here(f))
    <3> SUFFICES ASSUME kind = "dropbox", NEW p, p = Here(f) PROVE Claims(f, p)
      OBVIOUS
    <3>1. CASE ~item[f].live
      BY <2>3, <3>1 DEF Claims, Tracks
    <3>2. CASE item[f].live
      <4>1. item[f].dir # Elsewhere
        BY <1>1 DEF TypeInv, CloudTyped, ItemOK
      <4>2. Loc(item[f], f) # NoPath
        BY <1>1, <1>4, <3>2, <4>1, LocIs DEF Alone
      <4>3. Loc(item[f], f) = p
        BY <3>2, <4>1 DEF Loc, Here
      <4> QED
        BY <4>2, <4>3 DEF Claims
    <3> QED
      BY <3>1, <3>2
  <2> QED
    BY <2>1, <2>2, <2>3, <2>4
<1>13. Phase(f)'
  <2>1. CASE \E c : Changing(f, c)
    <3>1. PICK c : Changing(f, c)
      BY <2>1
    <3>2. Right(c, f)'
      BY <1>2, <3>1, RightKept DEF Changing
    <3>3. Changing(f, c)'
      BY <1>8, <1>9, <1>10, <3>1, <3>2 DEF Changing
    <3> QED
      BY <3>3 DEF Phase
  <2>2. CASE \E w : Sending(f, w)
    <3>1. PICK w : Sending(f, w)
      BY <2>2
    <3>2. Writing(f)' = {w} /\ Waiting(f)' = {} /\ Fresh(f)' = {} /\ w \in Writing(f)
      BY <1>10, <3>1 DEF Sending
    <3>3. WriteRight(w, f)'
      BY <1>2, <1>3, <3>1, RightKept DEF Sending
    <3>4. Awaits(w, f) /\ WriteRight(w, f)
      BY <3>1 DEF Sending
    <3>5. ~Arrived(w) => Entries(f)' = {} /\ Gone(f)' = {}
      BY <1>9, <3>4 DEF Awaits
    <3>6. ASSUME Arrived(w), NEW e \in Gone(f)' PROVE w.op \in {"Move", "Delete"} /\ e.path # Loc(item[f], f)
      <4>1. e.path # Loc(item[f], f) /\ kind = "dropbox" /\ Claims(f, e.path)
        BY <1>5, <1>7, <3>6
      <4>2. w.op # "Update"
        <5>1. w.op = "Update" => \E r \in Rows(f) : WriteRow(w, r, item[f], f, Tied(f))
          BY <3>4 DEF WriteRight
        <5> QED
          BY <3>6, <4>1, <5>1 DEF WriteRow
      <4>3. w.op # "New"
        <5> SUFFICES ASSUME w.op = "New" PROVE FALSE
          OBVIOUS
        <5>1. Rows(f) = {} /\ Loc(item[f], f) = w.path
          BY <3>4, <3>6 DEF WriteRight, WriteRow
        <5>2. w.to = w.path
          <6>1. w \in writes
            BY <3>2 DEF Writing
          <6> QED
            BY <1>1, <6>1 DEF TypeInv, WritesTyped, WriteOK
        <5>3. Waiting(f) \cup Fresh(f) \cup Writing(f) = {w}
          BY <3>1 DEF Sending
        <5>4. e.path = w.path
          BY <4>1, <5>1, <5>2, <5>3 DEF Claims, Tracks
        <5> QED
          BY <4>1, <5>1, <5>4
      <4>4. w.op \in {"New", "Delete", "Update", "Move"}
        BY <3>4 DEF WriteRight, WriteRow
      <4> QED
        BY <4>1, <4>2, <4>3, <4>4
    <3>7. Awaits(w, f)'
      <4>1. /\ ~Arrived(w) => ~Told(f)' /\ Entries(f)' = {} /\ Gone(f)' = {}
            /\ Arrived(w) => \A e \in Gone(f)' : w.op \in {"Move", "Delete"} /\ e.path # Loc(item[f], f)'
        BY <1>3, <1>8, <3>5, <3>6
      <4>2. w.op \in {"New", "Update"} =>
              /\ w.stage = "queued" => WriteKey(w) \notin DOMAIN expected' /\ WriteKey(w) \notin DOMAIN old'
              /\ w.stage = "sent" => Expects(expected', WriteKey(w), w.op)
              /\ Arrived(w) /\ Entries(f)' # {} => Expects(expected', WriteKey(w), w.op)
        BY <1>9, <3>4 DEF Awaits
      <4>3. ~working'
        OBVIOUS
      <4> QED
        BY <1>8, <4>1, <4>2, <4>3 DEF Awaits, WriteKey, Arrived, Expects
    <3>8. Sending(f, w)'
      BY <3>2, <3>3, <3>7 DEF Sending
    <3> QED
      BY <3>8 DEF Phase
  <2>3. CASE Resting(f)
    <3>1. Waiting(f)' = {} /\ Fresh(f)' = {} /\ Writing(f)' = {}
      BY <1>10, <2>3 DEF Resting
    <3>2. Sound(f)'
      BY <1>2, <2>3, RightKept DEF Resting
    <3>3. ASSUME ~Agreed(f) PROVE Behind(f)'
      <4>1. /\ UserRec(f, token) /\ Silent(f)
            /\ kind = "dropbox" => Claims(f, Here(f))
            /\ kind = "dropbox" /\ ~item[f].live => \E r \in Rows(f) : r.path = Here(f)
        BY <1>12, <2>3, <3>3
      <4>2. \A k : (k = f \/ Claims(f, k)') => k \notin DOMAIN expected' /\ k \notin DOMAIN old'
        BY <1>2, <4>1, ClaimsKept DEF Silent
      <4>3. Silent(f)'
        BY <4>2 DEF Silent
      <4>4. PICK e \in Range(batch') : e.by = "user" /\ (e.id = f \/ (e.id = None /\ kind = "dropbox" /\ e.path = Here(f)))
        BY <1>1, <1>5, <4>1
      <4>5. CASE e.id = f
        <5>1. e \in Entries(f)' /\ News(f, e)'
          BY <1>1, <1>7, <4>4, <4>5 DEF News
        <5> QED
          BY <4>3, <5>1 DEF Behind
      <4>6. CASE e.id # f
        <5>1. e.id = None /\ kind = "dropbox" /\ e.path = Here(f)
          BY <4>4, <4>6
        <5>2. Claims(f, e.path)
          BY <4>1, <5>1
        <5>3. e \in Gone(f)' /\ e.path # Loc(item[f], f)
          BY <1>5, <1>7, <5>1, <5>2
        <5>4. ~item[f].live
          <6>1. item[f].dir # Elsewhere
            BY <1>1, <5>1 DEF TypeInv, CloudTyped, ItemOK
          <6> QED
            BY <5>1, <5>3, <6>1 DEF Loc, Here
        <5>5. \E r \in Rows(f)' : r.path = e.path
          BY <1>10, <4>1, <5>1, <5>4
        <5>6. News(f, e)'
          BY <4>4, <5>5 DEF News
        <5> QED
          BY <4>3, <5>3, <5>6 DEF Behind
      <4> QED
        BY <4>5, <4>6
    <3>4. Resting(f)'
      BY <1>11, <3>1, <3>2, <3>3 DEF Resting
    <3> QED
      BY <3>4 DEF Phase
  <2> QED
    BY <2>1, <2>2, <2>3 DEF Story, Phase
<1>14. Notices(f)'
  <2>1. ASSUME NEW e \in Entries(f)'
        PROVE  Current(item[f], e)' /\ ~Told(f)' /\ (e.by = "program" => (Agreed(f)' \/ Writing(f)' # {}))
    <3>1. Told(f) /\ Current(item[f], e) /\ (UserRec(f, token) => e.by = "user")
      BY <1>5, <1>7, <2>1
    <3>2. Current(item[f], e)'
      BY <1>10, <3>1 DEF Current
    <3>3. e.by = "program" => (Agreed(f) \/ Writing(f) # {})
      <4> SUFFICES ASSUME e.by = "program", ~Agreed(f), Writing(f) = {} PROVE FALSE
        OBVIOUS
      <4>1. Resting(f)
        BY <3>1 DEF Story, Phase, Changing, Sending
      <4> QED
        BY <1>12, <3>1, <4>1
    <3> QED
      BY <1>8, <1>10, <1>11, <3>2, <3>3
  <2>2. ASSUME NEW e \in Gone(f)', NEW r \in Rows(f), r.path = e.path
        PROVE  ~item[f].live /\ Writing(f) = {} /\ e.by = "user"
    <3>1. /\ Told(f) /\ kind = "dropbox" /\ e.path # Loc(item[f], f)
          /\ UserRec(f, token) /\ e.path = Here(f) => e.by = "user"
      BY <1>5, <1>7, <2>2
    <3>2. CASE \E w : Sending(f, w)
      <4>1. PICK w : Sending(f, w)
        BY <3>2
      <4>2. Arrived(w)
        BY <3>1, <4>1 DEF Sending, Awaits
      <4>3. WriteRow(w, r, item[f], f, Tied(f))
        BY <2>2, <4>1 DEF Sending, WriteRight
      <4>4. w.to = w.path \/ w.op = "Move"
        <5>1. w \in writes
          BY <4>1 DEF Sending, Writing
        <5> QED
          BY <1>1, <5>1 DEF TypeInv, WritesTyped, WriteOK
      <4> QED
        BY <2>2, <3>1, <4>2, <4>3, <4>4 DEF WriteRow
    <3>3. CASE Resting(f)
      <4>1. ~Agreed(f)
        BY <2>2, <3>1 DEF Agreed, AgreedRow
      <4>2. UserRec(f, token) /\ r.path = Here(f)
        BY <1>12, <3>1, <3>3, <4>1
      <4>3. item[f].dir # Elsewhere
        BY <1>1, <3>1 DEF TypeInv, CloudTyped, ItemOK
      <4>4. ~item[f].live
        BY <2>2, <3>1, <4>2, <4>3 DEF Loc, Here
      <4> QED
        BY <2>2, <3>1, <3>3, <4>2, <4>4 DEF Resting
    <3> QED
      BY <3>1, <3>2, <3>3 DEF Story, Phase, Changing
  <2>3. Agreed(f)' \/ Writing(f)' # {} \/ UserRec(f, 0)'
    BY <1>3, <1>4, <1>10, <1>11 DEF Notices
  <2> QED
    BY <1>3, <1>4, <1>8, <1>10, <2>1, <2>2, <2>3 DEF Notices
<1>15. OneChange(f)'
  BY <1>10 DEF OneChange, Once, Story
<1>16. FolderFirst(f)'
  <2> SUFFICES ASSUME NEW d, d = item[f].dir, kind = "google", d \in Folder, LinkedTo(db, Cloud, d) = {},
                      Waiting(f) \cup Fresh(f) = {}, ~Agreed(f)
               PROVE  \E i \in DOMAIN batch' : batch'[i].id = f /\ \E j \in DOMAIN batch' : j < i /\ batch'[j].id = d
    <3>1. kind = "google" /\ item[f].dir \in Folder /\ LinkedTo(db, Cloud, item[f].dir) = {} =>
            /\ Rows(f) = {} /\ Writing(f) = {}
            /\ \A m, n \in DOMAIN feed : feed[m].id = item[f].dir /\ feed[n].id = f => m < n
      BY DEF Story, FolderFirst
    <3> QED
      BY <1>10, <1>11, <3>1 DEF FolderFirst, Polled
  <2>1. /\ Writing(f) = {}
        /\ \A m, n \in DOMAIN feed : feed[m].id = d /\ feed[n].id = f => m < n
        /\ \E n \in DOMAIN feed : n > token /\ feed[n].id = d
    BY NothingSeq DEF Story, FolderFirst
  <2>2. Resting(f)
    BY <2>1 DEF Story, Phase, Changing, Sending
  <2>3. UserRec(f, token)
    BY <1>12, <2>2
  <2>4. PICK n \in DOMAIN feed : n > token /\ feed[n].id = f
    BY <2>3 DEF UserRec
  <2>5. PICK m \in DOMAIN feed : m > token /\ feed[m].id = d
    BY <2>1
  <2>6. \A k \in DOMAIN feed : feed[k].key = feed[k].id
    BY <1>1 DEF TypeInv, CloudTyped, RecordOK
  <2>7. PICK i \in DOMAIN batch' : feed[pos[i]].key = f
    BY <2>4, <2>6 DEF PageSo
  <2>8. PICK j \in DOMAIN batch' : feed[pos[j]].key = d
    BY <2>5, <2>6 DEF PageSo
  <2>9. /\ pos[i] \in DOMAIN feed /\ pos[j] \in DOMAIN feed /\ i \in Nat /\ j \in Nat /\ pos[i] \in Nat /\ pos[j] \in Nat
        /\ Read(batch'[i], feed[pos[i]]) /\ Read(batch'[j], feed[pos[j]])
    BY DEF PageSo
  <2>10. batch'[i].id = f /\ batch'[j].id = d
    BY <2>7, <2>8, <2>9 DEF Read
  <2>11. pos[j] < pos[i]
    BY <2>1, <2>6, <2>7, <2>8, <2>9
  <2>12. ~(i < j) /\ i # j
    <3>1. i < j => pos[i] < pos[j]
      BY DEF PageSo
    <3> QED
      BY <2>9, <2>11, <3>1
  <2>13. j < i
    BY <2>9, <2>12
  <2> QED
    BY <2>10, <2>13
<1>17. Alone(f)'
  <2>1. ASSUME NEW id \in File, NEW p, Touches(id, p)' PROVE Touches(id, p)
    <3>1. (Waiting(id) \cup Fresh(id))' \subseteq Waiting(id) \cup Fresh(id)
      BY DEF Waiting, Fresh
    <3>2. ASSUME NEW e \in Entries(id)', e.path = p PROVE Touches(id, p)
      <4>1. PICK i \in DOMAIN batch' : e = batch'[i] /\ e.id = id
        BY <3>2 DEF Entries, Range
      <4>2. Read(e, feed[pos[i]])
        BY <4>1 DEF PageSo
      <4>3. e.path = Apparent(item[id], id)
        BY <4>1, <4>2 DEF Read, Id
      <4> QED
        BY <3>2, <4>3 DEF Touches
    <3> QED
      BY <2>1, <3>1, <3>2, PolledTouches
  <2> QED
    BY <1>1, <1>2, <1>4, <2>1, PolledAlone
<1> QED
  BY <1>13, <1>14, <1>15, <1>16, <1>17 DEF Story

LEMMA FetchKept ==
  ASSUME Inv, TypeInv', Fetch PROVE Inv'
<1>1. /\ Polled /\ UNCHANGED <<working, old, pathMap, out, doomed, expected, changes, fate>>
      /\ ~working /\ batch = <<>> /\ token' = Len(feed)
  BY DEF Fetch, cloudVars, workVars, Polled
<1>2. PICK pos : PageSo(pos)
  BY PageOf DEF Inv
<1>3. ASSUME NEW f \in File, Clean(f)' PROVE Story(f)'
  <2>1. Clean(f)
    BY <1>1, <1>3, SameFate
  <2>2. Story(f)
    BY <2>1 DEF Inv, Stories
  <2> QED
    BY <1>1, <1>2, <2>2, FetchOwn
<1>4. TypeInv /\ kind \in {"google", "dropbox"} /\ CloudTyped /\ HomeFolder' = HomeFolder
  BY <1>1, SameWorld DEF Inv, TypeInv, CloudTyped, Polled
<1>5. \A i \in DOMAIN batch' : pos[i] \in DOMAIN feed /\ Read(batch'[i], feed[pos[i]])
  BY <1>2 DEF PageSo
<1>6. \A i \in DOMAIN batch' : batch'[i].id = None \/ Born(batch'[i].id)
  <2> SUFFICES ASSUME NEW i \in DOMAIN batch', batch'[i].id # None PROVE Born(batch'[i].id)
    OBVIOUS
  <2>1. CASE kind = "google"
    <3>1. batch'[i].id = feed[pos[i]].id
      BY <1>5, <2>1 DEF Read
    <3> QED
      BY <1>5, <3>1 DEF Inv, Births
  <2>2. CASE kind = "dropbox"
    <3>1. batch'[i].id \in At(feed[pos[i]].key)
      BY <1>5, <2>2 DEF Read
    <3>2. batch'[i].id \in Id /\ item[batch'[i].id].live
      BY <1>4, <3>1, AtIs
    <3> QED
      BY <1>4, <3>2 DEF CloudTyped, ItemOK, Born
  <2> QED
    BY <1>4, <2>1, <2>2
<1>7. Births'
  <2>1. InProgress' = InProgress
    BY <1>1 DEF InProgress
  <2> QED
    BY <1>1, <1>6, <2>1, PolledBirths DEF Inv, Births
<1>8. OnePath'
  <2> SUFFICES ASSUME kind = "dropbox", NEW i \in DOMAIN batch', NEW j \in DOMAIN batch', batch'[i].path = batch'[j].path
               PROVE  i = j
    BY <1>1 DEF OnePath, Polled
  <2>1. feed[pos[i]].key = feed[pos[j]].key
    BY <1>5 DEF Read
  <2> QED
    BY <1>2, <2>1 DEF PageSo
<1>9. FolderStory'
  <2>1. ASSUME NEW d \in HomeFolder, LinkedTo(db, Cloud, d) = {}, NEW n \in DOMAIN feed, feed[n].id = d, n > token
        PROVE  \E i \in DOMAIN batch' : batch'[i].id = d
    <3>1. PICK i \in DOMAIN batch' : feed[pos[i]].key = feed[n].key
      BY <1>2, <2>1 DEF PageSo
    <3>2. RecordOK(feed[n], HomeFolder, LiveFolder, kind) /\ d \in Folder /\ d \in Id
      BY <1>4, HomesAreLive DEF CloudTyped, Id
    <3>3. CASE kind = "google"
      BY <1>5, <2>1, <3>1, <3>2, <3>3 DEF RecordOK, Read
    <3>4. CASE kind = "dropbox"
      <4>1. feed[n].key = FolderPath(d)
        BY <2>1, <3>2, <3>4, FolderSpots DEF RecordOK
      <4>2. PathOf(d) = FolderPath(d) /\ FolderPath(d) # NoPath
        <5>1. item[d].live /\ item[d].dir = Home
          BY DEF HomeFolder, LiveFolder
        <5> QED
          BY <1>4, <3>2, <5>1, PathIs, FolderSpots
      <4>3. d \in At(FolderPath(d))
        BY <3>2, <4>2 DEF At
      <4>4. batch'[i].id \in At(FolderPath(d))
        BY <1>5, <3>1, <3>4, <4>1, <4>3 DEF Read
      <4>5. batch'[i].id \in Id /\ FolderPath(d) \in Spots(batch'[i].id, HomeFolder)
        BY <1>4, <4>4, AtIs
      <4>6. batch'[i].id = d
        BY <3>2, <4>5, FolderSpots, HomesAreLive
      <4> QED
        BY <4>6
    <3> QED
      BY <1>4, <3>3, <3>4
  <2>2. DOMAIN batch = {}
    BY <1>1, NothingSeq
  <2> QED
    BY <1>1, <1>4, <2>1, <2>2 DEF Inv, FolderStory, InProgress, Polled
<1>10. ThrownOver'
  BY <1>1 DEF Inv, ThrownOver, Polled, Clean
<1> QED
  BY <1>3, <1>7, <1>8, <1>9, <1>10 DEF Inv, Stories

(* What looking at an entry does, all together. *)
Looked(gid, e, v, emitted) ==
  /\ e = Head(batch) /\ v = Verdict(e, gid) /\ gid \in Lookup(e)
  /\ EntryOK(e, HomeFolder, LiveFolder, kind) /\ batch' = Tail(batch) /\ batch # <<>>
  /\ emitted = IF v.to = NoPath \/ Awaited(e, gid, v) # {} THEN {} ELSE Emitted(e, gid, v)
  /\ \/ old' = old
     \/ v.to # NoPath /\ \E type \in Awaited(e, gid, v) : old' = Checked(old, EventKey(type, Subject(e, gid), v.to), type)
  /\ pathMap' = IF kind = "google" /\ gid = 0 /\ ~e.gone /\ e.id \in Folder THEN Put(pathMap, e.id, v.to) ELSE pathMap
  /\ \E deletes :
       /\ deletes = {c \in emitted : kind = "dropbox" /\ c.type = "Delete"}
       /\ out' = out \o SetToSeq(emitted \ deletes)
       /\ doomed' = (doomed \ Saved(emitted)) \cup {c \in deletes : \A other \in doomed : other.path # c.path}
  /\ Polled /\ UNCHANGED <<token, working, expected, changes, fate>> /\ working

LEMMA LookedAt ==
  ASSUME TypeInv, NEW gid, Entry(gid)
  PROVE  \E e, v, emitted : Looked(gid, e, v, emitted)
<1>1. PICK e, v, emitted :
           /\ e = Head(batch) /\ v = Verdict(e, gid) /\ gid \in Lookup(e)
           /\ EntryOK(e, HomeFolder, LiveFolder, kind) /\ batch' = Tail(batch) /\ batch # <<>>
           /\ emitted = IF v.to = NoPath \/ Awaited(e, gid, v) # {} THEN {} ELSE Emitted(e, gid, v)
           /\ IF v.to = NoPath \/ Awaited(e, gid, v) = {} THEN old' = old
              ELSE \E type \in Awaited(e, gid, v) :
                     /\ old' = Checked(old, EventKey(type, Subject(e, gid), v.to), type)
                     /\ "Move" \in Awaited(e, gid, v) => type = "Move"
           /\ pathMap' = IF kind = "google" /\ gid = 0 /\ ~e.gone /\ e.id \in Folder
                         THEN Put(pathMap, e.id, v.to) ELSE pathMap
           /\ \E deletes :
                /\ deletes = {c \in emitted : kind = "dropbox" /\ c.type = "Delete"}
                /\ out' = out \o SetToSeq(emitted \ deletes)
                /\ doomed' = (doomed \ Saved(emitted))
                              \cup {c \in deletes : \A other \in doomed : other.path # c.path}
           /\ UNCHANGED <<kind, item, feed, token, working, expected, changes, writes, stuck, db,
                          status, fate>>
           /\ Up /\ working
  BY EntryActs
<1>2. \/ old' = old
      \/ v.to # NoPath /\ \E type \in Awaited(e, gid, v) : old' = Checked(old, EventKey(type, Subject(e, gid), v.to), type)
  BY <1>1
<1>3. Polled /\ UNCHANGED <<token, working, expected, changes, fate>> /\ working
  BY <1>1 DEF Polled
<1>4. Looked(gid, e, v, emitted)
  BY <1>1, <1>2, <1>3 DEF Looked
<1> QED
  BY <1>4

(* What it hands over. *)
LEMMA LookedOut ==
  ASSUME TypeInv, NEW gid, NEW e, NEW v, NEW emitted, Looked(gid, e, v, emitted)
  PROVE  /\ \A c, d \in emitted : c = d
         /\ \A c \in emitted : c \in Emitted(e, gid, v) /\ v.to # NoPath /\ Awaited(e, gid, v) = {}
         /\ IsSeq(out') /\ Range(out') \cup doomed' \subseteq Range(out) \cup doomed \cup emitted
         /\ \A c \in Range(out) : c \in Range(out')
         /\ \A c \in doomed : c \in doomed' \/ \E m \in emitted : m.type = "Move" /\ m.to = c.path
         /\ \A c \in emitted : \/ c \in Range(out') \cup doomed'
                               \/ kind = "dropbox" /\ c.type = "Delete" /\ \E other \in doomed : other.path = c.path
         /\ \A f : (\A c \in emitted : c.id # f) /\ OneChange(f) =>
              Once(out', f) /\ \A i \in DOMAIN out' : out'[i].id = f => \A c \in doomed' : c.id # f
         /\ \A f : Fresh(f) = {} =>
              Once(out', f) /\ \A i \in DOMAIN out' : out'[i].id = f => \A c \in doomed' : c.id # f
<1>1. PICK deletes :
        /\ deletes = {c \in emitted : kind = "dropbox" /\ c.type = "Delete"}
        /\ out' = out \o SetToSeq(emitted \ deletes)
        /\ doomed' = (doomed \ Saved(emitted)) \cup {c \in deletes : \A other \in doomed : other.path # c.path}
  BY DEF Looked
<1>2. emitted = {} \/ emitted = Emitted(e, gid, v)
  BY DEF Looked
<1>3. IsFiniteSet(emitted) /\ \A c, d \in emitted : c = d
  BY <1>2, EmittedAre, FS_EmptySet
<1>4. \A c \in emitted : c \in Emitted(e, gid, v) /\ v.to # NoPath /\ Awaited(e, gid, v) = {}
  BY DEF Looked
<1>5. IsFiniteSet(emitted \ deletes)
  BY <1>3, FS_Subset
<1>6. PICK s : s = SetToSeq(emitted \ deletes)
  OBVIOUS
<1>7. /\ IsSeq(s) /\ Range(s) = emitted \ deletes
      /\ \A i, j \in DOMAIN s : s[i] = s[j] => i = j
  BY <1>5, <1>6, AnOrder
<1>8. IsSeq(out)
  BY DEF TypeInv, ChangesTyped
<1>9. /\ IsSeq(out') /\ Range(out') = Range(out) \cup (emitted \ deletes)
      /\ \A i \in DOMAIN out' :
              \/ i \in DOMAIN out /\ out'[i] = out[i]
              \/ i > Len(out) /\ i - Len(out) \in DOMAIN s /\ out'[i] = s[i - Len(out)]
  <2>1. out' = out \o s
    BY <1>1, <1>6
  <2>2. PICK t : t = out \o s
    OBVIOUS
  <2>3. /\ IsSeq(t) /\ Range(t) = Range(out) \cup Range(s)
        /\ \A i \in DOMAIN t :
              \/ i \in DOMAIN out /\ t[i] = out[i]
              \/ i > Len(out) /\ i - Len(out) \in DOMAIN s /\ t[i] = s[i - Len(out)]
    BY <1>7, <1>8, <2>2, Joined
  <2>4. out' = t
    BY <2>1, <2>2
  <2> QED
    BY <1>7, <2>3, <2>4
<1>10. doomed' \subseteq doomed \cup emitted /\ (doomed' \ doomed) \subseteq deletes
  BY <1>1
<1>11. \A c \in doomed : c \in doomed' \/ \E m \in emitted : m.type = "Move" /\ m.to = c.path
  BY <1>1 DEF Saved
<1>12. \A c \in emitted : \/ c \in Range(out') \cup doomed'
                          \/ kind = "dropbox" /\ c.type = "Delete" /\ \E other \in doomed : other.path = c.path
  BY <1>1, <1>9
<1>13. ASSUME NEW f, \A c \in emitted : c.id # f, OneChange(f)
       PROVE  Once(out', f) /\ \A i \in DOMAIN out' : out'[i].id = f => \A c \in doomed' : c.id # f
  <2>1. \A i \in DOMAIN out' : out'[i].id = f => i \in DOMAIN out /\ out'[i] = out[i]
    BY <1>7, <1>9, <1>13 DEF Range
  <2>2. \A c \in doomed' : c.id = f => c \in doomed
    BY <1>10, <1>13
  <2>3. Once(out', f)
    <3>1. Once(out, f)
      BY <1>13 DEF OneChange
    <3> QED
      BY <2>1, <3>1 DEF Once
  <2>4. \A i \in DOMAIN out : out[i].id = f => \A c \in doomed : c.id # f
    BY <1>13 DEF OneChange
  <2> QED
    BY <2>1, <2>2, <2>3, <2>4
<1>14. ASSUME NEW f, Fresh(f) = {}
       PROVE  Once(out', f) /\ \A i \in DOMAIN out' : out'[i].id = f => \A c \in doomed' : c.id # f
  <2>1. \A i \in DOMAIN out' : out'[i].id = f =>
          i > Len(out) /\ i - Len(out) \in DOMAIN s /\ out'[i] = s[i - Len(out)] /\ out'[i] \in emitted \ deletes
    BY <1>7, <1>9, <1>14 DEF Range, Fresh
  <2>2. Len(out) \in Nat /\ DOMAIN s \subseteq Nat /\ DOMAIN out' \subseteq Nat
    BY <1>7, <1>8, <1>9, SeqFacts
  <2>3. \A i, j \in DOMAIN out' : out'[i].id = f /\ out'[j].id = f => i = j
    <3> SUFFICES ASSUME NEW i \in DOMAIN out', NEW j \in DOMAIN out', out'[i].id = f, out'[j].id = f
                 PROVE  i = j
      OBVIOUS
    <3>1. out'[i] = out'[j]
      BY <1>3, <2>1
    <3>2. i - Len(out) = j - Len(out)
      BY <1>7, <2>1, <3>1
    <3> QED
      BY <2>2, <3>2
  <2>4. \A c \in doomed' : c.id = f => c \in deletes
    BY <1>10, <1>14 DEF Fresh
  <2>5. deletes \subseteq emitted
    BY <1>1
  <2>6. ASSUME NEW i \in DOMAIN out', out'[i].id = f, NEW c \in doomed' PROVE c.id # f
    <3>1. out'[i] \in emitted /\ out'[i] \notin deletes
      BY <2>1, <2>6
    <3>2. c.id = f => c \in deletes /\ c \in emitted
      BY <2>4, <2>5, <2>6
    <3> QED
      BY <1>3, <3>1, <3>2
  <2>7. Once(out', f)
    BY <2>3 DEF Once
  <2> QED
    BY <2>6, <2>7
<1> QED
  BY <1>3, <1>4, <1>9, <1>10, <1>11, <1>12, <1>13, <1>14

(* Where the program takes a file to be of which it reads. *)
LEMMA VerdictPlace ==
  ASSUME TypeInv, NEW e, EntryOK(e, HomeFolder, LiveFolder, kind), e.id \in File, NEW gid \in Lookup(e),
         NEW v, v = Verdict(e, gid)
  PROVE  /\ e.path = Seen(~e.gone, e.dir, e.id, HomeFolder)
         /\ gid = 0 => v.gone = e.gone /\ v.to \in {NoPath, e.path}
         /\ gid = 0 /\ ~e.gone /\ e.dir # Elsewhere
            /\ (kind = "google" /\ e.dir \in Folder => Known(e.dir) # {} \/ e.dir \in DOMAIN pathMap) => v.to = e.path
         /\ gid # 0 /\ e.path = NoPath /\ Link(gid).parent # Elsewhere =>
              kind = "google" /\ v.gone /\ v.to = RowPath(gid)
         /\ gid # 0 /\ e.path # NoPath /\ (kind = "google" /\ e.dir \in Folder => Known(e.dir) # {}) =>
              ~v.gone /\ v.to = IF kind = "google" /\ Link(gid).parent = e.dir THEN RowPath(gid) ELSE e.path
         /\ gid # 0 => v.to \in {e.path, RowPath(gid)}
<1>0. /\ DbTyped /\ kind \in {"google", "dropbox"} /\ PathMapOK(pathMap, HomeFolder, LiveFolder)
      /\ HomeFolder \subseteq Folder /\ LiveFolder \subseteq Folder /\ HomeFolder \in SUBSET Folder
      /\ Home # Elsewhere /\ Home \notin Folder /\ Elsewhere \notin Folder
      /\ e.id \in Id /\ e.id # None
  BY HomesAreLive, Names DEF TypeInv, CloudTyped, ExpectedTyped, Id
<1>1. /\ e.path = Seen(~e.gone, e.dir, e.id, HomeFolder) /\ e.dir \in Dir /\ e.gone \in BOOLEAN
      /\ kind = "dropbox" => e.dir # Elsewhere /\ ~e.gone
  BY <1>0 DEF EntryOK
<1>2. \A dir \in {Home} \cup Folder : Spot(dir, e.id) # NoPath
  BY <1>0, SpotKinds
<1>3. DirPaths(e.dir) # {} /\ ~e.gone => /\ Append(CHOOSE p \in DirPaths(e.dir) : TRUE, NameOf[e.id]) = e.path
                                         /\ e.path # NoPath /\ e.dir # Elsewhere
  <2> SUFFICES ASSUME DirPaths(e.dir) # {}, ~e.gone
               PROVE  /\ Append(CHOOSE p \in DirPaths(e.dir) : TRUE, NameOf[e.id]) = e.path
                      /\ e.path # NoPath /\ e.dir # Elsewhere
    OBVIOUS
  <2>1. e.dir \in {Home} \cup HomeFolder /\ Append(CHOOSE p \in DirPaths(e.dir) : TRUE, NameOf[e.id]) = Spot(e.dir, e.id)
    BY <1>0, <1>1, DirPathsIs
  <2>2. e.path = Spot(e.dir, e.id) /\ e.dir # Elsewhere
    BY <1>0, <1>1, <2>1 DEF Seen
  <2> QED
    BY <1>0, <1>2, <2>1, <2>2
<1>4. (e.dir = Home \/ Known(e.dir) # {}) => DirPaths(e.dir) # {}
  <2>1. e.dir = Home => DirPaths(e.dir) # {}
    BY <1>0, <1>1, DirPathsIs
  <2>2. Known(e.dir) # {} => DirPaths(e.dir) # {}
    BY DEF DirPaths
  <2> QED
    BY <2>1, <2>2
<1>5. e.path = NoPath => e.gone \/ e.dir = Elsewhere
  BY <1>0, <1>1, <1>2 DEF Seen, Dir
<1>6. e.dir = Elsewhere => DirPaths(e.dir) = {}
  BY <1>0, <1>1, DirPathsIs
<1>7. CASE kind = "dropbox"
  <2>1. v = [from |-> IF gid = 0 THEN NoPath ELSE RowPath(gid), gone |-> e.gone, to |-> e.path]
    BY <1>7 DEF Verdict, DropboxVerdict
  <2>2. e.path # NoPath
    BY <1>1, <1>5, <1>7
  <2> QED
    BY <1>1, <1>7, <2>1, <2>2
<1>8. CASE kind = "google" /\ gid = 0
  <2> DEFINE parents == IF DirPaths(e.dir) # {} THEN DirPaths(e.dir)
                        ELSE IF e.dir \in DOMAIN pathMap THEN {pathMap[e.dir]} ELSE {}
  <2>1. /\ v.gone = e.gone
        /\ v.to = IF e.gone \/ parents = {} THEN NoPath ELSE Append(CHOOSE p \in parents : TRUE, NameOf[e.id])
    BY <1>8 DEF Verdict, GoogleVerdict
  <2>2. CASE DirPaths(e.dir) # {}
    BY <1>1, <1>3, <1>8, <2>1, <2>2
  <2>3. CASE DirPaths(e.dir) = {} /\ e.dir \in DOMAIN pathMap /\ ~e.gone
    <3>1. e.dir \in Folder /\ pathMap[e.dir] = IF e.dir \in HomeFolder THEN FolderPath(e.dir) ELSE NoPath
      BY <1>0, <2>3 DEF PathMapOK
    <3>2. v.to = Append(pathMap[e.dir], NameOf[e.id])
      BY <2>1, <2>3
    <3>3. e.dir # Home /\ e.dir # Elsewhere
      BY <1>0, <3>1
    <3>4. v.to = Spot(IF e.dir \in HomeFolder THEN e.dir ELSE Home, e.id)
      <4>1. Append(<<NameOf[e.dir]>>, NameOf[e.id]) = <<NameOf[e.dir], NameOf[e.id]>>
        BY Appended
      <4>2. Append(NoPath, NameOf[e.id]) = <<NameOf[e.id]>>
        BY DEF NoPath
      <4> QED
        BY <3>1, <3>2, <3>3, <4>1, <4>2 DEF FolderPath, Spot
    <3>5. v.to = e.path
      BY <1>1, <2>3, <3>3, <3>4 DEF Seen
    <3> QED
      BY <1>8, <1>1, <2>1, <3>5
  <2>4. CASE DirPaths(e.dir) = {} /\ (e.gone \/ e.dir \notin DOMAIN pathMap)
    <3>1. v.to = NoPath
      BY <2>1, <2>4
    <3>2. ~e.gone /\ e.dir # Elsewhere => e.dir \in Folder /\ Known(e.dir) = {} /\ e.dir \notin DOMAIN pathMap
      BY <1>1, <1>4, <2>4 DEF Dir
    <3> QED
      BY <1>1, <1>8, <2>1, <3>1, <3>2
  <2> QED
    BY <1>1, <2>2, <2>3, <2>4
<1>9. CASE kind = "google" /\ gid # 0
  <2> DEFINE moved == ~e.gone /\ Link(gid).parent # e.dir
             gone == e.gone \/ (moved /\ DirPaths(e.dir) = {})
             to == IF moved /\ ~gone
                   THEN Append(CHOOSE p \in DirPaths(e.dir) : TRUE, NameOf[e.id]) ELSE RowPath(gid)
  <2>1. v = [from |-> RowPath(gid), gone |-> gone, to |-> to]
    BY <1>9 DEF Verdict, GoogleVerdict
  <2> HIDE DEF gone, to
  <2>2. v.gone = gone /\ v.to = to
    BY <2>1
  <2>3. v.to = IF moved /\ ~gone THEN e.path ELSE RowPath(gid)
    BY <1>3, <2>2 DEF gone, to
  <2>4. e.path = NoPath /\ Link(gid).parent # Elsewhere => gone
    BY <1>5, <1>6 DEF gone
  <2>5. e.path # NoPath /\ (e.dir \in Folder => Known(e.dir) # {}) => ~gone
    <3>1. e.path # NoPath => ~e.gone /\ e.dir # Elsewhere
      BY <1>1 DEF Seen
    <3> QED
      BY <1>1, <1>4, <3>1 DEF gone, Dir
  <2>6. e.path # NoPath => ~e.gone
    BY <1>1 DEF Seen
  <2>7. e.path # NoPath /\ (e.dir \in Folder => Known(e.dir) # {}) =>
              ~v.gone /\ v.to = IF Link(gid).parent = e.dir THEN RowPath(gid) ELSE e.path
    BY <2>2, <2>3, <2>5, <2>6
  <2>8. e.path = NoPath /\ Link(gid).parent # Elsewhere => v.gone /\ v.to = RowPath(gid)
    BY <2>2, <2>3, <2>4
  <2>9. v.to \in {e.path, RowPath(gid)}
    BY <2>3
  <2> QED
    BY <1>1, <1>9, <2>7, <2>8, <2>9
<1> QED
  BY <1>0, <1>7, <1>8, <1>9

(* A file is taken to be where it touches already. *)
LEMMA VerdictTouches ==
  ASSUME TypeInv, NEW gid, NEW e, NEW v, NEW emitted, Looked(gid, e, v, emitted), Subject(e, gid) \in File
  PROVE  /\ v.to # NoPath /\ (gid # 0 \/ ~v.gone) => Touches(Subject(e, gid), v.to)
         /\ gid # 0 => Touches(Subject(e, gid), v.from) /\ \E r \in Rows(Subject(e, gid)) : r.gid = gid /\ r.path = v.from
<1>1. e \in Range(batch) /\ EntryOK(e, HomeFolder, LiveFolder, kind) /\ gid \in Lookup(e) /\ v = Verdict(e, gid)
  BY Beheaded DEF Looked, TypeInv, BatchTyped
<1>2. DbTyped /\ Tables(db)
  BY DEF TypeInv, DbTyped, DbOK
<1>3. gid # 0 => \E r \in Rows(Subject(e, gid)) : r.gid = gid /\ r.path = RowPath(gid)
  <2> SUFFICES ASSUME gid # 0 PROVE \E r \in Rows(Subject(e, gid)) : r.gid = gid /\ r.path = RowPath(gid)
    OBVIOUS
  <2>1. Linked(gid) /\ gid \in Known(Link(gid).id) /\ Link(gid).id = Subject(e, gid)
    BY <1>1, LookupIs DEF Subject
  <2>2. LinkedIn(db, gid) /\ LinkIn(db, gid).id = Subject(e, gid) /\ gid \in DOMAIN db.files /\ RowPath(gid) = PathOfRow(db, gid)
    BY <1>2, <2>1, DbNames, Key
  <2>3. PICK s : s = Subject(e, gid)
    OBVIOUS
  <2>4. [gid |-> gid, path |-> PathOfRow(db, gid), link |-> LinkIn(db, gid)] \in RowsIn(db, s)
    BY <1>2, <2>2, <2>3, RowsAre
  <2> QED
    BY <2>2, <2>3, <2>4 DEF Rows
<1>4. gid # 0 => v.from = RowPath(gid)
  BY <1>1, VerdictIs
<1>5. gid # 0 => Touches(Subject(e, gid), RowPath(gid))
  BY <1>3 DEF Touches, Tracks
<1>6. ASSUME v.to # NoPath, gid # 0 \/ ~v.gone PROVE Touches(Subject(e, gid), v.to)
  <2>1. CASE e.id # None
    <3>1. Subject(e, gid) = e.id /\ Touches(e.id, e.path)
      BY <1>1, <2>1 DEF Subject, Touches, Entries
    <3>2. v.to \in {e.path, RowPath(gid)} /\ (gid = 0 => v.to = e.path)
      BY <1>1, <1>6, <3>1, VerdictPlace
    <3> QED
      BY <1>5, <3>1, <3>2
  <2>2. CASE e.id = None
    <3>1. kind = "dropbox" /\ e.gone
      BY <1>1, <2>2, Names DEF EntryOK
    <3>2. v.to = e.path /\ v.gone
      BY <1>1, <3>1 DEF Verdict, DropboxVerdict
    <3>3. gid # 0
      BY <1>6, <3>2
    <3>4. /\ HasRow(db, e.path) /\ Linked(GlobalId(db, e.path)) /\ gid \in Known(Link(GlobalId(db, e.path)).id)
      BY <1>1, <2>2, <3>3, LookupIs
    <3>5. PICK g : g = GlobalId(db, e.path)
      OBVIOUS
    <3>6. g \in DOMAIN db.files /\ PathOfRow(db, g) = e.path /\ LinkedIn(db, g)
      BY <1>2, <3>4, <3>5, FirstRow, DbNames
    <3>7. LinkIn(db, g).id = Link(gid).id
      BY <1>2, <3>4, <3>5, KnownIs, DbNames
    <3>8. Subject(e, gid) = Link(gid).id
      BY <2>2, <3>3 DEF Subject
    <3>9. \E r \in Rows(Subject(e, gid)) : r.path = e.path
      <4>1. PICK s : s = Subject(e, gid)
        OBVIOUS
      <4>2. [gid |-> g, path |-> PathOfRow(db, g), link |-> LinkIn(db, g)] \in RowsIn(db, s)
        BY <1>2, <3>6, <3>7, <3>8, <4>1, RowsAre
      <4> QED
        BY <3>6, <4>1, <4>2 DEF Rows
    <3> QED
      BY <3>2, <3>9 DEF Touches, Tracks
  <2> QED
    BY <2>1, <2>2
<1> QED
  BY <1>3, <1>4, <1>5, <1>6

(* Whom a change that it hands over is about. *)
LEMMA LookedFor ==
  ASSUME TypeInv, NEW gid, NEW e, NEW v, NEW emitted, Looked(gid, e, v, emitted), NEW c \in emitted
  PROVE  /\ c.id = Subject(e, gid) /\ c.gid = gid /\ c.to = v.to /\ v.to # NoPath /\ (gid # 0 \/ ~v.gone)
         /\ c.path = (IF c.type = "Move" THEN v.from ELSE v.to) /\ (c.type = "Move" => gid # 0)
         /\ ChangeOK(c, db, HomeFolder)
<1>1. EntryOK(e, HomeFolder, LiveFolder, kind) /\ gid \in Lookup(e) /\ v = Verdict(e, gid)
  BY DEF Looked
<1>2. c \in Emitted(e, gid, v) /\ v.to # NoPath
  BY LookedOut
<1>3. /\ c.type \in Needs(e, gid, v) /\ c.gid = gid /\ c.to = v.to
      /\ c.id = (IF e.id # None THEN e.id ELSE Link(gid).id)
      /\ c.path = (IF c.type = "Move" THEN v.from ELSE v.to)
  BY <1>2, EmittedAre
<1>4. ChangeOK(c, db, HomeFolder)
  BY <1>1, <1>2, EmittedTyped
<1>5. /\ gid = 0 => c.type = "New" /\ ~v.gone
      /\ c.type = "Move" => gid # 0
  BY <1>3, NeedsAre
<1>6. e.id = None => gid # 0
  <2> SUFFICES ASSUME e.id = None, gid = 0 PROVE FALSE
    OBVIOUS
  <2>1. kind = "dropbox" /\ e.gone
    BY <1>1, Names DEF EntryOK
  <2>2. v.gone
    BY <1>1, <2>1 DEF Verdict, DropboxVerdict
  <2> QED
    BY <1>5, <2>2
<1> QED
  BY <1>2, <1>3, <1>4, <1>5, <1>6 DEF Subject

(* Nothing comes to be at a new place. *)
LEMMA LookedTouches ==
  ASSUME TypeInv, NEW gid, NEW e, NEW v, NEW emitted, Looked(gid, e, v, emitted), NEW id \in File
  PROVE  /\ \A p : Tracks(id, p)' => Touches(id, p)
         /\ \A p : Touches(id, p)' => Touches(id, p)
<1>1. /\ Polled /\ changes' = changes /\ batch' = Tail(batch) /\ batch # <<>>
      /\ Range(out') \cup doomed' \subseteq Range(out) \cup doomed \cup emitted
  <2>1. Range(out') \cup doomed' \subseteq Range(out) \cup doomed \cup emitted
    BY LookedOut
  <2> QED
    BY <2>1 DEF Looked
<1>2. ASSUME NEW p, Tracks(id, p)' PROVE Touches(id, p)
  <2>1. CASE \E r \in Rows(id)' : r.path = p
    BY <1>1, <2>1 DEF Polled, Rows, Touches, Tracks
  <2>2. CASE \E x \in Waiting(id)' \cup Writing(id)' : p \in {x.path, x.to}
    BY <1>1, <2>2 DEF Polled, Waiting, Writing, Touches, Tracks
  <2>3. CASE \E x \in Fresh(id)' : p \in {x.path, x.to}
    <3>1. PICK x \in Fresh(id)' : p \in {x.path, x.to}
      BY <2>3
    <3>2. x.id = id /\ (x \in Range(out) \cup doomed \/ x \in emitted)
      BY <1>1, <3>1 DEF Fresh
    <3>3. CASE x \in Range(out) \cup doomed
      BY <3>1, <3>2, <3>3 DEF Fresh, Touches, Tracks
    <3>4. CASE x \in emitted
      <4>1. /\ Subject(e, gid) = id /\ x.to = v.to /\ v.to # NoPath /\ (gid # 0 \/ ~v.gone)
            /\ x.path = (IF x.type = "Move" THEN v.from ELSE v.to) /\ (x.type = "Move" => gid # 0)
        BY <3>2, <3>4, LookedFor
      <4>2. /\ Touches(Subject(e, gid), v.to)
            /\ gid # 0 => Touches(Subject(e, gid), v.from)
        BY <4>1, VerdictTouches
      <4> QED
        BY <3>1, <4>1, <4>2
    <3> QED
      BY <3>2, <3>3, <3>4
  <2> QED
    BY <1>2, <2>1, <2>2, <2>3 DEF Tracks
<1>3. ASSUME NEW p, Touches(id, p)' PROVE Touches(id, p)
  <2>1. CASE Tracks(id, p)'
    BY <1>2, <2>1
  <2>2. CASE p = Apparent(item[id], id)'
    <3>1. Apparent(item[id], id)' = Apparent(item[id], id)
      BY <1>1 DEF Polled, Apparent, PathIn
    <3> QED
      BY <2>2, <3>1 DEF Touches
  <2>3. CASE \E x \in Entries(id)' : x.path = p
    <3>1. \A x \in Entries(id)' : x \in Entries(id)
      BY <1>1, Beheaded DEF Entries, TypeInv, BatchTyped
    <3> QED
      BY <2>3, <3>1 DEF Touches
  <2> QED
    BY <1>3, <2>1, <2>2, <2>3 DEF Touches
<1> QED
  BY <1>2, <1>3

(* A file of which nothing is handed over. *)
LEMMA LookedSame ==
  ASSUME TypeInv, NEW gid, NEW e, NEW v, NEW emitted, Looked(gid, e, v, emitted), NEW f \in File, Alone(f), OneChange(f),
         \A c \in emitted : c.id # f
  PROVE  SameOf(f) /\ OneChange(f)' /\ Alone(f)'
<1>1. /\ Polled /\ UNCHANGED <<token, changes, fate>>
      /\ Range(out') \cup doomed' \subseteq Range(out) \cup doomed \cup emitted
      /\ \A c \in Range(out) : c \in Range(out')
      /\ \A c \in doomed : c \in doomed' \/ \E m \in emitted : m.type = "Move" /\ m.to = c.path
  <2>1. /\ Range(out') \cup doomed' \subseteq Range(out) \cup doomed \cup emitted
        /\ \A c \in Range(out) : c \in Range(out')
        /\ \A c \in doomed : c \in doomed' \/ \E m \in emitted : m.type = "Move" /\ m.to = c.path
    BY LookedOut
  <2>2. Polled /\ UNCHANGED <<token, changes, fate>>
    BY DEF Looked
  <2> QED
    BY <2>1, <2>2
<1>2. ASSUME NEW c \in doomed, c.id = f PROVE c \in doomed'
  <2> SUFFICES ASSUME NEW m \in emitted, m.type = "Move", m.to = c.path PROVE FALSE
    BY <1>1
  <2>1. /\ m.id = Subject(e, gid) /\ m.to = v.to /\ v.to # NoPath /\ gid # 0
        /\ ChangeOK(m, db, HomeFolder)
    BY LookedFor
  <2>2. m.id \in File /\ m.id # f
    BY <2>1 DEF ChangeOK
  <2>3. Touches(m.id, m.to)
    <3>1. Touches(Subject(e, gid), v.to)
      BY <2>1, <2>2, VerdictTouches
    <3> QED
      BY <2>1, <3>1
  <2>4. Claims(f, m.to)
    BY <1>2 DEF Claims, Tracks, Fresh
  <2> QED
    BY <2>2, <2>3, <2>4 DEF Alone
<1>3. Fresh(f)' = Fresh(f) /\ Waiting(f)' = Waiting(f)
  <2>1. \A c : c \in Fresh(f)' => c \in Fresh(f)
    BY <1>1 DEF Fresh
  <2>2. \A c : c \in Fresh(f) => c \in Fresh(f)'
    BY <1>1, <1>2 DEF Fresh
  <2> QED
    BY <1>1, <2>1, <2>2 DEF Waiting
<1>4. SameOf(f)
  BY <1>1, <1>3 DEF SameOf, Polled, Rows, Writing, Tied
<1>5. OneChange(f)'
  <2>1. Once(out', f) /\ \A i \in DOMAIN out' : out'[i].id = f => \A c \in doomed' : c.id # f
    BY LookedOut
  <2>2. Once(changes', f) /\ (Waiting(f)' = {} \/ Fresh(f)' = {})
    BY <1>1, <1>3 DEF OneChange
  <2> QED
    BY <2>1, <2>2 DEF OneChange, Once
<1>6. \A id \in File : \A p : id # f /\ Claims(f, p) /\ Touches(id, p)' => Touches(id, p)
  BY LookedTouches
<1>7. Alone(f)'
  BY <1>1, <1>4, <1>6, PolledAlone
<1> QED
  BY <1>4, <1>5, <1>7

(* What is left of the batch. *)
LEMMA LookedLeft ==
  ASSUME TypeInv, NEW gid, NEW e, NEW v, NEW emitted, Looked(gid, e, v, emitted)
  PROVE  /\ e \in Range(batch) /\ Range(batch) = Range(batch') \cup {e} /\ 1 \in DOMAIN batch /\ batch[1] = e
         /\ \A i \in DOMAIN batch' : i \in Nat /\ i + 1 \in DOMAIN batch /\ batch'[i] = batch[i + 1]
         /\ \A i \in DOMAIN batch : i \in Nat /\ (i = 1 \/ (i - 1 \in DOMAIN batch' /\ batch'[i - 1] = batch[i]))
         /\ \A i \in DOMAIN batch : batch[i].id = e.id /\ (e.id = None => batch[i].path = e.path) => i = 1
<1>1. IsSeq(batch) /\ OneEach /\ batch # <<>> /\ batch' = Tail(batch) /\ e = Head(batch)
  BY DEF TypeInv, BatchTyped, Looked
<1>2. /\ IsSeq(Tail(batch)) /\ 1 \in DOMAIN batch /\ Head(batch) = batch[1]
      /\ Range(batch) = Range(Tail(batch)) \cup {Head(batch)}
      /\ \A i \in DOMAIN Tail(batch) : i + 1 \in DOMAIN batch /\ Tail(batch)[i] = batch[i + 1]
      /\ \A i \in DOMAIN batch : i = 1 \/ (i - 1 \in DOMAIN Tail(batch) /\ Tail(batch)[i - 1] = batch[i])
  BY <1>1, Beheaded
<1>3. DOMAIN batch \subseteq Nat /\ DOMAIN Tail(batch) \subseteq Nat
  BY <1>1, <1>2, SeqFacts
<1>4. \A i \in DOMAIN batch : batch[i].id = batch[1].id /\ (batch[1].id = None => batch[i].path = batch[1].path) => i = 1
  BY <1>1, <1>2 DEF OneEach
<1> QED
  BY <1>1, <1>2, <1>3, <1>4

LEMMA LookedFirst ==
  ASSUME TypeInv, NEW gid, NEW e, NEW v, NEW emitted, Looked(gid, e, v, emitted), NEW f \in File, FolderFirst(f),
         Waiting(f) \cup Fresh(f) # {} => (Waiting(f) \cup Fresh(f))' # {},
         e.id # f \/ Agreed(f)' \/ (Waiting(f) \cup Fresh(f))' # {}
  PROVE  FolderFirst(f)'
<1> DEFINE d == item[f].dir
<1>1. /\ Polled /\ UNCHANGED <<token, fate>> /\ gid \in Lookup(e) /\ EntryOK(e, HomeFolder, LiveFolder, kind)
      /\ pathMap' = IF kind = "google" /\ gid = 0 /\ ~e.gone /\ e.id \in Folder THEN Put(pathMap, e.id, v.to) ELSE pathMap
  BY DEF Looked
<1>2. Rows(f)' = Rows(f) /\ Writing(f)' = Writing(f) /\ (Agreed(f) => Agreed(f)')
  <2>1. Rows(f)' = Rows(f) /\ Writing(f)' = Writing(f) /\ (Tied(f)' <=> Tied(f)) /\ item' = item
    BY <1>1 DEF Polled, Rows, Writing, Tied
  <2>2. Loc(item[f], f)' = Loc(item[f], f)
    BY <2>1 DEF Loc, Spot
  <2> QED
    BY <2>1, <2>2 DEF Agreed, AgreedRow, UpToDate
<1>3. ASSUME kind = "google", d \in Folder, LinkedTo(db, Cloud, d) = {}
      PROVE  /\ Rows(f)' = {} /\ Writing(f)' = {}
             /\ \A m, n \in DOMAIN feed : feed[m].id = d /\ feed[n].id = f => m < n
             /\ \/ (Waiting(f) \cup Fresh(f))' # {}
                \/ Agreed(f)'
                \/ \E n \in DOMAIN feed : n > token /\ feed[n].id = d
                \/ \E i \in DOMAIN batch' :
                     /\ batch'[i].id = f
                     /\ d \in DOMAIN pathMap' \/ \E j \in DOMAIN batch' : j < i /\ batch'[j].id = d
  <2>1. /\ Rows(f) = {} /\ Writing(f) = {}
        /\ \A m, n \in DOMAIN feed : feed[m].id = d /\ feed[n].id = f => m < n
        /\ \/ Waiting(f) \cup Fresh(f) # {}
           \/ Agreed(f)
           \/ \E n \in DOMAIN feed : n > token /\ feed[n].id = d
           \/ \E i \in DOMAIN batch :
                /\ batch[i].id = f
                /\ d \in DOMAIN pathMap \/ \E j \in DOMAIN batch : j < i /\ batch[j].id = d
    BY <1>3 DEF FolderFirst
  <2>2. ASSUME NEW i \in DOMAIN batch, batch[i].id = f, e.id # f,
               d \in DOMAIN pathMap \/ \E j \in DOMAIN batch : j < i /\ batch[j].id = d
        PROVE  /\ i - 1 \in DOMAIN batch' /\ batch'[i - 1].id = f
               /\ d \in DOMAIN pathMap' \/ \E j \in DOMAIN batch' : j < i - 1 /\ batch'[j].id = d
    <3>1. i - 1 \in DOMAIN batch' /\ batch'[i - 1].id = f /\ i \in Nat
      BY <2>2, LookedLeft
    <3>2. d \in DOMAIN pathMap => d \in DOMAIN pathMap'
      BY <1>1 DEF Put
    <3>3. ASSUME NEW j \in DOMAIN batch, j < i, batch[j].id = d, j # 1
          PROVE  j - 1 \in DOMAIN batch' /\ j - 1 < i - 1 /\ batch'[j - 1].id = d
      <4>1. j - 1 \in DOMAIN batch' /\ batch'[j - 1].id = d /\ j \in Nat
        BY <3>3, LookedLeft
      <4> QED
        BY <3>1, <3>3, <4>1
    <3>4. ASSUME batch[1].id = d PROVE d \in DOMAIN pathMap'
      <4>1. e.id = d /\ e.id \in Folder /\ e.id # None
        BY <1>3, <3>4, LookedLeft, Names DEF Id
      <4>2. ~e.gone
        BY <1>1, <4>1 DEF EntryOK
      <4>3. Known(e.id) = {}
        BY <1>3, <4>1, DbNames
      <4>4. gid = 0
        BY <1>1, <4>1, <4>3 DEF Lookup
      <4> QED
        BY <1>1, <1>3, <4>1, <4>2, <4>4 DEF Put
    <3> QED
      BY <2>2, <3>1, <3>2, <3>3, <3>4
  <2>3. (Waiting(f) \cup Fresh(f))' # {} \/ Agreed(f)' \/ e.id # f
    OBVIOUS
  <2>4. CASE \E i \in DOMAIN batch : batch[i].id = f
                /\ (d \in DOMAIN pathMap \/ \E j \in DOMAIN batch : j < i /\ batch[j].id = d)
    BY <1>2, <2>1, <2>2, <2>3, <2>4
  <2>5. CASE Waiting(f) \cup Fresh(f) # {} \/ Agreed(f) \/ \E n \in DOMAIN feed : n > token /\ feed[n].id = d
    BY <1>2, <2>1, <2>5
  <2> QED
    BY <2>1, <2>4, <2>5
<1>4. UNCHANGED <<kind, feed, token, db>> /\ d' = d
  BY <1>1 DEF Polled
<1> QED
  BY <1>3, <1>4 DEF FolderFirst

(* An expected event that has been seen. *)
LEMMA CheckedIs ==
  ASSUME NEW map, NEW key, NEW type
  PROVE  /\ \A k : k \in DOMAIN Checked(map, key, type) => k \in DOMAIN map
         /\ \A k, t : k # key /\ Expects(map, k, t) => Expects(Checked(map, key, type), k, t)
<1>1. CASE Expects(map, key, type)
  <2>1. Checked(map, key, type) = [k \in DOMAIN map \ {key} |-> map[k]]
    BY <1>1 DEF Checked, Without, Restrict
  <2> QED
    BY <2>1 DEF Expects
<1>2. CASE ~Expects(map, key, type)
  BY <1>2 DEF Checked
<1> QED
  BY <1>1, <1>2

(* It is not one of another file. *)
LEMMA LookedOld ==
  ASSUME TypeInv, NEW gid, NEW e, NEW v, NEW emitted, Looked(gid, e, v, emitted), NEW f \in File, Alone(f),
         Subject(e, gid) # f, NEW k, k = f \/ Claims(f, k)
  PROVE  /\ k \in DOMAIN old' => k \in DOMAIN old
         /\ \A t : Expects(old, k, t) => Expects(old', k, t)
<1>1. CASE old' = old
  BY <1>1
<1>2. CASE v.to # NoPath /\ \E type \in Awaited(e, gid, v) : old' = Checked(old, EventKey(type, Subject(e, gid), v.to), type)
  <2>1. PICK type \in Awaited(e, gid, v) : old' = Checked(old, EventKey(type, Subject(e, gid), v.to), type)
    BY <1>2
  <2>2. PICK key : key = EventKey(type, Subject(e, gid), v.to)
    OBVIOUS
  <2>3. PICK s : s = Subject(e, gid)
    OBVIOUS
  <2>4. key \in {s, v.to}
    BY <2>2, <2>3 DEF EventKey
  <2>5. EntryOK(e, HomeFolder, LiveFolder, kind) /\ gid \in Lookup(e) /\ v = Verdict(e, gid)
    BY DEF Looked
  <2>6. type \in Needs(e, gid, v)
    BY DEF Awaited
  <2>7. gid # 0 \/ ~v.gone
    BY <2>6, NeedsAre
  <2>8. s \in Id /\ v.to \in Spots(s, HomeFolder)
    BY <1>2, <2>3, <2>5, <2>7, VerdictIs
  <2>9. HomeFolder \in SUBSET Folder
    BY HomesAreLive
  <2>10. v.to \notin Id /\ ~Claims(f, v.to)
    <3>1. CASE s \in File
      <4>1. PICK dir \in {Home} \cup HomeFolder : v.to = Spot(dir, s)
        BY <2>8, <2>9, <3>1, SpotsIn
      <4>2. v.to \notin Id
        BY <2>8, <2>9, <4>1, SpotKinds
      <4>3. Touches(s, v.to)
        <5>1. Touches(Subject(e, gid), v.to)
          BY <1>2, <2>3, <2>7, <3>1, VerdictTouches
        <5> QED
          BY <2>3, <5>1
      <4> QED
        BY <2>3, <3>1, <4>2, <4>3 DEF Alone
    <3>2. CASE s \in Folder
      <4>1. v.to = FolderPath(s) /\ FolderPath(s) = Spot(Home, s)
        BY <2>8, <3>2, FolderSpots
      <4>2. v.to \notin Id
        BY <2>8, <4>1, SpotKinds
      <4> QED
        BY <3>2, <4>1, <4>2, ClaimsIn
    <3> QED
      BY <2>8, <3>1, <3>2 DEF Id
  <2>11. ~Claims(f, s)
    BY <2>8, ClaimsIn
  <2>12. k # key
    BY <2>3, <2>4, <2>10, <2>11 DEF Id
  <2>13. old' = Checked(old, key, type)
    BY <2>1, <2>2
  <2> QED
    BY <2>12, <2>13, CheckedIs
<1> QED
  BY <1>1, <1>2 DEF Looked

(* Of what is gone at a file's own path, the program knows that it is the file. *)
LEMMA LookedGone ==
  ASSUME TypeInv, NEW gid, NEW e, NEW v, NEW emitted, Looked(gid, e, v, emitted), NEW f \in File, Story(f),
         e \in Gone(f), NEW r \in Rows(f), r.path = e.path
  PROVE  Subject(e, gid) = f /\ gid # 0
<1>1. e.id = None /\ Claims(f, e.path) /\ gid \in Lookup(e)
  BY DEF Gone, Looked
<1>2. DbTyped /\ Tables(db) /\ HomeFolder \in SUBSET Folder
  BY HomesAreLive DEF TypeInv, DbTyped, DbOK
<1>3. r.gid \in DOMAIN db.files /\ LinkedIn(db, r.gid) /\ LinkIn(db, r.gid).id = f /\ PathOfRow(db, r.gid) = e.path
  BY <1>2, RowsAre DEF Rows
<1>4. HasRow(db, e.path)
  BY <1>3 DEF HasRow, RowsOf, PathOfRow
<1>5. PICK g : g = GlobalId(db, e.path)
  OBVIOUS
<1>6. g \in DOMAIN db.files /\ PathOfRow(db, g) = e.path
  BY <1>2, <1>4, <1>5, FirstRow
<1>7. LinkedIn(db, g)
  <2> SUFFICES ASSUME ~LinkedIn(db, g) PROVE FALSE
    OBVIOUS
  <2>1. g \in Loose(db) /\ Claims(f, PathOfRow(db, g))
    BY <1>1, <1>6 DEF Loose
  <2>2. Writing(f) # {}
    BY <2>1 DEF Story, Alone
  <2>3. Writing(f) = {}
    BY DEF Story, Notices
  <2> QED
    BY <2>2, <2>3
<1>8. PICK i : i = LinkIn(db, g).id
  OBVIOUS
<1>9. i \in Id /\ PathOfRow(db, g) \in Spots(i, HomeFolder)
  BY <1>2, <1>6, <1>7, <1>8 DEF DbTyped, DbOK, RowOK, LinkSet
<1>10. i = f
  <2>1. CASE i \in File
    <3>1. Tracks(i, e.path)
      <4>1. [gid |-> g, path |-> PathOfRow(db, g), link |-> LinkIn(db, g)] \in RowsIn(db, i)
        BY <1>2, <1>6, <1>7, <1>8, RowsAre
      <4> QED
        BY <1>6, <4>1 DEF Tracks, Rows
    <3> QED
      BY <1>1, <2>1, <3>1 DEF Story, Alone, Touches
  <2>2. CASE i \in Folder
    <3>1. e.path = FolderPath(i)
      BY <1>6, <1>9, <2>2, FolderSpots
    <3> QED
      BY <1>1, <2>2, <3>1, ClaimsIn DEF Story
  <2> QED
    BY <1>9, <2>1, <2>2 DEF Id
<1>11. Linked(g) /\ Link(g).id = f /\ r.gid \in Known(f)
  <2>1. Linked(g) /\ Link(g).id = f
    BY <1>7, <1>8, <1>10, DbNames
  <2>2. LinkedTo(db, Cloud, f) = {h \in DOMAIN db.files : LinkedIn(db, h) /\ LinkIn(db, h).id = f}
    BY <1>2, Key
  <2>3. r.gid \in LinkedTo(db, Cloud, f)
    BY <1>3, <2>2
  <2> QED
    BY <2>1, <2>3, DbNames
<1>12. Lookup(e) = Known(f)
  BY <1>1, <1>4, <1>5, <1>11 DEF Lookup
<1>13. gid # 0 /\ Link(gid).id = f
  BY <1>1, <1>2, <1>12, KnownIs
<1> QED
  BY <1>1, <1>13 DEF Subject

(* What an entry leaves of the others' stories. *)
LEMMA NoticesLess ==
  ASSUME NEW f, SameOf(f), Entries(f)' \subseteq Entries(f), Gone(f)' \subseteq Gone(f), Notices(f), LastSay(f)',
         Told(f)' => Told(f), UserRec(f, 0) => UserRec(f, 0)'
  PROVE  Notices(f)'
<1>1. item'[f] = item[f] /\ Rows(f)' = Rows(f) /\ Writing(f)' = Writing(f) /\ (Agreed(f)' <=> Agreed(f))
  BY RightKept DEF SameOf
<1> QED
  BY <1>1 DEF Notices, Current

LEMMA LookedGoes ==
  ASSUME TypeInv, NEW gid, NEW e, NEW v, NEW emitted, Looked(gid, e, v, emitted), NEW f \in File,
         \A p : Claims(f, p)' => Claims(f, p)
  PROVE  /\ \A x : x \in Entries(f)' => x \in Entries(f) /\ x # e
         /\ \A x : x \in Gone(f)' => x \in Gone(f) /\ x # e
         /\ \A x : x \in Entries(f) /\ x # e => x \in Entries(f)'
         /\ e.id = f => Entries(f)' = {}
<1>1. /\ e \in Range(batch) /\ Range(batch) = Range(batch') \cup {e} /\ 1 \in DOMAIN batch /\ batch[1] = e
      /\ \A i \in DOMAIN batch' : i \in Nat /\ i + 1 \in DOMAIN batch /\ batch'[i] = batch[i + 1]
      /\ \A i \in DOMAIN batch : batch[i].id = e.id /\ (e.id = None => batch[i].path = e.path) => i = 1
  BY LookedLeft
<1>2. \A x \in Range(batch') : x.id # e.id \/ (e.id = None /\ x.path # e.path)
  <2> SUFFICES ASSUME NEW i \in DOMAIN batch', batch'[i].id = e.id, e.id = None => batch'[i].path = e.path PROVE FALSE
    BY DEF Range
  <2>1. i \in Nat /\ i + 1 \in DOMAIN batch /\ batch'[i] = batch[i + 1]
    BY <1>1
  <2>2. i + 1 = 1
    BY <1>1, <2>1
  <2>3. i + 1 - 1 = 0 /\ i = 0
    BY <2>1, <2>2
  <2>4. IsSeq(batch')
    BY Beheaded DEF Looked, TypeInv, BatchTyped
  <2>5. DOMAIN batch' = 1..Len(batch') /\ Len(batch') \in Nat
    BY <2>4, SeqFacts
  <2> QED
    BY <2>3, <2>5
<1>3. f # None
  BY Names DEF Id
<1>4. e.id = f => Entries(f)' = {}
  BY <1>2, <1>3 DEF Entries
<1>5. e \notin Range(batch')
  BY <1>2
<1>6. \A x : x \in Gone(f)' => x \in Range(batch') /\ x.id = None /\ Claims(f, x.path)
  <2> SUFFICES ASSUME NEW x \in Gone(f)' PROVE x \in Range(batch') /\ x.id = None /\ Claims(f, x.path)
    OBVIOUS
  <2>1. PICK p : p = x.path
    OBVIOUS
  <2>2. Claims(f, p)'
    BY <2>1 DEF Gone
  <2> QED
    BY <2>1, <2>2 DEF Gone
<1>7. \A x : x \in Gone(f)' => x \in Gone(f) /\ x # e
  BY <1>1, <1>5, <1>6 DEF Gone
<1> QED
  BY <1>1, <1>4, <1>5, <1>7 DEF Entries

LEMMA LookedElse ==
  ASSUME TypeInv, NEW gid, NEW e, NEW v, NEW emitted, Looked(gid, e, v, emitted), NEW f \in File, Story(f),
         Subject(e, gid) # f
  PROVE  Story(f)'
<1>1. /\ Polled /\ UNCHANGED <<token, working, expected, changes, fate>>
  BY DEF Looked
<1>2. \A c \in emitted : c.id # f
  BY LookedFor
<1>3. Alone(f) /\ OneChange(f) /\ Phase(f) /\ Notices(f) /\ FolderFirst(f)
  BY DEF Story
<1>4. SameOf(f) /\ OneChange(f)' /\ Alone(f)'
  BY <1>2, <1>3, LookedSame
<1>5. /\ LastSay(f) => LastSay(f)'
      /\ UserRec(f, 0) => UserRec(f, 0)'
      /\ UserRec(f, token) => UserRec(f, token)'
      /\ Told(f)' => Told(f)
      /\ FoldersKept
  BY <1>1, <1>4, PolledLog
<1>6. e.id # f
  <2>1. f # None
    BY Names DEF Id
  <2> QED
    BY <2>1 DEF Subject
<1>7. \A p : Claims(f, p)' <=> Claims(f, p)
  BY <1>4, ClaimsKept
<1>8. BatchKeptFor(f)
  <2>1. /\ \A x : x \in Entries(f)' => x \in Entries(f) /\ x # e
        /\ \A x : x \in Gone(f)' => x \in Gone(f) /\ x # e
        /\ \A x : x \in Entries(f) /\ x # e => x \in Entries(f)'
    BY <1>7, LookedGoes
  <2>2. e \notin Entries(f)
    BY <1>6 DEF Entries
  <2>3. ASSUME NEW x \in Gone(f), News(f, x) PROVE x \in Gone(f)'
    <3>1. x # e
      <4> SUFFICES ASSUME x = e PROVE FALSE
        OBVIOUS
      <4>1. e.id = None
        BY DEF Gone
      <4>2. PICK r \in Rows(f) : r.path = e.path
        BY <2>3, <4>1 DEF News
      <4> QED
        BY <4>2, LookedGone
    <3>2. x \in Range(batch') /\ x.id = None /\ Claims(f, x.path)
      BY <3>1, LookedLeft DEF Gone
    <3>3. PICK p : p = x.path
      OBVIOUS
    <3>4. Claims(f, p)'
      BY <1>7, <3>2, <3>3
    <3> QED
      BY <3>2, <3>3, <3>4 DEF Gone
  <2> QED
    BY <2>1, <2>2, <2>3 DEF BatchKeptFor
<1>9. RegKept(f)
  <2>1. ASSUME NEW k, k = f \/ Claims(f, k)
        PROVE  (k \in DOMAIN old' => k \in DOMAIN old) /\ \A t : Expects(old, k, t) => Expects(old', k, t)
    BY <1>3, <2>1, LookedOld
  <2> QED
    BY <1>1, <2>1 DEF RegKept
<1>10. Phase(f)'
  BY <1>3, <1>4, <1>5, <1>8, <1>9, PhaseKept
<1>11. Notices(f)'
  BY <1>3, <1>4, <1>5, <1>8, NoticesKept DEF Notices
<1>12. FolderFirst(f)'
  BY <1>3, <1>4, <1>6, LookedFirst DEF SameOf
<1> QED
  BY <1>4, <1>10, <1>11, <1>12 DEF Story

(* An entry about a file, or about its place. *)
LEMMA OwnSubject ==
  ASSUME TypeInv, NEW gid, NEW e, NEW v, NEW emitted, Looked(gid, e, v, emitted), NEW f \in File, Subject(e, gid) = f
  PROVE  \/ e.id = f /\ e \in Entries(f)
         \/ /\ e.id = None /\ gid # 0 /\ kind = "dropbox" /\ e.gone /\ e \in Gone(f) /\ v.to = e.path /\ v.gone
            /\ e.path # NoPath /\ \E r \in Rows(f) : r.gid = gid /\ Link(gid) = r.link
            /\ \E r \in Rows(f) : r.path = e.path
<1>1. EntryOK(e, HomeFolder, LiveFolder, kind) /\ e \in Range(batch) /\ gid \in Lookup(e) /\ v = Verdict(e, gid)
  <2>1. e \in Range(batch)
    BY LookedLeft
  <2> QED
    BY <2>1 DEF Looked
<1>2. CASE e.id # None
  BY <1>1, <1>2 DEF Subject, Entries
<1>3. CASE e.id = None
  <2>1. gid # 0 /\ Link(gid).id = f
    BY <1>3, Names DEF Subject, Id
  <2>2. /\ kind = "dropbox" /\ e.gone /\ e.path \in FileSpots(HomeFolder)
    BY <1>1, <1>3, Names DEF EntryOK
  <2>3. v.to = e.path /\ v.gone
    BY <1>1, <2>2 DEF Verdict, DropboxVerdict
  <2>4. DbTyped /\ Tables(db) /\ HomeFolder \in SUBSET Folder /\ f \in Id
    BY HomesAreLive DEF TypeInv, DbTyped, DbOK, Id
  <2>5. e.path \in Spots(f, HomeFolder) /\ HasRow(db, e.path) /\ Linked(GlobalId(db, e.path))
        /\ gid \in Known(Link(GlobalId(db, e.path)).id) /\ Linked(gid)
    BY <1>1, <1>3, <2>1, LookupIs
  <2>6. e.path # NoPath
    BY <2>4, <2>5, SpotsIn
  <2>7. PICK g : g = GlobalId(db, e.path)
    OBVIOUS
  <2>8. g \in DOMAIN db.files /\ PathOfRow(db, g) = e.path /\ LinkedIn(db, g)
    BY <2>4, <2>5, <2>7, FirstRow, DbNames
  <2>9. LinkIn(db, g).id = f
    BY <2>1, <2>4, <2>5, <2>7, KnownIs, DbNames
  <2>10. [gid |-> g, path |-> PathOfRow(db, g), link |-> LinkIn(db, g)] \in RowsIn(db, f)
    BY <2>4, <2>8, <2>9, RowsAre
  <2>11. \E r \in Rows(f) : r.path = e.path
    BY <2>8, <2>10 DEF Rows
  <2>12. gid \in DOMAIN db.files /\ LinkedIn(db, gid) /\ LinkIn(db, gid).id = f /\ Link(gid) = LinkIn(db, gid)
    BY <2>1, <2>4, <2>5, Key, DbNames
  <2>13. [gid |-> gid, path |-> PathOfRow(db, gid), link |-> LinkIn(db, gid)] \in RowsIn(db, f)
    BY <2>4, <2>12, RowsAre
  <2>14. \E r \in Rows(f) : r.gid = gid /\ Link(gid) = r.link
    BY <2>12, <2>13 DEF Rows
  <2>15. e \in Gone(f)
    BY <1>1, <1>3, <2>11 DEF Gone, Claims, Tracks
  <2> QED
    BY <1>3, <2>1, <2>2, <2>3, <2>6, <2>11, <2>14, <2>15
<1> QED
  BY <1>2, <1>3

(* What is read of a file is still so. *)
LEMMA OwnEntry ==
  ASSUME TypeInv, NEW gid, NEW e, NEW v, NEW emitted, Looked(gid, e, v, emitted), NEW f \in File, Story(f),
         e \in Entries(f)
  PROVE  /\ e.id = f /\ ~Told(f) /\ Current(item[f], e) /\ e.path = Loc(item[f], f)
         /\ item[f].dir \in Dir /\ item[f].live \in BOOLEAN /\ e.gone = ~item[f].live /\ e.dir = item[f].dir
         /\ EntryOK(e, HomeFolder, LiveFolder, kind) /\ gid \in Lookup(e) /\ v = Verdict(e, gid) /\ e.id \in File
         /\ e.path # NoPath => ~e.gone /\ e.dir # Elsewhere
<1>1. /\ e.id = f /\ EntryOK(e, HomeFolder, LiveFolder, kind) /\ gid \in Lookup(e) /\ v = Verdict(e, gid)
  BY DEF Entries, Looked
<1>2. ~Told(f) /\ Current(item[f], e)
  BY DEF Story, Notices
<1>3. f \in Id /\ item[f] \in Item
  BY DEF TypeInv, CloudTyped, Id
<1>4. item[f].dir \in Dir /\ item[f].live \in BOOLEAN
  BY <1>3 DEF Item
<1>5. e.path = Seen(~e.gone, e.dir, f, HomeFolder)
  BY <1>1, VerdictPlace
<1>6. e.gone = ~item[f].live /\ e.dir = item[f].dir
  BY <1>2 DEF Current
<1>7. item[f].dir \in Folder => item[f].dir \in HomeFolder
  BY DEF Story, Alone
<1>8. item[f].dir # Elsewhere => Spot(IF item[f].dir \in HomeFolder THEN item[f].dir ELSE Home, f) = Spot(item[f].dir, f)
  BY <1>4, <1>7 DEF Dir
<1>9. e.path = Loc(item[f], f)
  BY <1>4, <1>5, <1>6, <1>8 DEF Seen, Loc
<1>10. e.path # NoPath => ~e.gone /\ e.dir # Elsewhere
  BY <1>4, <1>5, <1>6 DEF Seen
<1> QED
  BY <1>1, <1>2, <1>4, <1>6, <1>9, <1>10

LEMMA OwnNew ==
  ASSUME TypeInv, NEW gid, NEW e, NEW v, NEW emitted, Looked(gid, e, v, emitted), NEW f \in File, Story(f),
         e \in Entries(f), Rows(f) = {}
  PROVE  /\ gid = 0 /\ v.gone = e.gone /\ v.to \in {NoPath, Loc(item[f], f)}
         /\ Loc(item[f], f) # NoPath /\
            (kind = "google" /\ item[f].dir \in Folder =>
               LinkedTo(db, Cloud, item[f].dir) # {} \/ item[f].dir \in DOMAIN pathMap)
              => v.to = Loc(item[f], f)
<1>1. /\ e.id = f /\ e.path = Loc(item[f], f) /\ e.dir = item[f].dir
      /\ EntryOK(e, HomeFolder, LiveFolder, kind) /\ gid \in Lookup(e) /\ v = Verdict(e, gid) /\ e.id \in File
      /\ e.path # NoPath => ~e.gone /\ e.dir # Elsewhere
  BY OwnEntry
<1>2. gid = 0
  <2>1. Known(f) = {}
    <3>1. Tables(db)
      BY DEF TypeInv, DbTyped, DbOK
    <3>2. RowsIn(db, f) = {}
      BY DEF Rows
    <3> QED
      BY <3>1, <3>2, RowsAre, DbNames
  <2>2. e.id # None
    BY <1>1, Names DEF Id
  <2> QED
    BY <1>1, <2>1, <2>2 DEF Lookup
<1>3. /\ v.gone = e.gone /\ v.to \in {NoPath, e.path}
      /\ ~e.gone /\ e.dir # Elsewhere
            /\ (kind = "google" /\ e.dir \in Folder => Known(e.dir) # {} \/ e.dir \in DOMAIN pathMap) => v.to = e.path
  BY <1>1, <1>2, VerdictPlace
<1>4. Known(e.dir) = LinkedTo(db, Cloud, item[f].dir)
  BY <1>1, DbNames
<1> QED
  BY <1>1, <1>2, <1>3, <1>4

LEMMA OwnRow ==
  ASSUME TypeInv, NEW gid, NEW e, NEW v, NEW emitted, Looked(gid, e, v, emitted), NEW f \in File, Story(f),
         e \in Entries(f), NEW r, Rows(f) = {r}
  PROVE  /\ gid # 0 /\ gid = r.gid /\ v.from = r.path /\ Link(gid) = r.link
         /\ Loc(item[f], f) = NoPath /\ r.link.parent # Elsewhere => kind = "google" /\ v.gone /\ v.to = r.path
         /\ Loc(item[f], f) # NoPath =>
              ~v.gone /\ v.to = IF kind = "google" /\ r.link.parent = item[f].dir THEN r.path ELSE Loc(item[f], f)
<1>1. /\ e.id = f /\ e.path = Loc(item[f], f) /\ e.dir = item[f].dir
      /\ EntryOK(e, HomeFolder, LiveFolder, kind) /\ gid \in Lookup(e) /\ v = Verdict(e, gid) /\ e.id \in File
  BY OwnEntry
<1>2. Tables(db) /\ DbTyped
  BY DEF TypeInv, DbTyped, DbOK
<1>3. /\ r.gid \in DOMAIN db.files /\ LinkedIn(db, r.gid) /\ r.path = PathOfRow(db, r.gid)
      /\ r.link = LinkIn(db, r.gid) /\ LinkedTo(db, Cloud, f) = {r.gid}
  <2>1. RowsIn(db, f) = {r}
    BY DEF Rows
  <2> QED
    BY <1>2, <2>1, RowsAre
<1>4. gid = r.gid
  <2>1. e.id # None
    BY <1>1, Names DEF Id
  <2> QED
    BY <1>1, <1>3, <2>1, DbNames DEF Lookup
<1>5. gid # 0
  BY <1>2, <1>3, <1>4, Key
<1>6. v.from = RowPath(gid) /\ RowPath(gid) = r.path /\ Link(gid) = r.link
  BY <1>1, <1>3, <1>4, <1>5, VerdictIs, DbNames
<1>7. kind = "google" /\ item[f].dir \in Folder => LinkedTo(db, Cloud, item[f].dir) # {}
  BY ParentKnown
<1>8. /\ e.path = NoPath /\ Link(gid).parent # Elsewhere => kind = "google" /\ v.gone /\ v.to = RowPath(gid)
      /\ e.path # NoPath /\ (kind = "google" /\ e.dir \in Folder => Known(e.dir) # {}) =>
              ~v.gone /\ v.to = IF kind = "google" /\ Link(gid).parent = e.dir THEN RowPath(gid) ELSE e.path
  BY <1>1, <1>5, VerdictPlace
<1>9. kind = "google" /\ e.dir \in Folder => Known(e.dir) # {}
  BY <1>1, <1>7, DbNames
<1>10. e.path # NoPath =>
         ~v.gone /\ v.to = IF kind = "google" /\ Link(gid).parent = e.dir THEN RowPath(gid) ELSE e.path
  BY <1>8, <1>9
<1> QED
  BY <1>1, <1>4, <1>5, <1>6, <1>8, <1>10

(* What the program itself has written is awaited, or recorded already. *)
LEMMA SendingSilent ==
  ASSUME TypeInv, NEW gid, NEW e, NEW v, NEW emitted, Looked(gid, e, v, emitted), NEW f \in File, Story(f),
         e \in Entries(f), NEW w, Sending(f, w)
  PROVE  emitted = {} /\ Arrived(w)
<1>1. Arrived(w)
  BY DEF Sending, Awaits
<1>2. /\ WriteRight(w, f) /\ w \in writes /\ w.id = f /\ working
      /\ w.op \in {"New", "Update"} => Expects(old, WriteKey(w), w.op)
  BY <1>1 DEF Sending, Awaits, Writing, Looked
<1>3. WriteOK(w, db, HomeFolder, kind)
  BY <1>2 DEF TypeInv, WritesTyped
<1>4. /\ e.id = f /\ e.time = item[f].time /\ e.hash = item[f].hash /\ e.id \in File
      /\ e.path = Loc(item[f], f)
      /\ e.path # NoPath => ~e.gone
  BY OwnEntry DEF Current
<1>5. w.path # NoPath
  <2>1. HomeFolder \in SUBSET Folder /\ f \in Id
    BY HomesAreLive DEF Id
  <2> QED
    BY <1>2, <1>3, <2>1, SpotsIn, ZenonT(30) DEF WriteOK
<1>6. f # None
  BY Names DEF Id
<1>7. \A type : type \in Awaited(e, gid, v) <=> type \in Needs(e, gid, v) /\ Expects(old, EventKey(type, f, v.to), type)
  BY <1>4, <1>6 DEF Awaited
<1>8. v.to = NoPath \/ Awaited(e, gid, v) # {} \/ Needs(e, gid, v) = {} => emitted = {}
  <2>1. Needs(e, gid, v) = {} => Emitted(e, gid, v) = {}
    BY EmittedAre
  <2> QED
    BY <2>1 DEF Looked
<1>9. CASE w.op = "New" /\ Rows(f) = {} /\ Loc(item[f], f) = w.path
  <2>1. gid = 0 /\ v.gone = e.gone /\ v.to \in {NoPath, w.path}
    BY <1>9, OwnNew
  <2>2. ~v.gone
    BY <1>4, <1>5, <1>9, <2>1
  <2>3. "New" \in Needs(e, gid, v)
    BY <2>1, <2>2, NeedsAre
  <2>4. Expects(old, w.path, "New")
    BY <1>2, <1>9 DEF WriteKey
  <2>5. v.to = w.path => "New" \in Awaited(e, gid, v)
    BY <1>7, <2>3, <2>4 DEF EventKey
  <2> QED
    BY <1>1, <1>8, <2>1, <2>5
<1>10. CASE w.op = "Delete" /\ Rows(f) = {} /\ Loc(item[f], f) = NoPath
  BY <1>1, <1>8, <1>10, OwnNew
<1>11. ASSUME NEW r, Rows(f) = {r}, WriteRow(w, r, item[f], f, Tied(f)) PROVE emitted = {}
  <2>1. r.gid = w.gid /\ r.path = w.to
    BY <1>11 DEF WriteRow
  <2>2. CASE w.op = "Update" /\ Arrived(w) /\ w.path = Loc(item[f], f) /\ kind = "google"
             /\ r.link.parent = item[f].dir /\ r.link.time < item[f].time /\ r.link.hash < item[f].hash
    <3>1. gid # 0 /\ Link(gid) = r.link /\ v.from = r.path /\ ~v.gone /\ v.to = r.path
      BY <1>5, <1>11, <2>2, OwnRow
    <3>2. e.time > Link(gid).time /\ e.hash # Link(gid).hash
      <4>1. item[f].time \in Nat /\ item[f].hash \in Nat /\ r.link.time \in Nat /\ r.link.hash \in Nat
        BY <1>11, RowIn DEF TypeInv, CloudTyped, Item, Id, LinkSet
      <4> QED
        BY <1>4, <2>2, <3>1, <4>1
    <3>3. "Update" \in Needs(e, gid, v)
      BY <1>4, <3>1, <3>2, NeedsAre
    <3>4. Expects(old, f, "Update")
      BY <1>2, <2>2 DEF WriteKey
    <3>5. "Update" \in Awaited(e, gid, v)
      BY <1>7, <3>3, <3>4 DEF EventKey
    <3> QED
      BY <1>8, <3>5
  <2>3. CASE w.op = "Move" /\ Loc(item[f], f) = w.to /\ UpToDate(r, item[f], Tied(f))
    <3>1. Loc(item[f], f) = r.path /\ Loc(item[f], f) # NoPath
      <4>1. HomeFolder \in SUBSET Folder /\ f \in Id
        BY HomesAreLive DEF Id
      <4> QED
        BY <1>2, <1>3, <2>1, <2>3, <4>1, SpotsIn DEF WriteOK
    <3>2. gid # 0 /\ Link(gid) = r.link /\ v.from = r.path /\ ~v.gone /\ v.to = r.path
      BY <1>11, <3>1, OwnRow
    <3>3. ~(e.time > Link(gid).time)
      <4>1. item[f].time \in Nat /\ r.link.time = item[f].time
        BY <2>3 DEF UpToDate, TypeInv, CloudTyped, Item, Id
      <4> QED
        BY <1>4, <3>2, <4>1
    <3>4. /\ "New" \notin Needs(e, gid, v) /\ "Delete" \notin Needs(e, gid, v) /\ "Move" \notin Needs(e, gid, v)
          /\ "Update" \notin Needs(e, gid, v)
      BY <3>2, <3>3, NeedsAre
    <3>5. Needs(e, gid, v) \subseteq ChangeTypes
      BY NeedsAre
    <3>6. Needs(e, gid, v) = {}
      BY <3>4, <3>5 DEF ChangeTypes
    <3> QED
      BY <1>8, <3>6
  <2> QED
    BY <1>1, <1>11, <2>2, <2>3 DEF WriteRow
<1>12. \/ w.op = "New" /\ Rows(f) = {} /\ Loc(item[f], f) = w.path
       \/ w.op = "Delete" /\ Rows(f) = {} /\ Loc(item[f], f) = NoPath
       \/ \E r : Rows(f) = {r} /\ WriteRow(w, r, item[f], f, Tied(f))
  BY <1>1, <1>2 DEF WriteRight
<1> QED
  BY <1>1, <1>9, <1>10, <1>11, <1>12

(* Of a file that the database has right nothing is handed over. *)
LEMMA AgreedSilent ==
  ASSUME TypeInv, NEW gid, NEW e, NEW v, NEW emitted, Looked(gid, e, v, emitted), NEW f \in File, Story(f),
         e \in Entries(f), Agreed(f)
  PROVE  emitted = {}
<1>4. /\ e.id = f /\ e.time = item[f].time /\ e.hash = item[f].hash /\ e.id \in File
  BY OwnEntry DEF Current
<1>8. v.to = NoPath \/ Needs(e, gid, v) = {} => emitted = {}
  <2>1. Needs(e, gid, v) = {} => Emitted(e, gid, v) = {}
    BY EmittedAre
  <2> QED
    BY <2>1 DEF Looked
<1>9. CASE Loc(item[f], f) = NoPath
  <2>1. Rows(f) = {}
    BY <1>9 DEF Agreed
  <2> QED
    BY <1>8, <1>9, <2>1, OwnNew
<1>10. CASE Loc(item[f], f) # NoPath
  <2>1. PICK r : Rows(f) = {r} /\ AgreedRow(r, item[f], f, Tied(f))
    BY <1>10 DEF Agreed
  <2>2. r.path = Loc(item[f], f) /\ r.link.time = item[f].time
    BY <2>1 DEF AgreedRow, UpToDate
  <2>3. gid # 0 /\ Link(gid) = r.link /\ v.from = r.path /\ ~v.gone /\ v.to = r.path
    BY <1>10, <2>1, <2>2, OwnRow
  <2>4. ~(e.time > Link(gid).time)
    <3>1. item[f].time \in Nat
      BY DEF TypeInv, CloudTyped, Item, Id
    <3> QED
      BY <1>4, <2>2, <2>3, <3>1
  <2>5. /\ "New" \notin Needs(e, gid, v) /\ "Delete" \notin Needs(e, gid, v) /\ "Move" \notin Needs(e, gid, v)
        /\ "Update" \notin Needs(e, gid, v)
    BY <2>3, <2>4, NeedsAre
  <2>6. Needs(e, gid, v) \subseteq ChangeTypes
    BY NeedsAre
  <2>7. Needs(e, gid, v) = {}
    BY <2>5, <2>6 DEF ChangeTypes
  <2> QED
    BY <1>8, <2>7
<1> QED
  BY <1>9, <1>10

(* A file after an entry that asks for nothing. *)
LEMMA LookedStays ==
  ASSUME TypeInv, NEW gid, NEW e, NEW v, NEW emitted, Looked(gid, e, v, emitted), NEW f \in File, Story(f),
         e \in Entries(f), emitted = {}, (\E w : Sending(f, w)) \/ (Resting(f) /\ Agreed(f))
  PROVE  Story(f)'
<1>1. Polled /\ UNCHANGED <<token, working, expected, changes, fate>>
  BY DEF Looked
<1>2. Alone(f) /\ OneChange(f) /\ Phase(f) /\ Notices(f) /\ FolderFirst(f)
  BY DEF Story
<1>3. SameOf(f) /\ OneChange(f)' /\ Alone(f)'
  BY <1>2, LookedSame
<1>4. /\ LastSay(f) => LastSay(f)'
      /\ UserRec(f, 0) => UserRec(f, 0)'
      /\ Told(f)' => Told(f)
      /\ FoldersKept
  BY <1>1, <1>3, PolledLog
<1>5. \A p : Claims(f, p)' <=> Claims(f, p)
  BY <1>3, ClaimsKept
<1>6. e.id = f /\ ~Told(f)
  BY OwnEntry
<1>7. Entries(f)' = {} /\ Gone(f)' \subseteq Gone(f)
  BY <1>5, <1>6, LookedGoes
<1>8. Notices(f)'
  BY <1>2, <1>3, <1>4, <1>7, NoticesLess DEF Notices
<1>9. (Agreed(f)' <=> Agreed(f)) /\ (Sound(f)' <=> Sound(f))
  BY <1>3, RightKept
<1>10. CASE \E w : Sending(f, w)
  <2>1. PICK w : Sending(f, w)
    BY <1>10
  <2>2. Arrived(w)
    BY <2>1, SendingSilent
  <2>3. Writing(f)' = {w} /\ Waiting(f)' = {} /\ Fresh(f)' = {} /\ Writing(f) = {w} /\ Rows(f)' = Rows(f)
    BY <1>3, <2>1 DEF Sending, SameOf
  <2>4. WriteRight(w, f)'
    BY <1>3, <1>4, <2>1, RightKept DEF Sending
  <2>5. Loc(item[f], f)' = Loc(item[f], f)
    BY <1>3 DEF SameOf, Loc, Spot
  <2>6. \A x \in Gone(f)' : w.op \in {"Move", "Delete"} /\ x.path # Loc(item[f], f)'
    BY <1>7, <2>1, <2>2, <2>5 DEF Sending, Awaits
  <2>7. ~Told(f)'
    BY <1>4, <1>6
  <2>8. Awaits(w, f)'
    BY <1>7, <2>2, <2>6, <2>7 DEF Awaits, Arrived
  <2>9. Phase(f)'
    BY <2>3, <2>4, <2>8 DEF Phase, Sending
  <2>10. FolderFirst(f)'
    <3>1. ~(kind = "google" /\ item[f].dir \in Folder /\ LinkedTo(db, Cloud, item[f].dir) = {})
      BY <1>2, <2>3 DEF FolderFirst
    <3> QED
      BY <1>1, <3>1 DEF FolderFirst, Polled
  <2> QED
    BY <1>3, <1>8, <2>9, <2>10 DEF Story
<1>11. CASE Resting(f) /\ Agreed(f)
  <2>1. Waiting(f)' = {} /\ Fresh(f)' = {} /\ Writing(f)' = {} /\ Sound(f)' /\ Agreed(f)'
    BY <1>3, <1>9, <1>11 DEF Resting, SameOf
  <2>2. Phase(f)'
    BY <2>1 DEF Phase, Resting
  <2>3. FolderFirst(f)'
    BY <1>2, <1>3, <2>1, LookedFirst DEF SameOf
  <2> QED
    BY <1>3, <1>8, <2>2, <2>3 DEF Story
<1> QED
  BY <1>10, <1>11

(* A file for which a change is handed over. *)
LEMMA Handed ==
  ASSUME TypeInv, NEW gid, NEW e, NEW v, NEW emitted, Looked(gid, e, v, emitted), NEW f \in File, Story(f),
         Subject(e, gid) = f, Resting(f), NEW c \in emitted, c \in Range(out') \cup doomed',
         Claims(f, c.path), Claims(f, c.to), Right(c, f), ~Told(f),
         c.type = "Update" => \A r \in Rows(f) : r.link.time < item[f].time,
         \A x \in Range(batch') : x.id # f /\ ~(x.id = None /\ Claims(f, x.path))
  PROVE  Story(f)'
<1>1. Polled /\ UNCHANGED <<token, working, expected, changes, fate>>
  BY DEF Looked
<1>2. Alone(f) /\ OneChange(f) /\ Notices(f) /\ FolderFirst(f)
  BY DEF Story
<1>3. /\ Range(out') \cup doomed' \subseteq Range(out) \cup doomed \cup emitted
      /\ \A d \in emitted : d = c
  BY LookedOut
<1>4. c.id = f
  BY LookedFor
<1>5. Waiting(f) = {} /\ Fresh(f) = {} /\ Writing(f) = {}
  BY DEF Resting
<1>6. Fresh(f)' = {c} /\ Waiting(f)' = {} /\ Writing(f)' = {}
  <2>1. \A d : d \in Fresh(f)' => d = c
    BY <1>3, <1>5 DEF Fresh
  <2>2. c \in Fresh(f)'
    BY <1>4 DEF Fresh
  <2> QED
    BY <1>1, <1>5, <2>1, <2>2 DEF Waiting, Writing, Polled
<1>7. kind' = kind /\ item' = item /\ Rows(f)' = Rows(f) /\ (Tied(f)' <=> Tied(f)) /\ feed' = feed
  BY <1>1 DEF Polled, Rows, Tied
<1>8. Loc(item[f], f)' = Loc(item[f], f) /\ Here(f)' = Here(f)
  BY <1>7 DEF Loc, Spot, Here
<1>9. \A p : Claims(f, p)' => Claims(f, p)
  <2>1. ASSUME NEW p, Tracks(f, p)' PROVE Claims(f, p)
    <3>1. CASE \E r \in Rows(f)' : r.path = p
      BY <1>7, <3>1 DEF Claims, Tracks
    <3>2. CASE p \in {c.path, c.to}
      BY <3>2
    <3> QED
      BY <1>6, <2>1, <3>1, <3>2 DEF Tracks
  <2>2. ASSUME NEW p, p # NoPath, p = Loc(item[f], f)' PROVE Claims(f, p)
    BY <1>8, <2>2 DEF Claims
  <2> QED
    BY <2>1, <2>2 DEF Claims
<1>10. Right(c, f)'
  <2>1. \A d, r : RightRow(d, r, item[f], f, Tied(f))' <=> RightRow(d, r, item[f], f, Tied(f))
    BY <1>7 DEF RightRow, Snapshot, SoundRow, Loc, Spot
  <2> QED
    BY <1>7, <1>8, <2>1 DEF Right, Snapshot
<1>11. Entries(f)' = {} /\ Gone(f)' = {}
  <2>1. ASSUME NEW x \in Gone(f)' PROVE FALSE
    <3>1. PICK p : p = x.path
      OBVIOUS
    <3>2. Claims(f, p)'
      BY <3>1 DEF Gone
    <3>3. x \in Range(batch') /\ x.id = None
      BY DEF Gone
    <3> QED
      BY <1>9, <3>1, <3>2, <3>3
  <2> QED
    BY <2>1 DEF Entries
<1>12. ~Told(f)'
  <2> SUFFICES ASSUME Told(f)' PROVE FALSE
    OBVIOUS
  <2>1. PICK n \in DOMAIN feed' : n > token' /\ (feed'[n].id = f \/ Claims(f, feed[n].key)')
    BY DEF Told
  <2>2. PICK p : p = feed[n].key
    OBVIOUS
  <2>3. p = feed'[n].key
    BY <1>7, <2>2
  <2>4. feed[n].id = f \/ Claims(f, p)'
    BY <1>7, <2>1, <2>3
  <2>5. feed[n].id = f \/ Claims(f, p)
    BY <1>9, <2>4
  <2> QED
    BY <1>1, <1>7, <2>1, <2>2, <2>5 DEF Told
<1>13. Changing(f, c)'
  <2>1. c \in Fresh(f)' /\ c.type = "Update" => \A r \in Rows(f)' : r.link.time < item'[f].time
    BY <1>7
  <2> QED
    BY <1>6, <1>10, <1>11, <1>12, <2>1 DEF Changing
<1>14. Phase(f)'
  BY <1>13 DEF Phase
<1>15. Alone(f)'
  <2>1. \A id \in File : \A p : id # f /\ Claims(f, p) /\ Touches(id, p)' => Touches(id, p)
    BY LookedTouches
  <2>2. item'[f].dir \in Folder => item'[f].dir \in HomeFolder'
    <3>1. HomeFolder' = HomeFolder
      BY <1>7, SameWorld
    <3> QED
      BY <1>2, <1>7, <3>1 DEF Alone
  <2>3. stuck' \subseteq stuck /\ db' = db /\ writes' = writes
    BY <1>1 DEF Polled
  <2>4. \A g \in Loose(db') : g \in Loose(db) /\ PathOfRow(db', g) = PathOfRow(db, g)
    BY <2>3
  <2>5. \A w \in Writing(f) : w.gid \in Loose(db') => \E u \in Writing(f)' : u.gid = w.gid
    BY <1>5
  <2>6. \A w \in writes', r \in Rows(f)' : r.gid = w.gid => w.id = f
    BY <1>2, <1>7, <2>3 DEF Alone
  <2> QED
    BY <1>2, <1>9, <2>1, <2>2, <2>3, <2>4, <2>5, <2>6, AloneLess
<1>16. OneChange(f)'
  <2>1. Once(out', f) /\ \A i \in DOMAIN out' : out'[i].id = f => \A d \in doomed' : d.id # f
    BY <1>5, LookedOut
  <2>2. Once(changes', f)
    BY <1>1, <1>2 DEF OneChange
  <2> QED
    BY <1>6, <2>1, <2>2 DEF OneChange, Once
<1>17. Agreed(f)' <=> Agreed(f)
  BY <1>7, <1>8 DEF Agreed, AgreedRow, UpToDate
<1>18. UserRec(f, 0)' <=> UserRec(f, 0)
  BY <1>7, <1>8 DEF UserRec
<1>19. LastSay(f)'
  <2>1. PICK p : p = Here(f)
    OBVIOUS
  <2>2. Claims(f, Here(f))' => Claims(f, Here(f))
    <3>1. Here(f)' = p
      BY <1>8, <2>1
    <3>2. Claims(f, Here(f))' => Claims(f, p)'
      BY <3>1
    <3> QED
      BY <1>9, <2>1, <3>2
  <2>3. LastSay(f)
    BY <1>2 DEF Notices
  <2>4. Born(f)' <=> Born(f)
    BY <1>7 DEF Born
  <2> QED
    BY <1>7, <1>8, <2>2, <2>3, <2>4 DEF LastSay
<1>20. Notices(f)'
  <2>1. Agreed(f)' \/ Writing(f)' # {} \/ UserRec(f, 0)'
    BY <1>2, <1>5, <1>17, <1>18 DEF Notices
  <2> QED
    BY <1>11, <1>19, <2>1 DEF Notices
<1>21. FolderFirst(f)'
  <2>1. Waiting(f) \cup Fresh(f) # {} => (Waiting(f) \cup Fresh(f))' # {}
    BY <1>6
  <2>2. (Waiting(f) \cup Fresh(f))' # {}
    BY <1>6
  <2> QED
    BY <1>2, <2>1, <2>2, LookedFirst
<1> QED
  BY <1>14, <1>15, <1>16, <1>20, <1>21 DEF Story

(* A change that does what an entry needs. *)
Answers(c, e, gid, v) ==
  /\ c.type \in Needs(e, gid, v) /\ c.gid = gid /\ c.to = v.to
  /\ c.path = (IF c.type = "Move" THEN v.from ELSE v.to)
  /\ c.dir = e.dir /\ c.time = e.time /\ c.hash = e.hash /\ c.by = e.by
  /\ IF {"Move", "Update"} \subseteq Needs(e, gid, v)
     THEN c.type = "Move" /\ \E u : c.then = <<u>> /\ u.dir = e.dir /\ u.time = e.time /\ u.hash = e.hash
     ELSE c.then = <<>>

(* What is not expected is handed over. *)
LEMMA HandsOver ==
  ASSUME TypeInv, NEW gid, NEW e, NEW v, NEW emitted, Looked(gid, e, v, emitted), NEW f \in File, Subject(e, gid) = f,
         Silent(f), Claims(f, v.to), v.to # NoPath, Needs(e, gid, v) # {}
  PROVE  \E c \in emitted : Answers(c, e, gid, v)
<1>1. Awaited(e, gid, v) = {}
  <2> SUFFICES ASSUME NEW type \in Awaited(e, gid, v) PROVE FALSE
    OBVIOUS
  <2>1. Expects(old, EventKey(type, Subject(e, gid), v.to), type)
    BY DEF Awaited, Subject
  <2>2. PICK key : key = EventKey(type, Subject(e, gid), v.to)
    OBVIOUS
  <2>3. key = f \/ key = v.to
    BY <2>2 DEF EventKey
  <2>4. key \in DOMAIN old
    BY <2>1, <2>2 DEF Expects
  <2> QED
    BY <2>3, <2>4 DEF Silent
<1>2. emitted = Emitted(e, gid, v)
  BY <1>1 DEF Looked
<1>3. PICK c : c \in Emitted(e, gid, v)
  BY EmittedAre
<1>4. /\ c.type \in Needs(e, gid, v) /\ c.gid = gid /\ c.to = v.to
      /\ c.path = (IF c.type = "Move" THEN v.from ELSE v.to)
      /\ c.dir = e.dir /\ c.time = e.time /\ c.hash = e.hash /\ c.by = e.by
      /\ IF {"Move", "Update"} \subseteq Needs(e, gid, v)
         THEN c.type = "Move" /\ c.then = <<ChangeOf("Update", e, gid, v)>>
         ELSE c.then = <<>>
  BY <1>3, EmittedAre
<1>5. PICK u : u = ChangeOf("Update", e, gid, v)
  OBVIOUS
<1>6. u.dir = e.dir /\ u.time = e.time /\ u.hash = e.hash
  BY <1>5 DEF ChangeOf
<1>7. {"Move", "Update"} \subseteq Needs(e, gid, v) => c.then = <<u>>
  BY <1>4, <1>5
<1>8. Answers(c, e, gid, v)
  BY <1>4, <1>6, <1>7 DEF Answers
<1> QED
  BY <1>2, <1>3, <1>8

(* Nothing else in the batch is about the file. *)
LEMMA AboutNothing ==
  ASSUME TypeInv, OnePath, NEW gid, NEW e, NEW v, NEW emitted, Looked(gid, e, v, emitted), NEW f \in File, Story(f),
         Resting(f), \/ e.id = f /\ e.path = Loc(item[f], f)
                     \/ e.id = None /\ kind = "dropbox" /\ Loc(item[f], f) = NoPath /\ ~item[f].live
                        /\ \A r \in Rows(f) : r.path = e.path
  PROVE  \A x \in Range(batch') : x.id # f /\ ~(x.id = None /\ Claims(f, x.path))
<1> SUFFICES ASSUME NEW x \in Range(batch'), x.id = f \/ (x.id = None /\ Claims(f, x.path)) PROVE FALSE
  OBVIOUS
<1>1. PICK i \in DOMAIN batch' : x = batch'[i]
  BY DEF Range
<1>2. /\ 1 \in DOMAIN batch /\ batch[1] = e /\ i \in Nat /\ i + 1 \in DOMAIN batch /\ x = batch[i + 1]
      /\ \A j \in DOMAIN batch : batch[j].id = e.id /\ (e.id = None => batch[j].path = e.path) => j = 1
  BY <1>1, LookedLeft
<1>3. i + 1 # 1
  <2>1. IsSeq(batch')
    BY Beheaded DEF Looked, TypeInv, BatchTyped
  <2>2. DOMAIN batch' = 1..Len(batch') /\ Len(batch') \in Nat
    BY <2>1, SeqFacts
  <2> QED
    BY <1>1, <1>2, <2>2
<1>4. EntryOK(x, HomeFolder, LiveFolder, kind) /\ x \in Range(batch)
  BY <1>2 DEF TypeInv, BatchTyped, Range
<1>5. f # None /\ f \in Id
  BY Names DEF Id
<1>6. CASE x.id = f
  <2>1. e.id = f => FALSE
    BY <1>2, <1>3, <1>5, <1>6
  <2>2. kind = "dropbox" /\ ~item[f].live
    BY <2>1
  <2>3. x \in Entries(f)
    BY <1>4, <1>6 DEF Entries
  <2>4. x.gone = ~item[f].live
    BY <2>3 DEF Story, Notices, Current
  <2>5. ~x.gone
    BY <1>4, <1>5, <1>6, <2>2 DEF EntryOK
  <2> QED
    BY <2>2, <2>4, <2>5
<1>7. CASE x.id = None /\ Claims(f, x.path)
  <2>1. x \in Gone(f) /\ kind = "dropbox"
    BY <1>4, <1>7, Names DEF Gone, EntryOK
  <2>2. CASE \E r \in Rows(f) : r.path = x.path
    <3>1. ~item[f].live
      BY <2>1, <2>2 DEF Story, Notices
    <3>2. e.id = f => FALSE
      <4> SUFFICES ASSUME e.id = f PROVE FALSE
        OBVIOUS
      <4>1. e \in Entries(f) /\ EntryOK(e, HomeFolder, LiveFolder, kind)
        <5>1. e \in Range(batch)
          BY LookedLeft
        <5> QED
          BY <5>1 DEF Entries, Looked
      <4>2. e.gone = ~item[f].live
        BY <4>1 DEF Story, Notices, Current
      <4>3. ~e.gone
        BY <1>5, <2>1, <4>1 DEF EntryOK
      <4> QED
        BY <3>1, <4>2, <4>3
    <3>3. x.path = e.path /\ e.id = None
      BY <2>2, <3>2
    <3> QED
      BY <1>2, <1>3, <1>7, <3>3
  <2>3. CASE x.path = Loc(item[f], f) /\ x.path # NoPath
    <3>1. e.id = f /\ x.path = e.path
      BY <2>3
    <3>2. batch[i + 1].path = batch[1].path
      BY <1>2, <3>1
    <3> QED
      BY <1>2, <1>3, <2>1, <3>2 DEF OnePath
  <2>4. Waiting(f) = {} /\ Fresh(f) = {} /\ Writing(f) = {}
    BY DEF Resting
  <2> QED
    BY <1>7, <2>2, <2>3, <2>4 DEF Claims, Tracks
<1> QED
  BY <1>6, <1>7

(* A change that leads a file's row to the file. *)
Offer(c, f) ==
  /\ Claims(f, c.path) /\ Claims(f, c.to) /\ Right(c, f)
  /\ c.type = "Update" => \A r \in Rows(f) : r.link.time < item[f].time

(* A file of which the program has not known. *)
LEMMA BehindNew ==
  ASSUME TypeInv, NEW gid, NEW e, NEW v, NEW emitted, Looked(gid, e, v, emitted), NEW f \in File, Story(f),
         e \in Entries(f), Resting(f), ~Agreed(f), Rows(f) = {}
  PROVE  \E c \in emitted : c.type = "New" /\ c.by = e.by /\ Offer(c, f)
<1>1. /\ e.id = f /\ ~Told(f) /\ Current(item[f], e) /\ e.path = Loc(item[f], f)
      /\ e.path # NoPath => ~e.gone
  BY OwnEntry
<1>2. Loc(item[f], f) # NoPath
  BY DEF Agreed
<1>3. Silent(f) /\ Waiting(f) = {} /\ Fresh(f) = {} /\ Writing(f) = {}
  BY DEF Resting, Behind
<1>4. f # None
  BY Names DEF Id
<1>5. ASSUME kind = "google", item[f].dir \in Folder
      PROVE  LinkedTo(db, Cloud, item[f].dir) # {} \/ item[f].dir \in DOMAIN pathMap
  <2> SUFFICES ASSUME LinkedTo(db, Cloud, item[f].dir) = {} PROVE item[f].dir \in DOMAIN pathMap
    OBVIOUS
  <2> DEFINE d == item[f].dir
  <2>1. /\ \A m, n \in DOMAIN feed : feed[m].id = d /\ feed[n].id = f => m < n
        /\ \/ \E n \in DOMAIN feed : n > token /\ feed[n].id = d
           \/ \E i \in DOMAIN batch :
                /\ batch[i].id = f
                /\ d \in DOMAIN pathMap \/ \E j \in DOMAIN batch : j < i /\ batch[j].id = d
    BY <1>3, <1>5 DEF Story, FolderFirst
  <2>2. CASE \E n \in DOMAIN feed : n > token /\ feed[n].id = d
    <3>1. PICK n \in DOMAIN feed : n > token /\ feed[n].id = d
      BY <2>2
    <3>2. UserRec(f, 0)
      BY <1>3 DEF Story, Notices
    <3>3. PICK m \in DOMAIN feed : feed[m].id = f
      BY <3>2 DEF UserRec
    <3>4. n < m
      BY <2>1, <3>1, <3>3
    <3>5. m \in Nat /\ n \in Nat /\ token \in Nat
      <4>1. IsSeq(feed) /\ token \in 0..Len(feed)
        BY DEF TypeInv, CloudTyped
      <4>2. DOMAIN feed = 1..Len(feed) /\ Len(feed) \in Nat
        BY <4>1, SeqFacts
      <4> QED
        BY <4>1, <4>2
    <3>6. m > token
      BY <3>1, <3>4, <3>5
    <3> QED
      BY <1>1, <3>3, <3>6 DEF Told
  <2>3. CASE \E i \in DOMAIN batch :
                /\ batch[i].id = f
                /\ d \in DOMAIN pathMap \/ \E j \in DOMAIN batch : j < i /\ batch[j].id = d
    <3>1. PICK i \in DOMAIN batch :
                /\ batch[i].id = f
                /\ d \in DOMAIN pathMap \/ \E j \in DOMAIN batch : j < i /\ batch[j].id = d
      BY <2>3
    <3>2. \A k \in DOMAIN batch : batch[k].id = e.id /\ (e.id = None => batch[k].path = e.path) => k = 1
      BY LookedLeft
    <3>3. i = 1
      BY <1>1, <1>4, <3>1, <3>2
    <3>4. \A j \in DOMAIN batch : ~(j < 1)
      <4>1. IsSeq(batch)
        BY DEF TypeInv, BatchTyped
      <4>2. DOMAIN batch = 1..Len(batch) /\ Len(batch) \in Nat
        BY <4>1, SeqFacts
      <4> QED
        BY <4>2
    <3> QED
      BY <3>1, <3>3, <3>4
  <2> QED
    BY <2>1, <2>2, <2>3
<1>6. gid = 0 /\ v.gone = e.gone /\ v.to = Loc(item[f], f)
  BY <1>2, <1>5, OwnNew
<1>7. ~v.gone
  BY <1>1, <1>2, <1>6
<1>8. "New" \in Needs(e, gid, v) /\ Needs(e, gid, v) \subseteq {"New"}
  BY <1>6, <1>7, NeedsAre
<1>9. Claims(f, v.to) /\ v.to # NoPath
  BY <1>2, <1>6 DEF Claims
<1>10. Subject(e, gid) = f
  BY <1>1, <1>4 DEF Subject
<1>11. PICK c \in emitted : /\ c.type \in Needs(e, gid, v) /\ c.gid = gid /\ c.to = v.to
                            /\ c.path = (IF c.type = "Move" THEN v.from ELSE v.to)
                            /\ c.dir = e.dir /\ c.time = e.time /\ c.hash = e.hash /\ c.by = e.by
  <2>1. Needs(e, gid, v) # {}
    BY <1>8
  <2> QED
    BY <1>3, <1>9, <1>10, <2>1, HandsOver DEF Answers
<1>12. c.type = "New" /\ c.path = v.to
  BY <1>8, <1>11
<1>13. Snapshot(c, item[f])
  BY <1>1, <1>11 DEF Snapshot, Current
<1>14. Right(c, f)
  BY <1>6, <1>12, <1>13 DEF Right
<1>15. Offer(c, f)
  BY <1>9, <1>11, <1>12, <1>14 DEF Offer
<1> QED
  BY <1>11, <1>12, <1>15

(* A file that is not any more as its row has it. *)
LEMMA BehindRow ==
  ASSUME TypeInv, NEW gid, NEW e, NEW v, NEW emitted, Looked(gid, e, v, emitted), NEW f \in File, Story(f),
         e \in Entries(f), Resting(f), ~Agreed(f), NEW r, Rows(f) = {r}, SoundRow(r, item[f], f, Tied(f))
  PROVE  \E c \in emitted : (c.type = "Delete" => kind = "google") /\ c.by = e.by /\ Offer(c, f)
<1>1. /\ e.id = f /\ Current(item[f], e) /\ e.path = Loc(item[f], f) /\ e.id \in File
  BY OwnEntry
<1>2. /\ gid # 0 /\ gid = r.gid /\ v.from = r.path /\ Link(gid) = r.link
      /\ Loc(item[f], f) = NoPath /\ r.link.parent # Elsewhere => kind = "google" /\ v.gone /\ v.to = r.path
      /\ Loc(item[f], f) # NoPath =>
              ~v.gone /\ v.to = IF kind = "google" /\ r.link.parent = item[f].dir THEN r.path ELSE Loc(item[f], f)
  BY OwnRow
<1>3. Silent(f) /\ f # None
  BY Names DEF Resting, Behind, Id
<1>4. Subject(e, gid) = f
  BY <1>1, <1>3 DEF Subject
<1>5. /\ r.link.time <= item[f].time /\ r.link.hash <= item[f].hash
      /\ r.link.hash = item[f].hash => r.link.time = item[f].time
      /\ r.link.time = item[f].time => (r.link.hash = item[f].hash \/ Tied(f))
      /\ r.link.parent # Elsewhere /\ r.path = Spot(r.link.parent, f)
      /\ kind = "dropbox" => r.link.parent = item[f].dir
  BY DEF SoundRow
<1>6. item[f].time \in Nat /\ item[f].hash \in Nat /\ r.link.time \in Nat /\ r.link.hash \in Nat /\ r.link.parent \in Dir
      /\ item[f].dir \in Dir /\ f \in Id
  BY RowIn DEF TypeInv, CloudTyped, Item, Id, LinkSet
<1>7. Claims(f, r.path) /\ Alone(f)
  BY DEF Claims, Tracks, Story
<1>8. r.path # NoPath
  BY <1>7, ClaimsIn
<1>9. e.time = item[f].time /\ e.hash = item[f].hash /\ e.dir = item[f].dir
  BY <1>1 DEF Current
<1>10. ASSUME NEW c, c.dir = e.dir, c.time = e.time, c.hash = e.hash PROVE Snapshot(c, item[f])
  BY <1>9, <1>10 DEF Snapshot
<1>11. Claims(f, v.to) /\ v.to # NoPath
  BY <1>2, <1>5, <1>7, <1>8 DEF Claims
<1>12. Needs(e, gid, v) \subseteq {"New", "Update", "Move", "Delete"} /\ "New" \notin Needs(e, gid, v)
  BY <1>2, NeedsAre DEF ChangeTypes
<1>13. Needs(e, gid, v) # {} => \E c \in emitted : Answers(c, e, gid, v)
  BY <1>3, <1>4, <1>11, HandsOver
<1>14. CASE Loc(item[f], f) = NoPath
  <2>1. kind = "google" /\ v.gone /\ v.to = r.path
    BY <1>2, <1>5, <1>14
  <2>2. Needs(e, gid, v) = {"Delete"}
    BY <1>2, <1>12, <2>1, NeedsAre
  <2>3. PICK c \in emitted : /\ c.type \in Needs(e, gid, v) /\ c.gid = gid /\ c.to = v.to
                             /\ c.path = (IF c.type = "Move" THEN v.from ELSE v.to) /\ c.by = e.by
    BY <1>13, <2>2 DEF Answers
  <2>4. c.type = "Delete" /\ c.path = r.path /\ c.to = r.path /\ c.gid = r.gid
    BY <1>2, <2>1, <2>2, <2>3
  <2>5. RightRow(c, r, item[f], f, Tied(f))
    BY <1>14, <2>4 DEF RightRow
  <2>6. Right(c, f)
    BY <2>5 DEF Right
  <2>7. Offer(c, f)
    BY <1>7, <2>4, <2>6 DEF Offer
  <2> QED
    BY <2>1, <2>3, <2>7
<1>15. CASE Loc(item[f], f) # NoPath /\ r.link.parent = item[f].dir
  <2>1. Loc(item[f], f) = Spot(item[f].dir, f)
    BY <1>7, <1>15, HereIs
  <2>2. ~v.gone /\ v.to = r.path /\ r.path = Loc(item[f], f)
    BY <1>2, <1>5, <1>15, <2>1
  <2>3. ~UpToDate(r, item[f], Tied(f))
    BY <1>15, <2>2 DEF Agreed, AgreedRow
  <2>4. r.link.time # item[f].time
    BY <1>5, <2>3 DEF UpToDate
  <2>5. r.link.time < item[f].time /\ r.link.hash < item[f].hash
    BY <1>5, <1>6, <2>4
  <2>6. e.time > Link(gid).time /\ e.hash # Link(gid).hash
    BY <1>2, <1>6, <1>9, <2>5
  <2>7. Needs(e, gid, v) = {"Update"}
    BY <1>1, <1>2, <1>12, <2>2, <2>6, NeedsAre
  <2>8. PICK c \in emitted : /\ c.type \in Needs(e, gid, v) /\ c.gid = gid /\ c.to = v.to
                             /\ c.path = (IF c.type = "Move" THEN v.from ELSE v.to) /\ c.by = e.by
                             /\ c.dir = e.dir /\ c.time = e.time /\ c.hash = e.hash
    BY <1>13, <2>7 DEF Answers
  <2>9. c.type = "Update" /\ c.path = r.path /\ c.to = r.path /\ c.gid = r.gid /\ Snapshot(c, item[f])
    BY <1>2, <1>10, <2>2, <2>7, <2>8
  <2>10. RightRow(c, r, item[f], f, Tied(f))
    BY <1>5, <1>15, <2>2, <2>5, <2>9 DEF RightRow
  <2>11. Right(c, f)
    BY <2>10 DEF Right
  <2>12. Offer(c, f)
    BY <1>7, <2>5, <2>9, <2>11 DEF Offer
  <2> QED
    BY <2>8, <2>9, <2>12
<1>16. CASE Loc(item[f], f) # NoPath /\ r.link.parent # item[f].dir
  <2>1. Loc(item[f], f) = Spot(item[f].dir, f) /\ item[f].dir # Elsewhere
    BY <1>7, <1>16, HereIs
  <2>2. kind = "google"
    BY <1>5, <1>16 DEF TypeInv, CloudTyped
  <2>3. ~v.gone /\ v.to = Loc(item[f], f)
    BY <1>2, <1>16
  <2>4. v.to # r.path
    <3>1. item[f].dir \in {Home} \cup Folder /\ r.link.parent \in {Home} \cup Folder
      BY <1>5, <1>6, <2>1 DEF Dir
    <3> QED
      BY <1>5, <1>6, <1>16, <2>1, <2>3, <3>1, OneSpot
  <2>5. "Move" \in Needs(e, gid, v) /\ "Delete" \notin Needs(e, gid, v)
    BY <1>2, <2>3, <2>4, NeedsAre
  <2>6. PICK c \in emitted :
               /\ c.type \in Needs(e, gid, v) /\ c.gid = gid /\ c.to = v.to
               /\ c.path = (IF c.type = "Move" THEN v.from ELSE v.to)
               /\ c.dir = e.dir /\ c.time = e.time /\ c.hash = e.hash /\ c.by = e.by
               /\ IF {"Move", "Update"} \subseteq Needs(e, gid, v)
                  THEN c.type = "Move" /\ \E u : c.then = <<u>> /\ u.dir = e.dir /\ u.time = e.time /\ u.hash = e.hash
                  ELSE c.then = <<>>
    BY <1>13, <2>5 DEF Answers
  <2>7. c.type = "Move"
    BY <1>12, <2>5, <2>6
  <2>8. c.path = r.path /\ c.to = Loc(item[f], f) /\ c.gid = r.gid /\ Snapshot(c, item[f])
    BY <1>2, <1>10, <2>3, <2>6, <2>7
  <2>9. \/ c.then = <<>> /\ r.link.time = item[f].time
        \/ \E u : c.then = <<u>> /\ Snapshot(u, item[f]) /\ r.link.hash < item[f].hash
    <3>1. "Update" \in Needs(e, gid, v) <=> e.time > Link(gid).time /\ e.hash # Link(gid).hash
      BY <1>1, <1>2, <2>3, NeedsAre
    <3>2. CASE "Update" \in Needs(e, gid, v)
      <4>1. PICK u : c.then = <<u>> /\ u.dir = e.dir /\ u.time = e.time /\ u.hash = e.hash
        BY <2>5, <2>6, <3>2
      <4>2. Snapshot(u, item[f])
        BY <1>10, <4>1
      <4>3. r.link.hash < item[f].hash
        BY <1>2, <1>5, <1>6, <1>9, <3>1, <3>2
      <4> QED
        BY <4>1, <4>2, <4>3
    <3>3. CASE "Update" \notin Needs(e, gid, v)
      <4>1. c.then = <<>>
        BY <2>6, <3>3
      <4>2. r.link.time = item[f].time
        BY <1>2, <1>5, <1>6, <1>9, <3>1, <3>3
      <4> QED
        BY <4>1, <4>2
    <3> QED
      BY <3>2, <3>3
  <2>10. RightRow(c, r, item[f], f, Tied(f))
    BY <1>16, <2>2, <2>7, <2>8, <2>9 DEF RightRow
  <2>11. Right(c, f)
    BY <2>10 DEF Right
  <2>12. Offer(c, f)
    BY <1>7, <1>11, <2>3, <2>7, <2>8, <2>11 DEF Offer
  <2> QED
    BY <2>6, <2>7, <2>12
<1> QED
  BY <1>14, <1>15, <1>16

(* An entry about a file that the database does not have right. *)
LEMMA BehindHands ==
  ASSUME TypeInv, OnePath, NEW gid, NEW e, NEW v, NEW emitted, Looked(gid, e, v, emitted), NEW f \in File, Story(f),
         e \in Entries(f), Resting(f), ~Agreed(f)
  PROVE  Story(f)' /\ e.by = "user"
<1>1. /\ e.id = f /\ ~Told(f) /\ e.path = Loc(item[f], f) /\ EntryOK(e, HomeFolder, LiveFolder, kind)
  BY OwnEntry
<1>2. e.by = "user"
  <2>1. e.by \in {"user", "program"}
    BY <1>1 DEF EntryOK
  <2>2. Writing(f) = {}
    BY DEF Resting
  <2> QED
    BY <2>1, <2>2 DEF Story, Notices
<1>3. \E c \in emitted : (c.type = "Delete" => kind = "google") /\ Offer(c, f)
  <2>1. CASE Rows(f) = {}
    BY <2>1, BehindNew
  <2>2. CASE Rows(f) # {}
    <3>1. PICK r : Rows(f) = {r} /\ SoundRow(r, item[f], f, Tied(f))
      BY <2>2 DEF Resting, Sound
    <3> QED
      BY <3>1, BehindRow
  <2> QED
    BY <2>1, <2>2
<1>4. PICK c \in emitted : (c.type = "Delete" => kind = "google") /\ Offer(c, f)
  BY <1>3
<1>5. c \in Range(out') \cup doomed'
  <2>1. \/ c \in Range(out') \cup doomed'
        \/ kind = "dropbox" /\ c.type = "Delete"
    BY LookedOut
  <2> QED
    BY <1>4, <2>1
<1>6. \A x \in Range(batch') : x.id # f /\ ~(x.id = None /\ Claims(f, x.path))
  BY <1>1, AboutNothing
<1>7. Subject(e, gid) = f
  <2>1. f # None
    BY Names DEF Id
  <2> QED
    BY <1>1, <2>1 DEF Subject
<1>8. Claims(f, c.path) /\ Claims(f, c.to) /\ Right(c, f)
      /\ (c.type = "Update" => \A r \in Rows(f) : r.link.time < item[f].time)
  BY <1>4 DEF Offer
<1> QED
  BY <1>1, <1>2, <1>5, <1>6, <1>7, <1>8, Handed

(* An entry about what is gone at the place of a file. *)
LEMMA GoneHands ==
  ASSUME TypeInv, OnePath, NEW gid, NEW e, NEW v, NEW emitted, Looked(gid, e, v, emitted), NEW f \in File, Story(f),
         Subject(e, gid) = f, e.id = None, gid # 0, kind = "dropbox", e \in Gone(f), v.to = e.path, v.gone,
         e.path # NoPath, \E r \in Rows(f) : r.gid = gid, \E r \in Rows(f) : r.path = e.path
  PROVE  Story(f)' /\ e.by = "user"
<1>1. ~item[f].live /\ Writing(f) = {} /\ e.by = "user" /\ ~Told(f)
  BY DEF Story, Notices
<1>2. Resting(f)
  <2>1. \A c : ~Changing(f, c)
    BY DEF Changing
  <2>2. \A w : ~Sending(f, w)
    BY <1>1 DEF Sending
  <2> QED
    BY <2>1, <2>2 DEF Story, Phase
<1>3. PICK r : Rows(f) = {r} /\ SoundRow(r, item[f], f, Tied(f))
  BY <1>2 DEF Resting, Sound
<1>4. r.gid = gid /\ r.path = e.path
  BY <1>3
<1>5. Loc(item[f], f) = NoPath
  BY <1>1 DEF Loc
<1>6. Silent(f) /\ Fresh(f) = {}
  BY <1>2, <1>3, <1>5 DEF Resting, Behind, Agreed
<1>7. Claims(f, v.to) /\ Claims(f, e.path) /\ Alone(f)
  BY DEF Gone, Story
<1>8. Needs(e, gid, v) = {"Delete"}
  <2>1. Needs(e, gid, v) \subseteq {"New", "Update", "Move", "Delete"}
    BY NeedsAre DEF ChangeTypes
  <2> QED
    BY <2>1, NeedsAre
<1>9. PICK c \in emitted : Answers(c, e, gid, v)
  BY <1>6, <1>7, <1>8, HandsOver
<1>10. c.type = "Delete" /\ c.gid = gid /\ c.to = e.path /\ c.path = e.path
  BY <1>8, <1>9 DEF Answers
<1>11. RightRow(c, r, item[f], f, Tied(f))
  BY <1>3, <1>4, <1>5, <1>10 DEF RightRow
<1>12. Right(c, f)
  BY <1>3, <1>11 DEF Right
<1>13. c \in Range(out') \cup doomed'
  <2> SUFFICES ASSUME c \notin Range(out') \cup doomed' PROVE FALSE
    OBVIOUS
  <2>1. \E other \in doomed : other.path = c.path
    BY LookedOut
  <2>2. PICK other \in doomed : other.path = e.path
    BY <1>10, <2>1
  <2>3. ChangeOK(other, db, HomeFolder)
    BY DEF TypeInv, ChangesTyped, InProgress
  <2>4. other.id \in Id /\ other.path \in Spots(other.id, HomeFolder)
    BY <2>3 DEF ChangeOK
  <2>5. other.id # f
    BY <1>6 DEF Fresh
  <2>6. other.id \notin File
    <3> SUFFICES ASSUME other.id \in File PROVE FALSE
      OBVIOUS
    <3>1. PICK id : id = other.id
      OBVIOUS
    <3>2. other \in Fresh(id)
      BY <3>1 DEF Fresh
    <3>3. Tracks(id, e.path)
      BY <2>2, <3>2 DEF Tracks
    <3>4. Touches(id, e.path)
      BY <3>3 DEF Touches
    <3> QED
      BY <1>7, <2>5, <3>1, <3>4 DEF Alone
  <2>7. other.id \in Folder
    BY <2>4, <2>6 DEF Id
  <2>8. other.path = FolderPath(other.id)
    BY <2>4, <2>7, FolderSpots
  <2> QED
    BY <1>7, <2>2, <2>7, <2>8, ClaimsIn
<1>14. \A x \in Range(batch') : x.id # f /\ ~(x.id = None /\ Claims(f, x.path))
  <2>1. \A s \in Rows(f) : s.path = e.path
    BY <1>3, <1>4
  <2> QED
    BY <1>1, <1>2, <1>5, <2>1, AboutNothing
<1>15. Claims(f, c.path) /\ Claims(f, c.to) /\ c.type # "Update"
  BY <1>7, <1>10
<1> QED
  BY <1>1, <1>2, <1>12, <1>13, <1>14, <1>15, Handed

(* The file that an entry is about. *)
LEMMA LookedOwn ==
  ASSUME TypeInv, OnePath, NEW gid, NEW e, NEW v, NEW emitted, Looked(gid, e, v, emitted), NEW f \in File, Story(f),
         Subject(e, gid) = f
  PROVE  Story(f)' /\ (emitted = {} \/ e.by = "user")
<1>1. CASE e.id = f /\ e \in Entries(f)
  <2>1. \A c : ~Changing(f, c)
    BY <1>1 DEF Changing
  <2>2. (\E w : Sending(f, w)) \/ Resting(f)
    BY <2>1 DEF Story, Phase
  <2>3. CASE \E w : Sending(f, w)
    <3>1. emitted = {}
      BY <1>1, <2>3, SendingSilent
    <3> QED
      BY <1>1, <2>3, <3>1, LookedStays
  <2>4. CASE Resting(f) /\ Agreed(f)
    <3>1. emitted = {}
      BY <1>1, <2>4, AgreedSilent
    <3> QED
      BY <1>1, <2>4, <3>1, LookedStays
  <2>5. CASE Resting(f) /\ ~Agreed(f)
    BY <1>1, <2>5, BehindHands
  <2> QED
    BY <2>2, <2>3, <2>4, <2>5
<1>2. CASE /\ e.id = None /\ gid # 0 /\ kind = "dropbox" /\ e \in Gone(f) /\ v.to = e.path /\ v.gone
           /\ e.path # NoPath /\ \E r \in Rows(f) : r.gid = gid
           /\ \E r \in Rows(f) : r.path = e.path
  BY <1>2, GoneHands
<1>3. \/ e.id = f /\ e \in Entries(f)
      \/ /\ e.id = None /\ gid # 0 /\ kind = "dropbox" /\ e \in Gone(f) /\ v.to = e.path /\ v.gone
         /\ e.path # NoPath /\ \E r \in Rows(f) : r.gid = gid
         /\ \E r \in Rows(f) : r.path = e.path
  BY OwnSubject
<1> QED
  BY <1>1, <1>2, <1>3

(* A folder that an entry is about is handed over. *)
LEMMA LookedFolder ==
  ASSUME TypeInv, NEW gid, NEW e, NEW v, NEW emitted, Looked(gid, e, v, emitted), NEW d \in HomeFolder,
         e.id = d, LinkedTo(db, Cloud, d) = {}
  PROVE  \E c \in emitted : c.id = d /\ c \in Range(out') \cup doomed'
<1>1. EntryOK(e, HomeFolder, LiveFolder, kind) /\ gid \in Lookup(e) /\ v = Verdict(e, gid)
  BY DEF Looked
<1>2. d \in Folder /\ d \in Id /\ d # None /\ HomeFolder \in SUBSET Folder
  BY HomesAreLive, Names DEF Id
<1>3. ~e.gone /\ e.dir = Home /\ e.path = Seen(~e.gone, e.dir, e.id, HomeFolder) /\ kind \in {"google", "dropbox"}
  BY <1>1, <1>2 DEF EntryOK, TypeInv, CloudTyped
<1>4. gid = 0
  <2>1. Known(e.id) = {}
    BY DbNames
  <2> QED
    BY <1>1, <1>2, <2>1 DEF Lookup
<1>5. ~v.gone
  BY <1>1, <1>3, <1>4 DEF Verdict, GoogleVerdict, DropboxVerdict
<1>6. v.to = FolderPath(d)
  <2>1. CASE kind = "google"
    BY <1>1, <1>2, <1>4, <2>1, VerdictIs
  <2>2. CASE kind = "dropbox"
    <3>1. v.to = e.path
      BY <1>1, <2>2 DEF Verdict, DropboxVerdict
    <3>2. e.path = Spot(Home, d)
      <4>1. Home # Elsewhere /\ Home \notin Folder
        BY Names DEF Id
      <4> QED
        BY <1>2, <1>3, <4>1 DEF Seen
    <3> QED
      BY <1>2, <3>1, <3>2, FolderSpots
  <2> QED
    BY <1>3, <2>1, <2>2
<1>7. Needs(e, gid, v) = {"New"}
  BY <1>4, <1>5 DEF Needs
<1>8. Awaited(e, gid, v) = {}
  <2> SUFFICES ASSUME NEW type \in Awaited(e, gid, v) PROVE FALSE
    OBVIOUS
  <2>1. type = "New"
    BY <1>7 DEF Awaited
  <2>2. \E id : Expects(old, EventKey(type, id, v.to), type)
    BY DEF Awaited
  <2>3. v.to \in DOMAIN old
    BY <2>1, <2>2 DEF EventKey, Expects
  <2>4. v.to \in File \cup FileSpots(HomeFolder)
    BY <2>3 DEF TypeInv, ExpectedTyped, RegistryOK
  <2>5. FolderPath(d) \notin FileSpots(HomeFolder)
    BY <1>2, FolderSpots
  <2>6. FolderPath(d) \notin Id
    <3>1. FolderPath(d) = Spot(Home, d)
      BY <1>2, FolderSpots
    <3>2. Spot(Home, d) \notin Id
      BY <1>2, SpotKinds
    <3> QED
      BY <3>1, <3>2
  <2> QED
    BY <1>6, <2>4, <2>5, <2>6 DEF Id
<1>9. v.to # NoPath
  BY <1>2, <1>6, FolderSpots
<1>10. emitted = Emitted(e, gid, v)
  BY <1>8, <1>9 DEF Looked
<1>11. PICK c \in emitted : c.type \in Needs(e, gid, v)
  BY <1>7, <1>10, EmittedAre
<1>12. c.id = d
  <2>1. c.id = Subject(e, gid)
    BY LookedFor
  <2> QED
    BY <1>2, <2>1 DEF Subject
<1>13. c \in Range(out') \cup doomed'
  <2>1. c.type # "Delete"
    BY <1>7, <1>11
  <2> QED
    BY <2>1, LookedOut
<1> QED
  BY <1>12, <1>13

(* What is handed over has been in the cloud. *)
LEMMA LookedBorn ==
  ASSUME TypeInv, Births, NEW gid, NEW e, NEW v, NEW emitted, Looked(gid, e, v, emitted), NEW c \in emitted
  PROVE  Born(c.id)
<1>1. c.id = Subject(e, gid) /\ c.id \in Id
  BY LookedFor DEF ChangeOK
<1>2. CASE e.id # None
  <2>1. 1 \in DOMAIN batch /\ batch[1] = e
    BY LookedLeft
  <2> QED
    BY <1>1, <1>2, <2>1 DEF Subject, Births
<1>3. CASE e.id = None
  <2>1. gid # 0 /\ c.id = Link(gid).id
    BY <1>1, <1>3, Names DEF Subject
  <2>2. EntryOK(e, HomeFolder, LiveFolder, kind) /\ gid \in Lookup(e) /\ v = Verdict(e, gid)
    BY DEF Looked
  <2>3. Linked(gid)
    BY <2>1, <2>2, VerdictIs
  <2>4. LinkedIn(db, gid) /\ Link(gid) = LinkIn(db, gid)
    BY <2>3, DbNames
  <2>5. gid \in DOMAIN db.files
    BY <2>4, Key DEF TypeInv, DbTyped, DbOK
  <2> QED
    BY <2>1, <2>4, <2>5 DEF Births
<1> QED
  BY <1>2, <1>3

LEMMA LookedRest ==
  ASSUME Inv, NEW gid, NEW e, NEW v, NEW emitted, Looked(gid, e, v, emitted)
  PROVE  Births' /\ OnePath' /\ FolderStory' /\ ThrownOver'
<1>1. Polled /\ UNCHANGED <<token, working, expected, changes, fate>>
  BY DEF Looked
<1>2. TypeInv /\ Births /\ OnePath /\ FolderStory /\ ThrownOver
  BY DEF Inv
<1>3. /\ \A i \in DOMAIN batch' : i \in Nat /\ i + 1 \in DOMAIN batch /\ batch'[i] = batch[i + 1]
      /\ \A i \in DOMAIN batch : i \in Nat /\ (i = 1 \/ (i - 1 \in DOMAIN batch' /\ batch'[i - 1] = batch[i]))
      /\ 1 \in DOMAIN batch /\ batch[1] = e
  BY <1>2, LookedLeft
<1>4. /\ Range(out') \cup doomed' \subseteq Range(out) \cup doomed \cup emitted
      /\ \A c \in Range(out) : c \in Range(out')
      /\ \A c \in doomed : c \in doomed' \/ \E m \in emitted : m.type = "Move" /\ m.to = c.path
  BY <1>2, LookedOut
<1>5. Births'
  <2>1. \A i \in DOMAIN batch' : batch'[i].id = None \/ Born(batch'[i].id)
    BY <1>2, <1>3 DEF Births
  <2>2. \A c \in InProgress' : Born(c.id)
    <3>1. \A c \in InProgress' : c \in InProgress \/ c \in emitted
      BY <1>1, <1>4 DEF InProgress
    <3>2. \A c \in InProgress : Born(c.id)
      BY <1>2 DEF Births
    <3>3. \A c \in emitted : Born(c.id)
      BY <1>2, LookedBorn
    <3> QED
      BY <3>1, <3>2, <3>3
  <2> QED
    BY <1>1, <1>2, <2>1, <2>2, PolledBirths
<1>6. OnePath'
  <2> SUFFICES ASSUME kind' = "dropbox", NEW i \in DOMAIN batch', NEW j \in DOMAIN batch', batch'[i].path = batch'[j].path
               PROVE  i = j
    BY DEF OnePath
  <2>1. batch[i + 1].path = batch[j + 1].path /\ i + 1 \in DOMAIN batch /\ j + 1 \in DOMAIN batch /\ kind = "dropbox"
    BY <1>1, <1>3 DEF Polled
  <2>2. i + 1 = j + 1
    BY <1>2, <2>1 DEF OnePath
  <2> QED
    BY <1>3, <2>2
<1>7. HomeFolder' = HomeFolder /\ db' = db /\ feed' = feed /\ token' = token
  BY <1>1, SameWorld DEF Polled
<1>8. FolderStory'
  <2> SUFFICES ASSUME NEW d \in HomeFolder, LinkedTo(db, Cloud, d) = {}
               PROVE  \E n \in DOMAIN feed :
                        /\ feed[n].id = d
                        /\ n > token \/ (\E i \in DOMAIN batch' : batch'[i].id = d) \/ \E c \in InProgress' : c.id = d
    BY <1>7 DEF FolderStory
  <2>1. PICK n \in DOMAIN feed :
          /\ feed[n].id = d
          /\ n > token \/ (\E i \in DOMAIN batch : batch[i].id = d) \/ \E c \in InProgress : c.id = d
    BY <1>2 DEF FolderStory
  <2>2. CASE \E i \in DOMAIN batch : batch[i].id = d
    <3>1. PICK i \in DOMAIN batch : batch[i].id = d
      BY <2>2
    <3>2. CASE i = 1
      <4>1. e.id = d
        BY <1>3, <3>1, <3>2
      <4>2. \E c \in emitted : c.id = d /\ c \in Range(out') \cup doomed'
        BY <1>2, <4>1, LookedFolder
      <4>3. \E c \in InProgress' : c.id = d
        BY <4>2 DEF InProgress
      <4> QED
        BY <2>1, <4>3
    <3>3. CASE i # 1
      <4>1. i - 1 \in DOMAIN batch' /\ batch'[i - 1].id = d
        BY <1>3, <3>1, <3>3
      <4> QED
        BY <2>1, <4>1
    <3> QED
      BY <3>2, <3>3
  <2>3. CASE \E c \in InProgress : c.id = d
    <3>1. PICK c \in InProgress : c.id = d
      BY <2>3
    <3>2. c \in Range(changes') \cup Range(out') \cup doomed'
      <4> SUFFICES ASSUME c \in doomed, c \notin doomed' PROVE FALSE
        BY <1>1, <1>4, <3>1 DEF InProgress
      <4>1. PICK m \in emitted : m.type = "Move" /\ m.to = c.path
        BY <1>4
      <4>2. ChangeOK(m, db, HomeFolder)
        BY <1>2, LookedFor
      <4>3. m.id \in File /\ m.to \in Spots(m.id, HomeFolder)
        BY <4>1, <4>2 DEF ChangeOK
      <4>4. c.path \in Spots(d, HomeFolder)
        BY <1>2, <3>1 DEF TypeInv, ChangesTyped, ChangeOK
      <4>5. HomeFolder \in SUBSET Folder /\ d \in Folder
        BY HomesAreLive
      <4>6. c.path = FolderPath(d) /\ FolderPath(d) \notin FileSpots(HomeFolder)
        BY <4>4, <4>5, FolderSpots
      <4>7. m.to \in FileSpots(HomeFolder)
        BY <4>3, <4>5, SpotsIn
      <4> QED
        BY <4>1, <4>6, <4>7
    <3>3. c \in InProgress'
      BY <3>2 DEF InProgress
    <3> QED
      BY <2>1, <3>1, <3>3
  <2> QED
    BY <2>1, <2>2, <2>3
<1>9. ThrownOver'
  BY <1>1, <1>2 DEF ThrownOver, Clean, Polled
<1> QED
  BY <1>5, <1>6, <1>8, <1>9

LEMMA EntryStepKept ==
  ASSUME Inv, TypeInv', NEW gid, Entry(gid) PROVE Inv'
<1>1. TypeInv /\ Stories /\ OnePath
  BY DEF Inv
<1>2. PICK e, v, emitted : Looked(gid, e, v, emitted)
  BY <1>1, LookedAt
<1>3. Births' /\ OnePath' /\ FolderStory' /\ ThrownOver'
  BY <1>2, LookedRest
<1>4. Stories'
  <2> SUFFICES ASSUME NEW f \in File, Clean(f)' PROVE Story(f)'
    BY DEF Stories
  <2>1. fate' = fate
    BY <1>2 DEF Looked
  <2>2. Clean(f)
    BY <2>1, SameFate
  <2>3. Story(f)
    BY <1>1, <2>2 DEF Stories
  <2>4. CASE Subject(e, gid) = f
    BY <1>1, <1>2, <2>3, <2>4, LookedOwn
  <2>5. CASE Subject(e, gid) # f
    BY <1>1, <1>2, <2>3, <2>5, LookedElse
  <2> QED
    BY <2>4, <2>5
<1> QED
  BY <1>3, <1>4 DEF Inv

LEMMA PollKept ==
  ASSUME Inv, TypeInv', Poll PROVE Inv'
<1>1. ASSUME FetchPages PROVE Inv'
  BY <1>1, EndKept DEF FetchPages
<1> QED
  BY <1>1, FetchKept, TakeBatchKept, EntryStepKept, BatchDoneKept DEF Poll

LEMMA NextKept ==
  ASSUME Inv, [Next]_vars PROVE Inv'
<1>1. TypeInv'
  BY NextTyped DEF Inv
<1> QED
  BY <1>1, UsersKept, PollKept, CarryKept, OwnKept, CrashKept, StutterKept DEF Next, Rest

LEMMA InvHolds == Spec => []Inv
<1>1. Init => Inv
  BY InitKept
<1>2. Inv /\ [Next]_vars => Inv'
  BY NextKept
<1> QED
  BY <1>1, <1>2, PTL DEF Spec

(* Which steps hand over, and which end the process. *)
LEMMA Steps ==
  ASSUME [Next]_vars
  PROVE  /\ \/ \E gid : Entry(gid)
            \/ out' = out /\ doomed' = doomed
            \/ out' = <<>> /\ doomed' = {}
         /\ \/ status' \in {status, "up", "killed", "pages"}
            \/ \E k \in DOMAIN changes : Throws(k) /\ status' = changes[k].id
<1>1. CASE InCloud
  BY <1>1, ZenonT(30) DEF InCloud, UserCreates, UserMoves, UserTrashes, UserRestores, UserEdits, User, batchVars
<1>2. CASE Poll
  <2>1. CASE Fetch
    BY <2>1 DEF Fetch
  <2>2. CASE FetchPages
    BY <2>2 DEF FetchPages, Stop
  <2>3. CASE TakeBatch
    BY <2>3 DEF TakeBatch
  <2>4. CASE \E gid \in 0..db.lastId : Entry(gid)
    BY <2>4 DEF Entry
  <2>5. CASE BatchDone
    BY <2>5 DEF BatchDone
  <2> QED
    BY <1>2, <2>1, <2>2, <2>3, <2>4, <2>5 DEF Poll
<1>3. CASE Carry
  <2>1. PICK k \in DOMAIN changes :
          CarryNew(k) \/ CarryUpdate(k) \/ CarryMove(k) \/ CarryDelete(k) \/ Throws(k) \/ CarryFails(k)
    BY <1>3 DEF Carry
  <2>2. CASE CarryNew(k)
    BY <2>2 DEF CarryNew, Carried, batchVars
  <2>3. CASE CarryUpdate(k)
    BY <2>3 DEF CarryUpdate, Carried, batchVars
  <2>4. CASE CarryMove(k)
    BY <2>4 DEF CarryMove, Carried, batchVars
  <2>5. CASE CarryDelete(k)
    BY <2>5 DEF CarryDelete, Carried, batchVars
  <2>6. CASE CarryFails(k)
    BY <2>6 DEF CarryFails, batchVars
  <2>7. CASE Throws(k)
    <3>1. status' = changes[k].id /\ out' = <<>> /\ doomed' = {}
      BY <2>7 DEF Throws, Stop
    <3> QED
      BY <2>7, <3>1
  <2> QED
    BY <2>1, <2>2, <2>3, <2>4, <2>5, <2>6, <2>7
<1>4. CASE Write
  <2>1. ASSUME NEW id, NEW dir, BeginUpload(id, dir) PROVE out' = out /\ doomed' = doomed /\ status' = status
    BY <2>1 DEF BeginUpload, Begin, batchVars
  <2>2. ASSUME NEW gid, BeginUpdate(gid) PROVE out' = out /\ doomed' = doomed /\ status' = status
    BY <2>2 DEF BeginUpdate, Begin, batchVars
  <2>3. ASSUME NEW gid, BeginDelete(gid) PROVE out' = out /\ doomed' = doomed /\ status' = status
    BY <2>3 DEF BeginDelete, Begin, batchVars
  <2>4. ASSUME NEW gid, NEW dir, BeginMove(gid, dir) PROVE out' = out /\ doomed' = doomed /\ status' = status
    BY <2>4 DEF BeginMove, Begin, batchVars
  <2>5. ASSUME NEW w, Send(w) \/ Arrive(w) \/ GoesAstray(w) \/ Finish(w) \/ Fail(w)
        PROVE  out' = out /\ doomed' = doomed /\ status' = status
    BY <2>5 DEF Send, Arrive, GoesAstray, Finish, Fail, batchVars
  <2> QED
    BY <1>4, <2>1, <2>2, <2>3, <2>4, <2>5 DEF Write
<1>5. CASE Crash
  <2>1. CASE Die
    BY <2>1 DEF Die, Stop
  <2>2. CASE \E k \in DOMAIN changes : DieMidway(k)
    BY <2>2 DEF DieMidway, Stop
  <2>3. CASE Restart
    BY <2>3 DEF Restart, batchVars
  <2> QED
    BY <1>5, <2>1, <2>2, <2>3 DEF Crash
<1>6. CASE UNCHANGED vars
  BY <1>6 DEF vars, batchVars
<1> QED
  BY <1>1, <1>2, <1>3, <1>4, <1>5, <1>6 DEF Next, Rest

(* It does not end over a folder. *)
NotOverFolder == status \notin Folder
LEMMA NeverFolder == Spec => []NotOverFolder
<1>1. Init => NotOverFolder
  BY Names DEF Init, Id, NotOverFolder
<1>2. TypeInv /\ NotOverFolder /\ [Next]_vars => NotOverFolder'
  <2> SUFFICES ASSUME TypeInv, status \notin Folder, [Next]_vars PROVE status' \notin Folder
    BY DEF NotOverFolder
  <2>1. CASE status' \in {status, "up", "killed", "pages"}
    BY <2>1, Names DEF Id
  <2>2. CASE \E k \in DOMAIN changes : Throws(k) /\ status' = changes[k].id
    <3>1. PICK k \in DOMAIN changes : Throws(k) /\ status' = changes[k].id
      BY <2>2
    <3>2. changes[k].type # "New" /\ ChangeOK(changes[k], db, HomeFolder)
      BY <3>1, ChangeIs DEF Throws
    <3>3. changes[k].id \in File
      BY <3>2 DEF ChangeOK
    <3> QED
      BY <3>1, <3>3, Names
  <2> QED
    BY <2>1, <2>2, Steps
<1> QED
  BY <1>1, <1>2, TypeHolds, PTL DEF Spec

(* Of a file that nobody else wrote to while the program was at work on it, a  *)
(* change is made for the row that the file still has when the change's turn   *)
(* comes, so that no command throws over it and ends the daemon.              *)
THEOREM ThrowsOnlyOverRaces == Spec => []ThrowsOnlyOnRaces
<1>1. Inv /\ NotOverFolder => ThrowsOnlyOnRaces
  BY DEF NotOverFolder, ThrowsOnlyOnRaces, Inv, ThrownOver, Clean, Id
<1> QED
  BY <1>1, InvHolds, NeverFolder, PTL

(* What only the program wrote to the cloud is either expected when the entry  *)
(* about it is looked at, or recorded in the database already: no change from  *)
(* the cloud is made of it.                                                *)
THEOREM NothingEchoes == Spec => NoEcho
<1>1. Inv /\ [Next]_vars =>
        [\A c \in (Range(out') \cup doomed') \ (Range(out) \cup doomed) :
           c.by = "program" /\ c.id \in File => fate[c.id] # {}]_vars
  <2> SUFFICES ASSUME Inv, [Next]_vars, NEW c \in (Range(out') \cup doomed') \ (Range(out) \cup doomed),
                      c.by = "program", c.id \in File, fate[c.id] = {}
               PROVE  FALSE
    OBVIOUS
  <2>1. PICK f \in File : f = c.id
    OBVIOUS
  <2>2. PICK gid : Entry(gid)
    BY Steps, NothingSeq
  <2>3. TypeInv /\ OnePath /\ Stories
    BY DEF Inv
  <2>4. PICK e, v, emitted : Looked(gid, e, v, emitted)
    BY <2>2, <2>3, LookedAt
  <2>5. c \in emitted
    <3>1. Range(out') \cup doomed' \subseteq Range(out) \cup doomed \cup emitted
      BY <2>3, <2>4, LookedOut
    <3> QED
      BY <3>1
  <2>6. c.id = Subject(e, gid)
    BY <2>3, <2>4, <2>5, LookedFor
  <2>7. c.by = e.by
    <3>1. c \in Emitted(e, gid, v)
      BY <2>3, <2>4, <2>5, LookedOut
    <3> QED
      BY <3>1, EmittedAre
  <2>8. Story(f)
    BY <2>1, <2>3 DEF Stories, Clean
  <2>9. emitted = {} \/ e.by = "user"
    BY <2>1, <2>3, <2>4, <2>6, <2>8, LookedOwn
  <2> QED
    BY <2>5, <2>7, <2>9
<1> QED
  BY <1>1, InvHolds, PTL DEF Spec, NoEcho

(* Of the changes that wait, the first of its path can start unless a failed   *)
(* command keeps the path.                                                *)
LEMMA NothingWaits ==
  ASSUME TypeInv, Quiet, NEW c \in Range(changes), c.path \notin stuck
  PROVE  FALSE
<1>1. IsSeq(changes)
  BY DEF TypeInv, ChangesTyped
<1>2. DOMAIN changes = 1..Len(changes) /\ Len(changes) \in Nat
  BY <1>1, SeqFacts
<1> DEFINE S == {k \in DOMAIN changes : changes[k].path = c.path}
<1>3. S \in SUBSET Nat /\ S # {}
  BY <1>2 DEF Range
<1>4. PICK k \in S : \A j \in S : k <= j
  BY <1>3, Smallest
<1>5. \A j \in DOMAIN changes : j < k => changes[j].path # changes[k].path
  BY <1>2, <1>4
<1>6. changes[k].path \notin Occupied
  BY <1>4 DEF Quiet, Occupied
<1>7. Ready(k)
  BY <1>5, <1>6 DEF Ready, Quiet
<1> QED
  BY <1>4, <1>7 DEF Quiet

(* When all has come to its end, nothing is left to do for a file. *)
LEMMA QuietIs ==
  ASSUME TypeInv, Quiet
  PROVE  /\ Range(batch) = {} /\ DOMAIN batch = {} /\ Range(out) = {} /\ doomed = {} /\ writes = {}
         /\ \A n \in DOMAIN feed : ~(n > token)
<1>1. batch = <<>> /\ out = <<>> /\ doomed = {} /\ writes = {} /\ Unread = <<>>
  BY DEF Quiet, TypeInv, RestTyped
<1>2. \A n \in DOMAIN feed : ~(n > token)
  <2>1. CloudTyped
    BY DEF TypeInv
  <2> QED
    BY <1>1, <2>1, UnreadIs, NothingSeq
<1> QED
  BY <1>1, <1>2, NothingSeq

LEMMA FileAgrees ==
  ASSUME Inv, Quiet, NEW f \in File, fate[f] = {}
  PROVE  Agrees(f)
<1>1. TypeInv /\ Story(f) /\ ~Tied(f) /\ f \in Id
  BY DEF Inv, Stories, Clean, Tied, Id
<1>2. /\ Range(batch) = {} /\ DOMAIN batch = {} /\ Range(out) = {} /\ doomed = {} /\ writes = {}
      /\ \A n \in DOMAIN feed : ~(n > token)
  BY <1>1, QuietIs
<1>3. Fresh(f) = {} /\ Writing(f) = {} /\ Entries(f) = {} /\ Gone(f) = {}
  BY <1>2 DEF Fresh, Writing, Entries, Gone
<1>4. \A c : ~Changing(f, c)
  <2> SUFFICES ASSUME NEW c, Changing(f, c) PROVE FALSE
    OBVIOUS
  <2>1. c \in Waiting(f)
    BY <1>3 DEF Changing
  <2>2. PICK p : p = c.path
    OBVIOUS
  <2>3. Claims(f, p)
    BY <2>1, <2>2 DEF Claims, Tracks
  <2>4. c.path \notin stuck /\ c \in Range(changes)
    BY <1>1, <2>1, <2>2, <2>3 DEF Story, Alone, Waiting
  <2> QED
    BY <1>1, <2>4, NothingWaits
<1>5. \A w : ~Sending(f, w)
  BY <1>3 DEF Sending
<1>6. Agreed(f)
  <2>1. Agreed(f) \/ Behind(f)
    BY <1>1, <1>4, <1>5 DEF Story, Phase, Resting
  <2>2. ~Behind(f)
    BY <1>2, <1>3 DEF Behind, UserRec
  <2> QED
    BY <2>1, <2>2
<1>7. Loc(item[f], f) = PathOf(f)
  BY <1>1, LocIs DEF Story, Alone
<1>8. Tables(db)
  BY <1>1 DEF TypeInv, DbTyped, DbOK
<1>9. CASE PathOf(f) = NoPath
  <2>1. RowsIn(db, f) = {}
    BY <1>6, <1>7, <1>9 DEF Agreed, Rows
  <2>2. Known(f) = {}
    BY <1>8, <2>1, RowsAre, DbNames
  <2> QED
    BY <1>9, <2>2 DEF Agrees
<1>10. CASE PathOf(f) # NoPath
  <2>1. PICK r : Rows(f) = {r} /\ AgreedRow(r, item[f], f, Tied(f))
    BY <1>6, <1>7, <1>10 DEF Agreed
  <2>2. r.path = PathOf(f) /\ r.link.time = item[f].time /\ r.link.hash = item[f].hash
    BY <1>1, <1>7, <2>1 DEF AgreedRow, UpToDate
  <2>3. RowsIn(db, f) = {r}
    BY <2>1 DEF Rows
  <2>4. /\ r.gid \in DOMAIN db.files /\ LinkedIn(db, r.gid) /\ r.path = PathOfRow(db, r.gid)
        /\ r.link = LinkIn(db, r.gid) /\ LinkedTo(db, Cloud, f) = {r.gid}
    BY <1>8, <2>3, RowsAre
  <2>5. Known(f) = {r.gid} /\ RowPath(r.gid) = PathOf(f) /\ Link(r.gid).time = item[f].time /\ Link(r.gid).hash = item[f].hash
    BY <2>2, <2>4, DbNames
  <2> QED
    BY <1>10, <2>5 DEF Agrees
<1> QED
  BY <1>9, <1>10

LEMMA FolderAgrees ==
  ASSUME Inv, Quiet, NEW d \in Folder
  PROVE  Agrees(d)
<1>1. TypeInv /\ FolderStory /\ d \in Id /\ d \notin File /\ CloudTyped
  BY Names DEF Inv, Id, TypeInv
<1>2. /\ Range(batch) = {} /\ DOMAIN batch = {} /\ Range(out) = {} /\ doomed = {} /\ writes = {}
      /\ \A n \in DOMAIN feed : ~(n > token)
  BY <1>1, QuietIs
<1>3. Tables(db) /\ (\A g \in DOMAIN db.files : RowOK(db, g, HomeFolder)) /\ FoldersOnce(db)
  BY <1>1 DEF TypeInv, DbTyped, DbOK
<1>4. \A g \in Known(d) : g \in DOMAIN db.files /\ LinkedIn(db, g) /\ LinkIn(db, g).id = d
  BY <1>3, Key, DbNames
<1>5. \A g \in Known(d) : d \in HomeFolder /\ RowPath(g) = FolderPath(d)
  <2> SUFFICES ASSUME NEW g \in Known(d) PROVE d \in HomeFolder /\ RowPath(g) = FolderPath(d)
    OBVIOUS
  <2>1. PathOfRow(db, g) \in Spots(d, HomeFolder) /\ d \in HomeFolder
    BY <1>3, <1>4 DEF RowOK
  <2> QED
    BY <2>1, FolderSpots, DbNames
<1>6. PathOf(d) = IF d \in HomeFolder THEN FolderPath(d) ELSE NoPath
  <2>1. item[d].dir \notin Folder
    BY <1>1 DEF CloudTyped, ItemOK
  <2>2. PathOf(d) = IF item[d].live /\ item[d].dir \in {Home} \cup HomeFolder THEN Spot(item[d].dir, d) ELSE NoPath
    BY <1>1, PathIs
  <2>3. item[d].dir \in {Home} \cup HomeFolder <=> item[d].dir = Home
    BY <2>1, HomesAreLive
  <2>4. d \in HomeFolder <=> item[d].live /\ item[d].dir = Home
    BY DEF HomeFolder, LiveFolder
  <2> QED
    BY <2>2, <2>3, <2>4, FolderSpots
<1>7. FolderPath(d) # NoPath
  BY FolderSpots
<1>8. CASE d \notin HomeFolder
  BY <1>5, <1>6, <1>8 DEF Agrees
<1>9. CASE d \in HomeFolder
  <2>1. Known(d) # {}
    <3> SUFFICES ASSUME Known(d) = {} PROVE FALSE
      OBVIOUS
    <3>1. LinkedTo(db, Cloud, d) = {}
      BY DbNames
    <3>2. \E c \in InProgress : c.id = d
      BY <1>1, <1>2, <1>9, <3>1 DEF FolderStory
    <3>3. PICK c \in InProgress : c.id = d
      BY <3>2
    <3>4. c \in Range(changes)
      BY <1>2, <3>3 DEF InProgress
    <3>5. c.path \in Spots(d, HomeFolder)
      BY <1>1, <3>3 DEF TypeInv, ChangesTyped, ChangeOK
    <3>6. c.path \notin FileSpots(HomeFolder)
      BY <3>5, HomesAreLive, FolderSpots
    <3>7. c.path \notin stuck
      BY <1>1, <3>6 DEF TypeInv, WritesTyped
    <3> QED
      BY <1>1, <3>4, <3>7, NothingWaits
  <2>2. PICK g \in Known(d) : TRUE
    BY <2>1
  <2>3. Known(d) = {g}
    <3>1. \A h \in Known(d) : h = g
      BY <1>3, <1>4, <2>2 DEF FoldersOnce
    <3> QED
      BY <2>2, <3>1
  <2>4. RowPath(g) = PathOf(d) /\ PathOf(d) # NoPath
    BY <1>5, <1>6, <1>7, <1>9, <2>2
  <2> QED
    BY <1>1, <2>2, <2>3, <2>4 DEF Agrees
<1> QED
  BY <1>8, <1>9

(* When nothing is unread, in the batch, or on its way, and no change can      *)
(* start, then of every file and folder that nobody wrote to while the         *)
(* program was at work on it, and of which no command failed, the database     *)
(* has exactly one row, with its path, time and hash, or none if it is not in  *)
(* the home directory: no change of the cloud has been lost, none has been     *)
(* applied twice, and none of the program's own writes has been mistaken.      *)
THEOREM DatabaseMirrorsCloud == Spec => []MirrorsCloud
<1>1. Inv => MirrorsCloud
  <2> SUFFICES ASSUME Inv, Quiet, NEW id \in Id, fate[id] = {} PROVE Agrees(id)
    BY DEF MirrorsCloud
  <2> QED
    BY FileAgrees, FolderAgrees DEF Id
<1> QED
  BY <1>1, InvHolds, PTL

=============================================================================
