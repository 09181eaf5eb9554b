------------------------- MODULE LocalEventsStories -------------------------
(***************************************************************************)
(* Proofs about LocalEvents, continued from LocalEventsProofs: what the      *)
(* callbacks, the requests, the clouds, the users, crashes and aborts do      *)
(* keeps the invariant Inv, and Inv says that the directory, the database    *)
(* and the cloud come to agree, that nothing the program does comes back as  *)
(* a change, and that the daemon is aborted only where a hazard has struck.  *)
(***************************************************************************)
EXTENDS LocalEventsProofs

-----------------------------------------------------------------------------
(* Changes start and end. *)

LEMMA StoriesBut ==
  ASSUME TypeInv, Stories, fate' = fate, NEW w \in Work,
         \A x \in Path : Clean(x) /\ ~On(w, x) => Same(x),
         \A x \in Path : Clean(x) /\ On(w, x) => Told(x)'
  PROVE  Stories'
<1> SUFFICES ASSUME NEW x \in Path, Clean(x)' PROVE Told(x)'
  BY DEF Stories
<1>1. Clean(x)
  BY DEF Clean
<1>2. CASE On(w, x)
  BY <1>1, <1>2
<1>3. CASE ~On(w, x)
  BY <1>1, <1>3, Elsewhere
<1> QED
  BY <1>2, <1>3

(* A change leaves the line and its commands are at work. *)
Begins(c, d) ==
  /\ c \in Pending /\ LineLoses(c) /\ running' = running \cup {d}
  /\ d.path = c.path /\ d.to = c.to
  /\ \A v \in running : v.path # c.path

LEMMA Begun ==
  ASSUME TypeInv, TypeInv', NEW k \in DOMAIN changes, Ready(k), NEW d, NEW stage,
         Starts(k, d, stage), UNCHANGED <<out, seen>>, d.path = changes[k].path, d.to = changes[k].to
  PROVE  Begins(changes[k], Staged(d, stage)) /\ changes[k] \in Change /\ changes[k].stage = "waiting"
<1> PICK c, e : c = changes[k] /\ e = Staged(d, stage)
  OBVIOUS
<1>1. c \in Range(changes) /\ changes' = RemoveAt(changes, k) /\ running' = running \cup {e}
  BY DEF Range, Starts
<1>2. c \in Change /\ Waits(c)
  BY <1>1, RangeOfSeq DEF TypeInv, LineTyped
<1>3. LineLoses(c)
  BY <1>1, TakenOut
<1>4. e.path = d.path /\ e.to = d.to
  BY DEF Staged
<1> QED
  BY <1>1, <1>2, <1>3, <1>4 DEF Begins, Pending, Ready, Waits

LEMMA Beginning ==
  ASSUME TypeInv, NEW c, NEW d, Begins(c, d)
  PROVE  /\ \A x : On(d, x) <=> On(c, x)
         /\ \A x : ~On(c, x) => SameLine(x) /\ SameRuns(x)
         /\ \A x : On(c, x) => /\ c \in LineOn(x) /\ RunsOn(x)' = RunsOn(x) \cup {d}
                               /\ LineOn(x)' \subseteq LineOn(x) /\ LineOn(x) = LineOn(x)' \cup {c}
         /\ \A x : OnlyInLine(c, x) => LineOn(x)' = {} /\ RunsOn(x)' = {d}
         /\ c \in Changing /\ c \in Work
<1>1. \A x : On(d, x) <=> On(c, x)
  BY DEF Begins, On
<1>2. ASSUME NEW x, ~On(c, x) PROVE SameLine(x) /\ SameRuns(x)
  <2>1. running' = (running \ {}) \cup {d} /\ LineLoses(c)
    BY DEF Begins
  <2>2. \A v \in {} \cup {d} : ~On(v, x)
    BY <1>1, <1>2
  <2>3. SameRuns(x)
    BY <2>1, <2>2, OffRuns
  <2>4. SameLine(x)
    BY <1>2, <2>1, OffLine
  <2> QED
    BY <2>3, <2>4
<1>3. ASSUME NEW x, On(c, x)
      PROVE  /\ c \in LineOn(x) /\ RunsOn(x)' = RunsOn(x) \cup {d}
             /\ LineOn(x)' \subseteq LineOn(x) /\ LineOn(x) = LineOn(x)' \cup {c}
  BY <1>1, <1>3, Unlined DEF Begins, LineOn, RunsOn
<1>4. ASSUME NEW x, OnlyInLine(c, x) PROVE LineOn(x)' = {} /\ RunsOn(x)' = {d}
  <2>1. On(c, x)
    BY <1>4 DEF OnlyInLine, LineOn
  <2>2. c \notin LineOn(x)'
    BY <1>4, <2>1, Unlined DEF Begins, OnlyInLine
  <2> QED
    BY <1>3, <1>4, <2>1, <2>2 DEF OnlyInLine
<1> QED
  BY <1>1, <1>2, <1>3, <1>4, WorkIs DEF Begins, Changing

(* What it is at work on stays tied. *)
LEMMA BeginTies ==
  ASSUME TypeInv, NEW c, NEW d, Begins(c, d), Queued \subseteq Queued'
  PROVE  /\ TiesKept /\ d \in Work'
         /\ \A w \in Work' : w \in Work \/ w = d \/ w \in Queued' \ Queued
         /\ \A w \in Changing' : w \in Changing \/ w = d
<1>1. Pending = Pending' \cup {c} /\ running' = running \cup {d} /\ \A x : On(d, x) <=> On(c, x)
  BY Beginning DEF Begins, LineLoses
<1>2. d \in Work' /\ \A v \in Work : v = c \/ v \in Work'
  BY <1>1, WorkIs, WorkNext
<1>3. TiesKept
  BY <1>1, <1>2, Removal DEF Near
<1> QED
  BY <1>1, <1>2, <1>3, WorkIs, WorkNext DEF Changing

(* The commands of a change have ended. *)
Ending(c) == c \in running /\ running' = running \ {c}

LEMMA Ended ==
  ASSUME TypeInv, NEW c, Ending(c)
  PROVE  /\ \A x : ~On(c, x) => SameRuns(x)
         /\ \A x : RunsOn(x) = {c} => RunsOn(x)' = {}
         /\ c \in Changing /\ c \in Work /\ c \in Change
         /\ \A x : On(c, x) => c \in RunsOn(x)
<1>1. ASSUME NEW x, ~On(c, x) PROVE SameRuns(x)
  <2>1. running' = (running \ {c}) \cup {}
    BY DEF Ending
  <2>2. \A v \in {c} \cup {} : ~On(v, x)
    BY <1>1
  <2> QED
    BY <2>1, <2>2, OffRuns
<1> QED
  BY <1>1, WorkIs DEF Ending, RunsOn, Changing, TypeInv, RunsTyped

LEMMA EndTies ==
  ASSUME TypeInv, NEW c, Ending(c), QueueStays, LineStays,
         \A x, y \in Path : x # y /\ Clean(x) /\ On(c, x) /\ On(c, y) => Near(x, y)' \/ Parted(x, y)'
  PROVE  /\ TiesKept
         /\ \A w \in Work' : w \in Work
         /\ \A w \in Changing' : w \in Changing
<1>1. Work' = Queued \cup Pending \cup (running \ {c}) /\ Changing' = Pending \cup (running \ {c})
  BY WorkNext DEF QueueStays, LineStays, Ending
<1>2. \A v \in Work : v = c \/ v \in Work'
  BY <1>1, WorkIs
<1>3. TiesKept
  BY <1>2, Removal
<1> QED
  BY <1>1, <1>3, WorkIs DEF Changing

(* The stories of a change that waits. *)
LEMMA CloudLine ==
  ASSUME TypeInv, NEW p \in Path, Alone(p), NEW c \in LineOn(p), c.by = "cloud"
  PROVE  \/ CloudNew(c, p) /\ OnlyInLine(c, p) /\ ~Exists(p)
         \/ CloudUpdate(c, p) /\ OnlyInLine(c, p) /\ Stat(c.gid) = StatOf(p) /\ ~Awaits(p)
         \/ CloudDelete(c, p) /\ OnlyInLine(c, p) /\ Exists(p) /\ ~Awaits(p)
<1>1. ~Absent(p) /\ ~Creating(p)
  BY DEF Absent, Creating, CreationSeen, CreationInLine
<1>2. ASSUME NEW r, Kept(p, r) PROVE FALSE
  BY <1>2 DEF Kept, KeptLine, Local
<1>3. ASSUME NEW w, Deleting(w, p) PROVE FALSE
  BY <1>3 DEF Deleting, OnlyEvent, OnlyInLine, OnlyRunning
<1>4. ASSUME NEW w, CloudNew(w, p) PROVE w = c /\ OnlyInLine(c, p) /\ ~Exists(p)
  BY <1>4 DEF CloudNew, OnlyInLine, OnlyRunning
<1>5. ASSUME NEW w, CloudUpdate(w, p)
      PROVE  w = c /\ OnlyInLine(c, p) /\ Stat(c.gid) = StatOf(p) /\ ~Awaits(p)
  BY <1>5 DEF CloudUpdate, OnlyInLine, OnlyRunning
<1>6. ASSUME NEW w, CloudDelete(w, p) PROVE w = c /\ OnlyInLine(c, p) /\ Exists(p) /\ ~Awaits(p)
  BY <1>6 DEF CloudDelete, OnlyInLine
<1> QED
  BY <1>1, <1>2, <1>3, <1>4, <1>5, <1>6 DEF Alone

LEMMA LocalLine ==
  ASSUME TypeInv, NEW p \in Path, Alone(p), NEW c \in LineOn(p), Local(c),
         \A d \in running : d.path # p
  PROVE  \/ c.type = "New" /\ Creating(p) /\ CreationInLine(c, p)
         \/ c.type = "Update" /\ Kept(p, c.gid) /\ RunsOn(p) = {} /\ Everywhere(p, c.gid)
         \/ c.type = "Delete" /\ Deleting(c, p) /\ OnlyInLine(c, p) /\ Everywhere(p, c.gid)
<1>1. ~Absent(p)
  BY DEF Absent
<1>2. CASE Creating(p)
  BY <1>2 DEF Creating, CreationSeen, CreationInLine
<1>3. ASSUME NEW r, Kept(p, r)
      PROVE  c.type = "Update" /\ Kept(p, c.gid) /\ RunsOn(p) = {} /\ Everywhere(p, c.gid)
  <2>1. c.type = "Update" /\ c.gid = r
    BY <1>3 DEF Kept, KeptLine
  <2>2. ~\E d \in RunsOn(p) : KeptRun(d, p, r)
    BY DEF KeptRun, RunsOn
  <2> QED
    BY <1>3, <2>1, <2>2 DEF Kept, KeptRuns, KeptRow, Everywhere
<1>4. ASSUME NEW w, Deleting(w, p)
      PROVE  c.type = "Delete" /\ Deleting(c, p) /\ OnlyInLine(c, p) /\ Everywhere(p, c.gid)
  <2>1. OnlyInLine(w, p) /\ Everywhere(p, w.gid) /\ w.type = "Delete"
    BY <1>4 DEF Deleting, OnlyEvent, OnlyRunning
  <2>2. w = c
    BY <2>1 DEF OnlyInLine
  <2> QED
    BY <1>4, <2>1, <2>2
<1>5. ASSUME NEW w, CloudNew(w, p) PROVE FALSE
  BY <1>5 DEF CloudNew, OnlyInLine, OnlyRunning, Local
<1>6. ASSUME NEW w, CloudUpdate(w, p) PROVE FALSE
  <2>1. w.stage # "placed"
    BY <1>6 DEF CloudUpdate, RunsOn, OnlyInLine
  <2> QED
    BY <1>6, <2>1 DEF CloudUpdate, OnlyInLine, OnlyRunning, Local
<1>7. ASSUME NEW w, CloudDelete(w, p) PROVE FALSE
  BY <1>7 DEF CloudDelete, OnlyInLine, Local
<1> QED
  BY <1>1, <1>2, <1>3, <1>4, <1>5, <1>6, <1>7 DEF Alone

(* A move that waits, or whose commands are at work. *)
LEMMA MoveTold ==
  ASSUME TypeInv, Stories, NEW c \in Changing, c.type = "Move", NEW x \in Path, On(c, x), Clean(x)
  PROVE  /\ c.path \in Path /\ c.to \in Path /\ c.path # c.to /\ Clean(c.path) /\ Clean(c.to)
         /\ \/ UserMoving(c, c.path, c.to) /\ OnlyInLine(c, c.path) /\ OnlyInLine(c, c.to)
            \/ UserMoving(c, c.path, c.to) /\ OnlyRunning(c, c.path) /\ OnlyRunning(c, c.to)
               /\ c.stage = "request"
            \/ CloudMoving(c, c.path, c.to)
<1>1. c \in WorkHere(x) /\ (c \in LineOn(x) \/ c \in RunsOn(x)) /\ Told(x)
  BY DEF Changing, WorkHere, LineOn, RunsOn, Stories
<1>2. c.path \in Path /\ c.to \in Path
  BY ChangingTyped
<1>3. ~Alone(x)
  <2>1. ASSUME Alone(x) PROVE FALSE
    <3>1. c.path = x /\ c.to = x
      BY <1>1, <1>2, <2>1, AloneWork DEF On
    <3>2. CASE Absent(x)
      BY <1>1, <3>2 DEF Absent
    <3>3. CASE Creating(x)
      BY <1>1, <3>3 DEF Creating, CreationSeen, CreationInLine
    <3>4. ASSUME NEW r, Kept(x, r) PROVE FALSE
      BY <1>1, <3>4 DEF Kept, KeptLine, KeptRuns, KeptRun
    <3>5. ASSUME NEW w, Deleting(w, x) PROVE FALSE
      BY <1>1, <3>5 DEF Deleting, OnlyEvent, OnlyInLine, OnlyRunning
    <3>6. ASSUME NEW w, CloudNew(w, x) PROVE FALSE
      BY <1>1, <3>6 DEF CloudNew, OnlyInLine, OnlyRunning
    <3>7. ASSUME NEW w, CloudUpdate(w, x) PROVE FALSE
      BY <1>1, <3>7 DEF CloudUpdate, OnlyInLine, OnlyRunning
    <3>8. ASSUME NEW w, CloudDelete(w, x) PROVE FALSE
      BY <1>1, <3>8 DEF CloudDelete, OnlyInLine
    <3> QED
      BY <2>1, <3>2, <3>3, <3>4, <3>5, <3>6, <3>7, <3>8 DEF Alone
  <2> QED
    BY <2>1
<1>4. PICK w \in WorkHere(x), y \in Path : Pair(w, x, y)
  BY <1>1, <1>3 DEF Told, InPair
<1> PICK p, q : p = c.path /\ q = c.to
  OBVIOUS
<1>5. {p, q} = {x, y} /\ p # q /\ Clean(p) /\ Clean(q) /\ Moving(w, p, q)
  <2>1. CASE Moving(w, x, y)
    <3>1. p = x /\ q = y
      BY <1>1, <2>1, MovingWork
    <3> QED
      BY <1>4, <2>1, <3>1 DEF Pair
  <2>2. CASE Moving(w, y, x)
    <3>1. p = y /\ q = x
      BY <1>1, <2>2, MovingWork
    <3> QED
      BY <1>4, <2>2, <3>1 DEF Pair
  <2> QED
    BY <1>4, <2>1, <2>2 DEF Pair
<1>6. CASE UserMoving(w, p, q)
  <2>1. CASE OnlyEvent(w, p) /\ OnlyEvent(w, q)
    BY <1>1, <1>5, <2>1 DEF OnlyEvent
  <2>2. CASE OnlyInLine(w, p) /\ OnlyInLine(w, q)
    <3>1. w = c
      BY <1>1, <1>5, <2>2 DEF OnlyInLine
    <3> QED
      BY <1>2, <1>5, <1>6, <2>2, <3>1
  <2>3. CASE OnlyRunning(w, p) /\ OnlyRunning(w, q) /\ w.stage = "request"
    <3>1. w = c
      BY <1>1, <1>5, <2>3 DEF OnlyRunning
    <3> QED
      BY <1>2, <1>5, <1>6, <2>3, <3>1
  <2> QED
    BY <1>6, <2>1, <2>2, <2>3 DEF UserMoving
<1>7. CASE CloudMoving(w, p, q)
  <2>1. w = c
    BY <1>1, <1>5, <1>7 DEF CloudMoving, OnlyInLine
  <2> QED
    BY <1>2, <1>5, <1>7, <2>1
<1>8. CASE CloudMoved(w, p, q)
  BY <1>1, <1>5, <1>8 DEF CloudMoved, OnlyEvent
<1> QED
  BY <1>5, <1>6, <1>7, <1>8 DEF Moving

(* Any other change belongs to the story of one path. *)
LEMMA OtherTold ==
  ASSUME TypeInv, Stories, NEW c \in Changing, c.type # "Move", NEW p \in Path, On(c, p), Clean(p)
  PROVE  c.path = p /\ Alone(p)
<1>1. c \in WorkHere(p) /\ Told(p) /\ c.path = p
  BY ChangingTyped DEF Changing, WorkHere, LineOn, RunsOn, Stories
<1>2. ASSUME NEW w \in WorkHere(p), NEW q \in Path, Pair(w, p, q) PROVE FALSE
  <2>1. {c.path, c.to} = {p, q}
    BY <1>1, <1>2, MovingWork DEF Pair
  <2>2. c.to \in Path
    BY <2>1
  <2> QED
    BY <2>2, ChangingTyped
<1> QED
  BY <1>1, <1>2 DEF Told, InPair

-----------------------------------------------------------------------------
(* Load, LocalCallback. *)

LEMMA LoadOk ==
  ASSUME TypeInv, TypeInv', Stories, Apart, NEW k \in DOMAIN changes, Load(k)
  PROVE  Stories' /\ Apart'
<1> PICK c : c = changes[k]
  OBVIOUS
<1> PICK d : d = Staged(c, "loading")
  OBVIOUS
<1>1. /\ UNCHANGED <<fsVars, events, notices, out, seen, expected, db, remote, status, fate>>
      /\ Ready(k) /\ Up /\ c.by = "cloud" /\ c.type \in {"New", "Update"} /\ Starts(k, c, "loading")
  BY DEF Load, eventVars, Ready, Local
<1>2. Begins(c, d) /\ c \in Change /\ c.stage = "waiting"
  BY <1>1, Begun
<1>3. /\ d.type = c.type /\ d.gid = c.gid /\ d.cid = c.cid /\ d.path = c.path /\ d.to = c.to
      /\ d.by = c.by /\ d.stage = "loading"
  BY <1>2 DEF Staged, Change
<1>4. /\ \A x : On(d, x) <=> On(c, x)
      /\ \A x : ~On(c, x) => SameLine(x) /\ SameRuns(x)
      /\ \A x : On(c, x) => c \in LineOn(x)
      /\ \A x : OnlyInLine(c, x) => LineOn(x)' = {} /\ RunsOn(x)' = {d}
      /\ c \in Changing /\ c \in Work
  BY <1>2, Beginning
<1>5. QueueStays
  BY <1>1, QueueKept
<1>6. \A x : SameFile(x) /\ SameEvents(x) /\ SameRows(x) /\ SameThere(x) /\ SameAwait(x)
  BY <1>1, <1>5, Untouched
<1>7. \A x \in Path : Clean(x) /\ On(c, x) => Told(x)'
  <2> TAKE x \in Path
  <2> HAVE Clean(x) /\ On(c, x)
  <2>1. c.path = x /\ Alone(x)
    BY <1>1, <1>4, OtherTold
  <2>2. \/ CloudNew(c, x) /\ OnlyInLine(c, x) /\ ~Exists(x)
        \/ CloudUpdate(c, x) /\ OnlyInLine(c, x) /\ Stat(c.gid) = StatOf(x) /\ ~Awaits(x)
    BY <1>1, <1>4, <2>1, CloudLine DEF CloudDelete
  <2>3. OnlyRunning(d, x)'
    <3>1. OnlyInLine(c, x)
      BY <2>2
    <3> QED
      BY <1>4, <1>6, <3>1 DEF OnlyInLine, OnlyRunning, SameEvents
  <2>4. d \in WorkHere(x)'
    BY <2>3 DEF OnlyRunning, WorkHere
  <2>5. Exists(x)' <=> Exists(x)
    BY <1>6, SameExists
  <2>6. ASSUME CloudNew(c, x), ~Exists(x) PROVE CloudNew(d, x)'
    <3>1. Rows(x)' = {} /\ There(x)' = {c.cid} /\ ~Awaits(x)'
      BY <1>6, <2>6 DEF CloudNew, SameRows, SameThere, SameAwait
    <3> QED
      BY <1>3, <2>3, <2>5, <2>6, <3>1 DEF CloudNew
  <2>7. ASSUME CloudUpdate(c, x), Stat(c.gid) = StatOf(x), ~Awaits(x) PROVE CloudUpdate(d, x)'
    <3>1. ASSUME NEW r, r = c.gid
          PROVE  (Everywhere(x, r) /\ c.cid = LinkId(r) /\ Exists(x) /\ Stat(r) = StatOf(x) /\ ~Awaits(x))'
      <4>1. Everywhere(x, r) /\ c.cid = LinkId(r) /\ Exists(x) /\ Stat(r) = StatOf(x)
        BY <2>7, <3>1 DEF CloudUpdate
      <4>2. Everywhere(x, r)' /\ LinkId(r)' = LinkId(r) /\ Stat(r)' = Stat(r)
        BY <1>6, <4>1, EverywhereStays
      <4>3. StatOf(x)' = StatOf(x)
        BY <1>6, SameExists
      <4> QED
        BY <1>6, <2>5, <2>7, <4>1, <4>2, <4>3 DEF SameAwait
    <3>2. (Everywhere(x, d.gid) /\ d.cid = LinkId(d.gid) /\ Exists(x) /\ Stat(d.gid) = StatOf(x) /\ ~Awaits(x))'
      BY <1>3, <3>1
    <3> QED
      BY <1>3, <2>3, <2>7, <3>2 DEF CloudUpdate
  <2> QED
    BY <2>2, <2>4, <2>6, <2>7 DEF Told, Alone
<1>8. \A x \in Path : Clean(x) /\ ~On(c, x) => Same(x)
  BY <1>4, <1>6 DEF Same
<1>9. Stories'
  BY <1>1, <1>4, <1>7, <1>8, StoriesBut
<1>10. Queued' = Queued
  BY <1>5 DEF QueueStays
<1>11. /\ TiesKept
       /\ \A w \in Work' : w \in Work \/ w = d
       /\ \A w \in Changing' : w \in Changing \/ w = d
  BY <1>2, <1>10, BeginTies
<1>12. Alike(d) /\ OwnRow(d) /\ OwnCid(d) /\ OwnStat(d)
  BY <1>1, <1>3, <1>4 DEF Apart, Alike, OwnRow, OwnCid, OwnStat, Looked, Local, On
<1>13. Down' /\ AbortsOnlyOnRaces'
  BY <1>1, UpStays, StatusStays
<1>14. UNCHANGED <<disk, db, remote, fate>>
  BY <1>1 DEF fsVars
<1>15. Apart'
  BY <1>11, <1>12, <1>13, <1>14, ApartKept
<1> QED
  BY <1>9, <1>15

(* What the callback of a local change does: c waits, d is at work. *)
CallsBack(c, d) ==
  /\ Up /\ c \in Change /\ Local(c) /\ Begins(c, d)
  /\ UNCHANGED <<fsVars, events, notices, out, seen, expected, remote, status, fate>>
  /\ c.type # "New" => Linked(c.gid)
  /\ d.type = c.type /\ d.stat = c.stat /\ d.by = c.by /\ d.stage = "request"
  /\ d.gid = IF c.type = "New" THEN NewId(db) ELSE c.gid
  /\ d.cid = IF c.type = "New" THEN 0 ELSE LinkId(c.gid)
  /\ c.type = "New" => db' = WithFile(db, c.path, StatOf(c.path))
  /\ c.type = "Update" => db' = WithFileUpdated(db, c.gid, c.stat)
  /\ c.type = "Move" => db' = WithFileMoved(db, c.gid, c.to)
  /\ c.type = "Delete" => db' = WithoutFile(db, c.gid)

LEMMA CalledBack ==
  ASSUME TypeInv, TypeInv', NEW k \in DOMAIN changes, LocalCallback(k)
  PROVE  \E d : CallsBack(changes[k], d)
<1> PICK c : c = changes[k]
  OBVIOUS
<1> PICK gid : gid = IF c.type = "New" THEN NewId(db) ELSE c.gid
  OBVIOUS
<1> PICK cid : cid = IF c.type = "New" THEN 0 ELSE Link(gid).id
  OBVIOUS
<1> PICK b : b = [c EXCEPT !.gid = gid, !.cid = cid]
  OBVIOUS
<1> PICK d : d = Staged(b, "request")
  OBVIOUS
<1>1. /\ UNCHANGED <<fsVars, events, notices, out, seen, expected, remote, status, fate>>
      /\ Ready(k) /\ Up /\ Local(c) /\ (c.type # "New" => Linked(c.gid))
      /\ db' = Noted(c) /\ Starts(k, b, "request")
  BY DEF LocalCallback, eventVars, Ready
<1>2. c \in Change
  <2>1. c \in Range(changes)
    BY DEF Range
  <2> QED
    BY <2>1, RangeOfSeq DEF TypeInv, LineTyped
<1>3. b.path = c.path /\ b.to = c.to
  BY <1>2 DEF Change
<1>4. Begins(c, d)
  BY <1>1, <1>3, Begun
<1>5. d.type = c.type /\ d.stat = c.stat /\ d.by = c.by /\ d.stage = "request" /\ d.gid = gid /\ d.cid = cid
  BY <1>2 DEF Staged, Change
<1>6. d.cid = IF c.type = "New" THEN 0 ELSE LinkId(c.gid)
  BY <1>5 DEF LinkId
<1>7. /\ c.type = "New" => db' = WithFile(db, c.path, StatOf(c.path))
      /\ c.type = "Update" => db' = WithFileUpdated(db, c.gid, c.stat)
      /\ c.type = "Move" => db' = WithFileMoved(db, c.gid, c.to)
      /\ c.type = "Delete" => db' = WithoutFile(db, c.gid)
  BY <1>1 DEF Noted
<1> QED
  BY <1>1, <1>2, <1>4, <1>5, <1>6, <1>7 DEF CallsBack

LEMMA CallingBack ==
  ASSUME TypeInv, NEW c, NEW d, CallsBack(c, d)
  PROVE  /\ QueueStays /\ disk' = disk /\ fate' = fate /\ Up /\ status' = status
         /\ \A x : SameFile(x) /\ SameEvents(x) /\ SameThere(x) /\ SameAwait(x)
         /\ \A x : /\ (Exists(x)' <=> Exists(x)) /\ StatOf(x)' = StatOf(x) /\ There(x)' = There(x)
                   /\ (Awaits(x)' <=> Awaits(x)) /\ EventsOn(x)' = EventsOn(x)
         /\ \A n : HashAt(n)' = HashAt(n)
         /\ \A v, w : Earlier(v, w)' <=> Earlier(v, w)
         /\ TiesKept /\ \A w \in Work' : w \in Work \/ w = d
         /\ \A w \in Changing' : w \in Changing \/ w = d
<1>1. QueueStays
  BY QueueKept DEF CallsBack
<1>2. \A x : SameFile(x) /\ SameEvents(x) /\ SameThere(x) /\ SameAwait(x)
  BY <1>1, Untouched DEF CallsBack
<1>3. Queued' = Queued /\ \A v, w : Earlier(v, w)' <=> Earlier(v, w)
  BY <1>1 DEF QueueStays
<1>4. /\ TiesKept /\ \A w \in Work' : w \in Work \/ w = d
      /\ \A w \in Changing' : w \in Changing \/ w = d
  BY <1>3, BeginTies DEF CallsBack
<1>5. disk' = disk /\ fate' = fate /\ Up /\ status' = status /\ remote' = remote /\ expected' = expected
  BY DEF CallsBack, fsVars
<1>6. \A x : (Exists(x)' <=> Exists(x)) /\ StatOf(x)' = StatOf(x)
  BY <1>2, SameExists
<1>7. \A x : (Awaits(x)' <=> Awaits(x)) /\ EventsOn(x)' = EventsOn(x) /\ There(x)' = There(x)
  BY <1>2 DEF SameAwait, SameEvents, SameThere
<1>8. \A n : HashAt(n)' = HashAt(n)
  BY <1>5 DEF HashAt
<1> QED
  BY <1>1, <1>2, <1>3, <1>4, <1>5, <1>6, <1>7, <1>8

LEMMA StatIsStamp == ASSUME TypeInv, NEW p \in Path PROVE StatOf(p) \in Stamp /\ disk[p].hash \in Nat /\ StatOf(p).hash = disk[p].hash
                                      /\ StatOf(p).inode = disk[p].inode
BY DEF TypeInv, DiskTyped, File, StatOf, Stamp

(* A user's new file gets its row. *)
LEMMA NewCallsBack ==
  ASSUME TypeInv, TypeInv', NEW c, NEW d, CallsBack(c, d), NEW p \in Path, c.type = "New",
         Creating(p), CreationInLine(c, p)
  PROVE  Told(p)'
<1> PICK n : n = NewId(db)
  OBVIOUS
<1>2. /\ Exists(p) /\ Nowhere(p) /\ RunsOn(p) = {} /\ ~Awaits(p) /\ c.path = p /\ LineOn(p) = {c} /\ ~Sooner(c, c)
      /\ EventsOn(p) \subseteq Edits(p)
  BY DEF Creating, CreationInLine
<1>3. On(c, p) /\ LineOn(p)' = {} /\ RunsOn(p)' = {d} /\ d.path = p
  <2>1. On(c, p) /\ Begins(c, d)
    BY <1>2 DEF On, CallsBack
  <2>2. c \notin LineOn(p)'
    BY <1>2, <2>1, Unlined DEF Begins
  <2>3. LineOn(p)' \subseteq {c} /\ RunsOn(p)' = {d}
    BY <1>2, <2>1, Beginning
  <2> QED
    BY <1>2, <2>1, <2>2, <2>3 DEF Begins
<1>4. db' = WithFile(db, p, StatOf(p)) /\ d.type = "New" /\ d.stage = "request" /\ Local(d) /\ d.gid = n
  BY <1>2 DEF CallsBack, Local
<1>5. Rows(p)' = {n} /\ Stat(n)' = StatOf(p) /\ ~Linked(n)'
  <2>1. /\ Rows(p)' = Rows(p) \cup {n} /\ Stat(n)' = StatOf(p) /\ ~Linked(n)'
    BY <1>4, StatIsStamp, RowAdded
  <2> QED
    BY <1>2, <2>1 DEF Nowhere
<1>6. /\ (Exists(p) /\ There(p) = {} /\ ~Awaits(p) /\ StatOf(p).hash = disk[p].hash /\ disk[p].hash \in Nat)'
      /\ EventsOn(p)' \subseteq Edits(p) /\ StatOf(p)' = StatOf(p) /\ disk' = disk
  BY <1>2, CallingBack, StatIsStamp DEF Nowhere
<1>7. DestroyAwaited(p)'
  <2>1. Destroyed(p) \notin EventsOn(p)'
    BY <1>6, EventKinds
  <2>2. ~Earlier(Destroyed(p), Destroyed(p))'
    <3>1. ASSUME Earlier(Destroyed(p), Destroyed(p)) PROVE FALSE
      <4>1. Destroyed(p) \in EventsOn(p)
        BY <3>1, EarlierIn, NoticesOn DEF EventsOn
      <4> QED
        BY <1>2, <4>1, EventKinds
    <3> QED
      BY <3>1, CallingBack
  <2> QED
    BY <1>6, <2>1, <2>2 DEF DestroyAwaited
<1>8. Dated(Stat(n), p)'
  BY <1>5, <1>6 DEF Dated
<1>9. KeptRow(p, n)'
  BY <1>5, <1>6, <1>7, <1>8 DEF KeptRow
<1>10. KeptLine(p, n)' /\ KeptRuns(p, n)'
  BY <1>3, <1>4, <1>5, <1>6 DEF KeptLine, KeptRuns, KeptRun
<1>11. KeptFlow(p, n)'
  BY <1>3, <1>5, <1>6 DEF KeptFlow
<1> QED
  BY <1>5, <1>9, <1>10, <1>11 DEF Kept, Told, Alone

(* An update is put down; what is left of the line is no older. *)
LEMMA UpdateCallsBack ==
  ASSUME TypeInv, TypeInv', NEW c, NEW d, CallsBack(c, d), NEW p \in Path, c.type = "Update",
         c \in LineOn(p), NEW r, r = c.gid, Kept(p, r), RunsOn(p) = {}, Everywhere(p, r)
  PROVE  Told(p)'
<1>1. /\ Exists(p) /\ Rows(p) = {r} /\ There(p) = {LinkId(r)} /\ Linked(r)
      /\ EventsOn(p) \subseteq Edits(p) \cup {Destroyed(p), Placed(p)} /\ DestroyAwaited(p)
      /\ c.path = p /\ Dated(c.stat, p)
  BY DEF Kept, KeptRow, KeptLine, Everywhere
<1>2. On(c, p) /\ Begins(c, d)
  BY DEF CallsBack, LineOn
<1>3. /\ LineOn(p)' \subseteq LineOn(p) /\ LineOn(p) = LineOn(p)' \cup {c}
      /\ \A v, w : Sooner(v, w)' => Sooner(v, w)
      /\ \A w \in LineOn(p)' : w.path = c.path => Sooner(c, w)
  BY <1>2, Unlined DEF Begins
<1>4. RunsOn(p)' = {d} /\ d.path = p
  BY <1>1, <1>2, Beginning DEF Begins
<1>5. d.type = "Update" /\ d.stage = "request" /\ Local(d) /\ d.gid = r /\ d.cid = LinkId(r)
  BY DEF CallsBack, Local
<1>6. /\ Rows(p)' = {r} /\ Stat(r)' = c.stat /\ Linked(r)' /\ LinkId(r)' = LinkId(r)
  <2> PICK stat : stat = c.stat
    OBVIOUS
  <2>1. stat \in Stamp /\ db' = WithFileUpdated(db, r, stat) /\ r \in DOMAIN db.files
    BY <1>1, RowsKnown DEF CallsBack, Change
  <2>2. /\ \A x : Rows(x)' = Rows(x)
        /\ \A o \in DOMAIN db.files : Stat(o)' = IF o = r THEN stat ELSE Stat(o)
        /\ \A o : (Linked(o)' <=> Linked(o)) /\ LinkId(o)' = LinkId(o)
    BY <2>1, RowUpdated
  <2> QED
    BY <1>1, <2>1, <2>2
<1>7. /\ Exists(p)' /\ There(p)' = {LinkId(r)} /\ EventsOn(p)' = EventsOn(p) /\ disk' = disk
      /\ StatOf(p)' = StatOf(p) /\ SameAwait(p)
      /\ \A v, w : Earlier(v, w)' <=> Earlier(v, w)
  BY <1>1, CallingBack
<1>8. \A s : Dated(s, p)' <=> Dated(s, p)
  BY <1>7 DEF Dated
<1>9. Dated(Stat(r), p)'
  BY <1>1, <1>6, <1>7 DEF Dated
<1>10. DestroyAwaited(p)'
  BY <1>1, <1>7 DEF DestroyAwaited, SameAwait
<1>11. KeptRow(p, r)'
  BY <1>1, <1>6, <1>7, <1>9, <1>10 DEF KeptRow
<1>12. KeptLine(p, r)'
  BY <1>3, <1>7 DEF Kept, KeptLine, Dated, Newest
<1>13. KeptRun(d, p, r)'
  BY <1>4, <1>5, <1>6, <1>7 DEF KeptRun
<1>14. KeptRuns(p, r)'
  BY <1>4, <1>13 DEF KeptRuns
<1>15. \A w \in LineOn(p)' : Newest(c, p) => Newest(w, p)
  <2> TAKE w \in LineOn(p)'
  <2>1. w \in LineOn(p) /\ w.path = p
    BY <1>3 DEF Kept, KeptLine
  <2>2. Sooner(c, w)
    BY <1>1, <1>3, <2>1
  <2> QED
    BY <1>3, <2>1, <2>2 DEF Kept, KeptLine
<1>16. \A w : Newest(w, p)' <=> Newest(w, p)
  BY <1>7 DEF Newest
<1>17. \/ Stat(r)'.hash = disk'[p].hash /\ LineOn(p)' = {}
       \/ \E w \in LineOn(p)' : Newest(w, p)'
       \/ Stat(r)'.hash # disk'[p].hash /\ EventsOn(p)' \cap (Edits(p) \cup {Placed(p)}) # {}
  <2>1. CASE Newest(c, p)
    <3>1. Stat(r)'.hash = disk'[p].hash
      BY <1>6, <1>7, <2>1 DEF Newest
    <3> QED
      BY <1>15, <1>16, <2>1, <3>1
  <2>2. CASE ~Newest(c, p)
    <3>1. Stat(r)'.hash # disk'[p].hash
      BY <1>6, <1>7, <2>2 DEF Newest
    <3>2. \/ \E w \in LineOn(p) : Newest(w, p)
          \/ EventsOn(p) \cap (Edits(p) \cup {Placed(p)}) # {}
      BY DEF Kept, KeptFlow
    <3>3. \/ \E w \in LineOn(p)' : Newest(w, p)
          \/ EventsOn(p) \cap (Edits(p) \cup {Placed(p)}) # {}
      BY <1>3, <2>2, <3>2
    <3> QED
      BY <1>7, <1>16, <3>1, <3>3
  <2> QED
    BY <2>1, <2>2
<1>18. \/ disk'[p].by = "user"
       \/ Stat(r)'.hash = disk'[p].hash /\ \A w \in LineOn(p)' : Newest(w, p)'
  <2>1. CASE disk[p].by = "user"
    BY <1>7, <2>1
  <2>2. CASE \A w \in LineOn(p) : Newest(w, p)
    <3>1. Newest(c, p)
      BY <2>2
    <3>2. Stat(r)'.hash = disk'[p].hash
      BY <1>6, <1>7, <3>1 DEF Newest
    <3> QED
      BY <1>15, <1>16, <3>1, <3>2
  <2> QED
    BY <2>1, <2>2 DEF Kept, KeptFlow
<1>19. KeptFlow(p, r)'
  BY <1>4, <1>17, <1>18 DEF KeptFlow
<1> QED
  BY <1>6, <1>11, <1>12, <1>14, <1>19 DEF Kept, Told, Alone

LEMMA DeleteCallsBack ==
  ASSUME TypeInv, TypeInv', NEW c, NEW d, CallsBack(c, d), NEW p \in Path, c.type = "Delete",
         Deleting(c, p), OnlyInLine(c, p), Everywhere(p, c.gid)
  PROVE  Told(p)'
<1> PICK r : r = c.gid
  OBVIOUS
<1>1. /\ ~Exists(p) /\ p \notin beside /\ ~Awaits(p) /\ c.by = "user" /\ c.path = p
      /\ Rows(p) = {r} /\ There(p) = {LinkId(r)}
  <2>1. c \notin Removals(p)
    BY DEF Removals, Notice
  <2> QED
    BY <2>1 DEF Deleting, Everywhere
<1>2. EventsOn(p)' = {} /\ LineOn(p)' = {} /\ RunsOn(p)' = {d}
  BY CallingBack, Beginning DEF CallsBack, OnlyInLine
<1>3. d.type = "Delete" /\ d.by = "user" /\ d.path = p /\ d.stage = "request" /\ d.cid = LinkId(r)
  BY <1>1 DEF CallsBack, Begins
<1>4. Rows(p)' = {}
  <2>1. db' = WithoutFile(db, r)
    BY DEF CallsBack
  <2>2. \A x : Rows(x)' = Rows(x) \ {r}
    BY <2>1, RowRemoved
  <2> QED
    BY <1>1, <2>2
<1>5. There(p)' = {d.cid} /\ ~Exists(p)' /\ ~Awaits(p)' /\ p \notin beside'
  BY <1>1, <1>3, CallingBack DEF SameFile
<1>6. OnlyRunning(d, p)'
  BY <1>2 DEF OnlyRunning
<1>7. Deleting(d, p)'
  BY <1>3, <1>4, <1>5, <1>6 DEF Deleting
<1>8. d \in WorkHere(p)'
  BY <1>2 DEF WorkHere
<1> QED
  BY <1>7, <1>8 DEF Told, Alone

LEMMA MoveCallsBack ==
  ASSUME TypeInv, TypeInv', NEW c, NEW d, CallsBack(c, d), NEW p \in Path, NEW q \in Path, p # q,
         Clean(p), Clean(q), c.type = "Move", c.path = p, c.to = q, UserMoving(c, p, q),
         OnlyInLine(c, p), OnlyInLine(c, q)
  PROVE  Told(p)' /\ Told(q)'
<1> PICK r : r = c.gid
  OBVIOUS
<1>1. /\ c.by = "user" /\ ~Exists(p) /\ Exists(q) /\ ~Awaits(p) /\ ~Awaits(q)
  BY DEF UserMoving
<1>2. /\ Agreed(r, q) /\ There(p) = {LinkId(r)} /\ There(q) = {} /\ Rows(p) = {r} /\ Rows(q) = {}
  <2>1. c.type # "rename" /\ ~OnlyRunning(c, p)
    BY DEF OnlyInLine, OnlyRunning
  <2> QED
    BY <2>1 DEF UserMoving
<1>3. \A x \in {p, q} : OnlyRunning(d, x)'
  BY CallingBack, Beginning DEF CallsBack, OnlyInLine, OnlyRunning
<1>4. d.type = "Move" /\ d.by = "user" /\ d.path = p /\ d.to = q /\ d.stage = "request" /\ d.cid = LinkId(r) /\ d.gid = r
  BY <1>1 DEF CallsBack, Begins
<1>5. Rows(p)' = {} /\ Rows(q)' = {r} /\ Stat(r)' = Stat(r) /\ (Linked(r)' <=> Linked(r)) /\ LinkId(r)' = LinkId(r)
  <2>1. db' = WithFileMoved(db, r, q) /\ r \in DOMAIN db.files
    BY <1>2, RowsKnown DEF CallsBack
  <2>2. /\ \A x : x # q => Rows(x)' = Rows(x) \ {r}
        /\ Rows(q)' = Rows(q) \cup ({r} \cap DOMAIN db.files)
        /\ \A o \in DOMAIN db.files : Stat(o)' = Stat(o)
        /\ \A o : (Linked(o)' <=> Linked(o)) /\ LinkId(o)' = LinkId(o)
    BY <2>1, RowMoved
  <2> QED
    BY <1>2, <2>1, <2>2
<1>6. /\ (~Exists(p) /\ Exists(q) /\ ~Awaits(p) /\ ~Awaits(q))' /\ There(p)' = {LinkId(r)} /\ There(q)' = {}
  BY <1>1, <1>2, CallingBack
<1>7. Agreed(r, q)'
  <2>1. StatOf(q)' = StatOf(q) /\ disk' = disk /\ \A n : HashAt(n)' = HashAt(n)
    BY CallingBack
  <2> QED
    BY <1>2, <1>5, <2>1 DEF Agreed
<1>8. UserMoving(d, p, q)'
  BY <1>3, <1>4, <1>5, <1>6, <1>7 DEF UserMoving
<1>9. d \in WorkHere(p)' /\ d \in WorkHere(q)'
  BY <1>3 DEF OnlyRunning, WorkHere
<1> QED
  BY <1>8, <1>9, BothTold, CallingBack DEF Moving

(* Only rows of the paths that it is on are changed. *)
LEMMA CallbackRows ==
  ASSUME TypeInv, TypeInv', Stories, Apart, NEW c, NEW d, CallsBack(c, d), NEW x \in Path, Clean(x), ~On(c, x)
  PROVE  SameRows(x)
<1>1. c \in Changing
  BY Beginning DEF CallsBack
<1>2. c.gid \notin Rows(x) /\ c.path # x /\ c.to # x
  BY <1>1 DEF Apart, OwnRow, On
<1> PICK r, n : r = c.gid /\ n = NewId(db)
  OBVIOUS
<1>3. r \notin Rows(x) /\ \A o \in Rows(x) : o \in DOMAIN db.files
  BY <1>2, RowsKnown
<1>4. CASE c.type = "New"
  <2>1. c.path \in Path /\ StatOf(c.path) \in Stamp /\ db' = WithFile(db, c.path, StatOf(c.path))
    BY <1>1, <1>4, ChangingTyped, StatIsStamp DEF CallsBack
  <2>2. /\ \A y : y # c.path => Rows(y)' = Rows(y)
        /\ \A o \in DOMAIN db.files : Stat(o)' = Stat(o)
        /\ \A o : (Linked(o)' <=> Linked(o)) /\ LinkId(o)' = LinkId(o)
    BY <2>1, RowAdded
  <2> QED
    BY <1>2, <1>3, <2>2 DEF SameRows
<1>5. CASE c.type = "Update"
  <2> PICK stat : stat = c.stat
    OBVIOUS
  <2>1. stat \in Stamp /\ db' = WithFileUpdated(db, r, stat)
    BY <1>5 DEF CallsBack, Change
  <2>2. /\ \A y : Rows(y)' = Rows(y)
        /\ \A o \in DOMAIN db.files : Stat(o)' = IF o = r THEN stat ELSE Stat(o)
        /\ \A o : (Linked(o)' <=> Linked(o)) /\ LinkId(o)' = LinkId(o)
    BY <2>1, RowUpdated
  <2> QED
    BY <1>3, <2>2 DEF SameRows
<1>6. CASE c.type = "Move"
  <2>1. c.to \in Path /\ db' = WithFileMoved(db, r, c.to)
    BY <1>1, <1>6, ChangingTyped DEF CallsBack
  <2>2. /\ \A y : y # c.to => Rows(y)' = Rows(y) \ {r}
        /\ \A o \in DOMAIN db.files : Stat(o)' = Stat(o)
        /\ \A o : (Linked(o)' <=> Linked(o)) /\ LinkId(o)' = LinkId(o)
    BY <2>1, RowMoved
  <2> QED
    BY <1>2, <1>3, <2>2 DEF SameRows
<1>7. CASE c.type = "Delete"
  <2>1. db' = WithoutFile(db, r)
    BY <1>7 DEF CallsBack
  <2>2. /\ \A y : Rows(y)' = Rows(y) \ {r}
        /\ DOMAIN db'.files = DOMAIN db.files \ {r}
        /\ \A o \in DOMAIN db'.files : Stat(o)' = Stat(o)
        /\ \A o : Linked(o)' => Linked(o) /\ LinkId(o)' = LinkId(o)
        /\ \A o : o # r => (Linked(o)' <=> Linked(o))
    BY <2>1, RowRemoved
  <2> QED
    BY <1>3, <2>2 DEF SameRows
<1> QED
  BY <1>1, <1>4, <1>5, <1>6, <1>7, ChangingTyped, ChangeKinds

LEMMA CallbackStories ==
  ASSUME TypeInv, TypeInv', Stories, Apart, NEW c, NEW d, CallsBack(c, d)
  PROVE  Stories'
<1>1. c \in Changing /\ c \in Work /\ Local(c) /\ \A v \in running : v.path # c.path
  BY Beginning DEF CallsBack, Begins
<1>2. \A x \in Path : Clean(x) /\ ~On(c, x) => Same(x)
  <2> TAKE x \in Path
  <2> HAVE Clean(x) /\ ~On(c, x)
  <2>1. SameFile(x) /\ SameEvents(x) /\ SameThere(x) /\ SameAwait(x) /\ SameLine(x) /\ SameRuns(x)
    BY CallingBack, Beginning DEF CallsBack
  <2> QED
    BY <2>1, CallbackRows DEF Same
<1>3. \A x \in Path : Clean(x) /\ On(c, x) => Told(x)'
  <2> TAKE x \in Path
  <2> HAVE Clean(x) /\ On(c, x)
  <2>1. c \in LineOn(x)
    BY Beginning DEF CallsBack
  <2>2. CASE c.type # "Move"
    <3>1. c.path = x /\ Alone(x)
      BY <1>1, <2>2, OtherTold
    <3>2. \/ c.type = "New" /\ Creating(x) /\ CreationInLine(c, x)
          \/ c.type = "Update" /\ Kept(x, c.gid) /\ RunsOn(x) = {} /\ Everywhere(x, c.gid)
          \/ c.type = "Delete" /\ Deleting(c, x) /\ OnlyInLine(c, x) /\ Everywhere(x, c.gid)
      BY <1>1, <2>1, <3>1, LocalLine
    <3> QED
      BY <2>1, <3>2, NewCallsBack, UpdateCallsBack, DeleteCallsBack
  <2>3. CASE c.type = "Move"
    <3> PICK p, q : p = c.path /\ q = c.to
      OBVIOUS
    <3>1. /\ p \in Path /\ q \in Path /\ p # q /\ Clean(p) /\ Clean(q)
          /\ \/ UserMoving(c, p, q) /\ OnlyInLine(c, p) /\ OnlyInLine(c, q)
             \/ OnlyRunning(c, p) \/ CloudMoving(c, p, q)
      BY <1>1, <2>3, MoveTold
    <3>2. c \in LineOn(p)
      BY Beginning DEF CallsBack, On
    <3>3. UserMoving(c, p, q) /\ OnlyInLine(c, p) /\ OnlyInLine(c, q)
      BY <1>1, <3>1, <3>2 DEF OnlyRunning, CloudMoving, Local
    <3>4. Told(p)' /\ Told(q)'
      BY <2>3, <3>1, <3>3, MoveCallsBack
    <3>5. x = p \/ x = q
      BY DEF On
    <3> QED
      BY <3>4, <3>5
  <2> QED
    BY <2>2, <2>3
<1> QED
  BY <1>1, <1>2, <1>3, CallingBack, StoriesBut

(* What the row of a change is tied to is what the change is on. *)
LEMMA RowTies ==
  ASSUME TypeInv, Stories, Apart, NEW c \in Changing, NEW r, r = c.gid, r \in DOMAIN db.files,
         NEW y \in Path, Near(PathOf(r), y), Clean(PathOf(r)) \/ Clean(y)
  PROVE  Clean(PathOf(r)) /\ On(c, PathOf(r)) /\ On(c, y)
<1> PICK x : x = PathOf(r)
  OBVIOUS
<1>1. x \in Path /\ r \in Rows(x) /\ Clean(x)
  BY RowsKnown, NearSame
<1>2. On(c, x)
  BY <1>1 DEF Apart, OwnRow
<1> QED
  BY <1>1, <1>2, NearWork, WorkNext

LEMMA NewIdNew ==
  ASSUME TypeInv
  PROVE  NewId(db) \notin DOMAIN db.files /\ \A w \in Changing : w.gid # NewId(db)
<1>1. db.lastId \in Nat /\ NewId(db) = db.lastId + 1 /\ \A r \in DOMAIN db.files : r <= db.lastId
  BY RowIds DEF TypeInv, DbTyped, Rowed, Tables, NewId
<1>2. \A w \in Changing : w.gid \in Nat /\ w.gid <= db.lastId
  BY ChangingTyped DEF Change, Proper
<1> QED
  BY <1>1, <1>2

LEMMA CallbackApartOf ==
  ASSUME TypeInv, TypeInv', Stories, Apart, NEW c, NEW d, CallsBack(c, d),
         \A w \in Changing' : OwnRow(w)',
         \A o \in DOMAIN db'.files : OwnFile(o)' /\ OwnLink(o)'
  PROVE  Apart'
<1>1. /\ c \in Changing /\ c \in Work /\ \A x : On(d, x) <=> On(c, x)
  BY Beginning DEF CallsBack
<1>2. OwnCid(d)
  <2>1. CASE c.type = "New"
    BY <2>1, NoCid DEF CallsBack
  <2>2. CASE c.type # "New"
    <3> PICK r : r = c.gid
      OBVIOUS
    <3>1. Linked(r) /\ d.cid = LinkId(r)
      BY <2>2 DEF CallsBack
    <3>2. r \in DOMAIN db.files
      BY <3>1 DEF Linked, TypeInv, DbTyped, Rowed
    <3>3. ASSUME NEW y \in Path, Clean(y), LinkId(r) \in There(y) PROVE On(c, y)
      <4>1. Near(PathOf(r), y)
        BY <3>1, <3>2, <3>3 DEF Apart, OwnLink
      <4> QED
        BY <1>1, <3>2, <3>3, <4>1, RowTies
    <3> QED
      BY <1>1, <3>1, <3>3 DEF OwnCid
  <2> QED
    BY <2>1, <2>2
<1>3. OwnStat(d) /\ Alike(d)
  <2>1. OwnStat(c) /\ Alike(c)
    BY <1>1 DEF Apart
  <2>2. d.type = c.type /\ d.stat = c.stat /\ d.by = c.by /\ d.path = c.path /\ d.to = c.to
    BY DEF CallsBack, Begins
  <2> QED
    BY <2>1, <2>2 DEF OwnStat, Alike, Looked, Local
<1>4. /\ disk' = disk /\ fate' = fate /\ Up /\ status' = status /\ \A x : There(x)' = There(x)
      /\ \A w \in Work' : w \in Work \/ w = d
      /\ \A w \in Changing' : w \in Changing \/ w = d
  BY CallingBack
<1>5. \A w \in Changing' : OwnCid(w)' /\ OwnStat(w)'
  <2> TAKE w \in Changing'
  <2>1. OwnCid(w) /\ OwnStat(w)
    BY <1>2, <1>3, <1>4 DEF Apart
  <2> QED
    BY <1>4, <2>1, OwnCidStays, OwnStatStays
<1>6. OneFile'
  BY <1>4 DEF Apart, OneFile, Exists, NoFile
<1>7. Down' /\ AbortsOnlyOnRaces'
  BY <1>4, UpStays, StatusStays
<1>8. \A w \in Work' : w \in Work \/ Alike(w)
  BY <1>3, <1>4
<1>9. (\A w \in Changing : OwnRow(w) /\ OwnCid(w) /\ OwnStat(w))'
  BY <1>5
<1>10. (\A o \in DOMAIN db.files : OwnFile(o) /\ OwnLink(o))'
  OBVIOUS
<1> QED
  BY <1>4, <1>6, <1>7, <1>8, <1>9, <1>10, ApartOf

LEMMA NewApart ==
  ASSUME TypeInv, TypeInv', Stories, Apart, NEW c, NEW d, CallsBack(c, d), c.type = "New"
  PROVE  Apart'
<1> PICK p, n : p = c.path /\ n = NewId(db)
  OBVIOUS
<1>1. c \in Changing /\ p \in Path /\ On(c, p) /\ \A y \in Path : On(d, y) <=> y = p
  <2>1. c \in Changing /\ \A x : On(d, x) <=> On(c, x)
    BY Beginning DEF CallsBack
  <2> QED
    BY <2>1, ChangingTyped
<1>2. d.gid = n /\ db' = WithFile(db, p, StatOf(p)) /\ StatOf(p) \in Stamp
  BY <1>1, StatIsStamp DEF CallsBack
<1>3. /\ n \notin DOMAIN db.files /\ DOMAIN db'.files = DOMAIN db.files \cup {n}
      /\ Rows(p)' = Rows(p) \cup {n} /\ (\A x : x # p => Rows(x)' = Rows(x))
      /\ PathOf(n)' = p /\ Stat(n)' = StatOf(p) /\ ~Linked(n)'
      /\ \A r \in DOMAIN db.files : Stat(r)' = Stat(r) /\ PathOf(r)' = PathOf(r)
      /\ \A r : (Linked(r)' <=> Linked(r)) /\ LinkId(r)' = LinkId(r)
  BY <1>1, <1>2, RowAdded
<1>4. /\ disk' = disk /\ fate' = fate /\ TiesKept /\ \A x : There(x)' = There(x)
      /\ \A w \in Changing' : w \in Changing \/ w = d
      /\ \A x : Exists(x)' <=> Exists(x)
  BY CallingBack
<1>5. \A w \in Changing' : OwnRow(w)'
  <2> TAKE w \in Changing'
  <2> SUFFICES ASSUME NEW x \in Path, Clean(x)', w.gid \in Rows(x)' PROVE On(w, x)
    BY DEF OwnRow, On
  <2>1. CASE w = d
    <3>1. x = p
      BY <1>2, <1>3, <2>1, RowsKnown
    <3> QED
      BY <1>1, <2>1, <3>1
  <2>2. CASE w \in Changing
    <3>1. w.gid # n
      BY <2>2, NewIdNew
    <3>2. w.gid \in Rows(x) /\ Clean(x)
      BY <1>3, <1>4, <3>1 DEF Clean
    <3> QED
      BY <2>2, <3>2 DEF Apart, OwnRow
  <2> QED
    BY <1>4, <2>1, <2>2
<1>6. OwnFile(n)'
  <2>1. Clean(p) => Exists(p)
    <3>1. ASSUME Clean(p) PROVE Exists(p)
      <4>1. Alone(p) /\ c \in LineOn(p)
        BY <1>1, <3>1, OtherTold, Beginning DEF CallsBack
      <4>2. Creating(p)
        BY <1>1, <4>1, LocalLine DEF CallsBack, Begins
      <4> QED
        BY <4>2 DEF Creating
    <3> QED
      BY <3>1
  <2>2. \A y \in Path : Exists(y) <=> disk[y].inode > 0
    BY DEF TypeInv, DiskTyped
  <2>3. StatOf(p).inode = disk[p].inode
    BY DEF StatOf
  <2>4. \A y \in Path : Exists(y) /\ disk[p].inode = disk[y].inode => p = y
    BY <1>1, <2>2 DEF Apart, OneFile
  <2>5. (Clean(p) => StatOf(p).inode > 0) /\ (Clean(p)' <=> Clean(p))
    BY <1>1, <1>4, <2>1, <2>2, <2>3 DEF Clean
  <2>6. \A y \in Path : Exists(y)' /\ StatOf(p).inode = disk'[y].inode => Near(p, y)'
    BY <1>4, <2>3, <2>4 DEF Near
  <2> QED
    BY <1>3, <2>5, <2>6 DEF OwnFile
<1>7. OwnLink(n)'
  BY <1>3 DEF OwnLink
<1>8. \A o \in DOMAIN db'.files : OwnFile(o)' /\ OwnLink(o)'
  <2> TAKE o \in DOMAIN db'.files
  <2>1. CASE o = n
    BY <1>6, <1>7, <2>1
  <2>2. CASE o # n
    <3>1. o \in DOMAIN db.files
      BY <1>3, <2>2
    <3> QED
      BY <1>3, <1>4, <3>1, FileTied, LinkTied
  <2> QED
    BY <2>1, <2>2
<1> QED
  BY <1>5, <1>8, CallbackApartOf

(* Rows that stay at their paths, or go. *)
LEMMA CallbackOwnRows ==
  ASSUME TypeInv, TypeInv', Stories, Apart, NEW c, NEW d, CallsBack(c, d), d.gid = c.gid,
         \A x \in Path : Clean(x) => Rows(x)' \subseteq Rows(x)
  PROVE  \A w \in Changing' : OwnRow(w)'
<1>1. c \in Changing /\ \A x : On(d, x) <=> On(c, x)
  BY Beginning DEF CallsBack
<1>2. fate' = fate /\ \A w \in Changing' : w \in Changing \/ w = d
  BY CallingBack
<1>3. OwnRow(d)
  BY <1>1 DEF Apart, OwnRow
<1> QED
  BY <1>2, <1>3, OwnRowStays DEF Apart

LEMMA DeleteApart ==
  ASSUME TypeInv, TypeInv', Stories, Apart, NEW c, NEW d, CallsBack(c, d), c.type = "Delete"
  PROVE  Apart'
<1> PICK r : r = c.gid
  OBVIOUS
<1>1. db' = WithoutFile(db, r) /\ d.gid = c.gid
  BY DEF CallsBack
<1>2. /\ DOMAIN db'.files = DOMAIN db.files \ {r} /\ (\A x : Rows(x)' = Rows(x) \ {r})
      /\ \A o \in DOMAIN db'.files : Stat(o)' = Stat(o) /\ PathOf(o)' = PathOf(o)
      /\ \A o : Linked(o)' => Linked(o) /\ LinkId(o)' = LinkId(o)
  BY <1>1, RowRemoved
<1>3. disk' = disk /\ fate' = fate /\ TiesKept /\ \A x : There(x)' = There(x)
  BY CallingBack
<1>4. \A w \in Changing' : OwnRow(w)'
  BY <1>1, <1>2, CallbackOwnRows
<1>5. \A o \in DOMAIN db'.files : OwnFile(o)' /\ OwnLink(o)'
  BY <1>2, <1>3, FileTied, LinkTied
<1> QED
  BY <1>4, <1>5, CallbackApartOf

LEMMA UpdateApart ==
  ASSUME TypeInv, TypeInv', Stories, Apart, NEW c, NEW d, CallsBack(c, d), c.type = "Update"
  PROVE  Apart'
<1> PICK r, stat, p : r = c.gid /\ stat = c.stat /\ p = c.path
  OBVIOUS
<1>1. db' = WithFileUpdated(db, r, stat) /\ stat \in Stamp /\ d.gid = c.gid /\ c \in Changing /\ Looked(c) /\ p \in Path
  BY ChangingTyped, Beginning DEF CallsBack, Change, Looked
<1>2. /\ DOMAIN db'.files = DOMAIN db.files /\ (\A x : Rows(x)' = Rows(x))
      /\ \A o \in DOMAIN db.files : PathOf(o)' = PathOf(o) /\ Stat(o)' = IF o = r THEN stat ELSE Stat(o)
      /\ \A o : (Linked(o)' <=> Linked(o)) /\ LinkId(o)' = LinkId(o)
  BY <1>1, RowUpdated
<1>3. disk' = disk /\ fate' = fate /\ TiesKept /\ \A x : There(x)' = There(x)
  BY CallingBack
<1>4. \A w \in Changing' : OwnRow(w)'
  BY <1>1, <1>2, CallbackOwnRows
<1>5. ASSUME r \in DOMAIN db.files PROVE OwnFile(r)'
  <2> PICK x : x = PathOf(r)
    OBVIOUS
  <2>1. x \in Path /\ r \in Rows(x) /\ PathOf(r)' = x /\ Stat(r)' = stat
    BY <1>2, <1>5, RowsKnown
  <2>2. OwnRow(c) /\ OwnStat(c) /\ \A y \in Path : On(c, y) <=> y = p
    BY <1>1, ChangingTyped DEF Apart
  <2>3. Clean(x) => x = p
    BY <2>1, <2>2 DEF OwnRow
  <2>4. Clean(p) => x = p
    BY <1>1, <2>1, LookedRow, RowsKnown
  <2>5. (Clean(x) => stat.inode > 0)
    BY <1>1, <2>2, <2>3 DEF OwnStat
  <2>6. \A y \in Path : Exists(y) /\ stat.inode = disk[y].inode /\ (Clean(x) \/ Clean(y)) => x = y
    BY <1>1, <2>2, <2>3, <2>4 DEF OwnStat
  <2>7. \A y \in Path : (Exists(y)' <=> Exists(y)) /\ (Clean(y)' <=> Clean(y))
    BY <1>3 DEF Exists, NoFile, Clean
  <2>8. \A y \in Path : Exists(y)' /\ stat.inode = disk'[y].inode /\ (Clean(x)' \/ Clean(y)')
                       => Near(x, y)'
    BY <1>3, <2>1, <2>6, <2>7 DEF Near
  <2> QED
    BY <2>1, <2>5, <2>7, <2>8 DEF OwnFile
<1>6. \A o \in DOMAIN db'.files : OwnFile(o)' /\ OwnLink(o)'
  <2> TAKE o \in DOMAIN db'.files
  <2>1. OwnLink(o)'
    BY <1>2, <1>3, LinkTied
  <2>2. CASE o # r
    BY <1>2, <1>3, <2>1, <2>2, FileTied
  <2>3. CASE o = r
    BY <1>2, <1>5, <2>1, <2>3
  <2> QED
    BY <2>2, <2>3
<1> QED
  BY <1>4, <1>6, CallbackApartOf

LEMMA MoveApart ==
  ASSUME TypeInv, TypeInv', Stories, Apart, NEW c, NEW d, CallsBack(c, d), c.type = "Move"
  PROVE  Apart'
<1> PICK r, p, q : r = c.gid /\ p = c.path /\ q = c.to
  OBVIOUS
<1>1. c \in Changing /\ c \in Work /\ p \in Path /\ q \in Path /\ On(c, p) /\ On(c, q) /\ d.gid = r
      /\ \A x : On(d, x) <=> On(c, x)
  <2>1. c \in Changing /\ c \in Work /\ \A x : On(d, x) <=> On(c, x)
    BY Beginning DEF CallsBack
  <2> QED
    BY <2>1, ChangingTyped DEF CallsBack, On
<1>2. db' = WithFileMoved(db, r, q)
  BY DEF CallsBack
<1>3. /\ DOMAIN db'.files = DOMAIN db.files
      /\ \A x : x # q => Rows(x)' = Rows(x) \ {r}
      /\ Rows(q)' = Rows(q) \cup ({r} \cap DOMAIN db.files)
      /\ \A o \in DOMAIN db.files : Stat(o)' = Stat(o) /\ PathOf(o)' = IF o = r THEN q ELSE PathOf(o)
      /\ \A o : (Linked(o)' <=> Linked(o)) /\ LinkId(o)' = LinkId(o)
  BY <1>1, <1>2, RowMoved
<1>4. /\ disk' = disk /\ fate' = fate /\ TiesKept /\ \A x : There(x)' = There(x)
      /\ \A w \in Changing' : w \in Changing \/ w = d
  BY CallingBack
<1>5. d \in Work'
  BY WorkNext DEF CallsBack, Begins
<1>6. Clean(p) <=> Clean(q)
  BY <1>1 DEF Apart, Alike
<1>7. Clean(q) => p # q /\ PathOf(r) = p /\ r \in DOMAIN db.files
  <2>1. ASSUME Clean(q) PROVE p # q /\ Rows(p) = {r}
    <3>1. /\ p # q
          /\ \/ UserMoving(c, p, q) /\ OnlyInLine(c, p) /\ OnlyInLine(c, q)
             \/ OnlyRunning(c, p) \/ CloudMoving(c, p, q)
      BY <1>1, <2>1, MoveTold
    <3>2. c \in LineOn(p) /\ Local(c)
      BY <1>1, Beginning DEF CallsBack
    <3>3. UserMoving(c, p, q) /\ OnlyInLine(c, p)
      BY <3>1, <3>2 DEF OnlyRunning, CloudMoving, Local
    <3>4. c.type # "rename" /\ ~OnlyRunning(c, p)
      BY <3>3 DEF OnlyInLine, OnlyRunning
    <3>5. Rows(p) = {r}
      BY <3>3, <3>4 DEF UserMoving
    <3> QED
      BY <3>1, <3>5
  <2> QED
    BY <2>1, RowsKnown
<1>8. \A w \in Changing' : OwnRow(w)'
  <2> TAKE w \in Changing'
  <2> SUFFICES ASSUME NEW x \in Path, Clean(x)', w.gid \in Rows(x)' PROVE On(w, x)
    BY DEF OwnRow, On
  <2>1. Clean(x)
    BY <1>4 DEF Clean
  <2>2. CASE w.gid \in Rows(x)
    <3>1. \E v \in Changing : v.gid = w.gid /\ (\A y : On(v, y) <=> On(w, y))
      BY <1>1, <1>4
    <3> QED
      BY <2>1, <2>2, <3>1 DEF Apart, OwnRow
  <2>3. CASE w.gid \notin Rows(x)
    <3>1. x = q /\ w.gid = r
      BY <1>3, <2>3
    <3>2. CASE w = d
      BY <1>1, <3>1, <3>2
    <3>3. CASE w \in Changing
      <4>1. Clean(p) /\ r \in Rows(p) /\ p # q
        BY <1>6, <1>7, <2>1, <3>1, RowsKnown
      <4>2. On(w, p)
        BY <1>1, <3>1, <3>3, <4>1 DEF Apart, OwnRow
      <4>3. w \in Work
        BY <3>3, WorkNext
      <4> QED
        BY <1>1, <3>1, <4>1, <4>2, <4>3, Partner
    <3> QED
      BY <1>4, <3>2, <3>3
  <2> QED
    BY <2>2, <2>3
<1>9. \A y \in Path : r \in DOMAIN db.files /\ Near(PathOf(r), y) /\ (Clean(PathOf(r)) \/ Clean(y)) => Near(q, y)'
  <2> TAKE y \in Path
  <2> HAVE r \in DOMAIN db.files /\ Near(PathOf(r), y) /\ (Clean(PathOf(r)) \/ Clean(y))
  <2>1. On(c, y)
    BY <1>1, RowTies
  <2> QED
    BY <1>1, <1>5, <2>1 DEF Near
<1>10. ASSUME r \in DOMAIN db.files PROVE OwnFile(r)' /\ OwnLink(r)'
  <2> PICK x : x = PathOf(r)
    OBVIOUS
  <2>1. x \in Path /\ r \in Rows(x) /\ PathOf(r)' = q /\ Stat(r)' = Stat(r) /\ OwnFile(r) /\ OwnLink(r)
    BY <1>3, <1>10, RowsKnown DEF Apart
  <2>2. \A y \in Path : (Exists(y)' <=> Exists(y)) /\ (Clean(y)' <=> Clean(y))
    BY <1>4 DEF Exists, NoFile, Clean
  <2>3. Clean(q) => Clean(x)
    BY <1>6, <1>7
  <2>4. Clean(q) => Stat(r).inode > 0
    BY <2>1, <2>3 DEF OwnFile
  <2>5. \A y \in Path : Exists(y) /\ Stat(r).inode = disk[y].inode /\ (Clean(q) \/ Clean(y)) => Near(q, y)'
    BY <1>9, <1>10, <2>1, <2>3 DEF OwnFile
  <2>6. OwnFile(r)'
    BY <1>1, <1>4, <2>1, <2>2, <2>4, <2>5 DEF OwnFile
  <2>7. \A y \in Path : Clean(y) /\ Linked(r) /\ LinkId(r) \in There(y) => Near(q, y)'
    BY <1>9, <1>10, <2>1 DEF OwnLink
  <2>8. OwnLink(r)'
    BY <1>3, <1>4, <2>1, <2>2, <2>7 DEF OwnLink
  <2> QED
    BY <2>6, <2>8
<1>11. \A o \in DOMAIN db'.files : OwnFile(o)' /\ OwnLink(o)'
  <2> TAKE o \in DOMAIN db'.files
  <2>1. CASE o # r
    BY <1>3, <1>4, <2>1, FileTied, LinkTied
  <2>2. CASE o = r
    BY <1>3, <1>10, <2>2
  <2> QED
    BY <2>1, <2>2
<1> QED
  BY <1>8, <1>11, CallbackApartOf

LEMMA LocalCallbackOk ==
  ASSUME TypeInv, TypeInv', Stories, Apart, NEW k \in DOMAIN changes, LocalCallback(k)
  PROVE  Stories' /\ Apart'
<1> PICK c : c = changes[k]
  OBVIOUS
<1>1. PICK d : CallsBack(c, d)
  BY CalledBack
<1>2. c.type \in {"New", "Update", "Move", "Delete"}
  BY <1>1, ChangeKinds DEF CallsBack, Change
<1> QED
  BY <1>1, <1>2, CallbackStories, NewApart, UpdateApart, MoveApart, DeleteApart

LEMMA InLineK ==
  ASSUME TypeInv, NEW k \in DOMAIN changes, NEW c, c = changes[k]
  PROVE  c \in Pending /\ c \in Changing /\ c \in Work /\ c \in Change /\ c.path \in Path /\ On(c, c.path)
         /\ \A x : On(c, x) => c \in LineOn(x)
<1>1. c \in Range(changes)
  BY DEF Range
<1> QED
  BY <1>1, RangeOfSeq, WorkIs, ChangingTyped DEF Pending, Changing, LineOn

(* The row or the link has gone only if somebody was in the way.  *)
LEMMA CallbackThrowsOk ==
  ASSUME TypeInv, Stories, Apart, NEW k \in DOMAIN changes, LocalCallbackThrows(k)
  PROVE  ~Clean(changes[k].path)
<1> PICK c, p : c = changes[k] /\ p = c.path
  OBVIOUS
<1>1. Ready(k) /\ Local(c) /\ c.type # "New" /\ ~Linked(c.gid)
  BY DEF LocalCallbackThrows
<1>2. c \in Changing /\ p \in Path /\ On(c, p) /\ c \in LineOn(p) /\ \A d \in running : d.path # p
  BY <1>1, InLineK DEF Ready
<1>3. ASSUME Clean(p) PROVE FALSE
  <2>1. CASE c.type # "Move"
    <3>1. Alone(p)
      BY <1>2, <1>3, <2>1, OtherTold
    <3>2. Everywhere(p, c.gid)
      BY <1>1, <1>2, <3>1, LocalLine
    <3> QED
      BY <1>1, <3>2 DEF Everywhere
  <2>2. CASE c.type = "Move"
    <3> PICK q : q = c.to
      OBVIOUS
    <3>1. \/ UserMoving(c, p, q) /\ OnlyInLine(c, p) /\ OnlyInLine(c, q)
          \/ OnlyRunning(c, p) \/ CloudMoving(c, p, q)
      BY <1>2, <1>3, <2>2, MoveTold
    <3>2. UserMoving(c, p, q) /\ OnlyInLine(c, p)
      BY <1>1, <1>2, <3>1 DEF OnlyRunning, CloudMoving, Local
    <3>3. c.type # "rename" /\ ~OnlyRunning(c, p)
      BY <2>2, <3>2 DEF OnlyInLine, OnlyRunning
    <3>4. Linked(c.gid)
      BY <3>2, <3>3 DEF UserMoving, Agreed
    <3> QED
      BY <1>1, <3>4
  <2> QED
    BY <2>1, <2>2
<1> QED
  BY <1>3

-----------------------------------------------------------------------------
(* What a step makes of the files in the cloud. *)

LEMMA CloudPut ==
  ASSUME TypeInv, NEW n, n \notin DOMAIN remote, NEW p, NEW h,
         remote' = Put(remote, n, [path |-> p, hash |-> h])
  PROVE  /\ There(p)' = There(p) \cup {n} /\ (\A x : x # p => There(x)' = There(x))
         /\ HashAt(n)' = h /\ \A m \in DOMAIN remote : HashAt(m)' = HashAt(m)
<1>1. DOMAIN remote' = DOMAIN remote \cup {n} /\ remote'[n].path = p /\ remote'[n].hash = h
  BY DEF Put
<1>2. \A m \in DOMAIN remote : remote'[m] = remote[m]
  BY DEF Put
<1> QED
  BY <1>1, <1>2 DEF There, HashAt

LEMMA CloudHash ==
  ASSUME TypeInv, NEW n, NEW h, remote' = [remote EXCEPT ![n].hash = h]
  PROVE  /\ \A x : There(x)' = There(x)
         /\ n \in DOMAIN remote => HashAt(n)' = h
         /\ \A m \in DOMAIN remote : m # n => HashAt(m)' = HashAt(m)
<1>1. DOMAIN remote' = DOMAIN remote /\ \A m \in DOMAIN remote : m # n => remote'[m] = remote[m]
  OBVIOUS
<1>2. \A m \in DOMAIN remote : remote[m] \in [path : Path, hash : Nat]
  BY DEF TypeInv, CloudTyped
<1>3. n \in DOMAIN remote => remote'[n].path = remote[n].path /\ remote'[n].hash = h
  BY <1>2
<1> QED
  BY <1>1, <1>3 DEF There, HashAt

LEMMA CloudPath ==
  ASSUME TypeInv, NEW n, NEW q, remote' = [remote EXCEPT ![n].path = q]
  PROVE  /\ There(q)' = There(q) \cup ({n} \cap DOMAIN remote)
         /\ \A x : x # q => There(x)' = There(x) \ {n}
         /\ \A m \in DOMAIN remote : HashAt(m)' = HashAt(m)
<1>1. DOMAIN remote' = DOMAIN remote /\ \A m \in DOMAIN remote : m # n => remote'[m] = remote[m]
  OBVIOUS
<1>2. \A m \in DOMAIN remote : remote[m] \in [path : Path, hash : Nat]
  BY DEF TypeInv, CloudTyped
<1>3. n \in DOMAIN remote => remote'[n].path = q /\ remote'[n].hash = remote[n].hash
  BY <1>2
<1> QED
  BY <1>1, <1>3 DEF There, HashAt

LEMMA CloudWithout ==
  ASSUME NEW n, remote' = [m \in DOMAIN remote \ {n} |-> remote[m]]
  PROVE  /\ \A x : There(x)' = There(x) \ {n}
         /\ \A m \in DOMAIN remote : m # n => HashAt(m)' = HashAt(m)
<1>1. DOMAIN remote' = DOMAIN remote \ {n} /\ \A m \in DOMAIN remote : m # n => remote'[m] = remote[m]
  OBVIOUS
<1> QED
  BY <1>1 DEF There, HashAt

(* The stories of a change whose commands are at work. *)
LEMMA CloudRun ==
  ASSUME TypeInv, NEW p \in Path, Alone(p), NEW c \in RunsOn(p), c.by = "cloud"
  PROVE  /\ RunsOn(p) = {c}
         /\ \/ CloudNew(c, p) /\ c.stage # "waiting"
            \/ CloudUpdate(c, p) /\ c.stage # "waiting"
            \/ CloudDelete(c, p) /\ c.stage = "placed"
<1>1. ~Absent(p) /\ ~Creating(p)
  BY DEF Absent, Creating
<1>2. ASSUME NEW r, Kept(p, r) PROVE FALSE
  BY <1>2 DEF Kept, KeptRuns, KeptRun, Local
<1>3. ASSUME NEW w, Deleting(w, p) PROVE FALSE
  BY <1>3 DEF Deleting, OnlyEvent, OnlyInLine, OnlyRunning
<1>4. ASSUME NEW w, CloudNew(w, p) PROVE w = c /\ RunsOn(p) = {c} /\ c.stage # "waiting"
  BY <1>4 DEF CloudNew, OnlyInLine, OnlyRunning
<1>5. ASSUME NEW w, CloudUpdate(w, p) PROVE w = c /\ RunsOn(p) = {c} /\ c.stage # "waiting"
  BY <1>5 DEF CloudUpdate, OnlyInLine, OnlyRunning
<1>6. ASSUME NEW w, CloudDelete(w, p) PROVE w = c /\ RunsOn(p) = {c} /\ c.stage = "placed"
  BY <1>6 DEF CloudDelete, OnlyInLine
<1> QED
  BY <1>1, <1>2, <1>3, <1>4, <1>5, <1>6 DEF Alone

LEMMA LocalRun ==
  ASSUME TypeInv, NEW p \in Path, Alone(p), NEW c \in RunsOn(p), Local(c)
  PROVE  \/ c.type \in {"New", "Update"} /\ Kept(p, c.gid) /\ KeptRun(c, p, c.gid)
         \/ c.type = "Delete" /\ Deleting(c, p) /\ OnlyRunning(c, p) /\ Rows(p) = {} /\ There(p) = {c.cid}
<1>1. ~Absent(p) /\ ~Creating(p)
  BY DEF Absent, Creating
<1>2. ASSUME NEW r, Kept(p, r)
      PROVE  c.type \in {"New", "Update"} /\ Kept(p, c.gid) /\ KeptRun(c, p, c.gid)
  <2>1. PICK d \in RunsOn(p) : KeptRun(d, p, r)
    BY <1>2 DEF Kept, KeptRuns
  <2>2. d = c /\ c.gid = r /\ c.type \in {"New", "Update"}
    BY <2>1 DEF KeptRun
  <2> QED
    BY <1>2, <2>1, <2>2
<1>3. ASSUME NEW w, Deleting(w, p)
      PROVE  c.type = "Delete" /\ Deleting(c, p) /\ OnlyRunning(c, p) /\ Rows(p) = {} /\ There(p) = {c.cid}
  <2>1. OnlyRunning(w, p) /\ Rows(p) = {} /\ There(p) = {w.cid} /\ w.type = "Delete"
    BY <1>3 DEF Deleting, OnlyEvent, OnlyInLine
  <2>2. w = c
    BY <2>1 DEF OnlyRunning
  <2> QED
    BY <1>3, <2>1, <2>2
<1>4. ASSUME NEW w, CloudNew(w, p) PROVE FALSE
  BY <1>4 DEF CloudNew, OnlyInLine, OnlyRunning, Local
<1>5. ASSUME NEW w, CloudUpdate(w, p) PROVE FALSE
  BY <1>5 DEF CloudUpdate, OnlyInLine, OnlyRunning, Local
<1>6. ASSUME NEW w, CloudDelete(w, p) PROVE FALSE
  BY <1>6 DEF CloudDelete, OnlyInLine, Local
<1> QED
  BY <1>1, <1>2, <1>3, <1>4, <1>5, <1>6 DEF Alone

LEMMA NoneEarlier ==
  ASSUME TypeInv, NEW p, EventsOn(p) = {}
  PROVE  ~Earlier(Destroyed(p), Destroyed(p))
<1>1. ASSUME Earlier(Destroyed(p), Destroyed(p)) PROVE FALSE
  <2>1. Destroyed(p) \in EventsOn(p)
    BY <1>1, EarlierIn, NoticesOn DEF EventsOn
  <2> QED
    BY <2>1
<1> QED
  BY <1>1

(* A file that is nowhere, with nothing on its way. *)
LEMMA IdleAbsent ==
  ASSUME NEW p,
         (/\ ~Exists(p) /\ Nowhere(p) /\ EventsOn(p) = {} /\ LineOn(p) = {} /\ RunsOn(p) = {}
          /\ ~Awaits(p) /\ ~Earlier(Destroyed(p), Destroyed(p)))'
  PROVE  Absent(p)'
BY DEF Absent, DestroyAwaited

(* The cloud has the file as it is. *)
LEMMA KeptEnds ==
  ASSUME TypeInv, NEW p, NEW r, Kept(p, r), SameFile(p), SameEvents(p), SameLine(p), SameAwait(p),
         Rows(p)' = Rows(p), Stat(r)' = Stat(r), RunsOn(p)' = {},
         (Linked(r) /\ There(p) = {LinkId(r)} /\ HashAt(LinkId(r)) = disk[p].hash)'
  PROVE  Kept(p, r)'
<1>1. (Exists(p)' <=> Exists(p)) /\ StatOf(p)' = StatOf(p) /\ disk'[p] = disk[p]
  BY SameExists
<1>2. \A s : Dated(s, p)' <=> Dated(s, p)
  BY <1>1 DEF Dated
<1>3. \A c : Newest(c, p)' <=> Newest(c, p)
  BY <1>1 DEF Newest
<1>4. DestroyAwaited(p)'
  BY NoticesOn DEF Kept, KeptRow, DestroyAwaited, SameAwait, SameEvents
<1>5. Dated(Stat(r), p)'
  BY <1>1 DEF Kept, KeptRow, Dated
<1>6. KeptRow(p, r)'
  BY <1>1, <1>4, <1>5 DEF Kept, KeptRow, SameEvents
<1>7. KeptLine(p, r)'
  BY <1>2, <1>3 DEF Kept, KeptLine, SameLine, LineOn, Dated, Newest
<1>8. KeptRuns(p, r)'
  BY DEF KeptRuns
<1>9. KeptFlow(p, r)'
  BY <1>1, <1>3 DEF Kept, KeptFlow, SameLine, SameEvents, Newest
<1> QED
  BY <1>6, <1>7, <1>8, <1>9 DEF Kept

LEMMA LinkStaysTied ==
  ASSUME TypeInv, Stories, Apart, TiesKept, NEW r \in DOMAIN db.files, r \in DOMAIN db'.files,
         PathOf(r)' = PathOf(r), NEW y \in Path, Clean(y), Linked(r), LinkId(r) \in There(y),
         There(y)' # {}
  PROVE  Near(PathOf(r), y)'
<1> PICK x : x = PathOf(r)
  OBVIOUS
<1>1. x \in Path /\ OwnLink(r) /\ PathOf(r)' = x
  BY RowsKnown DEF Apart
<1>2. Near(x, y)
  BY <1>1 DEF OwnLink
<1>3. Clean(x)
  BY <1>1, <1>2, NearSame
<1>4. x = y \/ Near(x, y)' \/ Parted(x, y)'
  BY <1>1, <1>2, <1>3 DEF TiesKept
<1>5. ~Parted(x, y)'
  BY <1>1 DEF Parted, Rows, RowsOf, PathOf
<1> QED
  BY <1>1, <1>4, <1>5 DEF Near

-----------------------------------------------------------------------------
(* Request. *)

Requests(c) ==
  /\ Up /\ Ending(c) /\ Local(c) /\ c.stage = "request"
  /\ UNCHANGED <<fsVars, events, notices, changes, out, seen, expected, status, fate>>
  /\ c.type = "New" =>
       /\ remote' = Put(remote, fresh', [path |-> c.path, hash |-> disk[c.path].hash])
       /\ db' = WithLink(db, c.gid, Cloud, [id |-> fresh']) /\ CanLink(db, c.gid)
       /\ fresh' = fresh + 1
  /\ c.type # "New" => UNCHANGED db
  /\ c.type = "Update" => remote' = [remote EXCEPT ![c.cid].hash = disk[c.path].hash]
  /\ c.type = "Move" => remote' = [remote EXCEPT ![c.cid].path = c.to]
  /\ c.type = "Delete" => remote' = [x \in DOMAIN remote \ {c.cid} |-> remote[x]]

LEMMA Requested == ASSUME TypeInv, NEW c, Request(c) PROVE Requests(c)
<1>1. c \in running /\ c.stage = "request" /\ Up /\ running' = running \ {c}
  BY DEF Request, Finished
<1>2. Local(c)
  BY <1>1 DEF TypeInv, RunsTyped, Runs
<1>3. UNCHANGED <<fsVars, events, notices, changes, out, seen, expected, status, fate>>
  BY DEF Request, eventVars
<1>4. c.type = "New" =>
       /\ remote' = Put(remote, fresh', [path |-> c.path, hash |-> disk[c.path].hash])
       /\ db' = WithLink(db, c.gid, Cloud, [id |-> fresh']) /\ CanLink(db, c.gid)
       /\ fresh' = fresh + 1
  BY DEF Request
<1>5. /\ c.type = "Update" => UNCHANGED db /\ remote' = [remote EXCEPT ![c.cid].hash = disk[c.path].hash]
      /\ c.type = "Move" => UNCHANGED db /\ remote' = [remote EXCEPT ![c.cid].path = c.to]
      /\ c.type = "Delete" => UNCHANGED db /\ remote' = [x \in DOMAIN remote \ {c.cid} |-> remote[x]]
  BY DEF Request
<1>6. c.type \in {"New", "Update", "Move", "Delete"}
  BY <1>1, ChangeKinds DEF TypeInv, RunsTyped, Change
<1> QED
  BY <1>1, <1>2, <1>3, <1>4, <1>5, <1>6 DEF Requests, Ending

LEMMA Requesting ==
  ASSUME TypeInv, NEW c, Requests(c)
  PROVE  /\ QueueStays /\ LineStays /\ disk' = disk /\ fate' = fate /\ Up /\ status' = status
         /\ \A x : SameFile(x) /\ SameEvents(x) /\ SameLine(x) /\ SameAwait(x)
         /\ \A x : /\ (Exists(x)' <=> Exists(x)) /\ StatOf(x)' = StatOf(x)
                   /\ (Awaits(x)' <=> Awaits(x)) /\ EventsOn(x)' = EventsOn(x)
                   /\ LineOn(x)' = LineOn(x)
         /\ \A x : ~On(c, x) => SameRuns(x)
         /\ \A x : RunsOn(x) = {c} => RunsOn(x)' = {}
         /\ c \in Changing /\ c \in Work /\ c \in Change /\ c.path \in Path
         /\ \A x : On(c, x) => c \in RunsOn(x)
         /\ c.type \in {"New", "Update", "Move", "Delete"}
<1>1. UNCHANGED <<fsVars, events, notices, changes, out, seen, expected, status, fate>> /\ Up
  BY DEF Requests
<1>2. QueueStays /\ LineStays
  BY <1>1, QueueKept, LineUntouched
<1>3. \A x : SameFile(x) /\ SameEvents(x) /\ SameLine(x) /\ SameAwait(x)
  BY <1>1, <1>2, Untouched
<1>4. \A x : /\ (Exists(x)' <=> Exists(x)) /\ StatOf(x)' = StatOf(x)
             /\ (Awaits(x)' <=> Awaits(x)) /\ EventsOn(x)' = EventsOn(x) /\ LineOn(x)' = LineOn(x)
  BY <1>3, SameExists DEF SameAwait, SameEvents, SameLine
<1>5. c \in Changing /\ c \in Work /\ c \in Change
  BY Ended DEF Requests
<1>6. c.type \in {"New", "Update", "Move", "Delete"} /\ c.path \in Path
  BY <1>5, ChangeKinds DEF Change
<1>7. disk' = disk
  BY <1>1 DEF fsVars
<1> QED
  BY <1>1, <1>2, <1>3, <1>4, <1>5, <1>6, <1>7, Ended DEF Requests

(* What the request makes of rows, links and the files in the cloud. *)
LEMMA RequestNew ==
  ASSUME TypeInv, NEW c, Requests(c), c.type = "New", NEW r, r = c.gid, NEW p, p = c.path,
         NEW n, n = fresh'
  PROVE  /\ r \in DOMAIN db.files /\ n \notin DOMAIN remote /\ n > fresh /\ n \in Nat
         /\ There(p)' = There(p) \cup {n} /\ (\A x : x # p => There(x)' = There(x))
         /\ HashAt(n)' = disk[p].hash /\ (\A m \in DOMAIN remote : HashAt(m)' = HashAt(m))
         /\ DOMAIN db'.files = DOMAIN db.files /\ (\A x : Rows(x)' = Rows(x))
         /\ \A o \in DOMAIN db.files : Stat(o)' = Stat(o) /\ PathOf(o)' = PathOf(o)
         /\ \A o : Linked(o) => Linked(o)' /\ LinkId(o)' = LinkId(o)
         /\ \A o : Linked(o)' => Linked(o) \/ o = r
         /\ ~Linked(r) => LinkId(r)' = n
         /\ Linked(r)'
<1>1. fresh \in Nat /\ n = fresh + 1 /\ \A m \in DOMAIN remote : m \in 1..fresh
  BY DEF TypeInv, RestTyped, CloudTyped, Requests
<1>2. n \notin DOMAIN remote /\ n > fresh /\ n \in Nat
  BY <1>1
<1>3. r \in DOMAIN db.files /\ db' = WithLink(db, r, Cloud, [id |-> n])
  BY DEF Requests, CanLink
<1>4. remote' = Put(remote, n, [path |-> p, hash |-> disk[p].hash])
  BY DEF Requests
<1>5. /\ There(p)' = There(p) \cup {n} /\ (\A x : x # p => There(x)' = There(x))
      /\ HashAt(n)' = disk[p].hash /\ (\A m \in DOMAIN remote : HashAt(m)' = HashAt(m))
  BY <1>2, <1>4, CloudPut
<1>6. /\ DOMAIN db'.files = DOMAIN db.files /\ (\A x : Rows(x)' = Rows(x))
      /\ \A o \in DOMAIN db.files : Stat(o)' = Stat(o) /\ PathOf(o)' = PathOf(o)
      /\ \A o : Linked(o) => Linked(o)' /\ LinkId(o)' = LinkId(o)
      /\ \A o : Linked(o)' => Linked(o) \/ o = r
      /\ ~Linked(r) => LinkId(r)' = n
      /\ Linked(r)'
  BY <1>2, <1>3, LinkAdded
<1> QED
  BY <1>2, <1>3, <1>5, <1>6

LEMMA RequestOther ==
  ASSUME TypeInv, NEW c, Requests(c), c.type # "New"
  PROVE  /\ DOMAIN db'.files = DOMAIN db.files /\ (\A x : Rows(x)' = Rows(x))
         /\ \A o : Stat(o)' = Stat(o) /\ PathOf(o)' = PathOf(o)
         /\ \A o : (Linked(o)' <=> Linked(o)) /\ LinkId(o)' = LinkId(o)
         /\ \A x : SameRows(x)
<1>1. db' = db
  BY DEF Requests
<1> QED
  BY <1>1, Untouched DEF Rows, Stat, PathOf, Linked, LinkId, Link

(* The paths that it is not about. *)
LEMMA RequestOff ==
  ASSUME TypeInv, Stories, Apart, NEW c, Requests(c), NEW x \in Path, Clean(x), ~On(c, x)
  PROVE  Same(x)
<1> PICK r, n, p, q, m : r = c.gid /\ n = fresh' /\ p = c.path /\ q = c.to /\ m = c.cid
  OBVIOUS
<1>1. SameFile(x) /\ SameEvents(x) /\ SameLine(x) /\ SameAwait(x) /\ SameRuns(x) /\ c \in Changing
  BY Requesting
<1>2. r \notin Rows(x) /\ m \notin There(x) /\ p # x /\ q # x
  BY <1>1 DEF Apart, OwnRow, OwnCid, On
<1>3. (\A o \in Rows(x) : o \in DOMAIN db.files /\ o # r) /\ \A o \in There(x) : o \in DOMAIN remote /\ o # m
  BY <1>2, RowsKnown
<1>4. CASE c.type = "New"
  <2>1. /\ \A y : y # p => There(y)' = There(y)
        /\ \A o \in DOMAIN remote : HashAt(o)' = HashAt(o)
        /\ \A y : Rows(y)' = Rows(y)
        /\ \A o \in DOMAIN db.files : Stat(o)' = Stat(o)
        /\ \A o : Linked(o) => Linked(o)' /\ LinkId(o)' = LinkId(o)
        /\ \A o : Linked(o)' => Linked(o) \/ o = r
    BY <1>4, RequestNew
  <2>2. SameRows(x)
    BY <1>3, <2>1 DEF SameRows
  <2>3. SameThere(x)
    BY <1>2, <1>3, <2>1 DEF SameThere
  <2> QED
    BY <1>1, <2>2, <2>3 DEF Same
<1>5. CASE c.type = "Update"
  <2>1. remote' = [remote EXCEPT ![m].hash = disk[p].hash]
    BY <1>5 DEF Requests
  <2>2. SameThere(x)
    BY <1>3, <2>1, CloudHash DEF SameThere
  <2> QED
    BY <1>1, <1>5, <2>2, RequestOther DEF Same
<1>6. CASE c.type = "Move"
  <2>1. remote' = [remote EXCEPT ![m].path = q]
    BY <1>6 DEF Requests
  <2>2. There(x)' = There(x) \ {m} /\ \A o \in DOMAIN remote : HashAt(o)' = HashAt(o)
    BY <1>2, <2>1, CloudPath
  <2>3. SameThere(x)
    BY <1>2, <1>3, <2>2 DEF SameThere
  <2> QED
    BY <1>1, <1>6, <2>3, RequestOther DEF Same
<1>7. CASE c.type = "Delete"
  <2>1. remote' = [o \in DOMAIN remote \ {m} |-> remote[o]]
    BY <1>7 DEF Requests
  <2>2. SameThere(x)
    BY <1>2, <1>3, <2>1, CloudWithout DEF SameThere
  <2> QED
    BY <1>1, <1>7, <2>2, RequestOther DEF Same
<1> QED
  BY <1>4, <1>5, <1>6, <1>7, Requesting

LEMMA RequestKept ==
  ASSUME TypeInv, TypeInv', NEW c, Requests(c), NEW p \in Path, NEW r, r = c.gid, Kept(p, r), KeptRun(c, p, r)
  PROVE  Kept(p, r)'
<1>1. /\ Exists(p) /\ Rows(p) = {r} /\ RunsOn(p) = {c} /\ c.path = p /\ r \in DOMAIN db.files
      /\ \/ c.type = "New" /\ ~Linked(r) /\ There(p) = {}
         \/ c.type = "Update" /\ Linked(r) /\ There(p) = {LinkId(r)} /\ c.cid = LinkId(r)
  BY RowsKnown DEF Kept, KeptRow, KeptRun
<1>2. SameFile(p) /\ SameEvents(p) /\ SameLine(p) /\ SameAwait(p) /\ RunsOn(p)' = {} /\ disk' = disk
  BY <1>1, Requesting
<1>3. Rows(p)' = Rows(p) /\ Stat(r)' = Stat(r)
  BY <1>1, RequestNew, RequestOther
<1>4. CASE c.type = "New"
  <2> PICK n : n = fresh'
    OBVIOUS
  <2>1. There(p)' = There(p) \cup {n} /\ HashAt(n)' = disk[p].hash /\ Linked(r)' /\ LinkId(r)' = n
    BY <1>1, <1>4, RequestNew
  <2>2. (Linked(r) /\ There(p) = {LinkId(r)} /\ HashAt(LinkId(r)) = disk[p].hash)'
    BY <1>1, <1>2, <1>4, <2>1 DEF HashAt
  <2> QED
    BY <1>2, <1>3, <2>2, KeptEnds
<1>5. CASE c.type = "Update"
  <2> PICK m : m = c.cid
    OBVIOUS
  <2>1. remote' = [remote EXCEPT ![m].hash = disk[p].hash] /\ m \in DOMAIN remote
    BY <1>1, <1>5, RowsKnown DEF Requests
  <2>2. There(p)' = {m} /\ HashAt(m)' = disk[p].hash /\ Linked(r)' /\ LinkId(r)' = m
    BY <1>1, <1>5, <2>1, CloudHash, RequestOther
  <2>3. (Linked(r) /\ There(p) = {LinkId(r)} /\ HashAt(LinkId(r)) = disk[p].hash)'
    BY <1>2, <2>2 DEF HashAt
  <2> QED
    BY <1>2, <1>3, <2>3, KeptEnds
<1> QED
  BY <1>1, <1>4, <1>5

LEMMA RequestDeleted ==
  ASSUME TypeInv, NEW c, Requests(c), NEW p \in Path, c.type = "Delete", Deleting(c, p), OnlyRunning(c, p),
         Rows(p) = {}, There(p) = {c.cid}
  PROVE  Absent(p)'
<1> PICK m : m = c.cid
  OBVIOUS
<1>1. ~Exists(p) /\ ~Awaits(p) /\ RunsOn(p)' = {} /\ EventsOn(p) = {} /\ LineOn(p) = {}
  BY Requesting DEF Deleting, OnlyRunning
<1>2. There(p)' = {} /\ Rows(p)' = {}
  <2>1. remote' = [o \in DOMAIN remote \ {m} |-> remote[o]]
    BY DEF Requests
  <2> QED
    BY <2>1, CloudWithout, RequestOther
<1>3. ~Earlier(Destroyed(p), Destroyed(p))'
  BY <1>1, NoneEarlier, Requesting DEF QueueStays
<1>4. (/\ ~Exists(p) /\ Nowhere(p) /\ EventsOn(p) = {} /\ LineOn(p) = {} /\ RunsOn(p) = {}
       /\ ~Awaits(p) /\ ~Earlier(Destroyed(p), Destroyed(p)))'
  BY <1>1, <1>2, <1>3, Requesting DEF Nowhere
<1> QED
  BY <1>4, IdleAbsent

(* A user's move whose request is at work. *)
LEMMA MoveRunning ==
  ASSUME TypeInv, Stories, NEW c \in running, c.type = "Move", Local(c), NEW p, NEW q, p = c.path, q = c.to,
         NEW x \in {p, q}, Clean(x), x \in Path
  PROVE  /\ p \in Path /\ q \in Path /\ p # q /\ Clean(p) /\ Clean(q)
         /\ OnlyRunning(c, p) /\ OnlyRunning(c, q)
         /\ ~Exists(p) /\ Exists(q) /\ ~Awaits(p) /\ ~Awaits(q)
         /\ Rows(p) = {} /\ There(q) = {} /\ There(p) = {c.cid}
         /\ Rows(q) = {c.gid} /\ Agreed(c.gid, q) /\ c.cid = LinkId(c.gid)
<1>1. c \in Changing /\ On(c, x) /\ c \in RunsOn(x)
  BY DEF Changing, On, RunsOn
<1>2. /\ p \in Path /\ q \in Path /\ p # q /\ Clean(p) /\ Clean(q)
      /\ \/ UserMoving(c, p, q) /\ OnlyInLine(c, p) /\ OnlyInLine(c, q)
         \/ UserMoving(c, p, q) /\ OnlyRunning(c, p) /\ OnlyRunning(c, q)
         \/ CloudMoving(c, p, q)
  BY <1>1, MoveTold
<1>3. c \in RunsOn(p)
  BY DEF RunsOn, On
<1>4. UserMoving(c, p, q) /\ OnlyRunning(c, p) /\ OnlyRunning(c, q)
  BY <1>2, <1>3 DEF OnlyInLine, CloudMoving, Local
<1>5. c.type # "rename" /\ ~OnlyInLine(c, p)
  BY <1>3 DEF OnlyInLine
<1> PICK r, m : r = c.gid /\ m = c.cid
  OBVIOUS
<1>6. /\ ~Exists(p) /\ Exists(q) /\ ~Awaits(p) /\ ~Awaits(q)
      /\ Rows(p) = {} /\ There(q) = {} /\ Rows(q) = {r} /\ Agreed(r, q) /\ m = LinkId(r)
      /\ There(p) = {LinkId(r)}
  BY <1>4, <1>5 DEF UserMoving
<1> QED
  BY <1>2, <1>4, <1>6

LEMMA RequestMoved ==
  ASSUME TypeInv, TypeInv', Stories, NEW c, Requests(c), c.type = "Move", NEW x \in Path, Clean(x), On(c, x)
  PROVE  Told(x)'
<1> PICK p, q, r, m : p = c.path /\ q = c.to /\ r = c.gid /\ m = c.cid
  OBVIOUS
<1>1. /\ p \in Path /\ q \in Path /\ p # q
      /\ OnlyRunning(c, p) /\ OnlyRunning(c, q)
      /\ ~Exists(p) /\ Exists(q) /\ ~Awaits(p) /\ ~Awaits(q)
      /\ Rows(p) = {} /\ There(q) = {} /\ There(p) = {m}
      /\ Rows(q) = {r} /\ Agreed(r, q) /\ m = LinkId(r)
  <2>1. c \in running /\ Local(c) /\ x \in {p, q}
    BY DEF Requests, Ending, On
  <2> QED
    BY <2>1, MoveRunning
<1>2. \A y \in {p, q} : /\ EventsOn(y)' = {} /\ LineOn(y)' = {} /\ RunsOn(y)' = {}
                        /\ ~Awaits(y)' /\ ~Earlier(Destroyed(y), Destroyed(y))'
  <2> TAKE y \in {p, q}
  <2>1. EventsOn(y) = {} /\ LineOn(y) = {} /\ RunsOn(y) = {c} /\ ~Awaits(y)
    BY <1>1 DEF OnlyRunning
  <2>2. ~Earlier(Destroyed(y), Destroyed(y))
    BY <2>1, NoneEarlier
  <2> QED
    BY <2>1, <2>2, Requesting DEF QueueStays
<1>3. remote' = [remote EXCEPT ![m].path = q] /\ m \in DOMAIN remote
  BY <1>1, RowsKnown DEF Requests
<1>4. There(q)' = {m} /\ There(p)' = {} /\ HashAt(m)' = HashAt(m)
  <2>1. /\ There(q)' = There(q) \cup ({m} \cap DOMAIN remote)
        /\ \A y : y # q => There(y)' = There(y) \ {m}
        /\ \A o \in DOMAIN remote : HashAt(o)' = HashAt(o)
    BY <1>3, CloudPath
  <2> QED
    BY <1>1, <1>3, <2>1
<1>5. Rows(p)' = {} /\ Rows(q)' = {r} /\ Stat(r)' = Stat(r) /\ (Linked(r)' <=> Linked(r)) /\ LinkId(r)' = LinkId(r)
  BY <1>1, RequestOther
<1>6. ~Exists(p)' /\ Exists(q)' /\ StatOf(q)' = StatOf(q) /\ disk' = disk
  BY <1>1, Requesting
<1>7. Absent(p)'
  <2>1. (/\ ~Exists(p) /\ Nowhere(p) /\ EventsOn(p) = {} /\ LineOn(p) = {} /\ RunsOn(p) = {}
         /\ ~Awaits(p) /\ ~Earlier(Destroyed(p), Destroyed(p)))'
    BY <1>2, <1>4, <1>5, <1>6 DEF Nowhere
  <2> QED
    BY <2>1, IdleAbsent
<1>8. Agreed(r, q)'
  BY <1>1, <1>4, <1>5, <1>6 DEF Agreed
<1>9. Everywhere(q, r)'
  BY <1>1, <1>4, <1>5, <1>8 DEF Everywhere, Agreed
<1>10. (disk[q].hash \in Nat)'
  BY <1>1 DEF TypeInv, DiskTyped, File
<1>11. Kept(q, r)'
  <2>1. (/\ Exists(q) /\ Everywhere(q, r) /\ Agreed(r, q) /\ EventsOn(q) = {} /\ LineOn(q) = {}
         /\ RunsOn(q) = {} /\ ~Awaits(q) /\ ~Earlier(Destroyed(q), Destroyed(q))
         /\ disk[q].hash \in Nat)'
    BY <1>2, <1>6, <1>8, <1>9, <1>10
  <2> QED
    BY <2>1, IdleKept
<1>12. x = p \/ x = q
  BY DEF On
<1> QED
  BY <1>5, <1>7, <1>11, <1>12 DEF Told, Alone

LEMMA RequestStories ==
  ASSUME TypeInv, TypeInv', Stories, Apart, NEW c, Requests(c)
  PROVE  Stories'
<1>1. c \in Changing /\ c \in Work /\ Local(c) /\ fate' = fate
  BY Requesting DEF Requests
<1>2. \A x \in Path : Clean(x) /\ ~On(c, x) => Same(x)
  BY RequestOff
<1>3. \A x \in Path : Clean(x) /\ On(c, x) => Told(x)'
  <2> TAKE x \in Path
  <2> HAVE Clean(x) /\ On(c, x)
  <2>1. CASE c.type # "Move"
    <3>1. Alone(x) /\ c \in RunsOn(x)
      BY <1>1, <2>1, OtherTold, Requesting
    <3> PICK r : r = c.gid
      OBVIOUS
    <3>2. CASE Kept(x, r) /\ KeptRun(c, x, r)
      <4>1. Kept(x, r)'
        BY <3>2, RequestKept
      <4>2. r \in Rows(x)'
        BY <4>1 DEF Kept, KeptRow
      <4> QED
        BY <4>1, <4>2 DEF Told, Alone
    <3>3. CASE c.type = "Delete" /\ Deleting(c, x) /\ OnlyRunning(c, x) /\ Rows(x) = {} /\ There(x) = {c.cid}
      <4>1. Absent(x)'
        BY <3>3, RequestDeleted
      <4> QED
        BY <4>1 DEF Told, Alone
    <3> QED
      BY <1>1, <3>1, <3>2, <3>3, LocalRun
  <2>2. CASE c.type = "Move"
    BY <2>2, RequestMoved
  <2> QED
    BY <2>1, <2>2
<1> QED
  BY <1>1, <1>2, <1>3, StoriesBut

(* The two paths of a move are told apart when it has ended. *)
LEMMA RequestTies ==
  ASSUME TypeInv, Stories, Apart, NEW c, Requests(c)
  PROVE  /\ TiesKept
         /\ \A w \in Work' : w \in Work
         /\ \A w \in Changing' : w \in Changing
<1> PICK p, q, m : p = c.path /\ q = c.to /\ m = c.cid
  OBVIOUS
<1>1. c \in Changing /\ c \in running /\ Local(c) /\ Ending(c) /\ QueueStays /\ LineStays
  BY Requesting DEF Requests, Ending
<1>2. ASSUME NEW x \in Path, NEW y \in Path, x # y, Clean(x), On(c, x), On(c, y)
      PROVE  Parted(x, y)'
  <2>1. c.type = "Move"
    BY <1>1, <1>2, ChangingTyped
  <2>2. x \in {p, q}
    BY <1>2 DEF On
  <2>3. /\ p # q /\ Rows(p) = {} /\ There(p) = {m} /\ ~Exists(p)
    BY <1>1, <1>2, <2>1, <2>2, MoveRunning
  <2>4. Rows(p)' = {} /\ ~Exists(p)'
    BY <2>1, <2>3, RequestOther, Requesting
  <2>5. There(p)' = {}
    <3>1. remote' = [remote EXCEPT ![m].path = q]
      BY <2>1 DEF Requests
    <3>2. \A y1 : y1 # q => There(y1)' = There(y1) \ {m}
      BY <3>1, CloudPath
    <3> QED
      BY <2>3, <3>2
  <2>6. x = p \/ y = p
    BY <1>2 DEF On
  <2> QED
    BY <2>4, <2>5, <2>6 DEF Parted
<1> QED
  BY <1>1, <1>2, EndTies

LEMMA RequestOwnCid ==
  ASSUME TypeInv, Stories, Apart, NEW c, Requests(c), NEW w \in Changing
  PROVE  OwnCid(w)'
<1> PICK p, q, m, n : p = c.path /\ q = c.to /\ m = c.cid /\ n = fresh'
  OBVIOUS
<1>1. OwnCid(w) /\ c \in Changing /\ c \in running /\ Local(c) /\ Alike(c) /\ fate' = fate
  BY Requesting, WorkNext DEF Requests, Ending, Apart
<1> SUFFICES ASSUME NEW x \in Path, Clean(x), w.cid \in There(x)' PROVE On(w, x)
  BY <1>1 DEF OwnCid, On, Clean
<1>2. CASE w.cid \in There(x)
  BY <1>1, <1>2 DEF OwnCid
<1>3. CASE w.cid \notin There(x)
  <2>1. w.cid <= fresh /\ w.cid \in Nat /\ fresh \in Nat
    BY ChangingTyped DEF Proper, Change, TypeInv, RestTyped
  <2>2. c.type # "New"
    <3>1. ASSUME c.type = "New" PROVE FALSE
      <4>1. n > fresh /\ n \in Nat /\ There(p)' = There(p) \cup {n} /\ \A y : y # p => There(y)' = There(y)
        BY <3>1, RequestNew
      <4> QED
        BY <1>3, <2>1, <4>1
    <3> QED
      BY <3>1
  <2>3. c.type # "Update"
    <3>1. ASSUME c.type = "Update" PROVE FALSE
      <4>1. \E h : remote' = [remote EXCEPT ![m].hash = h]
        BY <3>1 DEF Requests
      <4> QED
        BY <1>3, <4>1, CloudHash
    <3> QED
      BY <3>1
  <2>4. c.type # "Delete"
    <3>1. ASSUME c.type = "Delete" PROVE FALSE
      <4>1. remote' = [o \in DOMAIN remote \ {m} |-> remote[o]]
        BY <3>1 DEF Requests
      <4> QED
        BY <1>3, <4>1, CloudWithout
    <3> QED
      BY <3>1
  <2>5. c.type = "Move"
    BY <2>2, <2>3, <2>4, Requesting
  <2>6. x = q /\ w.cid = m
    <3>1. remote' = [remote EXCEPT ![m].path = q]
      BY <2>5 DEF Requests
    <3>2. /\ There(q)' = There(q) \cup ({m} \cap DOMAIN remote)
          /\ \A y : y # q => There(y)' = There(y) \ {m}
      BY <3>1, CloudPath
    <3> QED
      BY <1>3, <3>2
  <2>7. p \in Path /\ p # q /\ Clean(p) /\ There(p) = {m}
    BY <1>1, <2>5, <2>6, MoveRunning
  <2>8. On(w, p)
    BY <1>1, <2>6, <2>7 DEF OwnCid
  <2>9. w \in Work /\ c \in Work /\ On(c, p) /\ On(c, q)
    BY <1>1, WorkNext DEF On
  <2> QED
    BY <2>6, <2>7, <2>8, <2>9, Partner
<1> QED
  BY <1>2, <1>3

LEMMA RequestOwnLink ==
  ASSUME TypeInv, TypeInv', Stories, Apart, NEW c, Requests(c), NEW o \in DOMAIN db.files
  PROVE  OwnLink(o)'
<1> PICK p, q, m, n, r : p = c.path /\ q = c.to /\ m = c.cid /\ n = fresh' /\ r = c.gid
  OBVIOUS
<1>1. c \in Changing /\ c \in running /\ Local(c) /\ fate' = fate /\ c \in RunsOn(p)
  BY Requesting DEF Requests, Ending, On
<1>2. o \in DOMAIN db'.files /\ PathOf(o)' = PathOf(o)
  BY RequestNew, RequestOther
<1>3. TiesKept
  BY RequestTies
<1> SUFFICES ASSUME NEW y \in Path, Clean(y), Linked(o)', LinkId(o)' \in There(y)'
             PROVE  Near(PathOf(o), y)'
  BY <1>1, <1>2 DEF OwnLink, Clean
<1>4. ASSUME Linked(o), LinkId(o) \in There(y) PROVE Near(PathOf(o), y)'
  BY <1>2, <1>3, <1>4, LinkStaysTied
<1>5. CASE c.type = "New"
  <2>1. /\ n > fresh /\ n \in Nat /\ There(p)' = There(p) \cup {n} /\ (\A x : x # p => There(x)' = There(x))
        /\ Linked(o) => LinkId(o)' = LinkId(o)
        /\ Linked(o) \/ o = r
        /\ ~Linked(r) => LinkId(r)' = n
    BY <1>5, RequestNew
  <2>2. CASE Linked(o)
    <3>1. LinkId(o) <= fresh /\ fresh \in Nat /\ LinkId(o) \in Nat
      BY <2>2 DEF TypeInv, DbTyped, Rowed, RestTyped, LinkId, Link, Linked
    <3>2. LinkId(o) \in There(y)
      BY <2>1, <2>2, <3>1
    <3> QED
      BY <1>4, <2>2, <3>2
  <2>3. CASE ~Linked(o)
    <3>1. o = r /\ LinkId(o)' = n
      BY <2>1, <2>3
    <3>2. n \notin There(y)
      <4>1. fresh \in Nat /\ \A u \in DOMAIN remote : u \in 1..fresh
        BY DEF TypeInv, RestTyped, CloudTyped
      <4> QED
        BY <2>1, <4>1, RowsKnown
    <3>3. y = p
      BY <2>1, <3>1, <3>2
    <3>4. Alone(p)
      BY <1>1, <1>5, <3>3, OtherTold DEF On
    <3>5. Kept(p, r)
      BY <1>1, <1>5, <3>3, <3>4, LocalRun
    <3>6. PathOf(r) = p
      BY <3>5, RowsKnown DEF Kept, KeptRow
    <3> QED
      BY <1>2, <3>1, <3>3, <3>6 DEF Near
  <2> QED
    BY <2>2, <2>3
<1>6. CASE c.type # "New"
  <2>1. Linked(o) /\ LinkId(o)' = LinkId(o)
    BY <1>6, RequestOther
  <2>2. CASE LinkId(o) \in There(y)
    BY <1>4, <2>1, <2>2
  <2>3. CASE LinkId(o) \notin There(y)
    <3>1. c.type # "Update"
      <4>1. ASSUME c.type = "Update" PROVE FALSE
        <5>1. \E h : remote' = [remote EXCEPT ![m].hash = h]
          BY <4>1 DEF Requests
        <5> QED
          BY <2>1, <2>3, <5>1, CloudHash
      <4> QED
        BY <4>1
    <3>2. c.type # "Delete"
      <4>1. ASSUME c.type = "Delete" PROVE FALSE
        <5>1. remote' = [u \in DOMAIN remote \ {m} |-> remote[u]]
          BY <4>1 DEF Requests
        <5> QED
          BY <2>1, <2>3, <5>1, CloudWithout
      <4> QED
        BY <4>1
    <3>3. c.type = "Move"
      BY <1>6, <3>1, <3>2, Requesting
    <3>4. y = q /\ LinkId(o) = m
      <4>1. remote' = [remote EXCEPT ![m].path = q]
        BY <3>3 DEF Requests
      <4>2. /\ There(q)' = There(q) \cup ({m} \cap DOMAIN remote)
            /\ \A u : u # q => There(u)' = There(u) \ {m}
        BY <4>1, CloudPath
      <4> QED
        BY <2>1, <2>3, <4>2
    <3>5. p \in Path /\ Clean(p) /\ There(p) = {m} /\ Rows(p) = {} /\ OnlyRunning(c, p)
      BY <1>1, <3>3, <3>4, MoveRunning
    <3> PICK x : x = PathOf(o)
      OBVIOUS
    <3>6. x \in Path /\ OwnLink(o) /\ x # p
      BY <3>5, RowsKnown DEF Apart
    <3>7. Near(x, p)
      BY <2>1, <3>4, <3>5, <3>6 DEF OwnLink
    <3>8. PICK w \in Work : On(w, x) /\ On(w, p)
      BY <3>6, <3>7 DEF Near
    <3>9. w = c
      <4>1. w \in WorkHere(p)
        BY <3>8, WorkIs
      <4> QED
        BY <3>5, <4>1 DEF OnlyRunning, WorkHere
    <3>10. x = q
      BY <3>6, <3>8, <3>9 DEF On
    <3> QED
      BY <1>2, <3>4, <3>10 DEF Near
  <2> QED
    BY <2>2, <2>3
<1> QED
  BY <1>5, <1>6

LEMMA RequestApart ==
  ASSUME TypeInv, TypeInv', Stories, Apart, NEW c, Requests(c)
  PROVE  Apart'
<1>1. /\ fate' = fate /\ disk' = disk /\ Up /\ status' = status /\ TiesKept
      /\ \A w \in Work' : w \in Work
      /\ \A w \in Changing' : w \in Changing
  BY Requesting, RequestTies
<1>2. /\ DOMAIN db'.files = DOMAIN db.files /\ \A x : Rows(x)' = Rows(x)
      /\ \A o \in DOMAIN db.files : Stat(o)' = Stat(o) /\ PathOf(o)' = PathOf(o)
  BY RequestNew, RequestOther
<1>3. (\A w \in Changing : OwnRow(w) /\ OwnCid(w) /\ OwnStat(w))'
  <2>1. \A w \in Changing : OwnRow(w)' /\ OwnStat(w)'
    BY <1>1, <1>2, OwnRowStays, OwnStatStays DEF Apart
  <2>2. \A w \in Changing : OwnCid(w)'
    BY RequestOwnCid
  <2> QED
    BY <1>1, <2>1, <2>2
<1>4. (\A o \in DOMAIN db.files : OwnFile(o) /\ OwnLink(o))'
  <2>1. \A o \in DOMAIN db'.files : OwnFile(o)' /\ OwnLink(o)'
    BY <1>1, <1>2, FileTied, RequestOwnLink
  <2> QED
    BY <2>1
<1>5. OneFile'
  BY <1>1 DEF Apart, OneFile, Exists, NoFile
<1>6. Down' /\ AbortsOnlyOnRaces'
  BY <1>1, UpStays, StatusStays
<1> QED
  BY <1>1, <1>3, <1>4, <1>5, <1>6, ApartOf

LEMMA RequestOk ==
  ASSUME TypeInv, TypeInv', Stories, Apart, NEW c, Request(c)
  PROVE  Stories' /\ Apart'
BY Requested, RequestStories, RequestApart

LEMMA RequestThrowsOk ==
  ASSUME TypeInv, Stories, Apart, NEW c, RequestThrows(c)
  PROVE  c.path \in Path /\ ~Clean(c.path)
<1> PICK p, r : p = c.path /\ r = c.gid
  OBVIOUS
<1>1. /\ c \in running /\ c.stage = "request" /\ c.type \in {"New", "Update"}
      /\ ~Exists(p) \/ ~CanLink(db, r)
      /\ c.type = "Update" => ~Exists(p)
  BY DEF RequestThrows
<1>2. Local(c) /\ c \in Changing /\ p \in Path /\ On(c, p) /\ c \in RunsOn(p)
  BY <1>1, ChangingTyped DEF TypeInv, RunsTyped, Runs, Changing, RunsOn
<1>3. ASSUME Clean(p) PROVE FALSE
  <2>1. Alone(p)
    BY <1>1, <1>2, <1>3, OtherTold
  <2>2. Kept(p, r)
    BY <1>1, <1>2, <2>1, LocalRun
  <2>3. Exists(p) /\ r \in DOMAIN db.files
    BY <2>2, RowsKnown DEF Kept, KeptRow
  <2> QED
    BY <1>1, <2>3 DEF CanLink
<1> QED
  BY <1>2, <1>3

-----------------------------------------------------------------------------
(* The program writes to the directory. *)

LEMMA FileStaysTied ==
  ASSUME TypeInv, Stories, Apart, TiesKept, NEW r \in DOMAIN db.files, r \in DOMAIN db'.files,
         PathOf(r)' = PathOf(r), NEW y \in Path, Exists(y), Stat(r).inode = disk[y].inode,
         Clean(PathOf(r)) \/ Clean(y), Exists(y)'
  PROVE  Near(PathOf(r), y)'
<1> PICK x : x = PathOf(r)
  OBVIOUS
<1>1. x \in Path /\ OwnFile(r) /\ PathOf(r)' = x
  BY RowsKnown DEF Apart
<1>2. Near(x, y)
  BY <1>1 DEF OwnFile
<1>3. Clean(x)
  BY <1>1, <1>2, NearSame
<1>4. x = y \/ Near(x, y)' \/ Parted(x, y)'
  BY <1>1, <1>2, <1>3 DEF TiesKept
<1>5. ~Parted(x, y)'
  BY <1>1 DEF Parted, Rows, RowsOf, PathOf
<1> QED
  BY <1>1, <1>4, <1>5 DEF Near

(* At p there is a new file now, or none. *)
Replaced(p) ==
  /\ \A y \in Path : y # p => disk'[y] = disk[y]
  /\ ~Exists(p)' \/ disk'[p].inode > fresh

LEMMA Inodes ==
  ASSUME TypeInv
  PROVE  /\ \A y \in Path : disk[y].inode \in Nat /\ disk[y].inode <= fresh /\ (Exists(y) <=> disk[y].inode > 0)
         /\ \A r \in DOMAIN db.files : Stat(r).inode \in Nat /\ Stat(r).inode <= fresh
         /\ \A w \in Changing : w.stat.inode \in Nat /\ w.stat.inode <= fresh
         /\ fresh \in Nat
<1>1. \A y \in Path : disk[y].inode \in Nat /\ disk[y].inode <= fresh /\ (Exists(y) <=> disk[y].inode > 0)
  BY DEF TypeInv, DiskTyped, File, Within
<1>2. ASSUME NEW r \in DOMAIN db.files PROVE Stat(r).inode \in Nat /\ Stat(r).inode <= fresh
  BY DEF TypeInv, DbTyped, Rowed, Stat, Stamp, Within
<1>3. ASSUME NEW w \in Changing PROVE w.stat.inode \in Nat /\ w.stat.inode <= fresh
  BY ChangingTyped DEF Change, Stamp, Proper, Within
<1> QED
  BY <1>1, <1>2, <1>3 DEF TypeInv, RestTyped

(* The inodes of the other files stay, the one at p is new. *)
LEMMA ReplacedInode ==
  ASSUME TypeInv, TypeInv', NEW p, Replaced(p), NEW y \in Path, Exists(y)', NEW i \in Nat, i <= fresh,
         i = disk'[y].inode
  PROVE  y # p /\ Exists(y) /\ disk[y].inode = i
<1>1. y # p
  <2>1. ASSUME y = p PROVE FALSE
    <3>1. disk'[p].inode > fresh
      BY <2>1 DEF Replaced
    <3> QED
      BY <2>1, <3>1, Inodes
  <2> QED
    BY <2>1
<1>2. disk'[y] = disk[y]
  BY <1>1 DEF Replaced
<1> QED
  BY <1>1, <1>2 DEF Exists, NoFile

LEMMA DiskApart ==
  ASSUME TypeInv, TypeInv', Stories, Apart, UNCHANGED <<db, remote, fate, status>>, Up, TiesKept,
         NEW p, Replaced(p),
         \A w \in Work' : w \in Work \/ Alike(w),
         \A w \in Changing' : w \in Changing \/ (OwnRow(w) /\ OwnCid(w) /\ ~Looked(w))
  PROVE  Apart'
<1>1. /\ \A x : Rows(x)' = Rows(x) /\ There(x)' = There(x) /\ (Clean(x)' <=> Clean(x))
      /\ \A r : Stat(r)' = Stat(r) /\ PathOf(r)' = PathOf(r) /\ (Linked(r)' <=> Linked(r))
                /\ LinkId(r)' = LinkId(r)
      /\ DOMAIN db'.files = DOMAIN db.files
  BY DEF Rows, There, Clean, Stat, PathOf, Linked, LinkId, Link
<1>2. (\A w \in Changing : OwnRow(w) /\ OwnCid(w))'
  <2>1. \A w \in Changing' : OwnRow(w) /\ OwnCid(w)
    BY DEF Apart
  <2>2. \A w \in Changing' : OwnRow(w)' /\ OwnCid(w)'
    BY <1>1, <2>1, OwnRowStays, OwnCidStays
  <2> QED
    BY <2>2
<1>3. (\A w \in Changing : OwnStat(w))'
  <2> SUFFICES ASSUME NEW w \in Changing', Looked(w) PROVE OwnStat(w)'
    BY DEF OwnStat, Looked, Local
  <2>1. w \in Changing /\ OwnStat(w)
    BY DEF Apart
  <2> PICK i, x : i = w.stat.inode /\ x = w.path
    OBVIOUS
  <2>2. i \in Nat /\ i <= fresh
    BY <2>1, Inodes
  <2>3. \A y \in Path : Exists(y)' /\ i = disk'[y].inode => Exists(y) /\ i = disk[y].inode
    BY <2>2, ReplacedInode
  <2>4. (Clean(x) => i > 0) /\ \A y \in Path : Exists(y) /\ i = disk[y].inode /\ (Clean(x) \/ Clean(y)) => x = y
    BY <2>1 DEF OwnStat
  <2>5. (Clean(x)' => i > 0) /\ \A y \in Path : Exists(y)' /\ i = disk'[y].inode /\ (Clean(x)' \/ Clean(y)') => x = y
    BY <1>1, <2>3, <2>4
  <2> QED
    BY <2>5 DEF OwnStat
<1>4. (\A r \in DOMAIN db.files : OwnFile(r) /\ OwnLink(r))'
  <2> SUFFICES ASSUME NEW r \in DOMAIN db'.files PROVE OwnFile(r)' /\ OwnLink(r)'
    OBVIOUS
  <2>1. r \in DOMAIN db.files /\ OwnFile(r)
    BY <1>1 DEF Apart
  <2>2. OwnLink(r)'
    BY <1>1, <2>1, LinkTied
  <2> PICK i, x : i = Stat(r).inode /\ x = PathOf(r)
    OBVIOUS
  <2>3. i \in Nat /\ i <= fresh
    BY <2>1, Inodes
  <2>4. \A y \in Path : Exists(y)' /\ i = disk'[y].inode => Exists(y) /\ i = disk[y].inode
    BY <2>3, ReplacedInode
  <2>5. \A y \in Path : Exists(y)' /\ i = disk'[y].inode /\ (Clean(x) \/ Clean(y)) => Near(x, y)'
    BY <1>1, <2>1, <2>4, FileStaysTied
  <2>6. (Clean(x)' => i > 0) /\ \A y \in Path : Exists(y)' /\ i = disk'[y].inode /\ (Clean(x)' \/ Clean(y)') => Near(x, y)'
    BY <1>1, <2>1, <2>5 DEF OwnFile
  <2>7. OwnFile(r)'
    BY <1>1, <2>6 DEF OwnFile
  <2> QED
    BY <2>2, <2>7
<1>5. OneFile'
  <2> SUFFICES ASSUME NEW x \in Path, NEW y \in Path, Exists(x)', disk'[x].inode = disk'[y].inode
               PROVE  x = y
    BY DEF OneFile
  <2>1. Exists(y)'
    BY DEF TypeInv, DiskTyped
  <2> PICK i, j : i = disk'[x].inode /\ j = disk'[y].inode
    OBVIOUS
  <2>2. ASSUME x # p, y # p PROVE x = y
    <3>1. disk'[x] = disk[x] /\ disk'[y] = disk[y]
      BY <2>2 DEF Replaced
    <3>2. Exists(x)
      BY <3>1 DEF Exists, NoFile
    <3> QED
      BY <3>1, <3>2 DEF Apart, OneFile
  <2>3. ASSUME x = p, y # p PROVE FALSE
    <3>1. i > fresh /\ j = disk[y].inode
      BY <2>3 DEF Replaced
    <3> QED
      BY <3>1, Inodes
  <2>4. ASSUME y = p, x # p PROVE FALSE
    <3>1. j > fresh /\ i = disk[x].inode
      BY <2>1, <2>4 DEF Replaced
    <3> QED
      BY <3>1, Inodes
  <2> QED
    BY <2>2, <2>3, <2>4
<1>6. Down' /\ AbortsOnlyOnRaces'
  BY UpStays, StatusStays
<1> QED
  BY <1>2, <1>3, <1>4, <1>5, <1>6, ApartOf

LEMMA GoneNotes ==
  ASSUME NEW p \in Path
  PROVE  /\ Gone(p) \in Seq(Event)
         /\ Exists(p) => Range(Gone(p)) = {Destroyed(p)}
         /\ ~Exists(p) => Range(Gone(p)) = {}
         /\ \A v, w : ~Before(Gone(p), v, w)
<1>1. Gone(p) \in Seq(Event)
  BY GoneTyped DEF ProperNotes
<1>2. CASE Exists(p)
  <2>1. Gone(p) = <<Destroyed(p)>>
    BY <1>2 DEF Gone, Destroyed
  <2> QED
    BY <1>1, <1>2, <2>1, Single
<1>3. CASE ~Exists(p)
  <2>1. Gone(p) = <<>>
    BY <1>3 DEF Gone
  <2> QED
    BY <1>1, <1>3, <2>1, Single
<1> QED
  BY <1>2, <1>3

LEMMA PlaceNotes ==
  ASSUME NEW p \in Path, NEW s \in Seq(Event), \A v, w : ~Before(s, v, w), Range(s) \subseteq {Destroyed(p)},
         NEW t, t = s \o <<Placed(p)>>
  PROVE  /\ t \in Seq(Event) /\ Range(t) = Range(s) \cup {Placed(p)}
         /\ ~Before(t, Destroyed(p), Destroyed(p))
<1>1. Placed(p) \in Event
  BY NoticesTyped DEF Placed
<1>2. <<Placed(p)>> \in Seq(Event)
  BY <1>1
<1>3. /\ Range(<<Placed(p)>>) = {Placed(p)} /\ \A v, w : ~Before(<<Placed(p)>>, v, w)
  BY Single
<1>4. /\ t \in Seq(Event) /\ Range(t) = Range(s) \cup {Placed(p)}
      /\ \A v, w : Before(t, v, w) <=>
           Before(s, v, w) \/ Before(<<Placed(p)>>, v, w) \/ (v \in Range(s) /\ w \in Range(<<Placed(p)>>))
  <2> PICK u : u = <<Placed(p)>>
    OBVIOUS
  <2>1. u \in Seq(Event) /\ t = s \o u
    BY <1>2
  <2>2. /\ s \o u \in Seq(Event) /\ Range(s \o u) = Range(s) \cup Range(u)
        /\ \A v, w : Before(s \o u, v, w) <=>
             Before(s, v, w) \/ Before(u, v, w) \/ (v \in Range(s) /\ w \in Range(u))
    BY <2>1, Joined
  <2>3. Range(u) = {Placed(p)}
    BY <1>3
  <2> QED
    BY <2>1, <2>2, <2>3
<1> QED
  BY <1>3, <1>4, EventKinds

LEMMA Awaiting ==
  ASSUME NEW p, NEW type, expected' = Expecting(expected, p, type)
  PROVE  /\ Awaits(p)' /\ (~Awaits(p) => expected'[p] = type)
         /\ \A x : x # p => SameAwait(x)
BY DEF Expecting, Awaits, SameAwait

-----------------------------------------------------------------------------
(* Place. *)

(* The download is put in place: c becomes d. *)
Places(c, d) ==
  /\ Up /\ c \in running /\ c.stage = "loading" /\ c.by = "cloud" /\ c.type \in {"New", "Update"}
  /\ running' = (running \ {c}) \cup {d}
  /\ d.type = c.type /\ d.gid = c.gid /\ d.path = c.path /\ d.to = c.to /\ d.cid = c.cid
  /\ d.by = "cloud" /\ d.stage = "placed"
  /\ UNCHANGED <<beside, events, seen, out, changes, db, remote, status, fate>>
  /\ Replaced(c.path) /\ Exists(c.path)' /\ disk'[c.path].by = "program"
  /\ c.cid \in DOMAIN remote => disk'[c.path].hash = HashAt(c.cid)
  /\ c.type = "New" => UNCHANGED expected
  /\ c.type = "Update" => expected' = Expecting(expected, c.path, "Delete")
  /\ \E noted \in Seq(Event) :
       /\ notices' = notices \o noted
       /\ Placed(c.path) \in Range(noted) /\ Range(noted) \subseteq {Destroyed(c.path), Placed(c.path)}
       /\ c.type = "New" => Destroyed(c.path) \notin Range(noted)
       /\ c.type = "Update" /\ Exists(c.path) => Destroyed(c.path) \in Range(noted)
       /\ ~Before(noted, Destroyed(c.path), Destroyed(c.path))

LEMMA Associated ==
  ASSUME TypeInv, NEW s \in Seq(Event), NEW e \in Event
  PROVE  notices \o s \o <<e>> = notices \o (s \o <<e>>)
<1> PICK u : u = <<e>>
  OBVIOUS
<1>1. u \in Seq(Event) /\ notices \in Seq(Event)
  BY DEF TypeInv, EventsTyped
<1>2. notices \o s \o u = notices \o (s \o u)
  BY <1>1, ConcatAssociative
<1> QED
  BY <1>2

LEMMA PlaceNoted ==
  ASSUME TypeInv, NEW p \in Path, NEW type,
         notices' = notices \o (IF type = "New" THEN <<>> ELSE Gone(p)) \o <<Placed(p)>>
  PROVE  \E noted \in Seq(Event) :
           /\ notices' = notices \o noted
           /\ Placed(p) \in Range(noted) /\ Range(noted) \subseteq {Destroyed(p), Placed(p)}
           /\ type = "New" => Destroyed(p) \notin Range(noted)
           /\ type = "Update" /\ Exists(p) => Destroyed(p) \in Range(noted)
           /\ ~Before(noted, Destroyed(p), Destroyed(p))
<1> PICK s : s = IF type = "New" THEN <<>> ELSE Gone(p)
  OBVIOUS
<1>1. /\ s \in Seq(Event) /\ (\A v, w : ~Before(s, v, w)) /\ Range(s) \subseteq {Destroyed(p)}
      /\ type = "New" => Range(s) = {}
      /\ type = "Update" /\ Exists(p) => Range(s) = {Destroyed(p)}
  <2>1. CASE type = "New"
    <3>1. s = <<>>
      BY <2>1
    <3>2. s \in Seq(Event)
      BY <3>1, EmptySeq
    <3>3. (\A v, w : ~Before(s, v, w)) /\ Range(s) = {}
      BY <3>1, Single
    <3> QED
      BY <2>1, <3>2, <3>3
  <2>2. CASE type # "New"
    <3>1. s = Gone(p)
      BY <2>2
    <3> QED
      BY <2>2, <3>1, GoneNotes
  <2> QED
    BY <2>1, <2>2
<1> PICK t : t = s \o <<Placed(p)>>
  OBVIOUS
<1>2. /\ t \in Seq(Event) /\ Range(t) = Range(s) \cup {Placed(p)}
      /\ ~Before(t, Destroyed(p), Destroyed(p))
  BY <1>1, PlaceNotes
<1>3. notices' = notices \o t
  <2>1. Placed(p) \in Event
    BY NoticesTyped DEF Placed
  <2>2. notices \o s \o <<Placed(p)>> = notices \o (s \o <<Placed(p)>>)
    BY <1>1, <2>1, Associated
  <2> QED
    BY <2>2
<1> QED
  BY <1>1, <1>2, <1>3, EventKinds

LEMMA PlacesIt == ASSUME TypeInv, TypeInv', NEW c, Place(c) PROVE \E d : Places(c, d)
<1> PICK p, d, hash : /\ p = c.path /\ d = [c EXCEPT !.stage = "placed"]
                      /\ hash = IF c.cid \in DOMAIN remote THEN remote[c.cid].hash ELSE fresh'
  OBVIOUS
<1> PICK f : f = [inode |-> fresh', hash |-> hash, by |-> "program"]
  OBVIOUS
<1>1. /\ Up /\ c \in running /\ c.stage = "loading" /\ fresh' = fresh + 1
      /\ disk' = [disk EXCEPT ![p] = f]
      /\ c.type = "New" => UNCHANGED expected
      /\ c.type # "New" => expected' = Expecting(expected, p, "Delete")
      /\ notices' = notices \o (IF c.type = "New" THEN <<>> ELSE Gone(p)) \o <<Placed(p)>>
      /\ running' = (running \ {c}) \cup {d}
      /\ UNCHANGED <<beside, events, seen, out, changes, db, remote, status, fate>>
  BY DEF Place, Expect, Placed
<1>2. c \in Change /\ Runs(c) /\ p \in Path /\ c.by = "cloud" /\ c.type \in {"New", "Update"}
  BY <1>1 DEF TypeInv, RunsTyped, Runs, Change, Local
<1>3. /\ d.type = c.type /\ d.gid = c.gid /\ d.path = c.path /\ d.to = c.to /\ d.cid = c.cid
      /\ d.by = "cloud" /\ d.stage = "placed"
  BY <1>2 DEF Change
<1>4. disk'[p] = f /\ \A y \in Path : y # p => disk'[y] = disk[y]
  BY <1>1, <1>2 DEF TypeInv, DiskTyped
<1>5. f.inode = fresh' /\ f.hash = hash /\ f.by = "program"
  OBVIOUS
<1>6. /\ Replaced(p) /\ Exists(p)' /\ disk'[p].by = "program"
      /\ c.cid \in DOMAIN remote => disk'[p].hash = HashAt(c.cid)
  <2>1. fresh \in Nat /\ fresh' > fresh /\ fresh' > 0
    BY <1>1 DEF TypeInv, RestTyped
  <2>2. Exists(p)'
    BY <1>2, <1>4, <1>5, <2>1 DEF TypeInv, DiskTyped
  <2> QED
    BY <1>4, <1>5, <2>1, <2>2 DEF Replaced, HashAt
<1>7. \E noted \in Seq(Event) :
       /\ notices' = notices \o noted
       /\ Placed(p) \in Range(noted) /\ Range(noted) \subseteq {Destroyed(p), Placed(p)}
       /\ c.type = "New" => Destroyed(p) \notin Range(noted)
       /\ c.type = "Update" /\ Exists(p) => Destroyed(p) \in Range(noted)
       /\ ~Before(noted, Destroyed(p), Destroyed(p))
  BY <1>1, <1>2, PlaceNoted
<1> QED
  BY <1>1, <1>2, <1>3, <1>6, <1>7 DEF Places

LEMMA Placing ==
  ASSUME TypeInv, NEW c, NEW d, Places(c, d), NEW p, p = c.path
  PROVE  /\ c \in Changing /\ c \in Work /\ p \in Path /\ d \in Work' /\ fate' = fate /\ LineStays
         /\ \A x \in Path : (On(c, x) <=> x = p) /\ (On(d, x) <=> x = p)
         /\ c \in RunsOn(p)
         /\ \A x : RunsOn(x) = {c} => RunsOn(x)' = {d}
         /\ \A x : SameLine(x) /\ SameRows(x) /\ SameThere(x)
         /\ \A x \in Path : x # p => SameFile(x) /\ SameEvents(x) /\ SameRuns(x) /\ SameAwait(x)
         /\ Queued' \subseteq Queued \cup {Destroyed(p), Placed(p)} /\ Queued \subseteq Queued'
         /\ \A w \in Work : w = c \/ w \in Work'
         /\ \A w \in Work' : w \in Work \/ w = d \/ w \in {Destroyed(p), Placed(p)}
         /\ \A w \in Changing' : w \in Changing \/ w = d
<1>1. /\ c \in running /\ running' = (running \ {c}) \cup {d} /\ d.path = p /\ d.to = c.to
      /\ c.type \in {"New", "Update"}
      /\ UNCHANGED <<beside, events, seen, out, changes, db, remote, fate>>
      /\ Replaced(p)
  BY DEF Places
<1>2. c \in Changing /\ c \in Work /\ p \in Path
  BY <1>1, WorkNext, ChangingTyped DEF Changing
<1>3. \A x \in Path : (On(c, x) <=> x = p) /\ (On(d, x) <=> x = p)
  BY <1>1, <1>2, ChangingTyped DEF On
<1>4. c \in RunsOn(p) /\ \A x : RunsOn(x) = {c} => RunsOn(x)' = {d}
  BY <1>1 DEF RunsOn, On
<1>5. LineStays
  BY <1>1, LineUntouched
<1>6. \A x : SameLine(x) /\ SameRows(x) /\ SameThere(x)
  BY <1>1, <1>5, Untouched
<1>7. PICK noted \in Seq(Event) : notices' = notices \o noted /\ Range(noted) \subseteq {Destroyed(p), Placed(p)}
  BY DEF Places
<1>8. QueueGains(noted)
  BY <1>1, <1>7, NotedDown
<1>9. ASSUME NEW x \in Path, x # p PROVE SameFile(x) /\ SameEvents(x) /\ SameRuns(x) /\ SameAwait(x)
  <2>1. SameFile(x)
    BY <1>1, <1>9 DEF Replaced, SameFile
  <2>2. \A v \in Range(noted) : ~On(v, x)
    BY <1>2, <1>7, <1>9, Strangers
  <2>3. SameEvents(x)
    BY <1>8, <2>2, OffNotes
  <2>4. \A v \in {c} \cup {d} : ~On(v, x)
    BY <1>3, <1>9
  <2>5. SameRuns(x)
    BY <1>1, <2>4, OffRuns
  <2>6. SameAwait(x)
    <3>1. CASE c.type = "New"
      BY <3>1, Untouched DEF Places
    <3>2. CASE c.type = "Update"
      BY <1>9, <3>2, Awaiting DEF Places
    <3> QED
      BY <1>1, <3>1, <3>2
  <2> QED
    BY <2>1, <2>3, <2>5, <2>6
<1>10. Queued' \subseteq Queued \cup {Destroyed(p), Placed(p)} /\ Queued \subseteq Queued'
  BY <1>7, <1>8 DEF QueueGains
<1>11. /\ d \in Work' /\ \A w \in Work : w = c \/ w \in Work'
       /\ \A w \in Work' : w \in Work \/ w = d \/ w \in {Destroyed(p), Placed(p)}
       /\ \A w \in Changing' : w \in Changing \/ w = d
  BY <1>1, <1>5, <1>10, WorkIs, WorkNext DEF LineStays, Changing
<1> QED
  BY <1>1, <1>2, <1>3, <1>4, <1>5, <1>6, <1>9, <1>10, <1>11

LEMMA PlaceTold ==
  ASSUME TypeInv, TypeInv', Stories, NEW c, NEW d, Places(c, d), NEW p, p = c.path, Clean(p)
  PROVE  Told(p)'
<1> PICK m : m = c.cid
  OBVIOUS
<1>1. /\ c.by = "cloud" /\ c.type \in {"New", "Update"} /\ c.stage = "loading"
      /\ d.type = c.type /\ d.gid = c.gid /\ d.path = p /\ d.to = c.to /\ d.cid = m
      /\ d.by = "cloud" /\ d.stage = "placed"
      /\ Exists(p)' /\ disk'[p].by = "program" /\ remote' = remote /\ events' = events
  BY DEF Places
<1>2. /\ c \in Changing /\ p \in Path /\ On(c, p) /\ c \in RunsOn(p)
      /\ RunsOn(p) = {c} => RunsOn(p)' = {d}
      /\ SameLine(p) /\ SameRows(p) /\ SameThere(p)
  BY Placing
<1>3. Alone(p)
  BY <1>1, <1>2, OtherTold
<1>4. RunsOn(p) = {c} /\ (CloudNew(c, p) \/ CloudUpdate(c, p))
  BY <1>1, <1>2, <1>3, CloudRun DEF CloudDelete
<1>5. OnlyRunning(c, p) /\ LineOn(p)' = {} /\ EventsOn(p) = {} /\ RunsOn(p)' = {d}
  <2>1. OnlyRunning(c, p)
    BY <1>1, <1>4 DEF CloudNew, CloudUpdate
  <2> QED
    BY <1>2, <1>4, <2>1 DEF OnlyRunning, SameLine
<1>6. d \in WorkHere(p)'
  BY <1>5 DEF WorkHere
<1>7. PICK noted \in Seq(Event) :
       /\ notices' = notices \o noted
       /\ Range(noted) \subseteq {Destroyed(p), Placed(p)}
       /\ c.type = "New" => Destroyed(p) \notin Range(noted)
       /\ c.type = "Update" /\ Exists(p) => Destroyed(p) \in Range(noted)
       /\ ~Before(noted, Destroyed(p), Destroyed(p))
  BY DEF Places
<1>8. QueueGains(noted)
  BY <1>1, <1>7, NotedDown
<1>9. EventsOn(p)' \subseteq Range(noted) /\ Range(noted) \subseteq EventsOn(p)'
  BY <1>5, <1>7, <1>8, NoticesOn DEF QueueGains, EventsOn
<1>10. CASE CloudNew(c, p)
  <2>1. c.type = "New" /\ ~Awaits(p) /\ Rows(p) = {} /\ There(p) = {m}
    BY <1>10 DEF CloudNew
  <2>2. (~Awaits(p) /\ Rows(p) = {} /\ There(p) = {m})'
    BY <1>2, <2>1 DEF Places, SameRows, SameThere, Awaits
  <2>3. disk'[p].hash = HashAt(m)'
    BY <1>1, <2>1, RowsKnown DEF Places, HashAt
  <2>4. EventsOn(p)' \subseteq {Placed(p)}
    BY <1>7, <1>9, <2>1
  <2>5. CloudNew(d, p)'
    BY <1>1, <1>5, <2>1, <2>2, <2>3, <2>4 DEF CloudNew
  <2> QED
    BY <1>6, <2>5 DEF Told, Alone
<1>11. CASE CloudUpdate(c, p)
  <2> PICK r : r = c.gid
    OBVIOUS
  <2>1. c.type = "Update" /\ Everywhere(p, r) /\ m = LinkId(r) /\ Exists(p) /\ ~Awaits(p)
    BY <1>1, <1>11 DEF CloudUpdate
  <2>2. Everywhere(p, r)' /\ LinkId(r)' = m
    BY <1>2, <2>1, EverywhereStays
  <2>3. Awaits(p)' /\ expected'[p] = "Delete"
    BY <2>1, Awaiting DEF Places
  <2>4. disk'[p].hash = HashAt(m)'
    BY <1>1, <2>1, RowsKnown DEF Places, HashAt, Everywhere
  <2>5. Destroyed(p) \in EventsOn(p)' /\ EventsOn(p)' \subseteq {Destroyed(p), Placed(p)}
    BY <1>7, <1>9, <2>1
  <2>6. ~Earlier(Destroyed(p), Destroyed(p))'
    <3>1. Destroyed(p) \notin Queued
      BY <1>5, NoticesOn DEF EventsOn
    <3>2. ~Earlier(Destroyed(p), Destroyed(p))
      BY <1>5, NoneEarlier
    <3> QED
      BY <1>7, <1>8, <3>1, <3>2 DEF QueueGains
  <2>7. DestroyAwaited(p)'
    BY <2>3, <2>5, <2>6 DEF DestroyAwaited
  <2>8. CloudUpdate(d, p)'
    BY <1>1, <1>5, <2>1, <2>2, <2>4, <2>5, <2>7 DEF CloudUpdate
  <2> QED
    BY <1>6, <2>8 DEF Told, Alone
<1> QED
  BY <1>4, <1>10, <1>11

LEMMA PlaceOk ==
  ASSUME TypeInv, TypeInv', Stories, Apart, NEW c, Place(c)
  PROVE  Stories' /\ Apart'
<1>1. PICK d : Places(c, d)
  BY PlacesIt
<1> PICK p : p = c.path
  OBVIOUS
<1>2. Up /\ UNCHANGED <<db, remote, fate, status>> /\ Replaced(p) /\ d.by = "cloud"
      /\ d.gid = c.gid /\ d.cid = c.cid /\ d.path = p /\ d.to = c.to
  BY <1>1 DEF Places
<1>3. /\ c \in Changing /\ c \in Work /\ p \in Path
      /\ \A x \in Path : (On(c, x) <=> x = p) /\ (On(d, x) <=> x = p)
      /\ \A x : SameLine(x) /\ SameRows(x) /\ SameThere(x)
      /\ \A x \in Path : x # p => SameFile(x) /\ SameEvents(x) /\ SameRuns(x) /\ SameAwait(x)
      /\ \A w \in Work : w = c \/ w \in Work'
      /\ \A w \in Work' : w \in Work \/ w = d \/ w \in {Destroyed(p), Placed(p)}
      /\ \A w \in Changing' : w \in Changing \/ w = d
  BY <1>1, Placing
<1>4. \A x \in Path : Clean(x) /\ ~On(c, x) => Same(x)
  BY <1>3 DEF Same
<1>5. \A x \in Path : Clean(x) /\ On(c, x) => Told(x)'
  BY <1>1, <1>3, PlaceTold
<1>6. Stories'
  BY <1>2, <1>3, <1>4, <1>5, StoriesBut
<1>7. TiesKept
  BY <1>3, Removal
<1>8. OwnRow(d) /\ OwnCid(d) /\ ~Looked(d)
  <2>1. OwnRow(c) /\ OwnCid(c)
    BY <1>3 DEF Apart
  <2> QED
    BY <1>2, <1>3, <2>1 DEF OwnRow, OwnCid, Looked, Local
<1>9. \A w \in Work' : w \in Work \/ Alike(w)
  <2>1. Alike(d)
    BY <1>2, <1>3 DEF Alike, Apart
  <2>2. Alike(Destroyed(p)) /\ Alike(Placed(p))
    BY Ids, NoticeIs DEF Alike, Destroyed, Placed
  <2> QED
    BY <1>3, <2>1, <2>2
<1>10. Apart'
  BY <1>2, <1>3, <1>7, <1>8, <1>9, DiskApart
<1> QED
  BY <1>6, <1>10

-----------------------------------------------------------------------------
(* PlaceDelete. *)

Discards(c, d) ==
  /\ Up /\ c \in Change /\ Begins(c, d) /\ c.by = "cloud" /\ c.type = "Delete"
  /\ d.type = c.type /\ d.gid = c.gid /\ d.cid = c.cid /\ d.by = "cloud" /\ d.stage = "placed"
  /\ UNCHANGED <<beside, events, seen, out, db, remote, status, fate>>
  /\ Replaced(c.path) /\ ~Exists(c.path)'
  /\ expected' = Expecting(expected, c.path, "Delete")
  /\ notices' = notices \o Gone(c.path)

LEMMA DiscardsIt ==
  ASSUME TypeInv, TypeInv', NEW k \in DOMAIN changes, PlaceDelete(k)
  PROVE  \E d : Discards(changes[k], d)
<1> PICK c, d : c = changes[k] /\ d = Staged(c, "placed")
  OBVIOUS
<1>1. /\ Up /\ Ready(k) /\ c.by = "cloud" /\ c.type = "Delete" /\ Starts(k, c, "placed")
      /\ expected' = Expecting(expected, c.path, "Delete")
      /\ disk' = [disk EXCEPT ![c.path] = NoFile] /\ notices' = notices \o Gone(c.path)
      /\ UNCHANGED <<beside, events, seen, out, db, remote, status, fate>>
  BY DEF PlaceDelete, Ready, Expect
<1>2. Begins(c, d) /\ c \in Change
  BY <1>1, Begun
<1>3. /\ d.type = c.type /\ d.gid = c.gid /\ d.cid = c.cid /\ d.by = c.by /\ d.stage = "placed"
  BY <1>2 DEF Staged, Change
<1>4. Replaced(c.path) /\ ~Exists(c.path)'
  <2>1. c.path \in Path
    BY <1>2 DEF Change
  <2>2. disk'[c.path] = NoFile /\ \A y \in Path : y # c.path => disk'[y] = disk[y]
    BY <1>1, <2>1 DEF TypeInv, DiskTyped
  <2> QED
    BY <2>2 DEF Replaced, Exists, NoFile
<1>5. Discards(c, d)
  BY <1>1, <1>2, <1>3, <1>4 DEF Discards
<1> QED
  BY <1>5

LEMMA Discarding ==
  ASSUME TypeInv, NEW c, NEW d, Discards(c, d), NEW p, p = c.path
  PROVE  /\ c \in Changing /\ c \in Work /\ p \in Path /\ c \in LineOn(p) /\ fate' = fate
         /\ \A x \in Path : (On(c, x) <=> x = p) /\ (On(d, x) <=> x = p)
         /\ QueueGains(Gone(p))
         /\ \A x : SameRows(x) /\ SameThere(x)
         /\ \A x \in Path : x # p => Same(x)
         /\ Queued' \subseteq Queued \cup {Destroyed(p)}
         /\ TiesKept
         /\ \A w \in Work' : w \in Work \/ w = d \/ w = Destroyed(p)
         /\ \A w \in Changing' : w \in Changing \/ w = d
<1>1. /\ Begins(c, d) /\ c.type = "Delete" /\ UNCHANGED <<beside, events, seen, out, db, remote, fate>>
      /\ Replaced(p) /\ notices' = notices \o Gone(p) /\ expected' = Expecting(expected, p, "Delete")
  BY DEF Discards
<1>2. c \in Changing /\ c \in Work /\ p \in Path /\ \A x \in Path : On(c, x) <=> x = p
  BY <1>1, Beginning, ChangingTyped
<1>3. /\ \A x : On(d, x) <=> On(c, x)
      /\ \A x : ~On(c, x) => SameLine(x) /\ SameRuns(x)
      /\ c \in LineOn(p)
  BY <1>1, <1>2, Beginning
<1>4. Range(Gone(p)) \subseteq {Destroyed(p)} /\ Gone(p) \in Seq(Event)
  BY <1>2, GoneNotes
<1>5. QueueGains(Gone(p))
  BY <1>1, <1>4, NotedDown
<1>6. Queued \subseteq Queued' /\ Queued' \subseteq Queued \cup {Destroyed(p)}
  BY <1>4, <1>5 DEF QueueGains
<1>7. \A x : SameRows(x) /\ SameThere(x)
  BY <1>1, Untouched
<1>8. ASSUME NEW x \in Path, x # p PROVE Same(x)
  <2>1. SameFile(x)
    BY <1>1, <1>8 DEF Replaced, SameFile
  <2>2. \A v \in Range(Gone(p)) : ~On(v, x)
    BY <1>2, <1>4, <1>8, Strangers
  <2>3. SameEvents(x)
    BY <1>5, <2>2, OffNotes
  <2>4. SameAwait(x) /\ SameLine(x) /\ SameRuns(x)
    BY <1>1, <1>2, <1>3, <1>8, Awaiting
  <2> QED
    BY <1>7, <2>1, <2>3, <2>4 DEF Same
<1>9. /\ TiesKept /\ d \in Work'
      /\ \A w \in Work' : w \in Work \/ w = d \/ w \in Queued' \ Queued
      /\ \A w \in Changing' : w \in Changing \/ w = d
  BY <1>1, <1>6, BeginTies
<1> QED
  BY <1>1, <1>2, <1>3, <1>5, <1>6, <1>7, <1>8, <1>9

LEMMA PlaceDeleteOk ==
  ASSUME TypeInv, TypeInv', Stories, Apart, NEW k \in DOMAIN changes, PlaceDelete(k)
  PROVE  Stories' /\ Apart'
<1> PICK c, p : c = changes[k] /\ p = c.path
  OBVIOUS
<1>1. PICK d : Discards(c, d)
  BY DiscardsIt
<1>2. /\ Up /\ UNCHANGED <<db, remote, fate, status, events>> /\ Replaced(p) /\ ~Exists(p)'
      /\ c.by = "cloud" /\ c.type = "Delete" /\ Begins(c, d) /\ d.by = "cloud"
      /\ d.type = "Delete" /\ d.stage = "placed" /\ d.gid = c.gid /\ d.cid = c.cid
      /\ d.path = p /\ d.to = c.to
  BY <1>1 DEF Discards, Begins
<1>3. /\ c \in Changing /\ c \in Work /\ p \in Path /\ c \in LineOn(p)
      /\ \A x \in Path : (On(c, x) <=> x = p) /\ (On(d, x) <=> x = p)
      /\ QueueGains(Gone(p))
      /\ SameRows(p) /\ SameThere(p)
      /\ \A x \in Path : x # p => Same(x)
      /\ TiesKept
      /\ \A w \in Work' : w \in Work \/ w = d \/ w = Destroyed(p)
      /\ \A w \in Changing' : w \in Changing \/ w = d
  BY <1>1, Discarding
<1>4. ASSUME Clean(p) PROVE Told(p)'
  <2> PICK r : r = c.gid
    OBVIOUS
  <2>1. Alone(p)
    BY <1>2, <1>3, <1>4, OtherTold
  <2>2. CloudDelete(c, p) /\ OnlyInLine(c, p) /\ Exists(p) /\ ~Awaits(p)
    BY <1>2, <1>3, <2>1, CloudLine DEF CloudNew, CloudUpdate
  <2>3. (Rows(p) = {r} /\ There(p) = {})'
    BY <1>3, <2>2 DEF CloudDelete, SameRows, SameThere
  <2>4. LineOn(p)' = {} /\ RunsOn(p)' = {d} /\ EventsOn(p) = {}
    BY <1>2, <2>2, Beginning DEF OnlyInLine
  <2>5. Range(Gone(p)) = {Destroyed(p)} /\ \A v, w : ~Before(Gone(p), v, w)
    BY <1>3, <2>2, GoneNotes
  <2>6. EventsOn(p)' = {Destroyed(p)}
    BY <1>3, <2>4, <2>5, NoticesOn DEF QueueGains, EventsOn
  <2>7. Awaits(p)' /\ expected'[p] = "Delete"
    BY <1>1, <2>2, Awaiting DEF Discards
  <2>8. ~Earlier(Destroyed(p), Destroyed(p))'
    <3>1. Destroyed(p) \notin Queued
      BY <2>4, NoticesOn DEF EventsOn
    <3>2. ~Earlier(Destroyed(p), Destroyed(p))
      BY <2>4, NoneEarlier
    <3> QED
      BY <1>3, <2>5, <3>1, <3>2 DEF QueueGains
  <2>9. DestroyAwaited(p)'
    BY <2>6, <2>7, <2>8 DEF DestroyAwaited
  <2>10. CloudDelete(d, p)'
    BY <1>2, <2>3, <2>4, <2>6, <2>9 DEF CloudDelete
  <2>11. d \in WorkHere(p)'
    BY <2>4 DEF WorkHere
  <2> QED
    BY <2>10, <2>11 DEF Told, Alone
<1>5. Stories'
  <2>1. \A x \in Path : Clean(x) /\ ~On(c, x) => Same(x)
    BY <1>3
  <2>2. \A x \in Path : Clean(x) /\ On(c, x) => Told(x)'
    BY <1>3, <1>4
  <2> QED
    BY <1>2, <1>3, <2>1, <2>2, StoriesBut
<1>6. OwnRow(d) /\ OwnCid(d) /\ ~Looked(d)
  <2>1. OwnRow(c) /\ OwnCid(c)
    BY <1>3 DEF Apart
  <2> QED
    BY <1>2, <1>3, <2>1 DEF OwnRow, OwnCid, Looked
<1>7. \A w \in Work' : w \in Work \/ Alike(w)
  <2>1. Alike(d)
    BY <1>2, <1>3 DEF Alike, Apart
  <2>2. Alike(Destroyed(p))
    BY Ids, NoticeIs DEF Alike, Destroyed
  <2> QED
    BY <1>3, <2>1, <2>2
<1>8. Apart'
  BY <1>2, <1>3, <1>6, <1>7, DiskApart
<1> QED
  BY <1>5, <1>8

-----------------------------------------------------------------------------
(* PlaceMove. *)

Shifts(c, d, p, q) ==
  /\ Up /\ c \in Change /\ Begins(c, d) /\ c.by = "cloud" /\ c.type = "Move"
  /\ p = c.path /\ q = c.to /\ p \in Path /\ q \in Path
  /\ d.type = c.type /\ d.gid = c.gid /\ d.cid = c.cid /\ d.by = "cloud" /\ d.stage = "placed"
  /\ UNCHANGED <<beside, events, seen, out, db, remote, status, fate>>
  /\ Exists(p) /\ disk'[p] = NoFile /\ (p # q => disk'[q] = disk[p])
  /\ \A y \in Path : y \notin {p, q} => disk'[y] = disk[y]
  /\ expected' = Expecting(expected, p, "Move")
  /\ \E noted \in Seq(Event) : /\ notices' = notices \o noted /\ Range(noted) = {Renamed(p, q)}
                               /\ \A v, w : ~Before(noted, v, w)

LEMMA ShiftsIt ==
  ASSUME TypeInv, TypeInv', NEW k \in DOMAIN changes, PlaceMove(k), NEW c, c = changes[k],
         NEW p, p = c.path, NEW q, q = c.to
  PROVE  \E d : Shifts(c, d, p, q)
<1> PICK d, e : d = Staged(c, "placed") /\ e = Renamed(p, q)
  OBVIOUS
<1>1. /\ Up /\ Ready(k) /\ c.by = "cloud" /\ c.type = "Move" /\ Starts(k, c, "placed") /\ Exists(p)
      /\ expected' = Expecting(expected, p, "Move")
      /\ disk' = [disk EXCEPT ![q] = disk[p], ![p] = NoFile]
      /\ notices' = Append(notices, e)
      /\ UNCHANGED <<beside, events, seen, out, db, remote, status, fate>>
  BY DEF PlaceMove, Ready, Expect, Renamed
<1>2. Begins(c, d) /\ c \in Change
  BY <1>1, Begun
<1>3. /\ d.type = c.type /\ d.gid = c.gid /\ d.cid = c.cid /\ d.by = c.by /\ d.stage = "placed"
  BY <1>2 DEF Staged, Change
<1>4. p \in Path /\ q \in Path
  BY <1>1, InLine
<1>5. /\ disk'[p] = NoFile /\ (p # q => disk'[q] = disk[p])
      /\ \A y \in Path : y \notin {p, q} => disk'[y] = disk[y]
  BY <1>1, <1>4 DEF TypeInv, DiskTyped
<1>6. \E noted \in Seq(Event) : /\ notices' = notices \o noted /\ Range(noted) = {e}
                                /\ \A v, w : ~Before(noted, v, w)
  <2>1. e \in Event
    BY <1>4, NoticesTyped DEF Renamed
  <2> PICK u : u = <<e>>
    OBVIOUS
  <2>2. u \in Seq(Event) /\ notices \in Seq(Event)
    BY <2>1 DEF TypeInv, EventsTyped
  <2>3. notices' = notices \o u
    BY <1>1, <2>1, <2>2, AppendIsConcat
  <2>4. Range(u) = {e} /\ \A v, w : ~Before(u, v, w)
    BY Single
  <2> QED
    BY <2>2, <2>3, <2>4
<1>7. Shifts(c, d, p, q)
  BY <1>1, <1>2, <1>3, <1>4, <1>5, <1>6 DEF Shifts
<1> QED
  BY <1>7

LEMMA Shifting ==
  ASSUME TypeInv, NEW p, NEW q, NEW c, NEW d, Shifts(c, d, p, q)
  PROVE  /\ c \in Changing /\ c \in Work /\ c \in LineOn(p) /\ c \in LineOn(q) /\ fate' = fate
         /\ p \in Path /\ q \in Path /\ d \in Work' /\ c \notin running
         /\ \A x : (On(c, x) <=> x \in {p, q}) /\ (On(d, x) <=> x \in {p, q})
         /\ \A x : SameRows(x) /\ SameThere(x)
         /\ \A x \in Path : x \notin {p, q} => Same(x)
         /\ TiesKept
         /\ \A w \in Work' : w \in Work \/ w = d \/ w = Renamed(p, q)
         /\ \A w \in Changing' : w \in Changing \/ w = d
<1>1. /\ Begins(c, d) /\ UNCHANGED <<beside, events, seen, out, db, remote, fate>>
      /\ p = c.path /\ q = c.to /\ p \in Path /\ q \in Path
      /\ expected' = Expecting(expected, p, "Move")
  BY DEF Shifts
<1>2. /\ c \in Changing /\ c \in Work /\ c \in LineOn(p) /\ c \in LineOn(q)
      /\ \A x : On(d, x) <=> On(c, x)
      /\ \A x : ~On(c, x) => SameLine(x) /\ SameRuns(x)
  BY <1>1, Beginning DEF On
<1>3. \A x : On(c, x) <=> x \in {p, q}
  BY <1>1 DEF On
<1>4. PICK noted \in Seq(Event) : notices' = notices \o noted /\ Range(noted) = {Renamed(p, q)}
  BY DEF Shifts
<1>5. QueueGains(noted)
  BY <1>1, <1>4, NotedDown
<1>6. Queued \subseteq Queued' /\ Queued' \subseteq Queued \cup {Renamed(p, q)}
  BY <1>4, <1>5 DEF QueueGains
<1>7. \A x : SameRows(x) /\ SameThere(x)
  BY <1>1, Untouched
<1>8. ASSUME NEW x \in Path, x \notin {p, q} PROVE Same(x)
  <2>1. SameFile(x)
    BY <1>8 DEF Shifts, SameFile
  <2>2. \A v \in Range(noted) : ~On(v, x)
    BY <1>4, <1>8, NoticeIs DEF Renamed
  <2>3. SameEvents(x)
    BY <1>5, <2>2, OffNotes
  <2>4. SameAwait(x) /\ SameLine(x) /\ SameRuns(x)
    BY <1>1, <1>2, <1>3, <1>8, Awaiting
  <2> QED
    BY <1>7, <2>1, <2>3, <2>4 DEF Same
<1>9. /\ TiesKept /\ d \in Work'
      /\ \A w \in Work' : w \in Work \/ w = d \/ w \in Queued' \ Queued
      /\ \A w \in Changing' : w \in Changing \/ w = d
  BY <1>1, <1>6, BeginTies
<1>10. c \notin running
  BY <1>1 DEF Begins
<1> QED
  BY <1>1, <1>2, <1>3, <1>6, <1>7, <1>8, <1>9, <1>10

(* A move in the cloud that waits. *)
LEMMA ShiftWaits ==
  ASSUME TypeInv, Stories, NEW p, NEW q, NEW c, NEW d, Shifts(c, d, p, q), NEW x \in {p, q}, Clean(x)
  PROVE  /\ p # q /\ Clean(p) /\ Clean(q) /\ CloudMoving(c, p, q)
         /\ OnlyInLine(c, p) /\ OnlyInLine(c, q)
         /\ Exists(p) /\ ~Exists(q) /\ Agreed(c.gid, p) /\ ~Awaits(p)
<1>0. c.type = "Move" /\ p = c.path /\ q = c.to /\ c.by = "cloud"
  BY DEF Shifts
<1>1. c \in Changing /\ p \in Path /\ q \in Path /\ c \in LineOn(p) /\ On(c, x)
  BY Shifting
<1>2. /\ p # q /\ Clean(p) /\ Clean(q)
      /\ UserMoving(c, p, q) \/ CloudMoving(c, p, q)
  BY <1>0, <1>1, MoveTold
<1>3. CloudMoving(c, p, q)
  BY <1>0, <1>2 DEF UserMoving
<1> QED
  BY <1>0, <1>1, <1>2, <1>3 DEF CloudMoving

LEMMA ShiftTold ==
  ASSUME TypeInv, TypeInv', Stories, NEW p, NEW q, NEW c, NEW d, Shifts(c, d, p, q), NEW x \in {p, q}, Clean(x)
  PROVE  Told(p)' /\ Told(q)'
<1> PICK r, m, e : r = c.gid /\ m = c.cid /\ e = Renamed(p, q)
  OBVIOUS
<1>1. /\ p # q /\ Clean(p) /\ Clean(q) /\ CloudMoving(c, p, q)
      /\ OnlyInLine(c, p) /\ OnlyInLine(c, q)
      /\ Exists(p) /\ ~Exists(q) /\ Agreed(r, p) /\ ~Awaits(p)
  BY ShiftWaits
<1>2. /\ ~Awaits(q) /\ Rows(p) = {r} /\ Rows(q) = {} /\ There(p) = {} /\ There(q) = {m}
      /\ Linked(r) /\ LinkId(r) = m
  BY <1>1 DEF CloudMoving
<1>3. /\ p \in Path /\ q \in Path /\ \A y : SameRows(y) /\ SameThere(y)
      /\ Begins(c, d) /\ events' = events
  BY Shifting DEF Shifts
<1>4. /\ d.type = "Move" /\ d.by = "cloud" /\ d.path = p /\ d.to = q /\ d.gid = r /\ d.cid = m
      /\ d.stage = "placed"
  BY DEF Shifts, Begins
<1>5. (/\ Rows(p) = {r} /\ Rows(q) = {} /\ There(p) = {} /\ There(q) = {m} /\ Linked(r))'
      /\ LinkId(r)' = m /\ Stat(r)' = Stat(r)
  BY <1>2, <1>3 DEF SameRows, SameThere
<1>6. disk'[p] = NoFile /\ disk'[q] = disk[p]
  BY <1>1 DEF Shifts
<1>7. ~Exists(p)' /\ Exists(q)' /\ StatOf(q)' = StatOf(p)
  BY <1>1, <1>6 DEF Exists, StatOf, NoFile
<1>8. Agreed(r, q)'
  <2>1. HashAt(m)' = HashAt(m)
    BY <1>2, <1>3 DEF SameThere
  <2> QED
    BY <1>1, <1>2, <1>5, <1>6, <1>7, <2>1 DEF Agreed
<1>9. \A y \in {p, q} : LineOn(y)' = {} /\ RunsOn(y)' = {d} /\ EventsOn(y) = {}
  BY <1>1, <1>3, Beginning DEF OnlyInLine
<1>10. PICK noted \in Seq(Event) : /\ notices' = notices \o noted /\ Range(noted) = {e}
                                   /\ \A v, w : ~Before(noted, v, w)
  BY DEF Shifts
<1>11. QueueGains(noted)
  BY <1>3, <1>10, NotedDown
<1>12. On(e, p) /\ On(e, q)
  BY NoticesOn
<1>13. EventsOn(p)' = {e} /\ EventsOn(q)' = {e}
  BY <1>9, <1>10, <1>11, <1>12 DEF QueueGains, EventsOn
<1>14. ~Earlier(e, e)'
  <2>1. e \notin Queued
    BY <1>9, <1>12 DEF EventsOn
  <2>2. ~Earlier(e, e)
    BY <2>1, EarlierIn
  <2> QED
    BY <1>10, <1>11, <2>1, <2>2 DEF QueueGains
<1>15. Expects(expected, p, "Move")' /\ ~Awaits(q)'
  <2>1. Awaits(p)' /\ expected'[p] = "Move" /\ SameAwait(q)
    BY <1>1, Awaiting DEF Shifts
  <2> QED
    BY <1>2, <2>1 DEF Expects, Awaits, SameAwait
<1>16. CloudMoving(d, p, q)'
  BY <1>4, <1>5, <1>7, <1>8, <1>9, <1>13, <1>14, <1>15 DEF CloudMoving
<1>17. d \in WorkHere(p)' /\ d \in WorkHere(q)'
  BY <1>9 DEF WorkHere
<1> QED
  BY <1>1, <1>3, <1>16, <1>17, BothTold, Shifting DEF Moving

LEMMA ShiftAlike ==
  ASSUME TypeInv, Apart, NEW p, NEW q, NEW c, NEW d, Shifts(c, d, p, q)
  PROVE  /\ Clean(p) <=> Clean(q)
         /\ \A w \in Work' : w \in Work \/ Alike(w)
         /\ OwnRow(d) /\ OwnCid(d) /\ ~Looked(d)
<1>1. c \in Work /\ c \in Changing /\ p \in Path /\ q \in Path
  BY Shifting
<1>2. /\ c.path = p /\ c.to = q /\ d.path = p /\ d.to = q
      /\ d.gid = c.gid /\ d.cid = c.cid /\ d.type = "Move"
  BY DEF Shifts, Begins
<1>3. \A x : On(d, x) <=> On(c, x)
  BY <1>2 DEF On
<1>4. Alike(c) /\ OwnRow(c) /\ OwnCid(c)
  BY <1>1 DEF Apart
<1>5. Clean(p) <=> Clean(q)
  BY <1>1, <1>2, <1>4 DEF Alike
<1>6. Alike(d) /\ Alike(Renamed(p, q))
  <2>1. Renamed(p, q).path = p /\ Renamed(p, q).to = q
    BY NoticeIs DEF Renamed
  <2> QED
    BY <1>2, <1>5, <2>1 DEF Alike
<1>7. OwnRow(d) /\ OwnCid(d)
  BY <1>2, <1>3, <1>4 DEF OwnRow, OwnCid
<1>8. ~Looked(d)
  BY <1>2 DEF Looked
<1>9. \A w \in Work' : w \in Work \/ w = d \/ w = Renamed(p, q)
  BY Shifting
<1> QED
  BY <1>5, <1>6, <1>7, <1>8, <1>9

(* The inode of the file goes with it. *)
LEMMA ShiftInode ==
  ASSUME TypeInv, NEW p, NEW q, NEW c, NEW d, Shifts(c, d, p, q), p # q, NEW y \in Path, Exists(y)'
  PROVE  /\ y # p
         /\ y = q => disk'[y] = disk[p]
         /\ y # q => disk'[y] = disk[y] /\ Exists(y)
<1>1. /\ disk'[p] = NoFile /\ disk'[q] = disk[p]
      /\ \A z \in Path : z \notin {p, q} => disk'[z] = disk[z]
  BY DEF Shifts
<1>2. y # p
  BY <1>1 DEF Exists, NoFile
<1> QED
  BY <1>1, <1>2 DEF Exists, NoFile

LEMMA ShiftApart ==
  ASSUME TypeInv, TypeInv', Stories, Apart, NEW p, NEW q, NEW c, NEW d, Shifts(c, d, p, q)
  PROVE  Apart'
<1>1. /\ c \in Changing /\ c \in Work /\ c \in LineOn(p) /\ c \in LineOn(q) /\ fate' = fate
      /\ p \in Path /\ q \in Path /\ d \in Work' /\ TiesKept
      /\ \A w \in Changing' : w \in Changing \/ w = d
      /\ \A x : SameRows(x) /\ SameThere(x)
  BY Shifting
<1>0. /\ c.type = "Move" /\ UNCHANGED <<db, remote, fate, status>> /\ Up /\ Exists(p)
      /\ disk'[p] = NoFile /\ \A y \in Path : y \notin {p, q} => disk'[y] = disk[y]
  BY DEF Shifts
<1>2. /\ Clean(p) <=> Clean(q)
      /\ \A w \in Work' : w \in Work \/ Alike(w)
      /\ OwnRow(d) /\ OwnCid(d) /\ ~Looked(d)
  BY ShiftAlike
<1>3. Down' /\ AbortsOnlyOnRaces'
  BY <1>0, UpStays, StatusStays
<1>4. CASE p = q
  <2>1. Replaced(p)
    BY <1>0, <1>4 DEF Replaced, Exists, NoFile
  <2> QED
    BY <1>0, <1>1, <1>2, <2>1, DiskApart
<1>5. CASE p # q
  <2>1. (\A w \in Changing : OwnRow(w) /\ OwnCid(w) /\ OwnStat(w))'
    <3> SUFFICES ASSUME NEW w \in Changing' PROVE OwnRow(w)' /\ OwnCid(w)' /\ OwnStat(w)'
      OBVIOUS
    <3>1. OwnRow(w)
      BY <1>1, <1>2 DEF Apart
    <3>2. OwnCid(w)
      BY <1>1, <1>2 DEF Apart
    <3>3. \A x \in Path : Rows(x)' \subseteq Rows(x) /\ There(x)' \subseteq There(x)
      BY <1>1 DEF SameRows, SameThere
    <3>4. OwnRow(w)' /\ OwnCid(w)'
      BY <1>1, <3>1, <3>2, <3>3, OwnRowStays, OwnCidStays
    <3>5. OwnStat(w)'
      <4> SUFFICES ASSUME Looked(w) PROVE OwnStat(w)'
        BY DEF OwnStat, Looked, Local
      <4>1. w \in Changing /\ OwnStat(w)
        BY <1>1, <1>2 DEF Apart
      <4>2. Clean(w.path)' => w.stat.inode > 0
        BY <1>1, <4>1 DEF OwnStat, Clean
      <4>3. ASSUME NEW y \in Path, Exists(y)', w.stat.inode = disk'[y].inode, Clean(w.path) \/ Clean(y)
            PROVE  w.path = y
        <5>1. /\ y # p
              /\ y = q => disk'[y] = disk[p]
              /\ y # q => disk'[y] = disk[y] /\ Exists(y)
          BY <1>5, <4>3, ShiftInode
        <5>2. CASE y # q
          BY <4>1, <4>3, <5>1, <5>2 DEF OwnStat
        <5>3. CASE y = q
          <6>1. w.stat.inode = disk[p].inode /\ (Clean(w.path) \/ Clean(p))
            BY <1>2, <4>3, <5>1, <5>3
          <6>2. w.path = p
            BY <1>0, <1>1, <4>1, <6>1 DEF OwnStat
          <6>3. Clean(p) /\ p \in {p, q}
            BY <6>1, <6>2
          <6>4. OnlyInLine(c, p)
            BY <6>3, ShiftWaits
          <6>5. On(w, p)
            BY <6>2 DEF On
          <6>6. w = c
            BY <4>1, <6>4, <6>5 DEF OnlyInLine, LineOn, RunsOn, Changing
          <6> QED
            BY <1>0, <6>6 DEF Looked
        <5> QED
          BY <5>2, <5>3
      <4> QED
        BY <1>1, <4>2, <4>3 DEF OwnStat, Clean
    <3> QED
      BY <3>4, <3>5
  <2>2. (\A r \in DOMAIN db.files : OwnFile(r) /\ OwnLink(r))'
    <3> SUFFICES ASSUME NEW r \in DOMAIN db'.files PROVE OwnFile(r)' /\ OwnLink(r)'
      OBVIOUS
    <3>1. /\ r \in DOMAIN db.files /\ PathOf(r)' = PathOf(r) /\ Stat(r)' = Stat(r)
          /\ (Linked(r)' <=> Linked(r)) /\ LinkId(r)' = LinkId(r)
      BY <1>0 DEF PathOf, Stat, Linked, LinkId, Link
    <3>2. OwnFile(r)
      BY <3>1 DEF Apart
    <3>3. OwnLink(r)'
      <4>1. \A y \in Path : There(y)' \subseteq There(y)
        BY <1>1 DEF SameThere
      <4> QED
        BY <1>1, <3>1, <4>1, LinkTied
    <3> PICK x : x = PathOf(r)
      OBVIOUS
    <3>4. x \in Path /\ PathOf(r)' = x
      BY <3>1, RowsKnown
    <3>5. ASSUME NEW y \in Path, Exists(y)', Stat(r).inode = disk'[y].inode, Clean(x) \/ Clean(y)
          PROVE  Near(x, y)'
      <4>1. /\ y # p
            /\ y = q => disk'[y] = disk[p]
            /\ y # q => disk'[y] = disk[y] /\ Exists(y)
        BY <1>5, <3>5, ShiftInode
      <4>2. CASE y # q
        BY <1>1, <3>1, <3>5, <4>1, <4>2, FileStaysTied
      <4>3. CASE y = q
        <5>1. Stat(r).inode = disk[p].inode /\ (Clean(x) \/ Clean(p))
          BY <1>2, <3>5, <4>1, <4>3
        <5>2. Near(x, p)
          BY <1>0, <1>1, <3>2, <5>1 DEF OwnFile
        <5>3. Clean(p) /\ Near(p, x)
          BY <1>1, <3>4, <5>1, <5>2, NearSame, NearSymmetric
        <5>4. On(c, p)
          BY <1>1 DEF LineOn
        <5>5. On(c, x)
          BY <1>1, <3>4, <5>3, <5>4, NearWork
        <5>6. x \in {p, q} /\ On(d, x) /\ On(d, q)
          BY <5>5, Shifting
        <5> QED
          BY <1>1, <4>3, <5>6 DEF Near
      <4> QED
        BY <4>2, <4>3
    <3>6. OwnFile(r)'
      BY <1>1, <3>1, <3>2, <3>5 DEF OwnFile, Clean
    <3> QED
      BY <3>3, <3>6
  <2>3. OneFile'
    <3> SUFFICES ASSUME NEW x \in Path, NEW y \in Path, Exists(x)', disk'[x].inode = disk'[y].inode
                 PROVE  x = y
      BY DEF OneFile
    <3>1. disk'[x].inode > 0
      BY DEF TypeInv, DiskTyped
    <3>2. Exists(y)'
      BY <3>1 DEF TypeInv, DiskTyped
    <3>3. /\ x # p /\ y # p
          /\ x = q => disk'[x] = disk[p]
          /\ x # q => disk'[x] = disk[x] /\ Exists(x)
          /\ y = q => disk'[y] = disk[p]
          /\ y # q => disk'[y] = disk[y] /\ Exists(y)
      BY <1>5, <3>2, ShiftInode
    <3>4. OneFile
      BY DEF Apart
    <3>5. CASE x = q
      BY <1>0, <1>1, <3>3, <3>4, <3>5 DEF OneFile
    <3>6. CASE x # q
      BY <1>0, <1>1, <3>3, <3>4, <3>6 DEF OneFile
    <3> QED
      BY <3>5, <3>6
  <2> QED
    BY <1>1, <1>2, <1>3, <2>1, <2>2, <2>3, ApartOf
<1> QED
  BY <1>4, <1>5

LEMMA PlaceMoveOk ==
  ASSUME TypeInv, TypeInv', Stories, Apart, NEW k \in DOMAIN changes, PlaceMove(k)
  PROVE  Stories' /\ Apart'
<1> PICK c, p, q : c = changes[k] /\ p = c.path /\ q = c.to
  OBVIOUS
<1>1. PICK d : Shifts(c, d, p, q)
  BY ShiftsIt
<1>2. Apart'
  BY <1>1, ShiftApart
<1>3. /\ c \in Work /\ p \in Path /\ q \in Path /\ fate' = fate
      /\ \A x : On(c, x) <=> x \in {p, q}
      /\ \A x \in Path : x \notin {p, q} => Same(x)
  BY <1>1, Shifting
<1>4. \A x \in Path : Clean(x) /\ On(c, x) => Told(x)'
  <2> SUFFICES ASSUME NEW x \in Path, Clean(x), On(c, x) PROVE Told(x)'
    OBVIOUS
  <2>1. x \in {p, q}
    BY <1>3
  <2>2. Told(p)' /\ Told(q)'
    BY <1>1, <2>1, ShiftTold
  <2> QED
    BY <2>1, <2>2
<1>5. \A x \in Path : Clean(x) /\ ~On(c, x) => Same(x)
  BY <1>3
<1>6. Stories'
  BY <1>3, <1>4, <1>5, StoriesBut
<1> QED
  BY <1>2, <1>6

(* The file to be moved has gone only if somebody was in the way. *)
LEMMA PlaceMoveThrowsOk ==
  ASSUME TypeInv, Stories, NEW k \in DOMAIN changes, PlaceMoveThrows(k)
  PROVE  changes[k].path \in Path /\ ~Clean(changes[k].path)
<1> PICK c, p : c = changes[k] /\ p = c.path
  OBVIOUS
<1>1. /\ c \in Pending /\ c \in Changing /\ c \in Work /\ c \in Change /\ p \in Path /\ On(c, p)
      /\ \A x : On(c, x) => c \in LineOn(x)
  BY InLineK
<1>2. Up /\ c.by = "cloud" /\ c.type = "Move" /\ ~Exists(p) /\ \A v \in running : v.path # p
  BY DEF PlaceMoveThrows, Ready
<1>3. ASSUME Clean(p) PROVE FALSE
  <2>1. \/ UserMoving(c, c.path, c.to)
        \/ CloudMoving(c, c.path, c.to)
    BY <1>1, <1>2, <1>3, MoveTold
  <2>2. CloudMoving(c, p, c.to)
    BY <1>2, <2>1 DEF UserMoving
  <2>3. c.stage = "placed" /\ RunsOn(p) = {c}
    BY <1>2, <2>2 DEF CloudMoving
  <2>4. c \in running
    BY <2>3 DEF RunsOn
  <2> QED
    BY <1>2, <2>4
<1> QED
  BY <1>1, <1>3

-----------------------------------------------------------------------------
(* Record. *)

Records(c) ==
  /\ Up /\ Ending(c) /\ c.by = "cloud" /\ c.stage = "placed"
  /\ UNCHANGED <<fsVars, events, notices, changes, out, seen, expected, remote, status, fate>>
  /\ c.type = "New" =>
       db' = WithLink(WithFile(db, c.path, StatOf(c.path)), NewId(db), Cloud, [id |-> c.cid])
  /\ c.type = "Update" => db' = WithFileUpdated(db, c.gid, StatOf(c.path))
  /\ c.type = "Move" => db' = WithFileMoved(db, c.gid, c.to)
  /\ c.type = "Delete" => db' = WithoutFile(db, c.gid)

LEMMA RecordsIt == ASSUME TypeInv, NEW c, Record(c) PROVE Records(c)
<1>1. c \in running /\ c.stage = "placed" /\ Up /\ running' = running \ {c} /\ db' = Recorded(c)
  BY DEF Record, Finished
<1>2. ~Local(c)
  BY <1>1 DEF TypeInv, RunsTyped, Runs
<1>3. UNCHANGED <<fsVars, events, notices, changes, out, seen, expected, remote, status, fate>>
  BY DEF Record, eventVars
<1>4. c.type = "New" =>
        db' = WithLink(WithFile(db, c.path, StatOf(c.path)), NewId(db), Cloud, [id |-> c.cid])
  BY <1>1 DEF Recorded
<1>5. c.type = "Update" => db' = WithFileUpdated(db, c.gid, StatOf(c.path))
  BY <1>1 DEF Recorded
<1>6. c.type = "Move" => db' = WithFileMoved(db, c.gid, c.to)
  BY <1>1 DEF Recorded
<1>7. c.type = "Delete" => db' = WithoutFile(db, c.gid)
  BY <1>1 DEF Recorded
<1> QED
  BY <1>1, <1>2, <1>3, <1>4, <1>5, <1>6, <1>7 DEF Records, Ending, Local

LEMMA Recording ==
  ASSUME TypeInv, NEW c, Records(c)
  PROVE  /\ QueueStays /\ LineStays /\ disk' = disk /\ fate' = fate /\ Up /\ status' = status
         /\ \A x : SameFile(x) /\ SameEvents(x) /\ SameLine(x) /\ SameAwait(x) /\ SameThere(x)
         /\ \A x : /\ (Exists(x)' <=> Exists(x)) /\ StatOf(x)' = StatOf(x) /\ There(x)' = There(x)
                   /\ (Awaits(x)' <=> Awaits(x)) /\ EventsOn(x)' = EventsOn(x)
                   /\ LineOn(x)' = LineOn(x)
         /\ \A n : HashAt(n)' = HashAt(n)
         /\ \A v, w : Earlier(v, w)' <=> Earlier(v, w)
         /\ \A x : ~On(c, x) => SameRuns(x)
         /\ \A x : RunsOn(x) = {c} => RunsOn(x)' = {}
         /\ c \in Changing /\ c \in Work /\ c \in Change /\ c.path \in Path
         /\ \A x : On(c, x) => c \in RunsOn(x)
         /\ c.type \in {"New", "Update", "Move", "Delete"}
         /\ c.type = "Move" => c.to \in Path
<1>1. /\ UNCHANGED <<fsVars, events, notices, changes, out, seen, expected, remote, status, fate>>
      /\ Up /\ Ending(c)
  BY DEF Records
<1>2. QueueStays /\ LineStays
  BY <1>1, QueueKept, LineUntouched
<1>3. \A x : SameFile(x) /\ SameEvents(x) /\ SameLine(x) /\ SameAwait(x) /\ SameThere(x)
  BY <1>1, <1>2, Untouched
<1>4. \A x : /\ (Exists(x)' <=> Exists(x)) /\ StatOf(x)' = StatOf(x) /\ There(x)' = There(x)
             /\ (Awaits(x)' <=> Awaits(x)) /\ EventsOn(x)' = EventsOn(x) /\ LineOn(x)' = LineOn(x)
  BY <1>3, SameExists DEF SameAwait, SameEvents, SameLine, SameThere
<1>5. c \in Changing /\ c \in Work /\ c \in Change
  BY <1>1, Ended
<1>6. c.type \in {"New", "Update", "Move", "Delete"} /\ c.path \in Path
  BY <1>5, ChangeKinds DEF Change
<1>7. disk' = disk
  BY <1>1 DEF fsVars
<1>8. \A n : HashAt(n)' = HashAt(n)
  BY <1>1 DEF HashAt
<1>9. \A v, w : Earlier(v, w)' <=> Earlier(v, w)
  BY <1>2 DEF QueueStays
<1>10. c.type = "Move" => c.to \in Path
  BY <1>5, ChangingTyped
<1> QED
  BY <1>1, <1>2, <1>3, <1>4, <1>5, <1>6, <1>7, <1>8, <1>9, <1>10, Ended

(* What it makes of the rows. *)
LEMMA RecordNew ==
  ASSUME TypeInv, NEW c, Records(c), c.type = "New", NEW p, p = c.path, NEW n, n = NewId(db)
  PROVE  /\ n \notin DOMAIN db.files /\ DOMAIN db'.files = DOMAIN db.files \cup {n}
         /\ Rows(p)' = Rows(p) \cup {n} /\ (\A x : x # p => Rows(x)' = Rows(x))
         /\ PathOf(n)' = p /\ Stat(n)' = StatOf(p) /\ Linked(n)' /\ LinkId(n)' = c.cid
         /\ \A r \in DOMAIN db.files : Stat(r)' = Stat(r) /\ PathOf(r)' = PathOf(r)
         /\ \A r : r # n => (Linked(r)' <=> Linked(r)) /\ (Linked(r) => LinkId(r)' = LinkId(r))
<1>1. p \in Path /\ StatOf(p) \in Stamp /\ c \in Change
  BY Recording, StatIsStamp
<1> PICK m, s : m = c.cid /\ s = StatOf(p)
  OBVIOUS
<1>2. m \in Nat /\ s \in Stamp
  BY <1>1 DEF Change
<1>3. db' = WithLink(WithFile(db, p, s), n, Cloud, [id |-> m])
  BY DEF Records
<1> QED
  BY <1>1, <1>2, <1>3, RowLinked

LEMMA RecordUpdate ==
  ASSUME TypeInv, NEW c, Records(c), c.type = "Update", NEW p, p = c.path, NEW r, r = c.gid
  PROVE  /\ DOMAIN db'.files = DOMAIN db.files /\ (\A x : Rows(x)' = Rows(x))
         /\ \A o \in DOMAIN db.files :
              PathOf(o)' = PathOf(o) /\ Stat(o)' = IF o = r THEN StatOf(p) ELSE Stat(o)
         /\ \A o : (Linked(o)' <=> Linked(o)) /\ LinkId(o)' = LinkId(o)
<1>1. p \in Path /\ StatOf(p) \in Stamp
  BY Recording, StatIsStamp
<1>2. db' = WithFileUpdated(db, r, StatOf(p))
  BY DEF Records
<1> QED
  BY <1>1, <1>2, RowUpdated

LEMMA RecordMove ==
  ASSUME TypeInv, NEW c, Records(c), c.type = "Move", NEW q, q = c.to, NEW r, r = c.gid
  PROVE  /\ DOMAIN db'.files = DOMAIN db.files
         /\ \A x : x # q => Rows(x)' = Rows(x) \ {r}
         /\ Rows(q)' = Rows(q) \cup ({r} \cap DOMAIN db.files)
         /\ \A o \in DOMAIN db.files :
              Stat(o)' = Stat(o) /\ PathOf(o)' = IF o = r THEN q ELSE PathOf(o)
         /\ \A o : (Linked(o)' <=> Linked(o)) /\ LinkId(o)' = LinkId(o)
<1>1. q \in Path
  BY Recording
<1>2. db' = WithFileMoved(db, r, q)
  BY DEF Records
<1> QED
  BY <1>1, <1>2, RowMoved

LEMMA RecordDelete ==
  ASSUME TypeInv, NEW c, Records(c), c.type = "Delete", NEW r, r = c.gid
  PROVE  /\ DOMAIN db'.files = DOMAIN db.files \ {r} /\ (\A x : Rows(x)' = Rows(x) \ {r})
         /\ \A o \in DOMAIN db'.files : Stat(o)' = Stat(o) /\ PathOf(o)' = PathOf(o)
         /\ \A o : Linked(o)' => Linked(o) /\ LinkId(o)' = LinkId(o)
         /\ \A o : o # r => (Linked(o)' <=> Linked(o))
<1>1. db' = WithoutFile(db, r)
  BY DEF Records
<1> QED
  BY <1>1, RowRemoved

(* The paths that it is not about. *)
LEMMA RecordOff ==
  ASSUME TypeInv, Stories, Apart, NEW c, Records(c), NEW x \in Path, Clean(x), ~On(c, x)
  PROVE  Same(x)
<1> PICK r, n, p, q : r = c.gid /\ n = NewId(db) /\ p = c.path /\ q = c.to
  OBVIOUS
<1>1. /\ SameFile(x) /\ SameEvents(x) /\ SameLine(x) /\ SameAwait(x) /\ SameRuns(x) /\ SameThere(x)
      /\ c \in Changing
  BY Recording
<1>2. r \notin Rows(x) /\ p # x /\ q # x
  BY <1>1 DEF Apart, OwnRow, On
<1>3. \A o \in Rows(x) : o \in DOMAIN db.files /\ o # r
  BY <1>2, RowsKnown
<1>4. CASE c.type = "New"
  <2>1. /\ n \notin DOMAIN db.files
        /\ \A y : y # p => Rows(y)' = Rows(y)
        /\ \A o \in DOMAIN db.files : Stat(o)' = Stat(o)
        /\ \A o : o # n => (Linked(o)' <=> Linked(o)) /\ (Linked(o) => LinkId(o)' = LinkId(o))
    BY <1>4, RecordNew
  <2>2. SameRows(x)
    BY <1>2, <1>3, <2>1 DEF SameRows
  <2> QED
    BY <1>1, <2>2 DEF Same
<1>5. CASE c.type = "Update"
  <2>1. /\ \A y : Rows(y)' = Rows(y)
        /\ \A o \in DOMAIN db.files : Stat(o)' = IF o = r THEN StatOf(p) ELSE Stat(o)
        /\ \A o : (Linked(o)' <=> Linked(o)) /\ LinkId(o)' = LinkId(o)
    BY <1>5, RecordUpdate
  <2>2. SameRows(x)
    BY <1>3, <2>1 DEF SameRows
  <2> QED
    BY <1>1, <2>2 DEF Same
<1>6. CASE c.type = "Move"
  <2>1. /\ \A y : y # q => Rows(y)' = Rows(y) \ {r}
        /\ \A o \in DOMAIN db.files : Stat(o)' = Stat(o)
        /\ \A o : (Linked(o)' <=> Linked(o)) /\ LinkId(o)' = LinkId(o)
    BY <1>6, RecordMove
  <2>2. SameRows(x)
    BY <1>2, <1>3, <2>1 DEF SameRows
  <2> QED
    BY <1>1, <2>2 DEF Same
<1>7. CASE c.type = "Delete"
  <2>1. /\ \A y : Rows(y)' = Rows(y) \ {r}
        /\ DOMAIN db'.files = DOMAIN db.files \ {r}
        /\ \A o \in DOMAIN db'.files : Stat(o)' = Stat(o)
        /\ \A o : Linked(o)' => Linked(o) /\ LinkId(o)' = LinkId(o)
        /\ \A o : o # r => (Linked(o)' <=> Linked(o))
    BY <1>7, RecordDelete
  <2>2. SameRows(x)
    BY <1>3, <2>1 DEF SameRows
  <2> QED
    BY <1>1, <2>2 DEF Same
<1> QED
  BY <1>4, <1>5, <1>6, <1>7, Recording

(* A file that is everywhere as it is; what is on its way is the program's own. *)
LEMMA AgreedKept ==
  ASSUME NEW p, NEW r,
         (/\ Exists(p) /\ Everywhere(p, r) /\ Agreed(r, p)
          /\ EventsOn(p) \subseteq {Destroyed(p), Placed(p)} /\ DestroyAwaited(p)
          /\ \A u \in LineOn(p) : u.type = "Update" /\ u.gid = r /\ u.path = p /\ u.by = "program"
                                  /\ u.stat = StatOf(p)
          /\ RunsOn(p) = {} /\ disk[p].hash \in Nat)'
  PROVE  Kept(p, r)'
<1>1. (Stat(r).hash = disk[p].hash /\ Stat(r) = StatOf(p) /\ StatOf(p).hash = disk[p].hash)'
  BY DEF Agreed, StatOf
<1>2. KeptRow(p, r)'
  BY <1>1 DEF KeptRow, Dated, Everywhere
<1>3. \A u \in LineOn(p)' : Dated(u.stat, p)' /\ Newest(u, p)' /\ Local(u)
  BY <1>1 DEF Dated, Newest, Local
<1>4. KeptLine(p, r)'
  BY <1>3 DEF KeptLine, Local
<1>5. KeptRuns(p, r)'
  BY DEF KeptRuns, Everywhere
<1>6. KeptFlow(p, r)'
  BY <1>1, <1>3 DEF KeptFlow, Agreed
<1> QED
  BY <1>2, <1>4, <1>5, <1>6 DEF Kept

LEMMA RecordedNew ==
  ASSUME TypeInv, NEW c, Records(c), NEW p \in Path, c.type = "New", CloudNew(c, p)
  PROVE  Told(p)'
<1> PICK n, m : n = NewId(db) /\ m = c.cid
  OBVIOUS
<1>1. /\ c.path = p /\ c.stage = "placed" /\ ~Awaits(p) /\ Rows(p) = {} /\ There(p) = {m}
      /\ Exists(p) /\ disk[p].hash = HashAt(m) /\ RunsOn(p) = {c} /\ LineOn(p) = {}
      /\ EventsOn(p) \subseteq {Placed(p)}
  BY DEF CloudNew, Records
<1>2. /\ disk' = disk /\ StatOf(p)' = StatOf(p) /\ There(p)' = {m} /\ HashAt(m)' = HashAt(m)
      /\ Exists(p)' /\ ~Awaits(p)' /\ EventsOn(p)' \subseteq {Placed(p)} /\ LineOn(p)' = {}
      /\ RunsOn(p)' = {} /\ disk[p].hash \in Nat
  BY <1>1, Recording, StatIsStamp
<1>3. Rows(p)' = {n} /\ Stat(n)' = StatOf(p) /\ Linked(n)' /\ LinkId(n)' = m
  BY <1>1, RecordNew
<1>4. Everywhere(p, n)' /\ Agreed(n, p)'
  BY <1>1, <1>2, <1>3 DEF Everywhere, Agreed
<1>5. DestroyAwaited(p)'
  <2>1. Placed(p) # Destroyed(p)
    BY EventKinds
  <2>2. Destroyed(p) \notin EventsOn(p) /\ On(Destroyed(p), p)
    BY <1>1, <2>1, NoticesOn
  <2>3. ~Earlier(Destroyed(p), Destroyed(p))
    BY <2>2, EarlierIn DEF EventsOn
  <2>4. ~Earlier(Destroyed(p), Destroyed(p))'
    BY <2>3, Recording
  <2> QED
    BY <1>2, <2>1, <2>4 DEF DestroyAwaited
<1>6. Kept(p, n)'
  BY <1>2, <1>4, <1>5, AgreedKept
<1> QED
  BY <1>3, <1>6 DEF Told, Alone

LEMMA RecordedUpdate ==
  ASSUME TypeInv, NEW c, Records(c), NEW p \in Path, c.type = "Update", CloudUpdate(c, p)
  PROVE  Told(p)'
<1> PICK r, m : r = c.gid /\ m = c.cid
  OBVIOUS
<1>1. /\ c.path = p /\ c.stage = "placed" /\ Everywhere(p, r) /\ m = LinkId(r) /\ Exists(p)
      /\ disk[p].hash = HashAt(m) /\ disk[p].by = "program" /\ RunsOn(p) = {c}
      /\ EventsOn(p) \subseteq {Destroyed(p), Placed(p)} /\ DestroyAwaited(p)
      /\ \A u \in LineOn(p) : /\ u.type = "Update" /\ u.gid = r /\ u.path = p
                              /\ u.by = "program" /\ u.stat = StatOf(p)
  BY DEF CloudUpdate, Records
<1>2. /\ disk' = disk /\ StatOf(p)' = StatOf(p) /\ There(p)' = There(p) /\ HashAt(m)' = HashAt(m)
      /\ Exists(p)' /\ (Awaits(p)' <=> Awaits(p)) /\ EventsOn(p)' = EventsOn(p) /\ LineOn(p)' = LineOn(p)
      /\ RunsOn(p)' = {} /\ disk[p].hash \in Nat /\ SameAwait(p)
      /\ \A v, w : Earlier(v, w)' <=> Earlier(v, w)
  BY <1>1, Recording, StatIsStamp
<1>3. r \in DOMAIN db.files
  BY <1>1, RowsKnown DEF Everywhere
<1>4. /\ Rows(p)' = Rows(p) /\ Stat(r)' = StatOf(p) /\ (Linked(r)' <=> Linked(r)) /\ LinkId(r)' = LinkId(r)
  BY <1>1, <1>3, RecordUpdate
<1>5. Everywhere(p, r)'
  BY <1>1, <1>2, <1>4 DEF Everywhere
<1>6. Agreed(r, p)'
  BY <1>1, <1>2, <1>4, <1>5 DEF Everywhere, Agreed
<1>7. DestroyAwaited(p)'
  BY <1>1, <1>2 DEF DestroyAwaited, SameAwait
<1>8. Kept(p, r)'
  BY <1>1, <1>2, <1>5, <1>6, <1>7, AgreedKept
<1> QED
  BY <1>5, <1>8 DEF Told, Alone, Everywhere

LEMMA RecordedDelete ==
  ASSUME TypeInv, NEW c, Records(c), NEW p \in Path, c.type = "Delete", CloudDelete(c, p)
  PROVE  Told(p)'
<1> PICK r : r = c.gid
  OBVIOUS
<1>1. /\ Rows(p) = {r} /\ There(p) = {} /\ ~Exists(p) /\ RunsOn(p) = {c} /\ LineOn(p) = {}
      /\ EventsOn(p) \subseteq {Destroyed(p)} /\ DestroyAwaited(p)
  BY DEF CloudDelete, Records
<1>2. /\ There(p)' = {} /\ ~Exists(p)' /\ RunsOn(p)' = {} /\ LineOn(p)' = {}
      /\ EventsOn(p)' = EventsOn(p) /\ SameAwait(p)
      /\ \A v, w : Earlier(v, w)' <=> Earlier(v, w)
  BY <1>1, Recording
<1>3. Rows(p)' = {}
  BY <1>1, RecordDelete
<1>4. DestroyAwaited(p)'
  BY <1>1, <1>2 DEF DestroyAwaited, SameAwait
<1>5. Absent(p)'
  BY <1>1, <1>2, <1>3, <1>4 DEF Absent, Nowhere
<1> QED
  BY <1>5 DEF Told, Alone

(* A move of the cloud's that is in place. *)
LEMMA MovePlaced ==
  ASSUME TypeInv, Stories, NEW c, Records(c), c.type = "Move", NEW p, NEW q, p = c.path, q = c.to,
         NEW x \in Path, Clean(x), On(c, x), NEW r, r = c.gid
  PROVE  /\ p \in Path /\ q \in Path /\ p # q /\ Clean(p) /\ Clean(q) /\ x \in {p, q}
         /\ CloudMoving(c, p, q)
         /\ ~Awaits(q) /\ Rows(p) = {r} /\ Rows(q) = {} /\ There(p) = {} /\ There(q) = {LinkId(r)}
         /\ Linked(r) /\ ~Exists(p) /\ Exists(q) /\ Agreed(r, q)
         /\ RunsOn(p) = {c} /\ RunsOn(q) = {c} /\ LineOn(p) = {} /\ LineOn(q) = {}
         /\ \/ EventsOn(p) = {} /\ EventsOn(q) = {} /\ ~Awaits(p)
            \/ /\ Expects(expected, p, "Move") /\ ~Earlier(Renamed(p, q), Renamed(p, q))
               /\ EventsOn(p) = {Renamed(p, q)} /\ EventsOn(q) = {Renamed(p, q)}
<1>1. c \in Changing /\ c.by = "cloud" /\ c.stage = "placed" /\ x \in {p, q}
  BY Recording DEF Records, On
<1>2. /\ p \in Path /\ q \in Path /\ p # q /\ Clean(p) /\ Clean(q)
      /\ UserMoving(c, p, q) \/ CloudMoving(c, p, q)
  BY <1>1, MoveTold
<1>3. CloudMoving(c, p, q)
  BY <1>1, <1>2 DEF UserMoving
<1> QED
  BY <1>1, <1>2, <1>3 DEF CloudMoving

LEMMA RecordedMove ==
  ASSUME TypeInv, TypeInv', Stories, NEW c, Records(c), c.type = "Move", NEW x \in Path, Clean(x), On(c, x)
  PROVE  Told(x)'
<1> PICK p, q, r, m, e : p = c.path /\ q = c.to /\ r = c.gid /\ m = LinkId(r) /\ e = Renamed(p, q)
  OBVIOUS
<1>1. /\ p \in Path /\ q \in Path /\ p # q /\ Clean(p) /\ Clean(q) /\ x \in {p, q}
      /\ ~Awaits(q) /\ Rows(p) = {r} /\ Rows(q) = {} /\ There(p) = {} /\ There(q) = {m}
      /\ Linked(r) /\ ~Exists(p) /\ Exists(q) /\ Agreed(r, q)
      /\ RunsOn(p) = {c} /\ RunsOn(q) = {c} /\ LineOn(p) = {} /\ LineOn(q) = {}
      /\ \/ EventsOn(p) = {} /\ EventsOn(q) = {} /\ ~Awaits(p)
         \/ /\ Expects(expected, p, "Move") /\ ~Earlier(e, e)
            /\ EventsOn(p) = {e} /\ EventsOn(q) = {e}
  BY MovePlaced
<1>2. /\ \A y : /\ (Exists(y)' <=> Exists(y)) /\ StatOf(y)' = StatOf(y) /\ There(y)' = There(y)
                /\ (Awaits(y)' <=> Awaits(y)) /\ EventsOn(y)' = EventsOn(y)
                /\ LineOn(y)' = LineOn(y) /\ SameAwait(y)
      /\ \A n : HashAt(n)' = HashAt(n)
      /\ \A v, w : Earlier(v, w)' <=> Earlier(v, w)
      /\ disk' = disk /\ fate' = fate
      /\ \A y : RunsOn(y) = {c} => RunsOn(y)' = {}
  BY Recording
<1>3. r \in DOMAIN db.files
  BY <1>1, RowsKnown
<1>4. Rows(p)' = {} /\ Rows(q)' = {r} /\ Stat(r)' = Stat(r) /\ Linked(r)' /\ LinkId(r)' = m
  BY <1>1, <1>3, RecordMove
<1>5. (/\ ~Exists(p) /\ Exists(q) /\ Nowhere(p) /\ Everywhere(q, r) /\ Agreed(r, q) /\ ~Awaits(q)
       /\ LineOn(p) = {} /\ LineOn(q) = {} /\ RunsOn(p) = {} /\ RunsOn(q) = {})'
  BY <1>1, <1>2, <1>4 DEF Nowhere, Everywhere, Agreed
<1>6. CASE EventsOn(p) = {} /\ EventsOn(q) = {} /\ ~Awaits(p)
  <2>1. EventsOn(p)' = {} /\ EventsOn(q)' = {} /\ ~Awaits(p)'
    BY <1>2, <1>6
  <2>2. ~Earlier(Destroyed(p), Destroyed(p))' /\ ~Earlier(Destroyed(q), Destroyed(q))'
    BY <1>2, <1>6, NoneEarlier
  <2>3. Absent(p)'
    BY <1>5, <2>1, <2>2, IdleAbsent
  <2>4. (disk[q].hash \in Nat)'
    BY <1>1, <1>2, StatIsStamp
  <2>5. Kept(q, r)'
    BY <1>5, <2>1, <2>2, <2>4, IdleKept
  <2> QED
    BY <1>1, <1>4, <2>3, <2>5 DEF Told, Alone
<1>7. CASE /\ Expects(expected, p, "Move") /\ ~Earlier(e, e)
           /\ EventsOn(p) = {e} /\ EventsOn(q) = {e}
  <2>1. EventsOn(p)' = {e} /\ EventsOn(q)' = {e} /\ ~Earlier(e, e)'
    BY <1>2, <1>7
  <2>2. Expects(expected, p, "Move")'
    BY <1>2, <1>7 DEF SameAwait, Expects, Awaits
  <2>3. OnlyEvent(e, p)' /\ OnlyEvent(e, q)'
    BY <1>5, <2>1 DEF OnlyEvent
  <2>4. CloudMoved(e, p, q)'
    BY <1>4, <1>5, <2>2, <2>3 DEF CloudMoved
  <2>5. e \in WorkHere(p)' /\ e \in WorkHere(q)'
    BY <2>1 DEF WorkHere
  <2>6. Told(p)' /\ Told(q)'
    BY <1>1, <1>2, <2>4, <2>5, BothTold DEF Moving
  <2> QED
    BY <1>1, <2>6
<1> QED
  BY <1>1, <1>6, <1>7

LEMMA RecordStories ==
  ASSUME TypeInv, TypeInv', Stories, Apart, NEW c, Records(c)
  PROVE  Stories'
<1>1. c \in Changing /\ c \in Work /\ c.by = "cloud" /\ fate' = fate
  BY Recording DEF Records
<1>2. \A x \in Path : Clean(x) /\ ~On(c, x) => Same(x)
  BY RecordOff
<1>3. \A x \in Path : Clean(x) /\ On(c, x) => Told(x)'
  <2> TAKE x \in Path
  <2> HAVE Clean(x) /\ On(c, x)
  <2>1. CASE c.type # "Move"
    <3>1. Alone(x) /\ c \in RunsOn(x)
      BY <1>1, <2>1, OtherTold, Recording
    <3>2. \/ CloudNew(c, x)
          \/ CloudUpdate(c, x)
          \/ CloudDelete(c, x)
      BY <1>1, <3>1, CloudRun
    <3>3. CASE CloudNew(c, x)
      BY <3>3, RecordedNew DEF CloudNew
    <3>4. CASE CloudUpdate(c, x)
      BY <3>4, RecordedUpdate DEF CloudUpdate
    <3>5. CASE CloudDelete(c, x)
      BY <3>5, RecordedDelete DEF CloudDelete
    <3> QED
      BY <3>2, <3>3, <3>4, <3>5
  <2>2. CASE c.type = "Move"
    BY <2>2, RecordedMove
  <2> QED
    BY <2>1, <2>2
<1> QED
  BY <1>1, <1>2, <1>3, StoriesBut

(* The two paths of a move are told apart when it has been put down. *)
LEMMA RecordTies ==
  ASSUME TypeInv, TypeInv', Stories, Apart, NEW c, Records(c)
  PROVE  /\ TiesKept
         /\ \A w \in Work' : w \in Work
         /\ \A w \in Changing' : w \in Changing
<1> PICK p, q, r : p = c.path /\ q = c.to /\ r = c.gid
  OBVIOUS
<1>1. c \in Changing /\ Ending(c) /\ QueueStays /\ LineStays
  BY Recording DEF Records
<1>2. ASSUME NEW x \in Path, NEW y \in Path, x # y, Clean(x), On(c, x), On(c, y)
      PROVE  Parted(x, y)'
  <2>1. c.type = "Move"
    BY <1>1, <1>2, ChangingTyped
  <2>2. p # q /\ Rows(p) = {r} /\ There(p) = {} /\ ~Exists(p)
    BY <1>2, <2>1, MovePlaced
  <2>3. ~Exists(p)' /\ There(p)' = {}
    BY <2>2, Recording
  <2>4. Rows(p)' = {}
    BY <2>1, <2>2, RecordMove
  <2>5. x = p \/ y = p
    BY <1>2 DEF On
  <2> QED
    BY <2>3, <2>4, <2>5 DEF Parted
<1> QED
  BY <1>1, <1>2, EndTies

LEMMA RecordApartOf ==
  ASSUME TypeInv, TypeInv', Stories, Apart, NEW c, Records(c),
         \A w \in Changing : OwnRow(w)',
         \A o \in DOMAIN db'.files : OwnFile(o)' /\ OwnLink(o)'
  PROVE  Apart'
<1>1. /\ fate' = fate /\ disk' = disk /\ Up /\ status' = status /\ TiesKept
      /\ \A w \in Work' : w \in Work
      /\ \A w \in Changing' : w \in Changing
      /\ \A x : There(x)' = There(x)
  BY Recording, RecordTies
<1>2. (\A w \in Changing : OwnRow(w) /\ OwnCid(w) /\ OwnStat(w))'
  <2>1. \A w \in Changing : OwnCid(w)' /\ OwnStat(w)'
    BY <1>1, OwnCidStays, OwnStatStays DEF Apart
  <2> QED
    BY <1>1, <2>1
<1>3. (\A o \in DOMAIN db.files : OwnFile(o) /\ OwnLink(o))'
  OBVIOUS
<1>4. OneFile'
  BY <1>1 DEF Apart, OneFile, Exists, NoFile
<1>5. Down' /\ AbortsOnlyOnRaces'
  BY <1>1, UpStays, StatusStays
<1> QED
  BY <1>1, <1>2, <1>3, <1>4, <1>5, ApartOf

LEMMA OwnInode ==
  ASSUME TypeInv, Apart, NEW p \in Path, Exists(p)
  PROVE  /\ StatOf(p).inode = disk[p].inode /\ StatOf(p).inode > 0
         /\ \A y \in Path : StatOf(p).inode = disk[y].inode => y = p
<1>1. OneFile
  BY DEF Apart
<1>2. StatOf(p).inode = disk[p].inode /\ disk[p].inode > 0
  BY DEF StatOf, TypeInv, DiskTyped
<1> QED
  BY <1>1, <1>2 DEF OneFile

(* Rows that stay at their paths, or go. *)
LEMMA RecordOwnRows ==
  ASSUME TypeInv, TypeInv', Stories, Apart, NEW c, Records(c),
         \A x \in Path : Clean(x) => Rows(x)' \subseteq Rows(x)
  PROVE  \A w \in Changing : OwnRow(w)'
BY Recording, OwnRowStays DEF Apart

LEMMA RecordNewApart ==
  ASSUME TypeInv, TypeInv', Stories, Apart, NEW c, Records(c), c.type = "New"
  PROVE  Apart'
<1> PICK p, n, m : p = c.path /\ n = NewId(db) /\ m = c.cid
  OBVIOUS
<1>1. /\ c \in Changing /\ p \in Path /\ On(c, p) /\ c.by = "cloud" /\ c.stage = "placed" /\ c \in RunsOn(p)
      /\ \A y \in Path : On(c, y) => y = p
  <2>1. c \in Changing /\ p \in Path /\ \A x : On(c, x) => c \in RunsOn(x)
    BY Recording
  <2>2. On(c, p) /\ \A y \in Path : On(c, y) => y = p
    BY <2>1, ChangingTyped
  <2> QED
    BY <2>1, <2>2 DEF Records
<1>2. /\ n \notin DOMAIN db.files /\ DOMAIN db'.files = DOMAIN db.files \cup {n}
      /\ Rows(p)' = Rows(p) \cup {n} /\ (\A x : x # p => Rows(x)' = Rows(x))
      /\ PathOf(n)' = p /\ Stat(n)' = StatOf(p) /\ Linked(n)' /\ LinkId(n)' = m
      /\ \A r \in DOMAIN db.files : Stat(r)' = Stat(r) /\ PathOf(r)' = PathOf(r)
      /\ \A r : r # n => (Linked(r)' <=> Linked(r)) /\ (Linked(r) => LinkId(r)' = LinkId(r))
  BY RecordNew
<1>3. /\ disk' = disk /\ fate' = fate /\ \A x : There(x)' = There(x) /\ (Exists(x)' <=> Exists(x))
      /\ TiesKept
  BY Recording, RecordTies
<1>4. \A w \in Changing : OwnRow(w)'
  <2> TAKE w \in Changing
  <2>1. w.gid # n
    BY NewIdNew
  <2>2. \A x \in Path : Clean(x)' /\ w.gid \in Rows(x)' => Clean(x) /\ w.gid \in Rows(x)
    BY <1>2, <1>3, <2>1 DEF Clean
  <2> QED
    BY <2>2 DEF Apart, OwnRow, On
<1>5. OwnFile(n)'
  <2>1. ASSUME Clean(p) PROVE StatOf(p).inode > 0
    <3>1. Alone(p)
      BY <1>1, <2>1, OtherTold
    <3>2. CloudNew(c, p)
      BY <1>1, <3>1, CloudRun DEF CloudUpdate, CloudDelete
    <3>3. Exists(p)
      BY <1>1, <3>2 DEF CloudNew
    <3> QED
      BY <1>1, <3>3, OwnInode
  <2>2. ASSUME NEW y \in Path, Exists(y), StatOf(p).inode = disk[y].inode PROVE p = y
    BY <1>1, <2>2, StatIsStamp DEF Apart, OneFile
  <2>3. \A y \in Path : Exists(y)' /\ StatOf(p).inode = disk'[y].inode => Near(p, y)'
    BY <1>3, <2>2 DEF Near
  <2> QED
    BY <1>2, <1>3, <2>1, <2>3 DEF OwnFile, Clean
<1>6. OwnLink(n)'
  <2>1. \A y \in Path : Clean(y) /\ m \in There(y) => p = y
    BY <1>1 DEF Apart, OwnCid
  <2> QED
    BY <1>2, <1>3, <2>1 DEF OwnLink, Clean, Near
<1>7. \A o \in DOMAIN db'.files : OwnFile(o)' /\ OwnLink(o)'
  <2> TAKE o \in DOMAIN db'.files
  <2>1. CASE o = n
    BY <1>5, <1>6, <2>1
  <2>2. CASE o # n
    <3>1. o \in DOMAIN db.files
      BY <1>2, <2>2
    <3> QED
      BY <1>2, <1>3, <2>2, <3>1, FileTied, LinkTied
  <2> QED
    BY <2>1, <2>2
<1> QED
  BY <1>4, <1>7, RecordApartOf

LEMMA RecordUpdateApart ==
  ASSUME TypeInv, TypeInv', Stories, Apart, NEW c, Records(c), c.type = "Update"
  PROVE  Apart'
<1> PICK p, r : p = c.path /\ r = c.gid
  OBVIOUS
<1>1. /\ c \in Changing /\ p \in Path /\ On(c, p) /\ c.by = "cloud" /\ c.stage = "placed" /\ c \in RunsOn(p)
      /\ \A y \in Path : On(c, y) => y = p
  <2>1. c \in Changing /\ p \in Path /\ \A x : On(c, x) => c \in RunsOn(x)
    BY Recording
  <2>2. On(c, p) /\ \A y \in Path : On(c, y) => y = p
    BY <2>1, ChangingTyped
  <2> QED
    BY <2>1, <2>2 DEF Records
<1>2. /\ DOMAIN db'.files = DOMAIN db.files /\ (\A x : Rows(x)' = Rows(x))
      /\ \A o \in DOMAIN db.files :
           PathOf(o)' = PathOf(o) /\ Stat(o)' = IF o = r THEN StatOf(p) ELSE Stat(o)
      /\ \A o : (Linked(o)' <=> Linked(o)) /\ LinkId(o)' = LinkId(o)
  BY RecordUpdate
<1>3. /\ disk' = disk /\ fate' = fate /\ \A x : There(x)' = There(x) /\ (Exists(x)' <=> Exists(x))
      /\ TiesKept
  BY Recording, RecordTies
<1>4. \A w \in Changing : OwnRow(w)'
  BY <1>2, RecordOwnRows
<1>5. ASSUME r \in DOMAIN db.files PROVE OwnFile(r)'
  <2> PICK x : x = PathOf(r)
    OBVIOUS
  <2>1. x \in Path /\ r \in Rows(x) /\ PathOf(r)' = x /\ Stat(r)' = StatOf(p)
    BY <1>2, <1>5, RowsKnown
  <2>2. ASSUME Clean(p) PROVE x = p /\ Exists(p)
    <3>1. Alone(p)
      BY <1>1, <2>2, OtherTold
    <3>2. CloudUpdate(c, p)
      BY <1>1, <3>1, CloudRun DEF CloudNew, CloudDelete
    <3>3. Exists(p) /\ Rows(p) = {r}
      BY <3>2 DEF CloudUpdate, Everywhere
    <3> QED
      BY <2>1, <3>3, RowsKnown
  <2>3. ASSUME Clean(x) PROVE x = p
    BY <1>1, <2>1, <2>3 DEF Apart, OwnRow
  <2>4. Clean(x) => StatOf(p).inode > 0
    BY <1>1, <2>2, <2>3, OwnInode
  <2>5. ASSUME NEW y \in Path, Exists(y), StatOf(p).inode = disk[y].inode, Clean(x) \/ Clean(y) PROVE x = y
    <3>1. y = p
      BY <1>1, <2>5, StatIsStamp DEF Apart, OneFile
    <3> QED
      BY <2>2, <2>3, <2>5, <3>1
  <2>6. \A y \in Path : Exists(y)' /\ StatOf(p).inode = disk'[y].inode /\ (Clean(x) \/ Clean(y)) => Near(x, y)'
    BY <1>3, <2>5 DEF Near
  <2> QED
    BY <1>3, <2>1, <2>4, <2>6 DEF OwnFile, Clean
<1>6. \A o \in DOMAIN db'.files : OwnFile(o)' /\ OwnLink(o)'
  <2> TAKE o \in DOMAIN db'.files
  <2>1. OwnLink(o)'
    BY <1>2, <1>3, LinkTied
  <2>2. CASE o = r
    BY <1>2, <1>5, <2>1, <2>2
  <2>3. CASE o # r
    BY <1>2, <1>3, <2>1, <2>3, FileTied
  <2> QED
    BY <2>2, <2>3
<1> QED
  BY <1>4, <1>6, RecordApartOf

LEMMA RecordDeleteApart ==
  ASSUME TypeInv, TypeInv', Stories, Apart, NEW c, Records(c), c.type = "Delete"
  PROVE  Apart'
<1> PICK r : r = c.gid
  OBVIOUS
<1>1. /\ DOMAIN db'.files = DOMAIN db.files \ {r} /\ (\A x : Rows(x)' = Rows(x) \ {r})
      /\ \A o \in DOMAIN db'.files : Stat(o)' = Stat(o) /\ PathOf(o)' = PathOf(o)
      /\ \A o : Linked(o)' => Linked(o) /\ LinkId(o)' = LinkId(o)
  BY RecordDelete
<1>2. disk' = disk /\ fate' = fate /\ (\A x : There(x)' = There(x)) /\ TiesKept
  BY Recording, RecordTies
<1>3. \A w \in Changing : OwnRow(w)'
  BY <1>1, RecordOwnRows
<1>4. \A o \in DOMAIN db'.files : OwnFile(o)' /\ OwnLink(o)'
  BY <1>1, <1>2, FileTied, LinkTied
<1> QED
  BY <1>3, <1>4, RecordApartOf

LEMMA RecordMoveApart ==
  ASSUME TypeInv, TypeInv', Stories, Apart, NEW c, Records(c), c.type = "Move"
  PROVE  Apart'
<1> PICK p, q, r : p = c.path /\ q = c.to /\ r = c.gid
  OBVIOUS
<1>1. c \in Changing /\ c \in Work /\ p \in Path /\ q \in Path /\ On(c, p) /\ On(c, q)
  BY Recording DEF On
<1>2. /\ DOMAIN db'.files = DOMAIN db.files
      /\ \A x : x # q => Rows(x)' = Rows(x) \ {r}
      /\ Rows(q)' = Rows(q) \cup ({r} \cap DOMAIN db.files)
      /\ \A o \in DOMAIN db.files :
           Stat(o)' = Stat(o) /\ PathOf(o)' = IF o = r THEN q ELSE PathOf(o)
      /\ \A o : (Linked(o)' <=> Linked(o)) /\ LinkId(o)' = LinkId(o)
  BY RecordMove
<1>3. /\ disk' = disk /\ fate' = fate /\ \A x : There(x)' = There(x) /\ (Exists(x)' <=> Exists(x))
      /\ TiesKept
  BY Recording, RecordTies
<1>4. ASSUME NEW x \in Path, Clean(x), On(c, x)
      PROVE  /\ p # q /\ Clean(p) /\ Clean(q) /\ CloudMoving(c, p, q) /\ Rows(p) = {r} /\ There(p) = {}
             /\ Exists(q) /\ Agreed(r, q)
  BY <1>1, <1>4, MovePlaced
<1>5. \A w \in Changing : OwnRow(w)'
  <2> TAKE w \in Changing
  <2> SUFFICES ASSUME NEW x \in Path, Clean(x), w.gid \in Rows(x)' PROVE On(w, x)
    BY <1>3 DEF OwnRow, On, Clean
  <2>1. CASE w.gid \in Rows(x)
    BY <2>1 DEF Apart, OwnRow
  <2>2. CASE w.gid \notin Rows(x)
    <3>1. x = q /\ w.gid = r
      BY <1>2, <2>2
    <3>2. Clean(p) /\ CloudMoving(c, p, q) /\ w.gid \in Rows(p)
      BY <1>1, <1>4, <3>1
    <3>3. On(w, p)
      BY <1>1, <3>2 DEF Apart, OwnRow
    <3>4. w \in WorkHere(p)
      BY <3>3, WorkIs, WorkNext
    <3>5. w.to = q
      BY <1>1, <3>2, <3>4, MovingWork DEF Moving
    <3> QED
      BY <3>1, <3>5 DEF On
  <2> QED
    BY <2>1, <2>2
<1>6. ASSUME r \in DOMAIN db.files PROVE OwnFile(r)' /\ OwnLink(r)'
  <2> PICK x : x = PathOf(r)
    OBVIOUS
  <2>1. x \in Path /\ r \in Rows(x) /\ PathOf(r)' = q /\ Stat(r)' = Stat(r) /\ OwnFile(r) /\ OwnLink(r)
    BY <1>2, <1>6, RowsKnown DEF Apart
  <2>2. ASSUME Clean(q)
        PROVE  /\ Stat(r).inode > 0
               /\ \A y \in Path : Stat(r).inode = disk[y].inode => y = q
    <3>1. Exists(q) /\ Stat(r) = StatOf(q)
      BY <1>1, <1>4, <2>2 DEF Agreed
    <3> QED
      BY <1>1, <3>1, OwnInode
  <2>3. ASSUME NEW y \in Path, Near(x, y), Clean(x) \/ Clean(y) PROVE Clean(q) /\ On(c, y)
    <3>1. On(c, y) /\ Clean(x) /\ On(c, x)
      BY <1>1, <1>6, <2>3, RowTies
    <3> QED
      BY <1>4, <2>1, <3>1
  <2>4. ASSUME NEW y \in Path, Exists(y), Stat(r).inode = disk[y].inode, Clean(q) \/ Clean(y)
        PROVE  q = y
    <3>1. CASE Clean(q)
      BY <2>2, <2>4, <3>1
    <3>2. CASE Clean(y)
      <4>1. Near(x, y)
        BY <2>1, <2>4, <3>2 DEF OwnFile
      <4>2. Clean(q)
        BY <2>3, <3>2, <4>1
      <4> QED
        BY <2>2, <2>4, <4>2
    <3> QED
      BY <2>4, <3>1, <3>2
  <2>5. OwnFile(r)'
    <3>1. \A y \in Path : Exists(y)' /\ Stat(r).inode = disk'[y].inode /\ (Clean(q) \/ Clean(y)) => Near(q, y)'
      BY <1>3, <2>4 DEF Near
    <3> QED
      BY <1>3, <2>1, <2>2, <3>1 DEF OwnFile, Clean
  <2>6. ASSUME NEW y \in Path, Clean(y), Linked(r), LinkId(r) \in There(y) PROVE q = y
    <3>1. Near(x, y)
      BY <2>1, <2>6 DEF OwnLink
    <3>2. On(c, y) /\ y \in {p, q}
      BY <2>3, <2>6, <3>1 DEF On
    <3>3. There(p) = {}
      BY <1>4, <2>6, <3>2
    <3> QED
      BY <2>6, <3>2, <3>3
  <2>7. OwnLink(r)'
    <3>1. \A y \in Path : Clean(y) /\ Linked(r) /\ LinkId(r) \in There(y) => Near(q, y)'
      BY <2>6 DEF Near
    <3> QED
      BY <1>2, <1>3, <2>1, <3>1 DEF OwnLink, Clean
  <2> QED
    BY <2>5, <2>7
<1>7. \A o \in DOMAIN db'.files : OwnFile(o)' /\ OwnLink(o)'
  <2> TAKE o \in DOMAIN db'.files
  <2>1. CASE o # r
    BY <1>2, <1>3, <2>1, FileTied, LinkTied
  <2>2. CASE o = r
    BY <1>2, <1>6, <2>2
  <2> QED
    BY <2>1, <2>2
<1> QED
  BY <1>5, <1>7, RecordApartOf

LEMMA RecordOk ==
  ASSUME TypeInv, TypeInv', Stories, Apart, NEW c, Record(c)
  PROVE  Stories' /\ Apart'
<1>1. Records(c) /\ c.type \in {"New", "Update", "Move", "Delete"}
  BY RecordsIt, Recording
<1>2. Apart'
  BY <1>1, RecordNewApart, RecordUpdateApart, RecordMoveApart, RecordDeleteApart
<1> QED
  BY <1>1, <1>2, RecordStories

(* The file that was put in place has gone only if somebody was in the way.  *)
LEMMA RecordThrowsOk ==
  ASSUME TypeInv, Stories, NEW c, RecordThrows(c)
  PROVE  Target(c) \in Path /\ ~Clean(Target(c))
<1> PICK x : x = Target(c)
  OBVIOUS
<1>1. c \in running /\ c.stage = "placed" /\ c.type # "Delete" /\ ~Exists(x)
  BY DEF RecordThrows
<1>2. c.by = "cloud" /\ c \in Changing
  BY <1>1 DEF TypeInv, RunsTyped, Runs, Local, Changing
<1>3. x \in Path /\ On(c, x) /\ c \in RunsOn(x)
  BY <1>1, <1>2, ChangingTyped DEF Target, On, RunsOn
<1>4. ASSUME Clean(x) PROVE FALSE
  <2>1. CASE c.type = "Move"
    <3>1. \/ UserMoving(c, c.path, c.to)
          \/ CloudMoving(c, c.path, c.to)
      BY <1>2, <1>3, <1>4, <2>1, MoveTold
    <3>2. x = c.to
      BY <2>1 DEF Target
    <3>3. Exists(x)
      BY <1>1, <1>2, <3>1, <3>2 DEF UserMoving, CloudMoving
    <3> QED
      BY <1>1, <3>3
  <2>2. CASE c.type # "Move"
    <3>1. Alone(x)
      BY <1>2, <1>3, <1>4, <2>2, OtherTold
    <3>2. \/ CloudNew(c, x)
          \/ CloudUpdate(c, x)
      BY <1>1, <1>2, <1>3, <3>1, CloudRun DEF CloudDelete
    <3>3. Exists(x)
      BY <1>1, <3>2 DEF CloudNew, CloudUpdate
    <3> QED
      BY <1>1, <3>3
  <2> QED
    BY <2>1, <2>2
<1> QED
  BY <1>3, <1>4

(* A file that was created, or moved, has gone only if a user was quick.     *)
LEMMA GoneOk ==
  ASSUME TypeInv, Stories, NEW e, e \in Queued, NEW x,
         \/ e.type = "create" /\ x = e.path /\ ~Exists(x)
         \/ e.type = "rename" /\ e.path \in Path /\ e.to \in Path /\ x = e.to /\ ~Exists(x)
  PROVE  x \in Path /\ ~Clean(x)
<1>1. e \in Event /\ ProperEvent(e)
  BY EventTyped
<1>2. Tmp \notin Path /\ NoTo \notin Path
  BY LocalEventsAssumption DEF NoTo
<1>3. CASE e.type = "create" /\ x = e.path /\ ~Exists(x)
  <2>1. x \in Path /\ e.to = NoTo
    BY <1>1, <1>3 DEF Event, ProperEvent
  <2>2. ASSUME Clean(x) PROVE FALSE
    <3>1. Told(x) /\ e \in EventsOn(x)
      BY <1>3, <2>1, <2>2 DEF Stories, EventsOn, On
    <3>2. Alone(x)
      BY <1>2, <2>1, <3>1, EventAlone
    <3>3. e \notin Edits(x) /\ e # Destroyed(x) /\ e # Placed(x) /\ e \notin Removals(x)
      BY <1>3, Told1, <2>1
    <3>4. Creating(x)
      BY <2>1, <3>1, <3>2, <3>3, AloneEvent
    <3> QED
      BY <1>3, <3>4 DEF Creating
  <2> QED
    BY <2>1, <2>2
<1>4. CASE e.type = "rename" /\ e.path \in Path /\ e.to \in Path /\ x = e.to /\ ~Exists(x)
  <2>1. ASSUME Clean(x) PROVE FALSE
    <3>1. Told(x) /\ e \in EventsOn(x) /\ e \in WorkHere(x)
      BY <1>4, <2>1 DEF Stories, EventsOn, On, WorkHere
    <3>2. CASE Alone(x)
      <4>1. e \notin Creations(x) /\ e \notin Edits(x) /\ e # Destroyed(x) /\ e # Placed(x) /\ e \notin Removals(x)
        BY <1>2, <1>4, Told1
      <4> QED
        BY <1>4, <3>1, <3>2, <4>1, AloneEvent
    <3>3. CASE InPair(x)
      <4>1. PICK w \in WorkHere(x), y \in Path : Pair(w, x, y)
        BY <3>3 DEF InPair
      <4>2. x # y /\ (Moving(w, x, y) \/ Moving(w, y, x))
        BY <4>1 DEF Pair
      <4>3. ~Moving(w, x, y)
        BY <1>4, <3>1, <4>2, MovingWork
      <4>4. Moving(w, y, x)
        BY <4>2, <4>3
      <4>5. Exists(x)
        BY <3>1, <4>4 DEF Moving, UserMoving, CloudMoving, CloudMoved, OnlyInLine
      <4> QED
        BY <1>4, <4>5
    <3> QED
      BY <3>1, <3>2, <3>3 DEF Told
  <2> QED
    BY <1>4, <2>1
<1> QED
  BY <1>3, <1>4

-----------------------------------------------------------------------------
(* A path that nothing is at work on is in one of two stories.               *)
LEMMA IdleTold ==
  ASSUME TypeInv, NEW p \in Path, Told(p), WorkHere(p) = {}
  PROVE  /\ EventsOn(p) = {} /\ LineOn(p) = {} /\ RunsOn(p) = {} /\ ~Awaits(p)
         /\ \/ ~Exists(p) /\ Nowhere(p)
            \/ Exists(p) /\ \E r \in Rows(p) : Everywhere(p, r) /\ Agreed(r, p)
<1>1. EventsOn(p) = {} /\ LineOn(p) = {} /\ RunsOn(p) = {}
  BY DEF WorkHere
<1>2. Absent(p) \/ Creating(p) \/ \E r \in Rows(p) : Kept(p, r)
  BY DEF Told, InPair, Alone
<1>3. ~Creating(p)
  BY <1>1 DEF Creating, CreationSeen
<1>4. CASE Absent(p)
  BY <1>1, <1>4 DEF Absent, DestroyAwaited
<1>5. ASSUME NEW r \in Rows(p), Kept(p, r)
      PROVE  /\ EventsOn(p) = {} /\ LineOn(p) = {} /\ RunsOn(p) = {} /\ ~Awaits(p)
             /\ Exists(p) /\ Everywhere(p, r) /\ Agreed(r, p)
  <2>1. KeptRow(p, r) /\ KeptRuns(p, r) /\ KeptFlow(p, r)
    BY <1>5 DEF Kept
  <2>2. Exists(p) /\ Rows(p) = {r} /\ Dated(Stat(r), p) /\ ~Awaits(p)
    BY <1>1, <2>1 DEF KeptRow, DestroyAwaited
  <2>3. Everywhere(p, r)
    BY <1>1, <2>1, <2>2 DEF KeptRuns, Everywhere
  <2>4. Stat(r).hash = disk[p].hash /\ HashAt(LinkId(r)) = disk[p].hash
    BY <1>1, <2>1 DEF KeptFlow
  <2>5. Agreed(r, p)
    BY <2>2, <2>3, <2>4 DEF Agreed, Everywhere, Dated
  <2> QED
    BY <1>1, <2>2, <2>3, <2>5
<1> QED
  BY <1>2, <1>3, <1>4, <1>5

LEMMA IdleStays ==
  ASSUME TypeInv', NEW p \in Path, SameFile(p), SameRows(p), SameThere(p),
         \/ ~Exists(p) /\ Nowhere(p)
         \/ Exists(p) /\ \E r \in Rows(p) : Everywhere(p, r) /\ Agreed(r, p),
         (/\ EventsOn(p) = {} /\ LineOn(p) = {} /\ RunsOn(p) = {}
          /\ ~Awaits(p) /\ ~Earlier(Destroyed(p), Destroyed(p)))'
  PROVE  Told(p)'
<1>1. (Exists(p)' <=> Exists(p)) /\ StatOf(p)' = StatOf(p) /\ disk'[p] = disk[p]
  BY SameExists
<1>2. CASE ~Exists(p) /\ Nowhere(p)
  <2>1. Nowhere(p)'
    BY <1>2 DEF Nowhere, SameRows, SameThere
  <2>2. Absent(p)'
    BY <1>1, <1>2, <2>1, IdleAbsent
  <2> QED
    BY <2>2 DEF Told, Alone
<1>3. ASSUME Exists(p), NEW r \in Rows(p), Everywhere(p, r), Agreed(r, p) PROVE Told(p)'
  <2>1. Everywhere(p, r)' /\ LinkId(r)' = LinkId(r) /\ Stat(r)' = Stat(r)
    BY <1>3, EverywhereStays
  <2>2. HashAt(LinkId(r))' = HashAt(LinkId(r))
    <3> PICK n : n = LinkId(r)
      OBVIOUS
    <3>1. HashAt(n)' = HashAt(n)
      BY <1>3 DEF SameThere, Everywhere
    <3> QED
      BY <2>1, <3>1
  <2>3. Agreed(r, p)'
    BY <1>1, <1>3, <2>1, <2>2 DEF Agreed, Everywhere
  <2>4. (disk[p].hash \in Nat)'
    BY DEF TypeInv, DiskTyped, File
  <2>5. Kept(p, r)'
    BY <1>1, <1>3, <2>1, <2>3, <2>4, IdleKept
  <2>6. r \in Rows(p)'
    BY <2>1 DEF Everywhere
  <2> QED
    BY <2>5, <2>6 DEF Told, Alone
<1> QED
  BY <1>2, <1>3

-----------------------------------------------------------------------------
(* The process ends. *)
LEMMA Ending0 ==
  ASSUME TypeInv, NEW how, Ends(how)
  PROVE  /\ Up /\ status' = how /\ Work' = {} /\ Changing' = {} /\ UNCHANGED <<disk, beside, db, remote>>
         /\ \A p : /\ EventsOn(p)' = {} /\ LineOn(p)' = {} /\ RunsOn(p)' = {} /\ ~Awaits(p)'
                   /\ SameFile(p) /\ SameRows(p) /\ SameThere(p)
         /\ \A v, w : ~Earlier(v, w)'
         /\ expected' = NothingExpected
         /\ \A p \in Path : fate[p] \subseteq fate'[p] /\ (Clean(p)' => Clean(p) /\ (p = how \/ WorkHere(p) = {}))
<1>1. /\ Up /\ status' = how /\ UNCHANGED <<disk, beside, db, remote>> /\ expected' = NothingExpected
      /\ notices' = <<>> /\ events' = <<>> /\ seen' = <<>> /\ out' = <<>> /\ changes' = <<>> /\ running' = {}
      /\ fate' = [p \in Path |-> fate[p] \cup (IF p # how /\ WorkOn(p) # {} THEN {"lost"} ELSE {})]
  BY DEF Ends, fsVars
<1>2. Queued' = {} /\ Pending' = {}
  <2>1. Queued' = Range(events') \cup Range(notices') /\ Pending' = Range(changes') \cup Range(out') \cup Range(seen')
    BY DEF Queued, Pending
  <2> QED
    BY <1>1, <2>1, Single
<1>3. Work' = {} /\ Changing' = {}
  BY <1>1, <1>2, WorkNext
<1>4. \A p : /\ EventsOn(p)' = {} /\ LineOn(p)' = {} /\ RunsOn(p)' = {} /\ ~Awaits(p)'
  BY <1>1, <1>2 DEF EventsOn, LineOn, RunsOn, Awaits, NothingExpected
<1>5. \A p : SameFile(p) /\ SameRows(p) /\ SameThere(p)
  BY <1>1, Untouched DEF fsVars
<1>6. \A v, w : ~Earlier(v, w)'
  <2> TAKE v, w
  <2>1. events' \o notices' = <<>>
    BY <1>1
  <2>2. Earlier(v, w)' <=> Before(events' \o notices', v, w)
    BY DEF Earlier
  <2> QED
    BY <2>1, <2>2, Single
<1>7. ASSUME NEW p \in Path
      PROVE  fate[p] \subseteq fate'[p] /\ (Clean(p)' => Clean(p) /\ (p = how \/ WorkHere(p) = {}))
  <2>1. fate'[p] = fate[p] \cup (IF p # how /\ WorkOn(p) # {} THEN {"lost"} ELSE {})
    BY <1>1
  <2> QED
    BY <2>1, WorkIs DEF Clean
<1> QED
  BY <1>1, <1>3, <1>4, <1>5, <1>6, <1>7

LEMMA EndsOk ==
  ASSUME TypeInv, TypeInv', Stories, Apart, NEW how, Ends(how), how \in Path => ~Clean(how)
  PROVE  Stories' /\ Apart'
<1>1. /\ Up /\ status' = how /\ Work' = {} /\ Changing' = {} /\ UNCHANGED <<disk, beside, db, remote>>
      /\ \A p : /\ EventsOn(p)' = {} /\ LineOn(p)' = {} /\ RunsOn(p)' = {} /\ ~Awaits(p)'
                /\ SameFile(p) /\ SameRows(p) /\ SameThere(p)
      /\ \A v, w : ~Earlier(v, w)'
      /\ expected' = NothingExpected
      /\ \A p \in Path : fate[p] \subseteq fate'[p] /\ (Clean(p)' => Clean(p) /\ (p = how \/ WorkHere(p) = {}))
  BY Ending0
<1>2. \A p \in Path : Clean(p)' => Clean(p) /\ WorkHere(p) = {}
  BY <1>1
<1>3. Stories'
  <2> SUFFICES ASSUME NEW p \in Path, Clean(p)' PROVE Told(p)'
    BY DEF Stories
  <2>1. Told(p) /\ WorkHere(p) = {}
    BY <1>2 DEF Stories
  <2>2. \/ ~Exists(p) /\ Nowhere(p)
        \/ Exists(p) /\ \E r \in Rows(p) : Everywhere(p, r) /\ Agreed(r, p)
    BY <2>1, IdleTold
  <2> QED
    BY <1>1, <2>2, IdleStays
<1>4. \A x, y \in Path : Near(x, y) /\ (Clean(x)' \/ Clean(y)') => x = y
  <2> TAKE x, y \in Path
  <2> HAVE Near(x, y) /\ (Clean(x)' \/ Clean(y)')
  <2>1. WorkHere(x) = {} \/ WorkHere(y) = {}
    BY <1>2
  <2> QED
    BY <2>1, WorkIs DEF Near
<1>5. (\A r \in DOMAIN db.files : OwnFile(r) /\ OwnLink(r))'
  <2> SUFFICES ASSUME NEW r \in DOMAIN db'.files PROVE OwnFile(r)' /\ OwnLink(r)'
    OBVIOUS
  <2> PICK x : x = PathOf(r)
    OBVIOUS
  <2>1. r \in DOMAIN db.files /\ PathOf(r)' = x /\ Stat(r)' = Stat(r) /\ (Linked(r)' <=> Linked(r)) /\ LinkId(r)' = LinkId(r)
    BY <1>1 DEF PathOf, Stat, Linked, LinkId, Link
  <2>2. x \in Path /\ OwnFile(r) /\ OwnLink(r)
    BY <2>1, RowsKnown DEF Apart
  <2>3. \A y \in Path : (Exists(y)' <=> Exists(y)) /\ disk'[y] = disk[y] /\ There(y)' = There(y)
    BY <1>1, SameExists DEF SameThere
  <2>4. OwnFile(r)'
    BY <1>2, <1>4, <2>1, <2>2, <2>3 DEF OwnFile, Near
  <2>5. OwnLink(r)'
    BY <1>2, <1>4, <2>1, <2>2, <2>3 DEF OwnLink, Near
  <2> QED
    BY <2>4, <2>5
<1>6. OneFile'
  BY <1>1 DEF Apart, OneFile, Exists, NoFile
<1>7. Down'
  BY <1>1 DEF Down
<1>8. AbortsOnlyOnRaces'
  BY <1>1 DEF AbortsOnlyOnRaces, Clean
<1> QED
  BY <1>1, <1>3, <1>5, <1>6, <1>7, <1>8 DEF Apart

LEMMA HandleGoneOk ==
  ASSUME TypeInv, TypeInv', Stories, Apart, HandleGone
  PROVE  Stories' /\ Apart'
<1> PICK e : e = Head(events)
  OBVIOUS
<1>1. events # <<>>
  BY DEF HandleGone
<1>2. e \in Queued
  BY <1>1, Shorter DEF TypeInv, EventsTyped, Queued
<1>3. PICK x : /\ Ends(x)
               /\ \/ e.type = "create" /\ x = e.path /\ ~Exists(x)
                  \/ e.type = "rename" /\ e.path \in Path /\ e.to \in Path /\ x = e.to /\ ~Exists(x)
  BY DEF HandleGone, CreatedGone, Abort
<1>4. ~Clean(x)
  BY <1>2, <1>3, GoneOk
<1> QED
  BY <1>3, <1>4, EndsOk

(* Every way in which the daemon ends. *)
LEMMA StopsOk ==
  ASSUME TypeInv, TypeInv', Stories, Apart,
         \/ Die
         \/ \E k \in DOMAIN changes : LocalCallbackThrows(k) \/ PlaceMoveThrows(k)
         \/ \E c \in running : RequestThrows(c) \/ RecordThrows(c)
  PROVE  Stories' /\ Apart'
<1>1. CASE Die
  <2>1. "killed" \notin Path /\ Ends("killed")
    BY <1>1, LocalEventsAssumption DEF Die
  <2> QED
    BY <2>1, EndsOk
<1>2. ASSUME NEW k \in DOMAIN changes, LocalCallbackThrows(k) PROVE Stories' /\ Apart'
  <2>1. Ends(changes[k].path) /\ ~Clean(changes[k].path)
    BY <1>2, CallbackThrowsOk DEF LocalCallbackThrows, Abort
  <2> QED
    BY <2>1, EndsOk
<1>3. ASSUME NEW k \in DOMAIN changes, PlaceMoveThrows(k) PROVE Stories' /\ Apart'
  <2>1. Ends(changes[k].path) /\ ~Clean(changes[k].path)
    BY <1>3, PlaceMoveThrowsOk DEF PlaceMoveThrows, Abort
  <2> QED
    BY <2>1, EndsOk
<1>4. ASSUME NEW c \in running, RequestThrows(c) PROVE Stories' /\ Apart'
  <2>1. Ends(c.path) /\ ~Clean(c.path)
    BY <1>4, RequestThrowsOk DEF RequestThrows, Abort
  <2> QED
    BY <2>1, EndsOk
<1>5. ASSUME NEW c \in running, RecordThrows(c) PROVE Stories' /\ Apart'
  <2>1. Ends(Target(c)) /\ ~Clean(Target(c))
    BY <1>5, RecordThrowsOk DEF RecordThrows, Abort
  <2> QED
    BY <2>1, EndsOk
<1> QED
  BY <1>1, <1>2, <1>3, <1>4, <1>5

-----------------------------------------------------------------------------
(* Something befalls paths. *)
LEMMA BefallsIs ==
  ASSUME TypeInv, NEW paths \in SUBSET Path, NEW b \in BOOLEAN, NEW what, Befalls(paths, b, what),
         NEW p \in Path
  PROVE  /\ fate[p] \subseteq fate'[p]
         /\ Clean(p)' <=> /\ Clean(p)
                          /\ p \in paths => what = {} /\ \A x \in paths : Clean(x)
                          /\ b => \A x \in paths : p \notin Together(x)
<1> PICK struck, old : /\ struck = IF b THEN UNION {Together(x) : x \in paths} ELSE {}
                       /\ old = UNION {fate[x] : x \in paths}
  OBVIOUS
<1>1. fate'[p] = fate[p] \cup (IF p \in paths THEN old \cup what ELSE {})
                         \cup (IF p \in struck THEN {"raced"} ELSE {})
  BY DEF Befalls
<1>2. p \in struck <=> b /\ \E x \in paths : p \in Together(x)
  OBVIOUS
<1>3. old = {} <=> \A x \in paths : fate[x] = {}
  OBVIOUS
<1>4. fate'[p] = {} <=> fate[p] = {} /\ (p \in paths => old = {} /\ what = {}) /\ p \notin struck
  BY <1>1
<1> QED
  BY <1>1, <1>2, <1>3, <1>4 DEF Clean

LEMMA TogetherIs ==
  ASSUME NEW p, NEW x
  PROVE  /\ p \in Together(x) <=> p \in Path /\ (p = x \/ \E w \in Work : On(w, p) /\ On(w, x))
         /\ p \in Path => (p \in Together(x) <=> Near(x, p))
<1>1. p \in Together(x) <=> p \in Path /\ (p = x \/ (WorkOn(x) \cap WorkOn(p)) # {})
  BY DEF Together
<1>2. (WorkOn(x) \cap WorkOn(p)) # {} <=> \E w \in Work : On(w, p) /\ On(w, x)
  BY WorkIs
<1> QED
  BY <1>1, <1>2 DEF Near

(* What it is not raced with is at work on these paths alone.                *)
Struck(paths, b, what) ==
  \/ b = TRUE
  \/ \A x \in paths : WorkHere(x) = {}
  \/ what = {} /\ \E x : paths = {x} /\ (Clean(x) => \A y \in Path : Near(x, y) => x = y)

Befell(paths, b, what) ==
  /\ \A p \in Path : fate[p] \subseteq fate'[p] /\ (Clean(p)' => Clean(p))
  /\ \A p \in paths : Clean(p)' => what = {} /\ b # TRUE /\ \A x \in paths : Clean(x) /\ Clean(x)'
  /\ \A p \in Path, x \in paths : b = TRUE /\ Clean(p)' => ~Near(x, p)
  /\ \A x, y \in Path : Near(x, y) => (Clean(x)' <=> Clean(y)')
  /\ \A x \in Path, y \in paths : x \notin paths /\ Clean(x)' => ~Near(y, x)

BefellAt(paths, b, what, p) ==
  /\ fate[p] \subseteq fate'[p]
  /\ Clean(p)' <=> /\ Clean(p)
                   /\ p \in paths => what = {} /\ \A x \in paths : Clean(x)
                   /\ b = TRUE => \A x \in paths : ~Near(x, p)

LEMMA BefallenAt ==
  ASSUME TypeInv, NEW paths \in SUBSET Path, NEW b \in BOOLEAN, NEW what, Befalls(paths, b, what)
  PROVE  \A p \in Path : BefellAt(paths, b, what, p)
<1> TAKE p \in Path
<1>1. /\ fate[p] \subseteq fate'[p]
      /\ Clean(p)' <=> /\ Clean(p)
                       /\ p \in paths => what = {} /\ \A x \in paths : Clean(x)
                       /\ b => \A x \in paths : p \notin Together(x)
  BY BefallsIs
<1>2. \A x \in paths : p \in Together(x) <=> Near(x, p)
  BY TogetherIs
<1>3. CASE b
  BY <1>1, <1>2, <1>3 DEF BefellAt
<1>4. CASE ~b
  BY <1>1, <1>2, <1>4 DEF BefellAt
<1> QED
  BY <1>3, <1>4

LEMMA BefallenHere ==
  ASSUME NEW paths \in SUBSET Path, NEW b, NEW what,
         \A p \in Path : BefellAt(paths, b, what, p)
  PROVE  /\ \A p \in paths : Clean(p)' => what = {} /\ b # TRUE /\ \A x \in paths : Clean(x) /\ Clean(x)'
         /\ \A p \in Path, x \in paths : b = TRUE /\ Clean(p)' => ~Near(x, p)
<1>1. \A x : Near(x, x)
  BY DEF Near
<1>2. \A p \in Path, x \in paths : b = TRUE /\ Clean(p)' => ~Near(x, p)
  BY DEF BefellAt
<1>3. ASSUME NEW p \in paths, Clean(p)'
      PROVE  what = {} /\ b # TRUE /\ \A x \in paths : Clean(x) /\ Clean(x)'
  <2>1. p \in Path /\ Near(p, p)
    BY <1>1
  <2>2. b # TRUE
    BY <1>2, <1>3, <2>1
  <2>3. what = {} /\ \A x \in paths : Clean(x)
    BY <1>3, <2>1 DEF BefellAt
  <2>4. \A x \in paths : Clean(x)'
    BY <2>2, <2>3 DEF BefellAt
  <2> QED
    BY <2>2, <2>3, <2>4
<1> QED
  BY <1>2, <1>3

LEMMA BefallenAway ==
  ASSUME TypeInv, Stories, NEW paths \in SUBSET Path, NEW b \in BOOLEAN, NEW what,
         Struck(paths, b, what), \A p \in Path : BefellAt(paths, b, what, p),
         NEW x \in Path, NEW y \in paths, Near(y, x), Clean(x)'
  PROVE  x \in paths
<1>1. CASE x = y
  BY <1>1
<1>2. CASE x # y
  <2>1. b # TRUE
    BY BefallenHere
  <2>2. WorkHere(y) # {}
    BY <1>2, WorkIs DEF Near
  <2>3. PICK z : paths = {z} /\ (Clean(z) => \A v \in Path : Near(z, v) => z = v)
    BY <2>1, <2>2 DEF Struck
  <2>4. Clean(x)
    BY DEF BefellAt
  <2>5. Clean(y)
    BY <2>4, NearSame, NearSymmetric
  <2> QED
    BY <2>3, <2>5
<1> QED
  BY <1>1, <1>2

LEMMA BefallenNear ==
  ASSUME TypeInv, Stories, NEW paths \in SUBSET Path, NEW b \in BOOLEAN, NEW what,
         Struck(paths, b, what), \A p \in Path : BefellAt(paths, b, what, p),
         NEW x \in Path, NEW y \in Path, Near(x, y), Clean(x)'
  PROVE  Clean(y)'
<1>1. Clean(x)
  BY DEF BefellAt
<1>2. Clean(y) /\ Near(y, x)
  BY <1>1, NearSame, NearSymmetric
<1>3. CASE y \in paths
  <2>1. x \in paths
    BY <1>2, <1>3, BefallenAway
  <2> QED
    BY <1>3, <2>1, BefallenHere
<1>4. CASE y \notin paths
  <2>1. ASSUME b = TRUE, NEW z \in paths, Near(z, y) PROVE FALSE
    <3>1. z \in Path
      OBVIOUS
    <3>2. Near(z, x)
      BY <1>1, <1>2, <2>1, <3>1, NearThen
    <3> QED
      BY <2>1, <3>2, BefallenHere
  <2> QED
    BY <1>2, <1>4, <2>1 DEF BefellAt
<1> QED
  BY <1>3, <1>4

LEMMA WhatBefell ==
  ASSUME TypeInv, Stories, NEW paths \in SUBSET Path, NEW b \in BOOLEAN, NEW what,
         Befalls(paths, b, what), Struck(paths, b, what)
  PROVE  Befell(paths, b, what)
<1>1. \A p \in Path : BefellAt(paths, b, what, p)
  BY BefallenAt
<1>2. \A x, y \in Path : Near(x, y) => (Clean(x)' <=> Clean(y)')
  BY <1>1, BefallenNear, NearSymmetric
<1>3. \A x \in Path, y \in paths : x \notin paths /\ Clean(x)' => ~Near(y, x)
  BY <1>1, BefallenAway
<1>4. \A p \in Path : fate[p] \subseteq fate'[p] /\ (Clean(p)' => Clean(p))
  BY <1>1 DEF BefellAt
<1>5. /\ \A p \in paths : Clean(p)' => what = {} /\ b # TRUE /\ \A x \in paths : Clean(x) /\ Clean(x)'
      /\ \A p \in Path, x \in paths : b = TRUE /\ Clean(p)' => ~Near(x, p)
  BY <1>1, BefallenHere
<1>6. Befell(paths, b, what)
  BY <1>2, <1>3, <1>4, <1>5 DEF Befell
<1> QED
  BY <1>6

(* The paths that it does not befall go on as they did.                      *)
LEMMA Unbefallen ==
  ASSUME TypeInv, Stories, NEW paths \in SUBSET Path, NEW b \in BOOLEAN, NEW what,
         Befell(paths, b, what),
         \A x \in Path : x \notin paths /\ Clean(x)' => Same(x),
         NEW p \in Path, p \notin paths, Clean(p)'
  PROVE  Told(p)'
<1>1. /\ \A x \in Path : Clean(x)' => Clean(x)
      /\ \A x, y \in Path : Near(x, y) => (Clean(x)' <=> Clean(y)')
      /\ \A x \in Path, y \in paths : x \notin paths /\ Clean(x)' => ~Near(y, x)
  BY DEF Befell
<1>2. Told(p) /\ Same(p)
  BY <1>1 DEF Stories
<1>3. CASE Alone(p)
  BY <1>2, <1>3, AloneStays DEF Told
<1>4. CASE InPair(p)
  <2>1. PICK w \in WorkHere(p), q \in Path : Pair(w, p, q)
    BY <1>4 DEF InPair
  <2>2. p # q /\ (Moving(w, p, q) \/ Moving(w, q, p))
    BY <2>1 DEF Pair
  <2>3. On(w, p) /\ On(w, q) /\ w \in Work
    <3>1. (w.path = p /\ w.to = q) \/ (w.path = q /\ w.to = p)
      BY <2>2, MovingWork
    <3> QED
      BY <2>1, <3>1, WorkIs DEF On
  <2>4. Near(p, q) /\ Near(q, p)
    BY <2>3 DEF Near
  <2>5. Clean(q)' /\ q \notin paths
    BY <1>1, <2>4
  <2>6. Same(q)
    BY <2>5
  <2>7. Pair(w, p, q)'
    BY <1>2, <2>1, <2>5, <2>6, PairStays
  <2>8. w \in WorkHere(p)'
    BY <1>2, <2>1 DEF WorkHere, Same, SameEvents, SameLine, SameRuns
  <2> QED
    BY <2>7, <2>8 DEF Told, InPair
<1> QED
  BY <1>2, <1>3, <1>4 DEF Told

LEMMA BothToldNow ==
  ASSUME NEW p \in Path, NEW q \in Path, p # q, Clean(p)', Clean(q)',
         NEW w, Moving(w, p, q)', w \in WorkHere(p)', w \in WorkHere(q)'
  PROVE  Told(p)' /\ Told(q)'
<1>1. Pair(w, p, q)' /\ Pair(w, q, p)'
  BY DEF Pair
<1> QED
  BY <1>1 DEF Told, InPair

(* What is apart stays apart.                                               *)
LEMMA BefallenApart ==
  ASSUME TypeInv, Stories, Apart, NEW paths \in SUBSET Path, NEW b \in BOOLEAN, NEW what,
         Befell(paths, b, what), Work \subseteq Work'
  PROVE  /\ \A w \in Work : Alike(w)'
         /\ \A x, y : Near(x, y) => Near(x, y)'
         /\ status' = status => AbortsOnlyOnRaces'
<1>1. \A w \in Work : Alike(w)'
  <2> TAKE w \in Work
  <2>1. w.path \in Path /\ w.to \in Path => Near(w.path, w.to)
    BY DEF Near, On
  <2> QED
    BY <2>1 DEF Alike, Befell
<1>2. \A x, y : Near(x, y) => Near(x, y)'
  BY DEF Near, On
<1>3. ASSUME status' = status PROVE AbortsOnlyOnRaces'
  <2>1. status \in Path => fate[status] # {} /\ fate[status] \subseteq fate'[status]
    BY DEF Apart, AbortsOnlyOnRaces, Befell
  <2> QED
    BY <1>3, <2>1 DEF AbortsOnlyOnRaces
<1> QED
  BY <1>1, <1>2, <1>3

-----------------------------------------------------------------------------
(* The cloud tells of a change. *)
Hit(c) == {c.path, c.to} \cap Path
Hurried(c) == \E p \in Hit(c) : Busy(p)
Tells(c) ==
  /\ Up /\ c \in Change /\ c.by = "cloud" /\ c.stage = "waiting"
  /\ changes' = Append(changes, c)
  /\ Befalls(Hit(c), Hurried(c), {})
  /\ UNCHANGED <<fsVars, events, notices, out, seen, expected, running, db, status>>
  /\ c.type # "Move" => c.to = NoTo
  /\ c.type = "New" =>
       /\ c.gid = 0 /\ Nowhere(c.path) /\ c.cid > fresh
       /\ remote' = Put(remote, c.cid, [path |-> c.path, hash |-> c.cid])
  /\ c.type # "New" =>
       /\ c.gid \in DOMAIN db.files /\ Linked(c.gid) /\ c.cid = LinkId(c.gid)
       /\ c.cid \in DOMAIN remote /\ c.path = PathOf(c.gid)
  /\ c.type = "Update" => remote' = [remote EXCEPT ![c.cid].hash = fresh']
  /\ c.type = "Move" =>
       /\ c.to \in Path /\ Nowhere(c.to)
       /\ remote' = [remote EXCEPT ![c.cid].path = c.to]
  /\ c.type = "Delete" => remote' = [m \in DOMAIN remote \ {c.cid} |-> remote[m]]

LEMMA ToldBy ==
  ASSUME TypeInv, TypeInv', NEW type, NEW gid, NEW cid, NEW p, NEW q,
         FromCloud(type, gid, cid, p, q)
  PROVE  \E c : /\ c.type = type /\ c.gid = gid /\ c.cid = cid /\ c.path = p /\ c.to = q
                /\ Up /\ c \in Change /\ c.by = "cloud" /\ c.stage = "waiting"
                /\ changes' = Append(changes, c)
                /\ Befalls(Hit(c), Hurried(c), {})
                /\ UNCHANGED <<fsVars, events, notices, out, seen, expected, running, db, status>>
<1> PICK c : c = [type |-> type, gid |-> gid, cid |-> cid, path |-> p, to |-> q, stat |-> NoStat,
                  by |-> "cloud", stage |-> "waiting"]
  OBVIOUS
<1>1. /\ Up /\ changes' = Append(changes, c)
      /\ Befalls({p, q} \cap Path, \E x \in {p, q} \cap Path : Busy(x), {})
      /\ UNCHANGED <<fsVars, events, notices, out, seen, expected, running, db, status>>
  BY DEF FromCloud, eventVars
<1>2. c.path = p /\ c.to = q
  OBVIOUS
<1>3. Befalls(Hit(c), Hurried(c), {})
  BY <1>1, <1>2 DEF Hit, Hurried
<1>4. c \in Change
  <2>1. changes' \in Seq(Change)
    BY DEF TypeInv, LineTyped
  <2>2. changes \in Seq(Change)
    BY DEF TypeInv, LineTyped
  <2>3. Len(changes') \in DOMAIN changes' /\ changes'[Len(changes')] = c
    BY <1>1, <2>2
  <2> QED
    BY <2>1, <2>3
<1>5. c.type = type /\ c.gid = gid /\ c.cid = cid /\ c.by = "cloud" /\ c.stage = "waiting"
  OBVIOUS
<1> QED
  BY <1>1, <1>2, <1>3, <1>4, <1>5

LEMMA TellsIt == ASSUME TypeInv, TypeInv', Clouds PROVE \E c : Tells(c)
<1>0. \A p : Rows(p) = RowsOf(db, p) /\ (InCloud(p) <=> There(p) # {})
  BY DEF Rows, InCloud, There
<1>1. ASSUME NEW p \in Path, CloudHasNew(p) PROVE \E c : Tells(c)
  <2> PICK n : n = fresh'
    OBVIOUS
  <2>1. /\ Nowhere(p) /\ n = fresh + 1
        /\ remote' = Put(remote, n, [path |-> p, hash |-> n])
        /\ FromCloud("New", 0, n, p, NoTo)
    BY <1>0, <1>1 DEF CloudHasNew, HasRow, Nowhere
  <2>2. n > fresh
    BY <2>1 DEF TypeInv, RestTyped
  <2>3. PICK c : /\ c.type = "New" /\ c.gid = 0 /\ c.cid = n /\ c.path = p /\ c.to = NoTo
                 /\ Up /\ c \in Change /\ c.by = "cloud" /\ c.stage = "waiting"
                 /\ changes' = Append(changes, c)
                 /\ Befalls(Hit(c), Hurried(c), {})
                 /\ UNCHANGED <<fsVars, events, notices, out, seen, expected, running, db, status>>
    BY <2>1, ToldBy
  <2>4. Tells(c)
    BY <2>1, <2>2, <2>3 DEF Tells
  <2> QED
    BY <2>4
<1>2. ASSUME NEW r \in DOMAIN db.files, CloudHasUpdate(r) PROVE \E c : Tells(c)
  <2>1. /\ Linked(r) /\ LinkId(r) \in DOMAIN remote
        /\ remote' = [remote EXCEPT ![LinkId(r)].hash = fresh']
        /\ FromCloud("Update", r, LinkId(r), PathOf(r), NoTo)
    BY <1>2 DEF CloudHasUpdate, LinkId, PathOf
  <2>2. PICK c : /\ c.type = "Update" /\ c.gid = r /\ c.cid = LinkId(r) /\ c.path = PathOf(r) /\ c.to = NoTo
                 /\ Up /\ c \in Change /\ c.by = "cloud" /\ c.stage = "waiting"
                 /\ changes' = Append(changes, c)
                 /\ Befalls(Hit(c), Hurried(c), {})
                 /\ UNCHANGED <<fsVars, events, notices, out, seen, expected, running, db, status>>
    BY <2>1, ToldBy
  <2>3. Tells(c)
    BY <2>1, <2>2 DEF Tells
  <2> QED
    BY <2>3
<1>3. ASSUME NEW r \in DOMAIN db.files, NEW q \in Path, CloudHasMove(r, q) PROVE \E c : Tells(c)
  <2>1. /\ Linked(r) /\ LinkId(r) \in DOMAIN remote /\ Nowhere(q)
        /\ remote' = [remote EXCEPT ![LinkId(r)].path = q]
        /\ FromCloud("Move", r, LinkId(r), PathOf(r), q)
    BY <1>0, <1>3 DEF CloudHasMove, LinkId, PathOf, HasRow, Nowhere
  <2>2. PICK c : /\ c.type = "Move" /\ c.gid = r /\ c.cid = LinkId(r) /\ c.path = PathOf(r) /\ c.to = q
                 /\ Up /\ c \in Change /\ c.by = "cloud" /\ c.stage = "waiting"
                 /\ changes' = Append(changes, c)
                 /\ Befalls(Hit(c), Hurried(c), {})
                 /\ UNCHANGED <<fsVars, events, notices, out, seen, expected, running, db, status>>
    BY <2>1, ToldBy
  <2>3. Tells(c)
    BY <2>1, <2>2 DEF Tells
  <2> QED
    BY <2>3
<1>4. ASSUME NEW r \in DOMAIN db.files, CloudHasDelete(r) PROVE \E c : Tells(c)
  <2>1. /\ Linked(r) /\ LinkId(r) \in DOMAIN remote
        /\ remote' = [m \in DOMAIN remote \ {LinkId(r)} |-> remote[m]]
        /\ FromCloud("Delete", r, LinkId(r), PathOf(r), NoTo)
    BY <1>4 DEF CloudHasDelete, LinkId, PathOf
  <2>2. PICK c : /\ c.type = "Delete" /\ c.gid = r /\ c.cid = LinkId(r) /\ c.path = PathOf(r) /\ c.to = NoTo
                 /\ Up /\ c \in Change /\ c.by = "cloud" /\ c.stage = "waiting"
                 /\ changes' = Append(changes, c)
                 /\ Befalls(Hit(c), Hurried(c), {})
                 /\ UNCHANGED <<fsVars, events, notices, out, seen, expected, running, db, status>>
    BY <2>1, ToldBy
  <2>3. Tells(c)
    BY <2>1, <2>2 DEF Tells
  <2> QED
    BY <2>3
<1> QED
  BY <1>1, <1>2, <1>3, <1>4 DEF Clouds

LEMMA Telling ==
  ASSUME TypeInv, TypeInv', Stories, NEW c, Tells(c)
  PROVE  /\ LineTakes(c) /\ QueueStays /\ disk' = disk /\ status' = status
         /\ \A x : SameFile(x) /\ SameEvents(x) /\ SameRuns(x) /\ SameRows(x) /\ SameAwait(x)
         /\ \A x : ~On(c, x) => SameLine(x)
         /\ \A x : /\ (Exists(x)' <=> Exists(x)) /\ StatOf(x)' = StatOf(x) /\ Rows(x)' = Rows(x)
                   /\ (Awaits(x)' <=> Awaits(x)) /\ EventsOn(x)' = EventsOn(x) /\ RunsOn(x)' = RunsOn(x)
         /\ \A r : Stat(r)' = Stat(r) /\ PathOf(r)' = PathOf(r) /\ (Linked(r)' <=> Linked(r)) /\ LinkId(r)' = LinkId(r)
         /\ DOMAIN db'.files = DOMAIN db.files
         /\ Work' = Work \cup {c} /\ Changing' = Changing \cup {c}
         /\ c.path \in Path /\ c.type \in {"New", "Update", "Move", "Delete"}
         /\ \A x \in Path : On(c, x) <=> x \in Hit(c)
         /\ Befell(Hit(c), Hurried(c), {})
<1>1. /\ UNCHANGED <<fsVars, running, db, expected, events, notices>> /\ changes' = Append(changes, c)
      /\ UNCHANGED <<out, seen>> /\ c \in Change /\ status' = status
  BY DEF Tells
<1>2. LineTakes(c)
  BY <1>1, Received
<1>3. QueueStays
  BY <1>1, QueueKept
<1>4. /\ \A x : SameFile(x) /\ SameEvents(x) /\ SameRuns(x) /\ SameRows(x) /\ SameAwait(x)
      /\ \A x : ~On(c, x) => SameLine(x)
  BY <1>1, <1>2, <1>3, Untouched, OffLine
<1>5. /\ disk' = disk
      /\ \A x : /\ (Exists(x)' <=> Exists(x)) /\ StatOf(x)' = StatOf(x) /\ Rows(x)' = Rows(x)
                /\ (Awaits(x)' <=> Awaits(x)) /\ EventsOn(x)' = EventsOn(x) /\ RunsOn(x)' = RunsOn(x)
  BY <1>1, <1>4 DEF fsVars, Exists, NoFile, StatOf, Rows, SameAwait, SameEvents, SameRuns
<1>6. /\ \A r : Stat(r)' = Stat(r) /\ PathOf(r)' = PathOf(r) /\ (Linked(r)' <=> Linked(r)) /\ LinkId(r)' = LinkId(r)
      /\ DOMAIN db'.files = DOMAIN db.files
  BY <1>1 DEF Stat, PathOf, Linked, LinkId, Link
<1>7. Work' = Work \cup {c} /\ Changing' = Changing \cup {c}
  BY <1>1, <1>2, <1>3, WorkIs, WorkNext DEF LineTakes, QueueStays, Changing
<1>8. c.path \in Path /\ c.type \in {"New", "Update", "Move", "Delete"}
  BY <1>1 DEF Change, ChangeTypes
<1>9. \A x \in Path : On(c, x) <=> x \in Hit(c)
  BY DEF On, Hit
<1>10. Befell(Hit(c), Hurried(c), {})
  <2>1. Hit(c) \in SUBSET Path /\ Hurried(c) \in BOOLEAN
    BY DEF Hit, Hurried
  <2>2. Befalls(Hit(c), Hurried(c), {})
    BY DEF Tells
  <2>3. ASSUME Hurried(c) # TRUE, NEW x \in Hit(c) PROVE WorkHere(x) = {}
    <3>1. ~Hurried(c)
      BY <2>1, <2>3
    <3> QED
      BY <2>3, <3>1, WorkIs DEF Hurried, Busy
  <2>4. Struck(Hit(c), Hurried(c), {})
    BY <2>3 DEF Struck
  <2> QED
    BY <2>1, <2>2, <2>4, WhatBefell
<1> QED
  BY <1>1, <1>2, <1>3, <1>4, <1>5, <1>6, <1>7, <1>8, <1>9, <1>10

(* Its paths, unless it is raced with. *)
LEMMA TellsIdle ==
  ASSUME TypeInv, TypeInv', Stories, NEW c, Tells(c), NEW x \in Path, On(c, x), Clean(x)'
  PROVE  /\ Clean(x) /\ \A y \in Path : On(c, y) => Clean(y) /\ Clean(y)'
         /\ \A y \in Path : On(c, y) => WorkHere(y) = {} /\ OnlyInLine(c, y)' /\ ~Awaits(y)'
         /\ \A y \in Path : On(c, y) =>
              \/ ~Exists(y) /\ Nowhere(y)
              \/ Exists(y) /\ \E r \in Rows(y) : Everywhere(y, r) /\ Agreed(r, y)
<1>1. /\ \A y : /\ (Awaits(y)' <=> Awaits(y)) /\ EventsOn(y)' = EventsOn(y) /\ RunsOn(y)' = RunsOn(y)
      /\ \A y \in Path : On(c, y) <=> y \in Hit(c)
      /\ LineTakes(c)
  BY Telling
<1>2. /\ \A y \in Hit(c) : Clean(y)' => {} = {} /\ Hurried(c) # TRUE /\ \A z \in Hit(c) : Clean(z) /\ Clean(z)'
  BY Telling DEF Befell
<1>3. Hurried(c) # TRUE /\ \A y \in Path : On(c, y) => Clean(y) /\ Clean(y)'
  BY <1>1, <1>2
<1>4. ASSUME NEW y \in Path, On(c, y) PROVE WorkHere(y) = {}
  <2>1. ~Busy(y)
    BY <1>1, <1>3, <1>4 DEF Hurried
  <2> QED
    BY <2>1, WorkIs DEF Busy
<1>5. ASSUME NEW y \in Path, On(c, y)
      PROVE  /\ EventsOn(y) = {} /\ LineOn(y) = {} /\ RunsOn(y) = {} /\ ~Awaits(y)
             /\ \/ ~Exists(y) /\ Nowhere(y)
                \/ Exists(y) /\ \E r \in Rows(y) : Everywhere(y, r) /\ Agreed(r, y)
  BY <1>3, <1>4, <1>5, IdleTold DEF Stories
<1>6. ASSUME NEW y \in Path, On(c, y) PROVE OnlyInLine(c, y)'
  <2>1. c \notin Pending
    BY <1>5, <1>6 DEF LineOn
  <2>2. LineOn(y)' = {c} /\ ~Sooner(c, c)'
    BY <1>1, <1>5, <1>6, <2>1, LinedUp, SoonerIn
  <2> QED
    BY <1>1, <1>5, <1>6, <2>2 DEF OnlyInLine
<1> QED
  BY <1>1, <1>3, <1>4, <1>5, <1>6

LEMMA TellsThere ==
  ASSUME TypeInv, NEW c, Tells(c), NEW p, p = c.path, NEW n, n = c.cid
  PROVE  /\ c.type = "New" => /\ n \notin DOMAIN remote /\ There(p)' = There(p) \cup {n}
                              /\ \A x : x # p => There(x)' = There(x)
                              /\ HashAt(n)' = n
         /\ c.type = "Update" => \A x : There(x)' = There(x)
         /\ c.type = "Delete" => \A x : There(x)' = There(x) \ {n}
         /\ c.type = "Move" => /\ There(c.to)' = There(c.to) \cup {n}
                               /\ \A x : x # c.to => There(x)' = There(x) \ {n}
                               /\ HashAt(n)' = HashAt(n)
         /\ \A m \in DOMAIN remote : m # n => HashAt(m)' = HashAt(m)
         /\ c.type \in {"New", "Update", "Move", "Delete"}
<1>0. c.type \in {"New", "Update", "Move", "Delete"}
  BY DEF Tells, Change, ChangeTypes
<1>1. CASE c.type = "New"
  <2>1. n > fresh /\ remote' = Put(remote, n, [path |-> p, hash |-> n])
    BY <1>1 DEF Tells
  <2>2. n \notin DOMAIN remote
    <3>1. fresh \in Nat /\ \A m \in DOMAIN remote : m \in 1..fresh
      BY DEF TypeInv, CloudTyped, RestTyped
    <3> QED
      BY <2>1, <3>1
  <2> QED
    BY <1>1, <2>1, <2>2, CloudPut
<1>2. CASE c.type = "Update"
  BY <1>2, CloudHash DEF Tells
<1>3. CASE c.type = "Delete"
  BY <1>3, CloudWithout DEF Tells
<1>4. CASE c.type = "Move"
  <2>1. n \in DOMAIN remote /\ remote' = [remote EXCEPT ![n].path = c.to]
    BY <1>4 DEF Tells
  <2> PICK q : q = c.to
    OBVIOUS
  <2>2. /\ There(q)' = There(q) \cup ({n} \cap DOMAIN remote)
        /\ \A x : x # q => There(x)' = There(x) \ {n}
        /\ \A m \in DOMAIN remote : HashAt(m)' = HashAt(m)
    BY <2>1, CloudPath
  <2>3. {n} \cap DOMAIN remote = {n}
    BY <2>1
  <2> QED
    BY <1>4, <2>1, <2>2, <2>3
<1> QED
  BY <1>0, <1>1, <1>2, <1>3, <1>4

LEMMA TellsNot ==
  ASSUME NEW c, Tells(c), c.type # "Move", NEW x \in Path, On(c, x)
  PROVE  x = c.path
BY Ids DEF Tells, On

LEMMA TellsOwn ==
  ASSUME TypeInv, TypeInv', Stories, Apart, NEW c, Tells(c), NEW n, n = c.cid,
         NEW x \in Path, Clean(x)', ~On(c, x)
  PROVE  n \notin There(x) /\ n \notin There(x)' /\ Clean(x)
<1>1. Clean(x) /\ (\A y \in Hit(c) : ~Near(y, x)) /\ c.path \in Hit(c)
  BY Telling DEF Befell, On, Hit
<1>2. n \notin There(x)
  <2>1. CASE c.type = "New"
    BY <2>1, TellsThere, RowsKnown
  <2>2. CASE c.type # "New"
    <3> PICK r, p : r = c.gid /\ p = c.path
      OBVIOUS
    <3>1. r \in DOMAIN db.files /\ Linked(r) /\ n = LinkId(r) /\ p = PathOf(r)
      BY <2>2 DEF Tells
    <3>2. ~Near(p, x)
      BY <1>1
    <3> QED
      BY <1>1, <3>1, <3>2 DEF Apart, OwnLink
  <2> QED
    BY <2>1, <2>2
<1>3. x # c.path /\ x # c.to
  BY DEF On
<1> QED
  BY <1>1, <1>2, <1>3, TellsThere

(* The other paths. *)
LEMMA TellsOff ==
  ASSUME TypeInv, TypeInv', Stories, Apart, NEW c, Tells(c), NEW x \in Path, Clean(x)', ~On(c, x)
  PROVE  Same(x)
<1> PICK n : n = c.cid
  OBVIOUS
<1>1. n \notin There(x) /\ n \notin There(x)'
  BY TellsOwn
<1>2. x # c.path /\ x # c.to
  BY DEF On
<1>3. There(x)' = There(x)
  BY <1>1, <1>2, TellsThere
<1>4. \A m \in There(x) : m \in DOMAIN remote /\ m # n
  BY <1>1, RowsKnown
<1>5. \A m \in There(x) : HashAt(m)' = HashAt(m)
  BY <1>4, TellsThere
<1> QED
  BY <1>3, <1>5, Telling DEF Same, SameThere

LEMMA TellsTold ==
  ASSUME TypeInv, TypeInv', Stories, NEW c, Tells(c), NEW x \in Path, Clean(x)', On(c, x)
  PROVE  Told(x)'
<1> PICK p, n, r : p = c.path /\ n = c.cid /\ r = c.gid
  OBVIOUS
<1>0. p \in Path /\ On(c, p) /\ c.by = "cloud" /\ c.stage = "waiting"
  BY Telling DEF On, Tells
<1>1. /\ Clean(p) /\ Clean(p)' /\ OnlyInLine(c, p)' /\ ~Awaits(p)'
      /\ \/ ~Exists(p) /\ Nowhere(p)
         \/ Exists(p) /\ \E o \in Rows(p) : Everywhere(p, o) /\ Agreed(o, p)
  BY <1>0, TellsIdle
<1>2. c \in WorkHere(p)'
  BY <1>1 DEF OnlyInLine, WorkHere
<1>3. /\ disk' = disk
      /\ \A y : /\ (Exists(y)' <=> Exists(y)) /\ StatOf(y)' = StatOf(y) /\ Rows(y)' = Rows(y)
      /\ \A o : Stat(o)' = Stat(o) /\ (Linked(o)' <=> Linked(o)) /\ LinkId(o)' = LinkId(o)
  BY Telling
<1>4. CASE c.type = "New"
  <2>1. Rows(p) = {} /\ There(p) = {} /\ There(p)' = There(p) \cup {n}
    <3>1. Nowhere(p)
      BY <1>4 DEF Tells
    <3>2. There(p)' = There(p) \cup {n}
      BY <1>4, TellsThere
    <3> QED
      BY <3>1, <3>2 DEF Nowhere
  <2>2. x = p
    BY <1>4, TellsNot
  <2>3. ~Exists(p)
    BY <1>1, <2>1
  <2>4. CloudNew(c, p)'
    BY <1>0, <1>1, <1>3, <1>4, <2>1, <2>3 DEF CloudNew
  <2> QED
    BY <1>2, <2>2, <2>4 DEF Told, Alone
<1>5. CASE c.type # "New"
  <2>1. r \in Rows(p) /\ Linked(r) /\ n = LinkId(r) /\ n \in DOMAIN remote
    <3>1. r \in DOMAIN db.files /\ Linked(r) /\ n = LinkId(r) /\ n \in DOMAIN remote /\ p = PathOf(r)
      BY <1>5 DEF Tells
    <3> QED
      BY <3>1, RowsKnown
  <2>2. Exists(p) /\ Everywhere(p, r) /\ Agreed(r, p)
    <3>1. Rows(p) # {}
      BY <2>1
    <3>2. PICK o \in Rows(p) : Exists(p) /\ Everywhere(p, o) /\ Agreed(o, p)
      BY <1>1, <3>1 DEF Nowhere
    <3>3. o = r
      BY <2>1, <3>2 DEF Everywhere
    <3> QED
      BY <3>2, <3>3
  <2>3. Rows(p) = {r} /\ There(p) = {n} /\ Stat(r) = StatOf(p) /\ HashAt(n) = disk[p].hash
    BY <2>1, <2>2 DEF Everywhere, Agreed
  <2>4. CASE c.type = "Update"
    <3>1. x = p
      BY <2>4, TellsNot DEF On
    <3>2. There(p)' = {n}
      BY <2>3, <2>4, TellsThere
    <3>3. Everywhere(p, r)'
      BY <1>3, <2>1, <2>3, <3>2 DEF Everywhere
    <3>4. CloudUpdate(c, p)'
      BY <1>0, <1>1, <1>3, <2>1, <2>2, <2>3, <2>4, <3>3 DEF CloudUpdate
    <3> QED
      BY <1>2, <3>1, <3>4 DEF Told, Alone
  <2>5. CASE c.type = "Delete"
    <3>1. x = p
      BY <2>5, TellsNot DEF On
    <3>2. There(p)' = {}
      BY <2>3, <2>5, TellsThere
    <3>3. CloudDelete(c, p)'
      BY <1>0, <1>1, <1>3, <2>2, <2>3, <2>5, <3>2 DEF CloudDelete
    <3> QED
      BY <1>2, <3>1, <3>3 DEF Told, Alone
  <2>6. CASE c.type = "Move"
    <3> PICK q : q = c.to
      OBVIOUS
    <3>1. q \in Path /\ Nowhere(q) /\ On(c, q) /\ x \in {p, q}
      BY <2>6 DEF Tells, On
    <3>2. p # q
      BY <2>1, <3>1 DEF Nowhere
    <3>3. /\ Clean(q) /\ Clean(q)' /\ OnlyInLine(c, q)' /\ ~Awaits(q)'
          /\ \/ ~Exists(q) /\ Nowhere(q)
             \/ Exists(q) /\ \E o \in Rows(q) : Everywhere(q, o) /\ Agreed(o, q)
      BY <3>1, TellsIdle
    <3>4. ~Exists(q) /\ Rows(q) = {} /\ There(q) = {}
      BY <3>1, <3>3 DEF Nowhere
    <3>5. There(p)' = {} /\ There(q)' = {n} /\ HashAt(n)' = HashAt(n)
      BY <2>3, <2>6, <3>2, <3>4, TellsThere
    <3>6. Agreed(r, p)'
      BY <1>3, <2>1, <2>3, <3>5 DEF Agreed
    <3>7. CloudMoving(c, p, q)'
      BY <1>0, <1>1, <1>3, <2>1, <2>2, <2>3, <2>6, <3>3, <3>4, <3>5, <3>6 DEF CloudMoving
    <3>8. c \in WorkHere(q)'
      BY <3>3 DEF OnlyInLine, WorkHere
    <3>9. Told(p)' /\ Told(q)'
      BY <1>0, <1>1, <1>2, <3>1, <3>2, <3>3, <3>7, <3>8, BothToldNow DEF Moving
    <3> QED
      BY <3>1, <3>9
  <2> QED
    BY <1>5, <2>4, <2>5, <2>6, TellsThere
<1> QED
  BY <1>4, <1>5

LEMMA TellsStories ==
  ASSUME TypeInv, TypeInv', Stories, Apart, NEW c, Tells(c)
  PROVE  Stories'
<1> SUFFICES ASSUME NEW p \in Path, Clean(p)' PROVE Told(p)'
  BY DEF Stories
<1>1. CASE On(c, p)
  BY <1>1, TellsTold
<1>2. CASE ~On(c, p)
  <2>1. Hit(c) \in SUBSET Path /\ Hurried(c) \in BOOLEAN
    BY DEF Hit, Hurried
  <2>2. Befell(Hit(c), Hurried(c), {}) /\ \A x \in Path : On(c, x) <=> x \in Hit(c)
    BY Telling
  <2>3. \A x \in Path : x \notin Hit(c) /\ Clean(x)' => Same(x)
    BY <2>2, TellsOff
  <2> QED
    BY <1>2, <2>1, <2>2, <2>3, Unbefallen
<1> QED
  BY <1>1, <1>2

LEMMA TellsOwnCid ==
  ASSUME TypeInv, TypeInv', Stories, Apart, NEW c, Tells(c), NEW w \in Changing
  PROVE  OwnCid(w)'
<1> PICK n, m, p : n = c.cid /\ m = w.cid /\ p = c.path
  OBVIOUS
<1> SUFFICES ASSUME NEW x \in Path, Clean(x)', m \in There(x)' PROVE On(w, x)
  BY DEF OwnCid, On
<1>1. Clean(x)
  BY Telling DEF Befell
<1>2. ASSUME m \in There(x) PROVE On(w, x)
  BY <1>1, <1>2 DEF Apart, OwnCid
<1>3. ASSUME m \notin There(x) PROVE FALSE
  <2>1. m = n /\ On(c, x) /\ c.type \in {"New", "Move"}
    <3>1. m = n
      BY <1>3, TellsThere
    <3>2. On(c, x)
      BY <3>1, TellsOwn
    <3>3. c.type \notin {"Update", "Delete"}
      BY <1>3, TellsThere
    <3> QED
      BY <3>1, <3>2, <3>3, TellsThere
  <2>2. CASE c.type = "New"
    <3>1. n > fresh
      BY <2>2 DEF Tells
    <3>2. m <= fresh /\ m \in Nat /\ fresh \in Nat
      BY ChangingTyped DEF Proper, Change, TypeInv, RestTyped
    <3> QED
      BY <2>1, <3>1, <3>2
  <2>3. CASE c.type = "Move"
    <3> PICK r : r = c.gid
      OBVIOUS
    <3>1. p \in Path /\ On(c, p) /\ r \in Rows(p) /\ n = LinkId(r)
      <4>1. r \in DOMAIN db.files /\ n = LinkId(r) /\ p = PathOf(r)
        BY <2>3 DEF Tells
      <4> QED
        BY <4>1, RowsKnown, Telling DEF On
    <3>2. /\ Clean(p) /\ WorkHere(p) = {}
          /\ \/ ~Exists(p) /\ Nowhere(p)
             \/ Exists(p) /\ \E o \in Rows(p) : Everywhere(p, o) /\ Agreed(o, p)
      BY <2>1, <3>1, TellsIdle
    <3>3. n \in There(p)
      BY <3>1, <3>2 DEF Nowhere, Everywhere
    <3>4. On(w, p)
      BY <2>1, <3>1, <3>2, <3>3 DEF Apart, OwnCid
    <3> QED
      BY <3>2, <3>4, WorkIs, WorkNext
  <2> QED
    BY <2>1, <2>2, <2>3
<1> QED
  BY <1>2, <1>3

LEMMA TellsOwnLink ==
  ASSUME TypeInv, TypeInv', Stories, Apart, NEW c, Tells(c), NEW o \in DOMAIN db.files
  PROVE  OwnLink(o)'
<1> PICK n, m, p, z : n = c.cid /\ m = LinkId(o) /\ p = c.path /\ z = PathOf(o)
  OBVIOUS
<1>0. PathOf(o)' = z /\ (Linked(o)' <=> Linked(o)) /\ LinkId(o)' = m
  BY Telling
<1> SUFFICES ASSUME NEW x \in Path, Clean(x)', Linked(o), m \in There(x)' PROVE Near(z, x)'
  BY <1>0 DEF OwnLink
<1>1. Clean(x) /\ z \in Path
  BY Telling, RowsKnown DEF Befell
<1>2. Work' = Work \cup {c}
  BY Telling
<1>3. ASSUME m \in There(x) PROVE Near(z, x)'
  <2>1. Near(z, x)
    BY <1>1, <1>3 DEF Apart, OwnLink
  <2> QED
    BY <1>2, <2>1 DEF Near
<1>4. ASSUME m \notin There(x) PROVE Near(z, x)'
  <2>1. m = n /\ On(c, x) /\ c.type \in {"New", "Move"}
    <3>1. m = n
      BY <1>4, TellsThere
    <3>2. On(c, x)
      BY <3>1, TellsOwn
    <3>3. c.type \notin {"Update", "Delete"}
      BY <1>4, TellsThere
    <3> QED
      BY <3>1, <3>2, <3>3, TellsThere
  <2>2. CASE c.type = "New"
    <3>1. n > fresh
      BY <2>2 DEF Tells
    <3>2. m <= fresh /\ m \in Nat /\ fresh \in Nat
      BY DEF TypeInv, DbTyped, Rowed, RestTyped, LinkId, Link, Linked
    <3> QED
      BY <2>1, <3>1, <3>2
  <2>3. CASE c.type = "Move"
    <3> PICK r : r = c.gid
      OBVIOUS
    <3>1. p \in Path /\ On(c, p) /\ r \in Rows(p) /\ n = LinkId(r)
      <4>1. r \in DOMAIN db.files /\ n = LinkId(r) /\ p = PathOf(r)
        BY <2>3 DEF Tells
      <4> QED
        BY <4>1, RowsKnown, Telling DEF On
    <3>2. /\ Clean(p) /\ WorkHere(p) = {}
          /\ \/ ~Exists(p) /\ Nowhere(p)
             \/ Exists(p) /\ \E a \in Rows(p) : Everywhere(p, a) /\ Agreed(a, p)
      BY <2>1, <3>1, TellsIdle
    <3>3. n \in There(p)
      BY <3>1, <3>2 DEF Nowhere, Everywhere
    <3>4. Near(z, p)
      BY <2>1, <3>1, <3>2, <3>3 DEF Apart, OwnLink
    <3>5. z = p
      BY <3>2, <3>4, WorkIs DEF Near
    <3> QED
      BY <1>2, <2>1, <3>1, <3>5 DEF Near
  <2> QED
    BY <2>1, <2>2, <2>3
<1> QED
  BY <1>3, <1>4

LEMMA TellsApart ==
  ASSUME TypeInv, TypeInv', Stories, Apart, NEW c, Tells(c)
  PROVE  Apart'
<1> PICK n, p, r : n = c.cid /\ p = c.path /\ r = c.gid
  OBVIOUS
<1>1. /\ \A x : Rows(x)' = Rows(x) /\ (Exists(x)' <=> Exists(x))
      /\ \A o : Stat(o)' = Stat(o) /\ PathOf(o)' = PathOf(o)
      /\ DOMAIN db'.files = DOMAIN db.files /\ disk' = disk /\ status' = status
      /\ Work' = Work \cup {c} /\ Changing' = Changing \cup {c}
  BY Telling
<1>2. \A x \in Path : Clean(x)' => Clean(x)
  BY Telling DEF Befell
<1>3. Hit(c) \in SUBSET Path /\ Hurried(c) \in BOOLEAN /\ Befell(Hit(c), Hurried(c), {})
  BY Telling DEF Hit, Hurried
<1>4. /\ \A w \in Work : Alike(w)'
      /\ \A x, y : Near(x, y) => Near(x, y)'
      /\ AbortsOnlyOnRaces'
  BY <1>1, <1>3, BefallenApart
<1>5. Alike(c)'
  <2>1. ASSUME NEW x \in Hit(c), NEW y \in Hit(c), Clean(x)' PROVE Clean(y)'
    BY <1>3, <2>1 DEF Befell
  <2>2. c.path \in Path /\ c.to \in Path => c.path \in Hit(c) /\ c.to \in Hit(c)
    BY DEF Hit
  <2> QED
    BY <2>1, <2>2 DEF Alike
<1>6. (\A w \in Work : Alike(w))'
  BY <1>1, <1>4, <1>5
<1>7. ASSUME NEW w \in Changing PROVE OwnRow(w)' /\ OwnCid(w)' /\ OwnStat(w)'
  <2>1. OwnRow(w) /\ OwnStat(w)
    BY DEF Apart
  <2>2. OwnRow(w)'
    BY <1>1, <1>2, <2>1 DEF OwnRow, On
  <2>3. w \in Change
    BY ChangingTyped
  <2>4. OwnStat(w)'
    BY <1>1, <1>2, <2>1, <2>3 DEF OwnStat, Looked, Local, Change
  <2> QED
    BY <2>2, <2>4, TellsOwnCid
<1>8. OwnRow(c)' /\ OwnCid(c)' /\ OwnStat(c)'
  <2>1. OwnStat(c)'
    BY DEF Tells, OwnStat, Looked, Local
  <2>2. OwnCid(c)'
    BY TellsOwn DEF OwnCid, On
  <2>3. ASSUME NEW x \in Path, r \in Rows(x) PROVE On(c, x)
    <3>1. r \in DOMAIN db.files /\ PathOf(r) = x
      BY <2>3, RowsKnown
    <3>2. r # 0
      BY <3>1 DEF TypeInv, DbTyped, Rowed
    <3>3. c.type # "New" /\ p = PathOf(r)
      BY <3>2 DEF Tells
    <3> QED
      BY <3>1, <3>3 DEF On
  <2>4. OwnRow(c)'
    BY <1>1, <2>3 DEF OwnRow, On
  <2> QED
    BY <2>1, <2>2, <2>4
<1>9. (\A w \in Changing : OwnRow(w) /\ OwnCid(w) /\ OwnStat(w))'
  BY <1>1, <1>7, <1>8
<1>10. ASSUME NEW o \in DOMAIN db.files PROVE OwnFile(o)'
  <2>1. OwnFile(o) /\ PathOf(o) \in Path
    BY RowsKnown DEF Apart
  <2>2. PathOf(o)' = PathOf(o) /\ Stat(o)' = Stat(o) /\ (Clean(PathOf(o))' => Clean(PathOf(o)))
    BY <1>1, <1>2, <2>1
  <2> QED
    BY <1>1, <1>2, <1>4, <2>1, <2>2 DEF OwnFile
<1>11. (\A o \in DOMAIN db.files : OwnFile(o) /\ OwnLink(o))'
  BY <1>1, <1>10, TellsOwnLink
<1>12. OneFile'
  BY <1>1 DEF Apart, OneFile
<1>13. Down'
  BY <1>1, UpStays DEF Tells
<1> QED
  BY <1>4, <1>6, <1>9, <1>11, <1>12, <1>13 DEF Apart

LEMMA CloudsOk ==
  ASSUME TypeInv, TypeInv', Stories, Apart, Clouds
  PROVE  Stories' /\ Apart'
BY TellsIt, TellsStories, TellsApart

-----------------------------------------------------------------------------
(* What users do. *)
Excuse(what) == what \cup (IF Up THEN {} ELSE {"unwatched"})
Acts(paths, noted, b, what) ==
  /\ paths \in SUBSET Path /\ noted \in Seq(Event) /\ b \in BOOLEAN
  /\ \A v \in Range(noted), x \in Path : On(v, x) => x \in paths
  /\ \A x \in Path : x \notin paths =>
       disk'[x] = disk[x] /\ (Exists(x) \/ (x \in beside' <=> x \in beside))
  /\ notices' = IF Up THEN notices \o noted ELSE <<>>
  /\ Befalls(paths, b, Excuse(what))
  /\ UNCHANGED <<events, seen, out, expected, changes, running, db, remote, status>>
  /\ Struck(paths, b, what)

(* Where a file that is not new comes from. *)
Origins(paths, b) ==
  \A y \in Path : Exists(y)' /\ disk'[y].inode <= fresh =>
    \E z \in Path :
      /\ Exists(z) /\ disk[z].inode = disk'[y].inode
      /\ z = y \/ (/\ z \in paths /\ y \in paths /\ (~Up \/ Near(z, y)')
                   /\ (b = TRUE \/ WorkHere(z) = {}))

LEMMA Unseen ==
  ASSUME TypeInv, Apart, ~Up
  PROVE  /\ Work = {} /\ expected = NothingExpected /\ Queued = {} /\ Pending = {} /\ running = {}
         /\ notices = <<>> /\ events = <<>> /\ \A p : WorkHere(p) = {}
<1>1. Work = {} /\ expected = NothingExpected
  BY DEF Apart, Down
<1>2. Queued = {} /\ Pending = {} /\ running = {}
  BY <1>1, WorkIs
<1>3. notices \in Seq(Event) /\ events \in Seq(Event) /\ Range(notices) = {} /\ Range(events) = {}
  BY <1>2 DEF Queued, TypeInv, EventsTyped
<1>4. ASSUME NEW s \in Seq(Event), Range(s) = {} PROVE s = <<>>
  BY <1>4, Shorter
<1>5. \A p : WorkHere(p) = {}
  BY <1>1, WorkIs
<1> QED
  BY <1>1, <1>2, <1>3, <1>4, <1>5

LEMMA Acting ==
  ASSUME TypeInv, TypeInv', Stories, Apart, NEW paths, NEW noted, NEW b, NEW what, Acts(paths, noted, b, what)
  PROVE  /\ Befell(paths, b, Excuse(what)) /\ status' = status /\ (Up' <=> Up)
         /\ \A x : SameLine(x) /\ SameRuns(x) /\ SameRows(x) /\ SameThere(x) /\ SameAwait(x)
         /\ \A x : /\ Rows(x)' = Rows(x) /\ There(x)' = There(x) /\ (Awaits(x)' <=> Awaits(x))
                   /\ LineOn(x)' = LineOn(x) /\ RunsOn(x)' = RunsOn(x)
         /\ \A r : Stat(r)' = Stat(r) /\ PathOf(r)' = PathOf(r) /\ (Linked(r)' <=> Linked(r)) /\ LinkId(r)' = LinkId(r)
         /\ \A n : HashAt(n)' = HashAt(n)
         /\ \A v, w : Sooner(v, w)' <=> Sooner(v, w)
         /\ DOMAIN db'.files = DOMAIN db.files
         /\ Work \subseteq Work' /\ Work' \subseteq Work \cup Range(noted) /\ Changing' = Changing
         /\ Up => QueueGains(noted)
         /\ \A p \in paths : Clean(p)' => Up /\ what = {} /\ b # TRUE /\ \A x \in paths : Clean(x) /\ Clean(x)'
<1>1. /\ UNCHANGED <<events, seen, out, expected, changes, running, db, remote, status>>
      /\ paths \in SUBSET Path /\ noted \in Seq(Event) /\ b \in BOOLEAN
      /\ notices' = IF Up THEN notices \o noted ELSE <<>>
      /\ Befalls(paths, b, Excuse(what)) /\ Struck(paths, b, what)
  BY DEF Acts
<1>2. LineStays
  BY <1>1, LineUntouched
<1>3. \A x : SameLine(x) /\ SameRuns(x) /\ SameRows(x) /\ SameThere(x) /\ SameAwait(x)
  BY <1>1, <1>2, Untouched
<1>4. /\ \A x : /\ Rows(x)' = Rows(x) /\ There(x)' = There(x) /\ (Awaits(x)' <=> Awaits(x))
                /\ LineOn(x)' = LineOn(x) /\ RunsOn(x)' = RunsOn(x)
      /\ \A v, w : Sooner(v, w)' <=> Sooner(v, w)
  BY <1>2, <1>3 DEF SameLine, SameRuns, SameRows, SameThere, SameAwait, LineStays
<1>5. /\ \A r : Stat(r)' = Stat(r) /\ PathOf(r)' = PathOf(r) /\ (Linked(r)' <=> Linked(r)) /\ LinkId(r)' = LinkId(r)
      /\ \A n : HashAt(n)' = HashAt(n)
      /\ DOMAIN db'.files = DOMAIN db.files /\ status' = status /\ (Up' <=> Up)
  BY <1>1 DEF Stat, PathOf, Linked, LinkId, Link, HashAt, Up
<1>6. ASSUME Up PROVE QueueGains(noted)
  BY <1>1, <1>6, NotedDown
<1>7. ASSUME ~Up PROVE Queued = {} /\ Queued' = {} /\ Work = {}
  <2>1. notices' = <<>> /\ events' = <<>>
    BY <1>1, <1>7, Unseen
  <2>2. Queued' = {}
    BY <2>1, Single DEF Queued
  <2> QED
    BY <1>7, <2>2, Unseen
<1>8. Queued \subseteq Queued' /\ Queued' \subseteq Queued \cup Range(noted)
  BY <1>6, <1>7 DEF QueueGains
<1>9. Work \subseteq Work' /\ Work' \subseteq Work \cup Range(noted) /\ Changing' = Changing
  BY <1>1, <1>2, <1>8, WorkIs, WorkNext DEF LineStays, Changing
<1>10. Befell(paths, b, Excuse(what))
  <2>1. CASE Up
    <3>1. Excuse(what) = what
      BY <2>1 DEF Excuse
    <3> QED
      BY <1>1, <3>1, WhatBefell
  <2>2. CASE ~Up
    <3>1. Struck(paths, b, Excuse(what))
      BY <2>2, Unseen DEF Struck
    <3> QED
      BY <1>1, <3>1, WhatBefell
  <2> QED
    BY <2>1, <2>2
<1>11. ASSUME NEW p \in paths, Clean(p)'
       PROVE  Up /\ what = {} /\ b # TRUE /\ \A x \in paths : Clean(x) /\ Clean(x)'
  <2>1. Excuse(what) = {} /\ b # TRUE /\ \A x \in paths : Clean(x) /\ Clean(x)'
    BY <1>10, <1>11 DEF Befell
  <2> QED
    BY <2>1 DEF Excuse
<1> QED
  BY <1>3, <1>4, <1>5, <1>6, <1>9, <1>10, <1>11

(* The other paths. *)
LEMMA ActsOff ==
  ASSUME TypeInv, TypeInv', Stories, Apart, NEW paths, NEW noted, NEW b, NEW what, Acts(paths, noted, b, what),
         NEW x \in Path, x \notin paths
  PROVE  Same(x)
<1>1. SameFile(x) /\ \A v \in Range(noted) : ~On(v, x)
  BY DEF Acts, SameFile
<1>2. SameEvents(x)
  <2>1. CASE Up
    BY <1>1, <2>1, OffNotes, Acting
  <2>2. CASE ~Up
    <3>1. UNCHANGED <<events, notices>>
      BY <2>2, Unseen DEF Acts
    <3> QED
      BY <3>1, QueueKept, Untouched
  <2> QED
    BY <2>1, <2>2
<1> QED
  BY <1>1, <1>2, Acting DEF Same

LEMMA ActsStories ==
  ASSUME TypeInv, TypeInv', Stories, Apart, NEW paths, NEW noted, NEW b, NEW what, Acts(paths, noted, b, what),
         \A p \in paths : Clean(p)' => Told(p)'
  PROVE  Stories'
<1> SUFFICES ASSUME NEW p \in Path, Clean(p)', p \notin paths PROVE Told(p)'
  BY DEF Stories
<1>1. paths \in SUBSET Path /\ b \in BOOLEAN /\ Befell(paths, b, Excuse(what))
  BY Acting DEF Acts
<1>2. \A x \in Path : x \notin paths /\ Clean(x)' => Same(x)
  BY ActsOff
<1> QED
  BY <1>1, <1>2, Unbefallen

LEMMA ActsOwnStat ==
  ASSUME TypeInv, TypeInv', Stories, Apart, NEW paths, NEW noted, NEW b, NEW what, Acts(paths, noted, b, what),
         Origins(paths, b), NEW w \in Changing, Looked(w)
  PROVE  OwnStat(w)'
<1> PICK i, x : i = w.stat.inode /\ x = w.path
  OBVIOUS
<1>1. /\ i \in Nat /\ i <= fresh /\ fresh \in Nat /\ x \in Path /\ On(w, x) /\ w \in Work
      /\ \A y \in Path : disk'[y].inode \in Nat
  <2>1. \A y \in Path : disk'[y].inode \in Nat
    BY DEF TypeInv, DiskTyped, File
  <2> QED
    BY <2>1, Inodes, ChangingTyped, WorkNext DEF On
<1>2. (Clean(x) => i > 0) /\ \A y \in Path : Exists(y) /\ i = disk[y].inode /\ (Clean(x) \/ Clean(y)) => x = y
  BY DEF Apart, OwnStat
<1>3. \A y \in Path : Clean(y)' => Clean(y)
  BY Acting DEF Befell
<1>4. ASSUME NEW y \in Path, Exists(y)', i = disk'[y].inode, Clean(x)' \/ Clean(y)' PROVE x = y
  <2>1. PICK z \in Path :
          /\ Exists(z) /\ disk[z].inode = disk'[y].inode
          /\ z = y \/ (/\ z \in paths /\ y \in paths /\ (b = TRUE \/ WorkHere(z) = {}))
    BY <1>1, <1>4 DEF Origins
  <2>2. CASE z = y
    BY <1>1, <1>2, <1>3, <1>4, <2>1, <2>2
  <2>3. CASE z \in paths /\ y \in paths /\ (b = TRUE \/ WorkHere(z) = {})
    <3>1. ASSUME Clean(z)' PROVE FALSE
      <4>1. b # TRUE /\ Clean(z)
        BY <2>3, <3>1, Acting
      <4>2. x = z
        BY <1>2, <1>4, <2>1, <4>1
      <4>3. w \in WorkHere(z)
        BY <1>1, <4>2, WorkIs
      <4> QED
        BY <2>3, <4>1, <4>3
    <3>2. CASE Clean(y)'
      BY <2>3, <3>1, <3>2, Acting
    <3>3. CASE Clean(x)'
      <4>1. x = z
        BY <1>2, <1>3, <1>1, <1>4, <2>1, <3>3
      <4> QED
        BY <3>1, <3>3, <4>1
    <3> QED
      BY <1>4, <3>2, <3>3
  <2> QED
    BY <2>1, <2>2, <2>3
<1>5. Clean(x)' => i > 0
  BY <1>1, <1>2, <1>3
<1> QED
  BY <1>4, <1>5 DEF OwnStat

LEMMA ActsOwnFile ==
  ASSUME TypeInv, TypeInv', Stories, Apart, NEW paths, NEW noted, NEW b, NEW what, Acts(paths, noted, b, what),
         Origins(paths, b), NEW r \in DOMAIN db.files
  PROVE  OwnFile(r)'
<1> PICK i, x : i = Stat(r).inode /\ x = PathOf(r)
  OBVIOUS
<1>1. /\ i \in Nat /\ i <= fresh /\ fresh \in Nat /\ x \in Path
      /\ Stat(r)' = Stat(r) /\ PathOf(r)' = x
  BY Inodes, RowsKnown, Acting
<1>2. (Clean(x) => i > 0) /\ \A y \in Path : Exists(y) /\ i = disk[y].inode /\ (Clean(x) \/ Clean(y)) => Near(x, y)
  BY DEF Apart, OwnFile
<1>3. /\ \A y \in Path : Clean(y)' => Clean(y)
      /\ \A u \in Path, v \in paths : u \notin paths /\ Clean(u)' => ~Near(v, u)
      /\ paths \subseteq Path
  BY Acting DEF Befell, Acts
<1>4. \A u, v : Near(u, v) => Near(u, v)'
  BY Acting DEF Near
<1>5. ASSUME NEW y \in Path, Exists(y)', i = disk'[y].inode, Clean(x)' \/ Clean(y)' PROVE Near(x, y)'
  <2>1. PICK z \in Path :
          /\ Exists(z) /\ disk[z].inode = disk'[y].inode
          /\ z = y \/ (/\ z \in paths /\ y \in paths /\ (~Up \/ Near(z, y)')
                       /\ (b = TRUE \/ WorkHere(z) = {}))
    BY <1>1, <1>5 DEF Origins
  <2>2. CASE z = y
    <3>1. Near(x, y)
      BY <1>2, <1>3, <1>1, <1>5, <2>1, <2>2
    <3> QED
      BY <1>4, <3>1
  <2>3. CASE z \in paths /\ y \in paths /\ (~Up \/ Near(z, y)') /\ (b = TRUE \/ WorkHere(z) = {})
    <3>1. ASSUME Clean(z)' PROVE Near(x, y)'
      <4>1. Up /\ b # TRUE /\ Clean(z)
        BY <2>3, <3>1, Acting
      <4>2. Near(x, z)
        BY <1>2, <1>5, <2>1, <4>1
      <4>3. x = z
        BY <2>3, <4>1, <4>2, WorkIs DEF Near
      <4> QED
        BY <2>3, <4>1, <4>3
    <3>2. CASE Clean(y)'
      BY <2>3, <3>1, <3>2, Acting
    <3>3. CASE Clean(x)'
      <4>1. Near(z, x)
        BY <1>2, <1>3, <1>1, <1>5, <2>1, <3>3, NearSymmetric
      <4>2. x \in paths
        BY <1>1, <1>3, <2>3, <3>3, <4>1
      <4> QED
        BY <2>3, <3>1, <3>3, <4>2, Acting
    <3> QED
      BY <1>5, <3>2, <3>3
  <2> QED
    BY <2>1, <2>2, <2>3
<1>6. Clean(x)' => i > 0
  BY <1>1, <1>2, <1>3
<1> QED
  BY <1>1, <1>5, <1>6 DEF OwnFile

LEMMA ActsApart ==
  ASSUME TypeInv, TypeInv', Stories, Apart, NEW paths, NEW noted, NEW b, NEW what, Acts(paths, noted, b, what),
         Origins(paths, b), OneFile'
  PROVE  Apart'
<1>1. /\ \A x : Rows(x)' = Rows(x) /\ There(x)' = There(x)
      /\ \A r : Stat(r)' = Stat(r) /\ PathOf(r)' = PathOf(r) /\ (Linked(r)' <=> Linked(r)) /\ LinkId(r)' = LinkId(r)
      /\ DOMAIN db'.files = DOMAIN db.files
      /\ Work \subseteq Work' /\ Work' \subseteq Work \cup Range(noted) /\ Changing' = Changing
      /\ status' = status
  BY Acting
<1>2. /\ \A x \in Path : Clean(x)' => Clean(x)
      /\ Befell(paths, b, Excuse(what)) /\ paths \in SUBSET Path /\ b \in BOOLEAN
  <2>1. Befell(paths, b, Excuse(what))
    BY Acting
  <2>2. paths \in SUBSET Path /\ b \in BOOLEAN
    BY DEF Acts
  <2> QED
    BY <2>1, <2>2 DEF Befell
<1>3. /\ \A w \in Work : Alike(w)'
      /\ \A x, y : Near(x, y) => Near(x, y)'
      /\ AbortsOnlyOnRaces'
  BY <1>1, <1>2, BefallenApart
<1>4. ASSUME NEW w \in Range(noted) PROVE Alike(w)'
  <2>1. \A x \in Path : On(w, x) => x \in paths
    BY <1>4 DEF Acts
  <2>2. \A x, y \in paths : Clean(x)' => Clean(y)'
    BY Acting
  <2> QED
    BY <2>1, <2>2 DEF Alike, On
<1>5. (\A w \in Work : Alike(w))'
  BY <1>1, <1>3, <1>4
<1>6. ASSUME NEW w \in Changing PROVE OwnRow(w)' /\ OwnCid(w)' /\ OwnStat(w)'
  <2>1. OwnRow(w) /\ OwnCid(w)
    BY DEF Apart
  <2>2. OwnRow(w)' /\ OwnCid(w)'
    BY <1>1, <1>2, <2>1 DEF OwnRow, OwnCid, On
  <2>3. ASSUME Looked(w) PROVE OwnStat(w)'
    BY <2>3, ActsOwnStat
  <2>4. ASSUME ~Looked(w) PROVE OwnStat(w)'
    BY <2>4 DEF OwnStat, Looked, Local
  <2> QED
    BY <2>2, <2>3, <2>4
<1>7. (\A w \in Changing : OwnRow(w) /\ OwnCid(w) /\ OwnStat(w))'
  BY <1>1, <1>6
<1>8. ASSUME NEW r \in DOMAIN db.files PROVE OwnLink(r)'
  <2>1. OwnLink(r)
    BY DEF Apart
  <2> QED
    BY <1>1, <1>2, <1>3, <2>1 DEF OwnLink
<1>9. (\A r \in DOMAIN db.files : OwnFile(r) /\ OwnLink(r))'
  BY <1>1, <1>8, ActsOwnFile
<1>10. Down'
  <2>1. CASE Up
    BY <1>1, <2>1, UpStays
  <2>2. CASE ~Up
    <3>1. Work = {} /\ expected = NothingExpected /\ Changing = {} /\ expected' = expected
      BY <2>2, Unseen DEF Changing, Acts
    <3>2. Queued' = {}
      <4>1. notices' = <<>> /\ events' = <<>>
        BY <2>2, Unseen DEF Acts
      <4> QED
        BY <4>1, Single DEF Queued
    <3>3. Work' = {}
      BY <1>1, <3>1, <3>2, WorkNext
    <3> QED
      BY <3>1, <3>3 DEF Down
  <2> QED
    BY <2>1, <2>2
<1> QED
  BY <1>3, <1>5, <1>7, <1>9, <1>10 DEF Apart

LEMMA ReplacedOne ==
  ASSUME TypeInv, TypeInv', Apart, NEW p, Replaced(p)
  PROVE  OneFile'
<1> SUFFICES ASSUME NEW x \in Path, NEW y \in Path, Exists(x)', disk'[x].inode = disk'[y].inode
             PROVE  x = y
  BY DEF OneFile
<1>1. Exists(y)'
  BY DEF TypeInv, DiskTyped
<1> PICK i, j : i = disk'[x].inode /\ j = disk'[y].inode
  OBVIOUS
<1>2. ASSUME x # p, y # p PROVE x = y
  <2>1. disk'[x] = disk[x] /\ disk'[y] = disk[y]
    BY <1>2 DEF Replaced
  <2>2. Exists(x)
    BY <2>1 DEF Exists, NoFile
  <2> QED
    BY <2>1, <2>2 DEF Apart, OneFile
<1>3. ASSUME x = p, y # p PROVE FALSE
  <2>1. i > fresh /\ j = disk[y].inode
    BY <1>3 DEF Replaced
  <2> QED
    BY <2>1, Inodes
<1>4. ASSUME y = p, x # p PROVE FALSE
  <2>1. j > fresh /\ i = disk[x].inode
    BY <1>1, <1>4 DEF Replaced
  <2> QED
    BY <2>1, Inodes
<1> QED
  BY <1>2, <1>3, <1>4

LEMMA ReplacedOrigins ==
  ASSUME TypeInv, TypeInv', NEW p, Replaced(p), NEW b
  PROVE  Origins({p}, b)
<1> SUFFICES ASSUME NEW y \in Path, Exists(y)', disk'[y].inode <= fresh
             PROVE  Exists(y) /\ disk[y].inode = disk'[y].inode
  BY DEF Origins
<1>1. disk'[y].inode \in Nat
  BY DEF TypeInv, DiskTyped, File
<1> QED
  BY <1>1, ReplacedInode

(* One path written, or emptied. *)
Writes(p, f, noted, b, what) ==
  /\ User(New1(p, f), noted, b, what) /\ Struck({p}, b, what)
  /\ \A v \in Range(noted), x \in Path : On(v, x) => x = p
  /\ \A x \in Path : x # p => (x \in beside' <=> x \in beside)
Wrote(p, f, noted, b, what) ==
  /\ Acts({p}, noted, b, what)
  /\ disk'[p] = f /\ \A x \in Path : x # p => disk'[x] = disk[x]
LEMMA Wrotes ==
  ASSUME TypeInv, NEW p \in Path, NEW f, NEW noted \in Seq(Event), NEW b \in BOOLEAN, NEW what,
         Writes(p, f, noted, b, what)
  PROVE  Wrote(p, f, noted, b, what)
<1>1. User(New1(p, f), noted, b, what)
  BY DEF Writes
<1>2. Struck({p}, b, what)
  BY DEF Writes
<1>3. \A v \in Range(noted), x \in Path : On(v, x) => x = p
  BY DEF Writes
<1>4. \A x \in Path : x # p => (x \in beside' <=> x \in beside)
  BY DEF Writes
<1> PICK files : files = New1(p, f)
  OBVIOUS
<1>11. DOMAIN files = {p} /\ files[p] = f
  BY DEF New1
<1>12. /\ disk' = [x \in Path |-> IF x \in DOMAIN files THEN files[x] ELSE disk[x]]
       /\ notices' = IF Up THEN notices \o noted ELSE <<>>
       /\ Befalls(DOMAIN files, b, Excuse(what))
       /\ UNCHANGED <<events, seen, out, expected, changes, running, db, remote, status>>
  BY <1>1 DEF User, Excuse
<1>13. disk'[p] = f /\ \A x \in Path : x # p => disk'[x] = disk[x]
  BY <1>11, <1>12
<1>14. {p} \in SUBSET Path
  OBVIOUS
<1>15. \A x \in Path : x \notin {p} => disk'[x] = disk[x] /\ (Exists(x) \/ (x \in beside' <=> x \in beside))
  BY <1>4, <1>13
<1>16. \A v \in Range(noted), x \in Path : On(v, x) => x \in {p}
  BY <1>3
<1>17. Befalls({p}, b, Excuse(what))
  BY <1>11, <1>12
<1>18. Acts({p}, noted, b, what)
  BY <1>2, <1>12, <1>14, <1>15, <1>16, <1>17 DEF Acts
<1> QED
  BY <1>13, <1>18 DEF Wrote

(* A new file where there was none. *)
LEMMA CreateTold ==
  ASSUME TypeInv, TypeInv', Stories, Apart, NEW p \in Path, NEW noted, NEW b, NEW what,
         Acts({p}, noted, b, what), b # TRUE => ~Busy(p), what = {} => ~Exists(p), Exists(p)',
         Range(noted) \subseteq Creations(p) \cup Edits(p), Range(noted) \cap Creations(p) # {},
         \A v, w \in Creations(p) : ~Before(noted, v, w), Clean(p)'
  PROVE  Told(p)'
<1>1. Up /\ ~Busy(p) /\ ~Exists(p) /\ Clean(p)
  BY Acting
<1>2. WorkHere(p) = {} /\ ~Awaits(p)
  BY <1>1, WorkIs DEF Busy, Awaits
<1>3. EventsOn(p) = {} /\ LineOn(p) = {} /\ RunsOn(p) = {} /\ Nowhere(p)
  BY <1>1, <1>2, IdleTold DEF Stories
<1>4. /\ Rows(p)' = Rows(p) /\ There(p)' = There(p) /\ (Awaits(p)' <=> Awaits(p))
      /\ LineOn(p)' = LineOn(p) /\ RunsOn(p)' = RunsOn(p)
  BY Acting
<1>5. /\ Queued' = Queued \cup Range(noted)
      /\ \A v, w : Earlier(v, w)' <=>
           Earlier(v, w) \/ Before(noted, v, w) \/ (v \in Queued /\ w \in Range(noted))
  BY <1>1, Acting DEF QueueGains
<1>6. \A v \in Creations(p) \cup Edits(p) : On(v, p)
  BY NoticesOn
<1>7. EventsOn(p)' = Range(noted)
  BY <1>3, <1>5, <1>6 DEF EventsOn
<1>8. \A v \in Creations(p) : v \notin Queued
  BY <1>3, <1>6 DEF EventsOn
<1>9. \A v, w \in Creations(p) : ~Earlier(v, w)'
  BY <1>5, <1>8, EarlierIn
<1>10. CreationSeen(p)'
  BY <1>3, <1>4, <1>7, <1>9 DEF CreationSeen, Creations, Notice, NoTo
<1>11. Creating(p)'
  BY <1>2, <1>3, <1>4, <1>7, <1>10 DEF Creating, Nowhere, Creations, Edits, Notice, NoTo
<1> QED
  BY <1>11 DEF Told, Alone

(* Where a user may edit a file that the program is at work on. *)
LEMMA EditAlone ==
  ASSUME TypeInv, NEW p \in Path, Told(p), Exists(p), ~EditRaces(p)
  PROVE  Alone(p) /\ (Creating(p) \/ \E r \in Rows(p) : Kept(p, r)) /\ ~Awaits(p)
<1>1. ~Awaits(p) /\ \A w \in WorkHere(p) : ~Bothers(w)
  BY WorkIs DEF EditRaces, Awaits
<1>2. ASSUME NEW w \in WorkHere(p), NEW q \in Path, NEW z \in Path, Moving(w, z, q) PROVE Bothers(w)
  <2>1. z # Tmp /\ z \in Path
    BY Ids
  <2>2. CASE UserMoving(w, z, q)
    <3>1. w.path = z /\ w.type \in {"rename", "Move"}
      BY <2>2 DEF UserMoving
    <3> QED
      BY <2>1, <3>1 DEF Bothers
  <2>3. CASE CloudMoving(w, z, q)
    BY <2>3 DEF CloudMoving, Bothers
  <2>4. CASE CloudMoved(w, z, q)
    <3>1. w.by = "program"
      BY <2>4, NoticeIs DEF CloudMoved, Renamed
    <3> QED
      BY <3>1 DEF Bothers
  <2> QED
    BY <1>2, <2>2, <2>3, <2>4 DEF Moving
<1>3. ~InPair(p)
  BY <1>1, <1>2 DEF InPair, Pair
<1>4. Alone(p)
  BY <1>3 DEF Told
<1>5. ASSUME NEW w \in WorkHere(p), CloudNew(w, p) \/ CloudUpdate(w, p) \/ CloudDelete(w, p) PROVE FALSE
  BY <1>1, <1>5 DEF CloudNew, CloudUpdate, CloudDelete, Bothers
<1>6. ~Absent(p) /\ \A w : ~Deleting(w, p)
  BY DEF Absent, Deleting
<1> QED
  BY <1>1, <1>4, <1>5, <1>6 DEF Alone

LEMMA EditStruck ==
  ASSUME TypeInv, Stories, NEW p \in Path, Exists(p), NEW b, b # TRUE => ~EditRaces(p)
  PROVE  Struck({p}, b, {})
<1>1. CASE b = TRUE
  BY <1>1 DEF Struck
<1>2. CASE b # TRUE
  <2>1. ASSUME Clean(p), NEW y \in Path, Near(p, y) PROVE p = y
    <3>1. Alone(p)
      BY <1>2, <2>1, EditAlone DEF Stories
    <3> QED
      BY <2>1, <3>1, AloneNear, NearSymmetric
  <2> QED
    BY <2>1 DEF Struck
<1> QED
  BY <1>1, <1>2

LEMMA Hashes ==
  ASSUME TypeInv
  PROVE  /\ \A p \in Path : disk[p].hash \in Nat /\ disk[p].hash <= fresh
         /\ \A r \in DOMAIN db.files : Stat(r).hash \in Nat /\ Stat(r).hash <= fresh
         /\ \A c \in Changing : c.stat.hash \in Nat /\ c.stat.hash <= fresh
         /\ fresh \in Nat
<1>1. \A p \in Path : disk[p].hash \in Nat /\ disk[p].hash <= fresh
  BY DEF TypeInv, DiskTyped, Within, File
<1>2. \A r \in DOMAIN db.files : Stat(r).hash \in Nat /\ Stat(r).hash <= fresh
  BY DEF TypeInv, DbTyped, Rowed, Within, Stat, Stamp
<1>3. \A c \in Changing : c.stat.hash \in Nat /\ c.stat.hash <= fresh
  BY ChangingTyped DEF Proper, Within, Change, Stamp
<1> QED
  BY <1>1, <1>2, <1>3 DEF TypeInv, RestTyped

(* An edit. *)
LEMMA EditTold ==
  ASSUME TypeInv, TypeInv', Stories, Apart, NEW p \in Path, NEW noted, NEW b, NEW e,
         Acts({p}, noted, b, {}), b # TRUE => ~EditRaces(p), Exists(p), Exists(p)',
         disk'[p].hash > fresh, disk'[p].by = "user",
         e \in Edits(p), Range(noted) = {e}, \A v, w : ~Before(noted, v, w), Clean(p)'
  PROVE  Told(p)'
<1>1. Up /\ ~EditRaces(p) /\ Clean(p)
  BY Acting
<1>2. (Creating(p) \/ \E r \in Rows(p) : Kept(p, r)) /\ ~Awaits(p)
  BY <1>1, EditAlone DEF Stories
<1>3. /\ Rows(p)' = Rows(p) /\ There(p)' = There(p) /\ (Awaits(p)' <=> Awaits(p))
      /\ LineOn(p)' = LineOn(p) /\ RunsOn(p)' = RunsOn(p)
      /\ \A r : Stat(r)' = Stat(r) /\ (Linked(r)' <=> Linked(r)) /\ LinkId(r)' = LinkId(r)
      /\ \A n : HashAt(n)' = HashAt(n)
      /\ \A v, w : Sooner(v, w)' <=> Sooner(v, w)
  BY Acting
<1>4. /\ Queued' = Queued \cup {e}
      /\ \A v, w : Earlier(v, w)' => Earlier(v, w) \/ w = e
  BY <1>1, Acting DEF QueueGains
<1>5. EventsOn(p)' = EventsOn(p) \cup {e}
  BY <1>4, NoticesOn DEF EventsOn
<1>6. e \notin Creations(p) /\ e # Destroyed(p)
  BY EventKinds
<1>7. CASE Creating(p)
  <2>1. EventsOn(p)' \subseteq Creations(p) \cup Edits(p)
    BY <1>5, <1>7 DEF Creating
  <2>2. EventsOn(p)' \cap Creations(p) = EventsOn(p) \cap Creations(p)
    BY <1>5, <1>6
  <2>3. ASSUME CreationSeen(p) PROVE CreationSeen(p)'
    <3>1. \A v, w \in Creations(p) : ~Earlier(v, w)'
      BY <1>4, <1>6, <2>3 DEF CreationSeen
    <3> QED
      BY <1>3, <2>2, <2>3, <3>1 DEF CreationSeen, Creations, Notice, NoTo
  <2>4. ASSUME NEW c \in LineOn(p), CreationInLine(c, p) PROVE CreationInLine(c, p)'
    BY <1>3, <2>2, <2>4 DEF CreationInLine, Creations, Notice, NoTo
  <2>5. CreationSeen(p)' \/ \E c \in LineOn(p)' : CreationInLine(c, p)'
    BY <1>3, <1>7, <2>3, <2>4 DEF Creating
  <2>6. Creating(p)'
    BY <1>2, <1>3, <1>7, <2>1, <2>5 DEF Creating, Nowhere, Creations, Edits, Notice, NoTo
  <2> QED
    BY <2>6 DEF Told, Alone
<1>8. CASE \E r \in Rows(p) : Kept(p, r)
  <2>1. PICK r \in Rows(p) : Kept(p, r)
    BY <1>8
  <2> PICK h : h = disk'[p].hash
    OBVIOUS
  <2>2. /\ Stat(r).hash \in Nat /\ Stat(r).hash < h /\ h \in Nat
        /\ \A c \in LineOn(p) : c.stat.hash \in Nat /\ c.stat.hash < h
    <3>1. r \in DOMAIN db.files
      BY <2>1, RowsKnown
    <3>2. \A c \in LineOn(p) : c \in Changing
      BY DEF LineOn, Changing
    <3>3. h \in Nat
      BY DEF TypeInv, DiskTyped, File
    <3> QED
      BY <3>1, <3>2, <3>3, Hashes
  <2>3. DestroyAwaited(p)'
    <3>1. ~Awaits(p)' /\ Destroyed(p) \notin EventsOn(p)'
      BY <1>2, <1>3, <1>5, <1>6, <2>1 DEF Kept, KeptRow, DestroyAwaited
    <3>2. ~Earlier(Destroyed(p), Destroyed(p))'
      BY <1>4, <1>6, <2>1 DEF Kept, KeptRow, DestroyAwaited
    <3> QED
      BY <3>1, <3>2 DEF DestroyAwaited, Destroyed, Notice, NoTo
  <2>4. KeptRow(p, r)'
    <3>1. Dated(Stat(r), p)'
      BY <1>3, <2>2 DEF Dated
    <3>2. EventsOn(p)' \subseteq Edits(p) \cup {Destroyed(p), Placed(p)}
      BY <1>5, <2>1 DEF Kept, KeptRow
    <3>3. Rows(p)' = {r}
      BY <1>3, <2>1 DEF Kept, KeptRow
    <3> QED
      BY <2>3, <3>1, <3>2, <3>3 DEF KeptRow, Edits, Destroyed, Placed, Notice, NoTo
  <2>5. KeptLine(p, r)'
    <3>1. \A c \in LineOn(p) : c.type = "Update" /\ c.gid = r /\ c.path = p /\ Local(c)
      BY <2>1 DEF Kept, KeptLine
    <3>2. \A c \in LineOn(p)' : Dated(c.stat, p)' /\ ~Newest(c, p)'
      BY <1>3, <2>2 DEF Dated, Newest
    <3> QED
      BY <1>3, <3>1, <3>2 DEF KeptLine, Local
  <2>6. KeptRuns(p, r)'
    <3>1. ASSUME NEW c \in RunsOn(p), KeptRun(c, p, r) PROVE KeptRun(c, p, r)'
      BY <1>3, <3>1 DEF KeptRun, Local
    <3> QED
      BY <1>3, <2>1, <3>1 DEF Kept, KeptRuns
  <2>7. KeptFlow(p, r)'
    <3>1. Stat(r)'.hash # h
      BY <1>3, <2>2
    <3>2. e \in EventsOn(p)' \cap (Edits(p) \cup {Placed(p)})
      BY <1>5
    <3> QED
      BY <3>1, <3>2 DEF KeptFlow, Edits, Placed, Notice, NoTo
  <2>8. Kept(p, r)'
    BY <2>4, <2>5, <2>6, <2>7 DEF Kept
  <2> QED
    BY <1>3, <2>8 DEF Told, Alone
<1> QED
  BY <1>2, <1>7, <1>8

LEMMA ActsClean ==
  ASSUME TypeInv, TypeInv', Stories, Apart, NEW paths, NEW noted, NEW b, NEW what, Acts(paths, noted, b, what),
         NEW p \in paths, Clean(p)'
  PROVE  Up /\ what = {} /\ b # TRUE /\ \A x \in paths : Clean(x) /\ Clean(x)'
<1>1. Befell(paths, b, Excuse(what))
  BY Acting
<1>2. Excuse(what) = {} /\ b # TRUE /\ \A x \in paths : Clean(x) /\ Clean(x)'
  BY <1>1 DEF Befell
<1> QED
  BY <1>2 DEF Excuse

(* A user deletes a file. *)
LEMMA RemoveTold ==
  ASSUME TypeInv, TypeInv', Stories, Apart, NEW p \in Path, NEW noted, NEW b, NEW what, NEW e,
         Acts({p}, noted, b, what), b # TRUE => ~Busy(p), Exists(p), ~Exists(p)',
         what = {} => p \notin beside, beside' = beside,
         e \in Removals(p), Range(noted) = {e}, \A v, w : ~Before(noted, v, w), Clean(p)'
  PROVE  Told(p)'
<1>1. Up /\ ~Busy(p) /\ Clean(p) /\ p \notin beside'
  BY Acting
<1>2. WorkHere(p) = {} /\ ~Awaits(p)
  BY <1>1, WorkIs DEF Busy, Awaits
<1>3. /\ EventsOn(p) = {} /\ LineOn(p) = {} /\ RunsOn(p) = {}
      /\ \E r \in Rows(p) : Everywhere(p, r)
  BY <1>1, <1>2, IdleTold DEF Stories
<1>4. /\ Rows(p)' = Rows(p) /\ There(p)' = There(p) /\ (Awaits(p)' <=> Awaits(p))
      /\ LineOn(p)' = LineOn(p) /\ RunsOn(p)' = RunsOn(p)
      /\ SameRows(p) /\ SameThere(p)
  BY Acting
<1>5. /\ Queued' = Queued \cup {e}
      /\ \A v, w : Earlier(v, w)' => Earlier(v, w) \/ (v \in Queued /\ w = e)
  BY <1>1, Acting DEF QueueGains
<1>6. On(e, p)
  BY NoticesOn
<1>7. EventsOn(p)' = {e} /\ e \notin Queued
  BY <1>3, <1>5, <1>6 DEF EventsOn
<1>8. ~Earlier(e, e)'
  BY <1>5, <1>7, EarlierIn
<1>9. OnlyEvent(e, p)'
  BY <1>3, <1>4, <1>7, <1>8 DEF OnlyEvent
<1>10. \E r \in Rows(p)' : Everywhere(p, r)'
  BY <1>3, <1>4, EverywhereStays
<1>11. Deleting(e, p)'
  BY <1>1, <1>2, <1>4, <1>9, <1>10 DEF Deleting, Removals, Notice, NoTo
<1>12. e \in WorkHere(p)'
  BY <1>7 DEF WorkHere
<1> QED
  BY <1>11, <1>12 DEF Told, Alone

(* A user moves a file to where there is none. *)
LEMMA RenameTold ==
  ASSUME TypeInv, TypeInv', Stories, Apart, NEW p \in Path, NEW q \in Path, p # q, NEW noted, NEW b, NEW what,
         NEW e, Acts({p, q}, noted, b, what), b # TRUE => ~Busy(p) /\ ~Busy(q),
         Exists(p), what = {} => ~Exists(q), ~Exists(p)', disk'[q] = disk[p],
         e.type = "rename", e.path = p, e.to = q, e.by = "user",
         Range(noted) = {e}, \A v, w : ~Before(noted, v, w), NEW x \in {p, q}, Clean(x)'
  PROVE  Told(p)' /\ Told(q)'
<1>1. Up /\ ~Busy(p) /\ ~Busy(q) /\ ~Exists(q) /\ Clean(p) /\ Clean(p)' /\ Clean(q) /\ Clean(q)'
  <2> PICK paths : paths = {p, q}
    OBVIOUS
  <2>0. Acts(paths, noted, b, what) /\ x \in paths /\ Clean(x)'
    OBVIOUS
  <2>1. Up /\ what = {} /\ b # TRUE /\ \A y \in paths : Clean(y) /\ Clean(y)'
    BY <2>0, ActsClean
  <2> QED
    BY <2>1
<1>2. WorkHere(p) = {} /\ ~Awaits(p) /\ WorkHere(q) = {} /\ ~Awaits(q)
  BY <1>1, WorkIs DEF Busy, Awaits
<1>3. /\ EventsOn(p) = {} /\ LineOn(p) = {} /\ RunsOn(p) = {}
      /\ \E r \in Rows(p) : Everywhere(p, r) /\ Agreed(r, p)
  BY <1>1, <1>2, IdleTold DEF Stories
<1>4. EventsOn(q) = {} /\ LineOn(q) = {} /\ RunsOn(q) = {} /\ Nowhere(q)
  BY <1>1, <1>2, IdleTold DEF Stories
<1>5. PICK r \in Rows(p) : Everywhere(p, r) /\ Agreed(r, p)
  BY <1>3
<1>6. /\ \A y : /\ Rows(y)' = Rows(y) /\ There(y)' = There(y) /\ (Awaits(y)' <=> Awaits(y))
                /\ LineOn(y)' = LineOn(y) /\ RunsOn(y)' = RunsOn(y)
      /\ \A o : Stat(o)' = Stat(o) /\ (Linked(o)' <=> Linked(o)) /\ LinkId(o)' = LinkId(o)
      /\ \A n : HashAt(n)' = HashAt(n)
  BY Acting
<1>7. /\ Queued' = Queued \cup {e}
      /\ \A v, w : Earlier(v, w)' => Earlier(v, w) \/ (v \in Queued /\ w = e)
  BY <1>1, Acting DEF QueueGains
<1>8. On(e, p) /\ On(e, q)
  BY DEF On
<1>9. EventsOn(p)' = {e} /\ EventsOn(q)' = {e} /\ e \notin Queued
  BY <1>3, <1>4, <1>7, <1>8 DEF EventsOn
<1>10. ~Earlier(e, e)'
  BY <1>7, <1>9, EarlierIn
<1>11. OnlyEvent(e, p)' /\ OnlyEvent(e, q)'
  BY <1>3, <1>4, <1>6, <1>9, <1>10 DEF OnlyEvent
<1>12. Exists(q)' /\ StatOf(q)' = StatOf(p)
  BY DEF Exists, NoFile, StatOf
<1>13. Agreed(r, q)'
  <2>1. Linked(r) /\ Stat(r) = StatOf(p) /\ HashAt(LinkId(r)) = disk[p].hash
    BY <1>5 DEF Agreed
  <2> QED
    BY <1>6, <1>12, <2>1 DEF Agreed
<1>14. /\ Rows(p)' = {r} /\ Rows(q)' = {} /\ There(p)' = {LinkId(r)'} /\ There(q)' = {}
       /\ ~Awaits(p)' /\ ~Awaits(q)'
  BY <1>2, <1>4, <1>5, <1>6 DEF Everywhere, Nowhere
<1>15. UserMoving(e, p, q)'
  BY <1>11, <1>12, <1>13, <1>14 DEF UserMoving
<1>16. e \in WorkHere(p)' /\ e \in WorkHere(q)'
  BY <1>9 DEF WorkHere
<1> QED
  BY <1>1, <1>15, <1>16, BothToldNow DEF Moving

(* The inode of the file goes with it. *)
LEMMA RenameInode ==
  ASSUME TypeInv, TypeInv', Apart, NEW p \in Path, NEW q \in Path, p # q,
         ~Exists(p)', disk'[q] = disk[p], Exists(p),
         \A y \in Path : y \notin {p, q} => disk'[y] = disk[y]
  PROVE  /\ OneFile'
         /\ \A y \in Path : Exists(y)' =>
              /\ y # p
              /\ y = q => disk'[y] = disk[p]
              /\ y # q => disk'[y] = disk[y] /\ Exists(y)
<1>1. ASSUME NEW y \in Path, Exists(y)'
      PROVE  /\ y # p
             /\ y = q => disk'[y] = disk[p]
             /\ y # q => disk'[y] = disk[y] /\ Exists(y)
  <2>1. y # p
    BY <1>1
  <2>2. y # q => disk'[y] = disk[y]
    BY <2>1
  <2> QED
    BY <1>1, <2>1, <2>2 DEF Exists, NoFile
<1>2. \A x, y \in Path : Exists(x) /\ disk[x].inode = disk[y].inode => x = y
  BY DEF Apart, OneFile
<1>3. ASSUME NEW x \in Path, NEW y \in Path, Exists(x)', disk'[x].inode = disk'[y].inode PROVE x = y
  <2>1. Exists(y)'
    BY <1>3 DEF TypeInv, DiskTyped
  <2>2. CASE x = q /\ y # q
    <3>1. disk[p].inode = disk[y].inode /\ y # p
      BY <1>1, <1>3, <2>1, <2>2
    <3> QED
      BY <1>2, <3>1
  <2>3. CASE x # q /\ y = q
    <3>1. disk[x].inode = disk[p].inode /\ x # p /\ Exists(x)
      BY <1>1, <1>3, <2>1, <2>3
    <3> QED
      BY <1>2, <3>1
  <2>4. CASE x # q /\ y # q
    <3>1. disk[x].inode = disk[y].inode /\ Exists(x)
      BY <1>1, <1>3, <2>1, <2>4
    <3> QED
      BY <1>2, <3>1
  <2> QED
    BY <2>2, <2>3, <2>4
<1> QED
  BY <1>1, <1>3 DEF OneFile

-----------------------------------------------------------------------------
(* The users' steps. *)
LEMMA Double ==
  ASSUME NEW d, NEW e
  PROVE  Range(<<d, e>>) = {d, e} /\ \A v, w : Before(<<d, e>>, v, w) => v = d /\ w = e
<1>1. DOMAIN <<d, e>> = {1, 2} /\ <<d, e>>[1] = d /\ <<d, e>>[2] = e
  OBVIOUS
<1>2. Range(<<d, e>>) = {d, e}
  BY <1>1 DEF Range
<1>3. ASSUME NEW v, NEW w, Before(<<d, e>>, v, w) PROVE v = d /\ w = e
  <2>1. PICK i, j \in {1, 2} : i < j /\ <<d, e>>[i] = v /\ <<d, e>>[j] = w
    BY <1>1, <1>3 DEF Before
  <2>2. i = 1 /\ j = 2
    BY <2>1
  <2> QED
    BY <1>1, <2>1, <2>2
<1> QED
  BY <1>2, <1>3

LEMMA IdleStruck ==
  ASSUME NEW paths, NEW b, NEW what, b # TRUE => \A x \in paths : ~Busy(x)
  PROVE  Struck(paths, b, what)
BY WorkIs DEF Struck, Busy

(* What users cause. *)
LEMMA UserNotes ==
  ASSUME NEW p \in Path, NEW noted, noted \in {"destroy", "rename"}
  PROVE  /\ Notice("create", p, NoTo, "user") \in Creations(p) \cap Event
         /\ Notice("rename", p, NoTo, "user") \in Creations(p) \cap Event
         /\ Notice("modify", p, NoTo, "user") \in Edits(p) \cap Event
         /\ Notice("rename", Tmp, p, "user") \in Edits(p) \cap Event
         /\ Notice("rename", p, Tmp, "user") \in Event
         /\ \A x \in Path : On(Notice("rename", p, Tmp, "user"), x) => x = p
         /\ Notice(noted, p, NoTo, "user") \in Removals(p) \cap Event
<1>1. \A x \in Path : On(Notice("rename", p, Tmp, "user"), x) => x = p
  BY Ids, NoticeIs
<1>2. \A type \in {"create", "modify", "destroy", "rename"} : Notice(type, p, NoTo, "user") \in Event
  BY NoticesTyped
<1>3. Notice("rename", Tmp, p, "user") \in Event /\ Notice("rename", p, Tmp, "user") \in Event
  BY NoticesTyped
<1> QED
  BY <1>1, <1>2, <1>3 DEF Creations, Edits, Removals

LEMMA NewFile ==
  ASSUME TypeInv, TypeInv', NEW p \in Path, fresh' = fresh + 1, NEW f, f = FileBy("user"), disk'[p] = f,
         \A x \in Path : x # p => disk'[x] = disk[x]
  PROVE  /\ Replaced(p) /\ Exists(p)' /\ f.hash > fresh /\ f.by = "user"
<1>1. fresh \in Nat /\ fresh' > fresh
  BY DEF TypeInv, RestTyped
<1>2. f.inode = fresh' /\ f.hash = fresh' /\ f.by = "user"
  BY DEF FileBy
<1>3. Exists(p)'
  BY <1>2 DEF Exists, NoFile
<1> QED
  BY <1>1, <1>2, <1>3 DEF Replaced

LEMMA CreatesOk ==
  ASSUME TypeInv, TypeInv', Stories, Apart, NEW p \in Path, UserCreates(p) \/ UserBrings(p)
  PROVE  Stories' /\ Apart'
<1> PICK f, b : f = FileBy("user") /\ b = Busy(p)
  OBVIOUS
<1>1. b \in BOOLEAN
  BY DEF Busy
<1>2. PICK noted, what :
        /\ noted \in Seq(Event)
        /\ User(New1(p, f), noted, b, what) /\ fresh' = fresh + 1 /\ beside' = beside
        /\ what = {} => ~Exists(p)
        /\ Range(noted) \subseteq Creations(p) \cup Edits(p) /\ Range(noted) \cap Creations(p) # {}
        /\ \A v, w \in Creations(p) : ~Before(noted, v, w)
  <2>1. CASE UserCreates(p)
    <3> PICK d, e : d = Notice("create", p, NoTo, "user") /\ e = Notice("modify", p, NoTo, "user")
      OBVIOUS
    <3>1. d \in Creations(p) /\ e \in Edits(p) /\ d \in Event /\ e \in Event
      BY UserNotes
    <3>2. User(New1(p, f), <<d, e>>, b, {}) /\ fresh' = fresh + 1 /\ beside' = beside /\ ~Exists(p)
      BY <2>1 DEF UserCreates
    <3>3. <<d, e>> \in Seq(Event)
      BY <3>1
    <3>4. e \notin Creations(p)
      BY <3>1, EventKinds
    <3>5. Range(<<d, e>>) = {d, e} /\ \A v, w \in Creations(p) : ~Before(<<d, e>>, v, w)
      BY <3>4, Double
    <3>6. Range(<<d, e>>) \subseteq Creations(p) \cup Edits(p) /\ Range(<<d, e>>) \cap Creations(p) # {}
      BY <3>1, <3>5
    <3> QED
      BY <3>2, <3>3, <3>5, <3>6
  <2>2. CASE UserBrings(p)
    <3> PICK d, what : d = Notice("rename", p, NoTo, "user") /\ what = IF Exists(p) THEN {"overwritten"} ELSE {}
      OBVIOUS
    <3>1. d \in Creations(p) /\ d \in Event
      BY UserNotes
    <3>2. User(New1(p, f), <<d>>, b, what) /\ fresh' = fresh + 1 /\ beside' = beside
      BY <2>2 DEF UserBrings
    <3>3. <<d>> \in Seq(Event)
      BY <3>1
    <3>4. Range(<<d>>) = {d} /\ \A v, w : ~Before(<<d>>, v, w)
      BY Single
    <3>5. Range(<<d>>) \subseteq Creations(p) \cup Edits(p) /\ Range(<<d>>) \cap Creations(p) # {}
      BY <3>1, <3>4
    <3>6. what = {} => ~Exists(p)
      OBVIOUS
    <3> QED
      BY <3>2, <3>3, <3>4, <3>5, <3>6
  <2> QED
    BY <2>1, <2>2
<1>3. \A v \in Range(noted), x \in Path : On(v, x) => x = p
  BY <1>2, Strangers
<1>4. b # TRUE => ~Busy(p)
  BY <1>1
<1>5. /\ Acts({p}, noted, b, what)
      /\ disk'[p] = f /\ \A x \in Path : x # p => disk'[x] = disk[x]
  <2>1. Struck({p}, b, what)
    BY <1>4, IdleStruck
  <2>2. \A x \in Path : x # p => (x \in beside' <=> x \in beside)
    BY <1>2
  <2>3. User(New1(p, f), noted, b, what)
    BY <1>2
  <2>4. Writes(p, f, noted, b, what)
    BY <1>3, <2>1, <2>2, <2>3 DEF Writes
  <2>5. Wrote(p, f, noted, b, what)
    BY <1>1, <1>2, <2>4, Wrotes
  <2> QED
    BY <2>5 DEF Wrote
<1>6. Replaced(p) /\ Exists(p)'
  BY <1>2, <1>5, NewFile
<1>7. Clean(p)' => Told(p)'
  BY <1>2, <1>4, <1>5, <1>6, CreateTold
<1>8. Stories'
  BY <1>5, <1>7, ActsStories
<1>9. Apart'
  BY <1>5, <1>6, ReplacedOne, ReplacedOrigins, ActsApart
<1> QED
  BY <1>8, <1>9

EditsBy(p, f, e) ==
  /\ User(New1(p, f), <<e>>, EditRaces(p), {}) /\ fresh' = fresh + 1 /\ beside' = beside /\ Exists(p)
  /\ f.hash = fresh' /\ f.by = "user"
  /\ f = FileBy("user") \/ f.inode = disk[p].inode

LEMMA EditsOk ==
  ASSUME TypeInv, TypeInv', Stories, Apart, NEW p \in Path, UserEdits(p) \/ UserSaves(p)
  PROVE  Stories' /\ Apart'
<1> PICK b : b = EditRaces(p)
  OBVIOUS
<1>1. b \in BOOLEAN
  BY DEF EditRaces
<1>0. fresh \in Nat /\ disk[p] \in File
  BY DEF TypeInv, DiskTyped, RestTyped
<1>13. \E f : \E e \in Edits(p) \cap Event : EditsBy(p, f, e)
  <2>1. CASE UserEdits(p)
    <3> PICK f : f = [disk[p] EXCEPT !.hash = fresh', !.by = "user"]
      OBVIOUS
    <3> PICK e : e = Notice("modify", p, NoTo, "user")
      OBVIOUS
    <3>1. e \in Edits(p) \cap Event
      BY UserNotes
    <3>2. User(New1(p, f), <<e>>, EditRaces(p), {}) /\ fresh' = fresh + 1 /\ beside' = beside /\ Exists(p)
      BY <2>1 DEF UserEdits
    <3>3. f.hash = fresh' /\ f.by = "user" /\ f.inode = disk[p].inode
      <4>1. disk[p] = [inode |-> disk[p].inode, hash |-> disk[p].hash, by |-> disk[p].by]
        BY <1>0 DEF File
      <4>2. f = [inode |-> disk[p].inode, hash |-> fresh', by |-> "user"]
        BY <4>1, Edited
      <4> QED
        BY <4>2
    <3>4. EditsBy(p, f, e)
      BY <3>2, <3>3 DEF EditsBy
    <3> QED
      BY <3>1, <3>4
  <2>2. CASE UserSaves(p)
    <3> PICK f : f = FileBy("user")
      OBVIOUS
    <3> PICK e : e = Notice("rename", Tmp, p, "user")
      OBVIOUS
    <3>1. e \in Edits(p) \cap Event
      BY UserNotes
    <3>2. User(New1(p, f), <<e>>, EditRaces(p), {}) /\ fresh' = fresh + 1 /\ beside' = beside /\ Exists(p)
      BY <2>2 DEF UserSaves
    <3>3. f.hash = fresh' /\ f.by = "user"
      BY DEF FileBy
    <3>4. EditsBy(p, f, e)
      BY <3>2, <3>3 DEF EditsBy
    <3> QED
      BY <3>1, <3>4
  <2> QED
    BY <2>1, <2>2
<1>14. PICK f : \E e \in Edits(p) \cap Event : EditsBy(p, f, e)
  BY <1>13
<1>2. PICK e \in Edits(p) \cap Event : EditsBy(p, f, e)
  BY <1>14
<1>12. /\ User(New1(p, f), <<e>>, b, {}) /\ fresh' = fresh + 1 /\ beside' = beside /\ Exists(p)
       /\ f.hash = fresh' /\ f.by = "user"
       /\ f = FileBy("user") \/ f.inode = disk[p].inode
  BY <1>2 DEF EditsBy
<1> PICK noted : noted = <<e>>
  OBVIOUS
<1>3. noted \in Seq(Event) /\ Range(noted) = {e} /\ \A v, w : ~Before(noted, v, w)
  BY Single
<1>4. \A v \in Range(noted), x \in Path : On(v, x) => x = p
  BY <1>12, <1>3, Strangers
<1>5. b # TRUE => ~EditRaces(p)
  BY <1>1
<1>6. /\ Acts({p}, noted, b, {})
      /\ disk'[p] = f /\ \A x \in Path : x # p => disk'[x] = disk[x]
  <2>1. Struck({p}, b, {})
    BY <1>12, <1>5, EditStruck
  <2>2. \A x \in Path : x # p => (x \in beside' <=> x \in beside)
    BY <1>12
  <2>3. User(New1(p, f), noted, b, {})
    BY <1>12
  <2> PICK none : none = {}
    OBVIOUS
  <2>4. Writes(p, f, noted, b, none)
    BY <1>4, <2>1, <2>2, <2>3 DEF Writes
  <2>5. Wrote(p, f, noted, b, none)
    BY <1>1, <1>3, <2>4, Wrotes
  <2> QED
    BY <2>5 DEF Wrote
<1>7. Exists(p)' /\ disk'[p].hash > fresh /\ disk'[p].by = "user"
  BY <1>0, <1>12, <1>6 DEF Exists, NoFile
<1>8. Clean(p)' => Told(p)'
  BY <1>12, <1>3, <1>5, <1>6, <1>7, EditTold
<1>9. Stories'
  BY <1>6, <1>8, ActsStories
<1>10. OneFile' /\ Origins({p}, b)
  <2>1. CASE f = FileBy("user")
    <3>1. Replaced(p)
      BY <1>12, <1>6, <2>1, NewFile
    <3> QED
      BY <3>1, ReplacedOne, ReplacedOrigins
  <2>2. CASE f.inode = disk[p].inode
    <3>1. \A x \in Path : disk'[x].inode = disk[x].inode /\ (Exists(x)' => Exists(x))
      <4> TAKE x \in Path
      <4>1. CASE x = p
        BY <1>12, <1>6, <2>2, <4>1
      <4>2. CASE x # p
        BY <1>6, <4>2 DEF Exists, NoFile
      <4> QED
        BY <4>1, <4>2
    <3>2. OneFile'
      BY <3>1 DEF OneFile, Apart
    <3>3. Origins({p}, b)
      BY <3>1 DEF Origins
    <3> QED
      BY <3>2, <3>3
  <2> QED
    BY <1>12, <2>1, <2>2
<1>11. Apart'
  BY <1>6, <1>10, ActsApart
<1> QED
  BY <1>9, <1>11

LEMMA Triple ==
  ASSUME NEW c, NEW d, NEW e
  PROVE  Range(<<c, d, e>>) = {c, d, e}
BY DEF Range

LEMMA RenewsOk ==
  ASSUME TypeInv, TypeInv', Stories, Apart, NEW p \in Path, UserRenews(p)
  PROVE  Stories' /\ Apart'
<1> PICK f, b, what : f = FileBy("user") /\ b = Busy(p) /\ what = {"renewed"}
  OBVIOUS
<1> PICK c, d, e : /\ c = Notice("rename", p, Tmp, "user") /\ d = Notice("create", p, NoTo, "user")
                   /\ e = Notice("modify", p, NoTo, "user")
  OBVIOUS
<1> PICK noted : noted = <<c, d, e>>
  OBVIOUS
<1>1. b \in BOOLEAN /\ (b # TRUE => ~Busy(p))
  BY DEF Busy
<1>2. User(New1(p, f), noted, b, what) /\ fresh' = fresh + 1 /\ beside' = beside \cup {p}
  BY DEF UserRenews
<1>3. c \in Event /\ d \in Creations(p) \cap Event /\ e \in Edits(p) \cap Event /\ \A x \in Path : On(c, x) => x = p
  BY UserNotes
<1>4. noted \in Seq(Event)
  BY <1>3
<1>5. Range(noted) = {c, d, e}
  BY Triple
<1>6. \A v \in Range(noted), x \in Path : On(v, x) => x = p
  BY <1>3, <1>5, Strangers
<1>7. Struck({p}, b, what)
  BY <1>1, IdleStruck
<1>8. \A x \in Path : x # p => (x \in beside' <=> x \in beside)
  BY <1>2
<1>9. Writes(p, f, noted, b, what)
  BY <1>2, <1>6, <1>7, <1>8 DEF Writes
<1>10. Wrote(p, f, noted, b, what)
  BY <1>1, <1>4, <1>9, Wrotes
<1>11. Acts({p}, noted, b, what) /\ disk'[p] = f /\ \A x \in Path : x # p => disk'[x] = disk[x]
  BY <1>10 DEF Wrote
<1>12. Replaced(p)
  BY <1>2, <1>11, NewFile
<1>13. what # {}
  OBVIOUS
<1>14. ~Clean(p)'
  <2>1. p \in {p}
    OBVIOUS
  <2>2. Clean(p)' => what = {}
    BY <1>11, <2>1, ActsClean
  <2> QED
    BY <1>13, <2>2
<1>15. Stories'
  BY <1>11, <1>14, ActsStories
<1>16. Apart'
  BY <1>11, <1>12, ReplacedOne, ReplacedOrigins, ActsApart
<1> QED
  BY <1>15, <1>16

LEMMA DeletesOk ==
  ASSUME TypeInv, TypeInv', Stories, Apart, NEW p \in Path, NEW type \in {"destroy", "rename"}, UserDeletes(p, type)
  PROVE  Stories' /\ Apart'
<1> PICK b, what : b = Busy(p) /\ what = IF p \in beside THEN {"hidden"} ELSE {}
  OBVIOUS
<1> PICK e : e = Notice(type, p, NoTo, "user")
  OBVIOUS
<1> PICK noted : noted = <<e>>
  OBVIOUS
<1>1. b \in BOOLEAN /\ (b # TRUE => ~Busy(p)) /\ (what = {} => p \notin beside)
  BY DEF Busy
<1>2. User(New1(p, NoFile), noted, b, what) /\ beside' = beside /\ fresh' = fresh /\ Exists(p)
  BY DEF UserDeletes
<1>3. e \in Removals(p) \cap Event
  BY UserNotes
<1>4. noted \in Seq(Event) /\ Range(noted) = {e} /\ \A v, w : ~Before(noted, v, w)
  BY <1>3, Single
<1>5. \A v \in Range(noted), x \in Path : On(v, x) => x = p
  BY <1>3, <1>4, Strangers
<1>6. Struck({p}, b, what)
  BY <1>1, IdleStruck
<1>7. \A x \in Path : x # p => (x \in beside' <=> x \in beside)
  BY <1>2
<1> PICK f : f = NoFile
  OBVIOUS
<1>8. User(New1(p, f), noted, b, what)
  BY <1>2
<1>9. Writes(p, f, noted, b, what)
  BY <1>5, <1>6, <1>7, <1>8 DEF Writes
<1>10. Wrote(p, f, noted, b, what)
  BY <1>1, <1>4, <1>9, Wrotes
<1>11. Acts({p}, noted, b, what) /\ disk'[p] = f /\ \A x \in Path : x # p => disk'[x] = disk[x]
  BY <1>10 DEF Wrote
<1>12. ~Exists(p)'
  BY <1>11 DEF Exists
<1>13. Replaced(p)
  BY <1>2, <1>11, <1>12 DEF Replaced
<1>14. Clean(p)' => Told(p)'
  BY <1>1, <1>2, <1>3, <1>4, <1>11, <1>12, RemoveTold
<1>15. Stories'
  BY <1>11, <1>14, ActsStories
<1>16. Apart'
  BY <1>11, <1>13, ReplacedOne, ReplacedOrigins, ActsApart
<1> QED
  BY <1>15, <1>16

LEMMA BacksUpOk ==
  ASSUME TypeInv, TypeInv', Stories, Apart, NEW p \in Path, UserBacksUp(p)
  PROVE  Stories' /\ Apart'
<1> PICK files, noted, what, none, b :
      files = <<>> /\ noted = <<>> /\ what = {} /\ none = {} /\ b = FALSE
  OBVIOUS
<1>1. User(files, noted, b, what) /\ beside' = beside \cup {p} /\ Exists(p) /\ fresh' = fresh
  BY DEF UserBacksUp
<1>2. /\ disk' = [x \in Path |-> IF x \in DOMAIN files THEN files[x] ELSE disk[x]]
      /\ notices' = IF Up THEN notices \o noted ELSE <<>>
      /\ Befalls(DOMAIN files, b, Excuse(what))
      /\ UNCHANGED <<events, seen, out, expected, changes, running, db, remote, status>>
  BY <1>1 DEF User, Excuse
<1>3. DOMAIN files = none
  OBVIOUS
<1>4. Befalls(none, b, Excuse(what))
  BY <1>2, <1>3
<1>5. \A x \in Path : disk'[x] = disk[x]
  BY <1>2, <1>3
<1>6. noted \in Seq(Event) /\ Range(noted) = {}
  BY EmptySeq, Single
<1>7. \A x \in Path : disk'[x] = disk[x] /\ (Exists(x) \/ (x \in beside' <=> x \in beside))
  BY <1>1, <1>5
<1>8. Struck(none, b, what)
  BY DEF Struck
<1>9. Acts(none, noted, b, what)
  BY <1>2, <1>4, <1>6, <1>7, <1>8 DEF Acts
<1>10. Origins(none, b)
  BY <1>5 DEF Origins, Exists, NoFile
<1>11. OneFile'
  BY <1>5 DEF OneFile, Exists, NoFile, Apart
<1>12. Stories'
  BY <1>9, ActsStories
<1>13. Apart'
  BY <1>9, <1>10, <1>11, ActsApart
<1> QED
  BY <1>12, <1>13

LEMMA MovesOk ==
  ASSUME TypeInv, TypeInv', Stories, Apart, NEW p \in Path, NEW q \in Path, UserMoves(p, q)
  PROVE  Stories' /\ Apart'
<1> PICK b, what : b = (Busy(p) \/ Busy(q)) /\ what = IF Exists(q) THEN {"overwritten"} ELSE {}
  OBVIOUS
<1> PICK e : e = Notice("rename", p, q, "user")
  OBVIOUS
<1> PICK noted : noted = <<e>>
  OBVIOUS
<1> PICK files : files = [x \in {p, q} |-> IF x = p THEN NoFile ELSE disk[p]]
  OBVIOUS
<1> PICK paths : paths = {p, q}
  OBVIOUS
<1>1. b \in BOOLEAN /\ (b # TRUE => ~Busy(p) /\ ~Busy(q)) /\ (what = {} => ~Exists(q))
  BY DEF Busy
<1>2. User(files, noted, b, what) /\ beside' = beside /\ fresh' = fresh /\ Exists(p) /\ p # q
  BY DEF UserMoves
<1>3. /\ disk' = [x \in Path |-> IF x \in DOMAIN files THEN files[x] ELSE disk[x]]
      /\ notices' = IF Up THEN notices \o noted ELSE <<>>
      /\ Befalls(DOMAIN files, b, Excuse(what))
      /\ UNCHANGED <<events, seen, out, expected, changes, running, db, remote, status>>
  BY <1>2 DEF User, Excuse
<1>4. DOMAIN files = paths /\ files[p] = NoFile /\ files[q] = disk[p]
  BY <1>2
<1>5. Befalls(paths, b, Excuse(what))
  BY <1>3, <1>4
<1>6. disk'[p] = NoFile /\ disk'[q] = disk[p] /\ \A x \in Path : x \notin paths => disk'[x] = disk[x]
  BY <1>3, <1>4
<1>7. e.type = "rename" /\ e.path = p /\ e.to = q /\ e.by = "user" /\ e \in Event /\ \A x : On(e, x) <=> x = p \/ x = q
  BY NoticesTyped, NoticeIs
<1>8. noted \in Seq(Event) /\ Range(noted) = {e} /\ \A v, w : ~Before(noted, v, w)
  BY <1>7, Single
<1>9. \A v \in Range(noted), x \in Path : On(v, x) => x \in paths
  BY <1>7, <1>8
<1>10. Struck(paths, b, what)
  BY <1>1, IdleStruck
<1>11. \A x \in Path : x \notin paths => disk'[x] = disk[x] /\ (Exists(x) \/ (x \in beside' <=> x \in beside))
  BY <1>2, <1>6
<1>12. paths \in SUBSET Path
  OBVIOUS
<1>13. Acts(paths, noted, b, what)
  BY <1>1, <1>3, <1>5, <1>8, <1>9, <1>10, <1>11, <1>12 DEF Acts
<1>14. ~Exists(p)'
  BY <1>6 DEF Exists
<1>15. ASSUME NEW x \in paths, Clean(x)' PROVE Told(x)'
  <2>1. Acts({p, q}, noted, b, what)
    BY <1>13
  <2>2. x \in {p, q} /\ disk'[q] = disk[p]
    BY <1>6
  <2>3. Told(p)' /\ Told(q)'
    BY <1>1, <1>2, <1>7, <1>8, <1>14, <1>15, <2>1, <2>2, RenameTold
  <2> QED
    BY <2>2, <2>3
<1>16. Stories'
  BY <1>13, <1>15, ActsStories
<1>17. /\ OneFile'
       /\ \A y \in Path : Exists(y)' =>
            /\ y # p
            /\ y = q => disk'[y] = disk[p]
            /\ y # q => disk'[y] = disk[y] /\ Exists(y)
  BY <1>2, <1>6, <1>14, RenameInode
<1>18. ASSUME NEW y \in Path, Exists(y)'
       PROVE  \E z \in Path :
                /\ Exists(z) /\ disk[z].inode = disk'[y].inode
                /\ z = y \/ (/\ z \in paths /\ y \in paths /\ (~Up \/ Near(z, y)')
                             /\ (b = TRUE \/ WorkHere(z) = {}))
  <2>1. CASE y # q
    <3>1. Exists(y) /\ disk'[y] = disk[y]
      BY <1>17, <1>18, <2>1
    <3> QED
      BY <3>1
  <2>2. CASE y = q
    <3>1. disk[p].inode = disk'[y].inode
      BY <1>6, <2>2
    <3>2. b = TRUE \/ WorkHere(p) = {}
      BY <1>1, WorkIs DEF Busy
    <3>3. ASSUME Up PROVE Near(p, q)'
      <4>1. e \in Range(notices')
        <5>1. notices' = notices \o noted
          BY <1>3, <3>3
        <5>2. notices \in Seq(Event)
          BY DEF TypeInv, EventsTyped
        <5>3. Range(notices \o noted) = Range(notices) \cup {e}
          BY <1>8, <5>2, Joined
        <5> QED
          BY <5>1, <5>3
      <4>2. e \in Work'
        BY <4>1 DEF Work, Queued
      <4> QED
        BY <1>7, <4>2 DEF Near
    <3> QED
      BY <1>2, <2>2, <3>1, <3>2, <3>3
  <2> QED
    BY <2>1, <2>2
<1>19. Origins(paths, b)
  BY <1>18 DEF Origins
<1>20. Apart'
  BY <1>13, <1>17, <1>19, ActsApart
<1> QED
  BY <1>16, <1>20

LEMMA UsersOk ==
  ASSUME TypeInv, TypeInv', Stories, Apart, Users
  PROVE  Stories' /\ Apart'
<1> PICK p \in Path :
      \/ UserCreates(p) \/ UserBrings(p) \/ UserEdits(p) \/ UserSaves(p) \/ UserRenews(p)
      \/ UserBacksUp(p) \/ (\E noted \in {"destroy", "rename"} : UserDeletes(p, noted))
      \/ \E q \in Path : UserMoves(p, q)
  BY DEF Users
<1> QED
  BY CreatesOk, EditsOk, RenewsOk, BacksUpOk, DeletesOk, MovesOk

-----------------------------------------------------------------------------
(* What the program does does not come back.                                *)
Comes(c) == c \in Range(seen') \cup Range(out') /\ c \notin Range(seen) \cup Range(out)
NoEchoOf(c) == c.by = "program" => ~Clean(c.path) \/ Early(c)

LEMMA ComesFrom ==
  ASSUME TypeInv, NEW c, Comes(c)
  PROVE  /\ ~UNCHANGED <<seen, out>>
         /\ \A d : seen' = seen /\ out' = Append(out, d) => c = d
         /\ \A d : seen' = <<d>> /\ out' = out => c = d
<1>1. ~UNCHANGED <<seen, out>>
  BY DEF Comes
<1>2. ASSUME NEW d, seen' = seen, out' = Append(out, d) PROVE c = d
  <2> PICK S : S = Change \cup {d}
    OBVIOUS
  <2>1. out \in Seq(S) /\ d \in S
    BY DEF TypeInv, LineTyped
  <2>2. Range(Append(out, d)) = Range(out) \cup {d}
    BY <2>1, Longer
  <2>3. Range(out') = Range(out) \cup {d} /\ Range(seen') = Range(seen)
    BY <1>2, <2>2
  <2> QED
    BY <2>3 DEF Comes
<1>3. ASSUME NEW d, seen' = <<d>>, out' = out PROVE c = d
  <2>1. Range(<<d>>) = {d}
    BY Single
  <2>2. Range(seen') = {d} /\ Range(out') = Range(out)
    BY <1>3, <2>1
  <2> QED
    BY <2>2 DEF Comes
<1> QED
  BY <1>1, <1>2, <1>3

LEMMA CreatedEcho ==
  ASSUME TypeInv, NEW c, Comes(c), NEW p, NEW e, Created(p, e)
  PROVE  c.path = p /\ c.by = e.by
<1>1. ~UNCHANGED <<seen, out>>
  BY ComesFrom
<1>2. PICK d : d = ChangeOf("New", 0, p, NoTo, e.by)
  OBVIOUS
<1>3. out' = Append(out, d) /\ seen' = seen
  BY <1>1, <1>2 DEF Created, Awaited, Emits
<1>4. c = d
  BY <1>3, ComesFrom
<1> QED
  BY <1>2, <1>4 DEF ChangeOf

LEMMA DeletedEcho ==
  ASSUME TypeInv, NEW c, Comes(c), NEW p, NEW e, Deleted(p, e)
  PROVE  c.path = p /\ c.by = e.by /\ ~Expects(expected, p, "Delete")
<1>1. ~UNCHANGED <<seen, out>>
  BY ComesFrom
<1>2. PICK d : d = ChangeOf("Delete", GlobalId(db, p), p, NoTo, e.by)
  OBVIOUS
<1>3. out' = Append(out, d) /\ seen' = seen /\ ~Expects(expected, p, "Delete")
  BY <1>1, <1>2 DEF Deleted, Awaited, Emits, Ignored
<1>4. c = d
  BY <1>3, ComesFrom
<1> QED
  BY <1>2, <1>3, <1>4 DEF ChangeOf

LEMMA UpdatedEcho ==
  ASSUME TypeInv, NEW c, Comes(c), NEW p, Updated(p)
  PROVE  /\ c.path = p /\ c.by = disk[p].by /\ c.type = "Update"
         /\ RowFor(p) # 0 /\ Stat(RowFor(p)).hash # disk[p].hash
<1>1. ~UNCHANGED <<seen, out>>
  BY ComesFrom
<1>2. PICK r : r = RowFor(p)
  OBVIOUS
<1>3. PICK d : d = ChangeOf("Update", r, p, NoTo, disk[p].by)
  OBVIOUS
<1>4. seen' = <<d>> /\ out' = out /\ r # 0 /\ Stat(r).hash # disk[p].hash
  BY <1>1, <1>2, <1>3 DEF Updated, Ignored, Stat
<1>5. c = d
  BY <1>4, ComesFrom
<1> QED
  BY <1>2, <1>3, <1>4, <1>5 DEF ChangeOf

LEMMA MovedEcho ==
  ASSUME TypeInv, NEW c, Comes(c), NEW e, Moved(e)
  PROVE  c.path \in {e.path, e.to} /\ c.by = e.by /\ ~Expects(expected, e.path, "Move")
<1>1. ~UNCHANGED <<seen, out>>
  BY ComesFrom
<1>2. ~Expects(expected, e.path, "Move")
  BY <1>1 DEF Moved, Awaited
<1>3. CASE Created(e.to, e)
  BY <1>2, <1>3, CreatedEcho
<1>4. CASE ~Created(e.to, e)
  <2>1. PICK d : d = ChangeOf("Move", CHOOSE gid \in RowsWith(disk[e.to].inode) : TRUE, e.path, e.to, e.by)
    OBVIOUS
  <2>2. out' = Append(out, d) /\ seen' = seen
    BY <1>2, <1>4, <2>1 DEF Moved, Emits
  <2>3. c = d
    BY <2>2, ComesFrom
  <2> QED
    BY <1>2, <2>1, <2>3 DEF ChangeOf
<1> QED
  BY <1>3, <1>4

(* The removals that the program awaits. *)
LEMMA DestroyHeld ==
  ASSUME NEW p \in Path, Alone(p), Destroyed(p) \in EventsOn(p)
  PROVE  Expects(expected, p, "Delete")
<1>1. \/ \E r \in Rows(p) : Kept(p, r)
      \/ Absent(p)
      \/ \E c \in WorkHere(p) : CloudUpdate(c, p)
      \/ \E c \in WorkHere(p) : CloudDelete(c, p)
  BY AloneEvent, EventKinds
<1>2. DestroyAwaited(p)
  <2>1. CASE \E r \in Rows(p) : Kept(p, r)
    BY <2>1 DEF Kept, KeptRow
  <2>2. CASE Absent(p)
    BY <2>2 DEF Absent
  <2>3. CASE \E c \in WorkHere(p) : CloudUpdate(c, p)
    BY <2>3 DEF CloudUpdate, OnlyInLine, OnlyRunning
  <2>4. CASE \E c \in WorkHere(p) : CloudDelete(c, p)
    BY <2>4 DEF CloudDelete, OnlyInLine
  <2> QED
    BY <1>1, <2>1, <2>2, <2>3, <2>4
<1> QED
  BY <1>2 DEF DestroyAwaited, Awaits, Expects

(* An update that is seen, of a file that the program wrote. *)
LEMMA UpdateEcho ==
  ASSUME TypeInv, Stories, Apart, NEW p \in Path, Clean(p), Alone(p), NEW e \in EventsOn(p), e # Destroyed(p),
         e \notin Creations(p), e \notin Removals(p), NEW c, Comes(c), Updated(p), c.by = "program"
  PROVE  Early(c)
<1>1. /\ c.path = p /\ disk[p].by = "program" /\ c.type = "Update"
      /\ RowFor(p) # 0 /\ Stat(RowFor(p)).hash # disk[p].hash
  BY UpdatedEcho
<1>2. Exists(p)
  <2>1. ~UNCHANGED <<seen, out>>
    BY ComesFrom
  <2> QED
    BY <2>1 DEF Updated, Ignored
<1>3. ASSUME NEW r \in Rows(p), Kept(p, r) PROVE FALSE
  <2>1. Rows(p) = {r} /\ Stat(r).hash = disk[p].hash
    BY <1>1, <1>3 DEF Kept, KeptRow, KeptFlow
  <2> QED
    BY <1>1, <1>2, <2>1, RowForOwn
<1>4. ASSUME Rows(p) = {} PROVE FALSE
  BY <1>1, <1>2, <1>4, RowForOwn
<1>5. PICK d \in WorkHere(p) : CloudUpdate(d, p)
  <2>1. \/ Creating(p)
        \/ \E r \in Rows(p) : Kept(p, r)
        \/ \E d \in WorkHere(p) : CloudNew(d, p)
        \/ \E d \in WorkHere(p) : CloudUpdate(d, p)
    BY AloneEvent
  <2> QED
    BY <1>3, <1>4, <2>1 DEF Creating, Nowhere, CloudNew
<1>6. d \in running /\ d.stage = "placed" /\ d.path = p
  <2>1. EventsOn(p) # {}
    OBVIOUS
  <2>2. d.stage = "placed" /\ RunsOn(p) = {d} /\ d.path = p
    BY <1>5, <2>1 DEF CloudUpdate, OnlyInLine, OnlyRunning
  <2> QED
    BY <2>2 DEF RunsOn
<1> QED
  BY <1>1, <1>6 DEF Early

(* One event at a time. *)
LEMMA OneEcho ==
  ASSUME TypeInv, Stories, Apart, NEW e, Handles(e), NEW p \in Path, \A y \in Path : On(e, y) <=> y = p,
         NEW c, Comes(c),
         \/ Created(p, e) /\ e.type \in {"create", "rename"} /\ e.path = p /\ e.to = NoTo
         \/ Deleted(p, e) /\ e.type \in {"destroy", "rename"} /\ e.path = p /\ e.to = NoTo
         \/ Updated(p) /\ e.type = "modify" /\ e.path = p /\ e.to = NoTo
         \/ Updated(p) /\ e.type = "rename" /\ e.path = Tmp /\ e.to = p
  PROVE  NoEchoOf(c)
<1>1. c.path = p
  BY CreatedEcho, DeletedEcho, UpdatedEcho
<1> SUFFICES ASSUME c.by = "program", Clean(p) PROVE Early(c)
  BY <1>1 DEF NoEchoOf
<1>2. Told(p) /\ e \in EventsOn(p)
  BY Handling DEF Stories
<1>3. Alone(p)
  BY <1>2, Ids, EventAlone
<1>4. e \in Creations(p) \cup Edits(p) \cup Removals(p) \cup {Destroyed(p), Placed(p)}
  BY <1>2, <1>3, AloneEvent
<1>5. \A v \in Creations(p) \cup Edits(p) \cup Removals(p) : v.by = "user"
  BY DEF Creations, Edits, Removals, Notice
<1>6. CASE Updated(p) /\ (e.type = "modify" \/ e.path = Tmp)
  <2>1. e # Destroyed(p) /\ e \notin Creations(p) /\ e \notin Removals(p)
    BY <1>6, Ids DEF Destroyed, Creations, Removals, Notice
  <2> QED
    BY <1>2, <1>3, <1>6, <2>1, UpdateEcho
<1>7. CASE e.by = "program" /\ e.to = NoTo
  <2>1. e = Destroyed(p)
    BY <1>4, <1>5, <1>7, Ids DEF Placed, Notice
  <2>2. Expects(expected, p, "Delete") /\ e.type = "destroy"
    BY <1>2, <1>3, <2>1, DestroyHeld, NoticeIs DEF Destroyed
  <2>3. ~Deleted(p, e)
    BY <2>2, DeletedEcho
  <2> QED
    BY <1>6, <2>2, <2>3
<1>8. (Created(p, e) \/ Deleted(p, e)) => e.by = "program"
  BY CreatedEcho, DeletedEcho
<1> QED
  BY <1>6, <1>7, <1>8

LEMMA MoveEcho ==
  ASSUME TypeInv, Stories, Apart, NEW e, Handles(e), Moved(e), e.path \in Path, e.to \in Path, NEW c, Comes(c)
  PROVE  NoEchoOf(c)
<1> PICK p, q : p = e.path /\ q = e.to
  OBVIOUS
<1> SUFFICES ASSUME c.by = "program", Clean(c.path) PROVE FALSE
  BY DEF NoEchoOf
<1>1. c.path \in {p, q} /\ e.by = "program" /\ ~Expects(expected, p, "Move")
  BY MovedEcho
<1>2. e \in EventsOn(p) /\ e \in EventsOn(q)
  BY <1>1, MoveWho
<1>3. PICK w : Moving(w, p, q)
  BY <1>1, MoveWho
<1>4. CASE UserMoving(w, p, q)
  BY <1>1, <1>2, <1>4 DEF UserMoving, OnlyEvent, OnlyInLine, OnlyRunning
<1>5. CASE CloudMoving(w, p, q)
  BY <1>1, <1>2, <1>5 DEF CloudMoving, OnlyInLine
<1>6. CASE CloudMoved(w, p, q)
  BY <1>1, <1>6 DEF CloudMoved
<1> QED
  BY <1>3, <1>4, <1>5, <1>6 DEF Moving

LEMMA PollingEcho ==
  ASSUME TypeInv, Stories, Apart, NEW c, Comes(c),
         HandleCreated \/ HandleDeleted \/ HandleUpdated \/ HandleRenamed
  PROVE  NoEchoOf(c)
<1>1. PICK e : Handles(e) /\
        \/ e.type = "create" /\ Created(e.path, e)
        \/ e.type = "destroy" /\ Deleted(e.path, e)
        \/ e.type = "modify" /\ Updated(e.path)
        \/ /\ e.type = "rename"
           /\ IF e.to = NoTo THEN IF Exists(e.path) THEN Created(e.path, e) ELSE Deleted(e.path, e)
              ELSE IF e.to = Tmp THEN Ignored
              ELSE IF e.path = Tmp THEN Updated(e.to)
              ELSE Moved(e)
  BY DEF HandleCreated, HandleDeleted, HandleUpdated, HandleRenamed, Handles
<1>2. e \in Event /\ ProperEvent(e) /\ ~UNCHANGED <<seen, out>>
  BY <1>1, Handling, ComesFrom
<1>3. CASE e.to = NoTo
  <2> PICK p : p = e.path
    OBVIOUS
  <2>1. p \in Path
    BY <1>2, <1>3, Ids DEF Event, ProperEvent
  <2>2. \A y \in Path : On(e, y) <=> y = p
    BY <1>3, <2>1, Ids DEF On
  <2>3. \/ Created(p, e) /\ e.type \in {"create", "rename"}
        \/ Deleted(p, e) /\ e.type \in {"destroy", "rename"}
        \/ Updated(p) /\ e.type = "modify"
    BY <1>1, <1>3
  <2> QED
    BY <1>1, <1>3, <2>1, <2>2, <2>3, OneEcho
<1>4. CASE e.to # NoTo
  <2>1. e.type = "rename"
    BY <1>2, <1>4 DEF Event, ProperEvent
  <2>2. e.to # Tmp
    BY <1>1, <1>2, <1>4, <2>1 DEF Ignored
  <2>3. e.to \in Path
    BY <1>2, <1>4, <2>2 DEF Event, ProperEvent
  <2>4. CASE e.path = Tmp
    <3> PICK p : p = e.to
      OBVIOUS
    <3>1. \A y \in Path : On(e, y) <=> y = p
      BY <2>3, <2>4, Ids DEF On
    <3>2. Updated(p)
      BY <1>1, <1>4, <2>1, <2>2, <2>4
    <3> QED
      BY <1>1, <2>1, <2>3, <2>4, <3>1, <3>2, OneEcho
  <2>5. CASE e.path # Tmp
    <3>1. Moved(e)
      BY <1>1, <1>4, <2>1, <2>2, <2>5
    <3>2. e.path \in Path
      BY <1>2, <2>5 DEF Event, ProperEvent
    <3> QED
      BY <1>1, <2>3, <3>1, <3>2, MoveEcho
  <2> QED
    BY <2>4, <2>5
<1> QED
  BY <1>3, <1>4

(* Nothing else comes up with a change. *)
LEMMA OthersEcho ==
  ASSUME TypeInv, [Next]_vars, ~(HandleCreated \/ HandleDeleted \/ HandleUpdated \/ HandleRenamed), NEW c
  PROVE  ~Comes(c)
<1>1. CASE UNCHANGED <<seen, out>>
  BY <1>1, ComesFrom
<1>2. CASE seen' = <<>> /\ out' = <<>>
  BY <1>2, Single DEF Comes
<1>3. CASE HandOver
  BY <1>3, Single DEF HandOver, Comes
<1>4. CASE WriteSeen
  <2> PICK d : d = seen[1]
    OBVIOUS
  <2>1. seen' = <<>> /\ out' = Append(out, d) /\ seen # <<>>
    BY <1>4 DEF WriteSeen
  <2>2. seen \in Seq(Change) /\ out \in Seq(Change)
    BY DEF TypeInv, LineTyped
  <2>3. d \in Range(seen) /\ d \in Change
    BY <2>1, <2>2 DEF Range
  <2>4. Range(Append(out, d)) = Range(out) \cup {d}
    BY <2>2, <2>3, Longer
  <2> QED
    BY <2>1, <2>3, <2>4, Single DEF Comes
<1>5. \/ UNCHANGED <<seen, out>> \/ (seen' = <<>> /\ out' = <<>>) \/ HandOver \/ WriteSeen
  <2>1. CASE Users
    <3>1. \E files, noted, b, what : User(files, noted, b, what)
      BY <2>1 DEF Users, UserCreates, UserBrings, UserEdits, UserSaves, UserRenews, UserBacksUp, UserDeletes,
                  UserMoves
    <3> QED
      BY <3>1 DEF User
  <2>2. CASE OnFsEvent
    BY <2>2 DEF OnFsEvent
  <2>3. CASE HandleGone \/ Die
    BY <2>3 DEF HandleGone, Die, Abort, Ends
  <2>4. CASE Clouds
    BY <2>4 DEF Clouds, CloudHasNew, CloudHasUpdate, CloudHasDelete, CloudHasMove, FromCloud, eventVars
  <2>5. CASE Commands
    BY <2>5 DEF Commands, LocalCallback, LocalCallbackThrows, Load, PlaceMove, PlaceMoveThrows, PlaceDelete,
                Request, RequestThrows, Place, Record, RecordThrows, Abort, Ends, eventVars
  <2>6. CASE Restart \/ Rest \/ UNCHANGED vars
    BY <2>6 DEF Restart, Rest, vars, eventVars
  <2> QED
    BY <2>1, <2>2, <2>3, <2>4, <2>5, <2>6 DEF Next, Polling
<1> QED
  BY <1>1, <1>2, <1>3, <1>4, <1>5

-----------------------------------------------------------------------------
(* The start: every file has its row and is in the cloud. *)
Started(s) ==
  /\ DOMAIN db.files = DOMAIN s /\ DOMAIN remote = DOMAIN s /\ \A n \in DOMAIN s : n \in Nat /\ n > 0
  /\ \A n \in DOMAIN s : /\ PathOf(n) = s[n] /\ Stat(n).inode = n /\ Stat(n).hash = n
                         /\ Stat(n) = SyncedAs(n) /\ Linked(n) /\ LinkId(n) = n
                         /\ HashAt(n) = n /\ remote[n].path = s[n] /\ s[n] \in Path
  /\ \A i, j \in DOMAIN s : s[i] = s[j] => i = j
  /\ \A p \in Path : Exists(p) <=> p \in Range(s)
  /\ \A p \in Path : Exists(p) =>
       \E n \in DOMAIN s : /\ s[n] = p /\ disk[p].inode = n /\ disk[p].hash = n /\ disk[p].by = "user"
                           /\ StatOf(p) = SyncedAs(n)

LEMMA Beginnings ==
  ASSUME Init, TypeInv
  PROVE  \E s : Started(s)
<1>1. PICK s \in UNION {SetToSeqs(have) : have \in SUBSET Path} :
        /\ db = Synced(s)
        /\ disk = [p \in Path |-> IF p \in Range(s)
                     THEN LET n == GlobalId(db, p) IN [inode |-> n, hash |-> n, by |-> "user"]
                     ELSE NoFile]
        /\ remote = [n \in DOMAIN s |-> [path |-> s[n], hash |-> n]]
        /\ fresh = Len(s)
  BY DEF Init
<1>2. /\ fresh \in Nat /\ DOMAIN s = 1..fresh
      /\ \A i \in DOMAIN s : s[i] \in Path
      /\ \A i, j \in DOMAIN s : s[i] = s[j] => i = j
  BY <1>1, Orders
<1>3. /\ DOMAIN db.files = DOMAIN s
      /\ \A n \in DOMAIN s : db.files[n].path = s[n] /\ db.files[n].stat = SyncedAs(n)
      /\ DOMAIN db.links = (DOMAIN s) \X {Cloud}
      /\ \A key \in (DOMAIN s) \X {Cloud} : db.links[key].id = key[1]
  BY <1>1 DEF Synced
<1>4. \A n \in DOMAIN s : /\ PathOf(n) = s[n] /\ Stat(n) = SyncedAs(n) /\ Stat(n).inode = n /\ Stat(n).hash = n
  <2>1. \A n : SyncedAs(n).inode = n /\ SyncedAs(n).hash = n
    BY DEF SyncedAs
  <2> QED
    BY <1>3, <2>1 DEF PathOf, Stat
<1>5. \A n \in DOMAIN s : Linked(n) /\ LinkId(n) = n
  <2> TAKE n \in DOMAIN s
  <2> PICK key : key = <<n, Cloud>>
    OBVIOUS
  <2>1. key \in (DOMAIN s) \X {Cloud} /\ key[1] = n
    OBVIOUS
  <2>2. key \in DOMAIN db.links /\ db.links[key].id = n
    BY <1>3, <2>1
  <2> QED
    BY <2>2 DEF Linked, LinkId, Link
<1>6. DOMAIN remote = DOMAIN s /\ \A n \in DOMAIN s : HashAt(n) = n /\ remote[n].path = s[n]
  BY <1>1 DEF HashAt
<1>7. ASSUME NEW p \in Path, p \in Range(s)
      PROVE  \E n \in DOMAIN s : /\ s[n] = p /\ disk[p].inode = n /\ disk[p].hash = n /\ disk[p].by = "user"
                                 /\ StatOf(p) = SyncedAs(n)
  <2>1. PICK i \in DOMAIN s : s[i] = p
    BY <1>7 DEF Range
  <2>2. HasRow(db, p)
    <3>1. i \in DOMAIN db.files /\ db.files[i].path = p
      BY <1>3, <2>1
    <3> QED
      BY <3>1 DEF HasRow, RowsOf
  <2> PICK n : n = GlobalId(db, p)
    OBVIOUS
  <2>3. n \in RowsOf(db, p)
    BY <2>2, FirstRow DEF TypeInv, DbTyped
  <2>4. n \in DOMAIN s /\ s[n] = p
    BY <1>3, <2>3 DEF RowsOf
  <2>5. disk[p] = [inode |-> n, hash |-> n, by |-> "user"]
    BY <1>1, <1>7
  <2>6. disk[p].inode = n /\ disk[p].hash = n /\ disk[p].by = "user"
    BY <2>5
  <2>7. StatOf(p) = SyncedAs(n)
    BY <2>6 DEF StatOf, SyncedAs
  <2> QED
    BY <2>4, <2>6, <2>7
<1>8. \A n \in DOMAIN s : n \in Nat /\ n > 0
  BY <1>2
<1>9. ASSUME NEW p \in Path PROVE Exists(p) <=> p \in Range(s)
  <2>1. p \notin Range(s) => disk[p] = NoFile
    BY <1>1
  <2>2. p \in Range(s) => disk[p].inode > 0
    BY <1>7, <1>8
  <2> QED
    BY <2>1, <2>2 DEF Exists, NoFile
<1> QED
  BY <1>2, <1>3, <1>4, <1>5, <1>6, <1>7, <1>8, <1>9 DEF Started

LEMMA StartTold ==
  ASSUME TypeInv, Init, NEW s, Started(s), NEW p \in Path
  PROVE  Told(p)
<1>1. EventsOn(p) = {} /\ LineOn(p) = {} /\ RunsOn(p) = {} /\ Queued = {}
  BY Single DEF Init, EventsOn, LineOn, RunsOn, Queued, Pending
<1>2. ~Awaits(p)
  BY DEF Init, Awaits, NothingExpected
<1>3. ~Earlier(Destroyed(p), Destroyed(p))
  BY <1>1, EarlierIn
<1>4. DestroyAwaited(p)
  BY <1>1, <1>2, <1>3 DEF DestroyAwaited
<1>5. CASE ~Exists(p)
  <2>1. \A n \in DOMAIN s : s[n] # p
    BY <1>5 DEF Started, Range
  <2>2. Rows(p) = {} /\ There(p) = {}
    BY <2>1, RowsKnown DEF Started
  <2> QED
    BY <1>1, <1>4, <1>5, <2>2 DEF Absent, Nowhere, Told, Alone
<1>6. CASE Exists(p)
  <2>1. PICK n \in DOMAIN s : /\ s[n] = p /\ disk[p].hash = n /\ disk[p].by = "user"
                              /\ StatOf(p) = SyncedAs(n)
    BY <1>6 DEF Started
  <2>2. Rows(p) = {n} /\ There(p) = {n}
    BY <2>1, RowsKnown DEF Started
  <2>3. Linked(n) /\ LinkId(n) = n /\ HashAt(n) = n /\ Stat(n) = StatOf(p) /\ Stat(n).hash = n /\ n \in Nat
    BY <2>1 DEF Started
  <2>4. KeptRow(p, n)
    BY <1>1, <1>4, <1>6, <2>1, <2>2, <2>3 DEF KeptRow, Dated
  <2>5. KeptLine(p, n)
    BY <1>1 DEF KeptLine
  <2>6. KeptRuns(p, n)
    BY <1>1, <2>2, <2>3 DEF KeptRuns
  <2>7. KeptFlow(p, n)
    BY <1>1, <2>1, <2>3 DEF KeptFlow
  <2> QED
    BY <2>2, <2>4, <2>5, <2>6, <2>7 DEF Kept, Told, Alone
<1> QED
  BY <1>5, <1>6

LEMMA StartInv == Init => Inv
<1> SUFFICES ASSUME Init PROVE Inv
  OBVIOUS
<1>1. TypeInv
  BY InitTyped
<1>2. PICK s : Started(s)
  BY <1>1, Beginnings
<1>3. Stories
  BY <1>1, <1>2, StartTold DEF Stories
<1>4. Work = {} /\ Changing = {}
  BY Single DEF Init, Work, Queued, Pending, Changing
<1>5. OneFile
  <2> SUFFICES ASSUME NEW x \in Path, NEW y \in Path, Exists(x), disk[x].inode = disk[y].inode PROVE x = y
    BY DEF OneFile
  <2>1. PICK n \in DOMAIN s : s[n] = x /\ disk[x].inode = n
    BY <1>2 DEF Started
  <2>2. Exists(y)
    BY <1>1, <1>2, <2>1 DEF Started, TypeInv, DiskTyped
  <2>3. PICK m \in DOMAIN s : s[m] = y /\ disk[y].inode = m
    BY <1>2, <2>2 DEF Started
  <2> QED
    BY <2>1, <2>3
<1>6. ASSUME NEW r \in DOMAIN db.files PROVE OwnFile(r) /\ OwnLink(r)
  <2>1. r \in DOMAIN s /\ PathOf(r) = s[r] /\ Stat(r).inode = r /\ r > 0 /\ LinkId(r) = r
    BY <1>2 DEF Started
  <2>2. OwnFile(r)
    <3> SUFFICES ASSUME NEW y \in Path, Exists(y), Stat(r).inode = disk[y].inode PROVE PathOf(r) = y
      BY <2>1 DEF OwnFile, Near
    <3>1. PICK n \in DOMAIN s : s[n] = y /\ disk[y].inode = n
      BY <1>2 DEF Started
    <3> QED
      BY <2>1, <3>1
  <2>3. OwnLink(r)
    <3> SUFFICES ASSUME NEW y \in Path, LinkId(r) \in There(y) PROVE PathOf(r) = y
      BY DEF OwnLink, Near
    <3>1. remote[r].path = y
      BY <1>1, <2>1, RowsKnown
    <3> QED
      BY <1>2, <2>1, <3>1 DEF Started
  <2> QED
    BY <2>2, <2>3
<1>7. Up /\ status \notin Path
  BY Ids DEF Init, Up
<1>8. Down /\ AbortsOnlyOnRaces
  BY <1>7 DEF Down, AbortsOnlyOnRaces
<1>9. Apart
  BY <1>4, <1>5, <1>6, <1>8 DEF Apart
<1> QED
  BY <1>1, <1>3, <1>9 DEF Inv

-----------------------------------------------------------------------------
(* The invariant, and what it says. *)
LEMMA InvStep == Inv /\ [Next]_vars => Inv'
<1> SUFFICES ASSUME TypeInv, Stories, Apart, [Next]_vars PROVE Inv'
  BY DEF Inv
<1>0. TypeInv'
  BY NextTyped
<1>1. CASE Users
  BY <1>0, <1>1, UsersOk DEF Inv
<1>2. CASE OnFsEvent
  BY <1>0, <1>2, OnFsEventOk DEF Inv
<1>3. CASE HandleCreated \/ HandleDeleted \/ HandleUpdated \/ HandleRenamed \/ HandleGone
  BY <1>0, <1>3, HandleCreatedOk, HandleDeletedOk, HandleUpdatedOk, HandleRenamedOk, HandleGoneOk DEF Inv
<1>4. CASE WriteSeen \/ HandOver
  BY <1>0, <1>4, WriteSeenOk, HandOverOk DEF Inv
<1>5. CASE Clouds
  BY <1>0, <1>5, CloudsOk DEF Inv
<1>6. CASE Commands
  <2>1. ASSUME NEW k \in DOMAIN changes, LocalCallback(k) \/ Load(k) \/ PlaceMove(k) \/ PlaceDelete(k)
        PROVE  Inv'
    BY <1>0, <2>1, LocalCallbackOk, LoadOk, PlaceMoveOk, PlaceDeleteOk DEF Inv
  <2>2. ASSUME NEW c \in running, Request(c) \/ Place(c) \/ Record(c)
        PROVE  Inv'
    BY <1>0, <2>2, RequestOk, PlaceOk, RecordOk DEF Inv
  <2>3. ASSUME NEW k \in DOMAIN changes, LocalCallbackThrows(k) \/ PlaceMoveThrows(k) PROVE Inv'
    BY <1>0, <2>3, StopsOk DEF Inv
  <2>4. ASSUME NEW c \in running, RequestThrows(c) \/ RecordThrows(c) PROVE Inv'
    BY <1>0, <2>4, StopsOk DEF Inv
  <2> QED
    BY <1>6, <2>1, <2>2, <2>3, <2>4 DEF Commands
<1>7. CASE Die
  BY <1>0, <1>7, StopsOk DEF Inv
<1>8. CASE Restart \/ Rest \/ UNCHANGED vars
  BY <1>0, <1>8, RestOk DEF Inv
<1> QED
  BY <1>1, <1>2, <1>3, <1>4, <1>5, <1>6, <1>7, <1>8 DEF Next, Polling

LEMMA InvConverges == Inv => Converges
<1> SUFFICES ASSUME TypeInv, Stories, Quiet, NEW p \in Path, fate[p] = {} PROVE Agrees(p)
  BY DEF Inv, Converges
<1>1. Told(p)
  BY DEF Stories, Clean
<1>2. WorkHere(p) = {}
  BY Single DEF Quiet, WorkHere, EventsOn, LineOn, RunsOn, Queued, Pending
<1>3. \/ ~Exists(p) /\ Nowhere(p)
      \/ Exists(p) /\ \E r \in Rows(p) : Everywhere(p, r) /\ Agreed(r, p)
  BY <1>1, <1>2, IdleTold
<1> QED
  BY <1>3 DEF Agrees, Nowhere, Everywhere, Agreed, Rows, There, Stat, LinkId, HashAt

LEMMA InvEcho ==
  ASSUME Inv, [Next]_vars
  PROVE  \A c \in Range(seen' \o out') \ Range(seen \o out) :
           c.by = "program" => fate[c.path] # {} \/ Early(c)
<1> TAKE c \in Range(seen' \o out') \ Range(seen \o out)
<1>1. TypeInv /\ Stories /\ Apart /\ TypeInv'
  BY NextTyped DEF Inv
<1>2. seen \in Seq(Change) /\ out \in Seq(Change) /\ seen' \in Seq(Change) /\ out' \in Seq(Change)
  BY <1>1 DEF TypeInv, LineTyped
<1>3. Range(seen \o out) = Range(seen) \cup Range(out) /\ Range(seen' \o out') = Range(seen') \cup Range(out')
  BY <1>2, Joined
<1>4. Comes(c)
  BY <1>3 DEF Comes
<1>5. NoEchoOf(c)
  BY <1>1, <1>4, PollingEcho, OthersEcho
<1> QED
  BY <1>5 DEF NoEchoOf, Clean

LEMMA AlwaysInv == Spec => []Inv
  BY StartInv, InvStep, PTL DEF Spec

(* LocalEvents.Converges: when all events are dealt with and all changes     *)
(* carried out, the directory, the database and the cloud agree on every     *)
(* path to which none of the hazards has happened, whatever users, the cloud *)
(* and crashes did, and in whichever order the threads went on.             *)
THEOREM Converging == Spec => []Converges
  BY AlwaysInv, InvConverges, PTL

(* LocalEvents.AbortsOnlyOnRaces: an exception that nothing catches ends the *)
(* daemon only over a file to which a hazard has happened.                  *)
THEOREM AbortsExplained == Spec => []AbortsOnlyOnRaces
<1>1. Inv => AbortsOnlyOnRaces
  BY DEF Inv, Apart
<1> QED
  BY <1>1, AlwaysInv, PTL

(* LocalEvents.NoEcho: what the program does to the directory is announced   *)
(* as a change only on a path to which a hazard has happened, or as an       *)
(* update that is looked at before the callback has put the file down.       *)
THEOREM NoEchoes == Spec => NoEcho
<1>1. Inv /\ [Next]_vars =>
        [\A c \in Range(seen' \o out') \ Range(seen \o out) :
           c.by = "program" => fate[c.path] # {} \/ Early(c)]_vars
  BY InvEcho
<1> QED
  BY <1>1, AlwaysInv, PTL DEF Spec, NoEcho

=============================================================================
