-------------------------- MODULE LocalEventsProofs --------------------------
(***************************************************************************)
(* Proofs about LocalEvents, for any paths and any number of deeds, changes *)
(* from the cloud and restarts: the types, the invariant Inv, and that the  *)
(* watcher and the polling thread keep it.  LocalEventsStories has the rest *)
(* of the proof and the theorems that follow from Inv.                      *)
(***************************************************************************)
EXTENDS LocalEvents, FiniteSetTheorems, SequenceTheorems, WellFoundedInduction, TLAPS

-----------------------------------------------------------------------------
(* The inductive invariant: types.                                         *)

Stamp == [inode : Nat, hash : Nat]
File == [inode : Nat, hash : Nat, by : {"none", "user", "program"}]
Event == [type : {"create", "modify", "destroy", "rename"}, path : Path \cup {Tmp},
          to : Path \cup {Tmp, NoTo}, by : {"user", "program"}]
Change == [type : ChangeTypes, gid : Nat, path : Path, to : Path \cup {NoTo},
           stat : Stamp, cid : Nat, by : {"user", "program", "cloud"},
           stage : {"waiting", "request", "loading", "placed"}]

Within(stat, n) == stat.inode <= n /\ stat.hash <= n
ProperEvent(e) ==
  /\ e.path = Tmp => e.to \in Path /\ e.type = "rename"
  /\ e.to # NoTo => e.type = "rename"
Proper(c, last, n) ==
  /\ c.gid <= last /\ c.cid <= n /\ Within(c.stat, n)
  /\ c.type = "Move" <=> c.to \in Path
Waits(c) == c.stage = "waiting"
Runs(c) ==
  /\ c.stage # "waiting" /\ (c.stage = "request" <=> Local(c))
  /\ c.stage = "loading" => c.type \in {"New", "Update"}

Tables(d) ==
  d = [files |-> d.files, links |-> d.links, lastId |-> d.lastId] /\ d.lastId \in Nat

DiskTyped ==
  /\ disk \in [Path -> File]
  /\ \A p \in Path : /\ Within(disk[p], fresh) /\ (Exists(p) <=> disk[p].inode > 0)
                     /\ Exists(p) => disk[p].by # "none"
  /\ beside \subseteq Path
EventsTyped ==
  /\ notices \in Seq(Event) /\ events \in Seq(Event)
  /\ \A e \in Range(notices) \cup Range(events) : ProperEvent(e)
LineTyped ==
  /\ seen \in Seq(Change) /\ out \in Seq(Change) /\ changes \in Seq(Change)
  /\ \A c \in Range(seen) : c.type = "Update" /\ Local(c)
  /\ \A c \in Range(out) : Local(c)
  /\ \A c \in Range(seen) \cup Range(out) \cup Range(changes) : Proper(c, db.lastId, fresh) /\ Waits(c)
  /\ Len(seen) <= 1
RunsTyped == running \subseteq Change /\ \A c \in running : Proper(c, db.lastId, fresh) /\ Runs(c)
Rowed(d) ==
  /\ Tables(d)
  /\ \A r \in DOMAIN d.files : r \in 1..d.lastId /\ d.files[r] \in [path : Path, stat : Stamp]
  /\ DOMAIN d.links \subseteq (DOMAIN d.files) \X {Cloud}
  /\ \A key \in DOMAIN d.links : d.links[key] \in [id : Nat]
DbTyped ==
  /\ Rowed(db)
  /\ \A r \in DOMAIN db.files : Within(db.files[r].stat, fresh)
  /\ \A key \in DOMAIN db.links : db.links[key].id <= fresh
CloudTyped ==
  \A n \in DOMAIN remote :
    n \in 1..fresh /\ remote[n] \in [path : Path, hash : Nat] /\ remote[n].hash <= fresh
RestTyped ==
  /\ DOMAIN expected \subseteq Path /\ \A p \in DOMAIN expected : expected[p] \in ChangeTypes
  /\ status \in {"up", "killed"} \cup Path
  /\ fresh \in Nat
  /\ fate \in [Path -> SUBSET Fates]

TypeInv ==
  /\ DiskTyped /\ EventsTyped /\ LineTyped /\ RunsTyped /\ DbTyped /\ CloudTyped /\ RestTyped

LEMMA TypeInvTypeOK == TypeInv => TypeOK
<1> SUFFICES ASSUME TypeInv PROVE TypeOK
  OBVIOUS
<1> USE DEF TypeInv
<1>1. \A p \in Path : disk[p].inode \in 0..fresh /\ (Exists(p) <=> disk[p].inode > 0)
  <2> SUFFICES ASSUME NEW p \in Path PROVE disk[p].inode \in 0..fresh
    BY DEF DiskTyped
  <2>1. disk[p].inode \in Nat /\ disk[p].inode <= fresh /\ fresh \in Nat
    BY DEF DiskTyped, File, Within, RestTyped
  <2> QED
    BY <2>1
<1>2. \A e \in Range(notices) \cup Range(events) : e.type \in {"create", "modify", "destroy", "rename"}
  <2>1. Range(notices) \in SUBSET Event /\ Range(events) \in SUBSET Event
    BY RangeOfSeq DEF EventsTyped
  <2>2. \A e \in Event : e.type \in {"create", "modify", "destroy", "rename"}
    BY DEF Event
  <2> QED
    BY <2>1, <2>2
<1>3. Range(expected) \subseteq ChangeTypes
  BY DEF RestTyped, Range
<1>4. \A c \in Range(out) \cup Range(changes) \cup running : c \in Change
  BY RangeOfSeq DEF LineTyped, RunsTyped
<1>5. \A c \in running : c.stage \in {"request", "loading", "placed"}
  BY DEF RunsTyped, Runs, Change
<1>6. \A key \in DOMAIN db.links : key[1] \in DOMAIN db.files
  BY DEF DbTyped, Rowed
<1> QED
  BY <1>1, <1>2, <1>3, <1>4, <1>5, <1>6
     DEF TypeOK, Change, DiskTyped, LineTyped, RestTyped

-----------------------------------------------------------------------------
(* Sequences. *)

LEMMA Appended ==
  ASSUME NEW S, NEW s \in Seq(S), NEW e \in S
  PROVE  Append(s, e) \in Seq(S) /\ Range(Append(s, e)) = Range(s) \cup {e}
<1> DEFINE n == Len(s)
           t == Append(s, e)
<1>1. /\ n \in Nat /\ DOMAIN s = 1..n /\ t \in Seq(S) /\ DOMAIN t = 1..(n + 1)
      /\ \A i \in 1..n : t[i] = s[i]
      /\ t[n + 1] = e
  BY AppendProperties, LenProperties
<1> HIDE DEF n, t
<1>2. \A i \in 1..(n + 1) : i \in 1..n \/ i = n + 1
  BY <1>1
<1>3. Range(t) = Range(s) \cup {e}
  BY <1>1, <1>2 DEF Range
<1> QED
  BY <1>1, <1>3 DEF t

LEMMA Beheaded ==
  ASSUME NEW S, NEW s \in Seq(S), s # <<>>
  PROVE  /\ Tail(s) \in Seq(S) /\ Head(s) \in S
         /\ Range(s) = Range(Tail(s)) \cup {Head(s)}
<1> DEFINE n == Len(s)
           t == Tail(s)
<1>1. /\ n \in Nat \ {0} /\ DOMAIN s = 1..n /\ t \in Seq(S) /\ Head(s) \in S
      /\ Len(t) = n - 1 /\ DOMAIN t = 1..(n - 1)
      /\ \A i \in 1..(n - 1) : t[i] = s[i + 1]
      /\ Head(s) = s[1]
  BY HeadTailProperties, LenProperties, EmptySeq
<1> HIDE DEF n, t
<1>2. /\ \A i \in 1..(n - 1) : i + 1 \in 1..n
      /\ \A i \in 1..n : i = 1 \/ (i - 1 \in 1..(n - 1) /\ t[i - 1] = s[i])
      /\ 1 \in 1..n
  BY <1>1
<1>3. Range(s) = {s[i] : i \in 1..n} /\ Range(t) = {t[i] : i \in 1..(n - 1)}
  BY <1>1 DEF Range
<1>4. ASSUME NEW i \in 1..n PROVE s[i] \in Range(t) \cup {Head(s)}
  <2>1. CASE i = 1
    BY <1>1, <2>1
  <2>2. CASE i - 1 \in 1..(n - 1) /\ t[i - 1] = s[i]
    BY <1>3, <2>2
  <2> QED
    BY <1>2, <2>1, <2>2
<1>5. ASSUME NEW i \in 1..(n - 1) PROVE t[i] \in Range(s)
  BY <1>1, <1>2, <1>3
<1>6. Range(s) = Range(t) \cup {Head(s)}
  BY <1>1, <1>2, <1>3, <1>4, <1>5
<1> QED
  BY <1>1, <1>6 DEF t

LEMMA Removed ==
  ASSUME NEW S, NEW s \in Seq(S), NEW k \in DOMAIN s
  PROVE  /\ RemoveAt(s, k) \in Seq(S)
         /\ Range(s) = Range(RemoveAt(s, k)) \cup {s[k]}
         /\ Len(RemoveAt(s, k)) = Len(s) - 1
         /\ \A i \in 1..(Len(s) - 1) :
              RemoveAt(s, k)[i] = IF i < k THEN s[i] ELSE s[i + 1]
<1> DEFINE n == Len(s)
           a == SubSeq(s, 1, k - 1)
           b == SubSeq(s, k + 1, n)
           t == RemoveAt(s, k)
<1>1. n \in Nat /\ DOMAIN s = 1..n /\ k \in 1..n /\ \A i \in 1..n : s[i] \in S
  BY LenProperties, ElementOfSeq
<1> HIDE DEF n
<1>2. a \in Seq(S) /\ Len(a) = k - 1 /\ \A i \in 1..(k - 1) : a[i] = s[i]
  <2>1. \A i \in 1..(k - 1) : s[i] \in S
    BY <1>1
  <2>2. k - 1 \in Int /\ 1 \in Int /\ k - 1 - 1 + 1 = k - 1
    BY <1>1
  <2>3. /\ a \in Seq(S) /\ Len(a) = IF 1 <= k - 1 THEN k - 1 - 1 + 1 ELSE 0
        /\ \A i \in 1..(k - 1 - 1 + 1) : a[i] = s[1 + i - 1]
    BY <2>1, <2>2, SubSeqProperties
  <2> HIDE DEF a
  <2> QED
    BY <1>1, <2>2, <2>3
<1>3. b \in Seq(S) /\ Len(b) = n - k /\ \A i \in 1..(n - k) : b[i] = s[k + i]
  <2>1. \A i \in (k + 1)..n : s[i] \in S
    BY <1>1
  <2>2. k + 1 \in Int /\ n \in Int /\ n - (k + 1) + 1 = n - k
    BY <1>1
  <2>3. /\ b \in Seq(S) /\ Len(b) = IF k + 1 <= n THEN n - (k + 1) + 1 ELSE 0
        /\ \A i \in 1..(n - (k + 1) + 1) : b[i] = s[k + 1 + i - 1]
    BY <2>1, <2>2, SubSeqProperties
  <2> HIDE DEF b
  <2>4. \A i \in 1..(n - k) : k + 1 + i - 1 = k + i
    BY <1>1
  <2>5. Len(b) = n - k
    BY <1>1, <2>2, <2>3
  <2> QED
    BY <2>2, <2>3, <2>4, <2>5
<1>4. t = a \o b
  BY DEF RemoveAt, n
<1> HIDE DEF a, b, t
<1>5. /\ t \in Seq(S) /\ Len(t) = n - 1
      /\ \A i \in 1..(n - 1) : t[i] = IF i < k THEN s[i] ELSE s[i + 1]
  <2>1. /\ t \in Seq(S) /\ Len(t) = Len(a) + Len(b)
        /\ \A i \in 1..(Len(a) + Len(b)) : t[i] = IF i <= Len(a) THEN a[i] ELSE b[i - Len(a)]
    BY <1>2, <1>3, <1>4, ConcatProperties
  <2>2. Len(a) + Len(b) = n - 1
    BY <1>1, <1>2, <1>3
  <2>3. ASSUME NEW i \in 1..(n - 1), i < k PROVE t[i] = s[i]
    BY <1>1, <1>2, <2>1, <2>2, <2>3
  <2>4. ASSUME NEW i \in 1..(n - 1), ~(i < k) PROVE t[i] = s[i + 1]
    <3>1. i - (k - 1) \in 1..(n - k) /\ k + (i - (k - 1)) = i + 1 /\ ~(i <= k - 1)
      BY <1>1, <2>4
    <3>2. t[i] = b[i - (k - 1)]
      BY <1>2, <2>1, <2>2, <3>1
    <3> QED
      BY <1>3, <3>1, <3>2
  <2> QED
    BY <2>1, <2>2, <2>3, <2>4
<1>6. DOMAIN t = 1..(n - 1)
  BY <1>5, LenProperties
<1>7. Range(s) = Range(t) \cup {s[k]}
  <2>1. ASSUME NEW i \in 1..n PROVE s[i] \in Range(t) \cup {s[k]}
    <3>1. CASE i < k
      BY <1>1, <1>5, <1>6, <3>1 DEF Range
    <3>2. CASE i = k
      BY <3>2
    <3>3. CASE i > k
      <4>1. i - 1 \in 1..(n - 1) /\ ~(i - 1 < k) /\ i - 1 + 1 = i
        BY <1>1, <3>3
      <4> QED
        BY <1>5, <1>6, <4>1 DEF Range
    <3> QED
      BY <1>1, <3>1, <3>2, <3>3
  <2>2. ASSUME NEW i \in 1..(n - 1) PROVE t[i] \in Range(s)
    <3>1. i \in 1..n /\ i + 1 \in 1..n
      BY <1>1
    <3> QED
      BY <1>1, <1>5, <3>1 DEF Range
  <2> QED
    BY <1>1, <1>6, <2>1, <2>2 DEF Range
<1> QED
  BY <1>5, <1>7 DEF t, n

-----------------------------------------------------------------------------
(* The tables. *)

LEMMA FileAdded ==
  ASSUME NEW d, Rowed(d), NEW p \in Path, NEW stat \in Stamp,
         NEW e, e = WithFile(d, p, stat)
  PROVE  /\ Rowed(e) /\ e.lastId = NewId(d) /\ NewId(d) = d.lastId + 1 /\ e.links = d.links
         /\ NewId(d) \notin DOMAIN d.files /\ \A key \in DOMAIN d.links : key[1] # NewId(d)
         /\ DOMAIN e.files = DOMAIN d.files \cup {NewId(d)}
         /\ e.files[NewId(d)].path = p /\ e.files[NewId(d)].stat = stat
         /\ \A r \in DOMAIN d.files : e.files[r] = d.files[r]
<1> DEFINE n == NewId(d)
           row == [path |-> p, stat |-> stat]
           new == Put(d.files, n, row)
<1>1. d.lastId \in Nat /\ n = d.lastId + 1
  BY DEF Rowed, Tables, NewId
<1>2. e = [d EXCEPT !.files = new, !.lastId = n]
  BY DEF WithFile
<1>3. row \in [path : Path, stat : Stamp] /\ row.path = p /\ row.stat = stat
  OBVIOUS
<1> HIDE DEF new, n, row
<1>4. e = [files |-> new, links |-> d.links, lastId |-> n]
  BY <1>2 DEF Rowed, Tables
<1>5. e.files = new /\ e.links = d.links /\ e.lastId = n
  BY <1>4
<1>6. \A r \in DOMAIN d.files : r \in 1..n /\ r # n
  BY <1>1 DEF Rowed
<1>7. /\ DOMAIN new = DOMAIN d.files \cup {n} /\ new[n] = row
      /\ \A r \in DOMAIN d.files : new[r] = d.files[r]
  BY <1>6 DEF Put, new
<1>8. \A key \in DOMAIN d.links : key[1] # n
  BY <1>6 DEF Rowed
<1>9. Rowed(e)
  <2>1. Tables(e)
    BY <1>1, <1>4, <1>5 DEF Tables
  <2>2. \A r \in DOMAIN new : r \in 1..n /\ new[r] \in [path : Path, stat : Stamp]
    <3>1. n \in 1..n
      BY <1>1
    <3> QED
      BY <1>3, <1>6, <1>7, <3>1 DEF Rowed
  <2>3. DOMAIN d.links \subseteq (DOMAIN new) \X {Cloud}
    BY <1>7 DEF Rowed
  <2>4. \A key \in DOMAIN d.links : d.links[key] \in [id : Nat]
    BY DEF Rowed
  <2> QED
    BY <1>5, <2>1, <2>2, <2>3, <2>4 DEF Rowed
<1>10. /\ Rowed(e) /\ e.lastId = n /\ n = d.lastId + 1 /\ e.links = d.links
       /\ n \notin DOMAIN d.files /\ \A key \in DOMAIN d.links : key[1] # n
       /\ DOMAIN e.files = DOMAIN d.files \cup {n}
       /\ e.files[n].path = p /\ e.files[n].stat = stat
       /\ \A r \in DOMAIN d.files : e.files[r] = d.files[r]
  BY <1>1, <1>3, <1>5, <1>6, <1>7, <1>8, <1>9
<1> QED
  BY <1>10 DEF n

LEMMA FileUpdated ==
  ASSUME NEW d, Rowed(d), NEW id, NEW stat \in Stamp
  PROVE  LET e == WithFileUpdated(d, id, stat) IN
         /\ Rowed(e) /\ e.lastId = d.lastId /\ e.links = d.links
         /\ DOMAIN e.files = DOMAIN d.files
         /\ \A r \in DOMAIN d.files :
              /\ e.files[r].path = d.files[r].path
              /\ e.files[r].stat = IF r = id THEN stat ELSE d.files[r].stat
<1> DEFINE e == WithFileUpdated(d, id, stat)
           new == [d.files EXCEPT ![id].stat = stat]
<1>1. CASE id \notin DOMAIN d.files
  BY <1>1 DEF WithFileUpdated
<1>2. CASE id \in DOMAIN d.files
  <2>1. e = [d EXCEPT !.files[id].stat = stat]
    BY <1>2 DEF WithFileUpdated
  <2>2. e = [files |-> new, links |-> d.links, lastId |-> d.lastId]
    BY <2>1 DEF Rowed, Tables
  <2> HIDE DEF e
  <2>3. e.files = new /\ e.links = d.links /\ e.lastId = d.lastId
    BY <2>2
  <2>4. /\ DOMAIN new = DOMAIN d.files
        /\ \A r \in DOMAIN d.files :
             /\ new[r] \in [path : Path, stat : Stamp]
             /\ new[r].path = d.files[r].path
             /\ new[r].stat = IF r = id THEN stat ELSE d.files[r].stat
    BY DEF Rowed
  <2> HIDE DEF new
  <2>5. Rowed(e)
    BY <2>2, <2>3, <2>4 DEF Rowed, Tables
  <2> QED
    BY <2>3, <2>4, <2>5 DEF e
<1> QED
  BY <1>1, <1>2

LEMMA FileMoved ==
  ASSUME NEW d, Rowed(d), NEW id, NEW p \in Path
  PROVE  LET e == WithFileMoved(d, id, p) IN
         /\ Rowed(e) /\ e.lastId = d.lastId /\ e.links = d.links
         /\ DOMAIN e.files = DOMAIN d.files
         /\ \A r \in DOMAIN d.files :
              /\ e.files[r].stat = d.files[r].stat
              /\ e.files[r].path = IF r = id THEN p ELSE d.files[r].path
<1> DEFINE e == WithFileMoved(d, id, p)
           new == [d.files EXCEPT ![id].path = p]
<1>1. CASE id \notin DOMAIN d.files
  BY <1>1 DEF WithFileMoved
<1>2. CASE id \in DOMAIN d.files
  <2>1. e = [d EXCEPT !.files[id].path = p]
    BY <1>2 DEF WithFileMoved
  <2>2. e = [files |-> new, links |-> d.links, lastId |-> d.lastId]
    BY <2>1 DEF Rowed, Tables
  <2> HIDE DEF e
  <2>3. e.files = new /\ e.links = d.links /\ e.lastId = d.lastId
    BY <2>2
  <2>4. /\ DOMAIN new = DOMAIN d.files
        /\ \A r \in DOMAIN d.files :
             /\ new[r] \in [path : Path, stat : Stamp]
             /\ new[r].stat = d.files[r].stat
             /\ new[r].path = IF r = id THEN p ELSE d.files[r].path
    BY DEF Rowed
  <2> HIDE DEF new
  <2>5. Rowed(e)
    BY <2>2, <2>3, <2>4 DEF Rowed, Tables
  <2> QED
    BY <2>3, <2>4, <2>5 DEF e
<1> QED
  BY <1>1, <1>2

LEMMA FileRemoved ==
  ASSUME NEW d, Rowed(d), NEW id
  PROVE  LET e == WithoutFile(d, id) IN
         /\ Rowed(e) /\ e.lastId = d.lastId
         /\ DOMAIN e.files = DOMAIN d.files \ {id}
         /\ \A r \in DOMAIN e.files : e.files[r] = d.files[r]
         /\ DOMAIN e.links = {key \in DOMAIN d.links : key[1] # id}
         /\ \A key \in DOMAIN e.links : e.links[key] = d.links[key]
<1> DEFINE e == WithoutFile(d, id)
           rows == [i \in DOMAIN d.files \ {id} |-> d.files[i]]
           links == [k \in {k \in DOMAIN d.links : k[1] # id} |-> d.links[k]]
<1>1. e = [files |-> rows, links |-> links, lastId |-> d.lastId]
  <2>1. e = [d EXCEPT !.files = rows, !.links = links]
    BY DEF WithoutFile
  <2> HIDE DEF e, rows, links
  <2> QED
    BY <2>1 DEF Rowed, Tables
<1> HIDE DEF e
<1>2. e.files = rows /\ e.links = links /\ e.lastId = d.lastId
  BY <1>1
<1>3. /\ DOMAIN rows = DOMAIN d.files \ {id}
      /\ \A r \in DOMAIN rows : rows[r] = d.files[r]
      /\ DOMAIN links = {key \in DOMAIN d.links : key[1] # id}
      /\ \A key \in DOMAIN links : links[key] = d.links[key]
  OBVIOUS
<1> HIDE DEF rows, links
<1>4. DOMAIN links \subseteq (DOMAIN rows) \X {Cloud}
  BY <1>3 DEF Rowed
<1>5. Rowed(e)
  BY <1>1, <1>2, <1>3, <1>4 DEF Rowed, Tables
<1> QED
  BY <1>2, <1>3, <1>5 DEF e

Key(r) == <<r, Cloud>>

LEMMA LinkMade ==
  ASSUME NEW d, Rowed(d), NEW id \in DOMAIN d.files, NEW n \in Nat
  PROVE  LET e == WithLink(d, id, Cloud, [id |-> n]) IN
         /\ Rowed(e) /\ e.lastId = d.lastId /\ e.files = d.files
         /\ DOMAIN e.links = DOMAIN d.links \cup {Key(id)}
         /\ \A key \in DOMAIN d.links : e.links[key] = d.links[key]
         /\ Key(id) \notin DOMAIN d.links => e.links[Key(id)].id = n
<1> DEFINE e == WithLink(d, id, Cloud, [id |-> n])
           stat == [id |-> n]
           stats == [x \in {Cloud} |-> stat]
           links == [key \in DOMAIN d.links \cup ({id} \X DOMAIN stats) |->
                       IF key \in DOMAIN d.links THEN d.links[key] ELSE stats[key[2]]]
<1>1. e = [files |-> d.files, links |-> links, lastId |-> d.lastId]
  BY DEF WithLink, WithLinks, Rowed, Tables
<1>2. e.lastId = d.lastId /\ e.files = d.files /\ e.links = links
  BY <1>1
<1>3. {id} \X DOMAIN stats = {<<id, Cloud>>} /\ stats[Cloud] = stat /\ <<id, Cloud>>[2] = Cloud
  OBVIOUS
<1>4. stat \in [id : Nat]
  OBVIOUS
<1>9. stat.id = n
  OBVIOUS
<1> HIDE DEF stats, stat
<1>5. /\ DOMAIN links = DOMAIN d.links \cup {<<id, Cloud>>}
      /\ \A key \in DOMAIN d.links : links[key] = d.links[key]
      /\ <<id, Cloud>> \notin DOMAIN d.links => links[<<id, Cloud>>] = stat
  BY <1>3
<1> HIDE DEF links, e
<1>6. DOMAIN links \subseteq (DOMAIN d.files) \X {Cloud}
  BY <1>5 DEF Rowed
<1>7. \A key \in DOMAIN links : links[key] \in [id : Nat]
  BY <1>4, <1>5 DEF Rowed
<1>8. Rowed(e)
  BY <1>1, <1>2, <1>6, <1>7 DEF Rowed, Tables
<1> QED
  BY <1>2, <1>5, <1>8, <1>9 DEF e, Key

LEMMA SmallestNat ==
  ASSUME NEW T, T \subseteq Nat, T # {}
  PROVE  \E x \in T : \A y \in T : x <= y
<1> DEFINE R == OpToRel(<, Nat)
<1>1. IsWellFoundedOn(R, Nat)
  BY NatLessThanWellFounded
<1>2. \A x, y \in Nat : <<y, x>> \notin R => x <= y
  BY DEF OpToRel
<1> HIDE DEF R
<1>3. PICK x \in T : \A y \in T : ~ (<<y, x>> \in R)
  BY <1>1, WFMin
<1> QED
  BY <1>2, <1>3

LEMMA FirstRow ==
  ASSUME NEW d, Rowed(d), NEW p, HasRow(d, p)
  PROVE  GlobalId(d, p) \in RowsOf(d, p)
<1>1. RowsOf(d, p) \subseteq Nat /\ RowsOf(d, p) # {}
  BY DEF RowsOf, HasRow, Rowed, Tables
<1>2. \E id \in RowsOf(d, p) : \A other \in RowsOf(d, p) : id <= other
  BY <1>1, SmallestNat
<1> QED
  BY <1>2 DEF GlobalId

-----------------------------------------------------------------------------
(* Types: what an action leaves alone keeps them, numbers only grow. *)

Grows == /\ fresh' \in Nat /\ fresh <= fresh'
         /\ db'.lastId \in Nat /\ db.lastId <= db'.lastId

LEMMA StillPast ==
  ASSUME TypeInv, Grows
  PROVE  /\ \A s : s.inode \in Nat /\ s.hash \in Nat /\ Within(s, fresh) => Within(s, fresh')
         /\ \A c \in Change : Proper(c, db.lastId, fresh) => Proper(c, db'.lastId, fresh')
<1>1. fresh \in Nat /\ db.lastId \in Nat
  BY DEF TypeInv, RestTyped, DbTyped, Rowed, Tables
<1>2. ASSUME NEW s, s.inode \in Nat, s.hash \in Nat, Within(s, fresh) PROVE Within(s, fresh')
  BY <1>1, <1>2 DEF Within, Grows
<1>3. ASSUME NEW c \in Change, Proper(c, db.lastId, fresh) PROVE Proper(c, db'.lastId, fresh')
  <2>1. /\ c.gid \in Nat /\ c.cid \in Nat /\ c.stat.inode \in Nat /\ c.stat.hash \in Nat
    BY DEF Change, Stamp
  <2>2. c.gid <= db'.lastId /\ c.cid <= fresh'
    BY <1>1, <1>3, <2>1 DEF Proper, Grows
  <2>3. Within(c.stat, fresh')
    BY <1>2, <1>3, <2>1 DEF Proper
  <2> QED
    BY <1>3, <2>2, <2>3 DEF Proper
<1> QED
  BY <1>2, <1>3

LEMMA SameGrows == ASSUME TypeInv, UNCHANGED <<fresh, db>> PROVE Grows
  BY DEF Grows, TypeInv, RestTyped, DbTyped, Rowed, Tables

LEMMA DiskKept == ASSUME TypeInv, Grows, UNCHANGED fsVars PROVE DiskTyped'
<1>1. ASSUME NEW p \in Path PROVE Within(disk[p], fresh')
  <2>1. Within(disk[p], fresh) /\ disk[p].inode \in Nat /\ disk[p].hash \in Nat
    BY DEF TypeInv, DiskTyped, File
  <2>2. disk'[p] = disk[p]
    BY DEF fsVars
  <2> QED
    BY <2>1, <2>2, StillPast DEF Within
<1> QED
  BY <1>1 DEF TypeInv, DiskTyped, Exists, fsVars

LEMMA EventsKept == ASSUME TypeInv, UNCHANGED <<notices, events>> PROVE EventsTyped'
  BY DEF TypeInv, EventsTyped

(* The line does not get longer. *)
LEMMA LineKept ==
  ASSUME TypeInv, Grows, UNCHANGED <<seen, out, changes>>
  PROVE  LineTyped'
<1>1. Range(seen) \subseteq Change /\ Range(out) \subseteq Change /\ Range(changes) \subseteq Change
  BY RangeOfSeq DEF TypeInv, LineTyped
<1>2. \A c \in Range(seen) \cup Range(out) \cup Range(changes) : Proper(c, db'.lastId, fresh')
  BY <1>1, StillPast DEF TypeInv, LineTyped
<1> QED
  BY <1>2 DEF TypeInv, LineTyped

LEMMA LineShrinks ==
  ASSUME TypeInv, Grows, UNCHANGED <<seen, out>>,
         NEW k \in DOMAIN changes, changes' = RemoveAt(changes, k)
  PROVE  LineTyped' /\ changes[k] \in Change /\ Proper(changes[k], db.lastId, fresh) /\ Waits(changes[k])
<1>1. Range(seen) \subseteq Change /\ Range(out) \subseteq Change /\ Range(changes) \subseteq Change
  BY RangeOfSeq DEF TypeInv, LineTyped
<1>2. /\ changes' \in Seq(Change) /\ Range(changes') \subseteq Range(changes)
      /\ changes[k] \in Range(changes)
  BY Removed DEF TypeInv, LineTyped
<1>3. \A c \in Range(seen) \cup Range(out) \cup Range(changes) : Proper(c, db'.lastId, fresh')
  BY <1>1, StillPast DEF TypeInv, LineTyped
<1>4. LineTyped'
  BY <1>2, <1>3 DEF TypeInv, LineTyped
<1> QED
  BY <1>1, <1>2, <1>4 DEF TypeInv, LineTyped

LEMMA RunsKept == ASSUME TypeInv, Grows, running' \subseteq running PROVE RunsTyped'
  BY StillPast DEF TypeInv, RunsTyped

(* A command starts, or goes on. *)
LEMMA RunsGrow ==
  ASSUME TypeInv, Grows, NEW c \in Change, Proper(c, db.lastId, fresh), NEW stage,
         Staged(c, stage) \in Change, Runs(Staged(c, stage)),
         running' \subseteq running \cup {Staged(c, stage)}
  PROVE  RunsTyped'
<1> DEFINE d == Staged(c, stage)
<1>1. /\ d.gid = c.gid /\ d.cid = c.cid /\ d.stat = c.stat /\ d.type = c.type /\ d.to = c.to
  BY DEF Staged, Change
<1>2. Proper(d, db.lastId, fresh)
  BY <1>1 DEF Proper
<1> HIDE DEF d
<1>3. Proper(d, db'.lastId, fresh')
  BY <1>2, StillPast DEF d
<1>4. \A x \in running : x \in Change /\ Proper(x, db'.lastId, fresh') /\ Runs(x)
  BY StillPast DEF TypeInv, RunsTyped
<1> QED
  BY <1>3, <1>4 DEF RunsTyped, d

LEMMA DbKept == ASSUME TypeInv, Grows, UNCHANGED db PROVE DbTyped'
<1>1. \A r \in DOMAIN db.files : db.files[r].stat \in Stamp
  BY DEF TypeInv, DbTyped, Rowed
<1>2. \A r \in DOMAIN db.files : Within(db.files[r].stat, fresh')
  BY <1>1, StillPast DEF TypeInv, DbTyped, Stamp
<1>3. \A key \in DOMAIN db.links : db.links[key].id \in Nat /\ db.links[key].id <= fresh
  BY DEF TypeInv, DbTyped, Rowed
<1>4. \A key \in DOMAIN db.links : db.links[key].id <= fresh'
  BY <1>3 DEF Grows, TypeInv, RestTyped
<1> QED
  BY <1>2, <1>4 DEF TypeInv, DbTyped

LEMMA CloudKept == ASSUME TypeInv, Grows, UNCHANGED remote PROVE CloudTyped'
<1>1. fresh \in Nat /\ fresh' \in Nat /\ fresh <= fresh'
  BY DEF Grows, TypeInv, RestTyped
<1>2. ASSUME NEW n \in DOMAIN remote PROVE n \in 1..fresh' /\ remote[n].hash <= fresh'
  <2>1. n \in 1..fresh /\ remote[n].hash \in Nat /\ remote[n].hash <= fresh
    BY DEF TypeInv, CloudTyped
  <2> QED
    BY <1>1, <2>1
<1> QED
  BY <1>2 DEF TypeInv, CloudTyped

LEMMA Befallen ==
  ASSUME TypeInv, NEW paths, paths \subseteq Path, NEW raced, NEW what, what \subseteq Fates,
         Befalls(paths, raced, what)
  PROVE  fate' \in [Path -> SUBSET Fates]
<1> DEFINE struck == IF raced THEN UNION {Together(p) : p \in paths} ELSE {}
           old == UNION {fate[p] : p \in paths}
<1>1. old \subseteq Fates
  BY DEF TypeInv, RestTyped
<1>2. "raced" \in Fates
  BY DEF Fates
<1>3. fate' = [p \in Path |-> fate[p] \cup (IF p \in paths THEN old \cup what ELSE {})
                                   \cup (IF p \in struck THEN {"raced"} ELSE {})]
  BY DEF Befalls
<1> HIDE DEF struck, old
<1>4. \A p \in Path : fate[p] \subseteq Fates
  BY DEF TypeInv, RestTyped
<1> QED
  BY <1>1, <1>2, <1>3, <1>4

-----------------------------------------------------------------------------
(* Types: what users do. *)

ProperFile(f, n) ==
  /\ f \in File /\ Within(f, n)
  /\ f # NoFile => f.inode > 0 /\ f.by # "none"
  /\ f.inode > 0 => f # NoFile
ProperNotes(s) == s \in Seq(Event) /\ \A e \in Range(s) : ProperEvent(e)

LEMMA FilesTyped ==
  DiskTyped <=> /\ disk \in [Path -> File] /\ \A p \in Path : ProperFile(disk[p], fresh)
                /\ beside \subseteq Path
  BY DEF DiskTyped, ProperFile, Exists

LEMMA Noted1 ==
  ASSUME NEW s, ProperNotes(s), NEW t, ProperNotes(t)
  PROVE  ProperNotes(s \o t)
  BY ConcatProperties, RangeConcatenation DEF ProperNotes

LEMMA UserTyped ==
  ASSUME TypeInv, fresh' \in {fresh, fresh + 1},
         NEW files, DOMAIN files \subseteq Path,
         \A p \in DOMAIN files : ProperFile(files[p], fresh'),
         NEW noted, ProperNotes(noted),
         NEW raced, NEW what, what \subseteq Fates,
         beside' \subseteq Path, User(files, noted, raced, what)
  PROVE  TypeInv'
<1>1. /\ disk' = [p \in Path |-> IF p \in DOMAIN files THEN files[p] ELSE disk[p]]
      /\ notices' = IF Up THEN notices \o noted ELSE <<>>
      /\ Befalls(DOMAIN files, raced, what \cup (IF Up THEN {} ELSE {"unwatched"}))
      /\ UNCHANGED <<events, seen, out, expected, changes, running, db, remote, status>>
  BY DEF User
<1>2. fresh \in Nat /\ fresh' \in Nat /\ fresh <= fresh'
  BY DEF TypeInv, RestTyped
<1>3. Grows
  BY <1>1, <1>2 DEF Grows, TypeInv, DbTyped, Rowed, Tables
<1>4. DiskTyped'
  <2>1. ASSUME NEW p \in Path PROVE ProperFile(disk'[p], fresh')
    <3>1. CASE p \in DOMAIN files
      BY <1>1, <3>1
    <3>2. CASE p \notin DOMAIN files
      <4>1. disk'[p] = disk[p]
        BY <1>1, <3>2
      <4>2. ProperFile(disk[p], fresh)
        BY FilesTyped DEF TypeInv
      <4>3. disk[p].inode <= fresh' /\ disk[p].hash <= fresh'
        BY <1>2, <4>2 DEF ProperFile, Within, File
      <4> QED
        BY <4>1, <4>2, <4>3 DEF ProperFile, Within
    <3> QED
      BY <3>1, <3>2
  <2>2. \A p \in Path : disk'[p] \in File
    BY <2>1 DEF ProperFile
  <2>3. disk' \in [Path -> File]
    BY <1>1, <2>2
  <2> QED
    BY <2>1, <2>3 DEF DiskTyped, ProperFile, Exists
<1>5. EventsTyped'
  <2>1. ProperNotes(notices) /\ ProperNotes(events)
    BY DEF TypeInv, EventsTyped, ProperNotes
  <2>2. ProperNotes(<<>>)
    BY DEF ProperNotes, Range
  <2>3. ProperNotes(notices')
    BY <1>1, <2>1, <2>2, Noted1
  <2> QED
    BY <1>1, <2>1, <2>3 DEF ProperNotes, EventsTyped
<1>6. LineTyped' /\ RunsTyped' /\ DbTyped' /\ CloudTyped'
  BY <1>1, <1>3, LineKept, RunsKept, DbKept, CloudKept
<1>7. RestTyped'
  <2>1. "unwatched" \in Fates
    BY DEF Fates
  <2>2. fate' \in [Path -> SUBSET Fates]
    BY <1>1, <2>1, Befallen
  <2> QED
    BY <1>1, <1>2, <2>2 DEF TypeInv, RestTyped
<1> QED
  BY <1>4, <1>5, <1>6, <1>7 DEF TypeInv

LEMMA Ids == /\ Path \cap {Tmp, NoTo, "up", "killed"} = {} /\ Tmp # NoTo
             /\ IsFiniteSet(Path)
  BY LocalEventsAssumption DEF NoTo

(* What the system notes down. *)
LEMMA NoticesTyped ==
  ASSUME NEW p \in Path, NEW q \in Path, NEW by \in {"user", "program"}
  PROVE  /\ \A type \in {"create", "modify", "destroy", "rename"} :
              Notice(type, p, NoTo, by) \in Event /\ ProperEvent(Notice(type, p, NoTo, by))
         /\ Notice("rename", Tmp, p, by) \in Event /\ ProperEvent(Notice("rename", Tmp, p, by))
         /\ Notice("rename", p, Tmp, by) \in Event /\ ProperEvent(Notice("rename", p, Tmp, by))
         /\ Notice("rename", p, q, by) \in Event /\ ProperEvent(Notice("rename", p, q, by))
  BY Ids DEF Notice, Event, ProperEvent

LEMMA FreshFile ==
  ASSUME TypeInv, fresh' = fresh + 1
  PROVE  ProperFile(FileBy("user"), fresh') /\ FileBy("user").inode = fresh'
<1>1. fresh \in Nat
  BY DEF TypeInv, RestTyped
<1> QED
  BY <1>1 DEF FileBy, File, Within, NoFile, ProperFile

LEMMA Edited ==
  ASSUME NEW f, f = [inode |-> f.inode, hash |-> f.hash, by |-> f.by], NEW n, NEW who,
         NEW g, g = [f EXCEPT !.hash = n, !.by = who]
  PROVE  g = [inode |-> f.inode, hash |-> n, by |-> who]
  OBVIOUS

LEMMA UsersTyped == ASSUME TypeInv, Users PROVE TypeInv'
<1>1. PICK p \in Path :
        \/ UserCreates(p) \/ UserBrings(p) \/ UserEdits(p) \/ UserSaves(p) \/ UserRenews(p)
        \/ UserBacksUp(p) \/ (\E noted \in {"destroy", "rename"} : UserDeletes(p, noted))
        \/ \E q \in Path : UserMoves(p, q)
  BY DEF Users
<1>0. beside \subseteq Path /\ {p} \subseteq Path /\ {} \subseteq Fates
      /\ {"overwritten"} \subseteq Fates /\ {"renewed"} \subseteq Fates /\ {"hidden"} \subseteq Fates
      /\ fresh \in Nat
  BY DEF TypeInv, DiskTyped, Fates, RestTyped
<1> DEFINE f == FileBy("user")
           create == Notice("create", p, NoTo, "user")
           modify == Notice("modify", p, NoTo, "user")
           brought == Notice("rename", p, NoTo, "user")
           saved == Notice("rename", Tmp, p, "user")
           backed == Notice("rename", p, Tmp, "user")
<1>2. /\ create \in Event /\ ProperEvent(create) /\ modify \in Event /\ ProperEvent(modify)
      /\ brought \in Event /\ ProperEvent(brought) /\ saved \in Event /\ ProperEvent(saved)
      /\ backed \in Event /\ ProperEvent(backed)
  BY NoticesTyped
<1>3. ASSUME NEW g, ProperFile(g, fresh')
      PROVE  /\ DOMAIN New1(p, g) \subseteq Path
             /\ \A x \in DOMAIN New1(p, g) : ProperFile(New1(p, g)[x], fresh')
  BY <1>3 DEF New1
<1>4. ASSUME NEW a \in Event, ProperEvent(a) PROVE ProperNotes(<<a>>)
  BY <1>4 DEF Range, ProperNotes
<1>5. ASSUME fresh' = fresh + 1
      PROVE  /\ DOMAIN New1(p, f) \subseteq Path
             /\ \A x \in DOMAIN New1(p, f) : ProperFile(New1(p, f)[x], fresh')
  BY <1>3, <1>5, FreshFile
<1>14. ProperNotes(<<brought>>) /\ ProperNotes(<<modify>>) /\ ProperNotes(<<saved>>)
  BY <1>2, <1>4
<1> HIDE DEF create, modify, brought, saved, backed, f
<1>6. CASE UserCreates(p)
  <2>1. /\ fresh' = fresh + 1 /\ UNCHANGED beside
        /\ User(New1(p, f), <<create, modify>>, Busy(p), {})
    BY <1>6 DEF UserCreates, f, create, modify
  <2>2. ProperNotes(<<create, modify>>)
    BY <1>2 DEF Range, ProperNotes
  <2> QED
    BY <1>0, <1>5, <2>1, <2>2, UserTyped
<1>7. CASE UserBrings(p)
  <2>1. /\ fresh' = fresh + 1 /\ UNCHANGED beside
        /\ User(New1(p, f), <<brought>>, Busy(p), IF Exists(p) THEN {"overwritten"} ELSE {})
    BY <1>7 DEF UserBrings, f, brought
  <2> QED
    BY <1>0, <1>5, <1>14, <2>1, UserTyped
<1>8. CASE UserEdits(p)
  <2> DEFINE g == [disk[p] EXCEPT !.hash = fresh', !.by = "user"]
  <2>1. /\ fresh' = fresh + 1 /\ UNCHANGED beside /\ Exists(p)
        /\ User(New1(p, g), <<modify>>, EditRaces(p), {})
    BY <1>8 DEF UserEdits, modify
  <2>2. disk[p] \in File /\ disk[p].inode <= fresh /\ disk[p].inode > 0
    BY <2>1 DEF TypeInv, DiskTyped, Within
  <2>3. g = [inode |-> disk[p].inode, hash |-> fresh', by |-> "user"]
    <3>1. disk[p] = [inode |-> disk[p].inode, hash |-> disk[p].hash, by |-> disk[p].by]
      BY <2>2 DEF File
    <3> QED
      BY <3>1, Edited
  <2> HIDE DEF g
  <2>4. ProperFile(g, fresh')
    <3>1. g.inode = disk[p].inode /\ g.hash = fresh' /\ g.by = "user"
      BY <2>3
    <3>2. g \in File
      BY <1>0, <2>1, <2>2, <2>3 DEF File
    <3>3. g # NoFile
      BY <2>3 DEF NoFile
    <3>4. disk[p].inode \in Nat /\ disk[p].inode <= fresh' /\ fresh' <= fresh'
      BY <1>0, <2>1, <2>2 DEF File
    <3>5. Within(g, fresh')
      BY <3>1, <3>4 DEF Within
    <3> QED
      BY <2>2, <3>1, <3>2, <3>3, <3>5 DEF ProperFile
  <2> QED
    BY <1>0, <1>3, <1>14, <2>1, <2>4, UserTyped
<1>9. CASE UserSaves(p)
  <2>1. /\ fresh' = fresh + 1 /\ UNCHANGED beside
        /\ User(New1(p, f), <<saved>>, EditRaces(p), {})
    BY <1>9 DEF UserSaves, f, saved
  <2> QED
    BY <1>0, <1>5, <1>14, <2>1, UserTyped
<1>10. CASE UserRenews(p)
  <2>1. /\ fresh' = fresh + 1 /\ beside' = beside \cup {p}
        /\ User(New1(p, f), <<backed, create, modify>>, Busy(p), {"renewed"})
    BY <1>10 DEF UserRenews, f, backed, create, modify
  <2>2. ProperNotes(<<backed, create, modify>>)
    BY <1>2 DEF Range, ProperNotes
  <2> QED
    BY <1>0, <1>5, <2>1, <2>2, UserTyped
<1>11. CASE UserBacksUp(p)
  <2>1. UNCHANGED fresh /\ beside' = beside \cup {p} /\ User(<<>>, <<>>, FALSE, {})
    BY <1>11 DEF UserBacksUp
  <2>2. DOMAIN <<>> = {} /\ ProperNotes(<<>>)
    BY DEF Range, ProperNotes
  <2>3. DOMAIN <<>> \subseteq Path /\ \A x \in DOMAIN <<>> : ProperFile(<<>>[x], fresh')
    BY <2>2
  <2>4. fresh' \in {fresh, fresh + 1} /\ beside' \subseteq Path
    BY <1>0, <2>1
  <2> QED
    BY <1>0, <2>1, <2>2, <2>3, <2>4, UserTyped
<1>12. ASSUME NEW noted \in {"destroy", "rename"}, UserDeletes(p, noted) PROVE TypeInv'
  <2>1. /\ UNCHANGED <<beside, fresh>>
        /\ User(New1(p, NoFile), <<Notice(noted, p, NoTo, "user")>>, Busy(p),
                IF p \in beside THEN {"hidden"} ELSE {})
    BY <1>12 DEF UserDeletes
  <2>2. Notice(noted, p, NoTo, "user") \in Event /\ ProperEvent(Notice(noted, p, NoTo, "user"))
    BY NoticesTyped
  <2>3. ProperNotes(<<Notice(noted, p, NoTo, "user")>>)
    BY <1>4, <2>2
  <2>4. ProperFile(NoFile, fresh')
    BY <1>0, <2>1 DEF NoFile, File, Within, ProperFile
  <2> QED
    BY <1>0, <1>3, <2>1, <2>3, <2>4, UserTyped
<1>13. ASSUME NEW q \in Path, UserMoves(p, q) PROVE TypeInv'
  <2> DEFINE files == [x \in {p, q} |-> IF x = p THEN NoFile ELSE disk[p]]
  <2>1. /\ UNCHANGED <<beside, fresh>> /\ Exists(p) /\ p # q
        /\ User(files, <<Notice("rename", p, q, "user")>>, Busy(p) \/ Busy(q),
                IF Exists(q) THEN {"overwritten"} ELSE {})
    BY <1>13 DEF UserMoves
  <2>2. Notice("rename", p, q, "user") \in Event /\ ProperEvent(Notice("rename", p, q, "user"))
    BY NoticesTyped
  <2>3. ProperNotes(<<Notice("rename", p, q, "user")>>)
    BY <1>4, <2>2
  <2>4. ProperFile(NoFile, fresh')
    BY <1>0, <2>1 DEF NoFile, File, Within, ProperFile
  <2>5. ProperFile(disk[p], fresh')
    BY <2>1, FilesTyped DEF TypeInv
  <2>6. DOMAIN files \subseteq Path /\ \A x \in DOMAIN files : ProperFile(files[x], fresh')
    BY <2>4, <2>5
  <2> HIDE DEF files
  <2> QED
    BY <1>0, <2>1, <2>3, <2>6, UserTyped
<1> QED
  BY <1>1, <1>6, <1>7, <1>8, <1>9, <1>10, <1>11, <1>12, <1>13

-----------------------------------------------------------------------------
(* Types: the ends of the process, the watcher, the polling thread. *)

LEMMA EndsTyped == ASSUME TypeInv, NEW how \in Path \cup {"killed"}, Ends(how) PROVE TypeInv'
<1>1. /\ status' = how /\ notices' = <<>> /\ events' = <<>> /\ seen' = <<>> /\ out' = <<>>
      /\ expected' = NothingExpected /\ changes' = <<>> /\ running' = {}
      /\ fate' = [p \in Path |-> fate[p] \cup
                                 (IF p # how /\ WorkOn(p) # {} THEN {"lost"} ELSE {})]
      /\ UNCHANGED <<fsVars, db, remote, fresh>>
  BY DEF Ends
<1>2. Grows
  BY <1>1, SameGrows
<1>3. DiskTyped' /\ DbTyped' /\ CloudTyped' /\ RunsTyped'
  BY <1>1, <1>2, DiskKept, DbKept, CloudKept, RunsKept
<1>4. Range(<<>>) = {} /\ <<>> \in Seq(Event) /\ <<>> \in Seq(Change) /\ Len(<<>>) = 0
  BY DEF Range
<1>5. EventsTyped'
  BY <1>1, <1>4 DEF EventsTyped
<1>6. LineTyped'
  BY <1>1, <1>4 DEF LineTyped
<1>7. RestTyped'
  <2>1. "lost" \in Fates /\ \A p \in Path : fate[p] \subseteq Fates
    BY DEF Fates, TypeInv, RestTyped
  <2>2. fate' \in [Path -> SUBSET Fates]
    BY <1>1, <2>1
  <2>3. DOMAIN NothingExpected = {}
    BY DEF NothingExpected
  <2> QED
    BY <1>1, <2>2, <2>3 DEF TypeInv, RestTyped
<1> QED
  BY <1>3, <1>5, <1>6, <1>7 DEF TypeInv

LEMMA StaysTyped == ASSUME TypeInv, Restart \/ Rest \/ UNCHANGED vars PROVE TypeInv'
<1>1. /\ UNCHANGED <<fsVars, eventVars, expected, changes, running, db, remote, fresh, fate>>
      /\ status' \in {"up", status}
  BY DEF Restart, Rest, vars
<1>2. Grows
  BY <1>1, SameGrows
<1>3. DiskTyped' /\ DbTyped' /\ CloudTyped' /\ RunsTyped' /\ LineTyped' /\ EventsTyped'
  BY <1>1, <1>2, DiskKept, DbKept, CloudKept, RunsKept, LineKept, EventsKept DEF eventVars
<1>4. RestTyped'
  BY <1>1 DEF TypeInv, RestTyped
<1> QED
  BY <1>3, <1>4 DEF TypeInv

LEMMA WatchedTyped == ASSUME TypeInv, OnFsEvent PROVE TypeInv'
<1>1. /\ notices # <<>> /\ notices' = Tail(notices)
      /\ events' \in {events, Append(events, Head(notices))}
      /\ UNCHANGED <<fsVars, expected, seen, out, changes, running, db, remote, status, fresh, fate>>
  BY DEF OnFsEvent
<1>2. Grows
  BY <1>1, SameGrows
<1>3. DiskTyped' /\ DbTyped' /\ CloudTyped' /\ RunsTyped' /\ LineTyped'
  BY <1>1, <1>2, DiskKept, DbKept, CloudKept, RunsKept, LineKept
<1>4. EventsTyped'
  <2>1. /\ Head(notices) \in Event /\ Tail(notices) \in Seq(Event)
        /\ Range(notices) = Range(Tail(notices)) \cup {Head(notices)}
    BY <1>1, Beheaded DEF TypeInv, EventsTyped
  <2>2. /\ Append(events, Head(notices)) \in Seq(Event)
        /\ Range(Append(events, Head(notices))) = Range(events) \cup {Head(notices)}
    BY <2>1, Appended DEF TypeInv, EventsTyped
  <2> QED
    BY <1>1, <2>1, <2>2 DEF TypeInv, EventsTyped
<1>5. RestTyped'
  BY <1>1 DEF TypeInv, RestTyped
<1> QED
  BY <1>3, <1>4, <1>5 DEF TypeInv

(* The head of the queue. *)
LEMMA Polled ==
  ASSUME TypeInv, NEW e, Next1(e)
  PROVE  /\ e \in Event /\ ProperEvent(e) /\ events' \in Seq(Event) /\ Up
         /\ e \in Range(events) /\ Range(events) = Range(events') \cup {e}
<1>1. events # <<>> /\ events \in Seq(Event) /\ e = Head(events) /\ events' = Tail(events) /\ Up
  BY DEF Next1, TypeInv, EventsTyped
<1>2. Head(events) \in Event /\ Tail(events) \in Seq(Event)
      /\ Range(events) = Range(Tail(events)) \cup {Head(events)}
  BY <1>1, Beheaded
<1> QED
  BY <1>1, <1>2 DEF TypeInv, EventsTyped

ProperNew(c) == c \in Change /\ Proper(c, db.lastId, fresh) /\ Waits(c) /\ Local(c)

(* What comes of an event. *)
Answers ==
  \/ Ignored
  \/ \E p \in Path, type \in ChangeTypes : Awaited(p, type)
  \/ \E c : ProperNew(c) /\ Emits(c)
  \/ \E c : ProperNew(c) /\ c.type = "Update" /\ seen' = <<c>> /\ UNCHANGED <<expected, out, status>>

LEMMA AnswerTyped == ASSUME TypeInv, NEW e, Next1(e), Looks, Answers PROVE TypeInv'
<1>1. UNCHANGED <<fsVars, notices, changes, running, db, remote, fresh, fate>>
  BY DEF Looks
<1>2. Grows
  BY <1>1, SameGrows
<1>3. DiskTyped' /\ DbTyped' /\ CloudTyped' /\ RunsTyped'
  BY <1>1, <1>2, DiskKept, DbKept, CloudKept, RunsKept
<1>4. EventsTyped'
  BY <1>1, Polled DEF TypeInv, EventsTyped
<1>5. CASE Ignored
  BY <1>1, <1>2, <1>3, <1>4, <1>5, LineKept DEF Ignored, TypeInv, RestTyped
<1>6. ASSUME NEW p \in Path, NEW type \in ChangeTypes, Awaited(p, type) PROVE TypeInv'
  <2>1. UNCHANGED <<seen, out, status>> /\ expected' = Checked(expected, p, type)
    BY <1>6 DEF Awaited
  <2>2. /\ DOMAIN expected' \subseteq DOMAIN expected
        /\ \A x \in DOMAIN expected' : expected'[x] = expected[x]
    BY <2>1 DEF Checked, Without, Restrict
  <2>3. RestTyped'
    BY <1>1, <2>1, <2>2 DEF TypeInv, RestTyped
  <2> QED
    BY <1>1, <1>2, <1>3, <1>4, <2>1, <2>3, LineKept DEF TypeInv
<1>7. ASSUME NEW c, ProperNew(c), Emits(c) PROVE TypeInv'
  <2>1. out' = Append(out, c) /\ UNCHANGED <<expected, seen, status>>
    BY <1>7 DEF Emits
  <2>2. RestTyped'
    BY <1>1, <2>1 DEF TypeInv, RestTyped
  <2>3. /\ Append(out, c) \in Seq(Change) /\ Range(Append(out, c)) = Range(out) \cup {c}
    BY <1>7, Appended DEF ProperNew, TypeInv, LineTyped
  <2>4. LineTyped'
    BY <1>1, <1>7, <2>1, <2>3 DEF ProperNew, TypeInv, LineTyped
  <2> QED
    BY <1>3, <1>4, <2>2, <2>4 DEF TypeInv
<1>8. ASSUME NEW c, ProperNew(c), c.type = "Update", seen' = <<c>>,
             UNCHANGED <<expected, out, status>>
      PROVE  TypeInv'
  <2>1. RestTyped'
    BY <1>1, <1>8 DEF TypeInv, RestTyped
  <2>2. Range(<<c>>) = {c} /\ Len(<<c>>) = 1
    BY DEF Range
  <2>3. <<c>> \in Seq(Change)
    BY <1>8 DEF ProperNew
  <2>4. LineTyped'
    BY <1>1, <1>8, <2>2, <2>3 DEF ProperNew, TypeInv, LineTyped
  <2> QED
    BY <1>3, <1>4, <2>1, <2>4 DEF TypeInv
<1> QED
  BY <1>5, <1>6, <1>7, <1>8 DEF Answers

LEMMA ChangeTyped ==
  ASSUME TypeInv, NEW type \in ChangeTypes, NEW gid \in Nat, gid <= db.lastId,
         NEW p \in Path, NEW q \in Path \cup {NoTo}, NEW by \in {"user", "program"},
         type = "Move" <=> q \in Path
  PROVE  ProperNew(ChangeOf(type, gid, p, q, by))
<1> DEFINE c == ChangeOf(type, gid, p, q, by)
           f == StatOf(p)
<1>1. /\ disk[p].inode \in Nat /\ disk[p].hash \in Nat
      /\ disk[p].inode <= fresh /\ disk[p].hash <= fresh /\ fresh \in Nat
  BY DEF TypeInv, DiskTyped, File, Within, RestTyped
<1>2. f \in Stamp /\ Within(f, fresh)
  BY <1>1 DEF Stamp, StatOf, Within
<1> HIDE DEF f
<1>3. c = [type |-> type, gid |-> gid, path |-> p, to |-> q, stat |-> f, cid |-> 0,
           by |-> by, stage |-> "waiting"]
  BY DEF ChangeOf, f
<1> HIDE DEF c
<1>4. c \in Change
  BY <1>2, <1>3 DEF Change
<1>5. Waits(c) /\ Local(c)
  BY <1>3 DEF Waits, Local
<1>6. Proper(c, db.lastId, fresh)
  BY <1>1, <1>2, <1>3 DEF Proper
<1> QED
  BY <1>4, <1>5, <1>6 DEF ProperNew, c

(* getFileByFileId(), and for an update getFileByPath(). *)
LEMMA RowFound ==
  ASSUME TypeInv, NEW p \in Path
  PROVE  \/ RowFor(p) \in RowsWith(disk[p].inode)
         \/ RowsWith(disk[p].inode) = {} /\ RowFor(p) \in RowsOf(db, p)
         \/ RowsWith(disk[p].inode) = {} /\ RowsOf(db, p) = {} /\ RowFor(p) = 0
<1> DEFINE T == RowsWith(disk[p].inode)
<1>1. T \subseteq Nat
  BY DEF RowsWith, TypeInv, DbTyped, Rowed, Tables
<1>2. CASE T # {}
  <2> HIDE DEF T
  <2>1. \E gid \in T : \A o \in T : gid <= o
    BY <1>1, <1>2, SmallestNat
  <2> QED
    BY <1>2, <2>1 DEF RowFor, T
<1>3. CASE T = {} /\ HasRow(db, p)
  <2>1. RowFor(p) = GlobalId(db, p)
    BY <1>3 DEF RowFor
  <2>2. GlobalId(db, p) \in RowsOf(db, p)
    BY <1>3, FirstRow DEF TypeInv, DbTyped
  <2> QED
    BY <1>3, <2>1, <2>2
<1>4. CASE T = {} /\ ~HasRow(db, p)
  BY <1>4 DEF RowFor, HasRow
<1> QED
  BY <1>2, <1>3, <1>4

LEMMA RowIds ==
  ASSUME TypeInv, NEW r \in DOMAIN db.files
  PROVE  r \in Nat /\ r > 0 /\ r <= db.lastId
  BY DEF TypeInv, DbTyped, Rowed, Tables

LEMMA ChangeKinds == ChangeTypes = {"New", "Update", "Move", "Delete"}
  BY DEF ChangeTypes

LEMMA CreatedAnswers ==
  ASSUME TypeInv, NEW p \in Path, NEW e \in Event, Created(p, e)
  PROVE  Answers
<1>1. CASE Expects(expected, p, "New")
  BY <1>1, ChangeKinds DEF Created, Answers
<1>2. CASE ~Expects(expected, p, "New")
  <2>1. Emits(ChangeOf("New", 0, p, NoTo, e.by))
    BY <1>2 DEF Created
  <2>2. e.by \in {"user", "program"} /\ 0 <= db.lastId /\ NoTo \notin Path
    BY Ids DEF Event, TypeInv, DbTyped, Rowed, Tables
  <2>3. ProperNew(ChangeOf("New", 0, p, NoTo, e.by))
    BY <2>2, ChangeKinds, ChangeTyped
  <2> QED
    BY <2>1, <2>3 DEF Answers
<1> QED
  BY <1>1, <1>2

LEMMA DeletedAnswers ==
  ASSUME TypeInv, NEW p \in Path, NEW e \in Event, Deleted(p, e)
  PROVE  Answers
<1>1. CASE Expects(expected, p, "Delete")
  BY <1>1, ChangeKinds DEF Deleted, Answers
<1>2. CASE ~Expects(expected, p, "Delete") /\ Ignored
  BY <1>2 DEF Answers
<1>3. CASE ~Expects(expected, p, "Delete") /\ HasRow(db, p)
           /\ Emits(ChangeOf("Delete", GlobalId(db, p), p, NoTo, e.by))
  <2>1. e.by \in {"user", "program"} /\ NoTo \notin Path
    BY Ids DEF Event
  <2>2. GlobalId(db, p) \in DOMAIN db.files
    BY <1>3, FirstRow DEF TypeInv, DbTyped, RowsOf
  <2>3. ProperNew(ChangeOf("Delete", GlobalId(db, p), p, NoTo, e.by))
    BY <2>1, <2>2, RowIds, ChangeKinds, ChangeTyped
  <2> QED
    BY <1>3, <2>3 DEF Answers
<1> QED
  BY <1>1, <1>2, <1>3 DEF Deleted

LEMMA UpdatedAnswers ==
  ASSUME TypeInv, NEW p \in Path, Updated(p)
  PROVE  Answers
<1> DEFINE gid == RowFor(p)
           c == ChangeOf("Update", gid, p, NoTo, disk[p].by)
<1>1. CASE Ignored
  BY <1>1 DEF Answers
<1>2. CASE ~(gid = 0 \/ ~Exists(p)) /\ seen' = <<c>> /\ UNCHANGED <<expected, out, status>>
  <2>1. disk[p].by \in {"user", "program"} /\ NoTo \notin Path
    BY <1>2, Ids DEF TypeInv, DiskTyped, File
  <2>2. gid \in DOMAIN db.files
    BY <1>2, RowFound DEF RowsWith, RowsOf
  <2>3. ProperNew(c)
    BY <2>1, <2>2, RowIds, ChangeKinds, ChangeTyped
  <2>4. c.type = "Update"
    BY DEF ChangeOf
  <2> HIDE DEF c
  <2> QED
    BY <1>2, <2>3, <2>4 DEF Answers
<1> QED
  BY <1>1, <1>2 DEF Updated

LEMMA MovedAnswers ==
  ASSUME TypeInv, NEW e \in Event, e.path \in Path, e.to \in Path, Moved(e)
  PROVE  Answers
<1> DEFINE T == RowsWith(disk[e.to].inode)
           gid == CHOOSE gid \in T : TRUE
           c == ChangeOf("Move", gid, e.path, e.to, e.by)
<1>1. CASE Expects(expected, e.path, "Move")
  BY <1>1, ChangeKinds DEF Moved, Answers
<1>2. CASE ~Expects(expected, e.path, "Move") /\ T = {}
  <2>1. Created(e.to, e)
    BY <1>2 DEF Moved
  <2> QED
    BY <2>1, CreatedAnswers
<1>3. CASE ~Expects(expected, e.path, "Move") /\ T # {}
  <2>1. Emits(c)
    BY <1>3 DEF Moved
  <2>2. gid \in DOMAIN db.files
    BY <1>3 DEF RowsWith
  <2>3. e.by \in {"user", "program"}
    BY DEF Event
  <2> HIDE DEF gid
  <2>4. gid \in Nat /\ gid <= db.lastId /\ "Move" \in ChangeTypes
    BY <2>2, RowIds, ChangeKinds
  <2>5. ProperNew(c)
    BY <2>3, <2>4, ChangeTyped
  <2> QED
    BY <2>1, <2>5 DEF Answers
<1> QED
  BY <1>1, <1>2, <1>3

(* A rename is one of these. *)
LEMMA Renames ==
  ASSUME NEW e \in Event, ProperEvent(e), e.type = "rename"
  PROVE  \/ e.to = NoTo /\ e.path \in Path
         \/ e.to = Tmp /\ e.path \in Path
         \/ e.to \in Path /\ e.path = Tmp
         \/ e.to \in Path /\ e.path \in Path
  BY Ids DEF Event, ProperEvent

LEMMA PollingTyped == ASSUME TypeInv, Polling PROVE TypeInv'
<1>1. CASE HandleCreated
  <2>1. PICK e : Next1(e) /\ e.type = "create" /\ Created(e.path, e) /\ Looks
    BY <1>1 DEF HandleCreated
  <2>2. e \in Event /\ e.path \in Path
    BY <2>1, Polled DEF ProperEvent, Event
  <2> QED
    BY <2>1, <2>2, CreatedAnswers, AnswerTyped
<1>2. CASE HandleDeleted
  <2>1. PICK e : Next1(e) /\ e.type = "destroy" /\ Deleted(e.path, e) /\ Looks
    BY <1>2 DEF HandleDeleted
  <2>2. e \in Event /\ e.path \in Path
    BY <2>1, Polled DEF ProperEvent, Event
  <2> QED
    BY <2>1, <2>2, DeletedAnswers, AnswerTyped
<1>3. CASE HandleUpdated
  <2>1. PICK e : Next1(e) /\ e.type = "modify" /\ Updated(e.path) /\ Looks
    BY <1>3 DEF HandleUpdated
  <2>2. e \in Event /\ e.path \in Path
    BY <2>1, Polled DEF ProperEvent, Event
  <2> QED
    BY <2>1, <2>2, UpdatedAnswers, AnswerTyped
<1>4. CASE HandleRenamed
  <2>1. PICK e : /\ Next1(e) /\ e.type = "rename" /\ Looks
                 /\ IF e.to = NoTo
                    THEN IF Exists(e.path) THEN Created(e.path, e) ELSE Deleted(e.path, e)
                    ELSE IF e.to = Tmp THEN Ignored
                    ELSE IF e.path = Tmp THEN Updated(e.to)
                    ELSE Moved(e)
    BY <1>4 DEF HandleRenamed
  <2>2. e \in Event /\ ProperEvent(e)
    BY <2>1, Polled
  <2>3. Answers
    <3>1. CASE e.to = NoTo /\ e.path \in Path
      <4>1. Created(e.path, e) \/ Deleted(e.path, e)
        BY <2>1, <3>1
      <4> QED
        BY <2>2, <3>1, <4>1, CreatedAnswers, DeletedAnswers
    <3>2. CASE e.to = Tmp
      BY <2>1, <3>2, Ids DEF Answers
    <3>3. CASE e.to \in Path /\ e.path = Tmp
      <4>1. Updated(e.to)
        BY <2>1, <3>3, Ids
      <4> QED
        BY <3>3, <4>1, UpdatedAnswers
    <3>4. CASE e.to \in Path /\ e.path \in Path
      <4>1. Moved(e)
        BY <2>1, <3>4, Ids
      <4> QED
        BY <2>2, <3>4, <4>1, MovedAnswers
    <3> QED
      BY <2>1, <2>2, <3>1, <3>2, <3>3, <3>4, Renames
  <2> QED
    BY <2>1, <2>3, AnswerTyped
<1>5. CASE HandleGone
  <2> DEFINE e == Head(events)
  <2>1. events # <<>>
    BY <1>5 DEF HandleGone
  <2>2. e \in Event /\ ProperEvent(e)
    BY <2>1, Beheaded DEF TypeInv, EventsTyped
  <2>3. \/ e.type = "create" /\ Abort(e.path)
        \/ e.type = "rename" /\ e.to \in Path /\ Abort(e.to)
    BY <1>5 DEF HandleGone
  <2> HIDE DEF e
  <2>4. e.type = "create" => e.path \in Path
    BY <2>2 DEF ProperEvent, Event
  <2> QED
    BY <2>3, <2>4, EndsTyped DEF Abort
<1>6. CASE WriteSeen
  <2> DEFINE c == seen[1]
  <2>1. /\ seen # <<>> /\ db' = WithFileUpdated(db, c.gid, c.stat) /\ out' = Append(out, c)
        /\ seen' = <<>>
        /\ UNCHANGED <<fsVars, notices, events, expected, changes, running, remote, status,
                        fresh, fate>>
    BY <1>6 DEF WriteSeen
  <2>2. Len(seen) \in Nat \ {0}
    BY <2>1, EmptySeq DEF TypeInv, LineTyped
  <2>3. c \in Range(seen) /\ c \in Change
    BY <2>2, RangeEquality, LenProperties, ElementOfSeq DEF TypeInv, LineTyped, Range
  <2>4. Proper(c, db.lastId, fresh) /\ Waits(c) /\ Local(c) /\ c.stat \in Stamp
    BY <2>3 DEF TypeInv, LineTyped, Change
  <2> HIDE DEF c
  <2>5. /\ Rowed(db') /\ db'.lastId = db.lastId /\ db'.links = db.links
        /\ DOMAIN db'.files = DOMAIN db.files
        /\ \A r \in DOMAIN db.files :
             db'.files[r].stat = IF r = c.gid THEN c.stat ELSE db.files[r].stat
    BY <2>1, <2>4, FileUpdated DEF TypeInv, DbTyped
  <2>6. Grows
    BY <2>1, <2>5 DEF Grows, TypeInv, RestTyped, DbTyped, Rowed, Tables
  <2>7. DiskTyped' /\ CloudTyped' /\ RunsTyped' /\ EventsTyped'
    BY <2>1, <2>6, DiskKept, CloudKept, RunsKept, EventsKept
  <2>8. DbTyped'
    BY <2>1, <2>4, <2>5 DEF DbTyped, TypeInv, Proper
  <2>9. LineTyped'
    <3>1. Append(out, c) \in Seq(Change) /\ Range(Append(out, c)) = Range(out) \cup {c}
      BY <2>3, Appended DEF TypeInv, LineTyped
    <3>2. Range(<<>>) = {} /\ <<>> \in Seq(Change) /\ Len(<<>>) = 0
      BY DEF Range
    <3> QED
      BY <2>1, <2>4, <2>5, <3>1, <3>2 DEF TypeInv, LineTyped
  <2>10. RestTyped'
    BY <2>1 DEF TypeInv, RestTyped
  <2> QED
    BY <2>7, <2>8, <2>9, <2>10 DEF TypeInv
<1>7. CASE HandOver
  <2>1. /\ changes' = changes \o out /\ out' = <<>>
        /\ UNCHANGED <<fsVars, notices, events, seen, expected, running, db, remote, status,
                        fresh, fate>>
    BY <1>7 DEF HandOver
  <2>2. Grows
    BY <2>1, SameGrows
  <2>3. DiskTyped' /\ DbTyped' /\ CloudTyped' /\ RunsTyped' /\ EventsTyped'
    BY <2>1, <2>2, DiskKept, DbKept, CloudKept, RunsKept, EventsKept
  <2>4. LineTyped'
    <3>1. changes \o out \in Seq(Change) /\ Range(changes \o out) = Range(changes) \cup Range(out)
      BY ConcatProperties, RangeConcatenation DEF TypeInv, LineTyped
    <3>2. Range(<<>>) = {} /\ <<>> \in Seq(Change)
      BY DEF Range
    <3> QED
      BY <2>1, <3>1, <3>2 DEF TypeInv, LineTyped
  <2>5. RestTyped'
    BY <2>1 DEF TypeInv, RestTyped
  <2> QED
    BY <2>3, <2>4, <2>5 DEF TypeInv
<1> QED
  BY <1>1, <1>2, <1>3, <1>4, <1>5, <1>6, <1>7 DEF Polling

-----------------------------------------------------------------------------
(* Types: commands and changes from the cloud. *)

LEMMA StartsTyped ==
  ASSUME TypeInv, Grows, UNCHANGED <<seen, out>>, NEW k \in DOMAIN changes,
         NEW d \in Change, NEW stage, Staged(d, stage) \in Change, Runs(Staged(d, stage)),
         Proper(d, db.lastId, fresh) \/ Proper(d, db'.lastId, fresh'),
         Starts(k, d, stage)
  PROVE  LineTyped' /\ RunsTyped'
<1>1. changes' = RemoveAt(changes, k) /\ running' = running \cup {Staged(d, stage)}
  BY DEF Starts
<1> DEFINE s == Staged(d, stage)
<1>2. /\ s.gid = d.gid /\ s.cid = d.cid /\ s.stat = d.stat /\ s.type = d.type /\ s.to = d.to
  BY DEF Staged, Change
<1>3. Proper(d, db'.lastId, fresh')
  BY StillPast
<1>4. Proper(s, db'.lastId, fresh')
  BY <1>2, <1>3 DEF Proper
<1> HIDE DEF s
<1>5. \A x \in running : x \in Change /\ Proper(x, db'.lastId, fresh') /\ Runs(x)
  BY StillPast DEF TypeInv, RunsTyped
<1> QED
  BY <1>1, <1>4, <1>5, LineShrinks DEF RunsTyped, s

LEMMA StagedTyped ==
  ASSUME NEW c \in Change, NEW stage \in {"request", "loading", "placed"},
         stage = "request" <=> Local(c),
         stage = "loading" => c.type \in {"New", "Update"}
  PROVE  /\ Staged(c, stage) \in Change /\ Runs(Staged(c, stage))
<1>1. Staged(c, stage) =
        [type |-> c.type, gid |-> c.gid, path |-> c.path, to |-> c.to, stat |-> c.stat,
         cid |-> c.cid, by |-> c.by, stage |-> stage]
  BY DEF Staged, Change
<1>2. Staged(c, stage) \in Change
  BY <1>1 DEF Change
<1>3. Staged(c, stage).stage = stage /\ Staged(c, stage).by = c.by /\ Staged(c, stage).type = c.type
  BY <1>1
<1> QED
  BY <1>2, <1>3 DEF Runs, Local

LEMMA Numbered ==
  ASSUME NEW c \in Change, NEW gid, NEW cid, NEW d, d = [c EXCEPT !.gid = gid, !.cid = cid]
  PROVE  d = [type |-> c.type, gid |-> gid, path |-> c.path, to |-> c.to, stat |-> c.stat,
              cid |-> cid, by |-> c.by, stage |-> c.stage]
<1>1. c = [type |-> c.type, gid |-> c.gid, path |-> c.path, to |-> c.to, stat |-> c.stat,
           cid |-> c.cid, by |-> c.by, stage |-> c.stage]
  BY DEF Change
<1> QED
  BY <1>1

(* The change at the head of its path. *)
LEMMA InLine ==
  ASSUME TypeInv, NEW k \in DOMAIN changes
  PROVE  LET c == changes[k] IN
         /\ c \in Change /\ Proper(c, db.lastId, fresh) /\ Waits(c) /\ c \in Range(changes)
         /\ c.path \in Path /\ (c.type = "Move" => c.to \in Path)
<1>1. changes[k] \in Range(changes) /\ Range(changes) \subseteq Change
  BY RangeOfSeq DEF Range, TypeInv, LineTyped
<1> QED
  BY <1>1 DEF TypeInv, LineTyped, Change, Proper

LEMMA RestKept ==
  ASSUME TypeInv, fresh' \in {fresh, fresh + 1}, UNCHANGED <<expected, status, fate>>
  PROVE  RestTyped'
  BY DEF TypeInv, RestTyped

LEMMA FreshGrows ==
  ASSUME TypeInv, fresh' \in {fresh, fresh + 1}, db'.lastId \in {db.lastId, db.lastId + 1}
  PROVE  Grows
  BY DEF TypeInv, RestTyped, DbTyped, Rowed, Tables, Grows

(* What a file looks like. *)
LEMMA StatTyped ==
  ASSUME TypeInv, NEW p \in Path
  PROVE  StatOf(p) \in Stamp /\ Within(StatOf(p), fresh)
<1>1. /\ disk[p].inode \in Nat /\ disk[p].hash \in Nat
      /\ disk[p].inode <= fresh /\ disk[p].hash <= fresh
  BY DEF TypeInv, DiskTyped, File, Within
<1> QED
  BY <1>1 DEF Stamp, StatOf, Within

LEMMA NotedTyped ==
  ASSUME TypeInv, NEW c \in Change, Proper(c, db.lastId, fresh), UNCHANGED fresh,
         db' = Noted(c)
  PROVE  DbTyped' /\ db'.lastId \in {db.lastId, db.lastId + 1} /\
         (c.type = "New" => db'.lastId = NewId(db) /\ NewId(db) \in Nat)
<1>1. /\ c.path \in Path /\ c.stat \in Stamp /\ Within(c.stat, fresh)
      /\ c.type = "Move" => c.to \in Path
      /\ c.type \in {"New", "Update", "Move", "Delete"}
  BY ChangeKinds DEF Change, Proper
<1>2. StatOf(c.path) \in Stamp /\ Within(StatOf(c.path), fresh)
  BY <1>1, StatTyped
<1>3. Rowed(db) /\ db.lastId \in Nat
  BY DEF TypeInv, DbTyped, Rowed, Tables
<1>4. \A r \in DOMAIN db.files : Within(db.files[r].stat, fresh)
  BY DEF TypeInv, DbTyped
<1>5. \A key \in DOMAIN db.links : db.links[key].id <= fresh
  BY DEF TypeInv, DbTyped
<1>6. CASE c.type = "New"
  <2>1. db' = WithFile(db, c.path, StatOf(c.path))
    BY <1>6 DEF Noted
  <2>2. /\ Rowed(db') /\ db'.lastId = NewId(db) /\ NewId(db) = db.lastId + 1 /\ db'.links = db.links
        /\ DOMAIN db'.files = DOMAIN db.files \cup {NewId(db)}
        /\ db'.files[NewId(db)].path = c.path /\ db'.files[NewId(db)].stat = StatOf(c.path)
        /\ \A r \in DOMAIN db.files : db'.files[r] = db.files[r]
    BY <1>1, <1>2, <1>3, <2>1, FileAdded
  <2>3. \A r \in DOMAIN db'.files : Within(db'.files[r].stat, fresh)
    BY <1>2, <1>4, <2>2
  <2> QED
    BY <1>3, <1>5, <2>2, <2>3 DEF DbTyped
<1>7. CASE c.type = "Update"
  <2>1. db' = WithFileUpdated(db, c.gid, c.stat)
    BY <1>7 DEF Noted
  <2>2. /\ Rowed(db') /\ db'.lastId = db.lastId /\ db'.links = db.links
        /\ DOMAIN db'.files = DOMAIN db.files
        /\ \A r \in DOMAIN db.files :
             db'.files[r].stat = IF r = c.gid THEN c.stat ELSE db.files[r].stat
    BY <1>1, <1>3, <2>1, FileUpdated
  <2> QED
    BY <1>1, <1>4, <1>5, <1>7, <2>2 DEF DbTyped
<1>8. CASE c.type = "Move"
  <2>1. db' = WithFileMoved(db, c.gid, c.to)
    BY <1>8 DEF Noted
  <2>2. /\ Rowed(db') /\ db'.lastId = db.lastId /\ db'.links = db.links
        /\ DOMAIN db'.files = DOMAIN db.files
        /\ \A r \in DOMAIN db.files : db'.files[r].stat = db.files[r].stat
    BY <1>1, <1>3, <1>8, <2>1, FileMoved
  <2> QED
    BY <1>4, <1>5, <1>8, <2>2 DEF DbTyped
<1>9. CASE c.type = "Delete"
  <2>1. db' = WithoutFile(db, c.gid)
    BY <1>9 DEF Noted
  <2>2. /\ Rowed(db') /\ db'.lastId = db.lastId
        /\ DOMAIN db'.files = DOMAIN db.files \ {c.gid}
        /\ \A r \in DOMAIN db'.files : db'.files[r] = db.files[r]
        /\ DOMAIN db'.links = {key \in DOMAIN db.links : key[1] # c.gid}
        /\ \A key \in DOMAIN db'.links : db'.links[key] = db.links[key]
    BY <1>3, <2>1, FileRemoved
  <2> QED
    BY <1>4, <1>5, <1>9, <2>2 DEF DbTyped
<1> QED
  BY <1>1, <1>6, <1>7, <1>8, <1>9

LEMMA CallbackTyped ==
  ASSUME TypeInv, NEW k \in DOMAIN changes, LocalCallback(k)
  PROVE  TypeInv'
<1> DEFINE c == changes[k]
           gid == IF c.type = "New" THEN NewId(db) ELSE c.gid
           cid == IF c.type = "New" THEN 0 ELSE Link(gid).id
           d == [c EXCEPT !.gid = gid, !.cid = cid]
<1>1. /\ Local(c) /\ (c.type # "New" => Linked(c.gid))
      /\ db' = Noted(c) /\ Starts(k, d, "request")
      /\ UNCHANGED <<fsVars, eventVars, expected, remote, status, fresh, fate>>
  BY DEF LocalCallback
<1>2. c \in Change /\ Proper(c, db.lastId, fresh) /\ Waits(c)
  BY InLine
<1>3. cid \in Nat /\ cid <= fresh
  BY <1>1 DEF Link, Linked, TypeInv, DbTyped, Rowed, RestTyped
<1> HIDE DEF c
<1>4. DbTyped' /\ db'.lastId \in {db.lastId, db.lastId + 1}
      /\ (c.type = "New" => db'.lastId = NewId(db) /\ NewId(db) \in Nat)
  BY <1>1, <1>2, NotedTyped
<1>5. Grows
  BY <1>1, <1>4, FreshGrows
<1>6. gid \in Nat /\ gid <= db'.lastId
  <2>1. c.gid \in Nat /\ c.gid <= db.lastId /\ db.lastId \in Nat
    BY <1>2 DEF Change, Proper, TypeInv, DbTyped, Rowed, Tables
  <2>2. db'.lastId \in Nat /\ db.lastId <= db'.lastId
    BY <1>5 DEF Grows
  <2>3. CASE c.type = "New"
    BY <1>4, <2>2, <2>3
  <2>4. CASE c.type # "New"
    BY <2>1, <2>2, <2>4
  <2> QED
    BY <2>3, <2>4
<1> HIDE DEF gid, cid
<1>7. d = [type |-> c.type, gid |-> gid, path |-> c.path, to |-> c.to, stat |-> c.stat,
           cid |-> cid, by |-> c.by, stage |-> c.stage]
  BY <1>2, Numbered
<1> HIDE DEF d
<1>8. d \in Change /\ Proper(d, db'.lastId, fresh') /\ Local(d)
  <2>1. d \in Change
    BY <1>2, <1>3, <1>6, <1>7 DEF Change
  <2>2. Proper(d, db'.lastId, fresh')
    BY <1>1, <1>2, <1>3, <1>6, <1>7 DEF Proper
  <2>3. Local(d)
    BY <1>1, <1>7 DEF Local
  <2> QED
    BY <2>1, <2>2, <2>3
<1>9. Staged(d, "request") \in Change /\ Runs(Staged(d, "request"))
  BY <1>8, StagedTyped
<1>10. LineTyped' /\ RunsTyped'
  BY <1>1, <1>5, <1>8, <1>9, StartsTyped DEF eventVars, d
<1>11. DiskTyped' /\ EventsTyped' /\ CloudTyped' /\ RestTyped'
  BY <1>1, <1>5, DiskKept, EventsKept, CloudKept, RestKept DEF eventVars
<1> QED
  BY <1>4, <1>10, <1>11 DEF TypeInv

LEMMA RequestTyped == ASSUME TypeInv, NEW c, Request(c) PROVE TypeInv'
<1>1. /\ c \in running /\ running' = running \ {c}
      /\ c.type = "New" => CanLink(db, c.gid)
      /\ UNCHANGED <<fsVars, eventVars, expected, changes, status, fate>>
  BY DEF Request, Finished
<1>2. c \in Change /\ Proper(c, db.lastId, fresh)
  BY <1>1 DEF TypeInv, RunsTyped
<1>3. /\ c.path \in Path /\ (c.type = "Move" => c.to \in Path)
      /\ c.type \in {"New", "Update", "Move", "Delete"}
  BY <1>2, ChangeKinds DEF Change, Proper
<1>4. CASE c.type = "New"
  <2>1. /\ fresh' = fresh + 1
        /\ remote' = Put(remote, fresh', [path |-> c.path, hash |-> disk[c.path].hash])
        /\ db' = WithLink(db, c.gid, Cloud, [id |-> fresh'])
    BY <1>4 DEF Request
  <2>2. fresh \in Nat /\ fresh' \in Nat /\ c.gid \in DOMAIN db.files
    BY <1>1, <1>4, <2>1 DEF CanLink, TypeInv, RestTyped
  <2>3. /\ Rowed(db') /\ db'.lastId = db.lastId /\ db'.files = db.files
        /\ DOMAIN db'.links = DOMAIN db.links \cup {Key(c.gid)}
        /\ \A key \in DOMAIN db.links : db'.links[key] = db.links[key]
        /\ Key(c.gid) \notin DOMAIN db.links => db'.links[Key(c.gid)].id = fresh'
    BY <2>1, <2>2, LinkMade DEF TypeInv, DbTyped
  <2>4. Grows
    BY <2>1, <2>3, FreshGrows
  <2>5. \A key \in DOMAIN db.links : db.links[key].id \in Nat /\ db.links[key].id <= fresh'
    BY <2>1, <2>2 DEF TypeInv, DbTyped, Rowed
  <2>6. \A r \in DOMAIN db.files : Within(db.files[r].stat, fresh')
    <3>1. \A r \in DOMAIN db.files : db.files[r].stat \in Stamp /\ Within(db.files[r].stat, fresh)
      BY DEF TypeInv, DbTyped, Rowed
    <3> QED
      BY <2>4, <3>1, StillPast DEF Stamp
  <2>7. \A key \in DOMAIN db'.links : db'.links[key].id <= fresh'
    <3>1. fresh' <= fresh'
      BY <2>2
    <3> QED
      BY <2>3, <2>5, <3>1
  <2>8. DbTyped'
    BY <2>3, <2>6, <2>7 DEF DbTyped
  <2>9. CloudTyped'
    <3>1. disk[c.path].hash \in Nat /\ disk[c.path].hash <= fresh
      BY <1>3 DEF TypeInv, DiskTyped, File, Within
    <3> DEFINE x == [path |-> c.path, hash |-> disk[c.path].hash]
    <3>2. x \in [path : Path, hash : Nat] /\ x.hash <= fresh'
      BY <1>3, <2>1, <2>2, <3>1
    <3> HIDE DEF x
    <3>3. /\ DOMAIN remote' = DOMAIN remote \cup {fresh'} /\ remote'[fresh'] = x
          /\ \A n \in DOMAIN remote : n # fresh' => remote'[n] = remote[n]
      BY <2>1 DEF Put, x
    <3>4. ASSUME NEW n \in DOMAIN remote
          PROVE  /\ n \in 1..fresh' /\ n # fresh' /\ remote[n] \in [path : Path, hash : Nat]
                 /\ remote[n].hash <= fresh'
      <4>1. n \in 1..fresh /\ remote[n] \in [path : Path, hash : Nat] /\ remote[n].hash <= fresh
        BY DEF TypeInv, CloudTyped
      <4>2. remote[n].hash \in Nat
        BY <4>1
      <4> QED
        BY <2>1, <2>2, <4>1, <4>2
    <3>5. fresh' \in 1..fresh'
      BY <2>1, <2>2
    <3> QED
      BY <3>2, <3>3, <3>4, <3>5 DEF CloudTyped
  <2>10. DiskTyped' /\ EventsTyped' /\ LineTyped' /\ RunsTyped' /\ RestTyped'
    BY <1>1, <2>1, <2>4, DiskKept, EventsKept, LineKept, RunsKept, RestKept DEF eventVars
  <2> QED
    BY <2>8, <2>9, <2>10 DEF TypeInv
<1>5. CASE c.type # "New"
  <2>1. UNCHANGED <<db, fresh>>
    BY <1>3, <1>5 DEF Request
  <2>2. Grows
    BY <2>1, SameGrows
  <2>3. CloudTyped'
    <3>1. CASE c.type = "Update"
      <4>1. remote' = [remote EXCEPT ![c.cid].hash = disk[c.path].hash]
        BY <3>1 DEF Request
      <4>2. disk[c.path].hash \in Nat /\ disk[c.path].hash <= fresh
        BY <1>3 DEF TypeInv, DiskTyped, File, Within
      <4>3. /\ DOMAIN remote' = DOMAIN remote
            /\ \A n \in DOMAIN remote :
                 remote'[n] = IF n = c.cid THEN [remote[n] EXCEPT !.hash = disk[c.path].hash]
                              ELSE remote[n]
        BY <4>1
      <4> QED
        BY <2>1, <4>2, <4>3 DEF CloudTyped, TypeInv
    <3>2. CASE c.type = "Move"
      <4>1. remote' = [remote EXCEPT ![c.cid].path = c.to]
        BY <3>2 DEF Request
      <4>2. /\ DOMAIN remote' = DOMAIN remote
            /\ \A n \in DOMAIN remote :
                 remote'[n] = IF n = c.cid THEN [remote[n] EXCEPT !.path = c.to] ELSE remote[n]
        BY <4>1
      <4> QED
        BY <1>3, <2>1, <3>2, <4>2 DEF CloudTyped, TypeInv
    <3>3. CASE c.type = "Delete"
      <4>1. remote' = [x \in DOMAIN remote \ {c.cid} |-> remote[x]]
        BY <3>3 DEF Request
      <4> QED
        BY <2>1, <4>1 DEF CloudTyped, TypeInv
    <3> QED
      BY <1>3, <1>5, <3>1, <3>2, <3>3
  <2>4. DiskTyped' /\ EventsTyped' /\ LineTyped' /\ RunsTyped' /\ RestTyped' /\ DbTyped'
    BY <1>1, <2>1, <2>2, DiskKept, EventsKept, LineKept, RunsKept, RestKept, DbKept DEF eventVars
  <2> QED
    BY <2>3, <2>4 DEF TypeInv
<1> QED
  BY <1>4, <1>5

(* A change from the cloud, to what the cloud has by then. *)
LEMMA FromCloudTyped ==
  ASSUME TypeInv, NEW type \in ChangeTypes, NEW gid \in Nat, gid <= db.lastId,
         NEW cid \in Nat, cid <= fresh', NEW p \in Path, NEW q \in Path \cup {NoTo},
         type = "Move" <=> q \in Path, fresh' \in {fresh, fresh + 1}, CloudTyped',
         FromCloud(type, gid, cid, p, q)
  PROVE  TypeInv'
<1> DEFINE c == [type |-> type, gid |-> gid, cid |-> cid, path |-> p, to |-> q, stat |-> NoStat,
                 by |-> "cloud", stage |-> "waiting"]
           befallen == {p, q} \cap Path
           raced == \E x \in befallen : Busy(x)
<1>1. /\ changes' = Append(changes, c) /\ Befalls(befallen, raced, {})
      /\ UNCHANGED <<fsVars, eventVars, expected, running, db, status>>
  BY DEF FromCloud
<1>2. fresh \in Nat /\ fresh' \in Nat /\ fresh <= fresh' /\ Grows
  BY <1>1, FreshGrows DEF TypeInv, RestTyped
<1>3. NoStat \in Stamp /\ Within(NoStat, fresh')
  BY <1>2 DEF NoStat, Stamp, Within
<1>4. c \in Change /\ Waits(c) /\ Proper(c, db.lastId, fresh')
  <2>1. c \in Change
    BY <1>3 DEF Change
  <2>2. /\ c.gid = gid /\ c.cid = cid /\ c.stat = NoStat /\ c.type = type /\ c.to = q
        /\ c.stage = "waiting"
    OBVIOUS
  <2> HIDE DEF c
  <2> QED
    BY <1>3, <2>1, <2>2 DEF Waits, Proper
<1> HIDE DEF c
<1>5. LineTyped'
  <2>1. Append(changes, c) \in Seq(Change) /\ Range(Append(changes, c)) = Range(changes) \cup {c}
    BY <1>4, Appended DEF TypeInv, LineTyped
  <2>2. \A x \in Range(seen) \cup Range(out) \cup Range(changes) : x \in Change
    BY RangeOfSeq DEF TypeInv, LineTyped
  <2>3. \A x \in Range(seen) \cup Range(out) \cup Range(changes) : Proper(x, db'.lastId, fresh')
    BY <1>2, <2>2, StillPast DEF TypeInv, LineTyped
  <2> QED
    BY <1>1, <1>4, <2>1, <2>3 DEF TypeInv, LineTyped, eventVars
<1>6. DiskTyped' /\ EventsTyped' /\ RunsTyped' /\ DbTyped'
  BY <1>1, <1>2, DiskKept, EventsKept, RunsKept, DbKept DEF eventVars
<1>7. RestTyped'
  <2>1. befallen \subseteq Path /\ {} \subseteq Fates
    OBVIOUS
  <2>2. ASSUME NEW b, b = raced PROVE fate' \in [Path -> SUBSET Fates]
    <3>1. Befalls(befallen, b, {})
      BY <1>1, <2>2
    <3> QED
      BY <2>1, <3>1, Befallen
  <2> QED
    <3>1. fate' \in [Path -> SUBSET Fates]
      BY <2>2
    <3> QED
      BY <1>1, <1>2, <3>1 DEF TypeInv, RestTyped
<1> QED
  BY <1>5, <1>6, <1>7 DEF TypeInv

LEMMA LinkIdTyped ==
  ASSUME TypeInv, NEW r, Linked(r)
  PROVE  Link(r).id \in Nat /\ Link(r).id <= fresh
  BY DEF TypeInv, DbTyped, Rowed, Linked, Link

LEMMA CloudsTyped == ASSUME TypeInv, Clouds PROVE TypeInv'
<1>0. fresh \in Nat /\ NoTo \notin Path /\ 0 <= db.lastId
  BY Ids DEF TypeInv, RestTyped, DbTyped, Rowed, Tables
<1>1. ASSUME NEW p \in Path, CloudHasNew(p) PROVE TypeInv'
  <2> DEFINE x == [path |-> p, hash |-> fresh']
  <2>1. /\ fresh' = fresh + 1 /\ remote' = Put(remote, fresh', x)
        /\ FromCloud("New", 0, fresh', p, NoTo)
    BY <1>1 DEF CloudHasNew
  <2>2. x \in [path : Path, hash : Nat] /\ x.hash <= fresh' /\ fresh' \in 1..fresh'
    BY <1>0, <2>1
  <2> HIDE DEF x
  <2>3. /\ DOMAIN remote' = DOMAIN remote \cup {fresh'} /\ remote'[fresh'] = x
        /\ \A n \in DOMAIN remote : n # fresh' => remote'[n] = remote[n]
    BY <2>1 DEF Put
  <2>4. ASSUME NEW n \in DOMAIN remote
        PROVE  /\ n \in 1..fresh' /\ n # fresh' /\ remote[n] \in [path : Path, hash : Nat]
               /\ remote[n].hash <= fresh'
    <3>1. n \in 1..fresh /\ remote[n] \in [path : Path, hash : Nat] /\ remote[n].hash <= fresh
      BY DEF TypeInv, CloudTyped
    <3>2. remote[n].hash \in Nat
      BY <3>1
    <3> QED
      BY <1>0, <2>1, <3>1, <3>2
  <2>5. CloudTyped'
    BY <2>2, <2>3, <2>4 DEF CloudTyped
  <2>6. fresh' \in Nat /\ fresh' <= fresh' /\ 0 \in Nat
    BY <1>0, <2>1
  <2> QED
    BY <1>0, <2>1, <2>5, <2>6, ChangeKinds, FromCloudTyped
<1>2. ASSUME NEW gid \in DOMAIN db.files, CloudHasUpdate(gid) PROVE TypeInv'
  <2> DEFINE cid == Link(gid).id
  <2>1. /\ Linked(gid) /\ fresh' = fresh + 1
        /\ remote' = [remote EXCEPT ![cid].hash = fresh']
        /\ FromCloud("Update", gid, cid, db.files[gid].path, NoTo)
    BY <1>2 DEF CloudHasUpdate
  <2>2. cid \in Nat /\ cid <= fresh
    BY <2>1, LinkIdTyped
  <2> HIDE DEF cid
  <2>3. cid <= fresh' /\ db.files[gid].path \in Path /\ fresh' \in Nat
    BY <1>0, <2>1, <2>2 DEF TypeInv, DbTyped, Rowed
  <2>4. /\ DOMAIN remote' = DOMAIN remote
        /\ \A n \in DOMAIN remote :
             remote'[n] = IF n = cid THEN [remote[n] EXCEPT !.hash = fresh'] ELSE remote[n]
    BY <2>1
  <2>5. ASSUME NEW n \in DOMAIN remote
        PROVE  /\ n \in 1..fresh' /\ remote'[n] \in [path : Path, hash : Nat]
               /\ remote'[n].hash <= fresh'
    <3>1. n \in 1..fresh /\ remote[n] \in [path : Path, hash : Nat] /\ remote[n].hash <= fresh
      BY DEF TypeInv, CloudTyped
    <3>2. remote[n].hash \in Nat /\ n \in 1..fresh' /\ remote[n].hash <= fresh'
      BY <1>0, <2>1, <3>1
    <3>3. CASE n = cid
      <4>1. remote'[n] = [remote[n] EXCEPT !.hash = fresh']
        BY <2>4, <3>3
      <4>2. remote'[n] \in [path : Path, hash : Nat] /\ remote'[n].hash = fresh'
        BY <2>3, <3>1, <4>1
      <4> QED
        BY <2>3, <3>2, <4>2
    <3>4. CASE n # cid
      BY <2>4, <3>1, <3>2, <3>4
    <3> QED
      BY <3>3, <3>4
  <2>6. CloudTyped'
    BY <2>4, <2>5 DEF CloudTyped
  <2> QED
    BY <1>0, <2>1, <2>2, <2>3, <2>6, RowIds, ChangeKinds, FromCloudTyped
<1>3. ASSUME NEW gid \in DOMAIN db.files, NEW q \in Path, CloudHasMove(gid, q) PROVE TypeInv'
  <2> DEFINE cid == Link(gid).id
  <2>1. /\ Linked(gid) /\ UNCHANGED fresh
        /\ remote' = [remote EXCEPT ![cid].path = q]
        /\ FromCloud("Move", gid, cid, db.files[gid].path, q)
    BY <1>3 DEF CloudHasMove
  <2>2. cid \in Nat /\ cid <= fresh
    BY <2>1, LinkIdTyped
  <2> HIDE DEF cid
  <2>3. cid <= fresh' /\ db.files[gid].path \in Path
    BY <2>1, <2>2 DEF TypeInv, DbTyped, Rowed
  <2>4. /\ DOMAIN remote' = DOMAIN remote
        /\ \A n \in DOMAIN remote :
             remote'[n] = IF n = cid THEN [remote[n] EXCEPT !.path = q] ELSE remote[n]
    BY <2>1
  <2>5. CloudTyped'
    BY <2>1, <2>4 DEF CloudTyped, TypeInv
  <2> QED
    BY <1>0, <2>1, <2>2, <2>3, <2>5, RowIds, ChangeKinds, FromCloudTyped
<1>4. ASSUME NEW gid \in DOMAIN db.files, CloudHasDelete(gid) PROVE TypeInv'
  <2> DEFINE cid == Link(gid).id
  <2>1. /\ Linked(gid) /\ UNCHANGED fresh
        /\ remote' = [x \in DOMAIN remote \ {cid} |-> remote[x]]
        /\ FromCloud("Delete", gid, cid, db.files[gid].path, NoTo)
    BY <1>4 DEF CloudHasDelete
  <2>2. cid \in Nat /\ cid <= fresh
    BY <2>1, LinkIdTyped
  <2> HIDE DEF cid
  <2>3. cid <= fresh' /\ db.files[gid].path \in Path
    BY <2>1, <2>2 DEF TypeInv, DbTyped, Rowed
  <2>4. CloudTyped'
    BY <2>1 DEF CloudTyped, TypeInv
  <2> QED
    BY <1>0, <2>1, <2>2, <2>3, <2>4, RowIds, ChangeKinds, FromCloudTyped
<1> QED
  BY <1>1, <1>2, <1>3, <1>4 DEF Clouds

LEMMA LoadTyped == ASSUME TypeInv, NEW k \in DOMAIN changes, Load(k) PROVE TypeInv'
<1> DEFINE c == changes[k]
<1>1. /\ ~Local(c) /\ c.type \in {"New", "Update"} /\ Starts(k, c, "loading")
      /\ UNCHANGED <<fsVars, eventVars, expected, db, remote, status, fresh, fate>>
  BY DEF Load
<1>2. c \in Change /\ Proper(c, db.lastId, fresh)
  BY InLine
<1> HIDE DEF c
<1>3. Grows
  BY <1>1, SameGrows
<1>4. Staged(c, "loading") \in Change /\ Runs(Staged(c, "loading"))
  BY <1>1, <1>2, StagedTyped
<1>5. LineTyped' /\ RunsTyped'
  BY <1>1, <1>2, <1>3, <1>4, StartsTyped DEF eventVars
<1>6. DiskTyped' /\ EventsTyped' /\ DbTyped' /\ CloudTyped' /\ RestTyped'
  BY <1>1, <1>3, DiskKept, EventsKept, DbKept, CloudKept, RestKept DEF eventVars
<1> QED
  BY <1>5, <1>6 DEF TypeInv

LEMMA ExpectTyped ==
  ASSUME TypeInv, NEW p \in Path, NEW type \in ChangeTypes, Expect(p, type)
  PROVE  /\ DOMAIN expected' \subseteq Path
         /\ \A x \in DOMAIN expected' : expected'[x] \in ChangeTypes
  BY DEF Expect, Expecting, TypeInv, RestTyped

LEMMA GoneTyped == ASSUME NEW p \in Path PROVE ProperNotes(Gone(p))
<1>1. Notice("destroy", p, NoTo, "program") \in Event
      /\ ProperEvent(Notice("destroy", p, NoTo, "program"))
  BY NoticesTyped
<1>2. ASSUME NEW a \in Event, ProperEvent(a) PROVE ProperNotes(<<a>>) /\ ProperNotes(<<>>)
  BY <1>2 DEF Range, ProperNotes
<1> QED
  BY <1>1, <1>2 DEF Gone

(* The disk changes at some paths, the queue gets longer. *)
LEMMA PlacedTyped ==
  ASSUME TypeInv, fresh' \in {fresh, fresh + 1}, UNCHANGED <<beside, events>>,
         NEW files, DOMAIN files \subseteq Path,
         \A x \in DOMAIN files : ProperFile(files[x], fresh'),
         disk' = [x \in Path |-> IF x \in DOMAIN files THEN files[x] ELSE disk[x]],
         NEW noted, ProperNotes(noted), notices' = notices \o noted
  PROVE  DiskTyped' /\ EventsTyped'
<1>1. fresh \in Nat /\ fresh <= fresh' /\ fresh' \in Nat
  BY DEF TypeInv, RestTyped
<1>2. ASSUME NEW p \in Path PROVE ProperFile(disk'[p], fresh')
  <2>1. CASE p \in DOMAIN files
    BY <2>1
  <2>2. CASE p \notin DOMAIN files
    <3>1. disk'[p] = disk[p]
      BY <2>2
    <3>2. ProperFile(disk[p], fresh)
      BY FilesTyped DEF TypeInv
    <3>3. disk[p].inode <= fresh' /\ disk[p].hash <= fresh'
      BY <1>1, <3>2 DEF ProperFile, Within, File
    <3> QED
      BY <3>1, <3>2, <3>3 DEF ProperFile, Within
  <2> QED
    BY <2>1, <2>2
<1>3. disk' \in [Path -> File]
  <2>1. \A p \in Path : disk'[p] \in File
    BY <1>2 DEF ProperFile
  <2> QED
    BY <2>1
<1>4. DiskTyped'
  BY <1>2, <1>3 DEF DiskTyped, ProperFile, Exists, TypeInv
<1>5. ProperNotes(notices)
  BY DEF TypeInv, EventsTyped, ProperNotes
<1>6. ProperNotes(notices')
  BY <1>5, Noted1
<1> QED
  BY <1>4, <1>6 DEF TypeInv, EventsTyped, ProperNotes

LEMMA NoFileTyped == ASSUME TypeInv, NEW n \in Nat PROVE ProperFile(NoFile, n)
  BY DEF NoFile, File, Within, ProperFile

LEMMA PlaceTyped == ASSUME TypeInv, NEW c, Place(c) PROVE TypeInv'
<1> DEFINE hash == IF c.cid \in DOMAIN remote THEN remote[c.cid].hash ELSE fresh'
           f == [inode |-> fresh', hash |-> hash, by |-> "program"]
           placed == Notice("rename", Tmp, c.path, "program")
           before == IF c.type = "New" THEN <<>> ELSE Gone(c.path)
           files == [x \in {c.path} |-> f]
<1>1. /\ c \in running /\ c.stage = "loading" /\ fresh' = fresh + 1
      /\ disk' = [disk EXCEPT ![c.path] = f]
      /\ IF c.type = "New" THEN UNCHANGED expected ELSE Expect(c.path, "Delete")
      /\ notices' = notices \o before \o <<placed>>
      /\ running' = (running \ {c}) \cup {Staged(c, "placed")}
      /\ UNCHANGED <<beside, events, seen, out, changes, db, remote, status, fate>>
  BY DEF Place, Staged
<1>2. c \in Change /\ Proper(c, db.lastId, fresh) /\ Runs(c) /\ c.path \in Path
  BY <1>1 DEF TypeInv, RunsTyped, Change
<1>3. fresh \in Nat /\ fresh' \in Nat /\ fresh' > 0 /\ fresh <= fresh' /\ Grows
  BY <1>1, FreshGrows DEF TypeInv, RestTyped
<1>4. hash \in Nat /\ hash <= fresh'
  <2>1. CASE c.cid \in DOMAIN remote
    <3>1. remote[c.cid].hash \in Nat /\ remote[c.cid].hash <= fresh
      BY <2>1 DEF TypeInv, CloudTyped
    <3> QED
      BY <1>3, <2>1, <3>1
  <2>2. CASE c.cid \notin DOMAIN remote
    BY <1>3, <2>2
  <2> QED
    BY <2>1, <2>2
<1> HIDE DEF hash
<1>5. ProperFile(f, fresh')
  <2>1. f \in File /\ f.inode = fresh' /\ f.hash = hash /\ f.by = "program"
    BY <1>3, <1>4 DEF File
  <2>2. NoFile.inode = 0
    BY DEF NoFile
  <2> HIDE DEF f
  <2>3. f # NoFile /\ f.inode > 0 /\ f.by # "none" /\ fresh' <= fresh'
    BY <1>3, <2>1, <2>2
  <2> QED
    BY <1>4, <2>1, <2>3 DEF ProperFile, Within
<1> HIDE DEF f
<1>6. /\ DOMAIN files \subseteq Path /\ (\A x \in DOMAIN files : ProperFile(files[x], fresh'))
      /\ disk' = [x \in Path |-> IF x \in DOMAIN files THEN files[x] ELSE disk[x]]
  BY <1>1, <1>2, <1>5 DEF TypeInv, DiskTyped
<1> HIDE DEF files
<1>7. ProperNotes(before \o <<placed>>)
  <2>1. ProperNotes(<<>>)
    BY DEF ProperNotes, Range
  <2>2. ProperNotes(before)
    BY <1>2, <2>1, GoneTyped
  <2>3. placed \in Event /\ ProperEvent(placed)
    BY <1>2, NoticesTyped
  <2>4. ProperNotes(<<placed>>)
    <3> HIDE DEF placed
    <3> QED
      BY <2>3 DEF ProperNotes, Range
  <2> HIDE DEF before, placed
  <2> QED
    BY <2>2, <2>4, Noted1
<1>8. notices' = notices \o (before \o <<placed>>)
  <2>1. notices \in Seq(Event)
    BY DEF TypeInv, EventsTyped
  <2>2. placed \in Event
    BY <1>2, NoticesTyped
  <2>3. before \in Seq(Event)
    BY <1>2, GoneTyped DEF ProperNotes
  <2> HIDE DEF before, placed
  <2>4. <<placed>> \in Seq(Event)
    BY <2>2
  <2> QED
    BY <1>1, <2>1, <2>3, <2>4, ConcatAssociative
<1> HIDE DEF before, placed
<1>9. DiskTyped' /\ EventsTyped'
  BY <1>1, <1>6, <1>7, <1>8, PlacedTyped
<1>10. Staged(c, "placed") \in Change /\ Runs(Staged(c, "placed"))
  BY <1>1, <1>2, StagedTyped DEF Runs
<1>11. RunsTyped'
  BY <1>1, <1>2, <1>3, <1>10, RunsGrow
<1>12. RestTyped'
  <2>1. CASE c.type = "New"
    BY <1>1, <2>1, RestKept
  <2>2. CASE c.type # "New"
    BY <1>1, <1>2, <1>3, <2>2, ExpectTyped, ChangeKinds DEF TypeInv, RestTyped
  <2> QED
    BY <2>1, <2>2
<1>13. LineTyped' /\ DbTyped' /\ CloudTyped'
  BY <1>1, <1>3, LineKept, DbKept, CloudKept
<1> QED
  BY <1>9, <1>11, <1>12, <1>13 DEF TypeInv

LEMMA PlaceMoveTyped == ASSUME TypeInv, NEW k \in DOMAIN changes, PlaceMove(k) PROVE TypeInv'
<1> DEFINE c == changes[k]
           e == Notice("rename", c.path, c.to, "program")
           files == [x \in {c.path, c.to} |-> IF x = c.path THEN NoFile ELSE disk[c.path]]
<1>1. /\ c.by = "cloud" /\ c.type = "Move" /\ Expect(c.path, "Move")
      /\ disk' = [disk EXCEPT ![c.to] = disk[c.path], ![c.path] = NoFile]
      /\ notices' = Append(notices, e) /\ Starts(k, c, "placed")
      /\ UNCHANGED <<beside, events, seen, out, db, remote, status, fresh, fate>>
  BY DEF PlaceMove
<1>2. c \in Change /\ Proper(c, db.lastId, fresh) /\ c.path \in Path /\ c.to \in Path
  BY <1>1, InLine
<1> HIDE DEF c
<1>3. fresh \in Nat /\ Grows
  BY <1>1, SameGrows DEF TypeInv, RestTyped
<1>4. e \in Event /\ ProperEvent(e)
  BY <1>2, NoticesTyped
<1> HIDE DEF e
<1>5. ProperNotes(<<e>>) /\ notices' = notices \o <<e>>
  BY <1>1, <1>4, AppendIsConcat DEF ProperNotes, Range, TypeInv, EventsTyped
<1>6. ProperFile(NoFile, fresh) /\ ProperFile(disk[c.path], fresh)
  BY <1>2, <1>3, NoFileTyped, FilesTyped DEF TypeInv
<1>7. /\ DOMAIN files \subseteq Path /\ (\A x \in DOMAIN files : ProperFile(files[x], fresh'))
      /\ disk' = [x \in Path |-> IF x \in DOMAIN files THEN files[x] ELSE disk[x]]
  BY <1>1, <1>2, <1>6 DEF TypeInv, DiskTyped
<1> HIDE DEF files
<1>8. DiskTyped' /\ EventsTyped'
  BY <1>1, <1>5, <1>7, PlacedTyped
<1>9. Staged(c, "placed") \in Change /\ Runs(Staged(c, "placed"))
  BY <1>1, <1>2, StagedTyped DEF Local
<1>10. LineTyped' /\ RunsTyped'
  BY <1>1, <1>2, <1>3, <1>9, StartsTyped DEF c
<1>11. RestTyped'
  BY <1>1, <1>2, ExpectTyped, ChangeKinds DEF TypeInv, RestTyped
<1>12. DbTyped' /\ CloudTyped'
  BY <1>1, <1>3, DbKept, CloudKept
<1> QED
  BY <1>8, <1>10, <1>11, <1>12 DEF TypeInv

LEMMA PlaceDeleteTyped == ASSUME TypeInv, NEW k \in DOMAIN changes, PlaceDelete(k) PROVE TypeInv'
<1> DEFINE c == changes[k]
           files == [x \in {c.path} |-> NoFile]
<1>1. /\ c.by = "cloud" /\ c.type = "Delete" /\ Expect(c.path, "Delete")
      /\ disk' = [disk EXCEPT ![c.path] = NoFile]
      /\ notices' = notices \o Gone(c.path) /\ Starts(k, c, "placed")
      /\ UNCHANGED <<beside, events, seen, out, db, remote, status, fresh, fate>>
  BY DEF PlaceDelete
<1>2. c \in Change /\ Proper(c, db.lastId, fresh) /\ c.path \in Path
  BY InLine
<1> HIDE DEF c
<1>3. fresh \in Nat /\ Grows
  BY <1>1, SameGrows DEF TypeInv, RestTyped
<1>4. ProperNotes(Gone(c.path))
  BY <1>2, GoneTyped
<1>5. ProperFile(NoFile, fresh)
  BY <1>3, NoFileTyped
<1>6. /\ DOMAIN files \subseteq Path /\ (\A x \in DOMAIN files : ProperFile(files[x], fresh'))
      /\ disk' = [x \in Path |-> IF x \in DOMAIN files THEN files[x] ELSE disk[x]]
  BY <1>1, <1>2, <1>5 DEF TypeInv, DiskTyped
<1> HIDE DEF files
<1>7. DiskTyped' /\ EventsTyped'
  BY <1>1, <1>4, <1>6, PlacedTyped
<1>8. Staged(c, "placed") \in Change /\ Runs(Staged(c, "placed"))
  BY <1>1, <1>2, StagedTyped DEF Local
<1>9. LineTyped' /\ RunsTyped'
  BY <1>1, <1>2, <1>3, <1>8, StartsTyped DEF c
<1>10. RestTyped'
  BY <1>1, <1>2, ExpectTyped, ChangeKinds DEF TypeInv, RestTyped
<1>11. DbTyped' /\ CloudTyped'
  BY <1>1, <1>3, DbKept, CloudKept
<1> QED
  BY <1>7, <1>9, <1>10, <1>11 DEF TypeInv

LEMMA RecordTyped == ASSUME TypeInv, NEW c, Record(c) PROVE TypeInv'
<1>1. /\ c \in running /\ db' = Recorded(c) /\ running' = running \ {c}
      /\ UNCHANGED <<fsVars, eventVars, expected, changes, remote, status, fresh, fate>>
  BY DEF Record, Finished
<1>2. c \in Change /\ Proper(c, db.lastId, fresh) /\ c.path \in Path
  BY <1>1 DEF TypeInv, RunsTyped, Change
<1>3. DbTyped' /\ db'.lastId \in {db.lastId, db.lastId + 1}
  <2>1. CASE c.type # "New" /\ c.type # "Update"
    <3>1. c.type \in ChangeTypes
      BY <1>2 DEF Change
    <3>2. c.type = "Move" \/ c.type = "Delete"
      BY <2>1, <3>1, ChangeKinds
    <3>3. db' = Noted(c)
      <4>1. ASSUME c.type = "Move" PROVE db' = Noted(c)
        BY <1>1, <4>1 DEF Recorded, Noted
      <4>2. ASSUME c.type = "Delete" PROVE db' = Noted(c)
        BY <1>1, <4>2 DEF Recorded, Noted
      <4> QED
        BY <3>2, <4>1, <4>2
    <3> QED
      BY <1>1, <1>2, <3>3, NotedTyped
  <2>2. CASE c.type = "Update"
    <3>1. db' = WithFileUpdated(db, c.gid, StatOf(c.path))
      BY <1>1, <2>2 DEF Recorded
    <3>2. StatOf(c.path) \in Stamp /\ Within(StatOf(c.path), fresh)
      BY <1>2, StatTyped
    <3>3. /\ Rowed(db') /\ db'.lastId = db.lastId /\ db'.links = db.links
          /\ DOMAIN db'.files = DOMAIN db.files
          /\ \A r \in DOMAIN db.files :
               db'.files[r].stat = IF r = c.gid THEN StatOf(c.path) ELSE db.files[r].stat
      BY <3>1, <3>2, FileUpdated DEF TypeInv, DbTyped
    <3> QED
      BY <1>1, <3>2, <3>3 DEF DbTyped, TypeInv
  <2>3. CASE c.type = "New"
    <3> DEFINE d == WithFile(db, c.path, StatOf(c.path))
    <3>1. db' = WithLink(d, NewId(db), Cloud, [id |-> c.cid])
      BY <1>1, <2>3 DEF Recorded
    <3>2. StatOf(c.path) \in Stamp /\ Within(StatOf(c.path), fresh)
      BY <1>2, StatTyped
    <3>3. /\ Rowed(d) /\ d.lastId = NewId(db) /\ NewId(db) = db.lastId + 1 /\ d.links = db.links
          /\ DOMAIN d.files = DOMAIN db.files \cup {NewId(db)}
          /\ d.files[NewId(db)].stat = StatOf(c.path)
          /\ \A r \in DOMAIN db.files : d.files[r] = db.files[r]
      BY <1>2, <3>2, FileAdded DEF TypeInv, DbTyped
    <3> HIDE DEF d
    <3>4. c.cid \in Nat /\ c.cid <= fresh /\ NewId(db) \in DOMAIN d.files
      BY <1>2, <3>3 DEF Change, Proper
    <3>5. /\ Rowed(db') /\ db'.lastId = d.lastId /\ db'.files = d.files
          /\ DOMAIN db'.links = DOMAIN d.links \cup {Key(NewId(db))}
          /\ \A key \in DOMAIN d.links : db'.links[key] = d.links[key]
          /\ Key(NewId(db)) \notin DOMAIN d.links => db'.links[Key(NewId(db))].id = c.cid
      BY <3>1, <3>3, <3>4, LinkMade
    <3>6. \A r \in DOMAIN d.files : Within(d.files[r].stat, fresh)
      BY <3>2, <3>3 DEF TypeInv, DbTyped
    <3>7. \A key \in DOMAIN db.links : db.links[key].id <= fresh
      BY DEF TypeInv, DbTyped
    <3>8. \A key \in DOMAIN db'.links : db'.links[key].id <= fresh
      BY <3>3, <3>4, <3>5, <3>7
    <3> QED
      BY <1>1, <3>3, <3>5, <3>6, <3>8 DEF DbTyped
  <2> QED
    BY <2>1, <2>2, <2>3
<1>4. Grows
  BY <1>1, <1>3, FreshGrows
<1>5. /\ DiskTyped' /\ EventsTyped' /\ LineTyped' /\ RunsTyped' /\ CloudTyped' /\ RestTyped'
  BY <1>1, <1>4, DiskKept, EventsKept, LineKept, RunsKept, CloudKept, RestKept DEF eventVars
<1> QED
  BY <1>3, <1>5 DEF TypeInv

LEMMA CommandsTyped == ASSUME TypeInv, Commands PROVE TypeInv'
<1>1. ASSUME NEW k \in DOMAIN changes,
             \/ LocalCallback(k) \/ LocalCallbackThrows(k) \/ Load(k) \/ PlaceMove(k)
             \/ PlaceMoveThrows(k) \/ PlaceDelete(k)
      PROVE  TypeInv'
  <2>1. changes[k].path \in Path
    BY InLine
  <2> QED
    BY <1>1, <2>1, CallbackTyped, LoadTyped, PlaceMoveTyped, PlaceDeleteTyped, EndsTyped
       DEF LocalCallbackThrows, PlaceMoveThrows, Abort
<1>2. ASSUME NEW c \in running,
             Request(c) \/ RequestThrows(c) \/ Place(c) \/ Record(c) \/ RecordThrows(c)
      PROVE  TypeInv'
  <2>1. c.path \in Path /\ Target(c) \in Path
    BY DEF TypeInv, RunsTyped, Change, Proper, Target
  <2> QED
    BY <1>2, <2>1, RequestTyped, PlaceTyped, RecordTyped, EndsTyped
       DEF RequestThrows, RecordThrows, Abort
<1> QED
  BY <1>1, <1>2 DEF Commands

LEMMA NextTyped == TypeInv /\ [Next]_vars => TypeInv'
<1> SUFFICES ASSUME TypeInv, [Next]_vars PROVE TypeInv'
  OBVIOUS
<1>1. CASE Users
  BY <1>1, UsersTyped
<1>2. CASE OnFsEvent
  BY <1>2, WatchedTyped
<1>3. CASE Polling
  BY <1>3, PollingTyped
<1>4. CASE Clouds
  BY <1>4, CloudsTyped
<1>5. CASE Commands
  BY <1>5, CommandsTyped
<1>6. CASE Die
  BY <1>6, EndsTyped DEF Die
<1>7. CASE Restart \/ Rest \/ UNCHANGED vars
  BY <1>7, StaysTyped
<1> QED
  BY <1>1, <1>2, <1>3, <1>4, <1>5, <1>6, <1>7 DEF Next

-----------------------------------------------------------------------------
(* The start: files that are everywhere. *)

(* An order of files. *)
LEMMA Orders ==
  ASSUME NEW s \in UNION {SetToSeqs(have) : have \in SUBSET Path}
  PROVE  /\ s \in Seq(Path) /\ Len(s) \in Nat /\ DOMAIN s = 1..Len(s)
         /\ \A i \in DOMAIN s : s[i] \in Path
         /\ \A i, j \in DOMAIN s : s[i] = s[j] => i = j
<1>1. PICK have \in SUBSET Path : s \in SetToSeqs(have)
  OBVIOUS
<1>2. IsFiniteSet(have)
  BY Ids, FS_Subset
<1> DEFINE n == Cardinality(have)
<1>3. n \in Nat
  BY <1>2, FS_CardinalityType
<1>4. s \in [1..n -> have] /\ \A i, j \in 1..n : i # j => s[i] # s[j]
  BY <1>1 DEF SetToSeqs
<1> HIDE DEF n
<1>5. s \in [1..n -> Path]
  BY <1>4
<1>6. s \in Seq(Path) /\ DOMAIN s = 1..n /\ Len(s) = n
  BY <1>3, <1>5
<1> QED
  BY <1>3, <1>4, <1>5, <1>6

LEMMA InitTyped == Init => TypeInv
<1> SUFFICES ASSUME Init PROVE TypeInv
  OBVIOUS
<1>1. PICK s \in UNION {SetToSeqs(have) : have \in SUBSET Path} :
        /\ db = Synced(s)
        /\ disk = [p \in Path |-> IF p \in Range(s)
                     THEN LET n == GlobalId(db, p) IN [inode |-> n, hash |-> n, by |-> "user"]
                     ELSE NoFile]
        /\ remote = [n \in DOMAIN s |-> [path |-> s[n], hash |-> n]]
        /\ fresh = Len(s)
  BY DEF Init
<1>2. /\ beside = {} /\ notices = <<>> /\ events = <<>> /\ expected = NothingExpected
      /\ seen = <<>> /\ out = <<>> /\ changes = <<>> /\ running = {}
      /\ status = "up" /\ fate = [p \in Path |-> {}]
  BY DEF Init
<1>3. /\ fresh \in Nat /\ DOMAIN s = 1..fresh
      /\ \A i \in DOMAIN s : s[i] \in Path
  BY <1>1, Orders
<1>4. /\ DOMAIN db.files = 1..fresh /\ db.lastId = fresh
      /\ \A n \in 1..fresh : db.files[n] = [path |-> s[n], stat |-> SyncedAs(n)]
      /\ \A n \in 1..fresh : db.files[n].path = s[n] /\ db.files[n].stat = SyncedAs(n)
      /\ DOMAIN db.links = (1..fresh) \X {Cloud}
      /\ \A key \in DOMAIN db.links : db.links[key] = [id |-> key[1]]
      /\ db = [files |-> db.files, links |-> db.links, lastId |-> db.lastId]
  BY <1>1, <1>3 DEF Synced
<1>5. \A n \in 1..fresh : SyncedAs(n) \in Stamp /\ Within(SyncedAs(n), fresh)
  BY <1>3 DEF SyncedAs, Stamp, Within
<1>6. DbTyped
  <2>1. \A n \in DOMAIN db.files :
          /\ n \in 1..db.lastId /\ db.files[n] \in [path : Path, stat : Stamp]
          /\ Within(db.files[n].stat, fresh)
    <3>1. ASSUME NEW n \in 1..fresh PROVE db.files[n] \in [path : Path, stat : Stamp]
      <4>1. s[n] \in Path /\ SyncedAs(n) \in Stamp
        BY <1>3, <1>5
      <4>2. [path |-> s[n], stat |-> SyncedAs(n)] \in [path : Path, stat : Stamp]
        BY <4>1
      <4> QED
        BY <1>4, <4>2
    <3>2. ASSUME NEW n \in 1..fresh PROVE Within(db.files[n].stat, fresh)
      BY <1>4, <1>5
    <3>3. DOMAIN db.files = 1..db.lastId /\ DOMAIN db.files = 1..fresh
      BY <1>4
    <3> QED
      BY <3>1, <3>2, <3>3
  <2>2. \A key \in DOMAIN db.links : db.links[key] \in [id : Nat] /\ db.links[key].id <= fresh
    <3>1. ASSUME NEW key \in (1..fresh) \X {Cloud}
          PROVE  db.links[key] \in [id : Nat] /\ db.links[key].id <= fresh
      <4>1. key[1] \in 1..fresh /\ DOMAIN db.links = (1..fresh) \X {Cloud}
        BY <1>4
      <4>2. db.links[key] = [id |-> key[1]]
        BY <1>4
      <4> QED
        BY <1>3, <4>1, <4>2
    <3> QED
      BY <1>4, <3>1
  <2>3. Tables(db)
    BY <1>3, <1>4 DEF Tables
  <2>4. DOMAIN db.links \subseteq (DOMAIN db.files) \X {Cloud}
    BY <1>4
  <2> QED
    BY <2>1, <2>2, <2>3, <2>4 DEF DbTyped, Rowed
<1>7. CloudTyped
  BY <1>1, <1>3 DEF CloudTyped
<1>8. ASSUME NEW p \in Path PROVE ProperFile(disk[p], fresh)
  <2>1. CASE p \in Range(s)
    <3>1. HasRow(db, p)
      <4>1. PICK i \in DOMAIN s : s[i] = p
        BY <2>1 DEF Range
      <4>2. i \in DOMAIN db.files /\ db.files[i].path = p
        BY <1>3, <1>4, <4>1
      <4> QED
        BY <4>2 DEF HasRow, RowsOf
    <3>2. GlobalId(db, p) \in 1..fresh
      BY <1>4, <1>6, <3>1, FirstRow DEF RowsOf, DbTyped
    <3> DEFINE n == GlobalId(db, p)
               f == [inode |-> n, hash |-> n, by |-> "user"]
    <3>3. disk[p] = f
      BY <1>1, <2>1
    <3> HIDE DEF n
    <3>4. n \in Nat /\ n <= fresh /\ n > 0
      BY <1>3, <3>2 DEF n
    <3>5. f \in File /\ f.inode = n /\ f.hash = n /\ f.by = "user"
      BY <3>4 DEF File
    <3>6. NoFile.inode = 0
      BY DEF NoFile
    <3> HIDE DEF f
    <3> QED
      BY <3>3, <3>4, <3>5, <3>6 DEF ProperFile, Within
  <2>2. CASE p \notin Range(s)
    <3>1. disk[p] = NoFile
      BY <1>1, <2>2
    <3> QED
      BY <1>3, <3>1 DEF NoFile, File, Within, ProperFile
  <2> QED
    BY <2>1, <2>2
<1>9. DiskTyped
  <2>1. \A p \in Path : disk[p] \in File
    BY <1>8 DEF ProperFile
  <2>2. disk \in [Path -> File]
    BY <1>1, <2>1
  <2> QED
    BY <1>2, <1>8, <2>2, FilesTyped
<1>10. Range(<<>>) = {} /\ <<>> \in Seq(Event) /\ <<>> \in Seq(Change) /\ Len(<<>>) = 0
       /\ DOMAIN <<>> = {}
  BY DEF Range
<1>11. EventsTyped /\ LineTyped /\ RunsTyped
  BY <1>2, <1>10 DEF EventsTyped, LineTyped, RunsTyped
<1>12. RestTyped
  BY <1>2, <1>3, <1>10 DEF RestTyped, NothingExpected
<1> QED
  BY <1>6, <1>7, <1>9, <1>11, <1>12 DEF TypeInv

(* LocalEvents.TypeOK: what the threads and the users make of files, events, *)
(* changes and rows keeps its type.                                        *)
THEOREM TypeCorrect == Spec => []TypeOK
<1>1. Init => TypeInv
  BY InitTyped
<1>2. TypeInv /\ [Next]_vars => TypeInv'
  BY NextTyped
<1>3. TypeInv => TypeOK
  BY TypeInvTypeOK
<1> QED
  BY <1>1, <1>2, <1>3, PTL DEF Spec

-----------------------------------------------------------------------------
(* The inductive invariant: stories.  Whatever is done to a path to which    *)
(* nothing happened that excuses a difference, all that is known of it, in   *)
(* the directory, on the way, in the database and in the cloud, is one step *)
(* of one of a few stories.                                                *)

(* v comes before w in s. *)
Before(s, v, w) == \E i, j \in DOMAIN s : i < j /\ s[i] = v /\ s[j] = w

(* Events on their way to the polling thread, changes to the commands. *)
Queued == Range(events) \cup Range(notices)
Pending == Range(changes) \cup Range(out) \cup Range(seen)
Earlier(v, w) == Before(events \o notices, v, w)
Sooner(v, w) == Before(changes \o (out \o seen), v, w)

On(w, p) == p \in {w.path, w.to}
Clean(p) == fate[p] = {}
EventsOn(p) == {e \in Queued : On(e, p)}
LineOn(p) == {c \in Pending : On(c, p)}
RunsOn(p) == {c \in running : On(c, p)}

Rows(p) == RowsOf(db, p)
Stat(r) == db.files[r].stat
LinkId(r) == Link(r).id
There(p) == {n \in DOMAIN remote : remote[n].path = p}
HashAt(n) == remote[n].hash
Awaits(p) == p \in DOMAIN expected
Nowhere(p) == Rows(p) = {} /\ There(p) = {}
Everywhere(p, r) == Rows(p) = {r} /\ Linked(r) /\ There(p) = {LinkId(r)}

(* What may be noted down. *)
Destroyed(p) == Notice("destroy", p, NoTo, "program")
Placed(p) == Notice("rename", Tmp, p, "program")
Renamed(p, q) == Notice("rename", p, q, "program")
Creations(p) == {Notice("create", p, NoTo, "user"), Notice("rename", p, NoTo, "user")}
Edits(p) == {Notice("modify", p, NoTo, "user"), Notice("rename", Tmp, p, "user")}
Removals(p) == {Notice("destroy", p, NoTo, "user"), Notice("rename", p, NoTo, "user")}

(* w is all there is about p. *)
OnlyEvent(e, p) == EventsOn(p) = {e} /\ LineOn(p) = {} /\ RunsOn(p) = {} /\ ~Earlier(e, e)
OnlyInLine(c, p) == EventsOn(p) = {} /\ LineOn(p) = {c} /\ RunsOn(p) = {} /\ ~Sooner(c, c)
OnlyRunning(c, p) == EventsOn(p) = {} /\ LineOn(p) = {} /\ RunsOn(p) = {c}

(* The program's own removal is awaited as long as it is on its way. *)
DestroyAwaited(p) ==
  /\ Awaits(p) <=> Destroyed(p) \in EventsOn(p)
  /\ Awaits(p) => expected[p] = "Delete"
  /\ ~Earlier(Destroyed(p), Destroyed(p))

Absent(p) ==
  /\ ~Exists(p) /\ Nowhere(p) /\ LineOn(p) = {} /\ RunsOn(p) = {}
  /\ EventsOn(p) \subseteq {Destroyed(p)} /\ DestroyAwaited(p)

(* A user made a file; edits may follow. *)
CreationSeen(p) ==
  /\ EventsOn(p) \cap Creations(p) # {} /\ LineOn(p) = {}
  /\ \A v, w \in Creations(p) : ~Earlier(v, w)
CreationInLine(c, p) ==
  /\ EventsOn(p) \cap Creations(p) = {} /\ LineOn(p) = {c} /\ ~Sooner(c, c)
  /\ c.type = "New" /\ c.by = "user" /\ c.path = p
Creating(p) ==
  /\ Exists(p) /\ Nowhere(p) /\ RunsOn(p) = {} /\ ~Awaits(p)
  /\ EventsOn(p) \subseteq Creations(p) \cup Edits(p)
  /\ CreationSeen(p) \/ \E c \in LineOn(p) : CreationInLine(c, p)

(* A file with a row: r is as old as the file or older, and unless it is as  *)
(* new as the file, an edit or an update is on its way.                     *)
Dated(stat, p) == stat.hash <= disk[p].hash /\ (stat.hash = disk[p].hash => stat = StatOf(p))
Newest(c, p) == c.stat.hash = disk[p].hash
KeptRow(p, r) ==
  /\ Exists(p) /\ Rows(p) = {r} /\ Dated(Stat(r), p)
  /\ EventsOn(p) \subseteq Edits(p) \cup {Destroyed(p), Placed(p)} /\ DestroyAwaited(p)
KeptLine(p, r) ==
  /\ \A c \in LineOn(p) : /\ c.type = "Update" /\ c.gid = r /\ c.path = p /\ Local(c)
                          /\ Dated(c.stat, p)
  /\ \A v, w \in LineOn(p) : Sooner(v, w) /\ Newest(v, p) => Newest(w, p)
KeptRun(c, p, r) ==
  /\ RunsOn(p) = {c} /\ c.stage = "request" /\ Local(c) /\ c.gid = r /\ c.path = p
  /\ \/ c.type = "New" /\ ~Linked(r) /\ There(p) = {}
     \/ c.type = "Update" /\ Linked(r) /\ There(p) = {LinkId(r)} /\ c.cid = LinkId(r)
KeptRuns(p, r) ==
  \/ RunsOn(p) = {} /\ Linked(r) /\ There(p) = {LinkId(r)}
  \/ \E c \in RunsOn(p) : KeptRun(c, p, r)
KeptFlow(p, r) ==
  /\ \/ Stat(r).hash = disk[p].hash /\ LineOn(p) = {}
     \/ \E c \in LineOn(p) : Newest(c, p)
     \/ Stat(r).hash # disk[p].hash /\ EventsOn(p) \cap (Edits(p) \cup {Placed(p)}) # {}
  /\ \/ Linked(r) /\ HashAt(LinkId(r)) = disk[p].hash
     \/ RunsOn(p) # {} \/ LineOn(p) # {} \/ Stat(r).hash # disk[p].hash
  /\ \/ disk[p].by = "user"
     \/ Stat(r).hash = disk[p].hash /\ \A c \in LineOn(p) : Newest(c, p)
Kept(p, r) == KeptRow(p, r) /\ KeptLine(p, r) /\ KeptRuns(p, r) /\ KeptFlow(p, r)

(* A user deleted it: w is the event, the change, the running change. *)
Deleting(w, p) ==
  /\ ~Exists(p) /\ p \notin beside /\ ~Awaits(p)
  /\ \/ w \in Removals(p) /\ OnlyEvent(w, p) /\ \E r \in Rows(p) : Everywhere(p, r)
     \/ /\ w.type = "Delete" /\ w.by = "user" /\ w.path = p
        /\ \/ OnlyInLine(w, p) /\ Everywhere(p, w.gid)
           \/ w.stage = "request" /\ OnlyRunning(w, p) /\ Rows(p) = {} /\ There(p) = {w.cid}

(* A new file in the cloud, an update, a deletion. *)
CloudNew(c, p) ==
  /\ c.type = "New" /\ c.by = "cloud" /\ c.path = p /\ ~Awaits(p)
  /\ Rows(p) = {} /\ There(p) = {c.cid}
  /\ \/ c.stage = "waiting" /\ ~Exists(p) /\ OnlyInLine(c, p)
     \/ c.stage = "loading" /\ ~Exists(p) /\ OnlyRunning(c, p)
     \/ /\ c.stage = "placed" /\ Exists(p) /\ disk[p].hash = HashAt(c.cid)
        /\ RunsOn(p) = {c} /\ LineOn(p) = {} /\ EventsOn(p) \subseteq {Placed(p)}

CloudUpdate(c, p) ==
  /\ c.type = "Update" /\ c.by = "cloud" /\ c.path = p
  /\ Everywhere(p, c.gid) /\ c.cid = LinkId(c.gid) /\ Exists(p)
  /\ \/ /\ Stat(c.gid) = StatOf(p) /\ ~Awaits(p)
        /\ \/ c.stage = "waiting" /\ OnlyInLine(c, p)
           \/ c.stage = "loading" /\ OnlyRunning(c, p)
     \/ /\ c.stage = "placed" /\ disk[p].hash = HashAt(c.cid) /\ disk[p].by = "program"
        /\ RunsOn(p) = {c}
        /\ EventsOn(p) \subseteq {Destroyed(p), Placed(p)} /\ DestroyAwaited(p)
        /\ \A u \in LineOn(p) : /\ u.type = "Update" /\ u.gid = c.gid /\ u.path = p
                                /\ u.by = "program" /\ u.stat = StatOf(p)

CloudDelete(c, p) ==
  /\ c.type = "Delete" /\ c.by = "cloud" /\ c.path = p
  /\ Rows(p) = {c.gid} /\ There(p) = {}
  /\ \/ c.stage = "waiting" /\ Exists(p) /\ OnlyInLine(c, p) /\ ~Awaits(p)
     \/ /\ c.stage = "placed" /\ ~Exists(p) /\ RunsOn(p) = {c} /\ LineOn(p) = {}
        /\ EventsOn(p) \subseteq {Destroyed(p)} /\ DestroyAwaited(p)

(* Row r, the file at q and the remote one are the same. *)
Agreed(r, q) == Linked(r) /\ Stat(r) = StatOf(q) /\ HashAt(LinkId(r)) = disk[q].hash

(* A move from p to q by a user. *)
UserMoving(w, p, q) ==
  /\ w.path = p /\ w.to = q /\ w.by = "user"
  /\ ~Exists(p) /\ Exists(q) /\ ~Awaits(p) /\ ~Awaits(q)
  /\ \E r \in Rows(p) \cup Rows(q) :
       /\ Agreed(r, q) /\ There(p) = {LinkId(r)} /\ There(q) = {}
       /\ \/ /\ Rows(p) = {r} /\ Rows(q) = {}
             /\ \/ w.type = "rename" /\ OnlyEvent(w, p) /\ OnlyEvent(w, q)
                \/ w.type = "Move" /\ w.gid = r /\ OnlyInLine(w, p) /\ OnlyInLine(w, q)
          \/ /\ Rows(p) = {} /\ Rows(q) = {r}
             /\ w.type = "Move" /\ w.gid = r /\ w.cid = LinkId(r) /\ w.stage = "request"
             /\ OnlyRunning(w, p) /\ OnlyRunning(w, q)

(* A move in the cloud, until it is put down, and the event that is left.    *)
CloudMoving(c, p, q) ==
  /\ c.type = "Move" /\ c.by = "cloud" /\ c.path = p /\ c.to = q /\ ~Awaits(q)
  /\ Rows(p) = {c.gid} /\ Rows(q) = {} /\ There(p) = {} /\ There(q) = {c.cid}
  /\ Linked(c.gid) /\ LinkId(c.gid) = c.cid
  /\ \/ /\ c.stage = "waiting" /\ Exists(p) /\ ~Exists(q) /\ Agreed(c.gid, p) /\ ~Awaits(p)
        /\ OnlyInLine(c, p) /\ OnlyInLine(c, q)
     \/ /\ c.stage = "placed" /\ ~Exists(p) /\ Exists(q) /\ Agreed(c.gid, q)
        /\ RunsOn(p) = {c} /\ RunsOn(q) = {c} /\ LineOn(p) = {} /\ LineOn(q) = {}
        /\ \/ EventsOn(p) = {} /\ EventsOn(q) = {} /\ ~Awaits(p)
           \/ /\ Expects(expected, p, "Move") /\ ~Earlier(Renamed(p, q), Renamed(p, q))
              /\ EventsOn(p) = {Renamed(p, q)} /\ EventsOn(q) = {Renamed(p, q)}
CloudMoved(e, p, q) ==
  /\ e = Renamed(p, q) /\ OnlyEvent(e, p) /\ OnlyEvent(e, q)
  /\ Expects(expected, p, "Move") /\ ~Awaits(q)
  /\ ~Exists(p) /\ Exists(q) /\ Nowhere(p)
  /\ \E r \in Rows(q) : Everywhere(q, r) /\ Agreed(r, q)

WorkHere(p) == EventsOn(p) \cup LineOn(p) \cup RunsOn(p)
Alone(p) ==
  \/ Absent(p) \/ Creating(p) \/ \E r \in Rows(p) : Kept(p, r)
  \/ \E w \in WorkHere(p) :
       Deleting(w, p) \/ CloudNew(w, p) \/ CloudUpdate(w, p) \/ CloudDelete(w, p)
Moving(w, p, q) == UserMoving(w, p, q) \/ CloudMoving(w, p, q) \/ CloudMoved(w, p, q)
Pair(w, p, q) == p # q /\ Clean(q) /\ (Moving(w, p, q) \/ Moving(w, q, p))
InPair(p) == \E w \in WorkHere(p), q \in Path : Pair(w, p, q)
Told(p) == Alone(p) \/ InPair(p)
Stories == \A p \in Path : Clean(p) => Told(p)

(* Nothing that has to do with another path reaches a clean one, but what    *)
(* is at work on both.  OwnRow, OwnCid: whose row, whose file in the cloud   *)
(* a change is for; OwnStat: whose file an update has looked at; OwnFile,    *)
(* OwnLink: whose file, and which one in the cloud, a row stands for.        *)
Changing == Pending \cup running
Near(x, y) == x = y \/ \E w \in Work : On(w, x) /\ On(w, y)
Alike(w) == w.path \in Path /\ w.to \in Path => (Clean(w.path) <=> Clean(w.to))
OwnRow(c) == \A p \in Path : Clean(p) /\ c.gid \in Rows(p) => On(c, p)
OwnCid(c) == \A p \in Path : Clean(p) /\ c.cid \in There(p) => On(c, p)
Looked(c) == c.type = "Update" /\ Local(c)
OwnStat(c) ==
  Looked(c) =>
    /\ Clean(c.path) => c.stat.inode > 0
    /\ \A y \in Path : Exists(y) /\ c.stat.inode = disk[y].inode /\ (Clean(c.path) \/ Clean(y))
                      => c.path = y
PathOf(r) == db.files[r].path
OwnFile(r) ==
  /\ Clean(PathOf(r)) => Stat(r).inode > 0
  /\ \A y \in Path : Exists(y) /\ Stat(r).inode = disk[y].inode /\ (Clean(PathOf(r)) \/ Clean(y))
                    => Near(PathOf(r), y)
OwnLink(r) ==
  \A y \in Path : Clean(y) /\ Linked(r) /\ LinkId(r) \in There(y) => Near(PathOf(r), y)
OneFile == \A x, y \in Path : Exists(x) /\ disk[x].inode = disk[y].inode => x = y
Down == ~Up => Work = {} /\ expected = NothingExpected
Apart ==
  /\ \A w \in Work : Alike(w)
  /\ \A c \in Changing : OwnRow(c) /\ OwnCid(c) /\ OwnStat(c)
  /\ \A r \in DOMAIN db.files : OwnFile(r) /\ OwnLink(r)
  /\ OneFile /\ Down /\ AbortsOnlyOnRaces

Inv == TypeInv /\ Stories /\ Apart

-----------------------------------------------------------------------------
(* The order of sequences. *)

LEMMA BeforeIn ==
  ASSUME NEW s, NEW v, NEW w, Before(s, v, w)
  PROVE  v \in Range(s) /\ w \in Range(s)
BY DEF Before, Range

LEMMA Joined ==
  ASSUME NEW S, NEW s \in Seq(S), NEW t \in Seq(S)
  PROVE  /\ s \o t \in Seq(S) /\ Range(s \o t) = Range(s) \cup Range(t)
         /\ \A v, w : Before(s \o t, v, w) <=>
              Before(s, v, w) \/ Before(t, v, w) \/ (v \in Range(s) /\ w \in Range(t))
<1> DEFINE m == Len(s)
           n == Len(t)
           u == s \o t
<1>1. /\ m \in Nat /\ n \in Nat /\ DOMAIN s = 1..m /\ DOMAIN t = 1..n
      /\ u \in Seq(S) /\ DOMAIN u = 1..(m + n)
      /\ \A i \in 1..(m + n) : u[i] = IF i <= m THEN s[i] ELSE t[i - m]
  BY ConcatProperties, LenProperties
<1> HIDE DEF m, n, u
<1>2. \A i \in 1..m : i \in 1..(m + n) /\ i <= m /\ u[i] = s[i]
  BY <1>1
<1>3. \A i \in 1..n : m + i \in 1..(m + n) /\ u[m + i] = t[i]
  <2> TAKE i \in 1..n
  <2>1. m + i \in 1..(m + n) /\ ~(m + i <= m) /\ m + i - m = i
    BY <1>1
  <2> QED
    BY <1>1, <2>1
<1>4. \A i \in 1..(m + n) : i \in 1..m \/ (i - m \in 1..n /\ m + (i - m) = i /\ ~(i <= m))
  BY <1>1
<1>5. \A i \in 1..(m + n) : (i \in 1..m /\ u[i] = s[i]) \/ (i - m \in 1..n /\ u[i] = t[i - m])
  <2> TAKE i \in 1..(m + n)
  <2>1. CASE i \in 1..m
    BY <1>2, <2>1
  <2>2. CASE i - m \in 1..n /\ ~(i <= m)
    BY <1>1, <2>2
  <2> QED
    BY <1>4, <2>1, <2>2
<1>6. Range(u) = Range(s) \cup Range(t)
  <2>1. \A x : x \in Range(u) <=> \E i \in 1..(m + n) : u[i] = x
    BY <1>1 DEF Range
  <2>2. \A x : x \in Range(s) <=> \E i \in 1..m : s[i] = x
    BY <1>1 DEF Range
  <2>3. \A x : x \in Range(t) <=> \E i \in 1..n : t[i] = x
    BY <1>1 DEF Range
  <2> QED
    BY <1>2, <1>3, <1>5, <2>1, <2>2, <2>3
<1>7. ASSUME NEW v, NEW w
      PROVE  Before(u, v, w) <=>
               Before(s, v, w) \/ Before(t, v, w) \/ (v \in Range(s) /\ w \in Range(t))
  <2>1. Before(u, v, w) <=> \E i, j \in 1..(m + n) : i < j /\ u[i] = v /\ u[j] = w
    BY <1>1 DEF Before
  <2>2. Before(s, v, w) <=> \E i, j \in 1..m : i < j /\ s[i] = v /\ s[j] = w
    BY <1>1 DEF Before
  <2>3. Before(t, v, w) <=> \E i, j \in 1..n : i < j /\ t[i] = v /\ t[j] = w
    BY <1>1 DEF Before
  <2>4. (v \in Range(s) <=> \E i \in 1..m : s[i] = v) /\ (w \in Range(t) <=> \E j \in 1..n : t[j] = w)
    BY <1>1 DEF Range
  <2>5. ASSUME Before(s, v, w) PROVE Before(u, v, w)
    BY <1>2, <2>1, <2>2, <2>5
  <2>6. ASSUME Before(t, v, w) PROVE Before(u, v, w)
    <3>1. PICK i, j \in 1..n : i < j /\ t[i] = v /\ t[j] = w
      BY <2>3, <2>6
    <3>2. m + i < m + j
      BY <1>1, <3>1
    <3> QED
      BY <1>3, <2>1, <3>1, <3>2
  <2>7. ASSUME v \in Range(s), w \in Range(t) PROVE Before(u, v, w)
    <3>1. PICK i \in 1..m, j \in 1..n : s[i] = v /\ t[j] = w
      BY <2>4, <2>7
    <3>2. i < m + j
      BY <1>1
    <3> QED
      BY <1>2, <1>3, <2>1, <3>1, <3>2
  <2>8. ASSUME Before(u, v, w)
        PROVE  Before(s, v, w) \/ Before(t, v, w) \/ (v \in Range(s) /\ w \in Range(t))
    <3>1. PICK i, j \in 1..(m + n) : i < j /\ u[i] = v /\ u[j] = w
      BY <2>1, <2>8
    <3>2. CASE j \in 1..m
      <4>1. i \in 1..m
        BY <1>1, <3>1, <3>2
      <4> QED
        BY <1>2, <2>2, <3>1, <3>2, <4>1
    <3>3. CASE i \in 1..m /\ j - m \in 1..n /\ u[j] = t[j - m]
      BY <1>2, <2>4, <3>1, <3>3
    <3>4. CASE i - m \in 1..n /\ u[i] = t[i - m] /\ j - m \in 1..n /\ u[j] = t[j - m]
      <4>1. i - m < j - m
        BY <1>1, <3>1
      <4> QED
        BY <2>3, <3>1, <3>4, <4>1
    <3> QED
      BY <1>5, <3>2, <3>3, <3>4
  <2> QED
    BY <2>5, <2>6, <2>7, <2>8
<1> QED
  BY <1>1, <1>6, <1>7 DEF u

LEMMA Single ==
  ASSUME NEW e
  PROVE  /\ Range(<<e>>) = {e} /\ \A v, w : ~Before(<<e>>, v, w)
         /\ Range(<<>>) = {} /\ \A v, w : ~Before(<<>>, v, w)
BY DEF Range, Before

LEMMA Longer ==
  ASSUME NEW S, NEW s \in Seq(S), NEW e \in S
  PROVE  /\ Append(s, e) \in Seq(S) /\ Range(Append(s, e)) = Range(s) \cup {e}
         /\ \A v, w : Before(Append(s, e), v, w) <=> Before(s, v, w) \/ (v \in Range(s) /\ w = e)
<1>1. Append(s, e) = s \o <<e>> /\ <<e>> \in Seq(S)
  OBVIOUS
<1>2. /\ s \o <<e>> \in Seq(S) /\ Range(s \o <<e>>) = Range(s) \cup Range(<<e>>)
      /\ \A v, w : Before(s \o <<e>>, v, w) <=>
           Before(s, v, w) \/ Before(<<e>>, v, w) \/ (v \in Range(s) /\ w \in Range(<<e>>))
  BY <1>1, Joined
<1> QED
  BY <1>1, <1>2, Single

LEMMA Shorter ==
  ASSUME NEW S, NEW s \in Seq(S), s # <<>>
  PROVE  /\ Tail(s) \in Seq(S) /\ Head(s) \in S /\ Range(s) = Range(Tail(s)) \cup {Head(s)}
         /\ \A v, w : Before(s, v, w) <=>
              Before(Tail(s), v, w) \/ (v = Head(s) /\ w \in Range(Tail(s)))
<1>1. s = <<Head(s)>> \o Tail(s) /\ Head(s) \in S /\ Tail(s) \in Seq(S) /\ <<Head(s)>> \in Seq(S)
  OBVIOUS
<1> DEFINE e == Head(s)
           t == Tail(s)
<1> HIDE DEF e, t
<1>2. s = <<e>> \o t /\ e \in S /\ t \in Seq(S) /\ <<e>> \in Seq(S)
  BY <1>1 DEF e, t
<1>3. /\ Range(s) = Range(<<e>>) \cup Range(t)
      /\ \A v, w : Before(s, v, w) <=>
           Before(<<e>>, v, w) \/ Before(t, v, w) \/ (v \in Range(<<e>>) /\ w \in Range(t))
  BY <1>2, Joined
<1>4. Range(<<e>>) = {e} /\ \A v, w : ~Before(<<e>>, v, w)
  BY Single
<1>5. /\ Range(s) = Range(t) \cup {e}
      /\ \A v, w : Before(s, v, w) <=> Before(t, v, w) \/ (v = e /\ w \in Range(t))
  BY <1>3, <1>4
<1> QED
  BY <1>1, <1>5 DEF e, t

(* Without its k-th: before it is what was before it, behind it the rest.    *)
LEMMA Taken ==
  ASSUME NEW S, NEW s \in Seq(S), NEW k \in DOMAIN s
  PROVE  /\ RemoveAt(s, k) \in Seq(S) /\ s[k] \in S
         /\ Range(s) = Range(RemoveAt(s, k)) \cup {s[k]}
         /\ \A v, w : Before(RemoveAt(s, k), v, w) => Before(s, v, w)
         /\ \A w \in Range(RemoveAt(s, k)) :
              Before(s, s[k], w) \/ \E i \in DOMAIN s : i < k /\ s[i] = w
         /\ \A i \in DOMAIN s : i < k => s[i] \in Range(RemoveAt(s, k))
<1> DEFINE n == Len(s)
           t == RemoveAt(s, k)
<1>1. n \in Nat /\ DOMAIN s = 1..n /\ k \in 1..n /\ \A i \in 1..n : s[i] \in S
  BY LenProperties, ElementOfSeq
<1>2. /\ t \in Seq(S) /\ Range(s) = Range(t) \cup {s[k]} /\ Len(t) = n - 1
      /\ \A i \in 1..(n - 1) : t[i] = IF i < k THEN s[i] ELSE s[i + 1]
  BY Removed
<1>3. DOMAIN t = 1..(n - 1)
  BY <1>2, LenProperties
<1> HIDE DEF n, t
<1> DEFINE at(i) == IF i < k THEN i ELSE i + 1
<1>4. \A i \in 1..(n - 1) : at(i) \in 1..n /\ t[i] = s[at(i)] /\ (i < k => at(i) < k) /\ (~(i < k) => k < at(i))
  BY <1>1, <1>2
<1>5. \A i, j \in 1..(n - 1) : i < j => at(i) < at(j)
  BY <1>1
<1> HIDE DEF at
<1>6. ASSUME NEW v, NEW w, Before(t, v, w) PROVE Before(s, v, w)
  <2>1. PICK i, j \in 1..(n - 1) : i < j /\ t[i] = v /\ t[j] = w
    BY <1>3, <1>6 DEF Before
  <2> QED
    BY <1>1, <1>4, <1>5, <2>1 DEF Before
<1>7. ASSUME NEW w \in Range(t) PROVE Before(s, s[k], w) \/ \E i \in DOMAIN s : i < k /\ s[i] = w
  <2>1. PICK i \in 1..(n - 1) : t[i] = w
    BY <1>3 DEF Range
  <2>2. CASE i < k
    BY <1>1, <1>4, <2>1, <2>2
  <2>3. CASE ~(i < k)
    BY <1>1, <1>4, <2>1, <2>3 DEF Before
  <2> QED
    BY <2>2, <2>3
<1>8. ASSUME NEW i \in 1..n, i < k PROVE s[i] \in Range(t)
  <2>1. i \in 1..(n - 1) /\ t[i] = s[i]
    BY <1>1, <1>2, <1>8
  <2> QED
    BY <1>3, <2>1 DEF Range
<1> QED
  BY <1>1, <1>2, <1>6, <1>7, <1>8 DEF t

-----------------------------------------------------------------------------
(* What the steps make of the queues. *)

QueueStays == Queued' = Queued /\ \A v, w : Earlier(v, w)' <=> Earlier(v, w)
QueueLoses(e) ==
  /\ Queued = Queued' \cup {e}
  /\ \A v, w : Earlier(v, w)' => Earlier(v, w)
QueuePops(e) == QueueLoses(e) /\ \A w \in Queued' : Earlier(e, w)
QueueGains(noted) ==
  /\ Queued' = Queued \cup Range(noted)
  /\ \A v, w : Earlier(v, w)' <=>
       Earlier(v, w) \/ Before(noted, v, w) \/ (v \in Queued /\ w \in Range(noted))
LineStays == Pending' = Pending /\ \A v, w : Sooner(v, w)' <=> Sooner(v, w)
LineGains(c) ==
  /\ Pending' = Pending \cup {c}
  /\ \A v, w : Sooner(v, w)' => Sooner(v, w) \/ (v \in Pending /\ w = c)
LineTakes(c) ==
  /\ Pending' = Pending \cup {c}
  /\ \A v, w : Sooner(v, w)' => \/ Sooner(v, w) \/ (v \in Pending /\ w = c)
                                \/ (v = c /\ w \in Pending)
LineLoses(c) ==
  /\ Pending = Pending' \cup {c}
  /\ \A v, w : Sooner(v, w)' => Sooner(v, w)
  /\ \A w \in Pending' : w.path = c.path => Sooner(c, w)

LEMMA QueueKept == ASSUME UNCHANGED <<events, notices>> PROVE QueueStays
BY DEF QueueStays, Queued, Earlier

LEMMA LineUntouched == ASSUME UNCHANGED <<changes, out, seen>> PROVE LineStays
BY DEF LineStays, Pending, Sooner

LEMMA EventOrder ==
  ASSUME NEW s \in Seq(Event), NEW t \in Seq(Event), NEW v, NEW w
  PROVE  Before(s \o t, v, w) <=>
           Before(s, v, w) \/ Before(t, v, w) \/ (v \in Range(s) /\ w \in Range(t))
BY Joined

LEMMA LineOrder ==
  ASSUME NEW s \in Seq(Change), NEW t \in Seq(Change), NEW u \in Seq(Change), NEW v, NEW w
  PROVE  Before(s \o (t \o u), v, w) <=>
           \/ Before(s, v, w) \/ Before(t, v, w) \/ Before(u, v, w)
           \/ (v \in Range(s) /\ w \in Range(t) \cup Range(u))
           \/ (v \in Range(t) /\ w \in Range(u))
<1>1. /\ t \o u \in Seq(Change) /\ Range(t \o u) = Range(t) \cup Range(u)
      /\ Before(t \o u, v, w) <=>
           Before(t, v, w) \/ Before(u, v, w) \/ (v \in Range(t) /\ w \in Range(u))
  BY Joined
<1>2. Before(s \o (t \o u), v, w) <=>
        Before(s, v, w) \/ Before(t \o u, v, w) \/ (v \in Range(s) /\ w \in Range(t \o u))
  BY <1>1, Joined
<1> QED
  BY <1>1, <1>2

LEMMA Popped == ASSUME TypeInv, NEW e, Next1(e), notices' = notices PROVE QueuePops(e)
<1>1. /\ events \in Seq(Event) /\ notices \in Seq(Event) /\ events # <<>>
      /\ e = Head(events) /\ events' = Tail(events)
  BY DEF TypeInv, EventsTyped, Next1
<1>2. /\ events' \in Seq(Event) /\ Range(events) = Range(events') \cup {e}
      /\ \A v, w : Before(events, v, w) <=> Before(events', v, w) \/ (v = e /\ w \in Range(events'))
  BY <1>1, Shorter
<1>3. /\ \A v, w : Earlier(v, w) <=> Before(events, v, w) \/ Before(notices, v, w)
                                     \/ (v \in Range(events) /\ w \in Range(notices))
      /\ \A v, w : Earlier(v, w)' <=> Before(events', v, w) \/ Before(notices, v, w)
                                     \/ (v \in Range(events') /\ w \in Range(notices))
  BY <1>1, <1>2, EventOrder DEF Earlier
<1> QED
  BY <1>2, <1>3 DEF QueuePops, QueueLoses, Queued

LEMMA Watched ==
  ASSUME TypeInv, OnFsEvent
  PROVE  \/ QueueStays
         \/ \E e \in Queued : QueueLoses(e) /\ e.type \in {"create", "modify"} /\ ~Exists(e.path)
<1> DEFINE e == Head(notices)
<1>1. /\ events \in Seq(Event) /\ notices \in Seq(Event) /\ notices # <<>>
      /\ notices' = Tail(notices)
      /\ events' = IF e.type \in {"create", "modify"} /\ ~Exists(e.path)
                   THEN events ELSE Append(events, e)
  BY DEF TypeInv, EventsTyped, OnFsEvent
<1>2. /\ notices' \in Seq(Event) /\ Range(notices) = Range(notices') \cup {e} /\ e \in Event
      /\ \A v, w : Before(notices, v, w) <=> Before(notices', v, w) \/ (v = e /\ w \in Range(notices'))
  BY <1>1, Shorter
<1>3. \A v, w : Earlier(v, w) <=> Before(events, v, w) \/ Before(notices, v, w)
                                     \/ (v \in Range(events) /\ w \in Range(notices))
  BY <1>1, EventOrder DEF Earlier
<1> HIDE DEF e
<1>4. CASE e.type \in {"create", "modify"} /\ ~Exists(e.path)
  <2>1. events' = events
    BY <1>1, <1>4
  <2>2. \A v, w : Earlier(v, w)' <=> Before(events, v, w) \/ Before(notices', v, w)
                                     \/ (v \in Range(events) /\ w \in Range(notices'))
    BY <1>1, <1>2, <2>1, EventOrder DEF Earlier
  <2>3. QueueLoses(e) /\ e \in Queued
    BY <1>2, <1>3, <2>1, <2>2 DEF QueueLoses, Queued
  <2> QED
    BY <1>4, <2>3
<1>5. CASE ~(e.type \in {"create", "modify"} /\ ~Exists(e.path))
  <2>1. events' = Append(events, e)
    BY <1>1, <1>5
  <2>2. /\ events' \in Seq(Event) /\ Range(events') = Range(events) \cup {e}
        /\ \A v, w : Before(events', v, w) <=> Before(events, v, w) \/ (v \in Range(events) /\ w = e)
    BY <1>1, <1>2, <2>1, Longer
  <2>3. \A v, w : Earlier(v, w)' <=> Before(events', v, w) \/ Before(notices', v, w)
                                     \/ (v \in Range(events') /\ w \in Range(notices'))
    BY <1>2, <2>2, EventOrder DEF Earlier
  <2>4. QueueStays
    <3>1. Queued' = Queued
      BY <1>2, <2>2 DEF Queued
    <3>2. \A v, w : Earlier(v, w)' <=> Earlier(v, w)
      BY <1>2, <1>3, <2>2, <2>3
    <3> QED
      BY <3>1, <3>2 DEF QueueStays
  <2> QED
    BY <2>4
<1> QED
  BY <1>4, <1>5

LEMMA NotedDown ==
  ASSUME TypeInv, NEW noted \in Seq(Event), notices' = notices \o noted, events' = events
  PROVE  QueueGains(noted)
<1>1. events \in Seq(Event) /\ notices \in Seq(Event)
  BY DEF TypeInv, EventsTyped
<1>2. /\ notices' \in Seq(Event) /\ Range(notices') = Range(notices) \cup Range(noted)
      /\ \A v, w : Before(notices', v, w) <=>
           Before(notices, v, w) \/ Before(noted, v, w) \/ (v \in Range(notices) /\ w \in Range(noted))
  BY <1>1, Joined
<1>3. /\ \A v, w : Earlier(v, w) <=> Before(events, v, w) \/ Before(notices, v, w)
                                     \/ (v \in Range(events) /\ w \in Range(notices))
      /\ \A v, w : Earlier(v, w)' <=> Before(events, v, w) \/ Before(notices', v, w)
                                     \/ (v \in Range(events) /\ w \in Range(notices'))
  BY <1>1, <1>2, EventOrder DEF Earlier
<1>4. Queued' = Queued \cup Range(noted)
  BY <1>2 DEF Queued
<1>5. \A v, w : Earlier(v, w)' <=>
        Earlier(v, w) \/ Before(noted, v, w) \/ (v \in Queued /\ w \in Range(noted))
  BY <1>2, <1>3 DEF Queued
<1> QED
  BY <1>4, <1>5 DEF QueueGains

LEMMA LineIs ==
  ASSUME TypeInv
  PROVE  /\ changes \in Seq(Change) /\ out \in Seq(Change) /\ seen \in Seq(Change)
         /\ \A v, w : Sooner(v, w) <=>
              \/ Before(changes, v, w) \/ Before(out, v, w) \/ Before(seen, v, w)
              \/ (v \in Range(changes) /\ w \in Range(out) \cup Range(seen))
              \/ (v \in Range(out) /\ w \in Range(seen))
<1>1. changes \in Seq(Change) /\ out \in Seq(Change) /\ seen \in Seq(Change)
  BY DEF TypeInv, LineTyped
<1> QED
  BY <1>1, LineOrder DEF Sooner

LEMMA LineIsNext ==
  ASSUME TypeInv'
  PROVE  \A v, w : Sooner(v, w)' <=>
              \/ Before(changes', v, w) \/ Before(out', v, w) \/ Before(seen', v, w)
              \/ (v \in Range(changes') /\ w \in Range(out') \cup Range(seen'))
              \/ (v \in Range(out') /\ w \in Range(seen'))
<1>1. changes' \in Seq(Change) /\ out' \in Seq(Change) /\ seen' \in Seq(Change)
  BY DEF TypeInv, LineTyped
<1> QED
  BY <1>1, LineOrder DEF Sooner

LEMMA Emitted ==
  ASSUME TypeInv, TypeInv', NEW c \in Change, seen = <<>>, changes' = changes,
         \/ out' = Append(out, c) /\ seen' = seen
         \/ out' = out /\ seen' = <<c>>
  PROVE  LineGains(c)
<1>1. CASE out' = Append(out, c) /\ seen' = seen
  <2>1. /\ Range(out') = Range(out) \cup {c}
        /\ \A v, w : Before(out', v, w) <=> Before(out, v, w) \/ (v \in Range(out) /\ w = c)
    BY <1>1, LineIs, Longer
  <2>2. Range(seen) = {} /\ \A v, w : ~Before(seen, v, w)
    BY Single
  <2>3. Pending' = Pending \cup {c}
    BY <1>1, <2>1 DEF Pending
  <2>4. \A v, w : Sooner(v, w)' => Sooner(v, w) \/ (v \in Pending /\ w = c)
    BY <1>1, <2>1, <2>2, LineIs, LineIsNext DEF Pending
  <2> QED
    BY <2>3, <2>4 DEF LineGains
<1>2. CASE out' = out /\ seen' = <<c>>
  <2>1. Range(seen') = {c} /\ \A v, w : ~Before(seen', v, w)
    BY <1>2, Single
  <2>2. Range(seen) = {} /\ \A v, w : ~Before(seen, v, w)
    BY Single
  <2>3. Pending' = Pending \cup {c}
    BY <1>2, <2>1, <2>2 DEF Pending
  <2>4. \A v, w : Sooner(v, w)' => Sooner(v, w) \/ (v \in Pending /\ w = c)
    BY <1>2, <2>1, <2>2, LineIs, LineIsNext DEF Pending
  <2> QED
    BY <2>3, <2>4 DEF LineGains
<1> QED
  BY <1>1, <1>2

LEMMA Received ==
  ASSUME TypeInv, TypeInv', NEW c \in Change, changes' = Append(changes, c),
         UNCHANGED <<out, seen>>
  PROVE  LineTakes(c)
<1>1. /\ Range(changes') = Range(changes) \cup {c}
      /\ \A v, w : Before(changes', v, w) <=> Before(changes, v, w) \/ (v \in Range(changes) /\ w = c)
  BY LineIs, Longer
<1>2. Pending' = Pending \cup {c}
  BY <1>1 DEF Pending
<1>3. \A v, w : Sooner(v, w)' => \/ Sooner(v, w) \/ (v \in Pending /\ w = c)
                                 \/ (v = c /\ w \in Pending)
  BY <1>1, LineIs, LineIsNext DEF Pending
<1> QED
  BY <1>2, <1>3 DEF LineTakes

LEMMA TakenOut ==
  ASSUME TypeInv, TypeInv', NEW k \in DOMAIN changes, Ready(k),
         changes' = RemoveAt(changes, k), UNCHANGED <<out, seen>>
  PROVE  LineLoses(changes[k])
<1> DEFINE c == changes[k]
<1>1. /\ Range(changes) = Range(changes') \cup {c}
      /\ \A v, w : Before(changes', v, w) => Before(changes, v, w)
      /\ \A w \in Range(changes') : Before(changes, c, w) \/ \E i \in DOMAIN changes : i < k /\ changes[i] = w
  BY LineIs, Taken
<1>2. \A i \in DOMAIN changes : i < k => changes[i].path # c.path
  BY DEF Ready
<1> HIDE DEF c
<1>3. Pending = Pending' \cup {c}
  BY <1>1 DEF Pending
<1>4. \A v, w : Sooner(v, w)' => Sooner(v, w)
  BY <1>1, LineIs, LineIsNext
<1>5. \A w \in Pending' : w.path = c.path => Sooner(c, w)
  BY <1>1, <1>2, LineIs DEF Pending
<1> QED
  BY <1>3, <1>4, <1>5 DEF LineLoses, c

LEMMA Written ==
  ASSUME TypeInv, TypeInv', NEW c \in Change, seen = <<c>>, out' = Append(out, c), seen' = <<>>,
         changes' = changes
  PROVE  LineStays
<1>1. /\ Range(out') = Range(out) \cup {c}
      /\ \A v, w : Before(out', v, w) <=> Before(out, v, w) \/ (v \in Range(out) /\ w = c)
  BY LineIs, Longer
<1>2. /\ Range(seen) = {c} /\ \A v, w : ~Before(seen, v, w)
      /\ Range(seen') = {} /\ \A v, w : ~Before(seen', v, w)
  BY Single
<1>3. Pending' = Pending
  BY <1>1, <1>2 DEF Pending
<1>4. \A v, w : Sooner(v, w)' <=> Sooner(v, w)
  BY <1>1, <1>2, LineIs, LineIsNext
<1> QED
  BY <1>3, <1>4 DEF LineStays

LEMMA HandedOver ==
  ASSUME TypeInv, TypeInv', seen = <<>>, seen' = <<>>, changes' = changes \o out, out' = <<>>
  PROVE  LineStays
<1>1. /\ Range(changes') = Range(changes) \cup Range(out)
      /\ \A v, w : Before(changes', v, w) <=>
           Before(changes, v, w) \/ Before(out, v, w) \/ (v \in Range(changes) /\ w \in Range(out))
  BY LineIs, Joined
<1>2. Range(<<>>) = {} /\ \A v, w : ~Before(<<>>, v, w)
  BY Single
<1>3. Pending' = Pending
  BY <1>1, <1>2 DEF Pending
<1>4. \A v, w : Sooner(v, w)' <=> Sooner(v, w)
  BY <1>1, <1>2, LineIs, LineIsNext
<1> QED
  BY <1>3, <1>4 DEF LineStays

-----------------------------------------------------------------------------
(* A step that leaves alone what there is about a path leaves its story.     *)

SameFile(p) == disk'[p] = disk[p] /\ (Exists(p) \/ (p \in beside' <=> p \in beside))
SameEvents(p) ==
  /\ EventsOn(p)' = EventsOn(p)
  /\ \A v, w : On(v, p) /\ On(w, p) /\ Earlier(v, w)' => Earlier(v, w)
SameLine(p) ==
  /\ LineOn(p)' = LineOn(p)
  /\ \A v, w : On(v, p) /\ On(w, p) /\ Sooner(v, w)' => Sooner(v, w)
SameRuns(p) == RunsOn(p)' = RunsOn(p)
SameRows(p) ==
  /\ Rows(p)' = Rows(p)
  /\ \A r \in Rows(p) : /\ Stat(r)' = Stat(r) /\ (Linked(r)' <=> Linked(r))
                        /\ Linked(r) => LinkId(r)' = LinkId(r)
SameThere(p) == There(p)' = There(p) /\ \A n \in There(p) : HashAt(n)' = HashAt(n)
SameAwait(p) == (Awaits(p)' <=> Awaits(p)) /\ (Awaits(p) => expected'[p] = expected[p])
Same(p) ==
  /\ SameFile(p) /\ SameEvents(p) /\ SameLine(p) /\ SameRuns(p) /\ SameRows(p) /\ SameThere(p)
  /\ SameAwait(p)

LEMMA SameExists ==
  ASSUME NEW p, SameFile(p)
  PROVE  (Exists(p)' <=> Exists(p)) /\ StatOf(p)' = StatOf(p) /\ disk'[p] = disk[p]
BY DEF SameFile, Exists, StatOf, NoFile

LEMMA WorkIs ==
  /\ Work = Queued \cup Pending \cup running
  /\ \A p : WorkOn(p) = WorkHere(p)
  /\ \A w, p : w \in WorkHere(p) <=> w \in Work /\ On(w, p)
<1>1. Work = Queued \cup Pending \cup running
  BY DEF Work, Queued, Pending
<1> QED
  BY <1>1 DEF WorkOn, WorkHere, EventsOn, LineOn, RunsOn, On

(* What a notice says. *)
LEMMA NoticeIs ==
  ASSUME NEW type, NEW p, NEW q, NEW by
  PROVE  /\ Notice(type, p, q, by).type = type /\ Notice(type, p, q, by).path = p
         /\ Notice(type, p, q, by).to = q /\ Notice(type, p, q, by).by = by
         /\ \A x : On(Notice(type, p, q, by), x) <=> x = p \/ x = q
BY DEF Notice, On

LEMMA NoticesOn ==
  ASSUME NEW p
  PROVE  /\ On(Destroyed(p), p) /\ On(Placed(p), p)
         /\ \A q : On(Renamed(p, q), p) /\ On(Renamed(p, q), q)
         /\ \A v \in Creations(p) \cup Edits(p) \cup Removals(p) : On(v, p)
BY DEF Notice, On, Destroyed, Placed, Renamed, Creations, Edits, Removals

LEMMA AbsentStays == ASSUME NEW p, Same(p), Absent(p) PROVE Absent(p)'
BY SameExists, NoticesOn
   DEF Same, SameEvents, SameLine, SameRuns, SameRows, SameThere, SameAwait,
       Absent, Nowhere, DestroyAwaited

LEMMA CreatingStays == ASSUME NEW p, Same(p), Creating(p) PROVE Creating(p)'
<1>1. (Exists(p) /\ Nowhere(p) /\ RunsOn(p) = {} /\ ~Awaits(p))'
  BY SameExists DEF Same, SameRuns, SameRows, SameThere, SameAwait, Creating, Nowhere
<1>2. EventsOn(p)' = EventsOn(p) /\ LineOn(p)' = LineOn(p)
  BY DEF Same, SameEvents, SameLine
<1>3. CASE CreationSeen(p)
  <2>1. CreationSeen(p)'
    BY <1>2, <1>3, NoticesOn DEF Same, SameEvents, CreationSeen
  <2> QED
    BY <1>1, <1>2, <2>1 DEF Creating
<1>4. ASSUME NEW c \in LineOn(p), CreationInLine(c, p) PROVE Creating(p)'
  <2>1. On(c, p)
    BY DEF LineOn
  <2>2. CreationInLine(c, p)'
    BY <1>2, <1>4, <2>1 DEF Same, SameLine, CreationInLine
  <2> QED
    BY <1>1, <1>2, <2>2 DEF Creating
<1> QED
  BY <1>3, <1>4 DEF Creating

LEMMA KeptStays == ASSUME NEW p, Same(p), NEW r, Kept(p, r) PROVE Kept(p, r)'
<1>1. /\ EventsOn(p)' = EventsOn(p) /\ LineOn(p)' = LineOn(p) /\ RunsOn(p)' = RunsOn(p)
      /\ Rows(p)' = Rows(p) /\ There(p)' = There(p) /\ (Awaits(p)' <=> Awaits(p))
      /\ (Exists(p)' <=> Exists(p)) /\ StatOf(p)' = StatOf(p) /\ disk'[p] = disk[p]
      /\ Rows(p) = {r}
  BY SameExists DEF Same, SameEvents, SameLine, SameRuns, SameRows, SameThere, SameAwait, Kept, KeptRow
<1>2. Stat(r)' = Stat(r) /\ (Linked(r)' <=> Linked(r)) /\ (Linked(r) => LinkId(r)' = LinkId(r))
  BY <1>1 DEF Same, SameRows
<1>3. KeptRow(p, r)'
  BY <1>1, <1>2, NoticesOn DEF Kept, KeptRow, DestroyAwaited, Dated, Same, SameEvents, SameAwait
<1>4. KeptLine(p, r)'
  <2>1. \A c \in LineOn(p) : On(c, p)
    BY DEF LineOn
  <2> QED
    BY <1>1, <2>1 DEF Kept, KeptLine, Dated, Newest, Same, SameLine
<1>5. KeptRuns(p, r)'
  BY <1>1, <1>2 DEF Kept, KeptRuns, KeptRun
<1>6. Linked(r) => There(p) = {LinkId(r)}
  BY DEF Kept, KeptRuns, KeptRun
<1>7. Linked(r) => HashAt(LinkId(r))' = HashAt(LinkId(r))
  <2>1. ASSUME Linked(r), NEW n, n = LinkId(r) PROVE HashAt(n)' = HashAt(n)
    BY <1>6, <2>1 DEF Same, SameThere
  <2> QED
    BY <1>2, <2>1 DEF HashAt
<1>8. KeptFlow(p, r)'
  BY <1>1, <1>2, <1>7 DEF Kept, KeptFlow, Newest
<1> QED
  BY <1>3, <1>4, <1>5, <1>8 DEF Kept

LEMMA OnlyStays ==
  ASSUME NEW p, Same(p), NEW w
  PROVE  /\ OnlyEvent(w, p) => OnlyEvent(w, p)'
         /\ OnlyInLine(w, p) => OnlyInLine(w, p)'
         /\ OnlyRunning(w, p) => OnlyRunning(w, p)'
<1>1. EventsOn(p)' = EventsOn(p) /\ LineOn(p)' = LineOn(p) /\ RunsOn(p)' = RunsOn(p)
  BY DEF Same, SameEvents, SameLine, SameRuns
<1>2. OnlyEvent(w, p) => OnlyEvent(w, p)'
  <2>1. OnlyEvent(w, p) => On(w, p)
    BY DEF OnlyEvent, EventsOn
  <2> QED
    BY <1>1, <2>1 DEF OnlyEvent, Same, SameEvents
<1>3. OnlyInLine(w, p) => OnlyInLine(w, p)'
  <2>1. OnlyInLine(w, p) => On(w, p)
    BY DEF OnlyInLine, LineOn
  <2> QED
    BY <1>1, <2>1 DEF OnlyInLine, Same, SameLine
<1>4. OnlyRunning(w, p) => OnlyRunning(w, p)'
  BY <1>1 DEF OnlyRunning
<1> QED
  BY <1>2, <1>3, <1>4

LEMMA EverywhereStays ==
  ASSUME NEW p, SameRows(p), SameThere(p), NEW r, Everywhere(p, r)
  PROVE  Everywhere(p, r)' /\ LinkId(r)' = LinkId(r) /\ Stat(r)' = Stat(r)
BY DEF SameRows, SameThere, Everywhere

LEMMA DeletingStays == ASSUME NEW p, Same(p), NEW w, Deleting(w, p) PROVE Deleting(w, p)'
<1>1. (~Exists(p) /\ p \notin beside /\ ~Awaits(p))'
  BY SameExists DEF Same, SameFile, SameAwait, Deleting
<1>2. Rows(p)' = Rows(p) /\ There(p)' = There(p)
  BY DEF Same, SameRows, SameThere
<1>3. \A r : Everywhere(p, r) => Everywhere(p, r)'
  BY EverywhereStays DEF Same
<1> QED
  BY <1>1, <1>2, <1>3, OnlyStays DEF Deleting

LEMMA CloudNewStays == ASSUME NEW p, Same(p), NEW w, CloudNew(w, p) PROVE CloudNew(w, p)'
<1>1. /\ EventsOn(p)' = EventsOn(p) /\ LineOn(p)' = LineOn(p) /\ RunsOn(p)' = RunsOn(p)
      /\ Rows(p)' = Rows(p) /\ There(p)' = There(p) /\ (Awaits(p)' <=> Awaits(p))
      /\ (Exists(p)' <=> Exists(p)) /\ disk'[p] = disk[p]
  BY SameExists DEF Same, SameEvents, SameLine, SameRuns, SameRows, SameThere, SameAwait
<1>2. HashAt(w.cid)' = HashAt(w.cid)
  <2>1. ASSUME NEW n, n = w.cid PROVE HashAt(n)' = HashAt(n)
    BY <2>1 DEF Same, SameThere, CloudNew
  <2> QED
    BY <2>1 DEF HashAt
<1> QED
  BY <1>1, <1>2, OnlyStays DEF CloudNew

LEMMA CloudUpdateStays == ASSUME NEW p, Same(p), NEW w, CloudUpdate(w, p) PROVE CloudUpdate(w, p)'
<1>1. /\ EventsOn(p)' = EventsOn(p) /\ LineOn(p)' = LineOn(p) /\ RunsOn(p)' = RunsOn(p)
      /\ Rows(p)' = Rows(p) /\ There(p)' = There(p) /\ (Awaits(p)' <=> Awaits(p))
      /\ (Exists(p)' <=> Exists(p)) /\ StatOf(p)' = StatOf(p) /\ disk'[p] = disk[p]
  BY SameExists DEF Same, SameEvents, SameLine, SameRuns, SameRows, SameThere, SameAwait
<1>2. HashAt(w.cid)' = HashAt(w.cid)
  <2>1. ASSUME NEW n, n = w.cid PROVE HashAt(n)' = HashAt(n)
    BY <2>1 DEF Same, SameThere, CloudUpdate, Everywhere
  <2> QED
    BY <2>1 DEF HashAt
<1>3. ASSUME NEW r, r = w.gid
      PROVE  Everywhere(p, r)' /\ LinkId(r)' = LinkId(r) /\ Stat(r)' = Stat(r)
  BY <1>3, EverywhereStays DEF Same, CloudUpdate
<1>4. Everywhere(p, w.gid)' /\ LinkId(w.gid)' = LinkId(w.gid) /\ Stat(w.gid)' = Stat(w.gid)
  BY <1>3
<1>5. DestroyAwaited(p) => DestroyAwaited(p)'
  BY <1>1, NoticesOn DEF Same, SameEvents, SameAwait, DestroyAwaited
<1> QED
  BY <1>1, <1>2, <1>4, <1>5, OnlyStays DEF CloudUpdate

LEMMA CloudDeleteStays == ASSUME NEW p, Same(p), NEW w, CloudDelete(w, p) PROVE CloudDelete(w, p)'
<1>1. /\ EventsOn(p)' = EventsOn(p) /\ LineOn(p)' = LineOn(p) /\ RunsOn(p)' = RunsOn(p)
      /\ Rows(p)' = Rows(p) /\ There(p)' = There(p) /\ (Awaits(p)' <=> Awaits(p))
      /\ (Exists(p)' <=> Exists(p)) /\ disk'[p] = disk[p]
  BY SameExists DEF Same, SameEvents, SameLine, SameRuns, SameRows, SameThere, SameAwait
<1>2. DestroyAwaited(p) => DestroyAwaited(p)'
  BY <1>1, NoticesOn DEF Same, SameEvents, SameAwait, DestroyAwaited
<1> QED
  BY <1>1, <1>2, OnlyStays DEF CloudDelete

LEMMA AloneStays == ASSUME NEW p, Same(p), Alone(p) PROVE Alone(p)'
<1>1. /\ EventsOn(p)' = EventsOn(p) /\ LineOn(p)' = LineOn(p) /\ RunsOn(p)' = RunsOn(p)
      /\ Rows(p)' = Rows(p)
  BY DEF Same, SameEvents, SameLine, SameRuns, SameRows
<1>2. WorkHere(p)' = WorkHere(p)
  BY <1>1 DEF WorkHere
<1> QED
  BY <1>1, <1>2, AbsentStays, CreatingStays, KeptStays, DeletingStays, CloudNewStays,
     CloudUpdateStays, CloudDeleteStays DEF Alone

LEMMA AgreedStays ==
  ASSUME NEW r, NEW p, NEW q, NEW n, n = LinkId(r), SameRows(p), SameThere(q), n \in There(q),
         r \in Rows(p), NEW x, SameFile(x), Agreed(r, x)
  PROVE  Agreed(r, x)' /\ LinkId(r)' = LinkId(r)
<1>1. Stat(r)' = Stat(r) /\ Linked(r) /\ Linked(r)' /\ LinkId(r)' = LinkId(r)
  BY DEF SameRows, Agreed
<1>2. HashAt(n)' = HashAt(n)
  BY DEF SameThere
<1>3. HashAt(LinkId(r))' = HashAt(LinkId(r))
  BY <1>1, <1>2 DEF HashAt
<1> QED
  BY <1>1, <1>3, SameExists DEF Agreed

LEMMA UserMovingStays ==
  ASSUME NEW p, NEW q, Same(p), Same(q), NEW w, UserMoving(w, p, q)
  PROVE  UserMoving(w, p, q)'
<1>1. /\ Rows(p)' = Rows(p) /\ There(p)' = There(p) /\ (Awaits(p)' <=> Awaits(p))
      /\ Rows(q)' = Rows(q) /\ There(q)' = There(q) /\ (Awaits(q)' <=> Awaits(q))
      /\ (Exists(p)' <=> Exists(p)) /\ (Exists(q)' <=> Exists(q))
  BY SameExists DEF Same, SameRows, SameThere, SameAwait
<1>2. PICK r \in Rows(p) \cup Rows(q) :
       /\ Agreed(r, q) /\ There(p) = {LinkId(r)} /\ There(q) = {}
       /\ \/ /\ Rows(p) = {r} /\ Rows(q) = {}
             /\ \/ w.type = "rename" /\ OnlyEvent(w, p) /\ OnlyEvent(w, q)
                \/ w.type = "Move" /\ w.gid = r /\ OnlyInLine(w, p) /\ OnlyInLine(w, q)
          \/ /\ Rows(p) = {} /\ Rows(q) = {r}
             /\ w.type = "Move" /\ w.gid = r /\ w.cid = LinkId(r) /\ w.stage = "request"
             /\ OnlyRunning(w, p) /\ OnlyRunning(w, q)
  BY DEF UserMoving
<1>3. Agreed(r, q)' /\ LinkId(r)' = LinkId(r)
  BY <1>2, AgreedStays DEF Same
<1> QED
  BY <1>1, <1>2, <1>3, OnlyStays DEF UserMoving

LEMMA CloudMovingStays ==
  ASSUME NEW p, NEW q, Same(p), Same(q), NEW w, CloudMoving(w, p, q)
  PROVE  CloudMoving(w, p, q)'
<1>1. /\ Rows(p)' = Rows(p) /\ There(p)' = There(p) /\ (Awaits(p)' <=> Awaits(p))
      /\ Rows(q)' = Rows(q) /\ There(q)' = There(q) /\ (Awaits(q)' <=> Awaits(q))
      /\ (Exists(p)' <=> Exists(p)) /\ (Exists(q)' <=> Exists(q))
  BY SameExists DEF Same, SameRows, SameThere, SameAwait
<1>2. /\ EventsOn(p)' = EventsOn(p) /\ LineOn(p)' = LineOn(p) /\ RunsOn(p)' = RunsOn(p)
      /\ EventsOn(q)' = EventsOn(q) /\ LineOn(q)' = LineOn(q) /\ RunsOn(q)' = RunsOn(q)
  BY DEF Same, SameEvents, SameLine, SameRuns
<1>3. ASSUME NEW r, r = w.gid
      PROVE  /\ Linked(r)' /\ LinkId(r)' = LinkId(r)
             /\ Agreed(r, p) => Agreed(r, p)'
             /\ Agreed(r, q) => Agreed(r, q)'
  <2>1. r \in Rows(p) /\ Linked(r) /\ LinkId(r) \in There(q)
    BY <1>3 DEF CloudMoving
  <2>2. Linked(r)' /\ LinkId(r)' = LinkId(r)
    BY <2>1 DEF Same, SameRows
  <2> QED
    BY <2>1, <2>2, AgreedStays DEF Same
<1>4. /\ Linked(w.gid)' /\ LinkId(w.gid)' = LinkId(w.gid)
      /\ Agreed(w.gid, p) => Agreed(w.gid, p)'
      /\ Agreed(w.gid, q) => Agreed(w.gid, q)'
  BY <1>3
<1>5. (Expects(expected, p, "Move") => Expects(expected, p, "Move")')
  BY DEF Expects, Same, SameAwait, Awaits
<1>6. ~Earlier(Renamed(p, q), Renamed(p, q)) => ~Earlier(Renamed(p, q), Renamed(p, q))'
  BY NoticesOn DEF Same, SameEvents
<1> QED
  BY <1>1, <1>2, <1>4, <1>5, <1>6, OnlyStays DEF CloudMoving

LEMMA CloudMovedStays ==
  ASSUME NEW p, NEW q, Same(p), Same(q), NEW w, CloudMoved(w, p, q)
  PROVE  CloudMoved(w, p, q)'
<1>1. /\ Rows(p)' = Rows(p) /\ There(p)' = There(p)
      /\ Rows(q)' = Rows(q) /\ There(q)' = There(q) /\ (Awaits(q)' <=> Awaits(q))
      /\ (Exists(p)' <=> Exists(p)) /\ (Exists(q)' <=> Exists(q))
  BY SameExists DEF Same, SameRows, SameThere, SameAwait
<1>2. PICK r \in Rows(q) : Everywhere(q, r) /\ Agreed(r, q)
  BY DEF CloudMoved
<1>3. Everywhere(q, r)' /\ Agreed(r, q)'
  <2>1. LinkId(r) \in There(q)
    BY <1>2 DEF Everywhere
  <2> QED
    BY <1>2, <2>1, EverywhereStays, AgreedStays DEF Same
<1>4. Expects(expected, p, "Move")'
  BY DEF Expects, Same, SameAwait, Awaits, CloudMoved
<1> QED
  BY <1>1, <1>3, <1>4, OnlyStays DEF CloudMoved, Nowhere

LEMMA PairStays ==
  ASSUME NEW p, NEW q, Same(p), Same(q), NEW w, Pair(w, p, q), Clean(q)'
  PROVE  Pair(w, p, q)'
BY UserMovingStays, CloudMovingStays, CloudMovedStays DEF Pair, Moving

-----------------------------------------------------------------------------
(* What is at work on a clean path: on it alone, or all of it on the two     *)
(* paths of a move.                                                        *)

LEMMA EventTyped ==
  ASSUME TypeInv, NEW e \in Queued
  PROVE  e \in Event /\ ProperEvent(e) /\ e.type \in {"create", "modify", "destroy", "rename"}
<1>1. Range(notices) \in SUBSET Event /\ Range(events) \in SUBSET Event
  BY RangeOfSeq DEF TypeInv, EventsTyped
<1>2. e \in Event /\ ProperEvent(e)
  BY <1>1 DEF Queued, TypeInv, EventsTyped
<1> QED
  BY <1>2 DEF Event

LEMMA ChangingTyped ==
  ASSUME TypeInv, NEW c \in Changing
  PROVE  /\ c \in Change /\ Proper(c, db.lastId, fresh) /\ c.path \in Path /\ c.type \in ChangeTypes
         /\ c.type = "Move" <=> c.to \in Path
         /\ On(c, c.path)
         /\ c.type # "Move" => \A y \in Path : On(c, y) => y = c.path
<1>1. c \in Change /\ Proper(c, db.lastId, fresh)
  BY RangeOfSeq DEF Changing, Pending, TypeInv, LineTyped, RunsTyped
<1>2. c.path \in Path /\ c.type \in ChangeTypes
  BY <1>1 DEF Change
<1>3. c.type = "Move" <=> c.to \in Path
  BY <1>1 DEF Proper
<1> QED
  BY <1>1, <1>2, <1>3 DEF On

LEMMA Strangers ==
  ASSUME NEW p \in Path, NEW y \in Path
  PROVE  /\ On(Destroyed(p), y) => y = p
         /\ On(Placed(p), y) => y = p
         /\ \A v \in Creations(p) \cup Edits(p) \cup Removals(p) : On(v, y) => y = p
<1>1. y # Tmp /\ y # NoTo
  BY Ids
<1> QED
  BY <1>1 DEF Destroyed, Placed, Creations, Edits, Removals, Notice, On

LEMMA WorkParts ==
  ASSUME NEW p, NEW v \in WorkHere(p)
  PROVE  /\ On(v, p) /\ (v \in EventsOn(p) \/ v \in LineOn(p) \/ v \in RunsOn(p))
         /\ v \in LineOn(p) \cup RunsOn(p) => v \in Changing
BY DEF WorkHere, EventsOn, LineOn, RunsOn, Changing

LEMMA NotMoving ==
  ASSUME TypeInv, NEW p \in Path, NEW v \in LineOn(p) \cup RunsOn(p), v.type # "Move",
         NEW y \in Path, On(v, y)
  PROVE  y = p
<1>1. v \in Changing /\ On(v, p)
  BY DEF LineOn, RunsOn, Changing
<1> QED
  BY <1>1, ChangingTyped

LEMMA AloneWork ==
  ASSUME TypeInv, NEW p \in Path, Alone(p), NEW v \in WorkHere(p), NEW y \in Path, On(v, y)
  PROVE  y = p
<1>1. v \in EventsOn(p) \/ v \in LineOn(p) \cup RunsOn(p)
  BY WorkParts
<1>2. CASE Absent(p)
  BY <1>1, <1>2, Strangers DEF Absent
<1>3. CASE Creating(p)
  <2>1. CASE v \in EventsOn(p)
    BY <1>3, <2>1, Strangers DEF Creating
  <2>2. CASE v \in LineOn(p) \cup RunsOn(p)
    <3>1. v.type = "New"
      BY <1>3, <2>2 DEF Creating, CreationSeen, CreationInLine
    <3> QED
      BY <2>2, <3>1, NotMoving
  <2> QED
    BY <1>1, <2>1, <2>2
<1>4. ASSUME NEW r \in Rows(p), Kept(p, r) PROVE y = p
  <2>1. CASE v \in EventsOn(p)
    BY <1>4, <2>1, Strangers DEF Kept, KeptRow
  <2>2. CASE v \in LineOn(p) \cup RunsOn(p)
    <3>1. v.type # "Move"
      BY <1>4, <2>2 DEF Kept, KeptLine, KeptRuns, KeptRun
    <3> QED
      BY <2>2, <3>1, NotMoving
  <2> QED
    BY <1>1, <2>1, <2>2
<1>5. ASSUME NEW w \in WorkHere(p), Deleting(w, p) PROVE y = p
  <2>1. CASE w \in Removals(p) /\ OnlyEvent(w, p)
    BY <1>1, <2>1, Strangers DEF OnlyEvent
  <2>2. CASE w.type = "Delete" /\ (OnlyInLine(w, p) \/ OnlyRunning(w, p))
    <3>1. v \in LineOn(p) \cup RunsOn(p) /\ v = w
      BY <1>1, <2>2 DEF OnlyInLine, OnlyRunning
    <3>2. v.type # "Move"
      BY <2>2, <3>1
    <3> QED
      BY <3>1, <3>2, NotMoving
  <2> QED
    BY <1>5, <2>1, <2>2 DEF Deleting
<1>6. ASSUME NEW w \in WorkHere(p), CloudNew(w, p) \/ CloudUpdate(w, p) \/ CloudDelete(w, p)
      PROVE  y = p
  <2>1. CASE v \in EventsOn(p)
    <3>1. EventsOn(p) \subseteq {Destroyed(p), Placed(p)}
      BY <1>6 DEF CloudNew, CloudUpdate, CloudDelete, OnlyInLine, OnlyRunning
    <3> QED
      BY <2>1, <3>1, Strangers
  <2>2. CASE v \in LineOn(p) \cup RunsOn(p)
    <3>1. v.type # "Move"
      BY <1>6, <2>2 DEF CloudNew, CloudUpdate, CloudDelete, OnlyInLine, OnlyRunning
    <3> QED
      BY <2>2, <3>1, NotMoving
  <2> QED
    BY <1>1, <2>1, <2>2
<1> QED
  BY <1>2, <1>3, <1>4, <1>5, <1>6 DEF Alone

LEMMA MovingWork ==
  ASSUME TypeInv, NEW p \in Path, NEW q \in Path, NEW w, Moving(w, p, q), NEW x \in {p, q},
         NEW v \in WorkHere(x)
  PROVE  v.path = p /\ v.to = q
<1>1. CASE UserMoving(w, p, q)
  <2>1. w.path = p /\ w.to = q
    BY <1>1 DEF UserMoving
  <2>2. WorkHere(x) = {w}
    BY <1>1 DEF UserMoving, OnlyEvent, OnlyInLine, OnlyRunning, WorkHere
  <2> QED
    BY <2>1, <2>2
<1>2. CASE CloudMoving(w, p, q)
  <2>1. w.path = p /\ w.to = q
    BY <1>2 DEF CloudMoving
  <2>2. Renamed(p, q).path = p /\ Renamed(p, q).to = q
    BY DEF Renamed, Notice
  <2>3. WorkHere(x) \subseteq {w, Renamed(p, q)}
    BY <1>2 DEF CloudMoving, OnlyInLine, WorkHere
  <2> QED
    BY <2>1, <2>2, <2>3
<1>3. CASE CloudMoved(w, p, q)
  <2>2. Renamed(p, q).path = p /\ Renamed(p, q).to = q
    BY DEF Renamed, Notice
  <2>3. WorkHere(x) = {Renamed(p, q)}
    BY <1>3 DEF CloudMoved, OnlyEvent, WorkHere
  <2> QED
    BY <2>2, <2>3
<1> QED
  BY <1>1, <1>2, <1>3 DEF Moving

(* All that is at work on one of two paths tied together is on both. *)
LEMMA Partner ==
  ASSUME TypeInv, Stories, NEW x \in Path, NEW y \in Path, x # y, Clean(x),
         NEW w \in Work, On(w, x), On(w, y)
  PROVE  /\ \A v \in Work : On(v, x) => On(v, y)
         /\ \A v \in Work, z \in Path : On(v, x) /\ On(v, z) => z \in {x, y}
         /\ Clean(y)
         /\ \E v \in WorkHere(x) : Pair(v, x, y)
<1>1. w \in WorkHere(x)
  BY WorkIs
<1>2. ~Alone(x)
  BY <1>1, AloneWork
<1>3. PICK v \in WorkHere(x), q \in Path : Pair(v, x, q)
  BY <1>2 DEF Stories, Told, InPair
<1>4. \A u \in WorkHere(x) : {u.path, u.to} = {x, q}
  BY <1>3, MovingWork DEF Pair
<1>5. y = q
  BY <1>1, <1>4 DEF On
<1>6. \A u \in Work : On(u, x) => {u.path, u.to} = {x, y}
  BY <1>4, <1>5, WorkIs
<1> QED
  BY <1>3, <1>5, <1>6 DEF On, Pair

LEMMA NearSame ==
  ASSUME TypeInv, Stories, NEW x \in Path, NEW y \in Path, Near(x, y)
  PROVE  Clean(x) <=> Clean(y)
BY Partner DEF Near

LEMMA NearWork ==
  ASSUME TypeInv, Stories, NEW x \in Path, NEW y \in Path, Near(x, y), Clean(x),
         NEW v \in Work, On(v, x)
  PROVE  On(v, y)
BY Partner DEF Near

LEMMA NearSymmetric == ASSUME NEW x, NEW y, Near(x, y) PROVE Near(y, x)
BY DEF Near

LEMMA NearThen ==
  ASSUME TypeInv, Stories, NEW x \in Path, NEW y \in Path, NEW z \in Path, Near(x, y), Near(y, z),
         Clean(x) \/ Clean(y) \/ Clean(z)
  PROVE  Near(x, z)
<1>1. Clean(y)
  BY NearSame
<1>2. CASE x = y \/ y = z
  BY <1>2
<1>3. CASE x # y /\ y # z
  <2>1. PICK w \in Work : On(w, y) /\ On(w, x)
    BY <1>3 DEF Near
  <2>2. PICK v \in Work : On(v, y) /\ On(v, z)
    BY <1>3 DEF Near
  <2>3. z \in {y, x}
    BY <1>1, <1>3, <2>1, <2>2, Partner
  <2> QED
    BY <1>3, <2>3 DEF Near
<1> QED
  BY <1>2, <1>3

(* A step that has to do with one event or change tells the rest nothing new. *)
LEMMA Elsewhere ==
  ASSUME TypeInv, Stories, fate' = fate, NEW w \in Work,
         \A x \in Path : Clean(x) /\ ~On(w, x) => Same(x),
         NEW p \in Path, Clean(p), ~On(w, p)
  PROVE  Told(p)'
<1>1. Same(p)
  OBVIOUS
<1>2. CASE Alone(p)
  BY <1>1, <1>2, AloneStays DEF Told
<1>3. CASE InPair(p)
  <2>1. PICK v \in WorkHere(p), q \in Path : Pair(v, p, q)
    BY <1>3 DEF InPair
  <2>2. p # q /\ Clean(q) /\ {v.path, v.to} = {p, q} /\ v \in Work
    BY <2>1, MovingWork, WorkIs DEF Pair
  <2>3. On(v, p) /\ On(v, q)
    BY <2>2 DEF On
  <2>4. ~On(w, q)
    BY <2>2, <2>3, Partner
  <2>5. Same(q) /\ Clean(q)'
    BY <2>2, <2>4 DEF Clean
  <2>6. Pair(v, p, q)'
    BY <1>1, <2>1, <2>5, PairStays
  <2>7. WorkHere(p)' = WorkHere(p)
    BY <1>1 DEF Same, SameEvents, SameLine, SameRuns, WorkHere
  <2> QED
    BY <2>1, <2>6, <2>7 DEF Told, InPair
<1> QED
  BY <1>2, <1>3 DEF Stories, Told

LEMMA Everywhere2 ==
  ASSUME TypeInv, Stories, fate' = fate, \A x \in Path : Clean(x) => Same(x)
  PROVE  Stories'
<1> SUFFICES ASSUME NEW p \in Path, Clean(p)' PROVE Told(p)'
  BY DEF Stories
<1>1. Clean(p) /\ Same(p)
  BY DEF Clean
<1>2. CASE Alone(p)
  BY <1>1, <1>2, AloneStays DEF Told
<1>3. CASE InPair(p)
  <2>1. PICK v \in WorkHere(p), q \in Path : Pair(v, p, q)
    BY <1>3 DEF InPair
  <2>2. Same(q) /\ Clean(q)'
    BY <2>1 DEF Clean, Pair
  <2>3. Pair(v, p, q)'
    BY <1>1, <2>1, <2>2, PairStays
  <2>4. WorkHere(p)' = WorkHere(p)
    BY <1>1 DEF Same, SameEvents, SameLine, SameRuns, WorkHere
  <2> QED
    BY <2>1, <2>3, <2>4 DEF Told, InPair
<1> QED
  BY <1>1, <1>2, <1>3 DEF Stories, Told

-----------------------------------------------------------------------------
(* What a step leaves alone. *)

LEMMA Untouched ==
  ASSUME NEW x
  PROVE  /\ UNCHANGED fsVars => SameFile(x)
         /\ QueueStays => SameEvents(x)
         /\ LineStays => SameLine(x)
         /\ UNCHANGED running => SameRuns(x)
         /\ UNCHANGED db => SameRows(x)
         /\ UNCHANGED remote => SameThere(x)
         /\ UNCHANGED expected => SameAwait(x)
<1>1. UNCHANGED fsVars => SameFile(x)
  BY DEF SameFile, fsVars
<1>2. QueueStays => SameEvents(x)
  BY DEF SameEvents, EventsOn, QueueStays
<1>3. LineStays => SameLine(x)
  BY DEF SameLine, LineOn, LineStays
<1>4. UNCHANGED running => SameRuns(x)
  BY DEF SameRuns, RunsOn
<1>5. UNCHANGED db => SameRows(x)
  BY DEF SameRows, Rows, Stat, Linked, LinkId, Link
<1>6. UNCHANGED remote => SameThere(x)
  BY DEF SameThere, There, HashAt
<1>7. UNCHANGED expected => SameAwait(x)
  BY DEF SameAwait, Awaits
<1> QED
  BY <1>1, <1>2, <1>3, <1>4, <1>5, <1>6, <1>7

LEMMA OffQueue ==
  ASSUME NEW x, NEW e, ~On(e, x), QueueLoses(e)
  PROVE  SameEvents(x)
BY DEF SameEvents, EventsOn, QueueLoses

LEMMA OffNotes ==
  ASSUME NEW x, NEW noted, \A v \in Range(noted) : ~On(v, x), QueueGains(noted)
  PROVE  SameEvents(x)
<1>1. \A v, w : Before(noted, v, w) => v \in Range(noted) /\ w \in Range(noted)
  BY BeforeIn
<1> QED
  BY <1>1 DEF SameEvents, EventsOn, QueueGains

LEMMA OffLine ==
  ASSUME NEW x, NEW c, ~On(c, x), LineGains(c) \/ LineTakes(c) \/ LineLoses(c)
  PROVE  SameLine(x)
<1>1. LineOn(x)' = LineOn(x)
  BY DEF LineOn, LineGains, LineTakes, LineLoses
<1>2. \A v, w : On(v, x) /\ On(w, x) /\ Sooner(v, w)' => Sooner(v, w)
  BY DEF LineGains, LineTakes, LineLoses
<1> QED
  BY <1>1, <1>2 DEF SameLine

LEMMA OffRuns ==
  ASSUME NEW x, NEW gone, NEW come, \A v \in gone \cup come : ~On(v, x),
         running' = (running \ gone) \cup come
  PROVE  SameRuns(x)
BY DEF SameRuns, RunsOn

(* What it makes of what is at work on a path. *)
LEMMA Dequeued ==
  ASSUME NEW p, NEW e, QueuePops(e)
  PROVE  /\ EventsOn(p)' \subseteq EventsOn(p) /\ EventsOn(p) \subseteq EventsOn(p)' \cup {e}
         /\ \A v, w : Earlier(v, w)' => Earlier(v, w)
         /\ \A w \in EventsOn(p)' : Earlier(e, w)
         /\ ~Earlier(e, e) => e \notin EventsOn(p)'
         /\ On(e, p) => e \in EventsOn(p)
BY DEF QueuePops, QueueLoses, EventsOn

LEMMA Lined ==
  ASSUME NEW p, NEW c, On(c, p), LineGains(c)
  PROVE  /\ LineOn(p)' = LineOn(p) \cup {c}
         /\ \A v, w : Sooner(v, w)' => Sooner(v, w) \/ (v \in Pending /\ w = c)
BY DEF LineOn, LineGains

LEMMA LinedUp ==
  ASSUME NEW p, NEW c, On(c, p), LineTakes(c)
  PROVE  /\ LineOn(p)' = LineOn(p) \cup {c}
         /\ \A v, w : Sooner(v, w)' => \/ Sooner(v, w) \/ (v \in Pending /\ w = c)
                                       \/ (v = c /\ w \in Pending)
BY DEF LineOn, LineTakes

LEMMA Unlined ==
  ASSUME NEW p, NEW c, On(c, p), LineLoses(c)
  PROVE  /\ LineOn(p)' \subseteq LineOn(p) /\ LineOn(p) = LineOn(p)' \cup {c}
         /\ \A v, w : Sooner(v, w)' => Sooner(v, w)
         /\ \A w \in LineOn(p)' : w.path = c.path => Sooner(c, w)
         /\ ~Sooner(c, c) => c \notin LineOn(p)'
BY DEF LineOn, LineLoses

LEMMA SoonerIn == ASSUME TypeInv, NEW v, NEW w, Sooner(v, w) PROVE v \in Pending /\ w \in Pending
BY LineIs, BeforeIn DEF Pending

LEMMA EarlierIn == ASSUME TypeInv, NEW v, NEW w, Earlier(v, w) PROVE v \in Queued /\ w \in Queued
<1>1. events \in Seq(Event) /\ notices \in Seq(Event)
  BY DEF TypeInv, EventsTyped
<1> QED
  BY <1>1, EventOrder, BeforeIn DEF Earlier, Queued

-----------------------------------------------------------------------------
(* What a step makes of the rows. *)

LEMMA RowsKnown ==
  ASSUME TypeInv
  PROVE  /\ \A p, r : r \in Rows(p) <=> r \in DOMAIN db.files /\ PathOf(r) = p
         /\ \A r \in DOMAIN db.files : PathOf(r) \in Path /\ r \in Rows(PathOf(r))
         /\ \A p, n : n \in There(p) <=> n \in DOMAIN remote /\ remote[n].path = p
BY DEF Rows, RowsOf, PathOf, There, TypeInv, DbTyped, Rowed

LEMMA RowAdded ==
  ASSUME TypeInv, NEW p \in Path, NEW stat \in Stamp, db' = WithFile(db, p, stat),
         NEW n, n = NewId(db)
  PROVE  /\ n \notin DOMAIN db.files /\ DOMAIN db'.files = DOMAIN db.files \cup {n}
         /\ Rows(p)' = Rows(p) \cup {n} /\ (\A x : x # p => Rows(x)' = Rows(x))
         /\ PathOf(n)' = p /\ Stat(n)' = stat /\ ~Linked(n)'
         /\ \A r \in DOMAIN db.files : Stat(r)' = Stat(r) /\ PathOf(r)' = PathOf(r)
         /\ \A r : (Linked(r)' <=> Linked(r)) /\ LinkId(r)' = LinkId(r)
<1>1. /\ db'.links = db.links /\ n \notin DOMAIN db.files /\ \A key \in DOMAIN db.links : key[1] # n
      /\ DOMAIN db'.files = DOMAIN db.files \cup {n}
      /\ db'.files[n].path = p /\ db'.files[n].stat = stat
      /\ \A r \in DOMAIN db.files : db'.files[r] = db.files[r]
  BY FileAdded DEF TypeInv, DbTyped
<1>2. /\ Rows(p)' = Rows(p) \cup {n} /\ (\A x : x # p => Rows(x)' = Rows(x))
  BY <1>1 DEF Rows, RowsOf
<1>3. \A r : (Linked(r)' <=> Linked(r)) /\ LinkId(r)' = LinkId(r)
  BY <1>1 DEF Linked, LinkId, Link
<1>4. ~Linked(n)
  <2>1. <<n, Cloud>>[1] = n
    OBVIOUS
  <2> QED
    BY <1>1, <2>1 DEF Linked
<1>5. ~Linked(n)'
  BY <1>3, <1>4
<1> QED
  BY <1>1, <1>2, <1>3, <1>5 DEF PathOf, Stat

LEMMA RowUpdated ==
  ASSUME TypeInv, NEW id, NEW stat \in Stamp, db' = WithFileUpdated(db, id, stat)
  PROVE  /\ DOMAIN db'.files = DOMAIN db.files /\ (\A x : Rows(x)' = Rows(x))
         /\ \A r \in DOMAIN db.files :
              PathOf(r)' = PathOf(r) /\ Stat(r)' = IF r = id THEN stat ELSE Stat(r)
         /\ \A r : (Linked(r)' <=> Linked(r)) /\ LinkId(r)' = LinkId(r)
<1>1. /\ db'.links = db.links
      /\ DOMAIN db'.files = DOMAIN db.files
      /\ \A r \in DOMAIN db.files :
           /\ db'.files[r].path = db.files[r].path
           /\ db'.files[r].stat = IF r = id THEN stat ELSE db.files[r].stat
  BY FileUpdated DEF TypeInv, DbTyped
<1>2. \A x : Rows(x)' = Rows(x)
  BY <1>1 DEF Rows, RowsOf
<1>3. \A r : (Linked(r)' <=> Linked(r)) /\ LinkId(r)' = LinkId(r)
  BY <1>1 DEF Linked, LinkId, Link
<1> QED
  BY <1>1, <1>2, <1>3 DEF PathOf, Stat

LEMMA RowMoved ==
  ASSUME TypeInv, NEW id, NEW p \in Path, db' = WithFileMoved(db, id, p)
  PROVE  /\ DOMAIN db'.files = DOMAIN db.files
         /\ \A x : x # p => Rows(x)' = Rows(x) \ {id}
         /\ Rows(p)' = Rows(p) \cup ({id} \cap DOMAIN db.files)
         /\ \A r \in DOMAIN db.files :
              Stat(r)' = Stat(r) /\ PathOf(r)' = IF r = id THEN p ELSE PathOf(r)
         /\ \A r : (Linked(r)' <=> Linked(r)) /\ LinkId(r)' = LinkId(r)
<1>1. /\ db'.links = db.links
      /\ DOMAIN db'.files = DOMAIN db.files
      /\ \A r \in DOMAIN db.files :
           /\ db'.files[r].stat = db.files[r].stat
           /\ db'.files[r].path = IF r = id THEN p ELSE db.files[r].path
  BY FileMoved DEF TypeInv, DbTyped
<1>2. \A x : x # p => Rows(x)' = Rows(x) \ {id}
  BY <1>1 DEF Rows, RowsOf
<1>3. Rows(p)' = Rows(p) \cup ({id} \cap DOMAIN db.files)
  BY <1>1 DEF Rows, RowsOf
<1>4. \A r : (Linked(r)' <=> Linked(r)) /\ LinkId(r)' = LinkId(r)
  BY <1>1 DEF Linked, LinkId, Link
<1> QED
  BY <1>1, <1>2, <1>3, <1>4 DEF PathOf, Stat

LEMMA RowRemoved ==
  ASSUME TypeInv, NEW id, db' = WithoutFile(db, id)
  PROVE  /\ DOMAIN db'.files = DOMAIN db.files \ {id} /\ (\A x : Rows(x)' = Rows(x) \ {id})
         /\ \A r \in DOMAIN db'.files : Stat(r)' = Stat(r) /\ PathOf(r)' = PathOf(r)
         /\ \A r : Linked(r)' => Linked(r) /\ LinkId(r)' = LinkId(r)
         /\ \A r : r # id => (Linked(r)' <=> Linked(r))
<1>1. /\ DOMAIN db'.files = DOMAIN db.files \ {id}
      /\ \A r \in DOMAIN db'.files : db'.files[r] = db.files[r]
      /\ DOMAIN db'.links = {key \in DOMAIN db.links : key[1] # id}
      /\ \A key \in DOMAIN db'.links : db'.links[key] = db.links[key]
  BY FileRemoved DEF TypeInv, DbTyped
<1>2. \A x : Rows(x)' = Rows(x) \ {id}
  BY <1>1 DEF Rows, RowsOf
<1>3. \A r : Linked(r)' => Linked(r) /\ LinkId(r)' = LinkId(r)
  BY <1>1 DEF Linked, LinkId, Link
<1>4. ASSUME NEW r, r # id PROVE Linked(r)' <=> Linked(r)
  <2>1. <<r, Cloud>>[1] = r
    OBVIOUS
  <2> QED
    BY <1>1, <1>4, <2>1 DEF Linked
<1> QED
  BY <1>1, <1>2, <1>3, <1>4 DEF PathOf, Stat

LEMMA LinkAdded ==
  ASSUME TypeInv, NEW id \in DOMAIN db.files, NEW n \in Nat,
         db' = WithLink(db, id, Cloud, [id |-> n])
  PROVE  /\ DOMAIN db'.files = DOMAIN db.files /\ (\A x : Rows(x)' = Rows(x))
         /\ \A r \in DOMAIN db.files : Stat(r)' = Stat(r) /\ PathOf(r)' = PathOf(r)
         /\ \A r : Linked(r) => Linked(r)' /\ LinkId(r)' = LinkId(r)
         /\ \A r : Linked(r)' => Linked(r) \/ r = id
         /\ ~Linked(id) => LinkId(id)' = n
         /\ Linked(id)'
<1>1. /\ db'.files = db.files
      /\ DOMAIN db'.links = DOMAIN db.links \cup {Key(id)}
      /\ \A key \in DOMAIN db.links : db'.links[key] = db.links[key]
      /\ Key(id) \notin DOMAIN db.links => db'.links[Key(id)].id = n
  BY LinkMade DEF TypeInv, DbTyped
<1>2. /\ \A x : Rows(x)' = Rows(x)
      /\ \A r \in DOMAIN db.files : Stat(r)' = Stat(r) /\ PathOf(r)' = PathOf(r)
  BY <1>1 DEF Rows, RowsOf, PathOf, Stat
<1>3. \A r : Linked(r) => Linked(r)' /\ LinkId(r)' = LinkId(r)
  BY <1>1 DEF Linked, LinkId, Link
<1>4. ASSUME NEW r, Linked(r)' PROVE Linked(r) \/ r = id
  <2>1. <<r, Cloud>> \in DOMAIN db.links \/ <<r, Cloud>> = Key(id)
    BY <1>1, <1>4 DEF Linked
  <2> QED
    BY <2>1 DEF Linked, Key
<1>5. (~Linked(id) => LinkId(id)' = n) /\ Linked(id)'
  BY <1>1 DEF Linked, LinkId, Link, Key
<1> QED
  BY <1>1, <1>2, <1>3, <1>4, <1>5

(* The row and the link that Record() makes of a new file in the cloud. *)
LEMMA RowLinked ==
  ASSUME TypeInv, NEW p \in Path, NEW stat \in Stamp, NEW m \in Nat, NEW n, n = NewId(db),
         db' = WithLink(WithFile(db, p, stat), n, Cloud, [id |-> m])
  PROVE  /\ n \notin DOMAIN db.files /\ DOMAIN db'.files = DOMAIN db.files \cup {n}
         /\ Rows(p)' = Rows(p) \cup {n} /\ (\A x : x # p => Rows(x)' = Rows(x))
         /\ PathOf(n)' = p /\ Stat(n)' = stat /\ Linked(n)' /\ LinkId(n)' = m
         /\ \A r \in DOMAIN db.files : Stat(r)' = Stat(r) /\ PathOf(r)' = PathOf(r)
         /\ \A r : r # n => (Linked(r)' <=> Linked(r)) /\ (Linked(r) => LinkId(r)' = LinkId(r))
<1> DEFINE d == WithFile(db, p, stat)
<1>1. /\ Rowed(d) /\ d.links = db.links /\ n \notin DOMAIN db.files
      /\ \A key \in DOMAIN db.links : key[1] # n
      /\ DOMAIN d.files = DOMAIN db.files \cup {n}
      /\ d.files[n].path = p /\ d.files[n].stat = stat
      /\ \A r \in DOMAIN db.files : d.files[r] = db.files[r]
  BY FileAdded DEF TypeInv, DbTyped
<1>2. db' = WithLink(d, n, Cloud, [id |-> m])
  OBVIOUS
<1> HIDE DEF d
<1>3. /\ db'.files = d.files
      /\ DOMAIN db'.links = DOMAIN d.links \cup {Key(n)}
      /\ \A key \in DOMAIN d.links : db'.links[key] = d.links[key]
      /\ Key(n) \notin DOMAIN d.links => db'.links[Key(n)].id = m
  <2>1. n \in DOMAIN d.files /\ Rowed(d) /\ m \in Nat
    BY <1>1
  <2>2. LET e == WithLink(d, n, Cloud, [id |-> m]) IN
        /\ e.files = d.files
        /\ DOMAIN e.links = DOMAIN d.links \cup {Key(n)}
        /\ \A key \in DOMAIN d.links : e.links[key] = d.links[key]
        /\ Key(n) \notin DOMAIN d.links => e.links[Key(n)].id = m
    BY <2>1, LinkMade
  <2> QED
    BY <1>2, <2>2
<1>4. /\ Rows(p)' = Rows(p) \cup {n} /\ (\A x : x # p => Rows(x)' = Rows(x))
  BY <1>1, <1>3 DEF Rows, RowsOf
<1>5. Key(n) \notin DOMAIN d.links
  <2>1. Key(n)[1] = n
    BY DEF Key
  <2> QED
    BY <1>1, <2>1
<1>6. Linked(n)' /\ LinkId(n)' = m
  BY <1>3, <1>5 DEF Linked, LinkId, Link, Key
<1>7. ASSUME NEW r, r # n
      PROVE  (Linked(r)' <=> Linked(r)) /\ (Linked(r) => LinkId(r)' = LinkId(r))
  <2>1. Key(r) # Key(n)
    BY <1>7 DEF Key
  <2> QED
    BY <1>1, <1>3, <2>1 DEF Linked, LinkId, Link, Key
<1> QED
  BY <1>1, <1>3, <1>4, <1>6, <1>7 DEF PathOf, Stat

-----------------------------------------------------------------------------
(* What the polling thread makes of an event.                               *)

Handles(e) == Next1(e) /\ Looks

LEMMA Watching ==
  ASSUME UNCHANGED <<fsVars, running, db, remote>>, NEW x
  PROVE  /\ disk' = disk /\ beside' = beside
         /\ (Exists(x)' <=> Exists(x)) /\ StatOf(x)' = StatOf(x) /\ RunsOn(x)' = RunsOn(x)
         /\ Rows(x)' = Rows(x) /\ There(x)' = There(x)
         /\ \A r : Stat(r)' = Stat(r) /\ (Linked(r)' <=> Linked(r)) /\ LinkId(r)' = LinkId(r)
         /\ \A n : HashAt(n)' = HashAt(n)
BY DEF fsVars, Exists, StatOf, RunsOn, Rows, There, Stat, Linked, LinkId, Link, HashAt

LEMMA Handling ==
  ASSUME TypeInv, NEW e, Handles(e)
  PROVE  /\ UNCHANGED <<fsVars, running, db, remote>> /\ changes' = changes /\ fate' = fate
         /\ QueuePops(e) /\ e \in Queued /\ e \in Event /\ ProperEvent(e) /\ Up /\ seen = <<>>
         /\ \A p : On(e, p) => e \in EventsOn(p)
<1>1. UNCHANGED <<fsVars, running, db, remote>> /\ changes' = changes /\ fate' = fate
      /\ notices' = notices /\ Next1(e)
  BY DEF Handles, Looks
<1>2. QueuePops(e) /\ e \in Event /\ ProperEvent(e) /\ Up
  BY <1>1, Popped, Polled
<1>3. e \in Queued
  BY <1>2 DEF QueuePops, QueueLoses
<1> QED
  BY <1>1, <1>2, <1>3 DEF EventsOn, Next1

(* The other paths. *)
LEMMA HandlingOff ==
  ASSUME TypeInv, NEW e, Handles(e), NEW x \in Path, ~On(e, x),
         LineStays \/ \E c : LineGains(c) /\ ~On(c, x),
         SameAwait(x)
  PROVE  Same(x)
<1>1. SameFile(x) /\ SameRuns(x) /\ SameRows(x) /\ SameThere(x)
  BY Handling, Untouched
<1>2. SameEvents(x)
  BY Handling, OffQueue DEF QueuePops
<1>3. SameLine(x)
  BY Untouched, OffLine
<1> QED
  BY <1>1, <1>2, <1>3 DEF Same

(* The rows with a file's inode are its own. *)
LEMMA InodeRows ==
  ASSUME TypeInv, Stories, Apart, NEW p \in Path, Clean(p), Exists(p),
         NEW r \in RowsWith(disk[p].inode)
  PROVE  r \in DOMAIN db.files /\ PathOf(r) \in Path /\ Near(PathOf(r), p)
<1>1. r \in DOMAIN db.files /\ Stat(r).inode = disk[p].inode
  BY DEF RowsWith, Stat
<1> QED
  BY <1>1, RowsKnown DEF Apart, OwnFile

LEMMA AloneNear ==
  ASSUME TypeInv, NEW p \in Path, Alone(p), NEW x \in Path, Near(x, p)
  PROVE  x = p
<1> SUFFICES ASSUME x # p PROVE FALSE
  OBVIOUS
<1>1. PICK w \in Work : On(w, x) /\ On(w, p)
  BY DEF Near
<1>2. w \in WorkHere(p)
  BY <1>1, WorkIs
<1> QED
  BY <1>1, <1>2, AloneWork

LEMMA RowForOwn ==
  ASSUME TypeInv, Stories, Apart, NEW p \in Path, Clean(p), Exists(p), Alone(p)
  PROVE  /\ Rows(p) = {} => RowFor(p) = 0
         /\ \A r : Rows(p) = {r} => RowFor(p) = r
<1>1. RowsWith(disk[p].inode) \subseteq Rows(p)
  <2>1. ASSUME NEW r \in RowsWith(disk[p].inode) PROVE r \in Rows(p)
    BY InodeRows, AloneNear, RowsKnown
  <2> QED
    BY <2>1
<1> QED
  BY <1>1, RowFound DEF Rows

(* A new file. *)
LEMMA CreatedStory ==
  ASSUME TypeInv, TypeInv', NEW p \in Path, Creating(p), NEW e \in Creations(p), Handles(e),
         Created(p, e)
  PROVE  Creating(p)' /\ \E c : LineGains(c) /\ c.path = p /\ c.to = NoTo /\ UNCHANGED expected
<1> PICK c : c = ChangeOf("New", 0, p, NoTo, e.by)
  OBVIOUS
<1>1. e.by = "user" /\ On(e, p)
  BY NoticesOn DEF Creations, Notice
<1>2. ~Expects(expected, p, "New")
  BY DEF Creating, Awaits, Expects
<1>3. Emits(c)
  BY <1>2 DEF Created
<1>4. c.type = "New" /\ c.by = "user" /\ c.path = p /\ c.to = NoTo /\ On(c, p)
  BY <1>1 DEF ChangeOf, On
<1>5. c \in Change
  <2>1. 0 <= db.lastId /\ NoTo \notin Path
    BY Ids DEF TypeInv, DbTyped, Rowed, Tables
  <2>2. ProperNew(c)
    BY <1>1, <2>1, ChangeKinds, ChangeTyped
  <2> QED
    BY <2>2 DEF ProperNew
<1>6. LineGains(c) /\ UNCHANGED expected
  BY <1>3, <1>5, Handling, Emitted DEF Emits
<1>7. (Exists(p) /\ Nowhere(p) /\ RunsOn(p) = {} /\ ~Awaits(p))'
  BY <1>6, Handling, Watching DEF Creating, Nowhere, Awaits
<1>8. CreationSeen(p)
  <2>1. e \in EventsOn(p)
    BY <1>1, Handling
  <2> QED
    BY <2>1 DEF Creating, CreationInLine
<1>9. /\ EventsOn(p)' \subseteq EventsOn(p) /\ EventsOn(p)' \cap Creations(p) = {}
  <2>1. EventsOn(p)' \subseteq EventsOn(p) /\ \A w \in EventsOn(p)' : Earlier(e, w)
    BY Handling, Dequeued
  <2> QED
    BY <1>8, <2>1 DEF CreationSeen
<1>10. LineOn(p)' = {c} /\ ~Sooner(c, c)'
  <2>1. /\ LineOn(p)' = LineOn(p) \cup {c}
        /\ \A v, w : Sooner(v, w)' => Sooner(v, w) \/ (v \in Pending /\ w = c)
    BY <1>4, <1>6, Lined
  <2>2. c \notin Pending
    BY <1>4, <1>8 DEF CreationSeen, LineOn
  <2> QED
    BY <1>8, <2>1, <2>2, SoonerIn DEF CreationSeen
<1>11. CreationInLine(c, p)'
  BY <1>4, <1>9, <1>10 DEF CreationInLine
<1>12. Creating(p)'
  BY <1>7, <1>9, <1>10, <1>11 DEF Creating
<1> QED
  BY <1>4, <1>6, <1>12

(* An edit before the creation has reached the database. *)
LEMMA EditIgnored ==
  ASSUME TypeInv, Stories, Apart, NEW p \in Path, Clean(p), Creating(p), NEW e \in Edits(p),
         Handles(e), Updated(p)
  PROVE  Creating(p)' /\ LineStays /\ UNCHANGED expected
<1>1. RowFor(p) = 0
  BY RowForOwn DEF Creating, Nowhere, Alone
<1>2. Ignored
  BY <1>1 DEF Updated
<1>3. LineStays /\ UNCHANGED expected
  BY <1>2, Handling, LineUntouched DEF Ignored
<1>4. (Exists(p) /\ Nowhere(p) /\ RunsOn(p) = {} /\ ~Awaits(p))'
  BY <1>3, Handling, Watching DEF Creating, Nowhere, Awaits
<1>5. /\ EventsOn(p)' \subseteq EventsOn(p) /\ EventsOn(p) \subseteq EventsOn(p)' \cup {e}
      /\ \A v, w : Earlier(v, w)' => Earlier(v, w)
  BY Handling, Dequeued
<1>6. LineOn(p)' = LineOn(p) /\ \A v, w : Sooner(v, w)' <=> Sooner(v, w)
  BY <1>3 DEF LineStays, LineOn
<1>7. e \notin Creations(p)
  <2>1. \A v \in Creations(p) : v.type # "modify" /\ (v.type = "rename" => v.path # Tmp)
    BY Ids DEF Creations, Notice
  <2>2. \A v \in Edits(p) : v.type = "modify" \/ (v.type = "rename" /\ v.path = Tmp)
    BY DEF Edits, Notice
  <2> QED
    BY <2>1, <2>2
<1>8. CreationSeen(p) => CreationSeen(p)'
  BY <1>5, <1>6, <1>7 DEF CreationSeen
<1>9. \A c \in LineOn(p) : CreationInLine(c, p) => CreationInLine(c, p)'
  BY <1>5, <1>6 DEF CreationInLine
<1> QED
  BY <1>3, <1>4, <1>5, <1>6, <1>8, <1>9 DEF Creating

(* Kinds of events that do not look like each other. *)
LEMMA EventKinds ==
  ASSUME NEW p \in Path
  PROVE  /\ \A v \in Edits(p) \cup {Placed(p)} : v # Destroyed(p)
         /\ Placed(p) # Destroyed(p)
         /\ \A v \in Removals(p) : v # Destroyed(p)
         /\ \A v \in Creations(p) : v # Destroyed(p) /\ v \notin Edits(p)
BY Ids DEF Edits, Creations, Removals, Placed, Destroyed, Notice

(* The removal that the program awaits stays awaited, or its event is next.  *)
LEMMA AwaitStays ==
  ASSUME NEW p, NEW e, e # Destroyed(p), QueuePops(e), DestroyAwaited(p), UNCHANGED expected
  PROVE  DestroyAwaited(p)'
BY Dequeued DEF DestroyAwaited, Awaits

LEMMA AwaitEnds ==
  ASSUME NEW p, QueuePops(Destroyed(p)), DestroyAwaited(p), expected' = Without(expected, p)
  PROVE  DestroyAwaited(p)' /\ ~Awaits(p)'
<1>1. ~Awaits(p)'
  BY DEF Awaits, Without, Restrict
<1>2. Destroyed(p) \notin EventsOn(p)' /\ ~Earlier(Destroyed(p), Destroyed(p))'
  BY Dequeued DEF DestroyAwaited
<1> QED
  BY <1>1, <1>2 DEF DestroyAwaited

(* An edit of a file with a row. *)
LEMMA EditSeen ==
  ASSUME TypeInv, TypeInv', Stories, Apart, NEW p \in Path, Clean(p), NEW r \in Rows(p), Kept(p, r),
         NEW e \in Edits(p) \cup {Placed(p)}, Handles(e), Updated(p)
  PROVE  /\ Kept(p, r)' /\ UNCHANGED expected
         /\ \/ LineStays
            \/ \E c : LineGains(c) /\ c.path = p /\ c.to = NoTo /\ c.gid = r /\ c.cid = 0
                      /\ c.type = "Update" /\ c.stat = StatOf(p) /\ Exists(p)
<1>1. RowFor(p) = r /\ Rows(p) = {r} /\ Exists(p) /\ DestroyAwaited(p)
  BY RowForOwn DEF Kept, KeptRow, Alone
<1>2. r # 0
  BY <1>1, RowsKnown, RowIds
<1>3. /\ disk' = disk /\ (Exists(p)' <=> Exists(p)) /\ StatOf(p)' = StatOf(p)
      /\ Rows(p)' = Rows(p) /\ There(p)' = There(p) /\ RunsOn(p)' = RunsOn(p)
      /\ Stat(r)' = Stat(r) /\ (Linked(r)' <=> Linked(r)) /\ LinkId(r)' = LinkId(r)
      /\ \A n : HashAt(n)' = HashAt(n)
  BY Handling, Watching
<1>4. /\ EventsOn(p)' \subseteq EventsOn(p) /\ EventsOn(p) \subseteq EventsOn(p)' \cup {e}
  BY Handling, Dequeued
<1>5. UNCHANGED expected
  BY DEF Updated, Ignored
<1>6. KeptRow(p, r)'
  <2>1. e # Destroyed(p)
    BY EventKinds
  <2>2. DestroyAwaited(p)'
    BY <1>1, <1>5, <2>1, Handling, AwaitStays
  <2> QED
    BY <1>3, <1>4, <2>2 DEF Kept, KeptRow, Dated
<1>7. KeptRuns(p, r)'
  BY <1>3 DEF Kept, KeptRuns, KeptRun
<1>8. CASE Stat(r).hash = disk[p].hash
  <2>1. Ignored
    BY <1>1, <1>8 DEF Updated, Stat
  <2>2. LineStays
    BY <2>1, Handling, LineUntouched DEF Ignored
  <2>3. LineOn(p)' = LineOn(p) /\ \A v, w : Sooner(v, w)' <=> Sooner(v, w)
    BY <2>2 DEF LineStays, LineOn
  <2>4. KeptLine(p, r)'
    BY <1>3, <2>3 DEF Kept, KeptLine, Dated, Newest
  <2>5. KeptFlow(p, r)'
    BY <1>3, <1>8, <2>3 DEF Kept, KeptFlow, Newest
  <2> QED
    BY <1>5, <1>6, <1>7, <2>2, <2>4, <2>5 DEF Kept
<1>9. CASE Stat(r).hash # disk[p].hash
  <2> PICK c : c = ChangeOf("Update", r, p, NoTo, disk[p].by)
    OBVIOUS
  <2>1. seen' = <<c>> /\ UNCHANGED <<expected, out, status>>
    BY <1>1, <1>2, <1>9 DEF Updated, Stat
  <2>2. disk[p].by = "user"
    BY <1>9 DEF Kept, KeptFlow
  <2>3. /\ c.type = "Update" /\ c.by = "user" /\ c.path = p /\ c.to = NoTo /\ On(c, p)
        /\ c.gid = r /\ c.stat = StatOf(p) /\ Local(c) /\ c.cid = 0
    BY <2>2 DEF ChangeOf, On, Local
  <2>4. c \in Change
    <3>1. NoTo \notin Path /\ r \in DOMAIN db.files
      BY Ids, RowsKnown
    <3>2. ProperNew(c)
      BY <2>2, <3>1, RowIds, ChangeKinds, ChangeTyped
    <3> QED
      BY <3>2 DEF ProperNew
  <2>5. LineGains(c)
    BY <2>1, <2>4, Handling, Emitted
  <2>6. /\ LineOn(p)' = LineOn(p) \cup {c}
        /\ \A v, w : Sooner(v, w)' => Sooner(v, w) \/ (v \in Pending /\ w = c)
    BY <2>3, <2>5, Lined
  <2>7. Newest(c, p) /\ Dated(c.stat, p)
    <3>1. disk[p].hash \in Nat
      BY DEF TypeInv, DiskTyped, File
    <3> QED
      BY <2>3, <3>1 DEF Newest, Dated, StatOf
  <2>8. KeptLine(p, r)'
    <3>1. \A d \in LineOn(p)' : /\ d.type = "Update" /\ d.gid = r /\ d.path = p /\ Local(d)
                                /\ Dated(d.stat, p)
      BY <2>3, <2>6, <2>7 DEF Kept, KeptLine
    <3>2. \A v, w \in LineOn(p)' : Sooner(v, w)' /\ Newest(v, p) => Newest(w, p)
      <4> TAKE v, w \in LineOn(p)'
      <4>1. CASE w = c
        BY <2>7, <4>1
      <4>2. CASE w # c
        <5>1. Sooner(v, w)' => Sooner(v, w) /\ v \in LineOn(p) /\ w \in LineOn(p)
          <6>1. v \in LineOn(p)' /\ w \in LineOn(p)
            BY <2>6, <4>2
          <6>2. ASSUME Sooner(v, w) PROVE v \in LineOn(p)
            BY <2>3, <2>6, <6>1, <6>2, SoonerIn DEF LineOn
          <6> QED
            BY <2>6, <4>2, <6>1, <6>2
        <5> QED
          BY <5>1 DEF Kept, KeptLine
      <4> QED
        BY <4>1, <4>2
    <3>3. \A stat : Dated(stat, p)' <=> Dated(stat, p)
      BY <1>3 DEF Dated
    <3>4. \A v : Newest(v, p)' <=> Newest(v, p)
      BY <1>3 DEF Newest
    <3> QED
      BY <3>1, <3>2, <3>3, <3>4 DEF KeptLine
  <2>9. KeptFlow(p, r)'
    <3>1. Newest(c, p)' /\ c \in LineOn(p)'
      BY <1>3, <2>6, <2>7 DEF Newest
    <3> QED
      BY <1>3, <2>2, <3>1 DEF KeptFlow
  <2>10. Kept(p, r)'
    BY <1>6, <1>7, <2>8, <2>9 DEF Kept
  <2> QED
    BY <1>1, <1>5, <2>3, <2>5, <2>10
<1> QED
  BY <1>8, <1>9

(* The program's own file, before the row is written: a file that is new in  *)
(* the directory is ignored, an update may be taken for a user's.           *)
LEMMA PlacedNewIgnored ==
  ASSUME TypeInv, Stories, Apart, NEW p \in Path, Clean(p), NEW c \in WorkHere(p), CloudNew(c, p),
         NEW e, On(e, p), Handles(e), Updated(p)
  PROVE  CloudNew(c, p)' /\ c \in WorkHere(p)' /\ LineStays /\ UNCHANGED expected
<1>1. e \in EventsOn(p)
  BY Handling
<1>2. /\ c.stage = "placed" /\ Exists(p) /\ disk[p].hash = HashAt(c.cid)
      /\ RunsOn(p) = {c} /\ LineOn(p) = {} /\ EventsOn(p) \subseteq {Placed(p)}
  BY <1>1 DEF CloudNew, OnlyInLine, OnlyRunning
<1>3. RowFor(p) = 0
  BY <1>2, RowForOwn DEF CloudNew, Alone
<1>4. Ignored
  BY <1>3 DEF Updated
<1>5. LineStays /\ UNCHANGED expected
  BY <1>4, Handling, LineUntouched DEF Ignored
<1>6. /\ disk' = disk /\ (Exists(p)' <=> Exists(p)) /\ Rows(p)' = Rows(p) /\ There(p)' = There(p)
      /\ RunsOn(p)' = RunsOn(p) /\ \A n : HashAt(n)' = HashAt(n)
  BY Handling, Watching
<1>7. EventsOn(p)' \subseteq EventsOn(p) /\ LineOn(p)' = LineOn(p)
  BY <1>5, Handling, Dequeued DEF LineStays, LineOn
<1>8. HashAt(c.cid)' = HashAt(c.cid) /\ ~Awaits(p)'
  BY <1>5, <1>6 DEF HashAt, Awaits, CloudNew
<1>9. CloudNew(c, p)'
  BY <1>2, <1>6, <1>7, <1>8 DEF CloudNew
<1> QED
  BY <1>2, <1>5, <1>6, <1>9 DEF WorkHere

LEMMA PlacedUpdateSeen ==
  ASSUME TypeInv, TypeInv', Stories, Apart, NEW p \in Path, Clean(p), NEW c \in WorkHere(p),
         CloudUpdate(c, p), NEW e, On(e, p), e # Destroyed(p), Handles(e), Updated(p)
  PROVE  /\ CloudUpdate(c, p)' /\ c \in WorkHere(p)' /\ UNCHANGED expected
         /\ \/ LineStays
            \/ \E u : LineGains(u) /\ u.path = p /\ u.to = NoTo /\ u.gid = c.gid /\ u.cid = 0
                      /\ u.type = "Update" /\ u.stat = StatOf(p) /\ Exists(p)
<1>1. e \in EventsOn(p)
  BY Handling
<1>2. /\ c.stage = "placed" /\ disk[p].hash = HashAt(c.cid) /\ disk[p].by = "program"
      /\ RunsOn(p) = {c} /\ EventsOn(p) \subseteq {Destroyed(p), Placed(p)} /\ DestroyAwaited(p)
      /\ \A u \in LineOn(p) : /\ u.type = "Update" /\ u.gid = c.gid /\ u.path = p
                              /\ u.by = "program" /\ u.stat = StatOf(p)
  BY <1>1 DEF CloudUpdate, OnlyInLine, OnlyRunning
<1>3. RowFor(p) = c.gid /\ Rows(p) = {c.gid} /\ Exists(p)
  BY RowForOwn DEF CloudUpdate, Everywhere, Alone
<1>4. UNCHANGED expected
  BY DEF Updated, Ignored
<1>5. /\ disk' = disk /\ (Exists(p)' <=> Exists(p)) /\ Rows(p)' = Rows(p) /\ There(p)' = There(p)
      /\ RunsOn(p)' = RunsOn(p) /\ StatOf(p)' = StatOf(p) /\ (\A n : HashAt(n)' = HashAt(n))
      /\ \A r : (Linked(r)' <=> Linked(r)) /\ LinkId(r)' = LinkId(r)
  BY Handling, Watching
<1>6. HashAt(c.cid)' = HashAt(c.cid) /\ Everywhere(p, c.gid)' /\ LinkId(c.gid)' = LinkId(c.gid)
  <2>1. ASSUME NEW r, r = c.gid PROVE Everywhere(p, r)' /\ LinkId(r)' = LinkId(r)
    BY <1>5, <2>1 DEF Everywhere, CloudUpdate
  <2> QED
    BY <1>5, <2>1 DEF HashAt
<1>7. EventsOn(p)' \subseteq EventsOn(p) /\ DestroyAwaited(p)'
  BY <1>2, <1>4, Handling, Dequeued, AwaitStays
<1>8. ASSUME \A u \in LineOn(p)' : /\ u.type = "Update" /\ u.gid = c.gid /\ u.path = p
                                   /\ u.by = "program" /\ u.stat = StatOf(p)
      PROVE  CloudUpdate(c, p)' /\ c \in WorkHere(p)'
  <2>1. CloudUpdate(c, p)'
    BY <1>2, <1>5, <1>6, <1>7, <1>8 DEF CloudUpdate
  <2> QED
    BY <1>2, <1>5, <2>1 DEF WorkHere
<1>9. CASE Ignored
  <2>1. LineStays
    BY <1>9, Handling, LineUntouched DEF Ignored
  <2>2. LineOn(p)' = LineOn(p)
    BY <2>1 DEF LineStays, LineOn
  <2> QED
    BY <1>2, <1>4, <1>8, <2>1, <2>2
<1>10. CASE ~Ignored
  <2> PICK u : u = ChangeOf("Update", c.gid, p, NoTo, disk[p].by)
    OBVIOUS
  <2>1. seen' = <<u>> /\ UNCHANGED <<expected, out, status>>
    BY <1>3, <1>10 DEF Updated
  <2>2. /\ u.type = "Update" /\ u.by = "program" /\ u.path = p /\ u.to = NoTo /\ On(u, p)
        /\ u.gid = c.gid /\ u.stat = StatOf(p) /\ u.cid = 0
    BY <1>2 DEF ChangeOf, On
  <2>3. u \in Change
    <3>1. NoTo \notin Path /\ c.gid \in DOMAIN db.files
      BY <1>3, Ids, RowsKnown
    <3>2. ProperNew(u)
      BY <1>2, <3>1, RowIds, ChangeKinds, ChangeTyped
    <3> QED
      BY <3>2 DEF ProperNew
  <2>4. LineGains(u)
    BY <2>1, <2>3, Handling, Emitted
  <2>5. LineOn(p)' = LineOn(p) \cup {u}
    BY <2>2, <2>4, Lined
  <2> QED
    BY <1>2, <1>3, <1>4, <1>8, <2>2, <2>4, <2>5
<1> QED
  BY <1>9, <1>10

(* The program's own removal was expected. *)
LEMMA DestroyExpected ==
  ASSUME TypeInv, NEW p \in Path, DestroyAwaited(p), Handles(Destroyed(p)), Deleted(p, Destroyed(p))
  PROVE  LineStays /\ expected' = Without(expected, p) /\ DestroyAwaited(p)' /\ ~Awaits(p)'
<1>1. Destroyed(p) \in EventsOn(p) /\ QueuePops(Destroyed(p)) /\ changes' = changes
  BY Handling, NoticesOn
<1>2. Expects(expected, p, "Delete")
  BY <1>1 DEF DestroyAwaited, Awaits, Expects
<1>3. expected' = Without(expected, p) /\ UNCHANGED <<seen, out>>
  BY <1>2 DEF Deleted, Awaited, Checked
<1> QED
  BY <1>1, <1>3, AwaitEnds, LineUntouched

LEMMA DestroyStory ==
  ASSUME TypeInv, NEW p \in Path, Alone(p), Handles(Destroyed(p)), Deleted(p, Destroyed(p))
  PROVE  Alone(p)' /\ LineStays /\ expected' = Without(expected, p)
<1> DEFINE e == Destroyed(p)
<1>1. e \in EventsOn(p)
  BY Handling, NoticesOn
<1>2. e \notin Creations(p) \cup Edits(p) \cup Removals(p) /\ e # Placed(p)
  BY EventKinds
<1>3. /\ disk' = disk /\ (Exists(p)' <=> Exists(p)) /\ Rows(p)' = Rows(p) /\ There(p)' = There(p)
      /\ RunsOn(p)' = RunsOn(p) /\ StatOf(p)' = StatOf(p) /\ (\A n : HashAt(n)' = HashAt(n))
      /\ \A r : Stat(r)' = Stat(r) /\ (Linked(r)' <=> Linked(r)) /\ LinkId(r)' = LinkId(r)
  BY Handling, Watching
<1>4. EventsOn(p)' \subseteq EventsOn(p) /\ EventsOn(p) \subseteq EventsOn(p)' \cup {e}
  BY Handling, Dequeued
<1> HIDE DEF e
<1>5. ASSUME DestroyAwaited(p)
      PROVE  /\ LineStays /\ expected' = Without(expected, p) /\ DestroyAwaited(p)' /\ ~Awaits(p)'
             /\ LineOn(p)' = LineOn(p) /\ \A v, w : Sooner(v, w)' <=> Sooner(v, w)
  BY <1>5, DestroyExpected DEF LineStays, LineOn
<1>6. CASE Absent(p)
  <2>1. Absent(p)'
    BY <1>3, <1>4, <1>5, <1>6 DEF Absent, Nowhere
  <2> QED
    BY <1>5, <1>6, <2>1 DEF Alone, Absent
<1>7. ASSUME NEW r \in Rows(p), Kept(p, r) PROVE Alone(p)' /\ LineStays /\ expected' = Without(expected, p)
  <2>1. DestroyAwaited(p)
    BY <1>7 DEF Kept, KeptRow
  <2>2. KeptRow(p, r)'
    BY <1>3, <1>4, <1>5, <1>7, <2>1 DEF Kept, KeptRow, Dated
  <2>3. KeptLine(p, r)'
    BY <1>3, <1>5, <1>7, <2>1 DEF Kept, KeptLine, Dated, Newest
  <2>4. KeptRuns(p, r)'
    BY <1>3, <1>7 DEF Kept, KeptRuns, KeptRun
  <2>5. KeptFlow(p, r)'
    BY <1>2, <1>3, <1>4, <1>5, <1>7, <2>1 DEF Kept, KeptFlow, Newest
  <2> QED
    BY <1>3, <1>5, <2>1, <2>2, <2>3, <2>4, <2>5 DEF Alone, Kept
<1>8. ASSUME NEW c \in WorkHere(p), CloudUpdate(c, p)
      PROVE  Alone(p)' /\ LineStays /\ expected' = Without(expected, p)
  <2>1. c.stage = "placed" /\ RunsOn(p) = {c} /\ DestroyAwaited(p)
    BY <1>1, <1>8 DEF CloudUpdate, OnlyInLine, OnlyRunning
  <2>2. HashAt(c.cid)' = HashAt(c.cid) /\ Everywhere(p, c.gid)' /\ LinkId(c.gid)' = LinkId(c.gid)
    <3>1. ASSUME NEW r, r = c.gid PROVE Everywhere(p, r)' /\ LinkId(r)' = LinkId(r)
      BY <1>3, <1>8, <3>1 DEF Everywhere, CloudUpdate
    <3> QED
      BY <1>3, <3>1 DEF HashAt
  <2>3. CloudUpdate(c, p)'
    BY <1>1, <1>3, <1>4, <1>5, <1>8, <2>1, <2>2 DEF CloudUpdate, OnlyInLine, OnlyRunning
  <2> QED
    BY <1>3, <1>5, <2>1, <2>3 DEF Alone, WorkHere
<1>9. ASSUME NEW c \in WorkHere(p), CloudDelete(c, p)
      PROVE  Alone(p)' /\ LineStays /\ expected' = Without(expected, p)
  <2>1. c.stage = "placed" /\ RunsOn(p) = {c} /\ DestroyAwaited(p)
    BY <1>1, <1>9 DEF CloudDelete, OnlyInLine
  <2>2. CloudDelete(c, p)'
    BY <1>1, <1>3, <1>4, <1>5, <1>9, <2>1 DEF CloudDelete, OnlyInLine
  <2> QED
    BY <1>3, <1>5, <2>1, <2>2 DEF Alone, WorkHere
<1>10. ~Creating(p)
  BY <1>1, <1>2 DEF Creating
<1>11. \A w \in WorkHere(p) : ~Deleting(w, p)
  BY <1>1, <1>2 DEF Deleting, OnlyEvent, OnlyInLine, OnlyRunning
<1>12. \A w \in WorkHere(p) : ~CloudNew(w, p)
  BY <1>1, <1>2 DEF CloudNew, OnlyInLine, OnlyRunning
<1> QED
  BY <1>6, <1>7, <1>8, <1>9, <1>10, <1>11, <1>12 DEF Alone

LEMMA OneRow == ASSUME TypeInv, NEW p, NEW r, Rows(p) = {r} PROVE HasRow(db, p) /\ GlobalId(db, p) = r
BY FirstRow DEF Rows, HasRow, TypeInv, DbTyped

(* A file that a user deleted. *)
LEMMA DeletedStory ==
  ASSUME TypeInv, TypeInv', NEW p \in Path, NEW e \in Removals(p), Deleting(e, p), Handles(e),
         Deleted(p, e)
  PROVE  /\ Alone(p)' /\ UNCHANGED expected
         /\ \E c : LineGains(c) /\ c.path = p /\ c.to = NoTo /\ c.type = "Delete" /\ c.cid = 0
                   /\ c.gid \in Rows(p)
<1>1. e.by = "user" /\ On(e, p)
  BY NoticesOn DEF Removals, Notice
<1>2. e \in EventsOn(p)
  BY <1>1, Handling
<1>3. OnlyEvent(e, p) /\ ~Exists(p) /\ p \notin beside /\ ~Awaits(p)
  BY <1>2 DEF Deleting, OnlyInLine, OnlyRunning
<1>4. PICK r \in Rows(p) : Everywhere(p, r)
  BY <1>2 DEF Deleting, OnlyInLine, OnlyRunning
<1>5. HasRow(db, p) /\ GlobalId(db, p) = r
  BY <1>4, OneRow DEF Everywhere
<1>6. ~TmpExists(p)
  <2>1. \A c \in running : c.path # p
    BY <1>3 DEF OnlyEvent, RunsOn, On
  <2> QED
    BY <1>3, <2>1 DEF TmpExists
<1> PICK c : c = ChangeOf("Delete", r, p, NoTo, e.by)
  OBVIOUS
<1>7. Emits(c)
  BY <1>3, <1>5, <1>6 DEF Deleted, Expects, Awaits
<1>8. c.type = "Delete" /\ c.by = "user" /\ c.path = p /\ c.to = NoTo /\ On(c, p) /\ c.gid = r /\ c.cid = 0
  BY <1>1 DEF ChangeOf, On
<1>9. c \in Change
  <2>1. NoTo \notin Path /\ r \in DOMAIN db.files
    BY Ids, RowsKnown
  <2>2. ProperNew(c)
    BY <1>1, <2>1, RowIds, ChangeKinds, ChangeTyped
  <2> QED
    BY <2>2 DEF ProperNew
<1>10. LineGains(c) /\ UNCHANGED expected
  BY <1>7, <1>9, Handling, Emitted DEF Emits
<1>11. EventsOn(p)' = {}
  BY <1>3, Handling, Dequeued DEF OnlyEvent
<1>12. LineOn(p)' = {c} /\ ~Sooner(c, c)'
  <2>1. /\ LineOn(p)' = LineOn(p) \cup {c}
        /\ \A v, w : Sooner(v, w)' => Sooner(v, w) \/ (v \in Pending /\ w = c)
    BY <1>8, <1>10, Lined
  <2>2. c \notin Pending
    BY <1>3, <1>8 DEF OnlyEvent, LineOn
  <2> QED
    BY <1>3, <2>1, <2>2, SoonerIn DEF OnlyEvent
<1>13. (~Exists(p) /\ p \notin beside /\ ~Awaits(p) /\ RunsOn(p) = {} /\ Everywhere(p, r))'
  BY <1>3, <1>4, <1>10, Handling, Watching DEF OnlyEvent, Awaits, Everywhere
<1>14. Deleting(c, p)'
  BY <1>8, <1>11, <1>12, <1>13 DEF Deleting, OnlyInLine
<1>15. c \in WorkHere(p)'
  BY <1>12 DEF WorkHere
<1> QED
  BY <1>4, <1>8, <1>10, <1>14, <1>15 DEF Alone

(* No row, or no file and nothing in the cloud: there is nothing that ties    *)
(* a row of x to what is at y.                                             *)
Parted(x, y) == Rows(x) = {} \/ (~Exists(y) /\ There(y) = {})

(* The two paths of a move are told by the same story. *)
LEMMA BothTold ==
  ASSUME NEW p \in Path, NEW q \in Path, p # q, Clean(p), Clean(q), fate' = fate,
         NEW w, Moving(w, p, q)', w \in WorkHere(p)', w \in WorkHere(q)'
  PROVE  Told(p)' /\ Told(q)'
<1>1. Clean(p)' /\ Clean(q)'
  BY DEF Clean
<1>2. Pair(w, p, q)' /\ Pair(w, q, p)'
  BY <1>1 DEF Pair
<1> QED
  BY <1>2 DEF Told, InPair

LEMMA RenameOnly ==
  ASSUME NEW p \in Path, NEW q \in Path, p # q, NEW w, w.path = p, w.to = q
  PROVE  \A x \in {p, q} : On(w, x)
BY DEF On

(* A user's move. *)
LEMMA UserMoveSeen ==
  ASSUME TypeInv, TypeInv', Stories, Apart, NEW p \in Path, NEW q \in Path, p # q,
         Clean(p), Clean(q), NEW e, UserMoving(e, p, q), Handles(e), Moved(e)
  PROVE  /\ Told(p)' /\ Told(q)' /\ UNCHANGED expected
         /\ \E c : LineGains(c) /\ c.path = p /\ c.to = q /\ c.type = "Move" /\ c.cid = 0
<1>1. e.path = p /\ e.to = q /\ e.by = "user" /\ ~Exists(p) /\ Exists(q) /\ ~Awaits(p) /\ ~Awaits(q)
  BY DEF UserMoving
<1>2. e \in EventsOn(p) /\ e \in EventsOn(q) /\ e \in Queued
  BY <1>1, RenameOnly, Handling
<1>3. OnlyEvent(e, p) /\ OnlyEvent(e, q)
  BY <1>2 DEF UserMoving, OnlyInLine, OnlyRunning
<1>4. PICK r : /\ Agreed(r, q) /\ There(p) = {LinkId(r)} /\ There(q) = {}
               /\ Rows(p) = {r} /\ Rows(q) = {}
  BY <1>2, <1>3 DEF UserMoving, OnlyEvent, OnlyRunning
<1>5. RowsWith(disk[q].inode) = {r}
  <2>1. r \in DOMAIN db.files /\ Stat(r).inode = disk[q].inode
    BY <1>4, RowsKnown DEF Agreed, StatOf
  <2>2. r \in RowsWith(disk[q].inode)
    BY <2>1 DEF RowsWith, Stat
  <2>3. ASSUME NEW o \in RowsWith(disk[q].inode) PROVE o = r
    <3>1. o \in DOMAIN db.files /\ PathOf(o) \in Path /\ Near(PathOf(o), q)
      BY <1>1, InodeRows
    <3>2. PathOf(o) \in {q, p}
      <4>1. CASE PathOf(o) = q
        BY <4>1
      <4>2. CASE PathOf(o) # q
        <5>1. PICK v \in Work : On(v, PathOf(o)) /\ On(v, q)
          BY <3>1, <4>2 DEF Near
        <5>2. v \in WorkHere(q)
          BY <5>1, WorkIs
        <5>3. v = e
          BY <1>3, <5>2 DEF WorkHere, OnlyEvent
        <5> QED
          BY <1>1, <5>1, <5>3 DEF On
      <4> QED
        BY <4>1, <4>2
    <3>3. o \in Rows(PathOf(o))
      BY <3>1, RowsKnown
    <3> QED
      BY <1>4, <3>2, <3>3
  <2> QED
    BY <2>2, <2>3
<1>6. (CHOOSE gid \in RowsWith(disk[q].inode) : TRUE) = r
  BY <1>5
<1> PICK c : c = ChangeOf("Move", r, p, q, e.by)
  OBVIOUS
<1>7. Emits(c)
  BY <1>1, <1>5, <1>6 DEF Moved, Expects, Awaits
<1>8. c.type = "Move" /\ c.by = "user" /\ c.path = p /\ c.to = q /\ c.gid = r /\ c.cid = 0 /\ On(c, p) /\ On(c, q)
  BY <1>1 DEF ChangeOf, On
<1>9. c \in Change
  <2>1. r \in DOMAIN db.files
    BY <1>4, RowsKnown
  <2>2. ProperNew(c)
    BY <1>1, <2>1, RowIds, ChangeKinds, ChangeTyped
  <2> QED
    BY <2>2 DEF ProperNew
<1>10. LineGains(c) /\ UNCHANGED expected
  BY <1>7, <1>9, Handling, Emitted DEF Emits
<1>11. \A x \in {p, q} : OnlyInLine(c, x)'
  <2> TAKE x \in {p, q}
  <2>1. EventsOn(x)' = {}
    BY <1>3, Handling, Dequeued DEF OnlyEvent
  <2>2. RunsOn(x)' = {}
    BY <1>3, Handling, Watching DEF OnlyEvent
  <2>3. LineOn(x)' = {c} /\ ~Sooner(c, c)'
    <3>1. /\ LineOn(x)' = LineOn(x) \cup {c}
          /\ \A v, w : Sooner(v, w)' => Sooner(v, w) \/ (v \in Pending /\ w = c)
      BY <1>8, <1>10, Lined
    <3>2. c \notin Pending
      BY <1>3, <1>8 DEF OnlyEvent, LineOn
    <3> QED
      BY <1>3, <3>1, <3>2, SoonerIn DEF OnlyEvent
  <2> QED
    BY <2>1, <2>2, <2>3 DEF OnlyInLine
<1>12. /\ (~Exists(p) /\ Exists(q) /\ ~Awaits(p) /\ ~Awaits(q) /\ Agreed(r, q))'
       /\ (There(p) = {LinkId(r)} /\ There(q) = {} /\ Rows(p) = {r} /\ Rows(q) = {})'
  BY <1>1, <1>4, <1>10, Handling, Watching DEF Awaits, Agreed, HashAt
<1>13. UserMoving(c, p, q)'
  BY <1>8, <1>11, <1>12 DEF UserMoving
<1>14. c \in WorkHere(p)' /\ c \in WorkHere(q)'
  BY <1>11 DEF OnlyInLine, WorkHere
<1>15. Told(p)' /\ Told(q)'
  BY <1>13, <1>14, BothTold, Handling DEF Moving
<1> QED
  BY <1>8, <1>10, <1>15

(* The program's own move. *)
LEMMA MoveExpected ==
  ASSUME TypeInv, NEW e, Handles(e), e.path \in Path, Expects(expected, e.path, "Move"), Moved(e)
  PROVE  /\ LineStays /\ expected' = Without(expected, e.path) /\ ~Awaits(e.path)'
         /\ \A y : y # e.path => SameAwait(y)
<1>1. expected' = Without(expected, e.path) /\ UNCHANGED <<seen, out>>
  BY DEF Moved, Awaited, Checked
<1>2. LineStays
  BY <1>1, Handling, LineUntouched
<1> QED
  BY <1>1, <1>2 DEF SameAwait, Awaits, Without, Restrict

LEMMA OwnMoveSeen ==
  ASSUME TypeInv, Stories, NEW p \in Path, NEW q \in Path, p # q, Clean(p), Clean(q),
         NEW c, CloudMoving(c, p, q), NEW e, On(e, p), Handles(e), Moved(e), e.path = p, e.to = q
  PROVE  /\ Told(p)' /\ Told(q)' /\ LineStays /\ expected' = Without(expected, p)
         /\ c \in running' /\ On(c, p) /\ On(c, q)
<1>1. e \in EventsOn(p)
  BY Handling
<1>2. /\ c.stage = "placed" /\ ~Exists(p) /\ Exists(q) /\ Agreed(c.gid, q)
      /\ RunsOn(p) = {c} /\ RunsOn(q) = {c} /\ LineOn(p) = {} /\ LineOn(q) = {}
      /\ Expects(expected, p, "Move") /\ ~Earlier(Renamed(p, q), Renamed(p, q))
      /\ EventsOn(p) = {Renamed(p, q)} /\ EventsOn(q) = {Renamed(p, q)}
  BY <1>1 DEF CloudMoving, OnlyInLine
<1>3. e = Renamed(p, q)
  BY <1>1, <1>2
<1>4. LineStays /\ expected' = Without(expected, p) /\ ~Awaits(p)' /\ SameAwait(q)
  BY <1>2, MoveExpected
<1>5. EventsOn(p)' = {} /\ EventsOn(q)' = {}
  BY <1>2, <1>3, Handling, Dequeued
<1>6. LineOn(p)' = {} /\ LineOn(q)' = {} /\ RunsOn(p)' = {c} /\ RunsOn(q)' = {c}
  BY <1>2, <1>4, Handling, Watching DEF LineStays, LineOn
<1>7. ASSUME NEW r, r = c.gid
      PROVE  (Linked(r) /\ LinkId(r) = c.cid /\ Agreed(r, q) /\ Rows(p) = {r})'
  BY <1>2, <1>7, Handling, Watching DEF CloudMoving, Agreed, HashAt
<1>8. (Linked(c.gid) /\ LinkId(c.gid) = c.cid /\ Agreed(c.gid, q) /\ Rows(p) = {c.gid})'
  BY <1>7
<1>9. (~Exists(p) /\ Exists(q) /\ Rows(q) = {} /\ There(p) = {} /\ There(q) = {c.cid} /\ ~Awaits(q))'
  BY <1>2, <1>4, Handling, Watching DEF CloudMoving, SameAwait
<1>10. CloudMoving(c, p, q)'
  BY <1>2, <1>4, <1>5, <1>6, <1>8, <1>9 DEF CloudMoving
<1>11. c \in WorkHere(p)' /\ c \in WorkHere(q)'
  BY <1>6 DEF WorkHere
<1>12. Told(p)' /\ Told(q)'
  BY <1>10, <1>11, BothTold, Handling DEF Moving
<1>13. c \in running' /\ On(c, p) /\ On(c, q)
  BY <1>6 DEF RunsOn
<1> QED
  BY <1>4, <1>12, <1>13

(* A file that is everywhere, with nothing on its way. *)
LEMMA IdleKept ==
  ASSUME NEW p, NEW r,
         (/\ Exists(p) /\ Everywhere(p, r) /\ Agreed(r, p) /\ EventsOn(p) = {} /\ LineOn(p) = {}
          /\ RunsOn(p) = {} /\ ~Awaits(p) /\ ~Earlier(Destroyed(p), Destroyed(p))
          /\ disk[p].hash \in Nat)'
  PROVE  Kept(p, r)'
<1>1. (Stat(r).hash = disk[p].hash /\ Stat(r) = StatOf(p))'
  BY DEF Agreed, StatOf
<1>2. KeptRow(p, r)'
  BY <1>1 DEF KeptRow, Dated, DestroyAwaited, Everywhere
<1>3. KeptLine(p, r)' /\ KeptRuns(p, r)'
  BY DEF KeptLine, KeptRuns, Everywhere
<1>4. KeptFlow(p, r)'
  BY <1>1 DEF KeptFlow, Agreed
<1> QED
  BY <1>2, <1>3, <1>4 DEF Kept

LEMMA MovedSeen ==
  ASSUME TypeInv, TypeInv', NEW p \in Path, NEW q \in Path, p # q,
         NEW e, CloudMoved(e, p, q), Handles(e), Moved(e)
  PROVE  /\ Told(p)' /\ Told(q)' /\ LineStays /\ expected' = Without(expected, p)
         /\ (Parted(p, q) /\ Parted(q, p))'
<1>1. e = Renamed(p, q) /\ e.path = p /\ e.to = q
  BY DEF CloudMoved, Renamed, Notice
<1>2. LineStays /\ expected' = Without(expected, p) /\ ~Awaits(p)' /\ SameAwait(q)
  BY <1>1, MoveExpected DEF CloudMoved
<1>3. \A x \in {p, q} : EventsOn(x)' = {} /\ LineOn(x)' = {} /\ RunsOn(x)' = {}
  BY <1>2, Handling, Dequeued, Watching DEF CloudMoved, OnlyEvent, LineStays, LineOn
<1>4. \A x \in {p, q} : ~Earlier(Destroyed(x), Destroyed(x))'
  <2> TAKE x \in {p, q}
  <2>1. ASSUME Earlier(Destroyed(x), Destroyed(x)) PROVE FALSE
    <3>1. Destroyed(x) \in EventsOn(x)
      BY <2>1, EarlierIn, NoticesOn DEF EventsOn
    <3>2. Destroyed(x) = e
      BY <3>1 DEF CloudMoved, OnlyEvent
    <3> QED
      BY <1>1, <3>2, Ids DEF Destroyed, Notice
  <2> QED
    BY <2>1, Handling, Dequeued
<1>5. PICK r \in Rows(q) : Everywhere(q, r) /\ Agreed(r, q)
  BY DEF CloudMoved
<1>6. (~Exists(p) /\ Exists(q) /\ Nowhere(p) /\ Everywhere(q, r) /\ Agreed(r, q) /\ ~Awaits(q))'
  BY <1>2, <1>5, Handling, Watching DEF CloudMoved, Nowhere, Everywhere, Agreed, HashAt, SameAwait
<1>7. Absent(p)'
  BY <1>2, <1>3, <1>4, <1>6 DEF Absent, DestroyAwaited
<1>8. (disk[q].hash \in Nat)'
  BY DEF TypeInv, DiskTyped, File
<1>9. Kept(q, r)'
  <2>1. (/\ Exists(q) /\ Everywhere(q, r) /\ Agreed(r, q) /\ EventsOn(q) = {} /\ LineOn(q) = {}
         /\ RunsOn(q) = {} /\ ~Awaits(q) /\ ~Earlier(Destroyed(q), Destroyed(q))
         /\ disk[q].hash \in Nat)'
    BY <1>3, <1>4, <1>6, <1>8
  <2> QED
    BY <2>1, IdleKept
<1>10. (Parted(p, q) /\ Parted(q, p))'
  BY <1>6 DEF Parted, Nowhere
<1> QED
  BY <1>2, <1>6, <1>7, <1>9, <1>10 DEF Told, Alone, Everywhere

-----------------------------------------------------------------------------
(* Paths stay apart.                                                        *)

TiesKept == \A x, y \in Path : x # y /\ Clean(x) /\ Near(x, y) => Near(x, y)' \/ Parted(x, y)'

LEMMA WorkNext ==
  /\ Work' = Queued' \cup Pending' \cup running'
  /\ Changing' = Pending' \cup running'
  /\ Changing \subseteq Work /\ Changing' \subseteq Work'
BY DEF Work, Queued, Pending, Changing

LEMMA Removal ==
  ASSUME NEW w,
         \A v \in Work : v = w \/ v \in Work',
         \A x, y \in Path : x # y /\ Clean(x) /\ On(w, x) /\ On(w, y) =>
                              Near(x, y)' \/ Parted(x, y)'
  PROVE  TiesKept
<1> SUFFICES ASSUME NEW x \in Path, NEW y \in Path, x # y, Clean(x), Near(x, y)
             PROVE  Near(x, y)' \/ Parted(x, y)'
  BY DEF TiesKept
<1>1. PICK v \in Work : On(v, x) /\ On(v, y)
  BY DEF Near
<1>2. CASE v = w
  BY <1>1, <1>2
<1>3. CASE v \in Work'
  BY <1>1, <1>3 DEF Near
<1> QED
  BY <1>2, <1>3

LEMMA AlikeStays == ASSUME fate' = fate, NEW w, Alike(w) PROVE Alike(w)'
BY DEF Alike, Clean

LEMMA OwnRowStays ==
  ASSUME fate' = fate, NEW c, OwnRow(c), \A x \in Path : Clean(x) => Rows(x)' \subseteq Rows(x)
  PROVE  OwnRow(c)'
BY DEF OwnRow, Clean

LEMMA OwnCidStays ==
  ASSUME fate' = fate, NEW c, OwnCid(c), \A x \in Path : Clean(x) => There(x)' \subseteq There(x)
  PROVE  OwnCid(c)'
BY DEF OwnCid, Clean

LEMMA OwnStatStays ==
  ASSUME fate' = fate, disk' = disk, NEW c, OwnStat(c)
  PROVE  OwnStat(c)'
BY DEF OwnStat, Looked, Local, Clean, Exists, NoFile

LEMMA FileTied ==
  ASSUME TypeInv, Stories, Apart, TiesKept, fate' = fate, disk' = disk,
         NEW r \in DOMAIN db.files, r \in DOMAIN db'.files,
         PathOf(r)' = PathOf(r), Stat(r)' = Stat(r)
  PROVE  OwnFile(r)'
<1> PICK x : x = PathOf(r)
  OBVIOUS
<1>1. x \in Path /\ OwnFile(r)
  BY RowsKnown DEF Apart
<1>2. (Clean(x) => Stat(r).inode > 0) /\ (Clean(x)' <=> Clean(x)) /\ PathOf(r)' = x
  BY <1>1 DEF OwnFile, Clean
<1>3. ASSUME NEW y \in Path, Exists(y), Stat(r).inode = disk[y].inode, Clean(x) \/ Clean(y)
      PROVE  Near(x, y)'
  <2>1. Near(x, y) /\ Clean(x)
    BY <1>1, <1>3, NearSame DEF OwnFile
  <2>2. ~Parted(x, y)'
    BY <1>2, <1>3 DEF Parted, Rows, RowsOf, PathOf, Exists, NoFile
  <2> QED
    BY <1>1, <2>1, <2>2 DEF TiesKept, Near
<1>4. \A y \in Path : (Exists(y)' <=> Exists(y)) /\ (Clean(y)' <=> Clean(y))
  BY DEF Exists, NoFile, Clean
<1>5. \A y \in Path : Exists(y)' /\ Stat(r)'.inode = disk'[y].inode /\ (Clean(x)' \/ Clean(y)')
                       => Near(x, y)'
  BY <1>2, <1>3, <1>4
<1>6. (Clean(x) => Stat(r).inode > 0)'
  BY <1>2
<1> QED
  BY <1>2, <1>5, <1>6 DEF OwnFile

LEMMA LinkTied ==
  ASSUME TypeInv, Stories, Apart, TiesKept, fate' = fate,
         NEW r \in DOMAIN db.files, r \in DOMAIN db'.files, PathOf(r)' = PathOf(r),
         Linked(r)' => Linked(r) /\ LinkId(r)' = LinkId(r),
         \A y \in Path : Clean(y) => There(y)' \subseteq There(y)
  PROVE  OwnLink(r)'
<1> PICK x : x = PathOf(r)
  OBVIOUS
<1>1. x \in Path /\ OwnLink(r) /\ PathOf(r)' = x
  BY RowsKnown DEF Apart
<1> SUFFICES ASSUME NEW y \in Path, Clean(y), Linked(r)', LinkId(r)' \in There(y)' PROVE Near(x, y)'
  BY <1>1 DEF OwnLink, Clean
<1>2. Near(x, y)
  BY <1>1 DEF OwnLink
<1>3. Clean(x)
  BY <1>1, <1>2, NearSame
<1>4. ~Parted(x, y)'
  BY <1>1 DEF Parted, Rows, RowsOf, PathOf
<1> QED
  BY <1>1, <1>2, <1>3, <1>4 DEF TiesKept, Near

(* Nothing but what is at work changes. *)
LEMMA ApartKept ==
  ASSUME TypeInv, Stories, Apart, UNCHANGED <<disk, db, remote, fate>>, TiesKept,
         \A w \in Work' : w \in Work \/ Alike(w),
         \A c \in Changing' : c \in Changing \/ (OwnRow(c) /\ OwnCid(c) /\ OwnStat(c)),
         Down', AbortsOnlyOnRaces'
  PROVE  Apart'
<1>1. /\ \A x : Rows(x)' = Rows(x) /\ There(x)' = There(x)
      /\ \A r : PathOf(r)' = PathOf(r) /\ Stat(r)' = Stat(r)
      /\ \A r : (Linked(r)' <=> Linked(r)) /\ LinkId(r)' = LinkId(r)
  BY DEF Rows, There, PathOf, Stat, Linked, LinkId, Link
<1>2. \A w \in Work' : Alike(w)'
  BY AlikeStays DEF Apart
<1>3. \A c \in Changing' : OwnRow(c)' /\ OwnCid(c)' /\ OwnStat(c)'
  BY <1>1, OwnRowStays, OwnCidStays, OwnStatStays DEF Apart
<1>4. \A r \in DOMAIN db'.files : OwnFile(r)' /\ OwnLink(r)'
  BY <1>1, FileTied, LinkTied
<1>5. OneFile'
  BY DEF Apart, OneFile, Exists, NoFile
<1> QED
  BY <1>2, <1>3, <1>4, <1>5 DEF Apart

LEMMA UpStays == ASSUME Up, status' = status PROVE Down'
BY DEF Down, Up

LEMMA StatusStays ==
  ASSUME TypeInv, Apart, UNCHANGED <<status, fate>> PROVE AbortsOnlyOnRaces'
BY DEF Apart, AbortsOnlyOnRaces

(* The polling thread announces nothing of a file that is not at its path.   *)
News(c) == Alike(c) /\ OwnRow(c) /\ OwnCid(c) /\ OwnStat(c)
Reports == LineStays \/ \E c : LineGains(c) /\ News(c)

LEMMA HandledApart ==
  ASSUME TypeInv, Stories, Apart, NEW e, Handles(e), Reports, status' = status,
         \A x, y \in Path : x # y /\ Clean(x) /\ On(e, x) /\ On(e, y) => Near(x, y)' \/ Parted(x, y)'
  PROVE  Apart'
<1>1. /\ UNCHANGED <<disk, db, remote, fate, running>> /\ Queued = Queued' \cup {e} /\ Up
  BY Handling DEF Handles, Looks, fsVars, QueuePops, QueueLoses
<1>2. \/ Pending' = Pending
      \/ \E c : Pending' = Pending \cup {c} /\ News(c)
  BY DEF Reports, LineStays, LineGains
<1>3. \A w \in Work : w = e \/ w \in Work'
  BY <1>1, <1>2, WorkIs, WorkNext
<1>4. TiesKept
  BY <1>3, Removal
<1>5. \A w \in Work' : w \in Work \/ Alike(w)
  BY <1>1, <1>2, WorkIs, WorkNext DEF News
<1>6. \A c \in Changing' : c \in Changing \/ (OwnRow(c) /\ OwnCid(c) /\ OwnStat(c))
  BY <1>1, <1>2 DEF News, Changing
<1> QED
  BY <1>1, <1>4, <1>5, <1>6, ApartKept, UpStays, StatusStays

LEMMA NoCid == ASSUME TypeInv, NEW c, c.cid = 0 PROVE OwnCid(c)
<1>1. \A n \in DOMAIN remote : n # 0
  BY DEF TypeInv, CloudTyped, RestTyped
<1> QED
  BY <1>1, RowsKnown DEF OwnCid

(* A change of one path, with the row of that path or none. *)
LEMMA OwnNews ==
  ASSUME TypeInv, NEW c, c.cid = 0, c.to = NoTo,
         c.gid = 0 \/ c.gid \in Rows(c.path), ~Looked(c)
  PROVE  News(c)
<1>1. Alike(c)
  BY Ids DEF Alike
<1>2. OwnRow(c)
  <2>1. ASSUME NEW p \in Path, Clean(p), c.gid \in Rows(p) PROVE On(c, p)
    <3>1. c.gid # 0 /\ PathOf(c.gid) = p
      BY <2>1, RowsKnown, RowIds
    <3> QED
      BY <3>1, RowsKnown DEF On
  <2> QED
    BY <2>1 DEF OwnRow
<1> QED
  BY <1>1, <1>2, NoCid DEF News, OwnStat

LEMMA LookedNews ==
  ASSUME TypeInv, Stories, Apart, NEW p \in Path, Exists(p), NEW e \in Queued, On(e, p),
         \A y \in Path : On(e, y) => y = p,
         NEW c, c.cid = 0, c.to = NoTo, c.path = p, c.stat = StatOf(p), c.gid = RowFor(p), c.gid # 0
  PROVE  News(c)
<1>1. Alike(c)
  BY Ids DEF Alike
<1>2. OwnStat(c)
  <2>1. c.stat.inode = disk[p].inode /\ disk[p].inode > 0
    BY DEF StatOf, TypeInv, DiskTyped
  <2>2. \A y \in Path : Exists(y) /\ disk[p].inode = disk[y].inode => p = y
    BY DEF Apart, OneFile
  <2> QED
    BY <2>1, <2>2 DEF OwnStat
<1>3. ASSUME NEW x \in Path, Clean(x), c.gid \in Rows(x) PROVE x = p
  <2>1. CASE c.gid \in RowsWith(disk[p].inode)
    <3>1. ASSUME NEW r, r = c.gid PROVE Near(x, p)
      <4>1. r \in DOMAIN db.files /\ Stat(r).inode = disk[p].inode /\ PathOf(r) = x
        BY <1>3, <2>1, <3>1, RowsKnown DEF RowsWith, Stat
      <4> QED
        BY <1>3, <4>1 DEF Apart, OwnFile
    <3>2. Near(x, p) /\ Near(p, x) /\ Clean(p)
      BY <1>3, <3>1, NearSame, NearSymmetric
    <3>3. On(e, x)
      BY <3>2, NearWork, WorkIs
    <3> QED
      BY <3>3
  <2>2. CASE c.gid \in Rows(p)
    BY <1>3, <2>2, RowsKnown
  <2> QED
    BY <2>1, <2>2, RowFound DEF Rows
<1>4. OwnRow(c)
  BY <1>3 DEF OwnRow, On
<1> QED
  BY <1>1, <1>2, <1>4, NoCid DEF News

-----------------------------------------------------------------------------
(* The polling thread's steps. *)

(* Which events there are in which story. *)
LEMMA AloneEvent ==
  ASSUME NEW p \in Path, Alone(p), NEW e \in EventsOn(p)
  PROVE  \/ Creating(p) /\ e \in Creations(p) \cup Edits(p)
         \/ \E r \in Rows(p) : Kept(p, r) /\ e \in Edits(p) \cup {Destroyed(p), Placed(p)}
         \/ Absent(p) /\ e = Destroyed(p)
         \/ Deleting(e, p) /\ e \in Removals(p)
         \/ \E c \in WorkHere(p) : CloudNew(c, p) /\ e = Placed(p)
         \/ \E c \in WorkHere(p) : CloudUpdate(c, p) /\ e \in {Destroyed(p), Placed(p)}
         \/ \E c \in WorkHere(p) : CloudDelete(c, p) /\ e = Destroyed(p)
<1>1. CASE Absent(p)
  BY <1>1 DEF Absent
<1>2. CASE Creating(p)
  BY <1>2 DEF Creating
<1>3. ASSUME NEW r \in Rows(p), Kept(p, r)
      PROVE  Kept(p, r) /\ e \in Edits(p) \cup {Destroyed(p), Placed(p)}
  BY <1>3 DEF Kept, KeptRow
<1>4. ASSUME NEW w \in WorkHere(p), Deleting(w, p)
      PROVE  Deleting(e, p) /\ e \in Removals(p)
  <2>1. w \in Removals(p) /\ EventsOn(p) = {w}
    BY <1>4 DEF Deleting, OnlyEvent, OnlyInLine, OnlyRunning
  <2>2. e = w
    BY <2>1
  <2> QED
    BY <1>4, <2>1, <2>2
<1>5. ASSUME NEW w \in WorkHere(p), CloudNew(w, p) PROVE e = Placed(p)
  BY <1>5 DEF CloudNew, OnlyInLine, OnlyRunning
<1>6. ASSUME NEW w \in WorkHere(p), CloudUpdate(w, p) PROVE e \in {Destroyed(p), Placed(p)}
  BY <1>6 DEF CloudUpdate, OnlyInLine, OnlyRunning
<1>7. ASSUME NEW w \in WorkHere(p), CloudDelete(w, p) PROVE e = Destroyed(p)
  BY <1>7 DEF CloudDelete, OnlyInLine
<1> QED
  BY <1>1, <1>2, <1>3, <1>4, <1>5, <1>6, <1>7 DEF Alone

(* An event of one path belongs to a story of one path, and which event it is. *)
LEMMA EventAlone ==
  ASSUME TypeInv, NEW p \in Path, Told(p), NEW e \in EventsOn(p), e.path \notin Path \/ e.to \notin Path
  PROVE  Alone(p)
<1>1. ASSUME NEW w \in WorkHere(p), NEW q \in Path, Pair(w, p, q) PROVE FALSE
  <2>1. e \in WorkHere(p)
    BY DEF WorkHere
  <2>2. e.path \in Path /\ e.to \in Path
    BY <1>1, <2>1, MovingWork DEF Pair
  <2> QED
    BY <2>2
<1> QED
  BY <1>1 DEF Told, InPair

LEMMA Told1 ==
  ASSUME NEW p \in Path, NEW e, e.path = p \/ e.to = p
  PROVE  /\ e \in Creations(p) => e.type \in {"create", "rename"} /\ e.path = p /\ e.to = NoTo
         /\ e \in Edits(p) => \/ e.type = "modify" /\ e.to = NoTo
                              \/ e.type = "rename" /\ e.path = Tmp /\ e.to = p
         /\ e = Destroyed(p) => e.type = "destroy" /\ e.path = p /\ e.to = NoTo
         /\ e = Placed(p) => e.type = "rename" /\ e.path = Tmp /\ e.to = p
         /\ e \in Removals(p) => e.type \in {"destroy", "rename"} /\ e.path = p /\ e.to = NoTo
BY DEF Creations, Edits, Destroyed, Placed, Removals, Notice

(* What is announced is about the event's paths, and so is what is expected. *)
OnlyOf(e) ==
  /\ LineStays \/ \E c : LineGains(c) /\ News(c) /\ \A x \in Path : On(c, x) => On(e, x)
  /\ \A x \in Path : ~On(e, x) => SameAwait(x)
  /\ status' = status

LEMMA IgnoredReports == ASSUME TypeInv, NEW e, Handles(e), Ignored PROVE OnlyOf(e)
<1>1. LineStays
  BY Handling, LineUntouched DEF Ignored
<1> QED
  BY <1>1 DEF OnlyOf, Ignored, SameAwait, Awaits

LEMMA AwaitedReports ==
  ASSUME TypeInv, NEW p \in Path, NEW type, NEW e, Handles(e), On(e, p), Awaited(p, type)
  PROVE  OnlyOf(e)
<1>1. LineStays
  BY Handling, LineUntouched DEF Awaited
<1>2. expected' = Without(expected, p) /\ status' = status
  BY DEF Awaited, Checked
<1>3. \A x \in Path : x # p => SameAwait(x)
  BY <1>2 DEF SameAwait, Awaits, Without, Restrict
<1> QED
  BY <1>1, <1>2, <1>3 DEF OnlyOf

LEMMA CreatedReports ==
  ASSUME TypeInv, TypeInv', NEW p \in Path, NEW e, Handles(e), On(e, p), Created(p, e)
  PROVE  OnlyOf(e)
<1>1. CASE Expects(expected, p, "New")
  BY <1>1, AwaitedReports DEF Created
<1>2. CASE ~Expects(expected, p, "New")
  <2> PICK c : c = ChangeOf("New", 0, p, NoTo, e.by)
    OBVIOUS
  <2>1. Emits(c)
    BY <1>2 DEF Created
  <2>2. c.type = "New" /\ c.gid = 0 /\ c.cid = 0 /\ c.path = p /\ c.to = NoTo
    BY DEF ChangeOf
  <2>3. c \in Change
    <3>1. 0 <= db.lastId /\ NoTo \notin Path /\ e.by \in {"user", "program"}
      BY Ids, Handling DEF TypeInv, DbTyped, Rowed, Tables, Event
    <3>2. ProperNew(c)
      BY <3>1, ChangeKinds, ChangeTyped
    <3> QED
      BY <3>2 DEF ProperNew
  <2>4. LineGains(c) /\ UNCHANGED <<expected, status>>
    BY <2>1, <2>3, Handling, Emitted DEF Emits
  <2>5. News(c)
    BY <2>2, OwnNews DEF Looked
  <2>6. \A x \in Path : On(c, x) => x = p
    BY <2>2, Ids DEF On
  <2> QED
    BY <2>4, <2>5, <2>6 DEF OnlyOf, SameAwait, Awaits
<1> QED
  BY <1>1, <1>2

LEMMA DeletedReports ==
  ASSUME TypeInv, TypeInv', NEW p \in Path, NEW e, Handles(e), On(e, p), Deleted(p, e)
  PROVE  OnlyOf(e)
<1>1. CASE Expects(expected, p, "Delete")
  BY <1>1, AwaitedReports DEF Deleted
<1>2. CASE Ignored
  BY <1>2, IgnoredReports
<1>3. CASE HasRow(db, p) /\ Emits(ChangeOf("Delete", GlobalId(db, p), p, NoTo, e.by))
  <2> PICK r : r = GlobalId(db, p)
    OBVIOUS
  <2> PICK c : c = ChangeOf("Delete", r, p, NoTo, e.by)
    OBVIOUS
  <2>1. Emits(c)
    BY <1>3
  <2>2. c.type = "Delete" /\ c.gid = r /\ c.cid = 0 /\ c.path = p /\ c.to = NoTo
    BY DEF ChangeOf
  <2>3. r \in Rows(p)
    BY <1>3, FirstRow DEF TypeInv, DbTyped, Rows
  <2>4. c \in Change
    <3>1. NoTo \notin Path /\ e.by \in {"user", "program"} /\ r \in DOMAIN db.files
      BY <2>3, RowsKnown, Ids, Handling DEF Event
    <3>2. ProperNew(c)
      BY <3>1, RowIds, ChangeKinds, ChangeTyped
    <3> QED
      BY <3>2 DEF ProperNew
  <2>5. LineGains(c) /\ UNCHANGED <<expected, status>>
    BY <2>1, <2>4, Handling, Emitted DEF Emits
  <2>6. News(c)
    BY <2>2, <2>3, OwnNews DEF Looked
  <2>7. \A x \in Path : On(c, x) => x = p
    BY <2>2, Ids DEF On
  <2> QED
    BY <2>5, <2>6, <2>7 DEF OnlyOf, SameAwait, Awaits
<1> QED
  BY <1>1, <1>2, <1>3 DEF Deleted

LEMMA UpdatedReports ==
  ASSUME TypeInv, TypeInv', Stories, Apart, NEW p \in Path, NEW e, Handles(e), On(e, p),
         \A y \in Path : On(e, y) => y = p, Updated(p)
  PROVE  OnlyOf(e)
<1>1. CASE Ignored
  BY <1>1, IgnoredReports
<1>2. CASE ~Ignored
  <2> PICK r : r = RowFor(p)
    OBVIOUS
  <2> PICK c : c = ChangeOf("Update", r, p, NoTo, disk[p].by)
    OBVIOUS
  <2>1. r # 0 /\ Exists(p) /\ seen' = <<c>> /\ UNCHANGED <<expected, out, status>>
    BY <1>2 DEF Updated
  <2>2. c.gid = r /\ c.cid = 0 /\ c.path = p /\ c.to = NoTo /\ c.stat = StatOf(p)
    BY DEF ChangeOf
  <2>3. c \in Change
    <3>1. disk[p].by \in {"user", "program"} /\ NoTo \notin Path
      BY <2>1, Ids DEF TypeInv, DiskTyped, File
    <3>2. r \in DOMAIN db.files
      BY <2>1, RowFound DEF RowsWith, RowsOf
    <3>3. ProperNew(c)
      BY <3>1, <3>2, RowIds, ChangeKinds, ChangeTyped
    <3> QED
      BY <3>3 DEF ProperNew
  <2>4. LineGains(c)
    BY <2>1, <2>3, Handling, Emitted
  <2>5. News(c)
    BY <2>1, <2>2, Handling, LookedNews
  <2>6. \A x \in Path : On(c, x) => x = p
    BY <2>2, Ids DEF On
  <2> QED
    BY <2>1, <2>4, <2>5, <2>6 DEF OnlyOf, SameAwait, Awaits
<1> QED
  BY <1>1, <1>2

(* A file that users moved: only a row of the two paths has its inode. *)
LEMMA MovedReports ==
  ASSUME TypeInv, TypeInv', Stories, Apart, NEW e, Handles(e), e.path \in Path, e.to \in Path,
         Moved(e)
  PROVE  OnlyOf(e)
<1>1. On(e, e.path) /\ On(e, e.to)
  BY DEF On
<1>2. CASE Expects(expected, e.path, "Move")
  <2>1. Awaited(e.path, "Move")
    BY <1>2 DEF Moved
  <2> QED
    BY <1>1, <2>1, AwaitedReports
<1>3. CASE ~Expects(expected, e.path, "Move") /\ RowsWith(disk[e.to].inode) = {}
  <2>1. Created(e.to, e)
    BY <1>3 DEF Moved
  <2> QED
    BY <1>1, <2>1, CreatedReports
<1>4. CASE ~Expects(expected, e.path, "Move") /\ RowsWith(disk[e.to].inode) # {}
  <2> PICK r : r = CHOOSE gid \in RowsWith(disk[e.to].inode) : TRUE
    OBVIOUS
  <2> PICK c : c = ChangeOf("Move", r, e.path, e.to, e.by)
    OBVIOUS
  <2>1. Emits(c)
    BY <1>4 DEF Moved
  <2>2. c.type = "Move" /\ c.gid = r /\ c.cid = 0 /\ c.path = e.path /\ c.to = e.to
    BY DEF ChangeOf
  <2>3. r \in RowsWith(disk[e.to].inode)
    BY <1>4
  <2>4. r \in DOMAIN db.files /\ Stat(r).inode = disk[e.to].inode
    BY <2>3 DEF RowsWith, Stat
  <2>5. c \in Change
    <3>1. e.by \in {"user", "program"}
      BY Handling DEF Event
    <3>2. ProperNew(c)
      BY <2>4, <3>1, RowIds, ChangeKinds, ChangeTyped
    <3> QED
      BY <3>2 DEF ProperNew
  <2>6. LineGains(c) /\ UNCHANGED <<expected, status>>
    BY <2>1, <2>5, Handling, Emitted DEF Emits
  <2>7. Alike(c)
    <3>1. Alike(e)
      BY Handling, WorkIs DEF Apart
    <3> QED
      BY <2>2, <3>1 DEF Alike
  <2>8. ASSUME NEW x \in Path, Clean(x), r \in Rows(x) PROVE On(e, x)
    <3>1. PathOf(r) = x
      BY <2>8, RowsKnown
    <3>2. Stat(r).inode > 0
      BY <2>4, <2>8, <3>1 DEF Apart, OwnFile
    <3>3. Exists(e.to)
      BY <2>4, <3>2 DEF TypeInv, DiskTyped
    <3>4. Near(x, e.to)
      BY <2>4, <2>8, <3>1, <3>3 DEF Apart, OwnFile
    <3>5. Clean(e.to) /\ Near(e.to, x)
      BY <2>8, <3>4, NearSame, NearSymmetric
    <3> QED
      BY <1>1, <3>5, NearWork, Handling, WorkIs
  <2>9. OwnRow(c)
    BY <2>2, <2>8 DEF OwnRow, On
  <2>10. News(c)
    BY <2>2, <2>7, <2>9, NoCid DEF News, OwnStat, Looked
  <2>11. \A x \in Path : On(c, x) => On(e, x)
    BY <2>2 DEF On
  <2> QED
    BY <2>6, <2>10, <2>11 DEF OnlyOf, SameAwait, Awaits
<1> QED
  BY <1>2, <1>3, <1>4

(* The other paths go on as they did. *)
LEMMA HandledStories ==
  ASSUME TypeInv, Stories, NEW e, Handles(e), OnlyOf(e),
         \A x \in Path : Clean(x) /\ On(e, x) => Told(x)'
  PROVE  Stories'
<1>1. \A x \in Path : ~On(e, x) => Same(x)
  <2> TAKE x \in Path
  <2> HAVE ~On(e, x)
  <2>1. LineStays \/ \E c : LineGains(c) /\ ~On(c, x)
    BY DEF OnlyOf
  <2>2. SameAwait(x)
    BY DEF OnlyOf
  <2> QED
    BY <2>1, <2>2, HandlingOff
<1>2. e \in Work /\ fate' = fate
  BY Handling, WorkIs
<1>3. \A x \in Path : Clean(x) /\ ~On(e, x) => Told(x)'
  BY <1>1, <1>2, Elsewhere
<1>4. \A x \in Path : Clean(x)' <=> Clean(x)
  BY <1>2 DEF Clean
<1> QED
  BY <1>3, <1>4 DEF Stories

LEMMA HandledOne ==
  ASSUME TypeInv, Stories, Apart, NEW p \in Path, NEW e, Handles(e), OnlyOf(e),
         \A y \in Path : On(e, y) => y = p,
         Clean(p) => Told(p)'
  PROVE  Stories' /\ Apart'
<1>1. Stories'
  BY HandledStories
<1>2. Reports /\ status' = status
  BY DEF OnlyOf, Reports
<1>3. Apart'
  BY <1>2, HandledApart
<1> QED
  BY <1>1, <1>3

LEMMA HandleCreatedOk ==
  ASSUME TypeInv, TypeInv', Stories, Apart, HandleCreated
  PROVE  Stories' /\ Apart'
<1>1. PICK e : Next1(e) /\ e.type = "create" /\ Created(e.path, e) /\ Looks
  BY DEF HandleCreated
<1>2. Handles(e) /\ e \in Event /\ ProperEvent(e)
  BY <1>1, Handling DEF Handles
<1> PICK p : p = e.path
  OBVIOUS
<1>3. p \in Path /\ e.to = NoTo /\ \A y \in Path : On(e, y) <=> y = p
  BY <1>1, <1>2, Ids DEF Event, ProperEvent, On
<1>4. OnlyOf(e)
  BY <1>1, <1>2, <1>3, CreatedReports
<1>5. ASSUME Clean(p) PROVE Told(p)'
  <2>1. Told(p) /\ e \in EventsOn(p)
    BY <1>2, <1>3, <1>5, Handling DEF Stories
  <2>2. Alone(p)
    BY <1>3, <2>1, Ids, EventAlone
  <2>3. Creating(p) /\ e \in Creations(p)
    BY <1>1, <1>3, <2>1, <2>2, AloneEvent, Told1
  <2>4. Creating(p)'
    BY <1>1, <1>2, <1>3, <2>3, CreatedStory
  <2> QED
    BY <2>4 DEF Told, Alone
<1> QED
  BY <1>2, <1>3, <1>4, <1>5, HandledOne

LEMMA HandleDeletedOk ==
  ASSUME TypeInv, TypeInv', Stories, Apart, HandleDeleted
  PROVE  Stories' /\ Apart'
<1>1. PICK e : Next1(e) /\ e.type = "destroy" /\ Deleted(e.path, e) /\ Looks
  BY DEF HandleDeleted
<1>2. Handles(e) /\ e \in Event /\ ProperEvent(e)
  BY <1>1, Handling DEF Handles
<1> PICK p : p = e.path
  OBVIOUS
<1>3. p \in Path /\ e.to = NoTo /\ \A y \in Path : On(e, y) <=> y = p
  BY <1>1, <1>2, Ids DEF Event, ProperEvent, On
<1>4. OnlyOf(e)
  BY <1>1, <1>2, <1>3, DeletedReports
<1>5. ASSUME Clean(p) PROVE Told(p)'
  <2>1. Told(p) /\ e \in EventsOn(p)
    BY <1>2, <1>3, <1>5, Handling DEF Stories
  <2>2. Alone(p)
    BY <1>3, <2>1, Ids, EventAlone
  <2>3. e = Destroyed(p) \/ (Deleting(e, p) /\ e \in Removals(p))
    BY <1>1, <1>3, <2>1, <2>2, AloneEvent, Told1
  <2>4. Alone(p)'
    BY <1>1, <1>2, <1>3, <2>2, <2>3, DestroyStory, DeletedStory
  <2> QED
    BY <2>4 DEF Told
<1> QED
  BY <1>2, <1>3, <1>4, <1>5, HandledOne

(* An update that is looked at. *)
LEMMA UpdatedStory ==
  ASSUME TypeInv, TypeInv', Stories, Apart, NEW p \in Path, Clean(p), Alone(p),
         NEW e \in EventsOn(p), e # Destroyed(p), e \notin Creations(p), e \notin Removals(p),
         Handles(e), Updated(p)
  PROVE  Alone(p)'
<1>1. On(e, p)
  BY DEF EventsOn
<1>2. \/ Creating(p) /\ e \in Edits(p)
      \/ \E r \in Rows(p) : Kept(p, r) /\ e \in Edits(p) \cup {Placed(p)}
      \/ \E c \in WorkHere(p) : CloudNew(c, p) \/ CloudUpdate(c, p)
  BY AloneEvent
<1>3. CASE Creating(p) /\ e \in Edits(p)
  BY <1>3, EditIgnored DEF Alone
<1>4. ASSUME NEW r \in Rows(p), Kept(p, r), e \in Edits(p) \cup {Placed(p)} PROVE Alone(p)'
  <2>1. Kept(p, r)'
    BY <1>4, EditSeen
  <2>2. r \in Rows(p)'
    BY <2>1 DEF Kept, KeptRow
  <2> QED
    BY <2>1, <2>2 DEF Alone
<1>5. ASSUME NEW c \in WorkHere(p), CloudNew(c, p) PROVE Alone(p)'
  BY <1>1, <1>5, PlacedNewIgnored DEF Alone
<1>6. ASSUME NEW c \in WorkHere(p), CloudUpdate(c, p) PROVE Alone(p)'
  BY <1>1, <1>6, PlacedUpdateSeen DEF Alone
<1> QED
  BY <1>2, <1>3, <1>4, <1>5, <1>6

LEMMA HandleUpdatedOk ==
  ASSUME TypeInv, TypeInv', Stories, Apart, HandleUpdated
  PROVE  Stories' /\ Apart'
<1>1. PICK e : Next1(e) /\ e.type = "modify" /\ Updated(e.path) /\ Looks
  BY DEF HandleUpdated
<1>2. Handles(e) /\ e \in Event /\ ProperEvent(e)
  BY <1>1, Handling DEF Handles
<1> PICK p : p = e.path
  OBVIOUS
<1>3. p \in Path /\ e.to = NoTo /\ \A y \in Path : On(e, y) <=> y = p
  BY <1>1, <1>2, Ids DEF Event, ProperEvent, On
<1>4. OnlyOf(e)
  BY <1>1, <1>2, <1>3, UpdatedReports
<1>5. ASSUME Clean(p) PROVE Told(p)'
  <2>1. Told(p) /\ e \in EventsOn(p)
    BY <1>2, <1>3, <1>5, Handling DEF Stories
  <2>2. Alone(p)
    BY <1>3, <2>1, Ids, EventAlone
  <2>3. e # Destroyed(p) /\ e \notin Creations(p) /\ e \notin Removals(p)
    BY <1>1, <1>3, Told1
  <2>4. Alone(p)'
    BY <1>1, <1>2, <1>3, <1>5, <2>1, <2>2, <2>3, UpdatedStory
  <2> QED
    BY <2>4 DEF Told
<1> QED
  BY <1>2, <1>3, <1>4, <1>5, HandledOne

(* A move: whose story it is. *)
LEMMA MoveWho ==
  ASSUME TypeInv, Stories, NEW e, Handles(e), NEW p \in Path, NEW q \in Path,
         e.path = p, e.to = q, NEW x \in {p, q}, Clean(x)
  PROVE  /\ e \in EventsOn(p) /\ e \in EventsOn(q) /\ p # q /\ Clean(p) /\ Clean(q)
         /\ \E w \in WorkHere(x) : Moving(w, p, q)
<1>1. e \in EventsOn(p) /\ e \in EventsOn(q) /\ e \in Work
  BY Handling, WorkIs DEF On
<1>2. Told(x)
  BY DEF Stories
<1>3. ~Alone(x)
  <2>1. ASSUME Alone(x) PROVE FALSE
    <3>1. \/ e \in Creations(x) \cup Edits(x) \cup Removals(x) \/ e = Destroyed(x) \/ e = Placed(x)
      BY <1>1, <2>1, AloneEvent
    <3>2. e.path = x \/ e.to = x
      OBVIOUS
    <3>3. e.path = Tmp \/ e.to = NoTo
      BY <3>1, <3>2, Told1
    <3> QED
      BY <3>3, Ids
  <2> QED
    BY <2>1
<1>4. PICK w \in WorkHere(x), y \in Path : Pair(w, x, y)
  BY <1>2, <1>3 DEF Told, InPair
<1>5. p # q /\ Clean(p) /\ Clean(q) /\ Moving(w, p, q)
  <2>1. e \in WorkHere(x)
    BY <1>1 DEF WorkHere
  <2>2. CASE Moving(w, x, y)
    <3>1. e.path = x /\ e.to = y
      BY <2>1, <2>2, MovingWork
    <3> QED
      BY <1>4, <2>2, <3>1 DEF Pair
  <2>3. CASE Moving(w, y, x)
    <3>1. e.path = y /\ e.to = x
      BY <2>1, <2>3, MovingWork
    <3> QED
      BY <1>4, <2>3, <3>1 DEF Pair
  <2> QED
    BY <1>4, <2>2, <2>3 DEF Pair
<1> QED
  BY <1>1, <1>4, <1>5

LEMMA MoveStory ==
  ASSUME TypeInv, TypeInv', Stories, Apart, NEW e, Handles(e), Moved(e), NEW p \in Path, NEW q \in Path,
         e.path = p, e.to = q, NEW x \in {p, q}, Clean(x)
  PROVE  /\ p # q /\ Told(p)' /\ Told(q)'
         /\ (Near(p, q) \/ Parted(p, q))' /\ (Near(q, p) \/ Parted(q, p))'
<1>1. e \in EventsOn(p) /\ e \in EventsOn(q) /\ p # q /\ Clean(p) /\ Clean(q)
  BY MoveWho
<1>2. PICK w \in WorkHere(x) : Moving(w, p, q)
  BY MoveWho
<1>5. p # q /\ Clean(p) /\ Clean(q) /\ Moving(w, p, q)
  BY <1>1, <1>2
<1>6. CASE UserMoving(w, p, q)
  <2>1. w = e
    BY <1>1, <1>6 DEF UserMoving, OnlyEvent, OnlyInLine, OnlyRunning
  <2>2. Told(p)' /\ Told(q)'
    BY <1>5, <1>6, <2>1, UserMoveSeen
  <2>3. PICK c : LineGains(c) /\ c.path = p /\ c.to = q
    BY <1>5, <1>6, <2>1, UserMoveSeen
  <2>4. c \in Work' /\ On(c, p) /\ On(c, q)
    BY <2>3, WorkNext DEF LineGains, On
  <2> QED
    BY <1>5, <2>2, <2>4 DEF Near
<1>7. CASE CloudMoving(w, p, q)
  <2>1. On(e, p)
    BY DEF On
  <2>2. Told(p)' /\ Told(q)' /\ w \in running' /\ On(w, p) /\ On(w, q)
    BY <1>5, <1>7, <2>1, OwnMoveSeen
  <2>3. w \in Work'
    BY <2>2, WorkNext
  <2> QED
    BY <1>5, <2>2, <2>3 DEF Near
<1>8. CASE CloudMoved(w, p, q)
  <2>1. w = e
    BY <1>1, <1>8 DEF CloudMoved, OnlyEvent
  <2> QED
    BY <1>5, <1>8, <2>1, MovedSeen
<1> QED
  BY <1>5, <1>6, <1>7, <1>8 DEF Moving

LEMMA HandleMovedOk ==
  ASSUME TypeInv, TypeInv', Stories, Apart, NEW e, Handles(e), Moved(e), e.path \in Path, e.to \in Path
  PROVE  Stories' /\ Apart'
<1>1. OnlyOf(e)
  BY MovedReports
<1> PICK p, q : p = e.path /\ q = e.to
  OBVIOUS
<1>2. p \in Path /\ q \in Path /\ \A x \in Path : On(e, x) <=> x \in {p, q}
  BY DEF On
<1>3. \A x \in Path : Clean(x) /\ On(e, x) => Told(x)'
  <2> TAKE x \in Path
  <2> HAVE Clean(x) /\ On(e, x)
  <2>1. x \in {p, q}
    BY <1>2
  <2>2. Told(p)' /\ Told(q)'
    BY <1>2, <2>1, MoveStory
  <2> QED
    BY <2>1, <2>2
<1>4. Stories'
  BY <1>1, <1>3, HandledStories
<1>5. \A x, y \in Path : x # y /\ Clean(x) /\ On(e, x) /\ On(e, y) => Near(x, y)' \/ Parted(x, y)'
  <2> TAKE x \in Path, y \in Path
  <2> HAVE x # y /\ Clean(x) /\ On(e, x) /\ On(e, y)
  <2>1. x \in {p, q} /\ y \in {p, q}
    BY <1>2
  <2>2. (Near(p, q)' \/ Parted(p, q)') /\ (Near(q, p)' \/ Parted(q, p)')
    BY <1>2, <2>1, MoveStory
  <2>3. (x = p /\ y = q) \/ (x = q /\ y = p)
    BY <2>1
  <2>4. CASE x = p /\ y = q
    BY <2>2, <2>4
  <2>5. CASE x = q /\ y = p
    BY <2>2, <2>5
  <2> QED
    BY <2>3, <2>4, <2>5
<1>6. Reports /\ status' = status
  BY <1>1 DEF OnlyOf, Reports
<1>7. Apart'
  BY <1>5, <1>6, HandledApart
<1> QED
  BY <1>4, <1>7

LEMMA HandleRenamedOk ==
  ASSUME TypeInv, TypeInv', Stories, Apart, HandleRenamed
  PROVE  Stories' /\ Apart'
<1>1. PICK e :
        /\ Next1(e) /\ e.type = "rename" /\ Looks
        /\ IF e.to = NoTo THEN IF Exists(e.path) THEN Created(e.path, e) ELSE Deleted(e.path, e)
           ELSE IF e.to = Tmp THEN Ignored
           ELSE IF e.path = Tmp THEN Updated(e.to)
           ELSE Moved(e)
  BY DEF HandleRenamed
<1>2. Handles(e) /\ e \in Event /\ ProperEvent(e)
  BY <1>1, Handling DEF Handles
<1>3. CASE e.to = NoTo /\ e.path \in Path
  <2> PICK p : p = e.path
    OBVIOUS
  <2>1. p \in Path /\ \A y \in Path : On(e, y) <=> y = p
    BY <1>3, Ids DEF On
  <2>2. (Exists(p) /\ Created(p, e)) \/ (~Exists(p) /\ Deleted(p, e))
    BY <1>1, <1>3
  <2>3. OnlyOf(e)
    BY <1>2, <2>1, <2>2, CreatedReports, DeletedReports
  <2>4. ASSUME Clean(p) PROVE Told(p)'
    <3>1. Told(p) /\ e \in EventsOn(p)
      BY <1>2, <2>1, <2>4, Handling DEF Stories
    <3>2. Alone(p)
      BY <1>3, <2>1, <3>1, Ids, EventAlone
    <3>3. (Creating(p) /\ e \in Creations(p)) \/ (Deleting(e, p) /\ e \in Removals(p))
      BY <1>1, <1>3, <2>1, <3>1, <3>2, AloneEvent, Told1, Ids
    <3>4. CASE Creating(p) /\ e \in Creations(p)
      <4>1. Exists(p)
        BY <3>4 DEF Creating
      <4> QED
        BY <1>2, <2>1, <2>2, <3>4, <4>1, CreatedStory DEF Told, Alone
    <3>5. CASE Deleting(e, p) /\ e \in Removals(p)
      <4>1. ~Exists(p)
        BY <3>5 DEF Deleting
      <4> QED
        BY <1>2, <2>1, <2>2, <3>5, <4>1, DeletedStory DEF Told
    <3> QED
      BY <3>3, <3>4, <3>5
  <2> QED
    BY <1>2, <2>1, <2>3, <2>4, HandledOne
<1>4. CASE e.to = Tmp /\ e.path \in Path
  <2> PICK p : p = e.path
    OBVIOUS
  <2>1. p \in Path /\ \A y \in Path : On(e, y) <=> y = p
    BY <1>4, Ids DEF On
  <2>2. OnlyOf(e)
    BY <1>1, <1>2, <1>4, Ids, IgnoredReports
  <2>3. ASSUME Clean(p) PROVE FALSE
    <3>1. Told(p) /\ e \in EventsOn(p)
      BY <1>2, <2>1, <2>3, Handling DEF Stories
    <3>2. Alone(p)
      BY <1>4, <2>1, <3>1, Ids, EventAlone
    <3> QED
      BY <1>4, <2>1, <3>1, <3>2, AloneEvent, Told1, Ids
  <2> QED
    BY <1>2, <2>1, <2>2, <2>3, HandledOne
<1>5. CASE e.to \in Path /\ e.path = Tmp
  <2> PICK p : p = e.to
    OBVIOUS
  <2>1. p \in Path /\ \A y \in Path : On(e, y) <=> y = p
    BY <1>5, Ids DEF On
  <2>2. Updated(p)
    BY <1>1, <1>5, Ids
  <2>3. OnlyOf(e)
    BY <1>2, <2>1, <2>2, UpdatedReports
  <2>4. ASSUME Clean(p) PROVE Told(p)'
    <3>1. Told(p) /\ e \in EventsOn(p)
      BY <1>2, <2>1, <2>4, Handling DEF Stories
    <3>2. Alone(p)
      BY <1>5, <2>1, <3>1, Ids, EventAlone
    <3>3. e # Destroyed(p) /\ e \notin Creations(p) /\ e \notin Removals(p)
      BY <1>1, <1>5, Told1, Ids
    <3>4. Alone(p)'
      BY <1>2, <2>1, <2>2, <2>4, <3>1, <3>2, <3>3, UpdatedStory
    <3> QED
      BY <3>4 DEF Told
  <2> QED
    BY <1>2, <2>1, <2>3, <2>4, HandledOne
<1>6. CASE e.to \in Path /\ e.path \in Path
  <2>1. Moved(e)
    BY <1>1, <1>6, Ids
  <2> QED
    BY <1>2, <1>6, <2>1, HandleMovedOk
<1> QED
  BY <1>1, <1>2, <1>3, <1>4, <1>5, <1>6, Renames

-----------------------------------------------------------------------------
(* The steps that pass things on, and handleUpdated()'s write. *)

LEMMA AllKept == ASSUME Work \subseteq Work' PROVE TiesKept
BY DEF TiesKept, Near

LEMMA ApartOf ==
  ASSUME fate' = fate, Apart, \A w \in Work' : w \in Work \/ Alike(w),
         (\A c \in Changing : OwnRow(c) /\ OwnCid(c) /\ OwnStat(c))',
         (\A r \in DOMAIN db.files : OwnFile(r) /\ OwnLink(r))', OneFile', Down', AbortsOnlyOnRaces'
  PROVE  Apart'
<1>1. \A w \in Work' : Alike(w)'
  BY AlikeStays DEF Apart
<1> QED
  BY <1>1 DEF Apart

LEMMA OnFsEventOk ==
  ASSUME TypeInv, TypeInv', Stories, Apart, OnFsEvent
  PROVE  Stories' /\ Apart'
<1>1. /\ UNCHANGED <<fsVars, running, db, remote, expected, status, fate>>
      /\ LineStays /\ Up
  BY LineUntouched DEF OnFsEvent
<1>2. Down' /\ AbortsOnlyOnRaces'
  BY <1>1, UpStays, StatusStays
<1>3. CASE QueueStays
  <2>1. \A x \in Path : Same(x)
    BY <1>1, <1>3, Untouched DEF Same
  <2>2. Stories'
    BY <1>1, <2>1, Everywhere2
  <2>3. Work' = Work /\ Changing' = Changing
    BY <1>1, <1>3, WorkIs, WorkNext DEF QueueStays, LineStays, Changing
  <2>4. TiesKept
    BY <2>3, AllKept
  <2>5. UNCHANGED <<disk, db, remote, fate>>
    BY <1>1 DEF fsVars
  <2>6. Apart'
    BY <1>2, <2>3, <2>4, <2>5, ApartKept
  <2> QED
    BY <2>2, <2>6
<1>4. ASSUME NEW e \in Queued, QueueLoses(e), e.type \in {"create", "modify"}, ~Exists(e.path)
      PROVE  Stories' /\ Apart'
  <2>1. e \in Event /\ ProperEvent(e)
    BY EventTyped
  <2> PICK p : p = e.path
    OBVIOUS
  <2>2. p \in Path /\ e.to = NoTo /\ \A y \in Path : On(e, y) <=> y = p
    BY <1>4, <2>1, Ids DEF Event, ProperEvent, On
  <2>3. ~Clean(p)
    <3>1. ASSUME Clean(p) PROVE FALSE
      <4>1. Told(p) /\ e \in EventsOn(p)
        BY <2>2, <3>1 DEF Stories, EventsOn
      <4>2. Alone(p)
        BY <2>2, <4>1, Ids, EventAlone
      <4>3. Creating(p) \/ \E r \in Rows(p) : Kept(p, r)
        BY <1>4, <2>2, <4>1, <4>2, AloneEvent, Told1
      <4> QED
        BY <1>4, <4>3 DEF Creating, Kept, KeptRow
    <3> QED
      BY <3>1
  <2>4. \A x \in Path : Clean(x) => Same(x)
    <3> TAKE x \in Path
    <3> HAVE Clean(x)
    <3>1. ~On(e, x)
      BY <2>2, <2>3
    <3>2. SameEvents(x)
      BY <1>4, <3>1, OffQueue
    <3> QED
      BY <1>1, <3>2, Untouched DEF Same
  <2>5. Stories'
    BY <1>1, <2>4, Everywhere2
  <2>6. Work' \subseteq Work /\ Work \subseteq Work' \cup {e} /\ Changing' = Changing
    BY <1>1, <1>4, WorkIs, WorkNext DEF QueueLoses, LineStays, Changing
  <2>7. TiesKept
    BY <2>2, <2>6, Removal
  <2>8. UNCHANGED <<disk, db, remote, fate>>
    BY <1>1 DEF fsVars
  <2>9. Apart'
    BY <1>2, <2>6, <2>7, <2>8, ApartKept
  <2> QED
    BY <2>5, <2>9
<1> QED
  BY <1>3, <1>4, Watched

LEMMA HandOverOk ==
  ASSUME TypeInv, TypeInv', Stories, Apart, HandOver
  PROVE  Stories' /\ Apart'
<1>1. /\ UNCHANGED <<fsVars, events, notices, running, db, remote, expected, status, fate>>
      /\ Up /\ QueueStays
  BY QueueKept DEF HandOver
<1>2. LineStays
  BY HandedOver DEF HandOver
<1>3. Down' /\ AbortsOnlyOnRaces'
  BY <1>1, UpStays, StatusStays
<1>4. \A x \in Path : Same(x)
  BY <1>1, <1>2, Untouched DEF Same
<1>5. Stories'
  BY <1>1, <1>4, Everywhere2
<1>6. Work' = Work /\ Changing' = Changing
  BY <1>1, <1>2, WorkIs, WorkNext DEF QueueStays, LineStays, Changing
<1>7. TiesKept
  BY <1>6, AllKept
<1>8. UNCHANGED <<disk, db, remote, fate>>
  BY <1>1 DEF fsVars
<1>9. Apart'
  BY <1>3, <1>6, <1>7, <1>8, ApartKept
<1> QED
  BY <1>5, <1>9

LEMMA RestOk ==
  ASSUME TypeInv, TypeInv', Stories, Apart, Restart \/ Rest \/ UNCHANGED vars
  PROVE  Stories' /\ Apart'
<1>1. /\ UNCHANGED <<fsVars, events, notices, changes, out, seen, running, db, remote, expected, fate>>
      /\ status' = "up" \/ status' = status
  BY DEF Restart, Rest, vars, eventVars
<1>2. QueueStays /\ LineStays
  BY <1>1, QueueKept, LineUntouched
<1>3. Work' = Work /\ Changing' = Changing
  BY <1>1, <1>2, WorkIs, WorkNext DEF QueueStays, LineStays, Changing
<1>4. Down' /\ AbortsOnlyOnRaces'
  BY <1>1, <1>3, Ids DEF Apart, Down, Up, AbortsOnlyOnRaces, NothingExpected
<1>5. \A x \in Path : Same(x)
  BY <1>1, <1>2, Untouched DEF Same
<1>6. Stories'
  BY <1>1, <1>5, Everywhere2
<1>7. TiesKept
  BY <1>3, AllKept
<1>8. UNCHANGED <<disk, db, remote, fate>>
  BY <1>1 DEF fsVars
<1>9. Apart'
  BY <1>3, <1>4, <1>7, <1>8, ApartKept
<1> QED
  BY <1>6, <1>9

(* An update belongs to a file that is kept. *)
LEMMA LookedStory ==
  ASSUME TypeInv, NEW p \in Path, Told(p), NEW c \in LineOn(p), Looked(c),
         \A d \in running : d.path = p => d.stage # "placed"
  PROVE  c.gid \in Rows(p) /\ Kept(p, c.gid) /\ c.path = p
<1>1. c.type = "Update" /\ Local(c) /\ c \in Pending /\ c \in WorkHere(p)
  BY DEF Looked, LineOn, WorkHere
<1>2. ~InPair(p)
  <2>1. ASSUME NEW w \in WorkHere(p), NEW q \in Path, Pair(w, p, q) PROVE FALSE
    <3>1. {c.path, c.to} = {p, q}
      BY <1>1, <2>1, MovingWork DEF Pair
    <3>2. c.to \in Path
      BY <3>1
    <3> QED
      BY <1>1, <3>2, ChangingTyped DEF Changing
  <2> QED
    BY <2>1 DEF InPair
<1>3. ~Absent(p)
  BY DEF Absent
<1>4. ~Creating(p)
  BY <1>1 DEF Creating, CreationSeen, CreationInLine
<1>5. ASSUME NEW w \in WorkHere(p), Deleting(w, p) PROVE FALSE
  BY <1>1, <1>5 DEF Deleting, OnlyEvent, OnlyInLine, OnlyRunning
<1>6. ASSUME NEW w \in WorkHere(p), CloudNew(w, p) PROVE FALSE
  BY <1>1, <1>6 DEF CloudNew, OnlyInLine, OnlyRunning
<1>7. ASSUME NEW w \in WorkHere(p), CloudDelete(w, p) PROVE FALSE
  BY <1>1, <1>7 DEF CloudDelete, OnlyInLine
<1>8. ASSUME NEW w \in WorkHere(p), CloudUpdate(w, p) PROVE FALSE
  <2>1. CASE w.stage = "placed"
    <3>1. w \in running /\ w.path = p
      BY <1>8, <2>1 DEF CloudUpdate, OnlyInLine, OnlyRunning, RunsOn
    <3> QED
      BY <2>1, <3>1
  <2>2. CASE w.stage # "placed"
    <3>1. OnlyInLine(w, p) /\ w.by = "cloud"
      BY <1>8, <2>2 DEF CloudUpdate, OnlyRunning
    <3>2. c = w
      BY <3>1 DEF OnlyInLine
    <3> QED
      BY <1>1, <3>1, <3>2 DEF Local
  <2> QED
    BY <2>1, <2>2
<1>9. PICK r \in Rows(p) : Kept(p, r)
  BY <1>2, <1>3, <1>4, <1>5, <1>6, <1>7, <1>8 DEF Told, Alone
<1>10. c.gid = r /\ c.path = p
  BY <1>9 DEF Kept, KeptLine
<1> QED
  BY <1>9, <1>10

LEMMA LookedRow ==
  ASSUME TypeInv, Stories, NEW c \in Changing, Looked(c), Clean(c.path)
  PROVE  c.gid \in Rows(c.path)
<1> PICK p : p = c.path
  OBVIOUS
<1>1. c.type = "Update" /\ Local(c) /\ p \in Path /\ On(c, p)
  BY ChangingTyped DEF Looked
<1>2. c \in LineOn(p) \cup RunsOn(p) /\ c \in WorkHere(p) /\ Told(p)
  BY <1>1 DEF LineOn, RunsOn, WorkHere, Changing, Stories
<1>3. ~InPair(p)
  <2>1. ASSUME NEW w \in WorkHere(p), NEW q \in Path, Pair(w, p, q) PROVE FALSE
    <3>1. {c.path, c.to} = {p, q}
      BY <1>1, <1>2, <2>1, MovingWork DEF Pair
    <3>2. c.to \in Path
      BY <3>1
    <3> QED
      BY <1>1, <3>2, ChangingTyped
  <2> QED
    BY <2>1 DEF InPair
<1>4. CASE Absent(p)
  BY <1>2, <1>4 DEF Absent
<1>5. CASE Creating(p)
  BY <1>1, <1>2, <1>5 DEF Creating, CreationSeen, CreationInLine
<1>6. ASSUME NEW r \in Rows(p), Kept(p, r) PROVE c.gid \in Rows(p)
  <2>1. c.gid = r
    BY <1>2, <1>6 DEF Kept, KeptLine, KeptRuns, KeptRun
  <2> QED
    BY <2>1
<1>7. ASSUME NEW w \in WorkHere(p), Deleting(w, p) PROVE FALSE
  BY <1>1, <1>2, <1>7 DEF Deleting, OnlyEvent, OnlyInLine, OnlyRunning
<1>8. ASSUME NEW w \in WorkHere(p), CloudNew(w, p) PROVE FALSE
  BY <1>1, <1>2, <1>8 DEF CloudNew, OnlyInLine, OnlyRunning
<1>9. ASSUME NEW w \in WorkHere(p), CloudDelete(w, p) PROVE FALSE
  BY <1>1, <1>2, <1>9 DEF CloudDelete, OnlyInLine
<1>10. ASSUME NEW w \in WorkHere(p), CloudUpdate(w, p) PROVE c.gid \in Rows(p)
  <2>1. Rows(p) = {w.gid} /\ w.by = "cloud"
    BY <1>10 DEF CloudUpdate, Everywhere
  <2>2. c = w \/ c.gid = w.gid
    BY <1>2, <1>10 DEF CloudUpdate, OnlyInLine, OnlyRunning
  <2> QED
    BY <2>1, <2>2
<1> QED
  BY <1>2, <1>3, <1>4, <1>5, <1>6, <1>7, <1>8, <1>9, <1>10 DEF Told, Alone

(* The row is now as new as an update that waits. *)
LEMMA KeptSeen ==
  ASSUME TypeInv, NEW p \in Path, NEW r, Kept(p, r), NEW c \in LineOn(p), Local(c),
         SameFile(p), SameEvents(p), SameLine(p), SameRuns(p), SameThere(p), SameAwait(p),
         Rows(p)' = Rows(p), Linked(r)' <=> Linked(r), LinkId(r)' = LinkId(r), Stat(r)' = c.stat
  PROVE  Kept(p, r)'
<1>1. Exists(p) /\ Rows(p) = {r} /\ Dated(c.stat, p) /\ c.gid = r
  BY DEF Kept, KeptRow, KeptLine
<1>2. (Exists(p)' <=> Exists(p)) /\ StatOf(p)' = StatOf(p) /\ disk'[p] = disk[p]
  BY SameExists
<1>3. EventsOn(p)' = EventsOn(p) /\ LineOn(p)' = LineOn(p) /\ RunsOn(p)' = RunsOn(p)
  BY DEF SameEvents, SameLine, SameRuns
<1>4. There(p)' = There(p) /\ \A n \in There(p) : HashAt(n)' = HashAt(n)
  BY DEF SameThere
<1>5. DestroyAwaited(p)'
  <2>1. Earlier(Destroyed(p), Destroyed(p))' => Earlier(Destroyed(p), Destroyed(p))
    BY NoticesOn DEF SameEvents
  <2> QED
    BY <1>3, <2>1 DEF Kept, KeptRow, DestroyAwaited, SameAwait
<1>6. \A s : Dated(s, p)' <=> Dated(s, p)
  BY <1>2 DEF Dated
<1>7. KeptRow(p, r)'
  BY <1>1, <1>2, <1>3, <1>5 DEF Kept, KeptRow, Dated
<1>8. KeptLine(p, r)'
  <2>1. \A v, w \in LineOn(p) : Sooner(v, w)' => Sooner(v, w)
    BY DEF SameLine, LineOn
  <2> QED
    BY <1>2, <1>3, <2>1 DEF Kept, KeptLine, Dated, Newest
<1>9. KeptRuns(p, r)'
  BY <1>3, <1>4 DEF Kept, KeptRuns, KeptRun
<1>10. KeptFlow(p, r)'
  <2>1. (\E d \in LineOn(p) : Newest(d, p))' \/ (Stat(r).hash # disk[p].hash /\ EventsOn(p) \cap (Edits(p) \cup {Placed(p)}) # {})'
    BY <1>1, <1>2, <1>3 DEF Kept, KeptFlow, Newest
  <2>2. LineOn(p)' # {}
    BY <1>3
  <2>3. (disk[p].by = "user")' \/ (Stat(r).hash = disk[p].hash /\ \A d \in LineOn(p) : Newest(d, p))'
    BY <1>2, <1>3 DEF Kept, KeptFlow, Newest
  <2> QED
    BY <2>1, <2>2, <2>3 DEF KeptFlow
<1> QED
  BY <1>7, <1>8, <1>9, <1>10 DEF Kept

LEMMA WriteSeenOk ==
  ASSUME TypeInv, TypeInv', Stories, Apart, WriteSeen
  PROVE  Stories' /\ Apart'
<1> PICK c : c = seen[1]
  OBVIOUS
<1>1. /\ UNCHANGED <<fsVars, events, notices, changes, running, remote, expected, status, fate>>
      /\ Up /\ seen # <<>> /\ \A d \in running : d.stage # "placed"
      /\ db' = WithFileUpdated(db, c.gid, c.stat) /\ out' = Append(out, c) /\ seen' = <<>>
  BY DEF WriteSeen
<1>2. seen = <<c>> /\ c \in Range(seen) /\ c \in Change
  <2>1. seen \in Seq(Change) /\ Len(seen) <= 1
    BY DEF TypeInv, LineTyped
  <2>2. Len(seen) = 1 /\ DOMAIN seen = 1..1
    <3>1. Len(seen) \in Nat /\ DOMAIN seen = 1..Len(seen)
      BY <2>1, LenProperties
    <3>2. Len(seen) # 0
      BY <1>1, <2>1
    <3> QED
      BY <2>1, <3>1, <3>2
  <2>3. c \in Change
    BY <2>1, <2>2
  <2>4. seen = <<c>>
    BY <2>1, <2>2
  <2> QED
    BY <2>2, <2>3, <2>4 DEF Range
<1>3. Looked(c) /\ c \in Pending /\ c \in Changing /\ c \in Work
  BY <1>2, WorkIs DEF TypeInv, LineTyped, Looked, Pending, Changing
<1>4. LineStays /\ QueueStays
  BY <1>1, <1>2, Written, QueueKept
<1>5. Down' /\ AbortsOnlyOnRaces'
  BY <1>1, UpStays, StatusStays
<1> PICK r, stat : r = c.gid /\ stat = c.stat
  OBVIOUS
<1>6. stat \in Stamp /\ db' = WithFileUpdated(db, r, stat)
  BY <1>1, <1>2 DEF Change
<1>7. /\ DOMAIN db'.files = DOMAIN db.files /\ (\A x : Rows(x)' = Rows(x))
      /\ \A o \in DOMAIN db.files : PathOf(o)' = PathOf(o) /\ Stat(o)' = IF o = r THEN stat ELSE Stat(o)
      /\ \A o : (Linked(o)' <=> Linked(o)) /\ LinkId(o)' = LinkId(o)
  BY <1>6, RowUpdated
<1> PICK p : p = c.path
  OBVIOUS
<1>8. p \in Path /\ \A y \in Path : On(c, y) <=> y = p
  BY <1>3, ChangingTyped DEF Looked
<1>9. OwnRow(c) /\ OwnStat(c)
  BY <1>3 DEF Apart
<1>10. \A x \in Path : Clean(x) /\ ~On(c, x) => Same(x)
  <2> TAKE x \in Path
  <2> HAVE Clean(x) /\ ~On(c, x)
  <2>1. r \notin Rows(x)
    BY <1>9 DEF OwnRow
  <2>2. SameRows(x)
    BY <1>7, <2>1, RowsKnown DEF SameRows
  <2> QED
    BY <1>1, <1>4, <2>2, Untouched DEF Same
<1>11. ASSUME Clean(p) PROVE Told(p)'
  <2>1. c \in LineOn(p) /\ Told(p)
    BY <1>3, <1>8, <1>11 DEF LineOn, Stories
  <2>2. r \in Rows(p) /\ Kept(p, r)
    BY <1>1, <1>3, <1>8, <2>1, LookedStory
  <2>3. Stat(r)' = stat
    BY <1>7, <2>2, RowsKnown
  <2>4. /\ SameFile(p) /\ SameEvents(p) /\ SameLine(p) /\ SameRuns(p) /\ SameThere(p) /\ SameAwait(p)
        /\ Local(c)
    BY <1>1, <1>3, <1>4, Untouched DEF Looked
  <2>5. Rows(p)' = Rows(p) /\ (Linked(r)' <=> Linked(r)) /\ LinkId(r)' = LinkId(r)
    BY <1>7
  <2>6. Kept(p, r)'
    BY <1>8, <2>1, <2>2, <2>3, <2>4, <2>5, KeptSeen
  <2>7. r \in Rows(p)'
    BY <2>2, <2>5
  <2> QED
    BY <2>6, <2>7 DEF Told, Alone
<1>12. Stories'
  <2> SUFFICES ASSUME NEW x \in Path, Clean(x)' PROVE Told(x)'
    BY DEF Stories
  <2>1. Clean(x)
    BY <1>1 DEF Clean
  <2>2. CASE On(c, x)
    BY <1>8, <1>11, <2>1, <2>2
  <2>3. CASE ~On(c, x)
    BY <1>1, <1>3, <1>10, <2>1, <2>3, Elsewhere
  <2> QED
    BY <2>2, <2>3
<1>13. Work' = Work /\ Changing' = Changing
  BY <1>1, <1>4, WorkIs, WorkNext DEF QueueStays, LineStays, Changing
<1>14. TiesKept
  BY <1>13, AllKept
<1>15. disk' = disk /\ fate' = fate /\ \A x : There(x)' = There(x)
  BY <1>1 DEF fsVars, There
<1>16. \A d \in Changing' : OwnRow(d)' /\ OwnCid(d)' /\ OwnStat(d)'
  BY <1>7, <1>13, <1>15, OwnRowStays, OwnCidStays, OwnStatStays DEF Apart
<1>17. ASSUME r \in DOMAIN db.files PROVE OwnFile(r)'
  <2> PICK x : x = PathOf(r)
    OBVIOUS
  <2>1. x \in Path /\ r \in Rows(x) /\ PathOf(r)' = x /\ Stat(r)' = stat
    BY <1>7, <1>17, RowsKnown
  <2>2. Clean(x) => x = p
    BY <1>8, <1>9, <2>1 DEF OwnRow
  <2>3. Clean(p) => r \in Rows(p) /\ x = p
    BY <1>3, <2>1, LookedRow, RowsKnown
  <2>4. (Clean(x) => stat.inode > 0)
    BY <1>3, <1>9, <2>2 DEF OwnStat
  <2>5. \A y \in Path : Exists(y) /\ stat.inode = disk[y].inode /\ (Clean(x) \/ Clean(y)) => x = y
    BY <1>3, <1>9, <2>2, <2>3 DEF OwnStat
  <2>6. \A y \in Path : (Exists(y)' <=> Exists(y)) /\ (Clean(y)' <=> Clean(y))
    BY <1>15 DEF Exists, NoFile, Clean
  <2>7. \A y \in Path : Exists(y)' /\ stat.inode = disk'[y].inode /\ (Clean(x)' \/ Clean(y)')
                       => Near(x, y)'
    BY <1>15, <2>1, <2>5, <2>6 DEF Near
  <2> QED
    BY <2>1, <2>4, <2>6, <2>7 DEF OwnFile
<1>18. \A o \in DOMAIN db'.files : OwnFile(o)' /\ OwnLink(o)'
  <2> TAKE o \in DOMAIN db'.files
  <2>1. OwnLink(o)'
    BY <1>7, <1>14, <1>15, LinkTied
  <2>2. CASE o # r
    BY <1>7, <1>14, <1>15, <2>1, <2>2, FileTied
  <2>3. CASE o = r
    BY <1>7, <1>17, <2>1, <2>3
  <2> QED
    BY <2>2, <2>3
<1>19. OneFile'
  BY <1>15 DEF Apart, OneFile, Exists, NoFile
<1>20. Apart'
  BY <1>5, <1>13, <1>15, <1>16, <1>18, <1>19, ApartOf
<1> QED
  BY <1>12, <1>20

=============================================================================
