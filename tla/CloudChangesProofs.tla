-------------------------- MODULE CloudChangesProofs --------------------------
(***************************************************************************)
(* Proofs about CloudChanges, for either adapter, any files and folders,   *)
(* any number of writes of users and of the program and of restarts.       *)
(***************************************************************************)
EXTENDS CloudChanges, FiniteSetTheorems, SequenceTheorems, WellFoundedInduction, TLAPS

-----------------------------------------------------------------------------
(* Types.  Folders never move, so that the paths a file can have are those  *)
(* in the home directory and in its folders, H, which only become more.     *)

Dir == {Home, Elsewhere} \cup Folder
Item == [dir : Dir, time : Nat, hash : Nat, live : BOOLEAN]
Spot(dir, id) == IF dir = Home THEN <<NameOf[id]>> ELSE <<NameOf[dir], NameOf[id]>>
Paths == {Spot(dir, id) : dir \in {Home} \cup Folder, id \in Id}
Spots(id, H) == {Spot(dir, id) : dir \in {Home} \cup (IF id \in File THEN H ELSE {})}
FileSpots(H) == UNION {Spots(id, H) : id \in File}

LiveFolder == {d \in Folder : item[d].live}
HomeFolder == {d \in LiveFolder : item[d].dir = Home}

IsSeq(s) == s \in Seq(Range(s))

ItemOK(it, id, L, k) ==
  /\ it.live => it.time > 0
  /\ id \in Folder => it.dir \notin Folder /\ (it.live \/ it = Unborn)
  /\ it.dir \in Folder => it.dir \in L
  /\ k = "dropbox" => it.dir # Elsewhere
RecordOK(rec, H, L, k) ==
  /\ rec.id \in Id /\ rec.by \in {"user", "program"}
  /\ rec.id \in Folder => rec.id \in L
  /\ IF k = "google" THEN rec.key = rec.id ELSE rec.key \in Spots(rec.id, H)
CloudTyped ==
  /\ kind \in {"google", "dropbox"} /\ kind \in Kinds
  /\ item \in [Id -> Item]
  /\ \A id \in Id : ItemOK(item[id], id, LiveFolder, kind)
  /\ IsSeq(feed) /\ \A n \in DOMAIN feed : RecordOK(feed[n], HomeFolder, LiveFolder, kind)
  /\ token \in 0..Len(feed)

(* Where a thing seems to be. *)
Seen(live, dir, id, H) ==
  IF ~live \/ dir = Elsewhere THEN NoPath
  ELSE Spot(IF dir \in H THEN dir ELSE Home, id)
EntryOK(e, H, L, k) ==
  /\ e.gone \in BOOLEAN /\ e.dir \in Dir /\ e.time \in Nat /\ e.hash \in Nat
  /\ e.by \in {"user", "program"}
  /\ \/ /\ e.id \in Id /\ e.path = Seen(~e.gone, e.dir, e.id, H)
        /\ e.dir \in Folder => e.dir \in L
        /\ k = "dropbox" => e.dir # Elsewhere /\ ~e.gone
        /\ e.id \in Folder => ~e.gone /\ e.id \in L /\ e.dir = IF e.id \in H THEN Home ELSE Elsewhere
     \/ e.id = None /\ e.gone /\ e.path \in FileSpots(H) /\ k = "dropbox"
OneEach ==
  \A i, j \in DOMAIN batch :
    batch[i].id = batch[j].id /\ (batch[i].id = None => batch[i].path = batch[j].path) => i = j
BatchTyped ==
  /\ IsSeq(batch) /\ \A i \in DOMAIN batch : EntryOK(batch[i], HomeFolder, LiveFolder, kind)
  /\ OneEach

RegistryOK(map, H) ==
  \A key \in DOMAIN map : map[key] \in ChangeTypes /\ key \in File \cup FileSpots(H)
PathMapOK(map, H, L) ==
  /\ DOMAIN map \subseteq L
  /\ \A d \in DOMAIN map : map[d] = IF d \in H THEN FolderPath(d) ELSE NoPath
ExpectedTyped ==
  /\ RegistryOK(expected, HomeFolder) /\ RegistryOK(old, HomeFolder)
  /\ PathMapOK(pathMap, HomeFolder, LiveFolder)

LinkedIn(d, gid) == <<gid, Cloud>> \in DOMAIN d.links
LinkIn(d, gid) == d.links[<<gid, Cloud>>]
PathOfRow(d, gid) == d.files[gid].path
LinkSet == [id : Id, parent : Dir, time : Nat, hash : Nat]
Tables(d) ==
  /\ d = [files |-> d.files, links |-> d.links, lastId |-> d.lastId]
  /\ d.lastId \in Nat
  /\ DOMAIN d.files \subseteq 1..d.lastId
  /\ DOMAIN d.links \subseteq (DOMAIN d.files) \X {Cloud}
  /\ \A gid \in DOMAIN d.files : d.files[gid] \in [path : Paths, stat : {None}]
RowOK(d, gid, H) ==
  IF LinkedIn(d, gid)
  THEN /\ LinkIn(d, gid) \in LinkSet /\ PathOfRow(d, gid) \in Spots(LinkIn(d, gid).id, H)
       /\ LinkIn(d, gid).id \in Folder => LinkIn(d, gid).id \in H /\ LinkIn(d, gid).parent = Home
  ELSE PathOfRow(d, gid) \in FileSpots(H)
(* A folder has one row. *)
FoldersOnce(d) ==
  \A a, b \in DOMAIN d.files :
    LinkedIn(d, a) /\ LinkedIn(d, b) /\ LinkIn(d, a).id \in Folder /\ LinkIn(d, a).id = LinkIn(d, b).id
      => a = b
DbOK(d, H) == Tables(d) /\ (\A gid \in DOMAIN d.files : RowOK(d, gid, H)) /\ FoldersOnce(d)
DbTyped == DbOK(db, HomeFolder)

(* Rows without a link. *)
Loose(d) == {g \in DOMAIN d.files : ~LinkedIn(d, g)}

(* A row's number is not used again. *)
OwnerOK(gid, id, d) ==
  /\ gid \in 1..d.lastId
  /\ gid \in DOMAIN d.files => LinkedIn(d, gid) /\ LinkIn(d, gid).id = id
DependentOK(u, c) ==
  /\ u.type = "Update" /\ u.id = c.id /\ u.gid = c.gid
  /\ u.path = c.to /\ u.to = c.to /\ u.then = <<>>
  /\ u.dir \in Dir /\ u.time \in Nat /\ u.hash \in Nat
ChangeOK(c, d, H) ==
  /\ c.type \in ChangeTypes /\ c.id \in Id
  /\ c.path \in Spots(c.id, H) /\ c.to \in Spots(c.id, H)
  /\ c.dir \in Dir /\ c.time \in Nat /\ c.hash \in Nat
  /\ IF c.type = "New" THEN c.gid = 0 ELSE c.id \in File /\ OwnerOK(c.gid, c.id, d)
  /\ c.type # "Move" => c.to = c.path
  /\ c.id \in Folder => c.id \in H
  /\ c.then = <<>> \/ \E u \in Range(c.then) : c.then = <<u>> /\ c.type = "Move" /\ DependentOK(u, c)
ChangesTyped ==
  /\ IsSeq(changes) /\ IsSeq(out) /\ IsFiniteSet(doomed)
  /\ \A c \in InProgress : ChangeOK(c, db, HomeFolder)

Stages == {"queued", "sent", "arrived"}
Request == [op : ChangeTypes, id : File, gid : Nat, path : Paths, to : Paths, dir : Dir \cup {None},
          stage : Stages, time : Nat, hash : Nat]
WriteOK(w, d, H, k) ==
  /\ w \in Request
  /\ w.path \in Spots(w.id, H) /\ w.to \in Spots(w.id, H)
  /\ w.op # "Move" => w.to = w.path
  /\ IF w.op = "New" THEN w.gid \in Loose(d) /\ PathOfRow(d, w.gid) = w.path
     ELSE /\ w.gid \in 1..d.lastId
          /\ w.gid \in DOMAIN d.files => LinkedIn(d, w.gid) /\ LinkIn(d, w.gid).id \in File
  /\ IF w.stage = "arrived" THEN w.dir \in Dir
     ELSE IF w.dir = None THEN k = "google" /\ w.op = "Move"
     ELSE w.dir \in {Home} \cup H /\ (w.op \in {"New", "Move"} => w.to = Spot(w.dir, w.id))
WritesTyped ==
  /\ \A w \in writes : WriteOK(w, db, HomeFolder, kind)
  /\ \A v, w \in writes : v.op = "New" /\ w.op = "New" /\ v.gid = w.gid => v = w
  /\ stuck \subseteq FileSpots(HomeFolder)

RestTyped ==
  /\ working \in BOOLEAN /\ (working => Up) /\ (~working => out = <<>> /\ doomed = {})
  /\ status \in {"up", "killed", "pages"} \cup Id
  /\ fate \in [Id -> SUBSET Fates]

TypeInv ==
  CloudTyped /\ BatchTyped /\ ExpectedTyped /\ DbTyped /\ ChangesTyped /\ WritesTyped /\ RestTyped

-----------------------------------------------------------------------------
(* Sequences. *)

LEMMA SeqFacts ==
  ASSUME NEW s, IsSeq(s)
  PROVE  /\ Len(s) \in Nat /\ DOMAIN s = 1..Len(s)
         /\ (s = <<>> <=> Len(s) = 0) /\ (s = <<>> <=> DOMAIN s = {})
<1>1. Len(s) \in Nat /\ DOMAIN s = 1..Len(s)
  BY LenProperties DEF IsSeq
<1>2. s = <<>> <=> Len(s) = 0
  BY EmptySeq DEF IsSeq
<1> QED
  BY <1>1, <1>2

LEMMA FunctionSeq ==
  ASSUME NEW n \in Nat, NEW S, NEW s \in [1..n -> S]
  PROVE  IsSeq(s) /\ Len(s) = n
<1>1. s \in Seq(S)
  OBVIOUS
<1>2. IsSeq(s)
  BY <1>1, SeqOfRange DEF IsSeq
<1> QED
  BY <1>2

LEMMA NothingSeq == IsSeq(<<>>) /\ Range(<<>>) = {} /\ DOMAIN <<>> = {}
<1>1. DOMAIN <<>> = {}
  OBVIOUS
<1> QED
  BY <1>1, EmptySeq DEF IsSeq, Range

LEMMA SingleSeq ==
  ASSUME NEW e
  PROVE  IsSeq(<<e>>) /\ Len(<<e>>) = 1 /\ DOMAIN <<e>> = {1} /\ <<e>>[1] = e /\ Range(<<e>>) = {e}
<1>1. Len(<<e>>) = 1 /\ DOMAIN <<e>> = {1} /\ <<e>>[1] = e
  OBVIOUS
<1>2. Range(<<e>>) = {e}
  BY <1>1 DEF Range
<1>3. <<e>> \in Seq({e})
  OBVIOUS
<1> QED
  BY <1>1, <1>2, <1>3 DEF IsSeq

LEMMA Joined ==
  ASSUME NEW s, IsSeq(s), NEW t, IsSeq(t)
  PROVE  /\ IsSeq(s \o t) /\ Range(s \o t) = Range(s) \cup Range(t)
         /\ Len(s \o t) = Len(s) + Len(t)
         /\ \A i \in DOMAIN s : i \in DOMAIN (s \o t) /\ (s \o t)[i] = s[i]
         /\ \A i \in DOMAIN t : Len(s) + i \in DOMAIN (s \o t) /\ (s \o t)[Len(s) + i] = t[i]
         /\ \A i \in DOMAIN (s \o t) :
              \/ i \in DOMAIN s /\ (s \o t)[i] = s[i]
              \/ i > Len(s) /\ i - Len(s) \in DOMAIN t /\ (s \o t)[i] = t[i - Len(s)]
<1> DEFINE m == Len(s)
           n == Len(t)
           u == s \o t
           S == Range(s) \cup Range(t)
<1>1. s \in Seq(S) /\ t \in Seq(S)
  BY SeqMonotonic DEF IsSeq
<1>2. /\ m \in Nat /\ n \in Nat /\ DOMAIN s = 1..m /\ DOMAIN t = 1..n
      /\ u \in Seq(S) /\ DOMAIN u = 1..(m + n) /\ Len(u) = m + n
      /\ \A i \in 1..(m + n) : u[i] = IF i <= m THEN s[i] ELSE t[i - m]
  <2> HIDE DEF S
  <2> QED
    BY <1>1, ConcatProperties, LenProperties
<1>3. Range(u) = S
  BY <1>1, RangeConcatenation
<1>4. IsSeq(u)
  BY <1>2, <1>3 DEF IsSeq
<1> HIDE DEF m, n, u, S
<1>5. \A i \in 1..m : i \in 1..(m + n) /\ u[i] = s[i]
  BY <1>2
<1>6. \A i \in 1..n : m + i \in 1..(m + n) /\ u[m + i] = t[i]
  <2> TAKE i \in 1..n
  <2>1. m + i \in 1..(m + n) /\ ~(m + i <= m) /\ m + i - m = i
    BY <1>2
  <2> QED
    BY <1>2, <2>1
<1>7. \A i \in 1..(m + n) :
        \/ i \in 1..m /\ u[i] = s[i]
        \/ i > m /\ i - m \in 1..n /\ u[i] = t[i - m]
  <2> TAKE i \in 1..(m + n)
  <2>1. CASE i <= m
    BY <1>2, <2>1
  <2>2. CASE ~(i <= m)
    <3>1. i > m /\ i - m \in 1..n
      BY <1>2, <2>2
    <3> QED
      BY <1>2, <2>2, <3>1
  <2> QED
    BY <2>1, <2>2
<1> QED
  BY <1>2, <1>3, <1>4, <1>5, <1>6, <1>7 DEF m, n, u, S

LEMMA JoinedTo ==
  ASSUME NEW s, IsSeq(s)
  PROVE  \A t : IsSeq(t) =>
           /\ IsSeq(s \o t) /\ Len(s \o t) = Len(s) + Len(t)
           /\ \A i \in DOMAIN s : i \in DOMAIN (s \o t) /\ (s \o t)[i] = s[i]
           /\ \A i \in DOMAIN t : Len(s) + i \in DOMAIN (s \o t) /\ (s \o t)[Len(s) + i] = t[i]
<1> TAKE t
<1> HAVE IsSeq(t)
<1> QED
  BY Joined

LEMMA Beheaded ==
  ASSUME NEW s, IsSeq(s), s # <<>>
  PROVE  /\ IsSeq(Tail(s)) /\ 1 \in DOMAIN s /\ Head(s) = s[1]
         /\ Range(s) = Range(Tail(s)) \cup {Head(s)}
         /\ \A i \in DOMAIN Tail(s) : i + 1 \in DOMAIN s /\ Tail(s)[i] = s[i + 1]
         /\ \A i \in DOMAIN s : i = 1 \/ (i - 1 \in DOMAIN Tail(s) /\ Tail(s)[i - 1] = s[i])
<1> DEFINE n == Len(s)
           t == Tail(s)
           S == Range(s)
<1>1. /\ n \in Nat \ {0} /\ DOMAIN s = 1..n /\ t \in Seq(S)
      /\ Len(t) = n - 1 /\ DOMAIN t = 1..(n - 1)
      /\ \A i \in 1..(n - 1) : t[i] = s[i + 1]
      /\ Head(s) = s[1]
  <2>1. s \in Seq(S)
    BY DEF IsSeq
  <2> HIDE DEF S
  <2> QED
    BY <2>1, HeadTailProperties, LenProperties, EmptySeq
<1>2. IsSeq(t)
  BY <1>1, SeqOfRange DEF IsSeq
<1> HIDE DEF n, t, S
<1>3. /\ \A i \in 1..(n - 1) : i + 1 \in 1..n
      /\ \A i \in 1..n : i = 1 \/ (i - 1 \in 1..(n - 1) /\ t[i - 1] = s[i])
      /\ 1 \in 1..n
  BY <1>1
<1>4. Range(s) = {s[i] : i \in 1..n} /\ Range(t) = {t[i] : i \in 1..(n - 1)}
  BY <1>1 DEF Range
<1>5. ASSUME NEW i \in 1..n PROVE s[i] \in Range(t) \cup {Head(s)}
  <2>1. CASE i = 1
    BY <1>1, <2>1
  <2>2. CASE i - 1 \in 1..(n - 1) /\ t[i - 1] = s[i]
    BY <1>4, <2>2
  <2> QED
    BY <1>3, <2>1, <2>2
<1>6. ASSUME NEW i \in 1..(n - 1) PROVE t[i] \in Range(s)
  BY <1>1, <1>3, <1>4
<1>7. Range(s) = Range(t) \cup {Head(s)}
  BY <1>1, <1>3, <1>4, <1>5, <1>6
<1> QED
  BY <1>1, <1>2, <1>3, <1>7 DEF t

LEMMA Removed ==
  ASSUME NEW s, IsSeq(s), NEW k \in DOMAIN s
  PROVE  /\ IsSeq(RemoveAt(s, k)) /\ Range(RemoveAt(s, k)) \subseteq Range(s)
         /\ \A i \in DOMAIN RemoveAt(s, k) :
              \/ i < k /\ i \in DOMAIN s /\ RemoveAt(s, k)[i] = s[i]
              \/ i >= k /\ i + 1 \in DOMAIN s /\ RemoveAt(s, k)[i] = s[i + 1]
         /\ \A i \in DOMAIN s :
              \/ i < k /\ i \in DOMAIN RemoveAt(s, k) /\ RemoveAt(s, k)[i] = s[i]
              \/ i = k
              \/ i > k /\ i - 1 \in DOMAIN RemoveAt(s, k) /\ RemoveAt(s, k)[i - 1] = s[i]
<1> DEFINE n == Len(s)
           a == SubSeq(s, 1, k - 1)
           b == SubSeq(s, k + 1, n)
           t == RemoveAt(s, k)
           S == Range(s)
<1>0. s \in Seq(S)
  BY DEF IsSeq
<1> HIDE DEF S
<1>1. n \in Nat /\ DOMAIN s = 1..n /\ k \in 1..n /\ \A i \in 1..n : s[i] \in S
  BY <1>0, LenProperties, ElementOfSeq
<1> HIDE DEF n
<1>2. a \in Seq(S) /\ Len(a) = k - 1 /\ \A i \in 1..(k - 1) : a[i] = s[i]
  <2>1. \A i \in 1..(k - 1) : s[i] \in S
    BY <1>1
  <2>2. k - 1 \in Int /\ 1 \in Int /\ k - 1 - 1 + 1 = k - 1
    BY <1>1
  <2>3. /\ a \in Seq(S) /\ Len(a) = IF 1 <= k - 1 THEN k - 1 - 1 + 1 ELSE 0
        /\ \A i \in 1..(k - 1 - 1 + 1) : a[i] = s[1 + i - 1]
    BY <1>0, <2>1, <2>2, SubSeqProperties
  <2> HIDE DEF a
  <2> QED
    BY <1>1, <2>2, <2>3
<1>3. b \in Seq(S) /\ Len(b) = n - k /\ \A i \in 1..(n - k) : b[i] = s[k + i]
  <2>1. \A i \in (k + 1)..n : s[i] \in S
    BY <1>1
  <2>2. k + 1 \in Int /\ n \in Int /\ n - (k + 1) + 1 = n - k
    BY <1>1
  <2>3. /\ b \in Seq(S) /\ Len(b) = IF k + 1 <= n THEN n - (k + 1) + 1 ELSE 0
        /\ \A i \in 1..(n - (k + 1) + 1) : b[i] = s[k + 1 + i - 1]
    BY <1>0, <2>1, <2>2, SubSeqProperties
  <2> HIDE DEF b
  <2>4. \A i \in 1..(n - k) : k + 1 + i - 1 = k + i
    BY <1>1
  <2>5. Len(b) = n - k
    BY <1>1, <2>2, <2>3
  <2> QED
    BY <2>2, <2>3, <2>4, <2>5
<1>4. t = a \o b
  BY DEF RemoveAt, n
<1> HIDE DEF a, b, t
<1>5. /\ t \in Seq(S) /\ Len(t) = n - 1
      /\ \A i \in 1..(n - 1) : t[i] = IF i < k THEN s[i] ELSE s[i + 1]
  <2>1. /\ t \in Seq(S) /\ Len(t) = Len(a) + Len(b)
        /\ \A i \in 1..(Len(a) + Len(b)) : t[i] = IF i <= Len(a) THEN a[i] ELSE b[i - Len(a)]
    BY <1>2, <1>3, <1>4, ConcatProperties
  <2>2. Len(a) + Len(b) = n - 1
    BY <1>1, <1>2, <1>3
  <2>3. ASSUME NEW i \in 1..(n - 1), i < k PROVE t[i] = s[i]
    BY <1>1, <1>2, <2>1, <2>2, <2>3
  <2>4. ASSUME NEW i \in 1..(n - 1), ~(i < k) PROVE t[i] = s[i + 1]
    <3>1. i - (k - 1) \in 1..(n - k) /\ k + (i - (k - 1)) = i + 1 /\ ~(i <= k - 1)
      BY <1>1, <2>4
    <3>2. t[i] = b[i - (k - 1)]
      BY <1>2, <2>1, <2>2, <3>1
    <3> QED
      BY <1>3, <3>1, <3>2
  <2> QED
    BY <2>1, <2>2, <2>3, <2>4
<1>6. DOMAIN t = 1..(n - 1) /\ IsSeq(t)
  BY <1>5, LenProperties, SeqOfRange DEF IsSeq
<1>7. \A i \in 1..(n - 1) : \/ i < k /\ i \in 1..n /\ t[i] = s[i]
                            \/ i >= k /\ i + 1 \in 1..n /\ t[i] = s[i + 1]
  BY <1>1, <1>5
<1>8. ASSUME NEW i \in 1..n
      PROVE  \/ i < k /\ i \in 1..(n - 1) /\ t[i] = s[i]
             \/ i = k
             \/ i > k /\ i - 1 \in 1..(n - 1) /\ t[i - 1] = s[i]
  <2>1. CASE i < k
    BY <1>1, <1>5, <2>1
  <2>2. CASE i > k
    <3>1. i - 1 \in 1..(n - 1) /\ ~(i - 1 < k) /\ i - 1 + 1 = i
      BY <1>1, <2>2
    <3> QED
      BY <1>5, <2>2, <3>1
  <2> QED
    BY <1>1, <2>1, <2>2
<1>9. Range(t) \subseteq Range(s)
  BY <1>1, <1>6, <1>7 DEF Range
<1> QED
  BY <1>1, <1>6, <1>7, <1>8, <1>9 DEF t

(* The orders that a finite set can have. *)
LEMMA Ordered ==
  ASSUME NEW S, IsFiniteSet(S), NEW s \in SetToSeqs(S)
  PROVE  IsSeq(s) /\ Range(s) = S /\ \A i, j \in DOMAIN s : s[i] = s[j] => i = j
<1> DEFINE n == Cardinality(S)
<1>1. n \in Nat
  BY FS_CardinalityType
<1>2. s \in [1..n -> S] /\ \A i, j \in 1..n : i # j => s[i] # s[j]
  BY DEF SetToSeqs
<1>3. Cardinality(1..n) = n
  BY <1>1, FS_Interval
<1> HIDE DEF n
<1>4. s \in Injection(1..n, S)
  BY <1>2 DEF Injection, IsInjective
<1>5. s \in Surjection(1..n, S)
  BY <1>3, <1>4, FS_Injection DEF n
<1>6. Range(s) = S
  BY <1>2, <1>5 DEF Surjection, Range
<1> QED
  BY <1>1, <1>2, <1>6, FunctionSeq

LEMMA AnOrder ==
  ASSUME NEW S, IsFiniteSet(S)
  PROVE  /\ IsSeq(SetToSeq(S)) /\ Range(SetToSeq(S)) = S
         /\ Len(SetToSeq(S)) = Cardinality(S)
         /\ \A i, j \in DOMAIN SetToSeq(S) : SetToSeq(S)[i] = SetToSeq(S)[j] => i = j
<1> DEFINE n == Cardinality(S)
           s == SetToSeq(S)
<1>1. n \in Nat /\ ExistsBijection(1..n, S)
  BY FS_CardinalityType
<1> HIDE DEF n
<1>2. \E f \in [1..n -> S] : IsInjective(f)
  BY <1>1 DEF ExistsBijection, Bijection, Injection
<1>3. s \in [1..n -> S] /\ IsInjective(s)
  BY <1>2 DEF SetToSeq, n
<1> HIDE DEF s
<1>4. s \in SetToSeqs(S)
  BY <1>3 DEF SetToSeqs, IsInjective, n
<1>5. IsSeq(s) /\ Len(s) = n
  BY <1>1, <1>3, FunctionSeq
<1> QED
  BY <1>4, <1>5, Ordered DEF s, n

LEMMA SmallOrder ==
  /\ SetToSeq({}) = <<>>
  /\ \A e : SetToSeq({e}) = <<e>>
<1>1. SetToSeq({}) = <<>>
  <2>1. Len(SetToSeq({})) = 0 /\ IsSeq(SetToSeq({}))
    BY AnOrder, FS_EmptySet
  <2> QED
    BY <2>1, SeqFacts
<1>2. ASSUME NEW e PROVE SetToSeq({e}) = <<e>>
  <2>1. /\ Len(SetToSeq({e})) = 1 /\ IsSeq(SetToSeq({e})) /\ Range(SetToSeq({e})) = {e}
    BY AnOrder, FS_Singleton
  <2> DEFINE s == SetToSeq({e})
  <2> HIDE DEF s
  <2>2. s \in Seq({e}) /\ DOMAIN s = 1..1 /\ Len(s) = 1
    BY <2>1, LenProperties DEF IsSeq, s
  <2>3. s[1] = e
    BY <2>2, ElementOfSeq
  <2>4. <<e>> \in Seq({e}) /\ Len(<<e>>) = 1 /\ <<e>>[1] = e
    OBVIOUS
  <2>5. s = <<e>>
    BY <2>2, <2>3, <2>4, SeqEqual
  <2> QED
    BY <2>5 DEF s
<1> QED
  BY <1>1, <1>2

-----------------------------------------------------------------------------
(* Paths. *)

LEMMA Names ==
  /\ Home # Elsewhere /\ None \notin Dir /\ None \notin Id
  /\ Home \notin Id /\ Elsewhere \notin Id /\ Id \cap {"up", "killed", "pages"} = {}
  /\ File \cap Folder = {} /\ Id = File \cup Folder /\ IsFiniteSet(Id)
BY CloudChangesAssumption DEF Dir, Id

LEMMA OneSpot ==
  ASSUME NEW dir \in {Home} \cup Folder, NEW dir2 \in {Home} \cup Folder, NEW id \in Id, NEW id2 \in Id,
         Spot(dir, id) = Spot(dir2, id2)
  PROVE  dir = dir2 /\ NameOf[id] = NameOf[id2]
<1>1. \A a, b, c : <<a>> # <<b, c>>
  OBVIOUS
<1>2. CASE dir = Home /\ dir2 = Home
  BY <1>2 DEF Spot
<1>3. CASE dir # Home /\ dir2 # Home
  <2>1. NameOf[dir] = NameOf[dir2] /\ NameOf[id] = NameOf[id2]
    BY <1>3 DEF Spot
  <2> QED
    BY <1>3, <2>1, CloudChangesAssumption DEF Id
<1> QED
  BY <1>1, <1>2, <1>3 DEF Spot

LEMMA SpotKinds ==
  ASSUME NEW dir \in {Home} \cup Folder, NEW id \in Id
  PROVE  /\ Spot(dir, id) # NoPath /\ Spot(dir, id) \notin Id /\ Spot(dir, id) \in Paths
         /\ FolderAt(Spot(dir, id)) = IF dir = Home THEN {} ELSE {dir}
<1>1. Spot(dir, id) # NoPath /\ Spot(dir, id) \in Paths
  BY DEF Spot, NoPath, Paths
<1>2. Spot(dir, id) \notin Id
  <2>1. dir \in Id \/ dir = Home
    BY DEF Id
  <2> QED
    BY <2>1, CloudChangesAssumption DEF Spot
<1>3. CASE dir = Home
  BY <1>1, <1>2, <1>3 DEF Spot, FolderAt
<1>4. CASE dir # Home
  <2>1. Spot(dir, id) = <<NameOf[dir], NameOf[id]>> /\ dir \in Folder
    BY <1>4 DEF Spot
  <2>2. Len(Spot(dir, id)) = 2 /\ Spot(dir, id)[1] = NameOf[dir]
    BY <2>1
  <2>3. \A d \in Folder : NameOf[dir] = NameOf[d] => d = dir
    BY <2>1, CloudChangesAssumption DEF Id
  <2>4. FolderAt(Spot(dir, id)) = {dir}
    BY <2>1, <2>2, <2>3 DEF FolderAt
  <2> QED
    BY <1>1, <1>2, <1>4, <2>4
<1> QED
  BY <1>3, <1>4

LEMMA FolderSpots ==
  ASSUME NEW d \in Folder
  PROVE  /\ FolderPath(d) = Spot(Home, d) /\ FolderPath(d) \in Paths /\ FolderPath(d) # NoPath
         /\ \A H : Spots(d, H) = {FolderPath(d)}
         /\ \A H \in SUBSET Folder : FolderPath(d) \notin FileSpots(H)
         /\ \A id \in Id, H \in SUBSET Folder : FolderPath(d) \in Spots(id, H) => id = d
<1>1. d \in Id /\ d \notin File
  BY Names
<1>2. FolderPath(d) = Spot(Home, d)
  BY DEF FolderPath, Spot
<1>3. \A H : Spots(d, H) = {FolderPath(d)}
  BY <1>1, <1>2 DEF Spots
<1>4. ASSUME NEW id \in Id, NEW H \in SUBSET Folder, FolderPath(d) \in Spots(id, H) PROVE id = d
  <2>1. PICK dir \in {Home} \cup H : FolderPath(d) = Spot(dir, id)
    BY <1>4 DEF Spots
  <2>2. dir \in {Home} \cup Folder /\ Spot(dir, id) = Spot(Home, d)
    BY <1>2, <2>1
  <2>3. NameOf[id] = NameOf[d]
    BY <1>1, <2>2, OneSpot
  <2> QED
    BY <2>3, CloudChangesAssumption
<1>5. \A H \in SUBSET Folder : FolderPath(d) \notin FileSpots(H)
  BY <1>1, <1>4 DEF FileSpots, Id
<1> QED
  BY <1>1, <1>2, <1>3, <1>4, <1>5, SpotKinds

LEMMA SpotsGrow ==
  ASSUME NEW H, NEW H2, H \subseteq H2
  PROVE  /\ \A id : Spots(id, H) \subseteq Spots(id, H2)
         /\ FileSpots(H) \subseteq FileSpots(H2)
<1>1. ASSUME NEW id PROVE Spots(id, H) \subseteq Spots(id, H2)
  BY DEF Spots
<1> QED
  BY <1>1 DEF FileSpots

LEMMA SpotsIn ==
  ASSUME NEW H \in SUBSET Folder
  PROVE  /\ \A id \in Id : Spots(id, H) \subseteq Paths
         /\ \A id \in Id : NoPath \notin Spots(id, H)
         /\ \A id \in File : Spots(id, H) \subseteq FileSpots(H)
         /\ \A id \in File, dir \in {Home} \cup H : Spot(dir, id) \in Spots(id, H)
         /\ \A id \in File : \A p \in Spots(id, H) : \E dir \in {Home} \cup H : p = Spot(dir, id)
         /\ \A id \in Id : Spot(Home, id) \in Spots(id, H)
<1>1. ASSUME NEW id \in Id, NEW p \in Spots(id, H) PROVE p \in Paths /\ p # NoPath
  <2>1. PICK dir \in {Home} \cup Folder : p = Spot(dir, id)
    BY DEF Spots
  <2> QED
    BY <2>1, SpotKinds
<1>2. \A id \in File : Spots(id, H) \subseteq FileSpots(H)
  BY DEF FileSpots
<1>3. \A id \in File : Spots(id, H) = {Spot(dir, id) : dir \in {Home} \cup H}
  BY DEF Spots
<1>4. \A id \in Id : Spot(Home, id) \in Spots(id, H)
  BY DEF Spots
<1> QED
  BY <1>1, <1>2, <1>3, <1>4

-----------------------------------------------------------------------------
(* The cloud. *)

LEMMA HomesAreLive == HomeFolder \subseteq LiveFolder /\ LiveFolder \subseteq Folder
BY DEF HomeFolder, LiveFolder

LEMMA PlaceIn ==
  ASSUME NEW dir \in Dir, NEW id
  PROVE  PathIn(dir, NameOf[id]) = IF dir \in {Home} \cup HomeFolder THEN Spot(dir, id) ELSE NoPath
BY Names DEF PathIn, Spot, Dir, HomeFolder, LiveFolder, Id

LEMMA ApparentIs ==
  ASSUME CloudTyped, NEW it, it.dir \in Dir, it.dir \in Folder => it.dir \in LiveFolder,
         it.live \in BOOLEAN, NEW id
  PROVE  Apparent(it, id) = Seen(it.live, it.dir, id, HomeFolder)
<1>1. CASE ~it.live
  BY <1>1 DEF Apparent, Seen
<1>2. CASE it.live /\ it.dir \in Folder
  <2>1. it.dir \in HomeFolder <=> item[it.dir].dir = Home
    BY <1>2 DEF HomeFolder
  <2>2. it.dir # Elsewhere /\ Home \notin HomeFolder
    BY <1>2, Names DEF HomeFolder, LiveFolder, Id
  <2> QED
    BY <1>2, <2>1, <2>2, PlaceIn DEF Apparent, Seen, Spot
<1>3. CASE it.live /\ it.dir \notin Folder
  <2>1. it.dir \in {Home, Elsewhere} /\ it.dir \notin HomeFolder /\ Home # Elsewhere
    BY <1>3, Names DEF Dir, HomeFolder, LiveFolder
  <2>2. Elsewhere \notin {Home} \cup HomeFolder
    BY Names DEF HomeFolder, LiveFolder, Id
  <2>3. Apparent(it, id) = PathIn(it.dir, NameOf[id])
    BY <1>3 DEF Apparent
  <2>4. PathIn(it.dir, NameOf[id]) = IF it.dir = Home THEN Spot(Home, id) ELSE NoPath
    BY <2>1, <2>2, PlaceIn
  <2> QED
    BY <1>3, <2>1, <2>3, <2>4 DEF Seen
<1> QED
  BY <1>1, <1>2, <1>3

LEMMA PathIs ==
  ASSUME CloudTyped, NEW id \in Id
  PROVE  /\ PathOf(id) = IF item[id].live /\ item[id].dir \in {Home} \cup HomeFolder
                         THEN Spot(item[id].dir, id) ELSE NoPath
         /\ PathOf(id) # NoPath => item[id].live /\ PathOf(id) \in Spots(id, HomeFolder)
<1>1. item[id] \in Item /\ ItemOK(item[id], id, LiveFolder, kind)
  BY DEF CloudTyped
<1>2. item[id].dir \in Dir
  BY <1>1 DEF Item
<1>3. PathOf(id) = IF item[id].live /\ item[id].dir \in {Home} \cup HomeFolder
                   THEN Spot(item[id].dir, id) ELSE NoPath
  BY <1>2, PlaceIn DEF PathOf
<1>4. id \in File \/ (id \in Folder /\ item[id].dir \notin HomeFolder)
  BY <1>1, HomesAreLive DEF ItemOK, Id
<1>5. PathOf(id) # NoPath => PathOf(id) \in Spots(id, HomeFolder)
  BY <1>3, <1>4 DEF Spots
<1> QED
  BY <1>3, <1>5

-----------------------------------------------------------------------------
(* The tables.  Every update changes one row, n, and its link. *)

SameRow(d, e, g) ==
  /\ g \in DOMAIN d.files <=> g \in DOMAIN e.files
  /\ g \in DOMAIN d.files => PathOfRow(e, g) = PathOfRow(d, g)
  /\ LinkedIn(d, g) <=> LinkedIn(e, g)
  /\ LinkedIn(d, g) => LinkIn(e, g) = LinkIn(d, g)
Others(d, e, n) == \A g : g # n => SameRow(d, e, g)

LEMMA Key ==
  ASSUME NEW d, Tables(d)
  PROVE  /\ \A key \in DOMAIN d.links : key = <<key[1], Cloud>> /\ key[1] \in DOMAIN d.files /\ key[2] = Cloud
         /\ \A g : LinkedIn(d, g) => g \in DOMAIN d.files
         /\ \A g \in DOMAIN d.files : g \in Nat /\ g # 0 /\ g <= d.lastId /\ g # NewId(d)
         /\ \A id : LinkedTo(d, Cloud, id) =
                      {g \in DOMAIN d.files : LinkedIn(d, g) /\ LinkIn(d, g).id = id}
<1>1. \A key \in DOMAIN d.links : key = <<key[1], Cloud>> /\ key[1] \in DOMAIN d.files /\ key[2] = Cloud
  BY DEF Tables
<1>2. \A g : LinkedIn(d, g) => g \in DOMAIN d.files
  BY DEF Tables, LinkedIn
<1>3. \A g \in DOMAIN d.files : g \in Nat /\ g # 0 /\ g <= d.lastId /\ g # NewId(d)
  <2>1. d.lastId \in Nat /\ NewId(d) = d.lastId + 1 /\ DOMAIN d.files \subseteq 1..d.lastId
    BY DEF Tables, NewId
  <2> QED
    BY <2>1
<1>4. ASSUME NEW id
      PROVE  LinkedTo(d, Cloud, id) = {g \in DOMAIN d.files : LinkedIn(d, g) /\ LinkIn(d, g).id = id}
  <2>1. ASSUME NEW g \in LinkedTo(d, Cloud, id)
        PROVE  g \in DOMAIN d.files /\ LinkedIn(d, g) /\ LinkIn(d, g).id = id
    <3>1. PICK key \in DOMAIN d.links : key[1] = g /\ d.links[key].id = id
      BY DEF LinkedTo
    <3>2. key = <<g, Cloud>>
      BY <1>1, <3>1
    <3> QED
      BY <1>1, <3>1, <3>2 DEF LinkedIn, LinkIn
  <2>2. ASSUME NEW g \in DOMAIN d.files, LinkedIn(d, g), LinkIn(d, g).id = id
        PROVE  g \in LinkedTo(d, Cloud, id)
    <3>1. <<g, Cloud>> \in {k \in DOMAIN d.links : k[2] = Cloud /\ d.links[k].id = id}
      BY <2>2 DEF LinkedIn, LinkIn
    <3>2. <<g, Cloud>>[1] = g
      OBVIOUS
    <3> QED
      BY <3>1, <3>2 DEF LinkedTo
  <2> QED
    BY <2>1, <2>2
<1> QED
  BY <1>1, <1>2, <1>3, <1>4

LEMMA RowAdded ==
  ASSUME NEW d, Tables(d), NEW p \in Paths, NEW e, e = WithFile(d, p, None)
  PROVE  /\ Tables(e) /\ e.lastId = NewId(d) /\ NewId(d) = d.lastId + 1
         /\ NewId(d) \notin DOMAIN d.files /\ DOMAIN e.files = DOMAIN d.files \cup {NewId(d)}
         /\ PathOfRow(e, NewId(d)) = p /\ ~LinkedIn(e, NewId(d))
         /\ Others(d, e, NewId(d))
<1> DEFINE n == NewId(d)
           row == [path |-> p, stat |-> None]
           new == Put(d.files, n, row)
<1>1. d.lastId \in Nat /\ n = d.lastId + 1
  BY DEF Tables, NewId
<1>2. e = [d EXCEPT !.files = new, !.lastId = n]
  BY DEF WithFile
<1>3. row \in [path : Paths, stat : {None}] /\ row.path = p
  OBVIOUS
<1> HIDE DEF new, n, row
<1>4. e = [files |-> new, links |-> d.links, lastId |-> n]
  BY <1>2 DEF Tables
<1>5. e.files = new /\ e.links = d.links /\ e.lastId = n
  BY <1>4
<1>6. \A r \in DOMAIN d.files : r \in 1..n /\ r # n
  BY <1>1 DEF Tables
<1>7. /\ DOMAIN new = DOMAIN d.files \cup {n} /\ new[n] = row
      /\ \A r \in DOMAIN d.files : new[r] = d.files[r]
  BY <1>6 DEF Put, new
<1>8. Tables(e)
  <2>1. n \in 1..n /\ n \in Nat
    BY <1>1
  <2>2. \A gid \in DOMAIN new : new[gid] \in [path : Paths, stat : {None}]
    BY <1>3, <1>7 DEF Tables
  <2>3. DOMAIN d.links \subseteq (DOMAIN new) \X {Cloud}
    BY <1>7 DEF Tables
  <2> QED
    BY <1>4, <1>5, <1>6, <1>7, <2>1, <2>2, <2>3 DEF Tables
<1>9. ~LinkedIn(e, n)
  BY <1>5, <1>6, Key DEF LinkedIn
<1>10. Others(d, e, n)
  BY <1>5, <1>7 DEF Others, SameRow, LinkedIn, LinkIn, PathOfRow
<1>11. /\ Tables(e) /\ e.lastId = n /\ n = d.lastId + 1
       /\ n \notin DOMAIN d.files /\ DOMAIN e.files = DOMAIN d.files \cup {n}
       /\ PathOfRow(e, n) = p /\ ~LinkedIn(e, n) /\ Others(d, e, n)
  BY <1>1, <1>3, <1>5, <1>6, <1>7, <1>8, <1>9, <1>10 DEF PathOfRow
<1> QED
  BY <1>11 DEF n

LEMMA LinkAdded ==
  ASSUME NEW d, Tables(d), NEW g \in DOMAIN d.files, ~LinkedIn(d, g), NEW stat,
         NEW e, e = WithLink(d, g, Cloud, stat)
  PROVE  /\ Tables(e) /\ e.lastId = d.lastId /\ e.files = d.files
         /\ LinkedIn(e, g) /\ LinkIn(e, g) = stat /\ Others(d, e, g)
<1> DEFINE stats == [c \in {Cloud} |-> stat]
           key == <<g, Cloud>>
           new == [k \in DOMAIN d.links \cup {key} |-> IF k \in DOMAIN d.links THEN d.links[k] ELSE stat]
<1>1. {g} \X DOMAIN stats = {key}
  OBVIOUS
<1>2. [k \in DOMAIN d.links \cup ({g} \X DOMAIN stats) |->
         IF k \in DOMAIN d.links THEN d.links[k] ELSE stats[k[2]]] = new
  <2>1. \A k \in DOMAIN d.links \cup ({g} \X DOMAIN stats) :
          (IF k \in DOMAIN d.links THEN d.links[k] ELSE stats[k[2]])
          = (IF k \in DOMAIN d.links THEN d.links[k] ELSE stat)
    BY <1>1
  <2> QED
    BY <1>1, <2>1
<1>3. e = [d EXCEPT !.links = new]
  BY <1>2 DEF WithLink, WithLinks
<1> HIDE DEF new
<1>4. e = [files |-> d.files, links |-> new, lastId |-> d.lastId]
  BY <1>3 DEF Tables
<1>5. e.files = d.files /\ e.links = new /\ e.lastId = d.lastId
  BY <1>4
<1>6. /\ DOMAIN new = DOMAIN d.links \cup {key} /\ new[key] = stat
      /\ \A k \in DOMAIN d.links : new[k] = d.links[k]
  BY DEF new, LinkedIn
<1>7. Tables(e)
  BY <1>4, <1>5, <1>6 DEF Tables
<1>8. \A h : h # g => <<h, Cloud>> # key
  OBVIOUS
<1>9. Others(d, e, g)
  BY <1>5, <1>6, <1>8 DEF Others, SameRow, LinkedIn, LinkIn, PathOfRow
<1> QED
  BY <1>5, <1>6, <1>7, <1>9 DEF LinkedIn, LinkIn

LEMMA LinkChanged ==
  ASSUME NEW d, Tables(d), NEW g, LinkedIn(d, g), NEW stat,
         NEW e, e = WithLinkUpdated(d, g, Cloud, stat)
  PROVE  /\ Tables(e) /\ e.lastId = d.lastId /\ e.files = d.files
         /\ LinkedIn(e, g) /\ LinkIn(e, g) = stat /\ Others(d, e, g)
<1> DEFINE key == <<g, Cloud>>
           new == [d.links EXCEPT ![key] = stat]
<1>1. e = [d EXCEPT !.links[key] = stat] /\ key \in DOMAIN d.links
  BY DEF WithLinkUpdated, LinkedIn
<1>2. e = [d EXCEPT !.links = new]
  BY <1>1
<1>3. /\ DOMAIN new = DOMAIN d.links /\ new[key] = stat
      /\ \A k \in DOMAIN d.links : k # key => new[k] = d.links[k]
  BY <1>1
<1> HIDE DEF new
<1>4. e = [files |-> d.files, links |-> new, lastId |-> d.lastId]
  BY <1>2 DEF Tables
<1>5. e.files = d.files /\ e.links = new /\ e.lastId = d.lastId
  BY <1>4
<1>6. Tables(e)
  BY <1>3, <1>4, <1>5 DEF Tables
<1>7. \A h : h # g => <<h, Cloud>> # key
  OBVIOUS
<1>8. Others(d, e, g)
  BY <1>3, <1>5, <1>7 DEF Others, SameRow, LinkedIn, LinkIn, PathOfRow
<1> QED
  BY <1>1, <1>3, <1>5, <1>6, <1>8 DEF LinkedIn, LinkIn

LEMMA LinkMoved ==
  ASSUME NEW d, Tables(d), NEW g, LinkedIn(d, g), NEW parent, NEW time
  PROVE  WithLinkMoved(d, g, Cloud, parent, time)
         = WithLinkUpdated(d, g, Cloud, [LinkIn(d, g) EXCEPT !.parent = parent, !.time = time])
BY DEF WithLinkMoved, WithLinkUpdated, LinkedIn, LinkIn

LEMMA RowMoved ==
  ASSUME NEW d, Tables(d), NEW g \in DOMAIN d.files, NEW p \in Paths,
         NEW e, e = WithFileMoved(d, g, p)
  PROVE  /\ Tables(e) /\ e.lastId = d.lastId /\ e.links = d.links
         /\ DOMAIN e.files = DOMAIN d.files /\ PathOfRow(e, g) = p /\ Others(d, e, g)
<1> DEFINE new == [d.files EXCEPT ![g].path = p]
<1>1. e = [d EXCEPT !.files = new]
  BY DEF WithFileMoved
<1>2. /\ DOMAIN new = DOMAIN d.files /\ new[g] = [d.files[g] EXCEPT !.path = p]
      /\ \A h \in DOMAIN d.files : h # g => new[h] = d.files[h]
  OBVIOUS
<1>3. new[g] \in [path : Paths, stat : {None}] /\ new[g].path = p
  <2>1. d.files[g] \in [path : Paths, stat : {None}]
    BY DEF Tables
  <2> QED
    BY <1>2, <2>1
<1> HIDE DEF new
<1>4. e = [files |-> new, links |-> d.links, lastId |-> d.lastId]
  BY <1>1 DEF Tables
<1>5. e.files = new /\ e.links = d.links /\ e.lastId = d.lastId
  BY <1>4
<1>6. Tables(e)
  BY <1>2, <1>3, <1>4, <1>5 DEF Tables
<1>7. Others(d, e, g)
  BY <1>2, <1>5 DEF Others, SameRow, LinkedIn, LinkIn, PathOfRow
<1> QED
  BY <1>2, <1>3, <1>5, <1>6, <1>7 DEF PathOfRow

LEMMA RowDropped ==
  ASSUME NEW d, Tables(d), NEW g, NEW e, e = WithoutFile(d, g)
  PROVE  /\ Tables(e) /\ e.lastId = d.lastId /\ g \notin DOMAIN e.files /\ ~LinkedIn(e, g)
         /\ DOMAIN e.files = DOMAIN d.files \ {g} /\ Others(d, e, g)
<1> DEFINE files == [i \in DOMAIN d.files \ {g} |-> d.files[i]]
           links == [k \in {k \in DOMAIN d.links : k[1] # g} |-> d.links[k]]
<1>1. e = [d EXCEPT !.files = files, !.links = links]
  BY DEF WithoutFile
<1>2. /\ DOMAIN files = DOMAIN d.files \ {g} /\ \A h \in DOMAIN files : files[h] = d.files[h]
      /\ DOMAIN links = {k \in DOMAIN d.links : k[1] # g} /\ \A k \in DOMAIN links : links[k] = d.links[k]
  OBVIOUS
<1> HIDE DEF files, links
<1>3. e = [files |-> files, links |-> links, lastId |-> d.lastId]
  BY <1>1 DEF Tables
<1>4. e.files = files /\ e.links = links /\ e.lastId = d.lastId
  BY <1>3
<1>5. \A k \in DOMAIN links : k \in (DOMAIN files) \X {Cloud}
  <2> TAKE k \in DOMAIN links
  <2>1. k = <<k[1], Cloud>> /\ k[1] \in DOMAIN d.files /\ k[1] # g
    BY <1>2, Key
  <2> QED
    BY <1>2, <2>1
<1>6. Tables(e)
  BY <1>2, <1>3, <1>4, <1>5 DEF Tables
<1>7. \A h : <<h, Cloud>>[1] = h
  OBVIOUS
<1>8. Others(d, e, g)
  BY <1>2, <1>4, <1>7 DEF Others, SameRow, LinkedIn, LinkIn, PathOfRow
<1>9. ~LinkedIn(e, g)
  BY <1>2, <1>4, <1>7 DEF LinkedIn
<1> QED
  BY <1>2, <1>4, <1>6, <1>8, <1>9

(* What the tables keep: the rows' owners. *)
Keeps(d, e) ==
  /\ d.lastId <= e.lastId
  /\ \A g \in 1..d.lastId :
       g \in DOMAIN e.files =>
         /\ g \in DOMAIN d.files
         /\ LinkedIn(d, g) => LinkedIn(e, g) /\ LinkIn(e, g).id = LinkIn(d, g).id
Spares(d, e) == \A g \in Loose(d) : g \in Loose(e) /\ PathOfRow(e, g) = PathOfRow(d, g)
RowsIn(d, id) ==
  {[gid |-> g, path |-> PathOfRow(d, g), link |-> LinkIn(d, g)] : g \in LinkedTo(d, Cloud, id)}

LEMMA KeepsAll ==
  ASSUME NEW d, Tables(d) PROVE Keeps(d, d)
BY DEF Keeps, Tables

LEMMA KeepsBoth ==
  ASSUME NEW d, NEW e, NEW h, Tables(d), Tables(e), Tables(h), Keeps(d, e), Keeps(e, h)
  PROVE  Keeps(d, h)
<1>1. d.lastId \in Nat /\ e.lastId \in Nat /\ h.lastId \in Nat
  BY DEF Tables
<1>2. d.lastId <= h.lastId
  BY <1>1 DEF Keeps
<1>3. \A g \in 1..d.lastId : g \in 1..e.lastId
  BY <1>1 DEF Keeps
<1> QED
  BY <1>2, <1>3 DEF Keeps

LEMMA RowKept ==
  ASSUME NEW d, NEW e, Tables(d), Tables(e), NEW n, Others(d, e, n), d.lastId <= e.lastId,
         n \in 1..d.lastId /\ n \in DOMAIN e.files =>
           n \in DOMAIN d.files /\ (LinkedIn(d, n) => LinkedIn(e, n) /\ LinkIn(e, n).id = LinkIn(d, n).id)
  PROVE  Keeps(d, e)
<1>1. \A g : g # n => SameRow(d, e, g)
  BY DEF Others
<1>2. ASSUME NEW g \in 1..d.lastId, g \in DOMAIN e.files
      PROVE  g \in DOMAIN d.files /\ (LinkedIn(d, g) => LinkedIn(e, g) /\ LinkIn(e, g).id = LinkIn(d, g).id)
  <2>1. CASE g = n
    BY <1>2, <2>1
  <2>2. CASE g # n
    BY <1>1, <1>2, <2>2 DEF SameRow
  <2> QED
    BY <2>1, <2>2
<1> QED
  BY <1>2 DEF Keeps

LEMMA LooseKept ==
  ASSUME NEW d, NEW e, NEW n, Others(d, e, n)
  PROVE  /\ Loose(d) \ {n} \subseteq Loose(e) /\ Loose(e) \ {n} \subseteq Loose(d)
         /\ \A g \in Loose(e) \ {n} : PathOfRow(e, g) = PathOfRow(d, g)
BY DEF Others, SameRow, Loose

LEMMA RowsKept ==
  ASSUME NEW d, NEW e, Tables(d), Tables(e), NEW n, Others(d, e, n), NEW id,
         LinkedIn(d, n) => LinkIn(d, n).id # id,
         LinkedIn(e, n) => LinkIn(e, n).id # id
  PROVE  LinkedTo(e, Cloud, id) = LinkedTo(d, Cloud, id) /\ RowsIn(e, id) = RowsIn(d, id)
<1>1. LinkedTo(d, Cloud, id) = {g \in DOMAIN d.files : LinkedIn(d, g) /\ LinkIn(d, g).id = id}
  BY Key
<1>2. LinkedTo(e, Cloud, id) = {g \in DOMAIN e.files : LinkedIn(e, g) /\ LinkIn(e, g).id = id}
  BY Key
<1>3. LinkedTo(e, Cloud, id) = LinkedTo(d, Cloud, id)
  BY <1>1, <1>2 DEF Others, SameRow
<1>4. \A g \in LinkedTo(d, Cloud, id) : PathOfRow(e, g) = PathOfRow(d, g) /\ LinkIn(e, g) = LinkIn(d, g)
  BY <1>1 DEF Others, SameRow
<1> QED
  BY <1>3, <1>4 DEF RowsIn

LEMMA RowsAre ==
  ASSUME NEW d, Tables(d), NEW id
  PROVE  /\ \A r \in RowsIn(d, id) :
              /\ r.gid \in DOMAIN d.files /\ LinkedIn(d, r.gid)
              /\ r.path = PathOfRow(d, r.gid) /\ r.link = LinkIn(d, r.gid) /\ r.link.id = id
         /\ \A g \in DOMAIN d.files : LinkedIn(d, g) /\ LinkIn(d, g).id = id =>
              [gid |-> g, path |-> PathOfRow(d, g), link |-> LinkIn(d, g)] \in RowsIn(d, id)
         /\ LinkedTo(d, Cloud, id) = {} <=> RowsIn(d, id) = {}
         /\ LinkedTo(d, Cloud, id) = {r.gid : r \in RowsIn(d, id)}
<1>1. LinkedTo(d, Cloud, id) = {g \in DOMAIN d.files : LinkedIn(d, g) /\ LinkIn(d, g).id = id}
  BY Key
<1>2. \A g, p, l : LET r == [gid |-> g, path |-> p, link |-> l] IN r.gid = g /\ r.path = p /\ r.link = l
  OBVIOUS
<1>3. /\ \A r \in RowsIn(d, id) :
           /\ r.gid \in DOMAIN d.files /\ LinkedIn(d, r.gid)
           /\ r.path = PathOfRow(d, r.gid) /\ r.link = LinkIn(d, r.gid) /\ r.link.id = id
           /\ r.gid \in LinkedTo(d, Cloud, id)
  BY <1>1, <1>2 DEF RowsIn
<1>4. \A g \in LinkedTo(d, Cloud, id) :
        [gid |-> g, path |-> PathOfRow(d, g), link |-> LinkIn(d, g)] \in RowsIn(d, id)
  BY DEF RowsIn
<1>5. LinkedTo(d, Cloud, id) = {} <=> RowsIn(d, id) = {}
  BY <1>3, <1>4
<1>6. ASSUME NEW g \in LinkedTo(d, Cloud, id) PROVE g \in {r.gid : r \in RowsIn(d, id)}
  <2> DEFINE r == [gid |-> g, path |-> PathOfRow(d, g), link |-> LinkIn(d, g)]
  <2>1. r \in RowsIn(d, id) /\ r.gid = g
    BY <1>4
  <2> HIDE DEF r
  <2> QED
    BY <2>1
<1>7. LinkedTo(d, Cloud, id) = {r.gid : r \in RowsIn(d, id)}
  BY <1>3, <1>6
<1> QED
  BY <1>1, <1>3, <1>4, <1>5, <1>7

LEMMA RowTyped ==
  ASSUME NEW d, NEW e, NEW H, DbOK(d, H), Tables(e), NEW n, Others(d, e, n),
         n \in DOMAIN e.files => RowOK(e, n, H),
         n \in DOMAIN e.files /\ LinkedIn(e, n) /\ LinkIn(e, n).id \in Folder =>
           \A g \in DOMAIN d.files : g # n /\ LinkedIn(d, g) => LinkIn(d, g).id # LinkIn(e, n).id
  PROVE  DbOK(e, H)
<1>1. \A g : g # n => SameRow(d, e, g)
  BY DEF Others
<1>2. \A g \in DOMAIN e.files : RowOK(e, g, H)
  <2> TAKE g \in DOMAIN e.files
  <2>1. CASE g = n
    BY <2>1
  <2>2. CASE g # n
    <3>1. SameRow(d, e, g) /\ RowOK(d, g, H)
      BY <1>1, <2>2 DEF SameRow, DbOK
    <3> QED
      BY <3>1 DEF SameRow, RowOK
  <2> QED
    BY <2>1, <2>2
<1>3. FoldersOnce(e)
  <2> SUFFICES ASSUME NEW a \in DOMAIN e.files, NEW b \in DOMAIN e.files,
                      LinkedIn(e, a), LinkedIn(e, b), LinkIn(e, a).id \in Folder,
                      LinkIn(e, a).id = LinkIn(e, b).id, a # b
               PROVE  FALSE
    BY DEF FoldersOnce
  <2>1. CASE a # n /\ b # n
    BY <1>1, <2>1 DEF SameRow, DbOK, FoldersOnce
  <2>2. CASE a = n
    BY <1>1, <2>2 DEF SameRow
  <2>3. CASE b = n
    BY <1>1, <2>3 DEF SameRow
  <2> QED
    BY <2>1, <2>2, <2>3
<1> QED
  BY <1>2, <1>3 DEF DbOK

LEMMA FolderRow ==
  ASSUME NEW d, NEW H \in SUBSET Folder, DbOK(d, H), NEW f \in Folder
  PROVE  /\ RowsOf(d, FolderPath(f)) = LinkedTo(d, Cloud, f)
         /\ LinkedTo(d, Cloud, f) # {} => f \in H
         /\ \A a, b \in LinkedTo(d, Cloud, f) : a = b
<1>1. LinkedTo(d, Cloud, f) = {g \in DOMAIN d.files : LinkedIn(d, g) /\ LinkIn(d, g).id = f}
  BY Key DEF DbOK
<1>2. ASSUME NEW g \in DOMAIN d.files
      PROVE  PathOfRow(d, g) = FolderPath(f) <=> LinkedIn(d, g) /\ LinkIn(d, g).id = f
  <2>1. RowOK(d, g, H)
    BY DEF DbOK
  <2>2. CASE LinkedIn(d, g)
    <3>1. LinkIn(d, g).id \in Id /\ PathOfRow(d, g) \in Spots(LinkIn(d, g).id, H)
      BY <2>1, <2>2 DEF RowOK, LinkSet
    <3> QED
      BY <2>2, <3>1, FolderSpots
  <2>3. CASE ~LinkedIn(d, g)
    BY <2>1, <2>3, FolderSpots DEF RowOK
  <2> QED
    BY <2>2, <2>3
<1>3. RowsOf(d, FolderPath(f)) = LinkedTo(d, Cloud, f)
  BY <1>1, <1>2 DEF RowsOf, PathOfRow
<1>4. \A g \in LinkedTo(d, Cloud, f) : f \in H
  BY <1>1 DEF DbOK, RowOK
<1>5. \A a, b \in LinkedTo(d, Cloud, f) : a = b
  BY <1>1 DEF DbOK, FoldersOnce
<1> QED
  BY <1>3, <1>4, <1>5

LEMMA LinkedRowAdded ==
  ASSUME NEW d, Tables(d), NEW p \in Paths, NEW stat,
         NEW e, e = WithLink(WithFile(d, p, None), NewId(d), Cloud, stat)
  PROVE  /\ Tables(e) /\ e.lastId = NewId(d) /\ NewId(d) = d.lastId + 1
         /\ NewId(d) \notin DOMAIN d.files /\ DOMAIN e.files = DOMAIN d.files \cup {NewId(d)}
         /\ PathOfRow(e, NewId(d)) = p /\ LinkedIn(e, NewId(d)) /\ LinkIn(e, NewId(d)) = stat
         /\ Others(d, e, NewId(d)) /\ Keeps(d, e)
<1> DEFINE a == WithFile(d, p, None)
           n == NewId(d)
<1>1. /\ Tables(a) /\ a.lastId = n /\ n = d.lastId + 1
      /\ n \notin DOMAIN d.files /\ DOMAIN a.files = DOMAIN d.files \cup {n}
      /\ PathOfRow(a, n) = p /\ ~LinkedIn(a, n)
      /\ Others(d, a, n)
  BY RowAdded
<1>2. e = WithLink(a, n, Cloud, stat)
  OBVIOUS
<1> HIDE DEF a, n
<1>3. /\ Tables(e) /\ e.lastId = a.lastId /\ e.files = a.files
      /\ LinkedIn(e, n) /\ LinkIn(e, n) = stat /\ Others(a, e, n)
  BY <1>1, <1>2, LinkAdded
<1>4. Others(d, e, n)
  BY <1>1, <1>3 DEF Others, SameRow
<1>5. PathOfRow(e, n) = p /\ DOMAIN e.files = DOMAIN d.files \cup {n}
  BY <1>1, <1>3 DEF PathOfRow
<1>6. d.lastId \in Nat /\ d.lastId <= e.lastId /\ n \notin 1..d.lastId
  BY <1>1, <1>3 DEF Tables
<1>7. Keeps(d, e)
  BY <1>3, <1>4, <1>6, RowKept
<1> QED
  BY <1>1, <1>3, <1>4, <1>5, <1>7 DEF n

LEMMA FolderMade ==
  ASSUME NEW d, NEW H \in SUBSET Folder, DbOK(d, H), NEW f \in H, NEW e, e = WithFolder(d, f)
  PROVE  /\ DbOK(e, H) /\ Keeps(d, e) /\ Loose(e) = Loose(d) /\ LinkedTo(e, Cloud, f) # {}
         /\ \A g \in Loose(e) : PathOfRow(e, g) = PathOfRow(d, g)
         /\ \A id : id # f => RowsIn(e, id) = RowsIn(d, id)
<1>0. f \in Folder /\ Tables(d) /\ FolderPath(f) \in Paths
  BY FolderSpots DEF DbOK
<1>1. CASE HasRow(d, FolderPath(f))
  <2>1. e = d
    BY <1>1 DEF WithFolder
  <2>2. LinkedTo(d, Cloud, f) # {}
    BY <1>0, <1>1, FolderRow DEF HasRow
  <2> QED
    BY <1>0, <2>1, <2>2, KeepsAll
<1>2. CASE ~HasRow(d, FolderPath(f))
  <2> DEFINE n == NewId(d)
             stat == LinkStat(f, Home, 1, NoHash)
  <2>1. e = WithLink(WithFile(d, FolderPath(f), None), n, Cloud, stat)
    BY <1>2 DEF WithFolder
  <2>2. stat \in LinkSet /\ stat.id = f /\ stat.parent = Home
    BY <1>0 DEF LinkStat, LinkSet, NoHash, Id, Dir
  <2> HIDE DEF stat
  <2>3. /\ Tables(e) /\ e.lastId = n /\ n = d.lastId + 1
        /\ n \notin DOMAIN d.files /\ DOMAIN e.files = DOMAIN d.files \cup {n}
        /\ PathOfRow(e, n) = FolderPath(f) /\ LinkedIn(e, n) /\ LinkIn(e, n) = stat
        /\ Others(d, e, n) /\ Keeps(d, e)
    BY <1>0, <2>1, LinkedRowAdded
  <2> HIDE DEF n
  <2>4. RowOK(e, n, H)
    BY <1>0, <2>2, <2>3, FolderSpots DEF RowOK
  <2>5. LinkedTo(d, Cloud, f) = {}
    BY <1>0, <1>2, FolderRow DEF HasRow
  <2>6. \A g \in DOMAIN d.files : LinkedIn(d, g) => LinkIn(d, g).id # f
    BY <1>0, <2>5, Key
  <2>7. DbOK(e, H)
    BY <2>2, <2>3, <2>4, <2>6, RowTyped
  <2>8. ~LinkedIn(d, n)
    BY <1>0, <2>3, Key
  <2>9. \A id : id # f => RowsIn(e, id) = RowsIn(d, id)
    BY <1>0, <2>2, <2>3, <2>8, RowsKept
  <2>10. LinkedTo(e, Cloud, f) # {}
    BY <2>2, <2>3, Key
  <2>11. Loose(e) = Loose(d) /\ \A g \in Loose(e) : PathOfRow(e, g) = PathOfRow(d, g)
    BY <2>3 DEF Loose, Others, SameRow
  <2> QED
    BY <2>3, <2>7, <2>9, <2>10, <2>11
<1> QED
  BY <1>1, <1>2

-----------------------------------------------------------------------------
(* Types are kept while folders only become more. *)

Grows(L, H, M, J) ==
  /\ H \subseteq L /\ L \subseteq M /\ M \subseteq Folder
  /\ H \subseteq J /\ J \subseteq M /\ J \cap L \subseteq H
World == Grows(LiveFolder, HomeFolder, LiveFolder', HomeFolder')

LEMMA SameWorld ==
  ASSUME item' = item PROVE World /\ LiveFolder' = LiveFolder /\ HomeFolder' = HomeFolder
BY DEF World, Grows, LiveFolder, HomeFolder

LEMMA EntryKept ==
  ASSUME NEW L, NEW H, NEW M, NEW J, Grows(L, H, M, J), NEW e, NEW k, EntryOK(e, H, L, k)
  PROVE  EntryOK(e, J, M, k)
<1>1. CASE e.id = None
  <2>1. e.id \notin Id
    BY <1>1, Names
  <2>2. FileSpots(H) \subseteq FileSpots(J)
    BY SpotsGrow DEF Grows
  <2>3. e.gone /\ e.path \in FileSpots(J) /\ k = "dropbox"
    BY <2>1, <2>2 DEF EntryOK
  <2> QED
    BY <1>1, <2>3 DEF EntryOK
<1>2. CASE e.id # None
  <2>1. /\ e.id \in Id /\ e.path = Seen(~e.gone, e.dir, e.id, H) /\ e.dir \in Dir
        /\ e.dir \in Folder => e.dir \in L
        /\ e.id \in Folder => ~e.gone /\ e.id \in L /\ e.dir = IF e.id \in H THEN Home ELSE Elsewhere
    BY <1>2 DEF EntryOK
  <2>2. e.dir \in H <=> e.dir \in J
    BY <2>1 DEF Grows
  <2>3. e.path = Seen(~e.gone, e.dir, e.id, J)
    BY <2>1, <2>2 DEF Seen
  <2>4. e.id \in Folder => e.id \in M /\ e.dir = IF e.id \in J THEN Home ELSE Elsewhere
    BY <2>1 DEF Grows
  <2>5. e.dir \in Folder => e.dir \in M
    BY <2>1 DEF Grows
  <2>6. k = "dropbox" => e.dir # Elsewhere /\ ~e.gone
    BY <1>2 DEF EntryOK
  <2> QED
    BY <2>1, <2>3, <2>4, <2>5, <2>6 DEF EntryOK
<1> QED
  BY <1>1, <1>2

LEMMA BatchKept ==
  ASSUME TypeInv, World, UNCHANGED <<kind, batch>> PROVE BatchTyped'
<1>1. \A i \in DOMAIN batch : EntryOK(batch[i], HomeFolder', LiveFolder', kind)
  BY EntryKept DEF TypeInv, BatchTyped, World
<1> QED
  BY <1>1 DEF TypeInv, BatchTyped, OneEach

LEMMA BatchEmptied ==
  ASSUME batch' = <<>> PROVE BatchTyped'
<1>1. IsSeq(batch') /\ DOMAIN batch' = {}
  BY NothingSeq
<1> QED
  BY <1>1 DEF BatchTyped, OneEach, IsSeq

LEMMA RegistryKept ==
  ASSUME NEW L, NEW H, NEW M, NEW J, Grows(L, H, M, J), NEW map
  PROVE  /\ RegistryOK(map, H) => RegistryOK(map, J)
         /\ PathMapOK(map, H, L) => PathMapOK(map, J, M)
<1>1. RegistryOK(map, H) => RegistryOK(map, J)
  BY SpotsGrow DEF RegistryOK, Grows
<1>2. ASSUME PathMapOK(map, H, L) PROVE PathMapOK(map, J, M)
  <2>1. \A d \in DOMAIN map : d \in H <=> d \in J
    BY <1>2 DEF PathMapOK, Grows
  <2>2. DOMAIN map \subseteq M
    BY <1>2 DEF PathMapOK, Grows
  <2> QED
    BY <1>2, <2>1, <2>2 DEF PathMapOK
<1> QED
  BY <1>1, <1>2

LEMMA ExpectedKept ==
  ASSUME TypeInv, World, UNCHANGED <<expected, old, pathMap>> PROVE ExpectedTyped'
BY RegistryKept DEF TypeInv, ExpectedTyped, World

LEMMA NothingRegistered ==
  ASSUME NEW H, NEW L PROVE RegistryOK(<<>>, H) /\ PathMapOK(<<>>, H, L)
BY NothingSeq DEF RegistryOK, PathMapOK

LEMMA TablesGrow ==
  ASSUME NEW d, NEW H, NEW J, H \subseteq J, DbOK(d, H) PROVE DbOK(d, J)
<1>1. \A g \in DOMAIN d.files : RowOK(d, g, J)
  <2> TAKE g \in DOMAIN d.files
  <2>1. RowOK(d, g, H)
    BY DEF DbOK
  <2> QED
    BY <2>1, SpotsGrow DEF RowOK
<1> QED
  BY <1>1 DEF DbOK

LEMMA DbKept ==
  ASSUME TypeInv, World, UNCHANGED db PROVE DbTyped' /\ Keeps(db, db')
<1>1. DbOK(db, HomeFolder')
  BY TablesGrow DEF TypeInv, DbTyped, World, Grows
<1>2. Keeps(db, db)
  BY KeepsAll DEF TypeInv, DbTyped, DbOK
<1> QED
  BY <1>1, <1>2 DEF DbTyped

LEMMA OwnerKept ==
  ASSUME NEW d, Tables(d), NEW e, Tables(e), Keeps(d, e), NEW g \in 1..d.lastId
  PROVE  /\ g \in 1..e.lastId
         /\ \A id : OwnerOK(g, id, d) => OwnerOK(g, id, e)
<1>1. g \in 1..e.lastId
  BY DEF Keeps, Tables
<1> QED
  BY <1>1 DEF OwnerOK, Keeps

LEMMA ChangeKept ==
  ASSUME NEW d, Tables(d), NEW e, Tables(e), Keeps(d, e), NEW H, NEW J, H \subseteq J,
         NEW c, ChangeOK(c, d, H)
  PROVE  ChangeOK(c, e, J)
<1>1. c.type # "New" => OwnerOK(c.gid, c.id, e)
  BY OwnerKept DEF ChangeOK, OwnerOK
<1> QED
  BY <1>1, SpotsGrow DEF ChangeOK

LEMMA ChangesKept ==
  ASSUME TypeInv, World, Tables(db'), Keeps(db, db'),
         IsSeq(changes'), IsSeq(out'), IsFiniteSet(doomed'),
         \A c \in InProgress' : c \in InProgress \/ ChangeOK(c, db', HomeFolder')
  PROVE  ChangesTyped'
<1>1. \A c \in InProgress : ChangeOK(c, db', HomeFolder')
  BY ChangeKept DEF TypeInv, ChangesTyped, DbTyped, DbOK, World, Grows
<1> QED
  BY <1>1 DEF ChangesTyped

LEMMA ChangesUntouched ==
  ASSUME TypeInv, World, Tables(db'), Keeps(db, db'), UNCHANGED <<changes, out, doomed>>
  PROVE  ChangesTyped'
<1>1. InProgress' = InProgress
  BY DEF InProgress
<1> QED
  BY <1>1, ChangesKept DEF TypeInv, ChangesTyped

LEMMA ChangesEmptied ==
  ASSUME changes' = <<>>, out' = <<>>, doomed' = {} PROVE ChangesTyped' /\ InProgress' = {}
<1>1. InProgress' = {}
  BY NothingSeq DEF InProgress
<1>2. IsSeq(changes') /\ IsSeq(out')
  BY NothingSeq
<1> QED
  BY <1>1, <1>2, FS_EmptySet DEF ChangesTyped, IsSeq

LEMMA WriteKept ==
  ASSUME NEW d, Tables(d), NEW e, Tables(e), Keeps(d, e), NEW H, NEW J, H \subseteq J,
         NEW w, NEW k, WriteOK(w, d, H, k),
         w.op = "New" => w.gid \in Loose(e) /\ PathOfRow(e, w.gid) = PathOfRow(d, w.gid)
  PROVE  WriteOK(w, e, J, k)
<1>1. w.op # "New" =>
        /\ w.gid \in 1..e.lastId
        /\ w.gid \in DOMAIN e.files => LinkedIn(e, w.gid) /\ LinkIn(e, w.gid).id \in File
  BY OwnerKept DEF WriteOK, Keeps
<1>2. w.op = "New" => w.gid \in Loose(e) /\ PathOfRow(e, w.gid) = w.path
  BY DEF WriteOK
<1> QED
  BY <1>1, <1>2, SpotsGrow DEF WriteOK

LEMMA WritesUntouched ==
  ASSUME TypeInv, World, Tables(db'), Keeps(db, db'), Spares(db, db'), kind' = kind,
         writes' \subseteq writes, stuck' \subseteq FileSpots(HomeFolder')
  PROVE  WritesTyped'
<1>1. \A w \in writes : WriteOK(w, db', HomeFolder', kind)
  <2> TAKE w \in writes
  <2>1. WriteOK(w, db, HomeFolder, kind)
    BY DEF TypeInv, WritesTyped
  <2> QED
    BY <2>1, WriteKept, SMTT(30) DEF TypeInv, DbTyped, DbOK, World, Grows, Spares, WriteOK
<1> QED
  BY <1>1 DEF TypeInv, WritesTyped

LEMMA StuckKept ==
  ASSUME TypeInv, World, NEW p \in FileSpots(HomeFolder), stuck' \subseteq stuck \cup {p}
  PROVE  stuck' \subseteq FileSpots(HomeFolder')
BY SpotsGrow DEF TypeInv, WritesTyped, World, Grows

LEMMA Suffered ==
  ASSUME fate \in [Id -> SUBSET Fates], NEW ids, NEW what \in Fates, Suffers(ids, what)
  PROVE  fate' \in [Id -> SUBSET Fates]
BY DEF Suffers

LEMMA RestKept ==
  ASSUME TypeInv, UNCHANGED <<working, status, out, doomed>>, fate' \in [Id -> SUBSET Fates]
  PROVE  RestTyped'
BY DEF TypeInv, RestTyped, Up

-----------------------------------------------------------------------------
(* The log grows. *)

LEMMA KeysAre ==
  ASSUME NEW id, NEW from, NEW to
  PROVE  /\ IsSeq(Keys(id, from, to))
         /\ kind = "google" => Range(Keys(id, from, to)) = {id}
         /\ kind # "google" =>
              /\ Range(Keys(id, from, to)) = {from, to} \ {NoPath}
              /\ to # NoPath => /\ Len(Keys(id, from, to)) \in DOMAIN Keys(id, from, to)
                                /\ Keys(id, from, to)[Len(Keys(id, from, to))] = to
<1> DEFINE a == IF from \in {to, NoPath} THEN <<>> ELSE <<from>>
           b == IF to = NoPath THEN <<>> ELSE <<to>>
           keys == Keys(id, from, to)
<1>1. CASE kind = "google"
  <2>1. keys = <<id>>
    BY <1>1 DEF Keys
  <2> QED
    BY <1>1, <2>1, SingleSeq
<1>2. CASE kind # "google"
  <2>1. keys = a \o b
    BY <1>2 DEF Keys
  <2>2. /\ IsSeq(a) /\ Range(a) = {from} \ {to, NoPath}
        /\ IsSeq(b) /\ Range(b) = {to} \ {NoPath}
        /\ to # NoPath => Len(b) = 1 /\ 1 \in DOMAIN b /\ b[1] = to
    BY NothingSeq, SingleSeq
  <2> HIDE DEF a, b, keys
  <2>3. /\ IsSeq(keys) /\ Range(keys) = Range(a) \cup Range(b) /\ Len(keys) = Len(a) + Len(b)
        /\ \A i \in DOMAIN b : Len(a) + i \in DOMAIN keys /\ keys[Len(a) + i] = b[i]
    BY <2>1, <2>2, Joined
  <2>4. to # NoPath => Len(keys) \in DOMAIN keys /\ keys[Len(keys)] = to
    BY <2>2, <2>3
  <2>5. Range(keys) = {from, to} \ {NoPath}
    BY <2>2, <2>3
  <2> QED
    BY <1>2, <2>3, <2>4, <2>5 DEF keys
<1> QED
  BY <1>1, <1>2

Fresher == DOMAIN feed' \ DOMAIN feed
LEMMA LogGrows ==
  ASSUME IsSeq(feed), NEW id, NEW it, NEW by, NEW to, Stored(id, it, by),
         to = IF it.live THEN PathIn(it.dir, NameOf[id]) ELSE NoPath
  PROVE  /\ IsSeq(feed') /\ Len(feed') \in Nat /\ Len(feed) <= Len(feed')
         /\ \A n \in DOMAIN feed : n \in DOMAIN feed' /\ feed'[n] = feed[n]
         /\ \A n \in Fresher :
              /\ n \in Nat /\ n > Len(feed) /\ feed'[n].id = id /\ feed'[n].by = by
              /\ IF kind = "google" THEN feed'[n].key = id
                 ELSE feed'[n].key \in {PathOf(id), to} \ {NoPath}
         /\ kind = "google" => \E n \in Fresher : feed'[n].key = id
         /\ kind # "google" =>
              /\ PathOf(id) # NoPath => \E n \in Fresher : feed'[n].key = PathOf(id)
              /\ to # NoPath => Len(feed') \in Fresher /\ feed'[Len(feed')].key = to
<1> DEFINE keys == Keys(id, PathOf(id), to)
           recs == [i \in DOMAIN keys |-> [key |-> keys[i], id |-> id, by |-> by]]
           m == Len(feed)
           n == Len(keys)
           new == feed'
<1>1. new = feed \o recs
  BY DEF Stored
<1>2. IsSeq(keys) /\ n \in Nat /\ DOMAIN keys = 1..n /\ m \in Nat /\ DOMAIN feed = 1..m
  BY KeysAre, SeqFacts
<1>3. /\ kind = "google" => Range(keys) = {id}
      /\ kind # "google" => /\ Range(keys) = {PathOf(id), to} \ {NoPath}
                            /\ to # NoPath => n \in DOMAIN keys /\ keys[n] = to
  BY KeysAre
<1> HIDE DEF keys, n, m, new
<1>4. recs \in [1..n -> {[key |-> keys[i], id |-> id, by |-> by] : i \in 1..n}]
  BY <1>2
<1>5. IsSeq(recs) /\ Len(recs) = n
  BY <1>2, <1>4, FunctionSeq
<1>6. DOMAIN recs = 1..n /\ \A i \in 1..n : recs[i].key = keys[i] /\ recs[i].id = id /\ recs[i].by = by
  BY <1>2
<1> HIDE DEF recs
<1>7. /\ IsSeq(new) /\ Len(new) = m + n
      /\ \A i \in 1..m : i \in DOMAIN new /\ new[i] = feed[i]
      /\ \A i \in 1..n : m + i \in DOMAIN new /\ new[m + i] = recs[i]
  <2>1. IsSeq(feed) /\ IsSeq(recs)
    BY <1>5
  <2>2. /\ IsSeq(feed \o recs) /\ Len(feed \o recs) = Len(feed) + Len(recs)
        /\ \A i \in DOMAIN feed : i \in DOMAIN (feed \o recs) /\ (feed \o recs)[i] = feed[i]
        /\ \A i \in DOMAIN recs : Len(feed) + i \in DOMAIN (feed \o recs) /\ (feed \o recs)[Len(feed) + i] = recs[i]
    BY <2>1, JoinedTo
  <2>3. DOMAIN feed = 1..m /\ DOMAIN recs = 1..n /\ Len(feed) = m
    BY <1>2, <1>6 DEF m
  <2> QED
    BY <1>1, <1>5, <2>2, <2>3
<1>8. DOMAIN new = 1..(m + n)
  BY <1>7, SeqFacts
<1>9. Fresher = {m + i : i \in 1..n}
  <2>1. Fresher = 1..(m + n) \ 1..m
    BY <1>2, <1>8 DEF Fresher, new
  <2>2. \A j \in 1..(m + n) \ 1..m : j - m \in 1..n /\ j = m + (j - m)
    BY <1>2
  <2>3. \A i \in 1..n : m + i \in 1..(m + n) \ 1..m
    BY <1>2
  <2> QED
    BY <2>1, <2>2, <2>3
<1>10. ASSUME NEW j \in Fresher
       PROVE  /\ j \in Nat /\ j > m /\ new[j].id = id /\ new[j].by = by
              /\ new[j].key \in Range(keys)
  <2>1. PICK i \in 1..n : j = m + i
    BY <1>9
  <2>2. j \in Nat /\ j > m /\ new[j] = recs[i] /\ recs[i].key = keys[i]
    BY <1>2, <1>6, <1>7, <2>1
  <2> QED
    BY <1>2, <1>6, <2>2 DEF Range
<1>11. ASSUME NEW k \in Range(keys) PROVE \E j \in Fresher : new[j].key = k
  <2>1. PICK i \in 1..n : keys[i] = k
    BY <1>2 DEF Range
  <2>2. m + i \in Fresher /\ new[m + i].key = k
    BY <1>6, <1>7, <1>9, <2>1
  <2> QED
    BY <2>2
<1>12. kind # "google" /\ to # NoPath => m + n \in Fresher /\ new[m + n].key = to
  BY <1>2, <1>3, <1>6, <1>7, <1>9
<1>13. m + n \in Nat /\ m <= m + n
  BY <1>2
<1>14. /\ IsSeq(new) /\ Len(new) \in Nat /\ m <= Len(new)
       /\ \A i \in DOMAIN feed : i \in DOMAIN new /\ new[i] = feed[i]
       /\ \A j \in Fresher :
            /\ j \in Nat /\ j > m /\ new[j].id = id /\ new[j].by = by
            /\ IF kind = "google" THEN new[j].key = id
               ELSE new[j].key \in {PathOf(id), to} \ {NoPath}
       /\ kind = "google" => \E j \in Fresher : new[j].key = id
       /\ kind # "google" =>
            /\ PathOf(id) # NoPath => \E j \in Fresher : new[j].key = PathOf(id)
            /\ to # NoPath => Len(new) \in Fresher /\ new[Len(new)].key = to
  BY <1>2, <1>3, <1>7, <1>10, <1>11, <1>12, <1>13
<1> QED
  BY <1>14 DEF new, m

LEMMA StoredTyped ==
  ASSUME TypeInv, NEW id \in Id, NEW it \in Item, ItemOK(it, id, LiveFolder, kind),
         id \in Folder => it.live /\ ~item[id].live,
         NEW by \in {"user", "program"}, Stored(id, it, by), UNCHANGED <<kind, token>>
  PROVE  CloudTyped' /\ World /\ item' = [item EXCEPT ![id] = it]
<1>1. CloudTyped /\ item \in [Id -> Item] /\ item' = [item EXCEPT ![id] = it]
  BY DEF TypeInv, CloudTyped, Stored
<1>2. item' \in [Id -> Item] /\ item'[id] = it /\ \A i \in Id \ {id} : item'[i] = item[i]
  BY <1>1
<1>3. ~(id \in LiveFolder)
  BY DEF LiveFolder
<1>4. /\ LiveFolder' \ {id} = LiveFolder /\ HomeFolder' \ {id} = HomeFolder
      /\ LiveFolder' \subseteq Folder /\ HomeFolder' \subseteq LiveFolder'
  BY <1>2, <1>3 DEF LiveFolder, HomeFolder, Id
<1>5. World
  BY <1>3, <1>4, HomesAreLive DEF World, Grows
<1>6. ASSUME NEW i \in Id PROVE ItemOK(item'[i], i, LiveFolder', kind)
  <2>1. ItemOK(item'[i], i, LiveFolder, kind)
    BY <1>1, <1>2 DEF CloudTyped
  <2> QED
    BY <2>1, <1>4 DEF ItemOK
<1>7. DEFINE to == IF it.live THEN PathIn(it.dir, NameOf[id]) ELSE NoPath
<1> HIDE DEF to
<1>8. to # NoPath => to \in Spots(id, HomeFolder')
  <2> SUFFICES ASSUME to # NoPath PROVE to \in Spots(id, HomeFolder')
    OBVIOUS
  <2>1. it.dir \in {Home} \cup HomeFolder /\ to = Spot(it.dir, id)
    BY PlaceIn DEF Item, to
  <2>2. it.dir \in {Home} \cup HomeFolder'
    BY <1>4, <2>1
  <2>3. id \in File \/ it.dir = Home
    BY <2>1, HomesAreLive DEF ItemOK, Id
  <2> QED
    BY <2>1, <2>2, <2>3 DEF Spots
<1>9. PathOf(id) # NoPath => PathOf(id) \in Spots(id, HomeFolder')
  BY <1>1, <1>4, PathIs, SpotsGrow
<1>10. ASSUME NEW n \in DOMAIN feed' PROVE RecordOK(feed'[n], HomeFolder', LiveFolder', kind)
  <2>1. CASE n \in DOMAIN feed
    <3>1. feed'[n] = feed[n] /\ RecordOK(feed[n], HomeFolder, LiveFolder, kind)
      BY <1>1, <2>1, LogGrows DEF CloudTyped
    <3> QED
      BY <1>4, <3>1, SpotsGrow DEF RecordOK
  <2>2. CASE n \notin DOMAIN feed
    <3>1. n \in Fresher
      BY <2>2 DEF Fresher
    <3>2. /\ feed'[n].id = id /\ feed'[n].by = by
          /\ IF kind = "google" THEN feed'[n].key = id
             ELSE feed'[n].key \in {PathOf(id), to} \ {NoPath}
      BY <1>1, <3>1, LogGrows DEF CloudTyped, to
    <3>3. id \in Folder => id \in LiveFolder'
      BY <1>2 DEF LiveFolder
    <3> QED
      BY <1>8, <1>9, <3>2, <3>3 DEF RecordOK
  <2> QED
    BY <2>1, <2>2
<1>11. IsSeq(feed') /\ token \in 0..Len(feed')
  <2>1. IsSeq(feed') /\ Len(feed') \in Nat /\ Len(feed) <= Len(feed') /\ token \in 0..Len(feed) /\ Len(feed) \in Nat
    BY <1>1, LogGrows, SeqFacts DEF CloudTyped
  <2> QED
    BY <2>1
<1> QED
  BY <1>1, <1>2, <1>5, <1>6, <1>10, <1>11 DEF CloudTyped, TypeInv


LEMMA UserTyped ==
  ASSUME TypeInv, NEW id \in Id, NEW it \in Item, ItemOK(it, id, LiveFolder, kind),
         id \in Folder => it.live /\ ~item[id].live, NEW what \in SUBSET Fates, User(id, it, what)
  PROVE  TypeInv'
<1>1. /\ CloudTyped' /\ World
      /\ UNCHANGED <<kind, token, batchVars, expected, workVars, status, own, restarts>>
  BY StoredTyped DEF User
<1>2. UNCHANGED <<batch, working, old, pathMap, out, doomed, changes, writes, stuck, db>>
  BY <1>1 DEF batchVars, workVars
<1>3. BatchTyped' /\ ExpectedTyped'
  BY <1>1, <1>2, BatchKept, ExpectedKept
<1>4. DbTyped' /\ Keeps(db, db') /\ Tables(db') /\ Spares(db, db')
  BY <1>1, <1>2, DbKept DEF DbTyped, DbOK, Spares
<1>5. ChangesTyped'
  BY <1>1, <1>2, <1>4, ChangesUntouched
<1>6. stuck' \subseteq FileSpots(HomeFolder')
  BY <1>1, <1>2, SpotsGrow DEF TypeInv, WritesTyped, World, Grows
<1>7. WritesTyped'
  BY <1>1, <1>2, <1>4, <1>6, WritesUntouched
<1>8. fate' \in [Id -> SUBSET Fates]
  <2>1. fate \in [Id -> SUBSET Fates] /\ "raced" \in Fates
    BY DEF TypeInv, RestTyped, Fates
  <2> QED
    BY <2>1 DEF User
<1>9. RestTyped'
  BY <1>1, <1>2, <1>8, RestKept
<1> QED
  BY <1>1, <1>3, <1>4, <1>5, <1>7, <1>9 DEF TypeInv

LEMMA UsersTyped ==
  ASSUME TypeInv, InCloud PROVE TypeInv'
<1>0. /\ item \in [Id -> Item] /\ \A id \in Id : ItemOK(item[id], id, LiveFolder, kind)
      /\ kind \in {"google", "dropbox"}
      /\ fate \in [Id -> SUBSET Fates] /\ {"same second", "stranger", "moved", "early"} \subseteq Fates
  BY DEF TypeInv, CloudTyped, RestTyped, Fates
<1>1. ASSUME NEW id \in Id, NEW dir, dir \in Place(id)
      PROVE  /\ dir \in Dir /\ (dir \in Folder => dir \in LiveFolder /\ id \in File)
             /\ kind = "dropbox" => dir # Elsewhere
  BY <1>0, <1>1, Names DEF Place, Dir, LiveFolder
<1>2. ASSUME NEW id \in Id, NEW dir, UserCreates(id, dir) PROVE TypeInv'
  <2> DEFINE it == [dir |-> dir, time |-> 1, hash |-> 1, live |-> TRUE]
             what == IF dir \in Folder /\ item[dir].dir # Home THEN {"stranger"} ELSE {}
  <2>1. User(id, it, what) /\ ~Born(id) /\ dir \in Place(id)
    BY <1>2 DEF UserCreates
  <2>5. /\ dir \in Dir /\ (dir \in Folder => dir \in LiveFolder /\ id \notin Folder)
        /\ kind = "dropbox" => dir # Elsewhere
    BY <1>1, <2>1, Names
  <2>6. it \in Item /\ it.live /\ it.time > 0 /\ it.dir = dir
    BY <2>5 DEF Item
  <2>2. it \in Item /\ it.live /\ it.time > 0 /\ it.dir = dir /\ what \in SUBSET Fates
    BY <1>0, <2>6
  <2>3. ~item[id].live
    BY <1>0, <2>1 DEF Born, ItemOK
  <2> HIDE DEF it, what
  <2>4. ItemOK(it, id, LiveFolder, kind)
    BY <2>2, <2>5 DEF ItemOK
  <2> QED
    BY <2>1, <2>2, <2>3, <2>4, UserTyped
<1>3. ASSUME NEW id \in File, NEW dir, UserMoves(id, dir) PROVE TypeInv'
  <2> DEFINE it == [item[id] EXCEPT !.dir = dir]
             what == (IF kind = "dropbox" THEN {"moved"} ELSE {})
               \cup (IF dir \in Folder /\ item[dir].dir # Home THEN {"stranger"} ELSE {})
               \cup (IF dir \in Folder /\ Known(dir) = {} THEN {"early"} ELSE {})
               \cup (fate[id] \cap {"same second"})
  <2>1. User(id, it, what) /\ dir \in Place(id) /\ id \in Id /\ id \notin Folder
    BY <1>3, Names DEF UserMoves
  <2>5. /\ dir \in Dir /\ (dir \in Folder => dir \in LiveFolder)
        /\ kind = "dropbox" => dir # Elsewhere
    BY <1>1, <2>1
  <2>6. item[id] \in Item /\ ItemOK(item[id], id, LiveFolder, kind)
    BY <1>0, <2>1
  <2>2. it \in Item /\ it.live = item[id].live /\ it.time = item[id].time /\ it.dir = dir
    BY <2>5, <2>6 DEF Item
  <2>3. what \in SUBSET Fates
    BY <1>0
  <2> HIDE DEF it, what
  <2>4. ItemOK(it, id, LiveFolder, kind)
    BY <2>1, <2>2, <2>5, <2>6 DEF ItemOK
  <2> QED
    BY <2>1, <2>2, <2>3, <2>4, UserTyped
<1>4. ASSUME NEW id \in File, UserTrashes(id) PROVE TypeInv'
  <2> DEFINE it == [item[id] EXCEPT !.live = FALSE]
             what == fate[id] \cap {"same second"}
  <2>1. User(id, it, what) /\ id \in Id /\ id \notin Folder
    BY <1>4, Names DEF UserTrashes
  <2>2. it \in Item /\ ~it.live /\ it.dir = item[id].dir
    BY <1>0, <2>1 DEF Item
  <2>3. what \in SUBSET Fates
    BY <1>0
  <2> HIDE DEF it, what
  <2>4. ItemOK(it, id, LiveFolder, kind)
    BY <1>0, <2>1, <2>2 DEF ItemOK
  <2> QED
    BY <2>1, <2>2, <2>3, <2>4, UserTyped
<1>5. ASSUME NEW id \in File, UserRestores(id) PROVE TypeInv'
  <2> DEFINE it == [item[id] EXCEPT !.live = TRUE]
             what == fate[id] \cap {"same second"}
  <2>1. User(id, it, what) /\ id \in Id /\ id \notin Folder /\ item[id].time > 0
    BY <1>5, Names DEF UserRestores, Born
  <2>2. it \in Item /\ it.live /\ it.dir = item[id].dir /\ it.time = item[id].time
    BY <1>0, <2>1 DEF Item
  <2>3. what \in SUBSET Fates
    BY <1>0
  <2> HIDE DEF it, what
  <2>4. ItemOK(it, id, LiveFolder, kind)
    BY <1>0, <2>1, <2>2 DEF ItemOK
  <2> QED
    BY <2>1, <2>2, <2>3, <2>4, UserTyped
<1>6. ASSUME NEW id \in File, NEW later \in 0..1, UserEdits(id, later) PROVE TypeInv'
  <2> DEFINE it == [item[id] EXCEPT !.time = @ + later, !.hash = @ + 1]
             what == IF later = 0 THEN {"same second"} ELSE {}
  <2>1. User(id, it, what) /\ id \in Id /\ id \notin Folder /\ item[id].live
    BY <1>6, Names DEF UserEdits
  <2>2. item[id].time \in Nat /\ item[id].time > 0
    BY <1>0, <2>1 DEF Item, ItemOK
  <2>6. item[id] \in Item /\ item[id].time + later \in Nat /\ item[id].time + later > 0
    <3>1. item[id] \in Item
      BY <1>0, <2>1
    <3>2. later \in Nat
      OBVIOUS
    <3> QED
      BY <2>2, <3>1, <3>2
  <2>3. it \in Item /\ it.live /\ it.dir = item[id].dir /\ it.time > 0
    <3> DEFINE was == item[id]
               time == item[id].time + later
               hash == item[id].hash + 1
    <3>4. was \in Item /\ was.live /\ time \in Nat /\ time > 0
      BY <2>1, <2>6
    <3>5. was.hash \in Nat
      BY <3>4 DEF Item
    <3>1. was \in Item /\ was.live /\ time \in Nat /\ hash \in Nat /\ time > 0
      BY <3>4, <3>5
    <3>2. it = [was EXCEPT !.time = time, !.hash = hash]
      OBVIOUS
    <3> HIDE DEF it, was, time, hash
    <3>3. it \in Item /\ it.live /\ it.dir = was.dir /\ it.time > 0
      BY <3>1, <3>2 DEF Item
    <3> QED
      BY <3>3 DEF was
  <2>4. what \in SUBSET Fates
    BY <1>0
  <2> HIDE DEF it, what
  <2>5. ItemOK(it, id, LiveFolder, kind)
    BY <1>0, <2>1, <2>3 DEF ItemOK
  <2> QED
    BY <2>1, <2>3, <2>4, <2>5, UserTyped
<1> QED
  BY <1>2, <1>3, <1>4, <1>5, <1>6 DEF InCloud

LEMMA Smallest ==
  ASSUME NEW T, T \subseteq Nat, T # {}
  PROVE  \E x \in T : \A y \in T : x <= y
<1> DEFINE R == OpToRel(<, Nat)
<1>1. IsWellFoundedOn(R, Nat)
  BY NatLessThanWellFounded
<1>2. \A x, y \in Nat : <<y, x>> \notin R => x <= y
  BY DEF OpToRel
<1> HIDE DEF R
<1>3. PICK x \in T : \A y \in T : ~(<<y, x>> \in R)
  BY <1>1, WFMin
<1> QED
  BY <1>2, <1>3

LEMMA Largest ==
  ASSUME NEW n \in Nat, NEW T, T \subseteq 1..n, T # {}
  PROVE  \E x \in T : \A y \in T : y <= x
<1> DEFINE S == {n - x : x \in T}
<1>1. S \subseteq Nat /\ S # {}
  <2>1. \A x \in T : n - x \in Nat
    OBVIOUS
  <2> QED
    BY <2>1
<1>2. PICK z \in S : \A y \in S : z <= y
  <2> HIDE DEF S
  <2> QED
    BY <1>1, Smallest
<1>3. PICK x \in T : z = n - x
  OBVIOUS
<1>4. ASSUME NEW y \in T PROVE y <= x
  <2>1. n - x <= n - y /\ x \in 1..n /\ y \in 1..n
    BY <1>2, <1>3
  <2> QED
    BY <2>1
<1> QED
  BY <1>4

LEMMA Cut ==
  ASSUME NEW s, IsSeq(s), NEW m \in 0..Len(s), NEW u, u = SubSeq(s, m + 1, Len(s))
  PROVE  /\ IsSeq(u) /\ Len(u) = Len(s) - m
         /\ \A i \in DOMAIN u : m + i \in DOMAIN s /\ u[i] = s[m + i]
         /\ \A i \in DOMAIN s : i > m => i - m \in DOMAIN u /\ u[i - m] = s[i]
<1> DEFINE n == Len(s)
           S == Range(s)
<1>0. s \in Seq(S)
  BY DEF IsSeq
<1> HIDE DEF S
<1>1. n \in Nat /\ DOMAIN s = 1..n /\ m \in 0..n /\ \A i \in 1..n : s[i] \in S
  BY <1>0, LenProperties, ElementOfSeq
<1> HIDE DEF n
<1>2. /\ u \in Seq(S) /\ Len(u) = n - m /\ \A i \in 1..(n - m) : u[i] = s[m + i]
  <2>1. \A i \in (m + 1)..n : s[i] \in S
    BY <1>1
  <2>2. m + 1 \in Int /\ n \in Int /\ n - (m + 1) + 1 = n - m /\ (~(m + 1 <= n) => n - m = 0)
    BY <1>1
  <2>3. /\ u \in Seq(S) /\ Len(u) = IF m + 1 <= n THEN n - (m + 1) + 1 ELSE 0
        /\ \A i \in 1..(n - (m + 1) + 1) : u[i] = s[m + 1 + i - 1]
    <3>1. u = SubSeq(s, m + 1, n)
      BY DEF n
    <3> QED
      BY <1>0, <2>1, <2>2, <3>1, SubSeqProperties
  <2>4. \A i \in 1..(n - m) : m + 1 + i - 1 = m + i
    BY <1>1
  <2> QED
    BY <2>2, <2>3, <2>4
<1>3. DOMAIN u = 1..(n - m) /\ IsSeq(u)
  BY <1>2, LenProperties, SeqOfRange DEF IsSeq
<1>4. \A i \in 1..(n - m) : m + i \in 1..n
  BY <1>1
<1>5. \A i \in 1..n : i > m => i - m \in 1..(n - m) /\ m + (i - m) = i
  BY <1>1
<1> QED
  BY <1>1, <1>2, <1>3, <1>4, <1>5 DEF n

(* A page: for each key its last record, in the order of the log. *)
LEMMA PageIs ==
  ASSUME NEW log, IsSeq(log), NEW page, page = LastOf(log)
  PROVE  \E pos :
           /\ IsSeq(page)
           /\ \A n \in DOMAIN page : pos[n] \in DOMAIN log /\ page[n] = log[pos[n]]
           /\ \A m, n \in DOMAIN page : m < n => pos[m] < pos[n]
           /\ \A m, n \in DOMAIN page : page[m].key = page[n].key => m = n
           /\ \A i \in DOMAIN log : \E n \in DOMAIN page : page[n].key = log[i].key /\ i <= pos[n]
<1> DEFINE len == Len(log)
           last == {i \in DOMAIN log : \A j \in DOMAIN log : j > i => log[j].key # log[i].key}
           low(i) == {j \in last : j <= i}
           rank == [i \in last |-> Cardinality(low(i))]
           c == Cardinality(last)
           nth == [n \in 1..c |-> CHOOSE i \in last : Cardinality({j \in last : j <= i}) = n]
<1>1. len \in Nat /\ DOMAIN log = 1..len
  BY SeqFacts
<1>2. page = [n \in 1..c |-> log[nth[n]]]
  BY DEF LastOf
<1> HIDE DEF nth, c, rank, len
<1>3. last \subseteq 1..len /\ last \subseteq Nat /\ IsFiniteSet(last)
  <2>1. IsFiniteSet(1..len)
    BY <1>1, FS_Interval
  <2>2. last \subseteq 1..len
    BY <1>1
  <2> HIDE DEF last
  <2>3. last \in SUBSET (1..len) /\ last \subseteq Nat
    BY <1>1, <2>2
  <2> QED
    BY <2>1, <2>3, FS_Subset
<1>4. \A i \in last, j \in last : log[i].key = log[j].key => i = j
  <2> SUFFICES ASSUME NEW i \in last, NEW j \in last, log[i].key = log[j].key, i # j PROVE FALSE
    OBVIOUS
  <2>1. i \in Nat /\ j \in Nat /\ i \in DOMAIN log /\ j \in DOMAIN log
    BY <1>3
  <2>2. i > j \/ j > i
    BY <2>1
  <2> QED
    BY <2>1, <2>2
<1>5. \A i \in DOMAIN log : \E j \in last : log[j].key = log[i].key /\ i <= j
  <2> TAKE i \in DOMAIN log
  <2> DEFINE T == {j \in 1..len : log[j].key = log[i].key}
  <2>1. T \subseteq 1..len /\ T # {}
    BY <1>1
  <2>2. PICK x \in T : \A y \in T : y <= x
    <3> HIDE DEF T
    <3> QED
      BY <1>1, <2>1, Largest
  <2>3. x \in DOMAIN log /\ log[x].key = log[i].key /\ i <= x /\ x \in Nat
    BY <1>1, <2>2
  <2>4. \A j \in DOMAIN log : j > x => log[j].key # log[x].key
    BY <1>1, <2>2, <2>3
  <2> QED
    BY <2>3, <2>4
<1> HIDE DEF last
<1>6. ASSUME NEW i \in last PROVE IsFiniteSet(low(i)) /\ rank[i] = Cardinality(low(i)) /\ rank[i] \in 1..c /\ rank[i] \in Nat
  <2>1. low(i) \in SUBSET last /\ i \in low(i)
    BY <1>3
  <2>2. IsFiniteSet(low(i)) /\ Cardinality(low(i)) <= c /\ Cardinality(low(i)) # 0
    <3> HIDE DEF low
    <3> QED
      BY <1>3, <2>1, FS_Subset, FS_EmptySet DEF c
  <2>3. Cardinality(low(i)) \in Nat /\ c \in Nat
    BY <1>3, <2>2, FS_CardinalityType DEF c
  <2> QED
    BY <2>2, <2>3 DEF rank
<1>7. ASSUME NEW i \in last, NEW j \in last, i < j PROVE rank[i] < rank[j]
  <2>1. low(i) \in SUBSET low(j) /\ low(i) # low(j)
    <3>1. i \in Nat /\ j \in Nat /\ ~(j <= i) /\ j <= j /\ \A k \in Nat : k <= i => k <= j
      BY <1>3, <1>7
    <3>2. \A k \in low(i) : k \in last /\ k \in Nat /\ k <= i
      BY <1>3
    <3>3. j \in low(j) /\ j \notin low(i)
      BY <3>1
    <3> QED
      BY <3>1, <3>2, <3>3
  <2> HIDE DEF low
  <2>2. Cardinality(low(i)) <= Cardinality(low(j)) /\ Cardinality(low(i)) # Cardinality(low(j))
    BY <1>6, <2>1, FS_Subset
  <2>3. rank[i] \in Nat /\ rank[j] \in Nat /\ rank[i] <= rank[j] /\ rank[i] # rank[j]
    BY <1>6, <2>2
  <2> QED
    BY <2>3
<1>8. c \in Nat /\ Cardinality(1..c) = c /\ IsFiniteSet(1..c)
  <2>1. c \in Nat
    BY <1>3, FS_CardinalityType DEF c
  <2> QED
    BY <2>1, FS_Interval
<1>9. \A i, j \in last : rank[i] = rank[j] => i = j
  <2> SUFFICES ASSUME NEW i \in last, NEW j \in last, rank[i] = rank[j], i # j PROVE FALSE
    OBVIOUS
  <2>1. i < j \/ j < i
    BY <1>3
  <2>2. rank[i] \in Nat /\ rank[j] \in Nat
    BY <1>6
  <2> QED
    BY <1>7, <2>1, <2>2
<1>10. rank \in Injection(last, 1..c)
  <2>1. rank \in [last -> 1..c]
    BY <1>6 DEF rank
  <2> QED
    BY <1>9, <2>1 DEF Injection, IsInjective
<1>11. rank \in Surjection(last, 1..c)
  BY <1>8, <1>10, FS_Injection DEF c
<1>12. ASSUME NEW n \in 1..c PROVE nth[n] \in last /\ rank[nth[n]] = n
  <2>1. \E i \in last : rank[i] = n
    BY <1>11 DEF Surjection
  <2>2. \E i \in last : Cardinality({j \in last : j <= i}) = n
    BY <1>6, <2>1
  <2>3. nth[n] = CHOOSE i \in last : Cardinality({j \in last : j <= i}) = n
    BY DEF nth
  <2>4. nth[n] \in last /\ Cardinality({j \in last : j <= nth[n]}) = n
    BY <2>2, <2>3
  <2> QED
    BY <1>6, <2>4
<1> HIDE DEF low
<1>13. \A i \in last : rank[i] \in 1..c /\ nth[rank[i]] = i
  BY <1>6, <1>9, <1>12
<1>14. ASSUME NEW m \in 1..c, NEW n \in 1..c, m < n PROVE nth[m] < nth[n]
  <2>1. nth[m] \in last /\ nth[n] \in last /\ rank[nth[m]] = m /\ rank[nth[n]] = n
    BY <1>12
  <2>2. nth[m] \in Nat /\ nth[n] \in Nat
    BY <1>3, <2>1
  <2>3. CASE nth[n] < nth[m]
    <3>1. rank[nth[n]] < rank[nth[m]]
      BY <1>7, <2>1, <2>3
    <3> QED
      BY <1>8, <1>14, <2>1, <3>1
  <2>4. CASE nth[n] = nth[m]
    BY <1>8, <1>14, <2>1, <2>4
  <2> QED
    BY <2>2, <2>3, <2>4
<1>15. IsSeq(page) /\ DOMAIN page = 1..c
  <2>1. page \in [1..c -> {log[i] : i \in last}]
    BY <1>2, <1>12
  <2> QED
    BY <1>8, <2>1, FunctionSeq
<1>16. \A n \in 1..c : nth[n] \in last /\ nth[n] \in DOMAIN log /\ page[n] = log[nth[n]]
  BY <1>1, <1>2, <1>3, <1>12
<1>17. \A m, n \in 1..c : page[m].key = page[n].key => m = n
  BY <1>4, <1>12, <1>16
<1>18. \A i \in DOMAIN log : \E n \in 1..c : page[n].key = log[i].key /\ i <= nth[n]
  <2> TAKE i \in DOMAIN log
  <2>1. PICK j \in last : log[j].key = log[i].key /\ i <= j
    BY <1>5
  <2> QED
    BY <1>13, <1>16, <2>1
<1> QED
  BY <1>14, <1>15, <1>16, <1>17, <1>18


LEMMA UnreadIs ==
  ASSUME CloudTyped
  PROVE  /\ IsSeq(Unread) /\ Len(Unread) = Len(feed) - token
         /\ \A i \in DOMAIN Unread : token + i \in DOMAIN feed /\ Unread[i] = feed[token + i]
         /\ \A n \in DOMAIN feed : n > token => n - token \in DOMAIN Unread /\ Unread[n - token] = feed[n]
<1>1. IsSeq(feed) /\ token \in 0..Len(feed) /\ Unread = SubSeq(feed, token + 1, Len(feed))
  BY DEF CloudTyped, Unread
<1>2. \A u : u = SubSeq(feed, token + 1, Len(feed)) =>
        /\ IsSeq(u) /\ Len(u) = Len(feed) - token
        /\ \A i \in DOMAIN u : token + i \in DOMAIN feed /\ u[i] = feed[token + i]
        /\ \A n \in DOMAIN feed : n > token => n - token \in DOMAIN u /\ u[n - token] = feed[n]
  BY <1>1, Cut
<1> QED
  BY <1>1, <1>2

LEMMA AtIs ==
  ASSUME CloudTyped, NEW p
  PROVE  /\ p \in FileSpots(HomeFolder) => At(p) \subseteq File
         /\ \A id \in At(p) : id \in Id /\ item[id].live /\ PathOf(id) = p /\ p \in Spots(id, HomeFolder)
<1>1. \A id \in At(p) : id \in Id /\ item[id].live /\ PathOf(id) = p /\ p \in Spots(id, HomeFolder)
  BY PathIs DEF At
<1>2. ASSUME NEW d \in At(p), d \in Folder PROVE p \notin FileSpots(HomeFolder)
  <2>1. p = FolderPath(d)
    BY <1>1, <1>2, FolderSpots
  <2>2. HomeFolder \in SUBSET Folder
    BY HomesAreLive
  <2> QED
    BY <1>2, <2>1, <2>2, FolderSpots
<1> QED
  BY <1>1, <1>2 DEF Id

(* What the program reads of a record. *)
LEMMA EntryIs ==
  ASSUME CloudTyped, NEW rec, RecordOK(rec, HomeFolder, LiveFolder, kind), NEW e, e = EntryOf(rec)
  PROVE  /\ EntryOK(e, HomeFolder, LiveFolder, kind)
         /\ e.by = IF \E i \in DOMAIN Unread : Unread[i].id = rec.id /\ Unread[i].by = "user"
                   THEN "user" ELSE "program"
         /\ e.id \in Id => /\ e.gone = ~item[e.id].live /\ e.dir = item[e.id].dir
                            /\ e.time = item[e.id].time /\ e.hash = item[e.id].hash
         /\ kind = "google" => e.id = rec.key
         /\ kind = "dropbox" => IF At(rec.key) = {} THEN e.id = None /\ e.path = rec.key
                                ELSE e.id \in At(rec.key) /\ e.path = rec.key
<1> DEFINE by == IF \E i \in DOMAIN Unread : Unread[i].id = rec.id /\ Unread[i].by = "user"
                 THEN "user" ELSE "program"
           of(id) == [id |-> id, gone |-> ~item[id].live, dir |-> item[id].dir,
                      path |-> Apparent(item[id], id), time |-> item[id].time,
                      hash |-> item[id].hash, by |-> by]
<1>1. /\ item \in [Id -> Item] /\ kind \in {"google", "dropbox"}
      /\ \A id \in Id : ItemOK(item[id], id, LiveFolder, kind)
  BY DEF CloudTyped
<1>2. by \in {"user", "program"}
  OBVIOUS
<1> HIDE DEF by
<1>3. e = IF kind = "google" THEN of(rec.key)
          ELSE IF At(rec.key) # {} THEN of(CHOOSE id \in At(rec.key) : TRUE)
          ELSE [id |-> None, gone |-> TRUE, dir |-> Home, path |-> rec.key,
                time |-> 0, hash |-> NoHash, by |-> by]
  BY DEF EntryOf, by
<1>4. ASSUME NEW id \in Id, kind = "dropbox" => item[id].live, id \in Folder => item[id].live
      PROVE  /\ of(id).id = id /\ of(id).gone = ~item[id].live /\ of(id).dir = item[id].dir
             /\ of(id).time = item[id].time /\ of(id).hash = item[id].hash /\ of(id).by = by
             /\ of(id).path = Apparent(item[id], id)
             /\ EntryOK(of(id), HomeFolder, LiveFolder, kind)
  <2> DEFINE it == item[id]
             f == of(id)
  <2>1. it \in Item /\ ItemOK(it, id, LiveFolder, kind)
    BY <1>1
  <2>2. /\ f.id = id /\ f.gone = ~it.live /\ f.dir = it.dir /\ f.time = it.time
        /\ f.hash = it.hash /\ f.by = by /\ f.path = Apparent(it, id)
    OBVIOUS
  <2> HIDE DEF f
  <2>3. /\ it.dir \in Dir /\ it.live \in BOOLEAN /\ it.time \in Nat /\ it.hash \in Nat
        /\ it.dir \in Folder => it.dir \in LiveFolder
    BY <2>1 DEF Item, ItemOK
  <2> HIDE DEF it
  <2>4. f.path = Seen(it.live, it.dir, id, HomeFolder) /\ ~f.gone = it.live
    BY <2>2, <2>3, ApparentIs
  <2>5. id \in Folder => /\ ~f.gone /\ id \in LiveFolder
                         /\ f.dir = IF id \in HomeFolder THEN Home ELSE Elsewhere
    <3>1. id \in Folder => it.live /\ it.dir \in {Home, Elsewhere}
      BY <1>4, <2>1, <2>3 DEF Dir, ItemOK, it
    <3> QED
      BY <2>2, <3>1 DEF HomeFolder, LiveFolder, it
  <2>6. kind = "dropbox" => f.dir # Elsewhere /\ ~f.gone
    BY <1>4, <2>1, <2>2 DEF ItemOK, it
  <2>7. EntryOK(f, HomeFolder, LiveFolder, kind)
    BY <1>2, <2>2, <2>3, <2>4, <2>5, <2>6 DEF EntryOK
  <2> QED
    BY <2>2, <2>7 DEF f, it
<1>5. CASE kind = "google"
  <2>1. e = of(rec.key) /\ rec.key \in Id /\ (rec.key \in Folder => item[rec.key].live) /\ kind # "dropbox"
    BY <1>3, <1>5 DEF RecordOK, LiveFolder
  <2> HIDE DEF of
  <2> QED
    BY <1>4, <1>5, <2>1 DEF by
<1>6. CASE kind = "dropbox" /\ At(rec.key) # {}
  <2> DEFINE id == CHOOSE id \in At(rec.key) : TRUE
  <2>1. e = of(id) /\ id \in At(rec.key)
    BY <1>3, <1>6
  <2> HIDE DEF of, id
  <2>2. id \in Id /\ item[id].live /\ PathOf(id) = rec.key /\ rec.key # NoPath
    BY <2>1 DEF At, PathOf
  <2>3. Apparent(item[id], id) = PathOf(id)
    <3>1. item[id].dir \in Dir /\ (item[id].dir \in Folder => item[id].dir \in LiveFolder)
      BY <1>1, <2>2 DEF Item, ItemOK
    <3>2. item[id].dir \in {Home} \cup HomeFolder
      BY <1>1, <2>2, PathIs
    <3>3. item[id].dir \in Folder => item[item[id].dir].dir = Home
      BY <3>2, Names DEF HomeFolder, Id
    <3> QED
      BY <2>2, <3>3 DEF Apparent, PathOf
  <2> QED
    BY <1>4, <1>6, <2>1, <2>2, <2>3 DEF by
<1>7. CASE kind = "dropbox" /\ At(rec.key) = {}
  <2>1. /\ e.id = None /\ e.gone = TRUE /\ e.dir = Home /\ e.path = rec.key
        /\ e.time = 0 /\ e.hash = 0 /\ e.by = by
    BY <1>3, <1>7 DEF NoHash
  <2>2. rec.key \in Spots(rec.id, HomeFolder) /\ rec.id \in Id
    BY <1>7 DEF RecordOK
  <2>3. rec.id \notin Folder
    <3> SUFFICES ASSUME rec.id \in Folder PROVE FALSE
      OBVIOUS
    <3> DEFINE d == rec.id
    <3>1. d \in LiveFolder /\ d \in Id
      BY <2>2 DEF RecordOK
    <3>2. item[d].live /\ item[d].dir = Home
      BY <1>1, <1>7, <3>1 DEF ItemOK, Item, Dir, LiveFolder
    <3>3. rec.key = FolderPath(d) /\ FolderPath(d) = Spot(Home, d) /\ FolderPath(d) # NoPath
      BY <2>2, FolderSpots
    <3>4. PathOf(d) = Spot(Home, d)
      BY <3>1, <3>2, PathIs
    <3> QED
      BY <1>7, <3>1, <3>3, <3>4 DEF At
  <2>4. rec.key \in FileSpots(HomeFolder)
    BY <2>2, <2>3 DEF FileSpots, Id
  <2>5. None \notin Id /\ Home \in Dir
    BY Names DEF Dir
  <2>6. EntryOK(e, HomeFolder, LiveFolder, kind)
    <3>1. e.gone \in BOOLEAN
      BY <2>1, Zenon
    <3>2. e.time \in Nat /\ e.hash \in Nat
      BY <2>1
    <3> QED
      BY <1>2, <1>7, <2>1, <2>4, <2>5, <3>1, <3>2 DEF EntryOK
  <2> QED
    BY <1>7, <2>1, <2>5, <2>6 DEF by
<1> QED
  BY <1>1, <1>5, <1>6, <1>7

LEMMA FetchedIs ==
  ASSUME CloudTyped, Fetch
  PROVE  \E pos :
           /\ IsSeq(batch')
           /\ \A i \in DOMAIN batch' : /\ pos[i] \in DOMAIN feed /\ token < pos[i]
                                       /\ batch'[i] = EntryOf(feed[pos[i]])
           /\ \A i, j \in DOMAIN batch' : i < j => pos[i] < pos[j]
           /\ \A i, j \in DOMAIN batch' : feed[pos[i]].key = feed[pos[j]].key => i = j
           /\ \A n \in DOMAIN feed : n > token =>
                \E i \in DOMAIN batch' : feed[pos[i]].key = feed[n].key /\ n <= pos[i]
<1> DEFINE page == LastOf(Unread)
<1>1. batch' = [i \in DOMAIN page |-> EntryOf(page[i])]
  BY DEF Fetch
<1>2. /\ IsSeq(Unread) /\ token \in Nat
      /\ \A i \in DOMAIN Unread : i \in Nat /\ i > 0 /\ token + i \in DOMAIN feed /\ Unread[i] = feed[token + i]
      /\ \A n \in DOMAIN feed : n > token => n - token \in DOMAIN Unread /\ Unread[n - token] = feed[n]
  <2>1. IsSeq(Unread) /\ DOMAIN Unread = 1..Len(Unread) /\ Len(Unread) \in Nat
    BY UnreadIs, SeqFacts
  <2>2. \A i \in DOMAIN Unread : i \in Nat /\ i > 0
    BY <2>1
  <2>3. token \in Nat
    BY SeqFacts DEF CloudTyped
  <2> QED
    BY <2>1, <2>2, <2>3, UnreadIs
<1>3. PICK at :
        /\ IsSeq(page)
        /\ \A n \in DOMAIN page : at[n] \in DOMAIN Unread /\ page[n] = Unread[at[n]]
        /\ \A m, n \in DOMAIN page : m < n => at[m] < at[n]
        /\ \A m, n \in DOMAIN page : page[m].key = page[n].key => m = n
        /\ \A i \in DOMAIN Unread : \E n \in DOMAIN page : page[n].key = Unread[i].key /\ i <= at[n]
  BY <1>2, PageIs
<1> HIDE DEF page
<1>4. DEFINE pos == [n \in DOMAIN page |-> token + at[n]]
<1>5. \A n \in DOMAIN page : pos[n] = token + at[n] /\ at[n] \in Nat /\ at[n] > 0
  BY <1>2, <1>3
<1> HIDE DEF pos
<1>6. DOMAIN batch' = DOMAIN page /\ IsSeq(batch')
  <2>1. Len(page) \in Nat /\ DOMAIN page = 1..Len(page)
    BY <1>3, SeqFacts
  <2>2. batch' \in [1..Len(page) -> {EntryOf(page[i]) : i \in 1..Len(page)}]
    BY <1>1, <2>1
  <2> QED
    BY <1>1, <2>1, <2>2, FunctionSeq
<1>7. \A i \in DOMAIN page : /\ pos[i] \in DOMAIN feed /\ token < pos[i] /\ page[i] = feed[pos[i]]
                             /\ batch'[i] = EntryOf(page[i])
  <2> TAKE i \in DOMAIN page
  <2>1. at[i] \in DOMAIN Unread /\ page[i] = Unread[at[i]] /\ pos[i] = token + at[i] /\ at[i] \in Nat /\ at[i] > 0
    BY <1>3, <1>5
  <2>2. pos[i] \in DOMAIN feed /\ page[i] = feed[pos[i]]
    BY <1>2, <2>1
  <2>3. token < pos[i]
    BY <1>2, <2>1
  <2> QED
    BY <1>1, <2>2, <2>3
<1>8. \A i, j \in DOMAIN page : i < j => pos[i] < pos[j]
  <2> SUFFICES ASSUME NEW i \in DOMAIN page, NEW j \in DOMAIN page, i < j PROVE pos[i] < pos[j]
    OBVIOUS
  <2>1. at[i] < at[j]
    BY <1>3
  <2>2. pos[i] = token + at[i] /\ pos[j] = token + at[j] /\ at[i] \in Nat /\ at[j] \in Nat
    BY <1>5
  <2> QED
    BY <1>2, <2>1, <2>2
<1>9. \A n \in DOMAIN feed : n > token => \E i \in DOMAIN page : page[i].key = feed[n].key /\ n <= pos[i]
  <2> SUFFICES ASSUME NEW n \in DOMAIN feed, n > token
               PROVE  \E i \in DOMAIN page : page[i].key = feed[n].key /\ n <= pos[i]
    OBVIOUS
  <2>1. n - token \in DOMAIN Unread /\ Unread[n - token] = feed[n]
    BY <1>2
  <2>2. PICK i \in DOMAIN page : page[i].key = feed[n].key /\ n - token <= at[i]
    BY <1>3, <2>1
  <2>3. n \in Nat
    BY SeqFacts DEF CloudTyped
  <2>4. n <= pos[i]
    BY <1>2, <1>5, <2>2, <2>3
  <2> QED
    BY <2>2, <2>4
<1>10. \A i, j \in DOMAIN page : page[i].key = page[j].key => i = j
  BY <1>3
<1> QED
  BY <1>6, <1>7, <1>8, <1>9, <1>10

LEMMA FetchTyped ==
  ASSUME TypeInv, Fetch PROVE TypeInv'
<1>1. UNCHANGED <<kind, item, feed, working, old, pathMap, out, doomed, expected, changes, writes, stuck, db, status, fate>>
  BY DEF Fetch, cloudVars, workVars
<1>2. CloudTyped /\ World /\ LiveFolder' = LiveFolder /\ HomeFolder' = HomeFolder
  BY <1>1, SameWorld DEF TypeInv
<1>3. CloudTyped'
  <2>1. token' = Len(feed) /\ Len(feed) \in Nat
    BY <1>2, SeqFacts DEF Fetch, CloudTyped
  <2>2. token' \in 0..Len(feed')
    BY <1>1, <2>1
  <2> QED
    BY <1>1, <1>2, <2>2 DEF CloudTyped
<1>4. PICK pos :
        /\ IsSeq(batch')
        /\ \A i \in DOMAIN batch' : /\ pos[i] \in DOMAIN feed /\ token < pos[i]
                                    /\ batch'[i] = EntryOf(feed[pos[i]])
        /\ \A i, j \in DOMAIN batch' : i < j => pos[i] < pos[j]
        /\ \A i, j \in DOMAIN batch' : feed[pos[i]].key = feed[pos[j]].key => i = j
        /\ \A n \in DOMAIN feed : n > token =>
             \E i \in DOMAIN batch' : feed[pos[i]].key = feed[n].key /\ n <= pos[i]
  BY <1>2, FetchedIs
<1>5. ASSUME NEW i \in DOMAIN batch'
      PROVE  /\ EntryOK(batch'[i], HomeFolder, LiveFolder, kind)
             /\ kind = "google" => batch'[i].id = feed[pos[i]].key
             /\ kind = "dropbox" => /\ batch'[i].path = feed[pos[i]].key
                                    /\ batch'[i].id # None => PathOf(batch'[i].id) = feed[pos[i]].key
  <2>1. RecordOK(feed[pos[i]], HomeFolder, LiveFolder, kind) /\ batch'[i] = EntryOf(feed[pos[i]])
    BY <1>2, <1>4 DEF CloudTyped
  <2>2. /\ EntryOK(batch'[i], HomeFolder, LiveFolder, kind)
        /\ kind = "google" => batch'[i].id = feed[pos[i]].key
        /\ kind = "dropbox" => IF At(feed[pos[i]].key) = {} THEN batch'[i].id = None /\ batch'[i].path = feed[pos[i]].key
                               ELSE batch'[i].id \in At(feed[pos[i]].key) /\ batch'[i].path = feed[pos[i]].key
    BY <1>2, <2>1, EntryIs
  <2> QED
    BY <1>2, <2>2, AtIs
<1>6. OneEach'
  <2> SUFFICES ASSUME NEW i \in DOMAIN batch', NEW j \in DOMAIN batch', batch'[i].id = batch'[j].id,
                      batch'[i].id = None => batch'[i].path = batch'[j].path
               PROVE  i = j
    BY DEF OneEach
  <2>1. kind \in {"google", "dropbox"}
    BY <1>2 DEF CloudTyped
  <2>2. feed[pos[i]].key = feed[pos[j]].key
    BY <1>5, <2>1
  <2> QED
    BY <1>4, <2>2
<1>7. BatchTyped'
  BY <1>1, <1>2, <1>4, <1>5, <1>6 DEF BatchTyped
<1>8. ExpectedTyped'
  BY <1>1, <1>2, ExpectedKept
<1>9. DbTyped' /\ Keeps(db, db') /\ Tables(db') /\ Spares(db, db')
  BY <1>1, <1>2, DbKept DEF DbTyped, DbOK, Spares
<1>10. ChangesTyped'
  BY <1>1, <1>2, <1>9, ChangesUntouched
<1>11. WritesTyped'
  BY <1>1, <1>2, <1>9, WritesUntouched DEF TypeInv, WritesTyped
<1>12. RestTyped'
  BY <1>1, RestKept DEF TypeInv, RestTyped
<1> QED
  BY <1>3, <1>7, <1>8, <1>9, <1>10, <1>11, <1>12 DEF TypeInv

LEMMA StopTyped ==
  ASSUME TypeInv, NEW how \in {"killed", "pages"} \cup Id, NEW lasting, NEW torn, Stop(how, lasting, torn),
         DbOK(lasting, HomeFolder)
  PROVE  TypeInv'
<1>1. /\ UNCHANGED <<kind, item, feed>> /\ token' = 0 /\ batch' = <<>> /\ working' = FALSE
      /\ expected' = <<>> /\ old' = <<>> /\ pathMap' = <<>> /\ out' = <<>> /\ doomed' = {}
      /\ changes' = <<>> /\ writes' = {} /\ stuck' = {} /\ db' = lasting /\ status' = how
  BY DEF Stop, cloudVars, NothingExpected
<1>2. CloudTyped /\ World /\ LiveFolder' = LiveFolder /\ HomeFolder' = HomeFolder
  BY <1>1, SameWorld DEF TypeInv
<1>3. CloudTyped'
  <2>1. 0 \in 0..Len(feed)
    BY <1>2, SeqFacts DEF CloudTyped
  <2> QED
    BY <1>1, <1>2, <2>1 DEF CloudTyped
<1>4. BatchTyped' /\ ChangesTyped'
  BY <1>1, BatchEmptied, ChangesEmptied
<1>5. ExpectedTyped'
  BY <1>1, NothingRegistered DEF ExpectedTyped
<1>6. DbTyped' /\ WritesTyped'
  BY <1>1, <1>2 DEF DbTyped, WritesTyped
<1>7. fate' \in [Id -> SUBSET Fates]
  <2>1. fate \in [Id -> SUBSET Fates] /\ {"torn", "halved", "overtaken", "failed"} \subseteq Fates
    BY DEF TypeInv, RestTyped, Fates
  <2> QED
    BY <2>1 DEF Stop
<1>8. RestTyped'
  BY <1>1, <1>7 DEF RestTyped
<1> QED
  BY <1>3, <1>4, <1>5, <1>6, <1>8 DEF TypeInv

LEMMA TakeBatchTyped ==
  ASSUME TypeInv, TakeBatch PROVE TypeInv'
<1>1. /\ UNCHANGED <<kind, item, feed, token, batch, pathMap, out, doomed, changes, writes, stuck, db, status>>
      /\ old' = expected /\ expected' = <<>> /\ working' = TRUE /\ Up
      /\ fate' \in [Id -> SUBSET Fates]
  <2>1. fate \in [Id -> SUBSET Fates] /\ "overtaken" \in Fates
    BY DEF TypeInv, RestTyped, Fates
  <2> QED
    BY <2>1, Suffered DEF TakeBatch, cloudVars, workVars, NothingExpected
<1>2. CloudTyped /\ World /\ LiveFolder' = LiveFolder /\ HomeFolder' = HomeFolder
  BY <1>1, SameWorld DEF TypeInv
<1>3. CloudTyped'
  BY <1>1, <1>2 DEF CloudTyped
<1>4. BatchTyped'
  BY <1>1, <1>2, BatchKept
<1>5. ExpectedTyped'
  BY <1>1, <1>2, NothingRegistered DEF TypeInv, ExpectedTyped
<1>6. DbTyped' /\ Keeps(db, db') /\ Tables(db') /\ Spares(db, db')
  BY <1>1, <1>2, DbKept DEF DbTyped, DbOK, Spares
<1>7. ChangesTyped' /\ WritesTyped'
  BY <1>1, <1>2, <1>6, ChangesUntouched, WritesUntouched DEF TypeInv, WritesTyped
<1>8. RestTyped'
  BY <1>1 DEF TypeInv, RestTyped, Up
<1> QED
  BY <1>3, <1>4, <1>5, <1>6, <1>7, <1>8 DEF TypeInv

LEMMA BatchDoneTyped ==
  ASSUME TypeInv, BatchDone PROVE TypeInv'
<1>1. /\ UNCHANGED <<kind, item, feed, token, batch, expected, writes, stuck, db, status, fate>>
      /\ working' = FALSE /\ old' = <<>> /\ pathMap' = <<>> /\ out' = <<>> /\ doomed' = {}
  BY DEF BatchDone, cloudVars, NothingExpected
<1>2. CloudTyped /\ World /\ LiveFolder' = LiveFolder /\ HomeFolder' = HomeFolder
  BY <1>1, SameWorld DEF TypeInv
<1>3. CloudTyped'
  BY <1>1, <1>2 DEF CloudTyped
<1>4. BatchTyped'
  BY <1>1, <1>2, BatchKept
<1>5. ExpectedTyped'
  BY <1>1, <1>2, NothingRegistered DEF TypeInv, ExpectedTyped
<1>6. DbTyped' /\ Keeps(db, db') /\ Tables(db') /\ Spares(db, db')
  BY <1>1, <1>2, DbKept DEF DbTyped, DbOK, Spares
<1>7. PICK order \in SetToSeqs(doomed) : changes' = changes \o out \o order
  BY DEF BatchDone
<1>8. IsSeq(changes') /\ Range(changes') = Range(changes) \cup Range(out) \cup doomed
  <2>1. IsSeq(changes) /\ IsSeq(out) /\ IsFiniteSet(doomed)
    BY DEF TypeInv, ChangesTyped
  <2>2. IsSeq(changes \o out) /\ Range(changes \o out) = Range(changes) \cup Range(out)
    BY <2>1, Joined
  <2>3. IsSeq(order) /\ Range(order) = doomed
    BY <2>1, Ordered
  <2> QED
    BY <1>7, <2>2, <2>3, Joined
<1>9. ChangesTyped'
  <2>1. InProgress' = InProgress
    BY <1>1, <1>8, NothingSeq DEF InProgress
  <2>2. IsSeq(out') /\ IsFiniteSet(doomed')
    BY <1>1, NothingSeq, FS_EmptySet DEF IsSeq
  <2> QED
    BY <1>2, <1>6, <1>8, <2>1, <2>2, ChangesKept
<1>10. WritesTyped'
  BY <1>1, <1>2, <1>6, WritesUntouched DEF TypeInv, WritesTyped
<1>11. RestTyped'
  BY <1>1 DEF TypeInv, RestTyped
<1> QED
  BY <1>3, <1>4, <1>5, <1>6, <1>9, <1>10, <1>11 DEF TypeInv

LEMMA Appended ==
  ASSUME NEW a, NEW b PROVE Append(<<a>>, b) = <<a, b>>
<1> DEFINE s == Append(<<a>>, b)
<1>1. <<a>> \in Seq({a, b}) /\ Len(<<a>>) = 1 /\ <<a>>[1] = a /\ b \in {a, b}
  OBVIOUS
<1>2. s \in Seq({a, b}) /\ Len(s) = 2 /\ s[1] = a /\ s[2] = b
  BY <1>1, AppendProperties
<1>3. <<a, b>> \in Seq({a, b}) /\ Len(<<a, b>>) = 2 /\ <<a, b>>[1] = a /\ <<a, b>>[2] = b
  OBVIOUS
<1> HIDE DEF s
<1>4. \A i \in 1..2 : s[i] = <<a, b>>[i]
  <2>1. \A i \in 1..2 : i = 1 \/ i = 2
    OBVIOUS
  <2> QED
    BY <1>2, <1>3, <2>1
<1>5. s = <<a, b>>
  BY <1>2, <1>3, <1>4, SeqEqual
<1> QED
  BY <1>5 DEF s

LEMMA FirstRow ==
  ASSUME NEW d, Tables(d), NEW p, HasRow(d, p)
  PROVE  GlobalId(d, p) \in DOMAIN d.files /\ PathOfRow(d, GlobalId(d, p)) = p
<1>1. RowsOf(d, p) \subseteq Nat /\ RowsOf(d, p) # {}
  BY Key DEF RowsOf, HasRow
<1>2. \E id \in RowsOf(d, p) : \A other \in RowsOf(d, p) : id <= other
  BY <1>1, Smallest
<1> QED
  BY <1>2 DEF GlobalId, RowsOf, PathOfRow

(* The model's names of what the tables have. *)
LEMMA DbNames ==
  /\ \A g : Linked(g) <=> LinkedIn(db, g)
  /\ \A g : Link(g) = LinkIn(db, g)
  /\ \A g : RowPath(g) = PathOfRow(db, g)
  /\ \A id : Known(id) = LinkedTo(db, Cloud, id)
BY DEF Linked, LinkedIn, Link, LinkIn, RowPath, PathOfRow, Known

LEMMA KnownIs ==
  ASSUME DbTyped, NEW id, NEW g \in Known(id)
  PROVE  /\ g \in DOMAIN db.files /\ Linked(g) /\ Link(g).id = id /\ Link(g) \in LinkSet
         /\ RowPath(g) \in Spots(id, HomeFolder) /\ id \in Id
         /\ id \in Folder => id \in HomeFolder /\ Link(g).parent = Home /\ RowPath(g) = FolderPath(id)
         /\ g \in Nat /\ g # 0 /\ g \in 1..db.lastId /\ OwnerOK(g, id, db)
<1>1. Tables(db) /\ \A r \in DOMAIN db.files : RowOK(db, r, HomeFolder)
  BY DEF DbTyped, DbOK
<1>2. g \in DOMAIN db.files /\ LinkedIn(db, g) /\ LinkIn(db, g).id = id
  BY <1>1, Key, DbNames
<1>3. LinkIn(db, g) \in LinkSet /\ PathOfRow(db, g) \in Spots(id, HomeFolder)
  BY <1>1, <1>2 DEF RowOK
<1>4. id \in Id
  BY <1>2, <1>3 DEF LinkSet
<1>5. id \in Folder => id \in HomeFolder /\ LinkIn(db, g).parent = Home /\ PathOfRow(db, g) = FolderPath(id)
  BY <1>1, <1>2, <1>3, FolderSpots DEF RowOK
<1>6. g \in Nat /\ g # 0 /\ g \in 1..db.lastId
  BY <1>1, <1>2, Key DEF Tables
<1>7. OwnerOK(g, id, db)
  BY <1>2, <1>6 DEF OwnerOK
<1> QED
  BY <1>2, <1>3, <1>4, <1>5, <1>6, <1>7, DbNames

(* The paths of a directory in the database. *)
LEMMA DirPathsIs ==
  ASSUME DbTyped, NEW dir \in Dir, NEW id
  PROVE  /\ DirPaths(dir) # {} => dir \in {Home} \cup HomeFolder
         /\ dir = Home => DirPaths(dir) = {NoPath}
         /\ dir \in Folder => (DirPaths(dir) = {} <=> Known(dir) = {})
         /\ \A p \in DirPaths(dir) : Append(p, NameOf[id]) = Spot(dir, id)
         /\ DirPaths(dir) # {} => Append(CHOOSE p \in DirPaths(dir) : TRUE, NameOf[id]) = Spot(dir, id)
<1>1. CASE dir \in Folder
  <2>1. DirPaths(dir) = {RowPath(gid) : gid \in Known(dir)}
    BY <1>1, Names DEF DirPaths, Id
  <2>2. \A gid \in Known(dir) : RowPath(gid) = FolderPath(dir) /\ dir \in HomeFolder
    BY <1>1, KnownIs
  <2>3. \A p \in DirPaths(dir) : p = FolderPath(dir) /\ dir \in HomeFolder
    BY <2>1, <2>2
  <2>4. Append(FolderPath(dir), NameOf[id]) = Spot(dir, id)
    <3>1. dir # Home
      BY <1>1, Names DEF Id
    <3>2. Append(<<NameOf[dir]>>, NameOf[id]) = <<NameOf[dir], NameOf[id]>>
      BY Appended
    <3> QED
      BY <3>1, <3>2 DEF FolderPath, Spot
  <2>5. DirPaths(dir) # {} => (CHOOSE p \in DirPaths(dir) : TRUE) = FolderPath(dir)
    BY <2>3
  <2>6. dir # Home
    BY <1>1, Names DEF Id
  <2>7. DirPaths(dir) = {} <=> Known(dir) = {}
    BY <2>1
  <2> QED
    BY <2>3, <2>4, <2>5, <2>6, <2>7
<1>2. CASE dir \notin Folder
  <2>1. dir \in {Home, Elsewhere} /\ dir \notin Id
    BY <1>2, Names DEF Dir, Id
  <2>2. Known(dir) = {}
    BY <2>1, KnownIs
  <2>3. DirPaths(dir) = IF dir = Home THEN {NoPath} ELSE {}
    BY <2>2 DEF DirPaths
  <2>4. Append(NoPath, NameOf[id]) = Spot(Home, id)
    BY DEF NoPath, Spot
  <2>5. dir = Home => (CHOOSE p \in DirPaths(dir) : TRUE) = NoPath
    BY <2>3
  <2> QED
    BY <1>2, <2>3, <2>4, <2>5
<1> QED
  BY <1>1, <1>2

LEMMA LookupIs ==
  ASSUME TypeInv, NEW e, EntryOK(e, HomeFolder, LiveFolder, kind), NEW gid \in Lookup(e), gid # 0
  PROVE  /\ Linked(gid) /\ gid \in Known(Link(gid).id)
         /\ e.id # None => e.id \in Id /\ gid \in Known(e.id) /\ Link(gid).id = e.id
         /\ e.id = None => /\ Link(gid).id \in File /\ e.path \in Spots(Link(gid).id, HomeFolder)
                           /\ HasRow(db, e.path) /\ Linked(GlobalId(db, e.path))
                           /\ gid \in Known(Link(GlobalId(db, e.path)).id)
<1>1. DbTyped /\ Tables(db)
  BY DEF TypeInv, DbTyped, DbOK
<1>2. CASE e.id # None
  <2>1. gid \in Known(e.id)
    BY <1>2 DEF Lookup
  <2> QED
    BY <1>1, <1>2, <2>1, KnownIs
<1>3. CASE e.id = None
  <2> DEFINE r == GlobalId(db, e.path)
  <2>1. HasRow(db, e.path) /\ Linked(r) /\ gid \in Known(Link(r).id)
    BY <1>3 DEF Lookup
  <2>2. r \in DOMAIN db.files /\ PathOfRow(db, r) = e.path
    BY <1>1, <2>1, FirstRow
  <2> HIDE DEF r
  <2>3. r \in Known(Link(r).id)
    BY <1>1, <2>1, <2>2, Key, DbNames
  <2>4. RowPath(r) \in Spots(Link(r).id, HomeFolder) /\ RowPath(r) = e.path /\ Link(r).id \in Id
    BY <1>1, <2>2, <2>3, KnownIs, DbNames
  <2>5. e.path \in FileSpots(HomeFolder) /\ HomeFolder \in SUBSET Folder
    BY <1>3, Names, HomesAreLive DEF EntryOK
  <2>6. Link(r).id \notin Folder
    BY <2>4, <2>5, FolderSpots
  <2>7. Link(gid).id = Link(r).id /\ Linked(gid)
    BY <1>1, <2>1, KnownIs
  <2> QED
    BY <1>3, <2>1, <2>4, <2>6, <2>7 DEF Id, r
<1> QED
  BY <1>2, <1>3

(* Whom an entry is about. *)
Subject(e, gid) == IF e.id # None THEN e.id ELSE IF gid = 0 THEN None ELSE Link(gid).id

LEMMA VerdictIs ==
  ASSUME TypeInv, NEW e, EntryOK(e, HomeFolder, LiveFolder, kind), NEW gid \in Lookup(e),
         NEW v, v = Verdict(e, gid)
  PROVE  /\ gid = 0 => v.from = NoPath
         /\ gid # 0 => v.from = RowPath(gid) /\ Linked(gid) /\ Link(gid).id = Subject(e, gid)
         /\ v.gone \in BOOLEAN
         /\ gid # 0 \/ ~v.gone => Subject(e, gid) \in Id
         /\ v.to # NoPath /\ (gid # 0 \/ ~v.gone) => v.to \in Spots(Subject(e, gid), HomeFolder)
         /\ e.id \in Folder => /\ gid # 0 => v.to = v.from /\ ~v.gone
                               /\ kind = "google" /\ gid = 0 =>
                                    v.to = IF e.id \in HomeFolder THEN FolderPath(e.id) ELSE NoPath
                               /\ v.to # NoPath => e.id \in HomeFolder
<1>0. /\ DbTyped /\ kind \in {"google", "dropbox"} /\ PathMapOK(pathMap, HomeFolder, LiveFolder)
      /\ HomeFolder \subseteq Folder /\ HomeFolder \in SUBSET Folder /\ Home # Elsewhere
  BY HomesAreLive, Names DEF TypeInv, CloudTyped, ExpectedTyped
<1>1. gid # 0 => v.from = RowPath(gid) /\ Linked(gid) /\ Link(gid).id = Subject(e, gid) /\ gid \in Known(Subject(e, gid))
  <2>1. gid # 0 => v.from = RowPath(gid)
    BY DEF Verdict, GoogleVerdict, DropboxVerdict
  <2> QED
    BY <2>1, LookupIs DEF Subject
<1>2. gid = 0 => v.from = NoPath
  BY DEF Verdict, GoogleVerdict, DropboxVerdict
<1>3. gid # 0 => v.from \in Spots(Subject(e, gid), HomeFolder) /\ Subject(e, gid) \in Id
  BY <1>0, <1>1, KnownIs
<1>4. e.gone \in BOOLEAN /\ e.dir \in Dir
  BY DEF EntryOK
<1>5. CASE kind = "google"
  <2>1. /\ e.id \in Id /\ e.id # None /\ Subject(e, gid) = e.id
        /\ e.id \in Folder => ~e.gone /\ e.dir = IF e.id \in HomeFolder THEN Home ELSE Elsewhere
    BY <1>5, Names DEF EntryOK, Subject
  <2>2. v = GoogleVerdict(e, gid)
    BY <1>5 DEF Verdict
  <2>3. \A dir \in {Home} \cup HomeFolder : e.id \in File \/ dir = Home => Spot(dir, e.id) \in Spots(e.id, HomeFolder)
    BY <1>0, <2>1, SpotsIn
  <2>4. CASE gid = 0
    <3> DEFINE parents == IF DirPaths(e.dir) # {} THEN DirPaths(e.dir)
                          ELSE IF e.dir \in DOMAIN pathMap THEN {pathMap[e.dir]} ELSE {}
    <3>1. /\ v.gone = e.gone
          /\ v.to = IF e.gone \/ parents = {} THEN NoPath
                    ELSE Append(CHOOSE p \in parents : TRUE, NameOf[e.id])
      BY <2>2, <2>4 DEF GoogleVerdict
    <3>2. CASE DirPaths(e.dir) # {} /\ ~e.gone
      <4>1. v.to = Spot(e.dir, e.id) /\ e.dir \in {Home} \cup HomeFolder
        BY <1>0, <1>4, <3>1, <3>2, DirPathsIs
      <4>2. e.id \in Folder => e.dir = Home /\ e.id \in HomeFolder /\ v.to = FolderPath(e.id)
        <5>1. Home \notin HomeFolder /\ Elsewhere \notin {Home} \cup HomeFolder
          BY <1>0, Names DEF Id
        <5> QED
          BY <2>1, <4>1, <5>1, FolderSpots
      <4>3. v.to \in Spots(e.id, HomeFolder)
        BY <2>1, <2>3, <4>1, <4>2 DEF Id
      <4> QED
        BY <1>4, <1>5, <1>2, <2>1, <2>4, <3>1, <4>2, <4>3
    <3>3. CASE DirPaths(e.dir) = {} /\ e.dir \in DOMAIN pathMap /\ ~e.gone
      <4>1. e.dir \in Folder /\ pathMap[e.dir] = IF e.dir \in HomeFolder THEN FolderPath(e.dir) ELSE NoPath
        BY <1>0, <3>3, HomesAreLive DEF PathMapOK
      <4>2. v.to = Append(pathMap[e.dir], NameOf[e.id])
        BY <3>1, <3>3
      <4>3. e.dir # Home /\ e.dir # Elsewhere
        BY <4>1, Names DEF Id
      <4>4. e.id \in File
        BY <2>1, <4>3 DEF Id
      <4>5. v.to = Spot(IF e.dir \in HomeFolder THEN e.dir ELSE Home, e.id)
        <5>1. Append(<<NameOf[e.dir]>>, NameOf[e.id]) = <<NameOf[e.dir], NameOf[e.id]>>
          BY Appended
        <5>2. Append(NoPath, NameOf[e.id]) = <<NameOf[e.id]>>
          BY DEF NoPath
        <5> QED
          BY <4>1, <4>2, <4>3, <5>1, <5>2 DEF FolderPath, Spot
      <4>6. v.to \in Spots(e.id, HomeFolder)
        BY <2>3, <4>4, <4>5
      <4> QED
        BY <1>2, <1>4, <1>5, <2>1, <2>4, <3>1, <4>4, <4>6, Names
    <3>4. CASE e.gone \/ (DirPaths(e.dir) = {} /\ e.dir \notin DOMAIN pathMap)
      <4>1. v.to = NoPath
        BY <3>1, <3>4
      <4>2. e.id \in Folder => e.id \notin HomeFolder
        <5> SUFFICES ASSUME e.id \in HomeFolder PROVE FALSE
          OBVIOUS
        <5>1. e.dir = Home /\ ~e.gone
          BY <1>0, <2>1
        <5>2. DirPaths(e.dir) = {NoPath}
          BY <1>0, <1>4, <5>1, DirPathsIs
        <5> QED
          BY <3>4, <5>1, <5>2
      <4> QED
        BY <1>2, <1>4, <1>5, <2>1, <2>4, <3>1, <4>1, <4>2
    <3> QED
      BY <1>4, <3>2, <3>3, <3>4
  <2>5. CASE gid # 0
    <3> DEFINE moved == ~e.gone /\ Link(gid).parent # e.dir
               gone == e.gone \/ (moved /\ DirPaths(e.dir) = {})
               to == IF moved /\ ~gone
                     THEN Append(CHOOSE p \in DirPaths(e.dir) : TRUE, NameOf[e.id]) ELSE RowPath(gid)
    <3>6. v = [from |-> RowPath(gid), gone |-> gone, to |-> to]
      BY <2>2, <2>5 DEF GoogleVerdict
    <3> HIDE DEF gone, to
    <3>7. v.gone = gone /\ v.to = to
      BY <3>6
    <3>1. /\ v.gone = (e.gone \/ (moved /\ DirPaths(e.dir) = {}))
          /\ v.to = IF moved /\ ~v.gone
                    THEN Append(CHOOSE p \in DirPaths(e.dir) : TRUE, NameOf[e.id]) ELSE RowPath(gid)
      BY <3>7 DEF gone, to
    <3>2. v.gone \in BOOLEAN
      BY <1>4, <3>1
    <3>3. e.id \in Folder => ~moved /\ ~e.gone /\ e.id \in HomeFolder
      <4>1. e.id \in Folder => e.id \in HomeFolder /\ Link(gid).parent = Home
        BY <1>0, <1>1, <2>1, <2>5, KnownIs
      <4> QED
        BY <2>1, <4>1
    <3>4. CASE moved /\ ~v.gone
      <4>1. v.to = Spot(e.dir, e.id) /\ e.dir \in {Home} \cup HomeFolder
        BY <1>0, <1>4, <3>1, <3>4, DirPathsIs
      <4>2. v.to \in Spots(e.id, HomeFolder)
        BY <2>1, <2>3, <3>3, <3>4, <4>1 DEF Id
      <4> QED
        BY <1>1, <1>5, <2>1, <2>5, <3>2, <3>3, <3>4, <4>2
    <3>5. CASE ~(moved /\ ~v.gone)
      <4>1. v.to = RowPath(gid)
        BY <3>1, <3>5
      <4> QED
        BY <1>1, <1>3, <1>5, <2>1, <2>5, <3>1, <3>2, <3>3, <4>1
    <3> QED
      BY <3>4, <3>5
  <2> QED
    BY <2>4, <2>5
<1>6. CASE kind = "dropbox"
  <2>1. v.gone = e.gone /\ v.to = e.path /\ kind # "google"
    BY <1>6 DEF Verdict, DropboxVerdict
  <2>2. CASE e.id # None
    <3>1. /\ e.id \in Id /\ ~e.gone /\ e.dir # Elsewhere /\ Subject(e, gid) = e.id
          /\ e.path = Spot(IF e.dir \in HomeFolder THEN e.dir ELSE Home, e.id)
          /\ e.id \in Folder => e.dir = IF e.id \in HomeFolder THEN Home ELSE Elsewhere
      BY <1>6, <2>2 DEF EntryOK, Subject, Seen
    <3>2. e.id \in Folder => e.id \in HomeFolder /\ e.path = FolderPath(e.id)
      <4>1. Home \notin HomeFolder
        BY <1>0, Names DEF Id
      <4> QED
        BY <3>1, <4>1, FolderSpots
    <3>3. e.path \in Spots(e.id, HomeFolder)
      <4>1. e.id \in File => e.path \in Spots(e.id, HomeFolder)
        BY <1>0, <3>1, SpotsIn
      <4>2. e.id \in Folder => e.path \in Spots(e.id, HomeFolder)
        BY <3>2, FolderSpots
      <4> QED
        BY <3>1, <4>1, <4>2 DEF Id
    <3>4. e.id \in Folder /\ gid # 0 => v.from = FolderPath(e.id)
      BY <1>0, <1>1, <3>1, KnownIs
    <3> QED
      BY <1>1, <1>2, <1>4, <2>1, <3>1, <3>2, <3>3, <3>4
  <2>3. CASE e.id = None
    <3>1. e.gone /\ e.id \notin Folder
      BY <2>3, Names DEF EntryOK, Id
    <3>2. gid # 0 => e.path \in Spots(Subject(e, gid), HomeFolder)
      BY <2>3, LookupIs DEF Subject
    <3> QED
      BY <1>1, <1>2, <1>3, <1>4, <2>1, <3>1, <3>2
  <2> QED
    BY <2>2, <2>3
<1> QED
  BY <1>0, <1>5, <1>6

LEMMA NeedsAre ==
  ASSUME NEW e, NEW gid, NEW v
  PROVE  /\ Needs(e, gid, v) \subseteq ChangeTypes
         /\ \/ Needs(e, gid, v) = {}
            \/ \E type \in ChangeTypes : Needs(e, gid, v) = {type}
            \/ Needs(e, gid, v) = {"Move", "Update"}
         /\ "New" \in Needs(e, gid, v) <=> gid = 0 /\ ~v.gone
         /\ gid # 0 => ("Delete" \in Needs(e, gid, v) <=> v.gone)
         /\ gid # 0 => ("Move" \in Needs(e, gid, v) <=> ~v.gone /\ v.to # v.from)
         /\ gid # 0 => ("Update" \in Needs(e, gid, v) <=>
                          ~v.gone /\ e.id \in File /\ e.time > Link(gid).time /\ e.hash # Link(gid).hash)
         /\ gid = 0 => Needs(e, gid, v) \subseteq {"New"}
BY DEF Needs, ChangeTypes

LEMMA EmittedAre ==
  ASSUME NEW e, NEW gid, NEW v
  PROVE  /\ IsFiniteSet(Emitted(e, gid, v))
         /\ \A c, d \in Emitted(e, gid, v) : c = d
         /\ Emitted(e, gid, v) = {} => Needs(e, gid, v) = {}
         /\ \A c \in Emitted(e, gid, v) :
              /\ c.type \in Needs(e, gid, v) /\ c.gid = gid /\ c.to = v.to
              /\ c.id = (IF e.id # None THEN e.id ELSE Link(gid).id)
              /\ c.path = (IF c.type = "Move" THEN v.from ELSE v.to)
              /\ c.dir = e.dir /\ c.time = e.time /\ c.hash = e.hash /\ c.by = e.by
              /\ IF {"Move", "Update"} \subseteq Needs(e, gid, v)
                 THEN c.type = "Move" /\ c.then = <<ChangeOf("Update", e, gid, v)>>
                 ELSE c.then = <<>>
<1> DEFINE needs == Needs(e, gid, v)
           ch(type) == ChangeOf(type, e, gid, v)
           both == [ch("Move") EXCEPT !.then = <<ch("Update")>>]
<1>1. ASSUME NEW type
      PROVE  /\ ch(type).type = type /\ ch(type).gid = gid /\ ch(type).to = v.to
             /\ ch(type).id = (IF e.id # None THEN e.id ELSE Link(gid).id)
             /\ ch(type).path = (IF type = "Move" THEN v.from ELSE v.to)
             /\ ch(type).dir = e.dir /\ ch(type).time = e.time /\ ch(type).hash = e.hash
             /\ ch(type).by = e.by /\ ch(type).then = <<>>
  BY DEF ChangeOf
<1>2. /\ both.type = "Move" /\ both.gid = gid /\ both.to = v.to
      /\ both.id = (IF e.id # None THEN e.id ELSE Link(gid).id)
      /\ both.path = v.from
      /\ both.dir = e.dir /\ both.time = e.time /\ both.hash = e.hash
      /\ both.by = e.by /\ both.then = <<ch("Update")>>
  BY DEF ChangeOf
<1>3. Emitted(e, gid, v) = IF needs = {"Move", "Update"} THEN {both} ELSE {ch(type) : type \in needs}
  BY DEF Emitted
<1>4. /\ \/ needs = {}
         \/ \E type \in ChangeTypes : needs = {type}
         \/ needs = {"Move", "Update"}
      /\ needs \subseteq ChangeTypes
  BY NeedsAre
<1> HIDE DEF needs, both, ch
<1>5. CASE needs = {"Move", "Update"}
  <2>1. Emitted(e, gid, v) = {both}
    BY <1>3, <1>5
  <2> QED
    BY <1>2, <1>5, <2>1, FS_Singleton, ZenonT(30) DEF needs, ch
<1>6. CASE needs = {}
  <2>1. Emitted(e, gid, v) = {}
    BY <1>3, <1>6
  <2> QED
    BY <1>6, <2>1, FS_EmptySet DEF needs
<1>7. CASE \E type \in ChangeTypes : needs = {type}
  <2>1. PICK type \in ChangeTypes : needs = {type}
    BY <1>7
  <2>2. Emitted(e, gid, v) = {ch(type)} /\ type \in needs /\ ~({"Move", "Update"} \subseteq needs)
    BY <1>3, <2>1
  <2>3. needs # {}
    BY <2>1
  <2>4. IsFiniteSet(Emitted(e, gid, v))
    BY <2>2, FS_Singleton
  <2>5. \A c \in Emitted(e, gid, v) : c = ch(type)
    BY <2>2
  <2>6. \A c, d \in Emitted(e, gid, v) : c = d
    BY <2>2
  <2>7. Emitted(e, gid, v) # {}
    BY <2>2
  <2>8. /\ ch(type).type \in needs
        /\ ch(type).then = <<>> /\ ch(type).gid = gid /\ ch(type).to = v.to
    BY <1>1, <2>2
  <2>9. /\ ch(type).id = (IF e.id # None THEN e.id ELSE Link(gid).id)
        /\ ch(type).path = (IF ch(type).type = "Move" THEN v.from ELSE v.to)
        /\ ch(type).dir = e.dir /\ ch(type).time = e.time /\ ch(type).hash = e.hash
        /\ ch(type).by = e.by
    BY <1>1
  <2> QED
    BY <2>2, <2>4, <2>5, <2>6, <2>7, <2>8, <2>9 DEF needs
<1> QED
  BY <1>4, <1>5, <1>6, <1>7

LEMMA EmittedTyped ==
  ASSUME TypeInv, NEW e, EntryOK(e, HomeFolder, LiveFolder, kind), NEW gid \in Lookup(e),
         NEW v, v = Verdict(e, gid), v.to # NoPath, NEW c \in Emitted(e, gid, v)
  PROVE  ChangeOK(c, db, HomeFolder)
<1>1. /\ c.type \in Needs(e, gid, v) /\ c.gid = gid /\ c.to = v.to
      /\ c.id = (IF e.id # None THEN e.id ELSE Link(gid).id)
      /\ c.path = (IF c.type = "Move" THEN v.from ELSE v.to)
      /\ c.dir = e.dir /\ c.time = e.time /\ c.hash = e.hash
      /\ IF {"Move", "Update"} \subseteq Needs(e, gid, v)
         THEN c.type = "Move" /\ c.then = <<ChangeOf("Update", e, gid, v)>>
         ELSE c.then = <<>>
  BY EmittedAre
<1>2. /\ c.type \in ChangeTypes
      /\ gid = 0 => c.type = "New" /\ ~v.gone
      /\ gid # 0 => c.type # "New"
      /\ gid # 0 /\ c.type = "Move" => v.to # v.from
      /\ gid # 0 /\ c.type = "Delete" => v.gone
      /\ gid # 0 /\ c.type = "Update" => e.id \in File
  BY <1>1, NeedsAre
<1>3. /\ gid # 0 => v.from = RowPath(gid) /\ Linked(gid) /\ Link(gid).id = Subject(e, gid)
      /\ v.gone \in BOOLEAN
      /\ Subject(e, gid) \in Id
      /\ v.to \in Spots(Subject(e, gid), HomeFolder)
      /\ e.id \in Folder => /\ gid # 0 => v.to = v.from /\ ~v.gone
                            /\ e.id \in HomeFolder
  BY <1>2, VerdictIs
<1>4. c.id = Subject(e, gid)
  BY <1>1, <1>2, <1>3, Names, NeedsAre DEF Subject
<1>5. e.dir \in Dir /\ e.time \in Nat /\ e.hash \in Nat
  BY DEF EntryOK
<1>6. gid # 0 => gid \in Known(c.id)
  BY <1>3, <1>4, LookupIs
<1>7. DbTyped
  BY DEF TypeInv
<1>8. gid # 0 => OwnerOK(gid, c.id, db) /\ RowPath(gid) \in Spots(c.id, HomeFolder)
  BY <1>6, <1>7, KnownIs
<1>9. c.id \in Folder => e.id = c.id
  <2>1. CASE e.id # None
    BY <1>4, <2>1 DEF Subject
  <2>2. CASE e.id = None
    <3>1. gid # 0
      BY <1>3, <2>2, Names DEF Subject
    <3> QED
      BY <1>4, <2>2, <3>1, LookupIs, Names DEF Subject
  <2> QED
    BY <2>1, <2>2
<1>10. gid # 0 => c.id \in File
  <2> SUFFICES ASSUME gid # 0, c.id \in Folder PROVE FALSE
    BY <1>3, <1>4 DEF Id
  <2>1. v.to = v.from /\ ~v.gone /\ e.id \in Folder
    BY <1>3, <1>9
  <2> QED
    BY <1>2, <2>1, Names DEF ChangeTypes
<1>11. c.path \in Spots(c.id, HomeFolder) /\ c.to \in Spots(c.id, HomeFolder)
  <2>1. c.type = "Move" => gid # 0
    BY <1>2
  <2> QED
    BY <1>1, <1>3, <1>4, <1>8, <2>1
<1>12. c.then = <<>> \/ \E u \in Range(c.then) : c.then = <<u>> /\ c.type = "Move" /\ DependentOK(u, c)
  <2> SUFFICES ASSUME {"Move", "Update"} \subseteq Needs(e, gid, v)
               PROVE  \E u \in Range(c.then) : c.then = <<u>> /\ c.type = "Move" /\ DependentOK(u, c)
    BY <1>1
  <2> DEFINE u == ChangeOf("Update", e, gid, v)
  <2>1. /\ u.type = "Update" /\ u.gid = gid /\ u.to = v.to
        /\ u.id = (IF e.id # None THEN e.id ELSE Link(gid).id)
        /\ u.path = v.to
        /\ u.dir = e.dir /\ u.time = e.time /\ u.hash = e.hash
        /\ u.then = <<>>
    BY DEF ChangeOf
  <2>2. c.type = "Move" /\ c.then = <<u>>
    BY <1>1
  <2> HIDE DEF u
  <2>3. u \in Range(c.then)
    BY <2>2, SingleSeq
  <2>4. DependentOK(u, c)
    BY <1>1, <1>5, <2>1 DEF DependentOK
  <2> QED
    BY <2>2, <2>3, <2>4
<1>13. IF c.type = "New" THEN c.gid = 0 ELSE c.id \in File /\ OwnerOK(c.gid, c.id, db)
  BY <1>1, <1>2, <1>8, <1>10
<1>14. c.id \in Folder => c.id \in HomeFolder
  BY <1>3, <1>9
<1> QED
  BY <1>1, <1>2, <1>3, <1>4, <1>5, <1>11, <1>12, <1>13, <1>14 DEF ChangeOK

(* What looking at an entry does. *)
LEMMA EntryActs ==
  ASSUME TypeInv, NEW gid, Entry(gid)
  PROVE  \E e, v, emitted :
           /\ e = Head(batch) /\ v = Verdict(e, gid) /\ gid \in Lookup(e)
           /\ EntryOK(e, HomeFolder, LiveFolder, kind) /\ batch' = Tail(batch) /\ batch # <<>>
           /\ emitted = IF v.to = NoPath \/ Awaited(e, gid, v) # {} THEN {} ELSE Emitted(e, gid, v)
           /\ IF v.to = NoPath \/ Awaited(e, gid, v) = {} THEN old' = old
              ELSE \E type \in Awaited(e, gid, v) :
                     /\ old' = Checked(old, EventKey(type, Subject(e, gid), v.to), type)
                     /\ "Move" \in Awaited(e, gid, v) => type = "Move"
           /\ pathMap' = IF kind = "google" /\ gid = 0 /\ ~e.gone /\ e.id \in Folder
                         THEN Put(pathMap, e.id, v.to) ELSE pathMap
           /\ \E deletes :
                /\ deletes = {c \in emitted : kind = "dropbox" /\ c.type = "Delete"}
                /\ out' = out \o SetToSeq(emitted \ deletes)
                /\ doomed' = (doomed \ Saved(emitted))
                              \cup {c \in deletes : \A other \in doomed : other.path # c.path}
           /\ UNCHANGED <<kind, item, feed, token, working, expected, changes, writes, stuck, db,
                          status, fate>>
           /\ Up /\ working
<1> DEFINE e == Head(batch)
           v == Verdict(e, gid)
           awaited == Awaited(e, gid, v)
           id == IF e.id # None THEN e.id ELSE IF gid = 0 THEN None ELSE Link(gid).id
           emitted == IF v.to = NoPath \/ awaited # {} THEN {} ELSE Emitted(e, gid, v)
           deletes == {c \in emitted : kind = "dropbox" /\ c.type = "Delete"}
           type == IF "Move" \in awaited THEN "Move" ELSE CHOOSE t \in awaited : TRUE
<1>1. /\ Up /\ working /\ batch # <<>> /\ gid \in Lookup(e) /\ batch' = Tail(batch)
      /\ old' = IF v.to = NoPath \/ awaited = {} THEN old ELSE Checked(old, EventKey(type, id, v.to), type)
      /\ pathMap' = IF kind = "google" /\ gid = 0 /\ ~e.gone /\ e.id \in Folder
                    THEN Put(pathMap, e.id, v.to) ELSE pathMap
      /\ out' = out \o SetToSeq(emitted \ deletes)
      /\ doomed' = (doomed \ Saved(emitted)) \cup {c \in deletes : \A other \in doomed : other.path # c.path}
      /\ UNCHANGED <<kind, item, feed, token, working, expected, changes, writes, stuck, db, status, fate>>
  BY DEF Entry, cloudVars, workVars
<1>2. id = Subject(e, gid)
  BY DEF Subject
<1>3. awaited # {} => type \in awaited /\ ("Move" \in awaited => type = "Move")
  OBVIOUS
<1>4. EntryOK(e, HomeFolder, LiveFolder, kind)
  <2>1. 1 \in DOMAIN batch /\ e = batch[1]
    BY <1>1, Beheaded DEF TypeInv, BatchTyped
  <2> QED
    BY <2>1 DEF TypeInv, BatchTyped
<1>5. IF v.to = NoPath \/ awaited = {} THEN old' = old
      ELSE \E t \in awaited : /\ old' = Checked(old, EventKey(t, Subject(e, gid), v.to), t)
                              /\ "Move" \in awaited => t = "Move"
  <2> HIDE DEF type, awaited, id, v, e
  <2> QED
    BY <1>1, <1>2, <1>3
<1>6. \E d : /\ d = {c \in emitted : kind = "dropbox" /\ c.type = "Delete"}
             /\ out' = out \o SetToSeq(emitted \ d)
             /\ doomed' = (doomed \ Saved(emitted)) \cup {c \in d : \A other \in doomed : other.path # c.path}
  <2> HIDE DEF emitted
  <2> QED
    BY <1>1
<1>7. emitted = IF v.to = NoPath \/ Awaited(e, gid, v) # {} THEN {} ELSE Emitted(e, gid, v)
  OBVIOUS
<1> WITNESS e, v, emitted
<1> HIDE DEF e, v, emitted, awaited
<1> QED
  BY <1>1, <1>4, <1>5, <1>6, <1>7 DEF e, v, awaited

LEMMA EntryTyped ==
  ASSUME TypeInv, NEW gid, Entry(gid) PROVE TypeInv'
<1>1. PICK e, v, emitted :
        /\ e = Head(batch) /\ v = Verdict(e, gid) /\ gid \in Lookup(e)
        /\ EntryOK(e, HomeFolder, LiveFolder, kind) /\ batch' = Tail(batch) /\ batch # <<>>
        /\ emitted = IF v.to = NoPath \/ Awaited(e, gid, v) # {} THEN {} ELSE Emitted(e, gid, v)
        /\ IF v.to = NoPath \/ Awaited(e, gid, v) = {} THEN old' = old
           ELSE \E type \in Awaited(e, gid, v) :
                  /\ old' = Checked(old, EventKey(type, Subject(e, gid), v.to), type)
                  /\ "Move" \in Awaited(e, gid, v) => type = "Move"
        /\ pathMap' = IF kind = "google" /\ gid = 0 /\ ~e.gone /\ e.id \in Folder
                      THEN Put(pathMap, e.id, v.to) ELSE pathMap
        /\ \E deletes :
             /\ deletes = {c \in emitted : kind = "dropbox" /\ c.type = "Delete"}
             /\ out' = out \o SetToSeq(emitted \ deletes)
             /\ doomed' = (doomed \ Saved(emitted))
                           \cup {c \in deletes : \A other \in doomed : other.path # c.path}
        /\ UNCHANGED <<kind, item, feed, token, working, expected, changes, writes, stuck, db,
                       status, fate>>
        /\ Up /\ working
  BY EntryActs
<1>2. CloudTyped /\ World /\ LiveFolder' = LiveFolder /\ HomeFolder' = HomeFolder
  BY <1>1, SameWorld DEF TypeInv
<1>3. CloudTyped'
  BY <1>1, <1>2 DEF CloudTyped
<1>4. /\ IsSeq(batch') /\ \A i \in DOMAIN batch' : i + 1 \in DOMAIN batch /\ batch'[i] = batch[i + 1]
      /\ \A i \in DOMAIN batch' : i \in Nat
  <2>1. /\ IsSeq(batch') /\ \A i \in DOMAIN batch' : i + 1 \in DOMAIN batch /\ batch'[i] = batch[i + 1]
    BY <1>1, Beheaded DEF TypeInv, BatchTyped
  <2> QED
    BY <2>1, SeqFacts
<1>5. BatchTyped'
  <2>1. \A i \in DOMAIN batch' : EntryOK(batch'[i], HomeFolder, LiveFolder, kind)
    BY <1>4 DEF TypeInv, BatchTyped
  <2>2. OneEach'
    <3> SUFFICES ASSUME NEW i \in DOMAIN batch', NEW j \in DOMAIN batch', batch'[i].id = batch'[j].id,
                        batch'[i].id = None => batch'[i].path = batch'[j].path
                 PROVE  i = j
      BY DEF OneEach
    <3>1. i + 1 = j + 1
      BY <1>4 DEF TypeInv, BatchTyped, OneEach
    <3> QED
      BY <1>4, <3>1
  <2> QED
    BY <1>1, <1>2, <1>4, <2>1, <2>2 DEF BatchTyped
<1>6. RegistryOK(old', HomeFolder)
  <2>1. \/ old' = old
        \/ \E key : old' = Without(old, key)
    BY <1>1 DEF Checked
  <2>2. ASSUME NEW key PROVE RegistryOK(Without(old, key), HomeFolder)
    <3>1. DOMAIN Without(old, key) \subseteq DOMAIN old
      BY DEF Without, Restrict
    <3>2. \A k \in DOMAIN Without(old, key) : Without(old, key)[k] = old[k]
      BY DEF Without, Restrict
    <3> QED
      BY <3>1, <3>2 DEF TypeInv, ExpectedTyped, RegistryOK
  <2> QED
    BY <2>1, <2>2 DEF TypeInv, ExpectedTyped
<1>7. PathMapOK(pathMap', HomeFolder, LiveFolder)
  <2>1. PathMapOK(pathMap, HomeFolder, LiveFolder)
    BY DEF TypeInv, ExpectedTyped
  <2>2. CASE kind = "google" /\ gid = 0 /\ ~e.gone /\ e.id \in Folder
    <3>1. v.to = IF e.id \in HomeFolder THEN FolderPath(e.id) ELSE NoPath
      BY <1>1, <2>2, VerdictIs
    <3>2. e.id \in LiveFolder
      BY <1>1, <2>2, Names DEF EntryOK, Id
    <3>3. pathMap' = Put(pathMap, e.id, v.to)
      BY <1>1, <2>2
    <3> QED
      BY <2>1, <3>1, <3>2, <3>3 DEF PathMapOK, Put
  <2> QED
    BY <1>1, <2>1, <2>2
<1>8. ExpectedTyped'
  BY <1>1, <1>2, <1>6, <1>7 DEF TypeInv, ExpectedTyped
<1>9. DbTyped' /\ Keeps(db, db') /\ Tables(db') /\ Spares(db, db')
  BY <1>1, <1>2, DbKept DEF DbTyped, DbOK, Spares
<1>10. IsFiniteSet(emitted) /\ \A c \in emitted : ChangeOK(c, db, HomeFolder)
  BY <1>1, EmittedAre, EmittedTyped, FS_EmptySet
<1>11. PICK deletes :
         /\ deletes = {c \in emitted : kind = "dropbox" /\ c.type = "Delete"}
         /\ out' = out \o SetToSeq(emitted \ deletes)
         /\ doomed' = (doomed \ Saved(emitted))
                       \cup {c \in deletes : \A other \in doomed : other.path # c.path}
  BY <1>1
<1>12. IsSeq(out') /\ Range(out') = Range(out) \cup (emitted \ deletes)
  <2>1. IsFiniteSet(emitted \ deletes)
    BY <1>10, FS_Difference
  <2>2. IsSeq(SetToSeq(emitted \ deletes)) /\ Range(SetToSeq(emitted \ deletes)) = emitted \ deletes
    BY <2>1, AnOrder
  <2>3. IsSeq(out)
    BY DEF TypeInv, ChangesTyped
  <2> DEFINE news == emitted \ deletes
             order == SetToSeq(news)
  <2>4. out' = out \o order /\ IsSeq(order) /\ Range(order) = news
    BY <1>11, <2>2
  <2> HIDE DEF order, news
  <2>5. IsSeq(out \o order) /\ Range(out \o order) = Range(out) \cup Range(order)
    BY <2>3, <2>4, Joined
  <2> QED
    BY <2>4, <2>5 DEF news
<1>13. IsFiniteSet(doomed') /\ doomed' \subseteq doomed \cup emitted
  <2>1. doomed' \in SUBSET (doomed \cup emitted)
    BY <1>11
  <2>2. IsFiniteSet(doomed \cup emitted)
    BY <1>10, FS_Union DEF TypeInv, ChangesTyped
  <2> QED
    BY <2>1, <2>2, FS_Subset
<1>14. ChangesTyped'
  <2>1. \A c \in InProgress' : c \in InProgress \/ ChangeOK(c, db', HomeFolder')
    BY <1>1, <1>2, <1>10, <1>12, <1>13 DEF InProgress
  <2>2. IsSeq(changes')
    BY <1>1 DEF TypeInv, ChangesTyped
  <2> QED
    BY <1>2, <1>9, <1>12, <1>13, <2>1, <2>2, ChangesKept
<1>15. WritesTyped'
  BY <1>1, <1>2, <1>9, WritesUntouched DEF TypeInv, WritesTyped
<1>16. RestTyped'
  BY <1>1 DEF TypeInv, RestTyped, Up
<1> QED
  BY <1>3, <1>5, <1>8, <1>9, <1>14, <1>15, <1>16 DEF TypeInv

(* The rows of an id after one row has changed. *)
LEMMA RowsElse ==
  ASSUME NEW d, NEW e, Tables(d), Tables(e), NEW n, Others(d, e, n), NEW id
  PROVE  {r \in RowsIn(e, id) : r.gid # n} = {r \in RowsIn(d, id) : r.gid # n}
<1> DEFINE at(x, g) == [gid |-> g, path |-> PathOfRow(x, g), link |-> LinkIn(x, g)]
<1>1. ASSUME NEW x, NEW y, Tables(x), Tables(y), Others(x, y, n), NEW r \in RowsIn(x, id), r.gid # n
      PROVE  r \in RowsIn(y, id)
  <2>1. /\ r.gid \in DOMAIN x.files /\ LinkedIn(x, r.gid) /\ LinkIn(x, r.gid).id = id
    BY <1>1, RowsAre
  <2>2. PICK g : g \in LinkedTo(x, Cloud, id) /\ r = at(x, g)
    BY <1>1 DEF RowsIn
  <2>3. r.gid = g
    BY <2>2
  <2>4. SameRow(x, y, g)
    BY <1>1, <2>3 DEF Others
  <2>5. at(y, g) = at(x, g) /\ g \in DOMAIN y.files /\ LinkedIn(y, g) /\ LinkIn(y, g).id = id
    BY <2>1, <2>3, <2>4 DEF SameRow
  <2>6. at(y, g) \in RowsIn(y, id)
    BY <1>1, <2>5, RowsAre
  <2> QED
    BY <2>2, <2>5, <2>6
<1>2. Others(e, d, n)
  BY DEF Others, SameRow
<1> QED
  BY <1>1, <1>2

LEMMA RowsMore ==
  ASSUME NEW d, NEW e, Tables(d), Tables(e), NEW n, Others(d, e, n), LinkedIn(e, n)
  PROVE  RowsIn(e, LinkIn(e, n).id) = {r \in RowsIn(d, LinkIn(e, n).id) : r.gid # n}
            \cup {[gid |-> n, path |-> PathOfRow(e, n), link |-> LinkIn(e, n)]}
<1> DEFINE id == LinkIn(e, n).id
           row == [gid |-> n, path |-> PathOfRow(e, n), link |-> LinkIn(e, n)]
<1>1. {r \in RowsIn(e, id) : r.gid # n} = {r \in RowsIn(d, id) : r.gid # n}
  BY RowsElse
<1>2. n \in DOMAIN e.files
  BY Key
<1>3. row \in RowsIn(e, id)
  BY <1>2, RowsAre
<1>4. ASSUME NEW r \in RowsIn(e, id), r.gid = n PROVE r = row
  <2>1. PICK g : r = [gid |-> g, path |-> PathOfRow(e, g), link |-> LinkIn(e, g)]
    BY <1>4 DEF RowsIn
  <2> QED
    BY <1>4, <2>1
<1> HIDE DEF row, id
<1>5. RowsIn(e, id) = {r \in RowsIn(e, id) : r.gid # n} \cup {row}
  BY <1>3, <1>4
<1> QED
  BY <1>1, <1>5 DEF row, id

LEMMA RowsLess ==
  ASSUME NEW d, NEW e, Tables(d), Tables(e), NEW n, Others(d, e, n), ~LinkedIn(e, n), NEW id
  PROVE  RowsIn(e, id) = {r \in RowsIn(d, id) : r.gid # n}
<1>1. {r \in RowsIn(e, id) : r.gid # n} = {r \in RowsIn(d, id) : r.gid # n}
  BY RowsElse
<1>2. \A r \in RowsIn(e, id) : r.gid # n
  BY RowsAre
<1> QED
  BY <1>1, <1>2

(* A step that leaves the cloud and the batch alone. *)
LEMMA WorkTyped ==
  ASSUME TypeInv, UNCHANGED <<kind, item, feed, token, batch, working, old, pathMap, out, doomed, status>>,
         DbOK(db', HomeFolder), Keeps(db, db'), RegistryOK(expected', HomeFolder),
         IsSeq(changes'), \A c \in Range(changes') : c \in InProgress \/ ChangeOK(c, db', HomeFolder),
         \A w \in writes' : WriteOK(w, db', HomeFolder, kind),
         \A v, w \in writes' : v.op = "New" /\ w.op = "New" /\ v.gid = w.gid => v = w,
         stuck' \subseteq FileSpots(HomeFolder), fate' \in [Id -> SUBSET Fates]
  PROVE  TypeInv'
<1>1. CloudTyped /\ World /\ LiveFolder' = LiveFolder /\ HomeFolder' = HomeFolder
  BY SameWorld DEF TypeInv
<1>2. CloudTyped'
  BY <1>1 DEF CloudTyped
<1>3. BatchTyped'
  BY <1>1, BatchKept
<1>4. ExpectedTyped'
  BY <1>1 DEF TypeInv, ExpectedTyped
<1>5. DbTyped' /\ Tables(db')
  BY <1>1 DEF DbTyped, DbOK
<1>6. ChangesTyped'
  <2>1. \A c \in InProgress' : c \in InProgress \/ ChangeOK(c, db', HomeFolder')
    BY <1>1 DEF InProgress
  <2>2. IsSeq(out') /\ IsFiniteSet(doomed')
    BY DEF TypeInv, ChangesTyped
  <2> QED
    BY <1>1, <1>5, <2>1, <2>2, ChangesKept
<1>7. WritesTyped'
  BY <1>1 DEF WritesTyped
<1>8. RestTyped'
  BY RestKept
<1> QED
  BY <1>2, <1>3, <1>4, <1>5, <1>6, <1>7, <1>8 DEF TypeInv

LEMMA CarriedTyped ==
  ASSUME TypeInv, NEW k \in DOMAIN changes, NEW result, Carried(k, result),
         DbOK(result, HomeFolder), Keeps(db, result), Spares(db, result)
  PROVE  TypeInv'
<1> DEFINE c == changes[k]
<1>1. /\ db' = result /\ changes' = c.then \o RemoveAt(changes, k)
      /\ UNCHANGED <<kind, item, feed, token, batch, working, old, pathMap, out, doomed, expected,
                     writes, stuck, status, fate>>
  BY DEF Carried, cloudVars, batchVars
<1>2. /\ IsSeq(changes) /\ c \in InProgress /\ ChangeOK(c, db, HomeFolder)
      /\ Tables(db) /\ Tables(result)
  BY DEF TypeInv, ChangesTyped, InProgress, Range, DbTyped, DbOK
<1>3. IsSeq(RemoveAt(changes, k)) /\ Range(RemoveAt(changes, k)) \subseteq Range(changes)
  BY <1>2, Removed
<1>4. IsSeq(c.then) /\ \A u \in Range(c.then) : ChangeOK(u, db, HomeFolder)
  <2>1. CASE c.then = <<>>
    BY <2>1, NothingSeq
  <2>2. CASE \E u \in Range(c.then) : c.then = <<u>> /\ c.type = "Move" /\ DependentOK(u, c)
    <3>1. PICK u : c.then = <<u>> /\ c.type = "Move" /\ DependentOK(u, c)
      BY <2>2
    <3>2. ChangeOK(u, db, HomeFolder)
      BY <1>2, <3>1 DEF ChangeOK, DependentOK, ChangeTypes
    <3> QED
      BY <3>1, <3>2, SingleSeq
  <2> QED
    BY <1>2, <2>1, <2>2 DEF ChangeOK
<1>5. IsSeq(changes') /\ Range(changes') = Range(c.then) \cup Range(RemoveAt(changes, k))
  <2> DEFINE then == c.then
             rest == RemoveAt(changes, k)
  <2>1. IsSeq(then) /\ IsSeq(rest) /\ changes' = then \o rest
    BY <1>1, <1>3, <1>4
  <2> HIDE DEF then, rest
  <2>2. IsSeq(then \o rest) /\ Range(then \o rest) = Range(then) \cup Range(rest)
    BY <2>1, Joined
  <2> QED
    BY <2>1, <2>2 DEF then, rest
<1>6. \A d \in Range(changes') : d \in InProgress \/ ChangeOK(d, db', HomeFolder)
  <2> SUFFICES ASSUME NEW d \in Range(c.then) PROVE ChangeOK(d, result, HomeFolder)
    BY <1>1, <1>3, <1>5 DEF InProgress
  <2> QED
    BY <1>2, <1>4, ChangeKept
<1>7. \A w \in writes : WriteOK(w, result, HomeFolder, kind)
  <2> SUFFICES ASSUME NEW w \in writes PROVE WriteOK(w, result, HomeFolder, kind)
    OBVIOUS
  <2>1. WriteOK(w, db, HomeFolder, kind)
    BY DEF TypeInv, WritesTyped
  <2>2. w.op = "New" => w.gid \in Loose(result) /\ PathOfRow(result, w.gid) = PathOfRow(db, w.gid)
    BY <2>1 DEF WriteOK, Spares
  <2> QED
    BY <1>2, <2>1, <2>2, WriteKept
<1>8. /\ \A v, w \in writes : v.op = "New" /\ w.op = "New" /\ v.gid = w.gid => v = w
      /\ stuck \subseteq FileSpots(HomeFolder) /\ fate \in [Id -> SUBSET Fates]
      /\ RegistryOK(expected, HomeFolder)
  BY DEF TypeInv, WritesTyped, RestTyped, ExpectedTyped
<1> QED
  BY <1>1, <1>5, <1>6, <1>7, <1>8, WorkTyped

(* The row of a new file, and of its folder if that has none. *)
LEMMA ParentsMade ==
  ASSUME TypeInv, NEW id \in File, NEW p \in Spots(id, HomeFolder), NEW e, e = WithParents(db, p)
  PROVE  /\ DbOK(e, HomeFolder) /\ Keeps(db, e) /\ Loose(e) = Loose(db)
         /\ \A g \in Loose(e) : PathOfRow(e, g) = PathOfRow(db, g)
         /\ \A i \in File : RowsIn(e, i) = RowsIn(db, i)
         /\ \A d \in Folder : LinkedTo(db, Cloud, d) # {} => RowsIn(e, d) = RowsIn(db, d)
         /\ p \in Paths
<1>1. DbOK(db, HomeFolder) /\ Tables(db) /\ HomeFolder \in SUBSET Folder
  BY HomesAreLive DEF TypeInv, DbTyped, DbOK
<1>2. PICK dir \in {Home} \cup HomeFolder : p = Spot(dir, id)
  BY <1>1, SpotsIn, ZenonT(30)
<1>3. id \in Id /\ dir \in {Home} \cup Folder
  BY <1>1 DEF Id
<1>4. p \in Paths
  BY <1>2, <1>3, SpotKinds
<1>5. CASE dir = Home
  <2>1. e = db
    BY <1>2, <1>3, <1>5, SpotKinds DEF WithParents
  <2> QED
    BY <1>1, <1>4, <2>1, KeepsAll
<1>6. CASE dir \in HomeFolder
  <2>1. dir # Home /\ dir \in Folder
    BY <1>1, <1>6, Names DEF Id
  <2>2. FolderAt(p) = {dir}
    BY <1>2, <1>3, <2>1, SpotKinds
  <2>3. e = WithFolder(db, dir)
    BY <2>2 DEF WithParents
  <2>4. /\ DbOK(e, HomeFolder) /\ Keeps(db, e) /\ Loose(e) = Loose(db)
        /\ \A g \in Loose(e) : PathOfRow(e, g) = PathOfRow(db, g)
        /\ \A i : i # dir => RowsIn(e, i) = RowsIn(db, i)
    BY <1>1, <1>6, <2>3, FolderMade
  <2>5. LinkedTo(db, Cloud, dir) # {} => e = db
    <3>1. RowsOf(db, FolderPath(dir)) = LinkedTo(db, Cloud, dir)
      BY <1>1, <2>1, FolderRow
    <3> QED
      BY <2>3, <3>1 DEF WithFolder, HasRow
  <2>6. \A i \in File : i # dir
    BY <2>1, Names
  <2> QED
    BY <1>4, <2>4, <2>5, <2>6
<1> QED
  BY <1>2, <1>5, <1>6

LEMMA NewRowIs ==
  ASSUME TypeInv, NEW id \in File, NEW p \in Spots(id, HomeFolder), NEW c, c.path = p, NEW e, e = NewRow(db, c)
  PROVE  /\ DbOK(e, HomeFolder) /\ Keeps(db, e) /\ Spares(db, e)
         /\ e.lastId \in DOMAIN e.files /\ ~LinkedIn(e, e.lastId) /\ PathOfRow(e, e.lastId) = p
         /\ e.lastId \notin DOMAIN db.files /\ e.lastId > db.lastId
         /\ \A i \in File : RowsIn(e, i) = RowsIn(db, i)
         /\ \A d \in Folder : LinkedTo(db, Cloud, d) # {} => RowsIn(e, d) = RowsIn(db, d)
<1> DEFINE b == WithParents(db, p)
           n == NewId(b)
<1>1. /\ DbOK(b, HomeFolder) /\ Keeps(db, b) /\ Loose(b) = Loose(db)
      /\ \A g \in Loose(b) : PathOfRow(b, g) = PathOfRow(db, g)
      /\ \A i \in File : RowsIn(b, i) = RowsIn(db, i)
      /\ \A d \in Folder : LinkedTo(db, Cloud, d) # {} => RowsIn(b, d) = RowsIn(db, d)
      /\ p \in Paths
  BY ParentsMade
<1>2. e = WithFile(b, p, None)
  BY DEF NewRow
<1>3. Tables(b) /\ Tables(db) /\ b.lastId \in Nat /\ db.lastId \in Nat /\ db.lastId <= b.lastId
  BY <1>1 DEF TypeInv, DbTyped, DbOK, Tables, Keeps
<1> HIDE DEF b
<1>4. /\ Tables(e) /\ e.lastId = n /\ n = b.lastId + 1
      /\ n \notin DOMAIN b.files /\ DOMAIN e.files = DOMAIN b.files \cup {n}
      /\ PathOfRow(e, n) = p /\ ~LinkedIn(e, n)
      /\ Others(b, e, n)
  BY <1>1, <1>2, <1>3, RowAdded
<1> HIDE DEF n
<1>5. DbOK(e, HomeFolder)
  <2>1. p \in FileSpots(HomeFolder)
    BY DEF FileSpots
  <2>2. RowOK(e, n, HomeFolder)
    BY <1>4, <2>1 DEF RowOK
  <2> QED
    BY <1>1, <1>4, <2>2, RowTyped
<1>6. Keeps(b, e)
  <2>1. ~(n \in 1..b.lastId) /\ b.lastId <= e.lastId
    BY <1>3, <1>4
  <2> QED
    BY <1>3, <1>4, <2>1, RowKept
<1>7. Keeps(db, e)
  BY <1>1, <1>3, <1>4, <1>6, KeepsBoth
<1>8. Spares(db, e)
  <2> SUFFICES ASSUME NEW g \in Loose(db) PROVE g \in Loose(e) /\ PathOfRow(e, g) = PathOfRow(db, g)
    BY DEF Spares
  <2>1. g \in Loose(b) /\ g # n /\ PathOfRow(b, g) = PathOfRow(db, g)
    BY <1>1, <1>4 DEF Loose
  <2>2. SameRow(b, e, g)
    BY <1>4, <2>1 DEF Others
  <2> QED
    BY <2>1, <2>2 DEF SameRow, Loose
<1>9. \A i : RowsIn(e, i) = RowsIn(b, i)
  <2> TAKE i
  <2>1. ~LinkedIn(b, n)
    BY <1>3, <1>4, Key
  <2> QED
    BY <1>3, <1>4, <2>1, RowsKept
<1>10. n \notin DOMAIN db.files /\ n > db.lastId
  <2>1. n > db.lastId
    BY <1>3, <1>4
  <2> QED
    BY <1>3, <2>1, Key
<1> QED
  BY <1>1, <1>4, <1>5, <1>7, <1>8, <1>9, <1>10

LEMMA NewFileIs ==
  ASSUME TypeInv, NEW id \in File, NEW p \in Spots(id, HomeFolder), NEW c, c.path = p,
         NEW stat \in LinkSet, stat.id = id,
         NEW e, e = WithLink(NewRow(db, c), NewRow(db, c).lastId, Cloud, stat)
  PROVE  /\ DbOK(e, HomeFolder) /\ Keeps(db, e) /\ Spares(db, e)
         /\ \E n : /\ n \notin DOMAIN db.files /\ n > db.lastId
                   /\ RowsIn(e, id) = RowsIn(db, id) \cup {[gid |-> n, path |-> p, link |-> stat]}
         /\ \A i \in File : i # id => RowsIn(e, i) = RowsIn(db, i)
         /\ \A d \in Folder : LinkedTo(db, Cloud, d) # {} => RowsIn(e, d) = RowsIn(db, d)
<1> DEFINE b == NewRow(db, c)
           n == b.lastId
<1>1. /\ DbOK(b, HomeFolder) /\ Keeps(db, b) /\ Spares(db, b)
      /\ n \in DOMAIN b.files /\ ~LinkedIn(b, n) /\ PathOfRow(b, n) = p
      /\ n \notin DOMAIN db.files /\ n > db.lastId
      /\ \A i \in File : RowsIn(b, i) = RowsIn(db, i)
      /\ \A d \in Folder : LinkedTo(db, Cloud, d) # {} => RowsIn(b, d) = RowsIn(db, d)
  BY NewRowIs
<1>2. e = WithLink(b, n, Cloud, stat)
  OBVIOUS
<1>3. Tables(b) /\ Tables(db)
  BY <1>1 DEF TypeInv, DbTyped, DbOK
<1> HIDE DEF b
<1>4. /\ Tables(e) /\ e.lastId = b.lastId /\ e.files = b.files
      /\ LinkedIn(e, n) /\ LinkIn(e, n) = stat /\ Others(b, e, n)
  BY <1>1, <1>2, <1>3, LinkAdded
<1> HIDE DEF n
<1>5. PathOfRow(e, n) = p
  BY <1>1, <1>4 DEF PathOfRow
<1>6. id \notin Folder
  BY Names
<1>7. DbOK(e, HomeFolder)
  <2>1. RowOK(e, n, HomeFolder)
    BY <1>4, <1>5, <1>6 DEF RowOK
  <2> QED
    BY <1>1, <1>4, <1>6, <2>1, RowTyped
<1>8. Keeps(b, e)
  <2>1. b.lastId <= e.lastId
    BY <1>3, <1>4 DEF Tables
  <2> QED
    BY <1>1, <1>3, <1>4, <2>1, RowKept
<1>9. Keeps(db, e)
  BY <1>1, <1>3, <1>4, <1>8, KeepsBoth
<1>10. Spares(db, e)
  <2> SUFFICES ASSUME NEW g \in Loose(db) PROVE g \in Loose(e) /\ PathOfRow(e, g) = PathOfRow(db, g)
    BY DEF Spares
  <2>1. g # n /\ g \in Loose(b) /\ PathOfRow(b, g) = PathOfRow(db, g)
    BY <1>1 DEF Spares, Loose
  <2>2. SameRow(b, e, g)
    BY <1>4, <2>1 DEF Others
  <2> QED
    BY <2>1, <2>2 DEF SameRow, Loose
<1>11. \A i : i # id => RowsIn(e, i) = RowsIn(b, i)
  BY <1>1, <1>3, <1>4, RowsKept
<1>12. RowsIn(e, id) = RowsIn(b, id) \cup {[gid |-> n, path |-> p, link |-> stat]}
  <2>1. RowsIn(e, id) = {r \in RowsIn(b, id) : r.gid # n} \cup {[gid |-> n, path |-> p, link |-> stat]}
    BY <1>3, <1>4, <1>5, RowsMore
  <2>2. \A r \in RowsIn(b, id) : r.gid # n
    BY <1>1, <1>3, RowsAre
  <2> QED
    BY <2>1, <2>2
<1> QED
  BY <1>1, <1>6, <1>7, <1>9, <1>10, <1>11, <1>12

(* One row of a file changes. *)
LEMMA RelinkedIs ==
  ASSUME NEW d, NEW H, DbOK(d, H), NEW g, LinkedIn(d, g), NEW stat \in LinkSet, LinkIn(d, g).id \in File,
         stat.id = LinkIn(d, g).id, NEW e, e = WithLinkUpdated(d, g, Cloud, stat)
  PROVE  /\ DbOK(e, H) /\ Keeps(d, e) /\ Spares(d, e)
         /\ LinkedIn(e, g) /\ LinkIn(e, g) = stat /\ PathOfRow(e, g) = PathOfRow(d, g) /\ Others(d, e, g)
<1>1. Tables(d) /\ g \in DOMAIN d.files /\ LinkIn(d, g).id \notin Folder
  BY Key, Names DEF DbOK
<1>2. /\ Tables(e) /\ e.lastId = d.lastId /\ e.files = d.files
      /\ LinkedIn(e, g) /\ LinkIn(e, g) = stat /\ Others(d, e, g)
  BY <1>1, LinkChanged
<1>3. PathOfRow(e, g) = PathOfRow(d, g)
  BY <1>2 DEF PathOfRow
<1>4. RowOK(d, g, H)
  BY <1>1 DEF DbOK
<1>5. RowOK(e, g, H)
  BY <1>1, <1>2, <1>3, <1>4 DEF RowOK
<1>6. DbOK(e, H)
  BY <1>1, <1>2, <1>5, RowTyped
<1>7. Keeps(d, e)
  <2>1. d.lastId <= e.lastId
    BY <1>1, <1>2 DEF Tables
  <2> QED
    BY <1>1, <1>2, <2>1, RowKept
<1>8. Spares(d, e)
  <2> SUFFICES ASSUME NEW n \in Loose(d) PROVE n \in Loose(e) /\ PathOfRow(e, n) = PathOfRow(d, n)
    BY DEF Spares
  <2>1. n # g
    BY DEF Loose
  <2>2. SameRow(d, e, n)
    BY <1>2, <2>1 DEF Others
  <2> QED
    BY <2>2 DEF SameRow, Loose
<1> QED
  BY <1>2, <1>3, <1>6, <1>7, <1>8

LEMMA MovedIs ==
  ASSUME NEW d, NEW H \in SUBSET Folder, DbOK(d, H), NEW g, LinkedIn(d, g), LinkIn(d, g).id \in File,
         NEW p \in Spots(LinkIn(d, g).id, H), NEW e, e = WithFileMoved(d, g, p)
  PROVE  /\ DbOK(e, H) /\ Keeps(d, e) /\ Spares(d, e)
         /\ LinkedIn(e, g) /\ LinkIn(e, g) = LinkIn(d, g) /\ PathOfRow(e, g) = p /\ Others(d, e, g)
         /\ g \in DOMAIN e.files
<1>1. Tables(d) /\ g \in DOMAIN d.files /\ LinkIn(d, g).id \notin Folder /\ LinkIn(d, g).id \in Id
  BY Key, Names DEF DbOK
<1>2. p \in Paths
  BY <1>1, SpotsIn
<1>3. /\ Tables(e) /\ e.lastId = d.lastId /\ e.links = d.links
      /\ DOMAIN e.files = DOMAIN d.files /\ PathOfRow(e, g) = p /\ Others(d, e, g)
  BY <1>1, <1>2, RowMoved
<1>4. LinkedIn(e, g) /\ LinkIn(e, g) = LinkIn(d, g)
  BY <1>3 DEF LinkedIn, LinkIn
<1>5. RowOK(d, g, H)
  BY <1>1 DEF DbOK
<1>6. RowOK(e, g, H)
  BY <1>1, <1>3, <1>4, <1>5 DEF RowOK
<1>7. DbOK(e, H)
  BY <1>1, <1>3, <1>4, <1>6, RowTyped
<1>8. Keeps(d, e)
  <2>1. d.lastId <= e.lastId
    BY <1>1, <1>3 DEF Tables
  <2> QED
    BY <1>1, <1>3, <1>4, <2>1, RowKept
<1>9. Spares(d, e)
  <2> SUFFICES ASSUME NEW n \in Loose(d) PROVE n \in Loose(e) /\ PathOfRow(e, n) = PathOfRow(d, n)
    BY DEF Spares
  <2>1. n # g
    BY DEF Loose
  <2>2. SameRow(d, e, n)
    BY <1>3, <2>1 DEF Others
  <2> QED
    BY <2>2 DEF SameRow, Loose
<1> QED
  BY <1>1, <1>3, <1>4, <1>7, <1>8, <1>9

LEMMA DroppedIs ==
  ASSUME NEW d, NEW H, DbOK(d, H), NEW g, g \notin Loose(d), NEW e, e = WithoutFile(d, g)
  PROVE  /\ DbOK(e, H) /\ Keeps(d, e) /\ Spares(d, e)
         /\ ~LinkedIn(e, g) /\ g \notin DOMAIN e.files /\ Others(d, e, g)
<1>1. Tables(d)
  BY DEF DbOK
<1>2. /\ Tables(e) /\ e.lastId = d.lastId /\ g \notin DOMAIN e.files /\ ~LinkedIn(e, g)
      /\ DOMAIN e.files = DOMAIN d.files \ {g} /\ Others(d, e, g)
  BY <1>1, RowDropped
<1>3. DbOK(e, H)
  BY <1>1, <1>2, RowTyped
<1>4. Keeps(d, e)
  <2>1. d.lastId <= e.lastId
    BY <1>1, <1>2 DEF Tables
  <2> QED
    BY <1>1, <1>2, <2>1, RowKept
<1>5. Spares(d, e)
  <2> SUFFICES ASSUME NEW n \in Loose(d) PROVE n \in Loose(e) /\ PathOfRow(e, n) = PathOfRow(d, n)
    BY DEF Spares
  <2>1. n # g
    OBVIOUS
  <2>2. SameRow(d, e, n)
    BY <1>2, <2>1 DEF Others
  <2> QED
    BY <2>2 DEF SameRow, Loose
<1> QED
  BY <1>2, <1>3, <1>4, <1>5

(* The commands of a change. *)
LEMMA ChangeIs ==
  ASSUME TypeInv, NEW k \in DOMAIN changes
  PROVE  /\ changes[k] \in InProgress /\ ChangeOK(changes[k], db, HomeFolder)
         /\ changes[k].type # "New" /\ changes[k].gid \in DOMAIN db.files =>
              /\ LinkedIn(db, changes[k].gid) /\ LinkIn(db, changes[k].gid).id = changes[k].id
              /\ changes[k].id \in File /\ LinkIn(db, changes[k].gid) \in LinkSet
<1>1. changes[k] \in InProgress /\ ChangeOK(changes[k], db, HomeFolder)
  BY DEF TypeInv, ChangesTyped, InProgress, Range
<1>2. \A g \in DOMAIN db.files : LinkedIn(db, g) => LinkIn(db, g) \in LinkSet
  BY DEF TypeInv, DbTyped, DbOK, RowOK
<1> QED
  BY <1>1, <1>2 DEF ChangeOK, OwnerOK

LEMMA CarryNewTyped ==
  ASSUME TypeInv, NEW k \in DOMAIN changes, CarryNew(k) PROVE TypeInv'
<1> DEFINE c == changes[k]
           stat == LinkStat(c.id, c.dir, c.time, c.hash)
<1>1. ChangeOK(c, db, HomeFolder) /\ DbOK(db, HomeFolder) /\ HomeFolder \in SUBSET Folder
  BY ChangeIs, HomesAreLive DEF TypeInv, DbTyped
<1>2. CASE c.id \in Folder
  <2>1. Carried(k, WithFolder(db, c.id)) /\ c.id \in HomeFolder
    BY <1>1, <1>2 DEF CarryNew, ChangeOK
  <2>2. DbOK(WithFolder(db, c.id), HomeFolder) /\ Keeps(db, WithFolder(db, c.id))
        /\ Spares(db, WithFolder(db, c.id))
    BY <1>1, <2>1, FolderMade DEF Spares
  <2> QED
    BY <2>1, <2>2, CarriedTyped
<1>3. CASE c.id \in File
  <2>1. stat \in LinkSet /\ stat.id = c.id
    BY <1>1 DEF ChangeOK, LinkStat, LinkSet
  <2>2. Carried(k, WithLink(NewRow(db, c), NewRow(db, c).lastId, Cloud, stat))
    BY <1>3, Names DEF CarryNew
  <2> HIDE DEF stat
  <2> DEFINE e == WithLink(NewRow(db, c), NewRow(db, c).lastId, Cloud, stat)
  <2>3. DbOK(e, HomeFolder) /\ Keeps(db, e) /\ Spares(db, e)
    BY <1>1, <1>3, <2>1, NewFileIs DEF ChangeOK
  <2> QED
    BY <2>2, <2>3, CarriedTyped
<1> QED
  BY <1>1, <1>2, <1>3, Names DEF ChangeOK

LEMMA CarryUpdateTyped ==
  ASSUME TypeInv, NEW k \in DOMAIN changes, CarryUpdate(k) PROVE TypeInv'
<1> DEFINE c == changes[k]
           stat == [Link(c.gid) EXCEPT !.time = c.time, !.hash = c.hash]
<1>1. ChangeOK(c, db, HomeFolder) /\ DbOK(db, HomeFolder)
  BY ChangeIs DEF TypeInv, DbTyped
<1>2. c.type = "Update" /\ c.gid \in DOMAIN db.files
  BY DEF CarryUpdate, InPlace
<1>3. /\ LinkedIn(db, c.gid) /\ LinkIn(db, c.gid).id = c.id /\ c.id \in File
      /\ LinkIn(db, c.gid) \in LinkSet
  BY <1>2, ChangeIs
<1>4. Carried(k, WithLinkUpdated(db, c.gid, Cloud, stat))
  BY <1>3, DbNames DEF CarryUpdate
<1>5. stat \in LinkSet /\ stat.id = LinkIn(db, c.gid).id
  BY <1>1, <1>3, DbNames DEF LinkSet, ChangeOK
<1> HIDE DEF stat
<1>6. DbOK(WithLinkUpdated(db, c.gid, Cloud, stat), HomeFolder)
      /\ Keeps(db, WithLinkUpdated(db, c.gid, Cloud, stat))
      /\ Spares(db, WithLinkUpdated(db, c.gid, Cloud, stat))
  BY <1>1, <1>3, <1>5, RelinkedIs
<1> QED
  BY <1>4, <1>6, CarriedTyped

(* A row that moves with its link. *)
LEMMA MovedWithLinkIs ==
  ASSUME NEW d, NEW H \in SUBSET Folder, DbOK(d, H), NEW g, LinkedIn(d, g), LinkIn(d, g).id \in File,
         LinkIn(d, g) \in LinkSet, NEW p \in Spots(LinkIn(d, g).id, H), NEW dir \in Dir, NEW time \in Nat,
         NEW e, e = WithLinkMoved(WithFileMoved(d, g, p), g, Cloud, dir, time)
  PROVE  /\ DbOK(e, H) /\ Keeps(d, e) /\ Spares(d, e)
         /\ LinkedIn(e, g) /\ PathOfRow(e, g) = p /\ Others(d, e, g)
         /\ LinkIn(e, g).id = LinkIn(d, g).id /\ LinkIn(e, g).parent = dir
         /\ LinkIn(e, g).time = time /\ LinkIn(e, g).hash = LinkIn(d, g).hash
<1> DEFINE b == WithFileMoved(d, g, p)
           stat == [LinkIn(d, g) EXCEPT !.parent = dir, !.time = time]
<1>1. /\ DbOK(b, H) /\ Keeps(d, b) /\ Spares(d, b)
      /\ LinkedIn(b, g) /\ LinkIn(b, g) = LinkIn(d, g) /\ PathOfRow(b, g) = p /\ Others(d, b, g)
  BY MovedIs
<1>2. /\ stat \in LinkSet /\ stat.id = LinkIn(d, g).id
      /\ stat.parent = dir /\ stat.time = time /\ stat.hash = LinkIn(d, g).hash
  BY DEF LinkSet
<1>3. e = WithLinkMoved(b, g, Cloud, dir, time)
  OBVIOUS
<1> HIDE DEF b
<1>4. e = WithLinkUpdated(b, g, Cloud, stat)
  <2>1. Tables(b) /\ LinkedIn(b, g)
    BY <1>1 DEF DbOK
  <2>2. WithLinkMoved(b, g, Cloud, dir, time)
        = WithLinkUpdated(b, g, Cloud, [LinkIn(b, g) EXCEPT !.parent = dir, !.time = time])
    BY <2>1 DEF WithLinkMoved, WithLinkUpdated, LinkedIn, LinkIn
  <2> QED
    BY <1>1, <1>3, <2>2
<1> HIDE DEF stat
<1>5. /\ DbOK(e, H) /\ Keeps(b, e) /\ Spares(b, e)
      /\ LinkedIn(e, g) /\ LinkIn(e, g) = stat /\ PathOfRow(e, g) = PathOfRow(b, g) /\ Others(b, e, g)
  BY <1>1, <1>2, <1>4, RelinkedIs
<1>6. Keeps(d, e)
  BY <1>1, <1>5, KeepsBoth DEF DbOK
<1>7. Spares(d, e)
  BY <1>1, <1>5 DEF Spares
<1>8. Others(d, e, g)
  BY <1>1, <1>5 DEF Others, SameRow
<1> QED
  BY <1>1, <1>2, <1>5, <1>6, <1>7, <1>8

LEMMA CarryMoveTyped ==
  ASSUME TypeInv, NEW k \in DOMAIN changes, CarryMove(k) PROVE TypeInv'
<1> DEFINE c == changes[k]
           e == WithLinkMoved(WithFileMoved(db, c.gid, c.to), c.gid, Cloud, c.dir, c.time)
<1>1. /\ ChangeOK(c, db, HomeFolder) /\ DbOK(db, HomeFolder) /\ HomeFolder \in SUBSET Folder
  BY ChangeIs, HomesAreLive DEF TypeInv, DbTyped
<1>2. c.type = "Move" /\ c.gid \in DOMAIN db.files /\ Carried(k, e)
  BY DEF CarryMove, InPlace
<1>3. /\ LinkedIn(db, c.gid) /\ LinkIn(db, c.gid).id = c.id /\ c.id \in File
      /\ LinkIn(db, c.gid) \in LinkSet
  BY <1>2, ChangeIs
<1>4. c.to \in Spots(c.id, HomeFolder) /\ c.dir \in Dir /\ c.time \in Nat
  BY <1>1 DEF ChangeOK
<1>5. DbOK(e, HomeFolder) /\ Keeps(db, e) /\ Spares(db, e)
  <2> DEFINE p == c.to
             dir == c.dir
             time == c.time
             g == c.gid
  <2>1. e = WithLinkMoved(WithFileMoved(db, g, p), g, Cloud, dir, time)
    OBVIOUS
  <2>2. /\ LinkedIn(db, g) /\ LinkIn(db, g).id \in File /\ LinkIn(db, g) \in LinkSet
        /\ p \in Spots(LinkIn(db, g).id, HomeFolder) /\ dir \in Dir /\ time \in Nat
    BY <1>3, <1>4
  <2> HIDE DEF p, dir, time, g, e
  <2> QED
    BY <1>1, <2>1, <2>2, MovedWithLinkIs
<1> QED
  BY <1>2, <1>5, CarriedTyped

LEMMA CarryDeleteTyped ==
  ASSUME TypeInv, NEW k \in DOMAIN changes, CarryDelete(k) PROVE TypeInv'
<1> DEFINE c == changes[k]
<1>1. DbOK(db, HomeFolder)
  BY DEF TypeInv, DbTyped
<1>2. c.type = "Delete" /\ c.gid \in DOMAIN db.files /\ Carried(k, WithoutFile(db, c.gid))
  BY DEF CarryDelete
<1>3. LinkedIn(db, c.gid)
  BY <1>2, ChangeIs
<1>4. c.gid \notin Loose(db)
  BY <1>3 DEF Loose
<1>5. DbOK(WithoutFile(db, c.gid), HomeFolder) /\ Keeps(db, WithoutFile(db, c.gid))
      /\ Spares(db, WithoutFile(db, c.gid))
  BY <1>1, <1>4, DroppedIs
<1> QED
  BY <1>2, <1>5, CarriedTyped

LEMMA CarryFailsTyped ==
  ASSUME TypeInv, NEW k \in DOMAIN changes, CarryFails(k) PROVE TypeInv'
<1>1. /\ UNCHANGED <<kind, item, feed, token, batch, working, old, pathMap, out, doomed, expected,
                     writes, db, status>>
      /\ changes' = RemoveAt(changes, k) /\ stuck' = stuck \cup {changes[k].path}
      /\ Suffers({changes[k].id}, "failed") /\ changes[k].id \in File
  BY DEF CarryFails, cloudVars, batchVars
<1>2. IsSeq(changes)
  BY DEF TypeInv, ChangesTyped
<1>3. IsSeq(changes') /\ Range(changes') \subseteq Range(changes)
  BY <1>1, <1>2, Removed
<1>4. changes[k].path \in FileSpots(HomeFolder)
  BY <1>1, ChangeIs DEF ChangeOK, FileSpots
<1>5. stuck' \subseteq FileSpots(HomeFolder)
  BY <1>1, <1>4 DEF TypeInv, WritesTyped
<1>6. fate' \in [Id -> SUBSET Fates]
  BY <1>1, Suffered DEF TypeInv, RestTyped, Fates
<1>7. /\ DbOK(db, HomeFolder) /\ Keeps(db, db) /\ RegistryOK(expected, HomeFolder)
      /\ \A w \in writes : WriteOK(w, db, HomeFolder, kind)
      /\ \A v, w \in writes : v.op = "New" /\ w.op = "New" /\ v.gid = w.gid => v = w
  BY KeepsAll DEF TypeInv, DbTyped, DbOK, ExpectedTyped, WritesTyped
<1>8. \A c \in Range(changes') : c \in InProgress
  BY <1>3 DEF InProgress
<1> QED
  BY <1>1, <1>3, <1>5, <1>6, <1>7, <1>8, WorkTyped

LEMMA ThrowsTyped ==
  ASSUME TypeInv, NEW k \in DOMAIN changes, Throws(k) PROVE TypeInv'
<1>1. changes[k].id \in Id /\ Stop(changes[k].id, db, {}) /\ DbOK(db, HomeFolder)
  BY ChangeIs DEF Throws, ChangeOK, TypeInv, DbTyped
<1> QED
  BY <1>1, StopTyped

LEMMA CarryTyped ==
  ASSUME TypeInv, Carry PROVE TypeInv'
BY CarryNewTyped, CarryUpdateTyped, CarryMoveTyped, CarryDeleteTyped, CarryFailsTyped, ThrowsTyped
   DEF Carry

(* Where a row that the program writes from is. *)
LEMMA UnderIs ==
  ASSUME DbTyped, NEW dir \in KnownDirs, NEW id
  PROVE  dir \in {Home} \cup HomeFolder /\ dir \in Dir /\ PathUnder(dir, id) = Spot(dir, id)
<1>1. dir \in {Home} \cup Folder /\ (dir = Home \/ Known(dir) # {})
  BY DEF KnownDirs
<1>2. dir \in Dir
  BY <1>1 DEF Dir
<1>3. DirPaths(dir) # {}
  <2>1. CASE dir = Home
    BY <1>2, <2>1, DirPathsIs
  <2>2. CASE dir # Home
    BY <1>1, <1>2, <2>2, DirPathsIs
  <2> QED
    BY <2>1, <2>2
<1> QED
  BY <1>2, <1>3, DirPathsIs DEF PathUnder

LEMMA RowIs ==
  ASSUME TypeInv, NEW gid \in LinkedRows
  PROVE  /\ gid \in DOMAIN db.files /\ LinkedIn(db, gid) /\ Link(gid) = LinkIn(db, gid)
         /\ Link(gid) \in LinkSet /\ Link(gid).id \in File /\ RowPath(gid) = PathOfRow(db, gid)
         /\ RowPath(gid) \in Spots(Link(gid).id, HomeFolder) /\ RowPath(gid) \in Paths
         /\ gid \in 1..db.lastId /\ gid \in Nat /\ gid \notin Loose(db)
<1>1. gid \in DOMAIN db.files /\ LinkedIn(db, gid) /\ Link(gid).id \in File
  BY DbNames DEF LinkedRows
<1>2. Link(gid) = LinkIn(db, gid) /\ RowPath(gid) = PathOfRow(db, gid)
  BY DbNames
<1>3. RowOK(db, gid, HomeFolder) /\ gid \in 1..db.lastId /\ db.lastId \in Nat
  BY <1>1 DEF TypeInv, DbTyped, DbOK, Tables
<1>4. Link(gid) \in LinkSet /\ RowPath(gid) \in Spots(Link(gid).id, HomeFolder)
  BY <1>1, <1>2, <1>3 DEF RowOK
<1>5. RowPath(gid) \in Paths
  BY <1>1, <1>4, SpotsIn, HomesAreLive DEF Id
<1> QED
  BY <1>1, <1>2, <1>3, <1>4, <1>5 DEF Loose

LEMMA BeganTyped ==
  ASSUME TypeInv, NEW w, NEW result, NEW races, Begin(w, result, races),
         DbOK(result, HomeFolder), Keeps(db, result), Spares(db, result),
         WriteOK(w, result, HomeFolder, kind), w.op = "New" => w.gid \notin Loose(db)
  PROVE  TypeInv'
<1>1. /\ UNCHANGED <<kind, item, feed, token, batch, working, old, pathMap, out, doomed, expected,
                     changes, stuck, status>>
      /\ writes' = writes \cup {w} /\ db' = result
      /\ \E ids : \E why \in {"raced", "unmoved"} : Suffers(ids, why)
  BY DEF Begin, cloudVars, batchVars
<1>2. Tables(db) /\ Tables(result)
  BY DEF TypeInv, DbTyped, DbOK
<1>3. \A v \in writes : WriteOK(v, db, HomeFolder, kind)
  BY DEF TypeInv, WritesTyped
<1>4. \A v \in writes : WriteOK(v, result, HomeFolder, kind)
  <2> TAKE v \in writes
  <2>1. WriteOK(v, db, HomeFolder, kind)
    BY <1>3
  <2>2. v.op = "New" => v.gid \in Loose(result) /\ PathOfRow(result, v.gid) = PathOfRow(db, v.gid)
    BY <2>1 DEF WriteOK, Spares
  <2> QED
    BY <1>2, <2>1, <2>2, WriteKept
<1>5. \A u, v \in writes' : u.op = "New" /\ v.op = "New" /\ u.gid = v.gid => u = v
  <2>1. \A v \in writes : v.op = "New" => v.gid \in Loose(db)
    BY <1>3 DEF WriteOK
  <2>2. \A u, v \in writes : u.op = "New" /\ v.op = "New" /\ u.gid = v.gid => u = v
    BY DEF TypeInv, WritesTyped
  <2> QED
    BY <1>1, <2>1, <2>2
<1>6. fate' \in [Id -> SUBSET Fates]
  BY <1>1, Suffered DEF TypeInv, RestTyped, Fates
<1>7. /\ IsSeq(changes) /\ \A c \in Range(changes) : c \in InProgress
      /\ RegistryOK(expected, HomeFolder) /\ stuck \subseteq FileSpots(HomeFolder)
  BY DEF TypeInv, ChangesTyped, ExpectedTyped, WritesTyped, InProgress
<1>8. \A v \in writes' : WriteOK(v, result, HomeFolder, kind)
  BY <1>1, <1>4
<1> QED
  BY <1>1, <1>5, <1>6, <1>7, <1>8, WorkTyped

LEMMA BeginUploadTyped ==
  ASSUME TypeInv, NEW id \in File, NEW dir, BeginUpload(id, dir) PROVE TypeInv'
<1> DEFINE p == PathUnder(dir, id)
           w == WriteOf("New", id, NewId(db), p, p, dir)
           e == WithFile(db, p, None)
           n == NewId(db)
<1>1. dir \in KnownDirs /\ \E races : Begin(w, e, races)
  BY DEF BeginUpload
<1>2. DbOK(db, HomeFolder) /\ Tables(db) /\ HomeFolder \in SUBSET Folder /\ id \in Id
  BY HomesAreLive DEF TypeInv, DbTyped, DbOK, Id
<1>3. dir \in {Home} \cup HomeFolder /\ dir \in Dir /\ p = Spot(dir, id)
  BY <1>1, UnderIs DEF TypeInv
<1>4. p \in Spots(id, HomeFolder) /\ p \in Paths /\ p \in FileSpots(HomeFolder)
  BY <1>2, <1>3, SpotsIn
<1> HIDE DEF p, e
<1>5. /\ Tables(e) /\ e.lastId = n /\ n = db.lastId + 1
      /\ n \notin DOMAIN db.files /\ DOMAIN e.files = DOMAIN db.files \cup {n}
      /\ PathOfRow(e, n) = p /\ ~LinkedIn(e, n) /\ Others(db, e, n)
  BY <1>2, <1>4, RowAdded DEF e
<1>6. n \in Nat /\ db.lastId <= e.lastId /\ ~(n \in 1..db.lastId)
  BY <1>2, <1>5 DEF Tables
<1> HIDE DEF n
<1>7. DbOK(e, HomeFolder)
  <2>1. RowOK(e, n, HomeFolder)
    BY <1>4, <1>5 DEF RowOK
  <2> QED
    BY <1>2, <1>5, <2>1, RowTyped
<1>8. Keeps(db, e)
  BY <1>2, <1>5, <1>6, RowKept
<1>9. Spares(db, e)
  BY <1>5, LooseKept DEF Spares, Loose, Others, SameRow
<1>10. w = [op |-> "New", id |-> id, gid |-> n, path |-> p, to |-> p, dir |-> dir,
            stage |-> "queued", time |-> 0, hash |-> 0]
  BY DEF WriteOf, NoHash, n
<1> HIDE DEF w
<1>11. WriteOK(w, e, HomeFolder, kind)
  <2>1. w \in Request
    BY <1>3, <1>4, <1>6, <1>10 DEF Request, Stages, ChangeTypes
  <2>2. w.gid \in Loose(e) /\ PathOfRow(e, w.gid) = w.path
    BY <1>5, <1>10 DEF Loose
  <2> QED
    BY Names, <1>3, <1>4, <1>10, <2>1, <2>2 DEF WriteOK
<1>12. w.gid \notin Loose(db)
  BY <1>5, <1>10 DEF Loose
<1> QED
  BY <1>1, <1>7, <1>8, <1>9, <1>11, <1>12, BeganTyped

LEMMA BeginUpdateTyped ==
  ASSUME TypeInv, NEW gid \in LinkedRows, BeginUpdate(gid) PROVE TypeInv'
<1> DEFINE id == Link(gid).id
           p == RowPath(gid)
           w == WriteOf("Update", id, gid, p, p, Home)
<1>1. \E races : Begin(w, db, races)
  BY DEF BeginUpdate
<1>2. DbOK(db, HomeFolder) /\ Keeps(db, db) /\ Spares(db, db)
  BY KeepsAll DEF TypeInv, DbTyped, DbOK, Spares
<1>3. /\ gid \in DOMAIN db.files /\ LinkedIn(db, gid) /\ id = LinkIn(db, gid).id
      /\ id \in File /\ p \in Spots(id, HomeFolder) /\ p \in Paths /\ gid \in 1..db.lastId /\ gid \in Nat
  BY RowIs
<1> HIDE DEF id, p
<1>4. w = [op |-> "Update", id |-> id, gid |-> gid, path |-> p, to |-> p, dir |-> Home,
            stage |-> "queued", time |-> 0, hash |-> 0]
  BY DEF WriteOf, NoHash
<1> HIDE DEF w
<1>5. WriteOK(w, db, HomeFolder, kind)
  <2>1. w \in Request /\ w.dir # None
    BY <1>3, <1>4, Names DEF Request, Stages, ChangeTypes, Dir
  <2> QED
    BY <1>3, <1>4, <2>1 DEF WriteOK
<1>6. w.op # "New"
  BY <1>4
<1> QED
  BY <1>1, <1>2, <1>5, <1>6, BeganTyped

LEMMA BeginDeleteTyped ==
  ASSUME TypeInv, NEW gid \in LinkedRows, BeginDelete(gid) PROVE TypeInv'
<1> DEFINE id == Link(gid).id
           p == RowPath(gid)
           w == WriteOf("Delete", id, gid, p, p, Home)
           e == WithoutFile(db, gid)
<1>1. \E races : Begin(w, e, races)
  BY DEF BeginDelete
<1>2. /\ gid \in DOMAIN db.files /\ LinkedIn(db, gid) /\ id = LinkIn(db, gid).id
      /\ id \in File /\ p \in Spots(id, HomeFolder) /\ p \in Paths /\ gid \in 1..db.lastId /\ gid \in Nat
      /\ gid \notin Loose(db)
  BY RowIs
<1> HIDE DEF id, p
<1>3. DbOK(e, HomeFolder) /\ Keeps(db, e) /\ Spares(db, e) /\ gid \notin DOMAIN e.files
  BY <1>2, DroppedIs DEF TypeInv, DbTyped
<1> HIDE DEF e
<1>4. w = [op |-> "Delete", id |-> id, gid |-> gid, path |-> p, to |-> p, dir |-> Home,
            stage |-> "queued", time |-> 0, hash |-> 0]
  BY DEF WriteOf, NoHash
<1> HIDE DEF w
<1>5. WriteOK(w, e, HomeFolder, kind)
  <2>1. w \in Request /\ w.dir # None
    BY <1>2, <1>4, Names DEF Request, Stages, ChangeTypes, Dir
  <2>2. gid \in 1..e.lastId
    BY <1>2, <1>3, OwnerKept DEF TypeInv, DbTyped, DbOK
  <2> QED
    BY <1>2, <1>3, <1>4, <2>1, <2>2 DEF WriteOK
<1>6. w.op # "New"
  BY <1>4
<1> QED
  BY <1>1, <1>3, <1>5, <1>6, BeganTyped

LEMMA BeginMoveTyped ==
  ASSUME TypeInv, NEW gid \in LinkedRows, NEW dir, BeginMove(gid, dir) PROVE TypeInv'
<1> DEFINE id == Link(gid).id
           p == RowPath(gid)
           to == PathUnder(dir, id)
           in == IF kind = "google" /\ dir = Home THEN None ELSE dir
           w == WriteOf("Move", id, gid, p, to, in)
           e == WithFileMoved(db, gid, to)
<1>1. dir \in KnownDirs /\ \E races : Begin(w, e, races)
  BY DEF BeginMove
<1>2. /\ gid \in DOMAIN db.files /\ LinkedIn(db, gid) /\ id = LinkIn(db, gid).id
      /\ id \in File /\ p \in Spots(id, HomeFolder) /\ p \in Paths /\ gid \in 1..db.lastId /\ gid \in Nat
      /\ gid \notin Loose(db)
  BY RowIs
<1>3. dir \in {Home} \cup HomeFolder /\ dir \in Dir /\ to = Spot(dir, id)
  BY <1>1, UnderIs DEF TypeInv
<1>4. HomeFolder \in SUBSET Folder /\ id \in Id
  BY <1>2, HomesAreLive DEF Id
<1>5. to \in Spots(id, HomeFolder) /\ to \in Paths
  BY <1>2, <1>3, <1>4, SpotsIn
<1> HIDE DEF id, p, to
<1>6. /\ DbOK(e, HomeFolder) /\ Keeps(db, e) /\ Spares(db, e)
      /\ LinkedIn(e, gid) /\ LinkIn(e, gid) = LinkIn(db, gid)
  BY <1>2, <1>4, <1>5, MovedIs DEF TypeInv, DbTyped
<1> HIDE DEF e
<1>7. in \in Dir \cup {None} /\ IF in = None THEN kind = "google" ELSE in = dir
  BY <1>3, Names
<1> HIDE DEF in
<1>8. w = [op |-> "Move", id |-> id, gid |-> gid, path |-> p, to |-> to, dir |-> in,
            stage |-> "queued", time |-> 0, hash |-> 0]
  BY DEF WriteOf, NoHash
<1> HIDE DEF w
<1>9. WriteOK(w, e, HomeFolder, kind)
  <2>1. w \in Request
    BY <1>2, <1>5, <1>7, <1>8 DEF Request, Stages, ChangeTypes
  <2>2. gid \in 1..e.lastId
    BY <1>2, <1>6, OwnerKept DEF TypeInv, DbTyped, DbOK
  <2> QED
    BY <1>2, <1>3, <1>5, <1>6, <1>7, <1>8, <2>1, <2>2 DEF WriteOK
<1>10. w.op # "New"
  BY <1>8
<1> QED
  BY <1>1, <1>6, <1>9, <1>10, BeganTyped

(* A write that goes on. *)
LEMMA OnceKept ==
  ASSUME TypeInv, NEW w \in writes, NEW v, writes' = (writes \ {w}) \cup {v}, v.op = w.op, v.gid = w.gid
  PROVE  \A x, y \in writes' : x.op = "New" /\ y.op = "New" /\ x.gid = y.gid => x = y
BY DEF TypeInv, WritesTyped

LEMMA SendTyped ==
  ASSUME TypeInv, NEW w \in writes, Send(w) PROVE TypeInv'
<1> DEFINE v == [w EXCEPT !.stage = "sent"]
<1>1. /\ UNCHANGED <<kind, item, feed, token, batch, working, old, pathMap, out, doomed,
                     changes, stuck, db, status, fate>>
      /\ w.stage = "queued" /\ expected' = Registered(w) /\ writes' = (writes \ {w}) \cup {v}
  BY DEF Send, cloudVars, batchVars
<1>2. WriteOK(w, db, HomeFolder, kind) /\ w \in Request
  BY DEF TypeInv, WritesTyped, WriteOK
<1>3. /\ v \in Request /\ v.op = w.op /\ v.gid = w.gid /\ v.path = w.path /\ v.to = w.to /\ v.id = w.id
      /\ v.dir = w.dir /\ v.stage = "sent"
  BY <1>2 DEF Request, Stages
<1> HIDE DEF v
<1>4. WriteOK(v, db, HomeFolder, kind)
  BY <1>1, <1>2, <1>3 DEF WriteOK
<1>5. RegistryOK(expected', HomeFolder)
  <2>1. ASSUME NEW map, RegistryOK(map, HomeFolder), NEW key \in File \cup FileSpots(HomeFolder),
               NEW type \in ChangeTypes
        PROVE  RegistryOK(Expecting(map, key, type), HomeFolder)
    BY <2>1 DEF RegistryOK, Expecting
  <2>2. w.id \in File /\ w.op \in ChangeTypes /\ w.path \in FileSpots(HomeFolder)
    BY <1>2 DEF Request, WriteOK, FileSpots
  <2>3. RegistryOK(expected, HomeFolder) /\ "Delete" \in ChangeTypes /\ "Move" \in ChangeTypes
    BY DEF TypeInv, ExpectedTyped, ChangeTypes
  <2>4. CASE kind = "dropbox" /\ w.op = "Move"
    <3>1. expected' = Expecting(Expecting(expected, w.path, "Delete"), w.id, "Move")
      BY <1>1, <2>4 DEF Registered
    <3>2. RegistryOK(Expecting(expected, w.path, "Delete"), HomeFolder)
      BY <2>1, <2>2, <2>3
    <3> QED
      BY <2>1, <2>2, <2>3, <3>1, <3>2
  <2>5. CASE ~(kind = "dropbox" /\ w.op = "Move")
    <3>1. expected' = Expecting(expected, EventKey(w.op, w.id, w.path), w.op)
      BY <1>1, <2>5 DEF Registered
    <3>2. EventKey(w.op, w.id, w.path) \in File \cup FileSpots(HomeFolder)
      BY <2>2 DEF EventKey
    <3> QED
      BY <2>1, <2>2, <2>3, <3>1, <3>2
  <2> QED
    BY <2>4, <2>5
<1>6. \A x \in writes' : WriteOK(x, db, HomeFolder, kind)
  BY <1>1, <1>4 DEF TypeInv, WritesTyped
<1>7. \A x, y \in writes' : x.op = "New" /\ y.op = "New" /\ x.gid = y.gid => x = y
  BY <1>1, <1>3, OnceKept
<1>8. /\ IsSeq(changes) /\ \A c \in Range(changes) : c \in InProgress
      /\ stuck \subseteq FileSpots(HomeFolder) /\ fate \in [Id -> SUBSET Fates]
      /\ DbOK(db, HomeFolder) /\ Keeps(db, db)
  BY KeepsAll DEF TypeInv, ChangesTyped, DbTyped, DbOK, RestTyped, WritesTyped, InProgress
<1> QED
  BY <1>1, <1>5, <1>6, <1>7, <1>8, WorkTyped

LEMMA GoesAstrayTyped ==
  ASSUME TypeInv, NEW w \in writes, GoesAstray(w) PROVE TypeInv'
<1> DEFINE time == item[w.id].time + 1
           v == [w EXCEPT !.stage = "arrived", !.time = time]
<1>1. /\ UNCHANGED <<kind, item, feed, token, batch, working, old, pathMap, out, doomed,
                     expected, changes, stuck, db, status>>
      /\ w.stage = "sent" /\ kind = "dropbox" /\ w.op = "Update"
      /\ writes' = (writes \ {w}) \cup {v} /\ Suffers({w.id}, "astray")
  BY DEF GoesAstray, cloudVars, batchVars
<1>2. WriteOK(w, db, HomeFolder, kind) /\ w \in Request
  BY DEF TypeInv, WritesTyped, WriteOK
<1>3. time \in Nat
  <2>1. w.id \in Id
    BY <1>2 DEF Request, Id
  <2>2. item[w.id] \in Item
    BY <2>1 DEF TypeInv, CloudTyped
  <2> QED
    BY <2>2 DEF Item
<1> HIDE DEF time
<1>4. /\ v \in Request /\ v.op = w.op /\ v.gid = w.gid /\ v.path = w.path /\ v.to = w.to /\ v.id = w.id
      /\ v.dir = w.dir /\ v.stage = "arrived"
  BY <1>2, <1>3 DEF Request, Stages
<1> HIDE DEF v
<1>5. w.dir \in Dir
  BY <1>1, <1>2 DEF WriteOK, Request
<1>6. WriteOK(v, db, HomeFolder, kind)
  BY <1>1, <1>2, <1>4, <1>5 DEF WriteOK
<1>7. \A x \in writes' : WriteOK(x, db, HomeFolder, kind)
  BY <1>1, <1>6 DEF TypeInv, WritesTyped
<1>8. \A x, y \in writes' : x.op = "New" /\ y.op = "New" /\ x.gid = y.gid => x = y
  BY <1>1, <1>4, OnceKept
<1>9. fate' \in [Id -> SUBSET Fates]
  BY <1>1, Suffered DEF TypeInv, RestTyped, Fates
<1>10. /\ IsSeq(changes) /\ \A c \in Range(changes) : c \in InProgress
       /\ stuck \subseteq FileSpots(HomeFolder) /\ RegistryOK(expected, HomeFolder)
       /\ DbOK(db, HomeFolder) /\ Keeps(db, db)
  BY KeepsAll DEF TypeInv, ChangesTyped, DbTyped, DbOK, ExpectedTyped, WritesTyped, InProgress
<1> QED
  BY <1>1, <1>7, <1>8, <1>9, <1>10, WorkTyped

(* What a write can reach, and what becomes of it. *)
LEMMA ReachedIs ==
  ASSUME TypeInv, NEW w \in writes, w.stage # "arrived", NEW id \in Reaches(w)
  PROVE  /\ id \in File /\ id \in Id
         /\ w.path \in Spots(id, HomeFolder) /\ w.to \in Spots(id, HomeFolder)
         /\ kind = "google" => id = w.id
<1>1. WriteOK(w, db, HomeFolder, kind) /\ w \in Request
  BY DEF TypeInv, WritesTyped, WriteOK
<1>2. w.id \in File /\ w.path \in FileSpots(HomeFolder) /\ CloudTyped /\ HomeFolder \in SUBSET Folder
  BY <1>1, HomesAreLive DEF Request, WriteOK, FileSpots, TypeInv
<1>3. kind \in {"google", "dropbox"} /\ (kind = "google" => id = w.id)
  BY <1>2 DEF CloudTyped, Reaches
<1>4. CASE id = w.id
  BY <1>1, <1>2, <1>3, <1>4 DEF WriteOK, Id
<1>5. CASE id # w.id
  <2>1. kind = "dropbox" /\ id \in At(w.path)
    BY <1>3, <1>5 DEF Reaches
  <2>2. id \in File /\ w.path \in Spots(id, HomeFolder)
    BY <1>2, <2>1, AtIs
  <2>3. CASE w.op = "Move"
    <3>1. w.dir \in {Home} \cup HomeFolder /\ w.to = Spot(w.dir, w.id)
      BY <1>1, <2>1, <2>3 DEF WriteOK
    <3>2. PICK a \in {Home} \cup HomeFolder : w.path = Spot(a, id)
      BY <1>2, <2>2, SpotsIn
    <3>3. PICK b \in {Home} \cup HomeFolder : w.path = Spot(b, w.id)
      BY <1>1, <1>2, SpotsIn DEF WriteOK
    <3>4. NameOf[id] = NameOf[w.id]
      <4> DEFINE i == w.id
      <4>1. /\ a \in {Home} \cup Folder /\ b \in {Home} \cup Folder /\ id \in Id /\ i \in Id
            /\ Spot(a, id) = Spot(b, i)
        BY <1>2, <2>2, <3>2, <3>3 DEF Id
      <4> HIDE DEF i
      <4>2. NameOf[id] = NameOf[i]
        BY <4>1, OneSpot
      <4> QED
        BY <4>2 DEF i
    <3>5. w.to = Spot(w.dir, id)
      BY <3>1, <3>4 DEF Spot
    <3> QED
      BY <1>2, <1>3, <2>2, <3>1, <3>5, SpotsIn DEF Id
  <2>4. CASE w.op # "Move"
    BY <1>1, <1>3, <2>2, <2>4 DEF WriteOK, Id
  <2> QED
    BY <2>3, <2>4
<1> QED
  BY <1>4, <1>5

LEMMA EffectIs ==
  ASSUME TypeInv, NEW w \in writes, w.stage # "arrived", NEW id \in Reaches(w), NEW it, it = Effect(w, id)
  PROVE  it \in Item /\ ItemOK(it, id, LiveFolder, kind)
<1>1. WriteOK(w, db, HomeFolder, kind) /\ w \in Request
  BY DEF TypeInv, WritesTyped, WriteOK
<1>2. id \in File /\ id \in Id /\ id \notin Folder
  BY ReachedIs, Names
<1>3. item[id] \in Item /\ ItemOK(item[id], id, LiveFolder, kind)
  BY <1>2 DEF TypeInv, CloudTyped
<1> DEFINE was == item[id]
<1>4. was \in Item /\ ItemOK(was, id, LiveFolder, kind)
  BY <1>3
<1>5. w.op \in {"New", "Update", "Move", "Delete"}
  BY <1>1 DEF Request, ChangeTypes
<1>6. w.dir # None => w.dir \in Dir /\ (w.dir \in Folder => w.dir \in LiveFolder) /\ w.dir # Elsewhere
  BY <1>1, Names, HomesAreLive DEF WriteOK, Dir, Id
<1>7. w.dir = None => w.op = "Move"
  BY <1>1, Names DEF WriteOK
<1>8. was.time \in Nat /\ was.hash \in Nat /\ was.dir \in Dir /\ was.live \in BOOLEAN
  BY <1>4 DEF Item
<1>9. CASE w.op \in {"New", "Update"} /\ Born(id)
  <2> DEFINE time == was.time + 1
             hash == was.hash + 1
             live == was.live \/ kind = "dropbox"
  <2>1. it = [was EXCEPT !.time = time, !.hash = hash, !.live = live]
    BY <1>5, <1>9 DEF Effect
  <2>2. time \in Nat /\ time > 0 /\ hash \in Nat
    BY <1>8
  <2>3. live \in BOOLEAN
    OBVIOUS
  <2> HIDE DEF was, time, hash, live
  <2>4. it = [dir |-> was.dir, time |-> time, hash |-> hash, live |-> live]
    BY <1>4, <2>1 DEF Item
  <2>5. it \in Item
    BY <1>8, <2>2, <2>3, <2>4 DEF Item
  <2>6. it.dir = was.dir /\ it.time > 0
    BY <2>2, <2>4
  <2> QED
    BY <1>2, <1>4, <2>5, <2>6 DEF ItemOK
<1>10. CASE w.op \in {"New", "Update"} /\ ~Born(id)
  <2>1. it = [dir |-> w.dir, time |-> 1, hash |-> 1, live |-> TRUE] /\ w.dir # None
    BY <1>5, <1>7, <1>10 DEF Effect
  <2>2. it \in Item /\ it.dir = w.dir /\ it.time > 0
    BY <1>6, <2>1 DEF Item
  <2> QED
    BY <1>2, <1>6, <2>1, <2>2 DEF ItemOK
<1>11. CASE w.op = "Move"
  <2> DEFINE dir == IF w.dir = None THEN was.dir ELSE w.dir
  <2>1. it = [was EXCEPT !.dir = dir]
    BY <1>11 DEF Effect
  <2>2. dir \in Dir /\ (dir \in Folder => dir \in LiveFolder) /\ (kind = "dropbox" => dir # Elsewhere)
    BY <1>2, <1>4, <1>6, <1>8 DEF ItemOK
  <2> HIDE DEF was, dir
  <2>3. it = [dir |-> dir, time |-> was.time, hash |-> was.hash, live |-> was.live]
    BY <1>4, <2>1 DEF Item
  <2>4. it \in Item
    BY <1>8, <2>2, <2>3 DEF Item
  <2>5. it.dir = dir /\ it.time = was.time
    BY <2>3
  <2>6. it.live => was.live
    BY <2>3
  <2> QED
    BY <1>2, <1>4, <2>2, <2>4, <2>5, <2>6 DEF ItemOK
<1>12. CASE w.op = "Delete"
  <2>1. it = [was EXCEPT !.live = FALSE]
    BY <1>12 DEF Effect
  <2> HIDE DEF was
  <2>2. it = [dir |-> was.dir, time |-> was.time, hash |-> was.hash, live |-> FALSE]
    BY <1>4, <2>1 DEF Item
  <2> QED
    BY <1>2, <1>4, <1>8, <2>2 DEF ItemOK, Item
<1> QED
  BY <1>5, <1>9, <1>10, <1>11, <1>12

LEMMA ArriveTyped ==
  ASSUME TypeInv, NEW w \in writes, Arrive(w) PROVE TypeInv'
<1>1. PICK id \in Reaches(w) :
        /\ Stored(id, Effect(w, id), "program")
        /\ writes' = (writes \ {w}) \cup
             {[w EXCEPT !.stage = "arrived", !.id = id, !.dir = Effect(w, id).dir,
                        !.time = Effect(w, id).time, !.hash = Effect(w, id).hash]}
        /\ Suffers({id} \ {w.id}, "raced")
  BY DEF Arrive
<1> DEFINE it == Effect(w, id)
           v == [w EXCEPT !.stage = "arrived", !.id = id, !.dir = it.dir, !.time = it.time, !.hash = it.hash]
<1>2. /\ UNCHANGED <<kind, token, batch, working, old, pathMap, out, doomed, expected, changes, stuck,
                     db, status>>
      /\ w.stage = "sent"
  BY DEF Arrive, batchVars
<1>3. WriteOK(w, db, HomeFolder, kind) /\ w \in Request
  BY DEF TypeInv, WritesTyped, WriteOK
<1>4. /\ id \in File /\ id \in Id
      /\ w.path \in Spots(id, HomeFolder) /\ w.to \in Spots(id, HomeFolder)
  BY <1>2, ReachedIs
<1>5. it \in Item /\ ItemOK(it, id, LiveFolder, kind)
  BY <1>2, EffectIs
<1>6. Stored(id, it, "program") /\ writes' = (writes \ {w}) \cup {v}
  BY <1>1
<1> HIDE DEF it
<1>7. CloudTyped' /\ World
  BY <1>2, <1>4, <1>5, <1>6, StoredTyped, Names
<1>8. v \in Request /\ v = [op |-> w.op, id |-> id, gid |-> w.gid, path |-> w.path, to |-> w.to, dir |-> it.dir,
            stage |-> "arrived", time |-> it.time, hash |-> it.hash]
  <2>1. it.dir \in Dir /\ it.time \in Nat /\ it.hash \in Nat
    BY <1>5 DEF Item
  <2> DEFINE dir == it.dir
             time == it.time
             hash == it.hash
  <2>2. dir \in Dir /\ time \in Nat /\ hash \in Nat
    BY <2>1
  <2> HIDE DEF dir, time, hash
  <2>3. [w EXCEPT !.stage = "arrived", !.id = id, !.dir = dir, !.time = time, !.hash = hash]
        = [op |-> w.op, id |-> id, gid |-> w.gid, path |-> w.path, to |-> w.to, dir |-> dir,
            stage |-> "arrived", time |-> time, hash |-> hash]
    <3> DEFINE a == [w EXCEPT !.stage = "arrived"]
               b == [a EXCEPT !.id = id]
               c == [b EXCEPT !.dir = dir]
               d == [c EXCEPT !.time = time]
    <3> w \in Request
      BY <1>3
    <3>1. /\ DOMAIN a = DOMAIN w /\ a.stage = "arrived" /\ a = [x \in DOMAIN w |-> a[x]]
          /\ \A x \in DOMAIN w : x # "stage" => a[x] = w[x]
      BY DEF Request
    <3>2. DOMAIN w = {"op", "id", "gid", "path", "to", "dir", "stage", "time", "hash"}
      BY DEF Request
    <3> HIDE DEF a
    <3>3. /\ DOMAIN b = DOMAIN w /\ b.id = id /\ b = [x \in DOMAIN w |-> b[x]]
          /\ \A x \in DOMAIN w : x # "id" => b[x] = a[x]
      BY <3>1, <3>2
    <3> HIDE DEF b
    <3>4. /\ DOMAIN c = DOMAIN w /\ c.dir = dir /\ c = [x \in DOMAIN w |-> c[x]]
          /\ \A x \in DOMAIN w : x # "dir" => c[x] = b[x]
      BY <3>2, <3>3
    <3> HIDE DEF c
    <3>5. /\ DOMAIN d = DOMAIN w /\ d.time = time /\ d = [x \in DOMAIN w |-> d[x]]
          /\ \A x \in DOMAIN w : x # "time" => d[x] = c[x]
      BY <3>2, <3>4
    <3> HIDE DEF d
    <3> DEFINE e == [d EXCEPT !.hash = hash]
    <3>6. /\ DOMAIN e = DOMAIN w /\ e.hash = hash /\ e = [x \in DOMAIN w |-> e[x]]
          /\ \A x \in DOMAIN w : x # "hash" => e[x] = d[x]
      BY <3>2, <3>5
    <3>7. [w EXCEPT !.stage = "arrived", !.id = id, !.dir = dir, !.time = time, !.hash = hash] = e
      BY DEF a, b, c, d
    <3> HIDE DEF e
    <3>8. /\ e.op = w.op /\ e.id = id /\ e.gid = w.gid /\ e.path = w.path /\ e.to = w.to
          /\ e.dir = dir /\ e.stage = "arrived" /\ e.time = time /\ e.hash = hash
      BY <3>1, <3>2, <3>3, <3>4, <3>5, <3>6
    <3>9. e = [op |-> e.op, id |-> e.id, gid |-> e.gid, path |-> e.path, to |-> e.to, dir |-> e.dir,
                stage |-> e.stage, time |-> e.time, hash |-> e.hash]
      BY <3>2, <3>6
    <3> QED
      BY <3>7, <3>8, <3>9
  <2>4. [op |-> w.op, id |-> id, gid |-> w.gid, path |-> w.path, to |-> w.to, dir |-> dir,
            stage |-> "arrived", time |-> time, hash |-> hash] \in Request
    BY <1>3, <1>4, <2>2 DEF Request, Stages
  <2> QED
    BY <2>3, <2>4 DEF dir, time, hash
<1> HIDE DEF v
<1>9. WriteOK(v, db, HomeFolder, kind)
  <2>1. it.dir \in Dir
    BY <1>5 DEF Item
  <2> QED
    BY <1>3, <1>4, <1>8, <2>1 DEF WriteOK
<1>10. DbTyped' /\ Tables(db) /\ Keeps(db, db)
  BY <1>2, <1>7, DbKept, KeepsAll DEF TypeInv, DbTyped, DbOK
<1>11. \A x \in writes' : WriteOK(x, db, HomeFolder', kind)
  <2> TAKE x \in writes'
  <2>1. WriteOK(x, db, HomeFolder, kind)
    BY <1>6, <1>9 DEF TypeInv, WritesTyped
  <2> QED
    BY <1>7, <1>10, <2>1, WriteKept DEF World, Grows, WriteOK
<1>12. \A x, y \in writes' : x.op = "New" /\ y.op = "New" /\ x.gid = y.gid => x = y
  BY <1>6, <1>8, OnceKept
<1>13. stuck' \subseteq FileSpots(HomeFolder')
  BY <1>2, <1>7, SpotsGrow DEF TypeInv, WritesTyped, World, Grows
<1>14. WritesTyped'
  BY <1>2, <1>11, <1>12, <1>13 DEF WritesTyped
<1>15. BatchTyped' /\ ExpectedTyped'
  BY <1>2, <1>7, BatchKept, ExpectedKept
<1>16. ChangesTyped'
  BY <1>2, <1>7, <1>10, ChangesUntouched
<1>17. fate' \in [Id -> SUBSET Fates]
  BY <1>1, Suffered DEF TypeInv, RestTyped, Fates
<1>18. RestTyped'
  BY <1>2, <1>17, RestKept
<1> QED
  BY <1>7, <1>10, <1>14, <1>15, <1>16, <1>18 DEF TypeInv

(* The row of a new file gets its link. *)
LEMMA LinkedIs ==
  ASSUME NEW d, NEW H, DbOK(d, H), NEW g \in Loose(d), NEW stat \in LinkSet, stat.id \in File,
         PathOfRow(d, g) \in Spots(stat.id, H), NEW e, e = WithLink(d, g, Cloud, stat)
  PROVE  /\ DbOK(e, H) /\ Keeps(d, e)
         /\ LinkedIn(e, g) /\ LinkIn(e, g) = stat /\ PathOfRow(e, g) = PathOfRow(d, g) /\ Others(d, e, g)
         /\ \A h \in Loose(d) : h # g => h \in Loose(e) /\ PathOfRow(e, h) = PathOfRow(d, h)
<1>1. Tables(d) /\ g \in DOMAIN d.files /\ ~LinkedIn(d, g) /\ stat.id \notin Folder
  BY Names DEF DbOK, Loose
<1>2. /\ Tables(e) /\ e.lastId = d.lastId /\ e.files = d.files
      /\ LinkedIn(e, g) /\ LinkIn(e, g) = stat /\ Others(d, e, g)
  BY <1>1, LinkAdded
<1>3. PathOfRow(e, g) = PathOfRow(d, g)
  BY <1>2 DEF PathOfRow
<1>4. RowOK(e, g, H)
  BY <1>1, <1>2, <1>3 DEF RowOK
<1>5. DbOK(e, H)
  BY <1>1, <1>2, <1>4, RowTyped
<1>6. Keeps(d, e)
  <2>1. d.lastId <= e.lastId
    BY <1>1, <1>2 DEF Tables
  <2> QED
    BY <1>1, <1>2, <2>1, RowKept
<1>7. ASSUME NEW h \in Loose(d), h # g PROVE h \in Loose(e) /\ PathOfRow(e, h) = PathOfRow(d, h)
  <2>1. SameRow(d, e, h)
    BY <1>2, <1>7 DEF Others
  <2> QED
    BY <2>1 DEF SameRow, Loose
<1> QED
  BY <1>2, <1>3, <1>5, <1>6, <1>7

LEMMA WrittenIs ==
  ASSUME TypeInv, NEW w \in writes
  PROVE  /\ WriteOK(w, db, HomeFolder, kind) /\ w \in Request
         /\ w.op = "New" => w.gid \in Loose(db) /\ PathOfRow(db, w.gid) = w.path
         /\ w.op # "New" /\ Linked(w.gid) =>
              /\ LinkedIn(db, w.gid) /\ Link(w.gid) = LinkIn(db, w.gid)
              /\ Link(w.gid) \in LinkSet /\ Link(w.gid).id \in File
<1>1. WriteOK(w, db, HomeFolder, kind)
  BY DEF TypeInv, WritesTyped
<1>2. ASSUME w.op # "New", Linked(w.gid)
      PROVE  /\ LinkedIn(db, w.gid) /\ Link(w.gid) = LinkIn(db, w.gid)
             /\ Link(w.gid) \in LinkSet /\ Link(w.gid).id \in File
  <2>1. LinkedIn(db, w.gid) /\ Link(w.gid) = LinkIn(db, w.gid)
    BY <1>2, DbNames
  <2>2. w.gid \in DOMAIN db.files
    BY <2>1, Key DEF TypeInv, DbTyped, DbOK
  <2>3. RowOK(db, w.gid, HomeFolder)
    BY <2>2 DEF TypeInv, DbTyped, DbOK
  <2> QED
    BY <1>1, <1>2, <2>1, <2>2, <2>3 DEF RowOK, WriteOK
<1> QED
  BY <1>1, <1>2 DEF WriteOK

(* What the callback of a write records. *)
LEMMA RecordedIs ==
  ASSUME TypeInv, NEW w \in writes, w.stage = "arrived", NEW e \in Recording(w)
  PROVE  /\ DbOK(e, HomeFolder) /\ Keeps(db, e)
         /\ \A h \in Loose(db) : h # w.gid \/ w.op # "New" =>
              h \in Loose(e) /\ PathOfRow(e, h) = PathOfRow(db, h)
<1>1. /\ WriteOK(w, db, HomeFolder, kind) /\ w \in Request /\ w.dir \in Dir
      /\ DbOK(db, HomeFolder) /\ Tables(db) /\ HomeFolder \in SUBSET Folder
  BY WrittenIs, HomesAreLive DEF TypeInv, DbTyped, DbOK, WriteOK
<1>2. w.op \in {"New", "Update", "Move", "Delete"} /\ w.id \in File /\ w.id \in Id
      /\ w.time \in Nat /\ w.hash \in Nat
  BY <1>1 DEF Request, ChangeTypes, Id
<1>3. CASE e = db
  BY <1>1, <1>3, KeepsAll
<1>4. CASE w.op = "New"
  <2> DEFINE stat == LinkStat(w.id, w.dir, w.time, w.hash)
             g == w.gid
  <2>1. e = WithLink(db, g, Cloud, stat)
    BY <1>2, <1>4 DEF Recording
  <2>2. stat \in LinkSet /\ stat.id = w.id
    BY <1>1, <1>2 DEF LinkStat, LinkSet
  <2>3. g \in Loose(db) /\ PathOfRow(db, g) \in Spots(stat.id, HomeFolder)
    BY <1>1, <1>4, <2>2, WrittenIs DEF WriteOK
  <2> HIDE DEF stat, g
  <2>4. /\ DbOK(e, HomeFolder) /\ Keeps(db, e)
        /\ \A h \in Loose(db) : h # g => h \in Loose(e) /\ PathOfRow(e, h) = PathOfRow(db, h)
    BY <1>1, <1>2, <2>1, <2>2, <2>3, LinkedIs
  <2> QED
    BY <1>4, <2>4 DEF g
<1>5. CASE w.op = "Update" /\ Linked(w.gid)
  <2>1. PICK t : /\ e = WithLinkUpdated(db, w.gid, Cloud, [Link(w.gid) EXCEPT !.time = t[1], !.hash = t[2]])
                 /\ t \in {<<w.time, w.hash>>, <<Link(w.gid).time, NoHash>>, <<w.time, NoHash>>}
    BY <1>2, <1>5 DEF Recording
  <2> DEFINE time == t[1]
             hash == t[2]
             g == w.gid
             was == Link(g)
             stat == [was EXCEPT !.time = time, !.hash = hash]
  <2>2. was \in LinkSet /\ was.id \in File /\ was = LinkIn(db, g) /\ LinkedIn(db, g)
    BY <1>5, WrittenIs
  <2>3. time \in Nat /\ hash \in Nat
    <3>1. Link(w.gid).time \in Nat
      BY <2>2 DEF LinkSet
    <3> QED
      BY <1>2, <2>1, <3>1 DEF NoHash
  <2>4. e = WithLinkUpdated(db, g, Cloud, stat)
    BY <2>1
  <2> HIDE DEF was, time, hash, g
  <2>5. stat \in LinkSet /\ stat.id = was.id
    BY <2>2, <2>3 DEF LinkSet
  <2> HIDE DEF stat
  <2>6. DbOK(e, HomeFolder) /\ Keeps(db, e) /\ Spares(db, e)
    BY <1>1, <2>2, <2>4, <2>5, RelinkedIs
  <2> QED
    BY <2>6 DEF Spares
<1>6. CASE w.op = "Move" /\ Linked(w.gid)
  <2> DEFINE dir == w.dir
             time == w.time
             g == w.gid
             was == LinkIn(db, g)
             stat == [was EXCEPT !.parent = dir, !.time = time]
  <2>1. e = WithLinkMoved(db, g, Cloud, dir, time)
    BY <1>2, <1>6 DEF Recording
  <2>2. was \in LinkSet /\ was.id \in File /\ LinkedIn(db, g)
    BY <1>6, WrittenIs
  <2>3. dir \in Dir /\ time \in Nat
    BY <1>1, <1>2
  <2> HIDE DEF dir, time, g
  <2>4. e = WithLinkUpdated(db, g, Cloud, stat)
    BY <2>1, <2>2 DEF WithLinkMoved, WithLinkUpdated, LinkedIn, LinkIn
  <2> HIDE DEF was
  <2>5. stat \in LinkSet /\ stat.id = was.id
    BY <2>2, <2>3 DEF LinkSet
  <2> HIDE DEF stat
  <2>6. DbOK(e, HomeFolder) /\ Keeps(db, e) /\ Spares(db, e)
    BY <1>1, <2>2, <2>4, <2>5, RelinkedIs DEF was
  <2> QED
    BY <2>6 DEF Spares
<1>7. CASE w.op = "Move" /\ ~Linked(w.gid)
  <2>1. e = db
    BY <1>7 DEF Recording, WithLinkMoved, Linked
  <2> QED
    BY <1>3, <2>1
<1>8. CASE (w.op = "Update" /\ ~Linked(w.gid)) \/ w.op = "Delete"
  <2>1. e = db
    BY <1>8 DEF Recording
  <2> QED
    BY <1>3, <2>1
<1> QED
  BY <1>2, <1>4, <1>5, <1>6, <1>7, <1>8

LEMMA FinishTyped ==
  ASSUME TypeInv, NEW w \in writes, Finish(w) PROVE TypeInv'
<1>1. /\ UNCHANGED <<kind, item, feed, token, batch, working, old, pathMap, out, doomed,
                     expected, changes, stuck, status, fate>>
      /\ w.stage = "arrived" /\ db' \in Recording(w) /\ writes' = writes \ {w}
  BY DEF Finish, cloudVars, batchVars
<1>2. /\ DbOK(db', HomeFolder) /\ Keeps(db, db')
      /\ \A h \in Loose(db) : h # w.gid \/ w.op # "New" =>
           h \in Loose(db') /\ PathOfRow(db', h) = PathOfRow(db, h)
  BY <1>1, RecordedIs
<1>3. ASSUME NEW v \in writes' PROVE WriteOK(v, db', HomeFolder, kind)
  <2>1. v \in writes /\ v # w /\ WriteOK(v, db, HomeFolder, kind)
    BY <1>1 DEF TypeInv, WritesTyped
  <2>2. v.op = "New" => v.gid # w.gid \/ w.op # "New"
    BY <2>1 DEF TypeInv, WritesTyped
  <2>3. v.op = "New" => v.gid \in Loose(db') /\ PathOfRow(db', v.gid) = PathOfRow(db, v.gid)
    BY <1>2, <2>1, <2>2 DEF WriteOK
  <2> QED
    BY <1>2, <2>1, <2>3, WriteKept DEF TypeInv, DbTyped, DbOK
<1>4. /\ \A u, v \in writes' : u.op = "New" /\ v.op = "New" /\ u.gid = v.gid => u = v
      /\ IsSeq(changes) /\ \A c \in Range(changes) : c \in InProgress
      /\ stuck \subseteq FileSpots(HomeFolder) /\ RegistryOK(expected, HomeFolder)
      /\ fate \in [Id -> SUBSET Fates]
  BY <1>1 DEF TypeInv, ChangesTyped, ExpectedTyped, WritesTyped, RestTyped, InProgress
<1> QED
  BY <1>1, <1>2, <1>3, <1>4, WorkTyped

LEMMA FailTyped ==
  ASSUME TypeInv, NEW w \in writes, Fail(w) PROVE TypeInv'
<1>1. /\ UNCHANGED <<kind, item, feed, token, batch, working, old, pathMap, out, doomed,
                     expected, changes, db, status>>
      /\ writes' = writes \ {w} /\ stuck' = stuck \cup {w.path} /\ Suffers({w.id}, "failed")
  BY DEF Fail, cloudVars, batchVars
<1>2. w.path \in FileSpots(HomeFolder)
  BY WrittenIs DEF WriteOK, Request, FileSpots
<1>3. fate' \in [Id -> SUBSET Fates]
  BY <1>1, Suffered DEF TypeInv, RestTyped, Fates
<1>4. /\ \A u, v \in writes' : u.op = "New" /\ v.op = "New" /\ u.gid = v.gid => u = v
      /\ \A v \in writes' : WriteOK(v, db, HomeFolder, kind)
      /\ IsSeq(changes) /\ \A c \in Range(changes) : c \in InProgress
      /\ stuck' \subseteq FileSpots(HomeFolder) /\ RegistryOK(expected, HomeFolder)
      /\ DbOK(db, HomeFolder) /\ Keeps(db, db)
  BY <1>1, <1>2, KeepsAll DEF TypeInv, ChangesTyped, ExpectedTyped, WritesTyped, DbTyped, DbOK, InProgress
<1> QED
  BY <1>1, <1>3, <1>4, WorkTyped

LEMMA WriteTyped ==
  ASSUME TypeInv, Write PROVE TypeInv'
BY BeginUploadTyped, BeginUpdateTyped, BeginDeleteTyped, BeginMoveTyped,
   SendTyped, ArriveTyped, GoesAstrayTyped, FinishTyped, FailTyped
   DEF Write

LEMMA DieMidwayTyped ==
  ASSUME TypeInv, NEW k \in DOMAIN changes, DieMidway(k) PROVE TypeInv'
<1> DEFINE c == changes[k]
<1>1. c.id \in File /\ Stop("killed", NewRow(db, c), {c.id})
  BY DEF DieMidway
<1>2. c.path \in Spots(c.id, HomeFolder)
  BY ChangeIs DEF ChangeOK
<1>3. DbOK(NewRow(db, c), HomeFolder)
  BY <1>1, <1>2, NewRowIs
<1> QED
  BY <1>1, <1>3, StopTyped

LEMMA RestartTyped ==
  ASSUME TypeInv, Restart PROVE TypeInv'
<1>1. /\ UNCHANGED <<kind, item, feed, token, batch, working, old, pathMap, out, doomed,
                     expected, changes, writes, stuck, db, fate>>
      /\ status' = "up"
  BY DEF Restart, cloudVars, batchVars, workVars
<1>2. CloudTyped /\ World /\ LiveFolder' = LiveFolder /\ HomeFolder' = HomeFolder
  BY <1>1, SameWorld DEF TypeInv
<1>3. CloudTyped'
  BY <1>1, <1>2 DEF CloudTyped
<1>4. BatchTyped' /\ ExpectedTyped'
  BY <1>1, <1>2, BatchKept, ExpectedKept
<1>5. DbTyped' /\ Keeps(db, db') /\ Tables(db') /\ Spares(db, db')
  BY <1>1, <1>2, DbKept DEF DbTyped, DbOK, Spares
<1>6. ChangesTyped'
  BY <1>1, <1>2, <1>5, ChangesUntouched
<1>7. WritesTyped'
  BY <1>1, <1>2, <1>5, WritesUntouched DEF TypeInv, WritesTyped
<1>8. RestTyped'
  BY <1>1 DEF TypeInv, RestTyped, Up
<1> QED
  BY <1>3, <1>4, <1>5, <1>6, <1>7, <1>8 DEF TypeInv

LEMMA CrashTyped ==
  ASSUME TypeInv, Crash PROVE TypeInv'
<1>1. ASSUME Die PROVE TypeInv'
  BY <1>1, StopTyped DEF Die, TypeInv, DbTyped
<1> QED
  BY <1>1, DieMidwayTyped, RestartTyped DEF Crash

LEMMA PollTyped ==
  ASSUME TypeInv, Poll PROVE TypeInv'
<1>1. ASSUME FetchPages PROVE TypeInv'
  BY <1>1, StopTyped DEF FetchPages, TypeInv, DbTyped
<1> QED
  BY <1>1, FetchTyped, TakeBatchTyped, EntryTyped, BatchDoneTyped DEF Poll

LEMMA StutterTyped ==
  ASSUME TypeInv, UNCHANGED vars PROVE TypeInv'
<1>1. UNCHANGED <<kind, item, feed, token, batch, working, old, pathMap, out, doomed,
                  expected, changes, writes, stuck, db, status, fate>>
  BY DEF vars, cloudVars, batchVars, workVars
<1>2. CloudTyped /\ World /\ LiveFolder' = LiveFolder /\ HomeFolder' = HomeFolder
  BY <1>1, SameWorld DEF TypeInv
<1>3. CloudTyped'
  BY <1>1, <1>2 DEF CloudTyped
<1>4. BatchTyped' /\ ExpectedTyped'
  BY <1>1, <1>2, BatchKept, ExpectedKept
<1>5. DbTyped' /\ Keeps(db, db') /\ Tables(db') /\ Spares(db, db')
  BY <1>1, <1>2, DbKept DEF DbTyped, DbOK, Spares
<1>6. ChangesTyped' /\ WritesTyped'
  BY <1>1, <1>2, <1>5, ChangesUntouched, WritesUntouched DEF TypeInv, WritesTyped
<1>7. RestTyped'
  BY <1>1 DEF TypeInv, RestTyped, Up
<1> QED
  BY <1>3, <1>4, <1>5, <1>6, <1>7 DEF TypeInv

LEMMA NextTyped ==
  ASSUME TypeInv, [Next]_vars PROVE TypeInv'
BY UsersTyped, PollTyped, CarryTyped, WriteTyped, CrashTyped, StutterTyped DEF Next, Rest

(* What the initial synchronisation has recorded. *)
LEMMA RecordedTyped ==
  ASSUME NEW have \in SUBSET Id, NEW H, have \cap Folder \subseteq H, NEW d, d = Recorded(SetToSeq(have))
  PROVE  /\ DbOK(d, H)
         /\ Loose(d) = {} /\ \A g \in DOMAIN d.files : LinkIn(d, g).id \in have
         /\ \A id \in have : \E g \in DOMAIN d.files : LinkIn(d, g).id = id
         /\ \A a, b \in DOMAIN d.files : LinkIn(d, a).id = LinkIn(d, b).id => a = b
         /\ \A g \in DOMAIN d.files :
              /\ LinkedIn(d, g) /\ PathOfRow(d, g) = Spot(Home, LinkIn(d, g).id)
              /\ LinkIn(d, g).parent = Home
              /\ LinkIn(d, g).time = 1 /\ (LinkIn(d, g).id \in File => LinkIn(d, g).hash = 1)
<1> DEFINE s == SetToSeq(have)
           n == Len(s)
           stat(i) == LinkStat(i, Home, 1, IF i \in File THEN 1 ELSE NoHash)
<1>1. IsFiniteSet(have)
  BY Names, FS_Subset
<1>2. IsSeq(s) /\ Range(s) = have /\ \A i, j \in DOMAIN s : s[i] = s[j] => i = j
  BY <1>1, AnOrder
<1>3. d = Recorded(s)
  OBVIOUS
<1> HIDE DEF s
<1>4. n \in Nat /\ DOMAIN s = 1..n
  BY <1>2, SeqFacts
<1>5. d = [files |-> [m \in 1..n |-> [path |-> <<NameOf[s[m]]>>, stat |-> None]],
           links |-> [key \in (1..n) \X {Cloud} |-> stat(s[key[1]])],
           lastId |-> n]
  BY <1>3, <1>4 DEF Recorded
<1> HIDE DEF stat
<1>6. /\ DOMAIN d.files = 1..n /\ DOMAIN d.links = (1..n) \X {Cloud} /\ d.lastId = n
      /\ \A g \in 1..n : d.files[g] = [path |-> <<NameOf[s[g]]>>, stat |-> None]
      /\ \A g \in 1..n : d.links[<<g, Cloud>>] = stat(s[g])
      /\ d = [files |-> d.files, links |-> d.links, lastId |-> d.lastId]
  BY <1>5
<1>7. ASSUME NEW g \in 1..n
      PROVE  /\ s[g] \in have /\ s[g] \in Id
             /\ LinkedIn(d, g) /\ LinkIn(d, g) = stat(s[g]) /\ LinkIn(d, g).id = s[g]
             /\ LinkIn(d, g).parent = Home /\ LinkIn(d, g).time = 1
             /\ s[g] \in File => LinkIn(d, g).hash = 1
             /\ LinkIn(d, g) \in LinkSet
             /\ PathOfRow(d, g) = Spot(Home, s[g]) /\ PathOfRow(d, g) \in Paths
             /\ d.files[g] \in [path : Paths, stat : {None}]
  <2>1. s[g] \in have /\ s[g] \in Id
    BY <1>2, <1>4 DEF Range
  <2>2. LinkedIn(d, g) /\ LinkIn(d, g) = stat(s[g])
    BY <1>6 DEF LinkedIn, LinkIn
  <2>3. PathOfRow(d, g) = Spot(Home, s[g]) /\ d.files[g] = [path |-> Spot(Home, s[g]), stat |-> None]
    BY <1>6 DEF PathOfRow, Spot
  <2>4. Spot(Home, s[g]) \in Paths
    BY <2>1, SpotKinds
  <2>5. /\ stat(s[g]).id = s[g] /\ stat(s[g]).parent = Home /\ stat(s[g]).time = 1
        /\ s[g] \in File => stat(s[g]).hash = 1
        /\ stat(s[g]) \in LinkSet
    BY <2>1 DEF stat, LinkStat, LinkSet, Dir, NoHash
  <2> QED
    BY <2>1, <2>2, <2>3, <2>4, <2>5
<1>8. Tables(d)
  BY <1>4, <1>6, <1>7 DEF Tables
<1>9. ASSUME NEW g \in 1..n PROVE RowOK(d, g, H)
  <2>1. Spot(Home, s[g]) \in Spots(s[g], H)
    BY DEF Spots
  <2>2. s[g] \in Folder => s[g] \in H
    BY <1>7
  <2> QED
    BY <1>7, <2>1, <2>2 DEF RowOK
<1>10. \A a, b \in 1..n : LinkIn(d, a).id = LinkIn(d, b).id => a = b
  BY <1>2, <1>4, <1>7
<1>11. FoldersOnce(d)
  BY <1>6, <1>10 DEF FoldersOnce
<1>12. \A id \in have : \E g \in 1..n : s[g] = id
  BY <1>2, <1>4 DEF Range
<1> QED
  BY <1>6, <1>7, <1>8, <1>9, <1>10, <1>11, <1>12 DEF DbOK, Loose

LEMMA InitTyped ==
  ASSUME Init PROVE TypeInv
<1>1. /\ kind \in Kinds /\ feed = <<>> /\ token = 0 /\ batch = <<>> /\ working = FALSE
      /\ expected = <<>> /\ old = <<>> /\ pathMap = <<>> /\ out = <<>> /\ doomed = {}
      /\ changes = <<>> /\ writes = {} /\ stuck = {} /\ status = "up" /\ fate = [id \in Id |-> {}]
  BY DEF Init, NothingExpected
<1>2. PICK have \in SUBSET Id :
        /\ item = [id \in Id |-> IF id \in have THEN InitialItem ELSE Unborn]
        /\ db = Recorded(SetToSeq(have))
  BY DEF Init
<1>3. \A id \in Id : item[id] \in Item /\ item[id].dir = Home /\ (item[id].live <=> id \in have)
                    /\ (item[id].live => item[id].time > 0) /\ (item[id].live \/ item[id] = Unborn)
  <2>1. InitialItem \in Item /\ Unborn \in Item /\ InitialItem.dir = Home /\ Unborn.dir = Home
        /\ InitialItem.live /\ ~Unborn.live /\ InitialItem.time > 0
    BY DEF InitialItem, Unborn, Item, Dir, NoHash
  <2> QED
    BY <1>2, <2>1
<1>4. have \cap Folder \subseteq HomeFolder
  BY <1>3 DEF LiveFolder, HomeFolder, Id
<1>5. CloudTyped
  <2>1. kind \in {"google", "dropbox"}
    BY <1>1, CloudChangesAssumption
  <2>2. \A id \in Id : ItemOK(item[id], id, LiveFolder, kind)
    BY <1>3, Names DEF ItemOK, Id
  <2>3. IsSeq(feed) /\ DOMAIN feed = {} /\ Len(feed) = 0
    BY <1>1, NothingSeq, SeqFacts
  <2>4. item \in [Id -> Item]
    BY <1>2, <1>3
  <2> QED
    BY <1>1, <2>1, <2>2, <2>3, <2>4 DEF CloudTyped
<1>6. BatchTyped
  BY <1>1, NothingSeq DEF BatchTyped, OneEach
<1>7. ExpectedTyped
  BY <1>1, NothingRegistered DEF ExpectedTyped
<1>8. DbTyped
  BY <1>2, <1>4, RecordedTyped DEF DbTyped
<1>9. ChangesTyped
  BY <1>1, NothingSeq, FS_EmptySet DEF ChangesTyped, InProgress
<1>10. WritesTyped /\ RestTyped
  BY <1>1 DEF WritesTyped, RestTyped, Fates, Up
<1> QED
  BY <1>5, <1>6, <1>7, <1>8, <1>9, <1>10 DEF TypeInv

LEMMA TypeHolds == Spec => []TypeInv
<1>1. Init => TypeInv
  BY InitTyped
<1>2. TypeInv /\ [Next]_vars => TypeInv'
  BY NextTyped
<1> QED
  BY <1>1, <1>2, PTL DEF Spec

(* The variables have their types, whatever the users, the polling thread, the  *)
(* callbacks and the writes to the cloud do, and in whatever order.            *)
THEOREM TypeCorrect == Spec => []TypeOK
<1>1. TypeInv => TypeOK
  <2> SUFFICES ASSUME TypeInv PROVE TypeOK
    OBVIOUS
  <2>1. kind \in Kinds /\ token \in 0..Len(feed)
    BY DEF TypeInv, CloudTyped
  <2>2. \A id \in Id : item[id].dir \in {Home, Elsewhere} \cup Folder
    BY DEF TypeInv, CloudTyped, Item, Dir
  <2>3. \A c \in InProgress : c.type \in ChangeTypes /\ c.id \in Id
    BY DEF TypeInv, ChangesTyped, ChangeOK
  <2>4. Range(expected) \cup Range(old) \subseteq ChangeTypes
    BY DEF TypeInv, ExpectedTyped, RegistryOK, Range
  <2>5. \A w \in writes : w.stage \in {"queued", "sent", "arrived"} /\ w.id \in Id
    BY WrittenIs DEF Request, Stages, Id
  <2>6. \A key \in DOMAIN db.links : key[1] \in DOMAIN db.files
    BY Key DEF TypeInv, DbTyped, DbOK
  <2>7. (working => Up) /\ status \in {"up", "killed", "pages"} \cup Id /\ fate \in [Id -> SUBSET Fates]
    BY DEF TypeInv, RestTyped
  <2> QED
    BY <2>1, <2>2, <2>3, <2>4, <2>5, <2>6, <2>7 DEF TypeOK
<1> QED
  BY <1>1, TypeHolds, PTL

=============================================================================
