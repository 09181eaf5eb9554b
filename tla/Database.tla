------------------------------ MODULE Database ------------------------------
(***************************************************************************)
(* The tables files and file_links, and the queries and updates on them    *)
(* (src/database.cpp), as operators on a value with the fields of EmptyDb.  *)
(* Each update is one SQLite transaction, hence one operator; the modules that use them say   *)
(* which thread does what when, and what may happen in between.            *)
(*                                                                         *)
(* A row of files has a path and what is recorded of the local file (size, *)
(* hash, time: stat).  A link says that the file has a counterpart in a    *)
(* cloud, and what is recorded of that.                                    *)
(***************************************************************************)
EXTENDS Naturals, Sequences, FiniteSets

Put(f, k, v) == [x \in DOMAIN f \cup {k} |-> IF x = k THEN v ELSE f[x]]

(* The tables as create_tables() makes them. *)
EmptyDb == [files |-> <<>>, links |-> <<>>, lastId |-> 0]

(* Mutant: the id of the previous row. *)
StaleId(db) == db.lastId

(* add_file(): AUTOINCREMENT never uses an id twice.  NewId is the id that  *)
(* it returns.                                                             *)
NewId(db) == db.lastId + 1
WithFile(db, path, stat) ==
  [db EXCEPT !.files = Put(@, NewId(db), [path |-> path, stat |-> stat]),
             !.lastId = NewId(db)]

(* add_file_link() for each cloud of stats, a function: INSERT OR IGNORE     *)
(* leaves an existing link alone.  The foreign key demands the row          *)
(* (CanLink); without it the call throws.                                   *)
CanLink(db, id) == id \in DOMAIN db.files
WithLinks(db, id, stats) ==
  [db EXCEPT !.links = [key \in DOMAIN @ \cup ({id} \X DOMAIN stats) |->
                          IF key \in DOMAIN @ THEN @[key] ELSE stats[key[2]]]]
WithLink(db, id, cloud, stat) == WithLinks(db, id, [c \in {cloud} |-> stat])

(* update_file(), update_file_link() with what an update changes: no row,   *)
(* no effect.                                                              *)
WithFileUpdated(db, id, stat) ==
  IF id \in DOMAIN db.files THEN [db EXCEPT !.files[id].stat = stat] ELSE db
WithLinkUpdated(db, id, cloud, stat) ==
  IF <<id, cloud>> \in DOMAIN db.links
  THEN [db EXCEPT !.links[<<id, cloud>>] = stat] ELSE db

(* getGlobalIdByPath(): of the rows of a path the index yields the one with *)
(* the smallest id; without a row it throws.                               *)
RowsOf(db, path) == {id \in DOMAIN db.files : db.files[id].path = path}
HasRow(db, path) == RowsOf(db, path) # {}
GlobalId(db, path) ==
  CHOOSE id \in RowsOf(db, path) : \A other \in RowsOf(db, path) : id <= other

(* update_file() and update_file_link() for a move (but for the local time,  *)
(* which the statement sets too), delete_file_and_links()                   *)
(* with the cascade of the foreign key (without it: the mutant WithoutRow). *)
WithFileMoved(db, id, path) ==
  IF id \in DOMAIN db.files THEN [db EXCEPT !.files[id].path = path] ELSE db
WithLinkMoved(db, id, cloud, parent, time) ==
  IF <<id, cloud>> \in DOMAIN db.links
  THEN [db EXCEPT !.links[<<id, cloud>>] = [@ EXCEPT !.parent = parent, !.time = time]]
  ELSE db
WithoutRow(db, id) == [db EXCEPT !.files = [i \in DOMAIN @ \ {id} |-> @[i]]]
WithoutFile(db, id) ==
  [db EXCEPT !.files = [i \in DOMAIN @ \ {id} |-> @[i]],
             !.links = [k \in {k \in DOMAIN @ : k[1] # id} |-> @[k]]]

(* getFileByCloudIdAndCloudFileId(): the rows whose link names a file of a  *)
(* cloud; it returns one of them.                                          *)
LinkedTo(db, cloud, file) ==
  {key[1] : key \in {k \in DOMAIN db.links : k[2] = cloud /\ db.links[k].id = file}}

LinkedClouds(db, id) == {key[2] : key \in {k \in DOMAIN db.links : k[1] = id}}

-----------------------------------------------------------------------------
(* Directories.  A path is a sequence of names. *)
Prefix(path, n) == SubSeq(path, 1, n)

(* Mutant: a row is enough. *)
MirroredRow(db, path, clouds) == HasRow(db, path)

(* One component of getMissingPathPart(): a row, and as many links as there *)
(* are clouds.                                                             *)
Mirrored(db, path, clouds) ==
  HasRow(db, path) /\ Cardinality(LinkedClouds(db, GlobalId(db, path))) = clouds

(* getMissingPathPart(): the path from its first component on that is not   *)
(* mirrored, or the empty path.                                            *)
MissingPathPart(db, path, clouds) ==
  LET Lacking == {n \in DOMAIN path : ~Mirrored(db, Prefix(path, n), clouds)}
  IN  IF Lacking = {} THEN <<>>
      ELSE LET first == CHOOSE n \in Lacking : \A m \in Lacking : n <= m
           IN  SubSeq(path, first, Len(path))

=============================================================================
