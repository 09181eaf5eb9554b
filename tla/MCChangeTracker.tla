---------------------------- MODULE MCChangeTracker ----------------------------
(***************************************************************************)
(* The instance of ChangeTracker for TLC: three changes of one path and two *)
(* of another, with chains of both kinds, a directory that two of them      *)
(* lack, and a change that announces that directory.  c2 waits for c1 and   *)
(* may lack its directory when its turn comes: it depends on whether c4 or  *)
(* d, on the other thread, has had it created by then.                     *)
(***************************************************************************)
EXTENDS ChangeTracker

CONSTANTS c1, c2, c3, c4, c5, d, p, q, r, dir

Changes == {c1, c2, c3, c4, c5, d}
Files == {c1, c2, c3, c4, c5}
Paths == {p, q, r}
Dirs == {dir}
Directories == {d}
Nobody == {}

LocalNew == <<"local", "cloud">>
Download == <<"cloud", "local">>

Target == [c \in Changes |->
             CASE c = d -> r [] c \in {c4, c5} -> q [] OTHER -> p]
Chains == [c \in Changes |->
             IF c = d THEN <<>> ELSE IF c \in {c1, c4} THEN LocalNew ELSE Download]
Lack == [c \in Changes |-> IF c \in {c2, c4, d} THEN {dir} ELSE {}]
Order == <<c1, c2, c4, d, c5, c3>>

=============================================================================
