----------------------------- MODULE MCLocalEvents -----------------------------
(* A directory of two files. *)
EXTENDS LocalEvents

CONSTANTS a, b
MCPath == {a, b}

(* At most three of: deeds of users, changes from the cloud, restarts.  Where *)
(* every path is excused there is nothing left to see.                      *)
Bounded ==
  /\ users + foreign + restarts <= 3
  /\ \E p \in Path : fate[p] = {}
Symmetry == Permutations(Path)

=============================================================================
