---------------------------- MODULE MCCloudChanges ----------------------------
(* One cloud with two files of the same name and a folder.                  *)
EXTENDS CloudChanges

CONSTANTS f, g, d

MCFile == {f, g}
MCFolder == {d}
MCNameOf == [id \in {f, g, d} |-> IF id = d THEN "folder" ELSE "name"]

(* Where both files are excused there is nothing left to see. *)
Bounded == \E id \in File : fate[id] = {}
Symmetry == Permutations({f, g})

=============================================================================
