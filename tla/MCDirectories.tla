--------------------------- MODULE MCDirectories ---------------------------
(***************************************************************************)
(* Instances of Directories for TLC: a directory, two in it, two clouds.   *)
(***************************************************************************)
EXTENDS Directories

CONSTANTS c1, c2, d, e, f

Clouds == {c1, c2}
Names == {d, e, f}
Tree == {<<d>>, <<d, e>>, <<d, f>>}

=============================================================================
