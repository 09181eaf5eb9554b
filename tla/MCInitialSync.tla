--------------------------- MODULE MCInitialSync ---------------------------
(***************************************************************************)
(* An instance of InitialSync for TLC: a file p that any of three storages *)
(* may have, of any age, beside a file q that each of them has in the same  *)
(* age or not at all.  The cfg makes c2 a Dropbox whose updates go astray.  *)
(***************************************************************************)
EXTENDS InitialSync

CONSTANTS c1, c2, p, q

Clouds == {c1, c2}
Paths == {p, q}

(* Ages of a file in each storage, 0 where it is missing. *)
Ages == [Clouds \cup {Local} -> 0..LastTime]
AgesOfQ == {ages \in Ages : \A s \in Clouds \cup {Local} : ages[s] < 2}
Begin(ages) ==
  [s \in Clouds \cup {Local} |-> [f \in Paths |->
     IF ages[f][s] = 0 THEN None ELSE [time |-> ages[f][s], origin |-> s]]]
Beginnings == {Begin(ages) : ages \in {a \in [Paths -> Ages] : a[q] \in AgesOfQ}}

=============================================================================
