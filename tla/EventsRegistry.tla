---------------------------- MODULE EventsRegistry ----------------------------
(***************************************************************************)
(* The events a storage expects because the program itself causes them     *)
(* (src/event-registry.cpp), as operators on a map from a path or an id to  *)
(* the kind of the change.  Every method of ThreadSafeEventsRegistry is a     *)
(* critical section, hence one operator; PrevEventsRegistry is the copy     *)
(* that one batch of events is compared with.                              *)
(***************************************************************************)
EXTENDS Functions

ChangeTypes == {"New", "Update", "Move", "Delete"}

NothingExpected == <<>>

(* add(): emplace() keeps the kind that a key already has. *)
Expecting(map, key, type) ==
  IF key \in DOMAIN map THEN map
  ELSE [k \in DOMAIN map \cup {key} |-> IF k = key THEN type ELSE map[k]]

(* check() returns whether the key is there with that kind, and then        *)
(* removes it.                                                             *)
Expects(map, key, type) == key \in DOMAIN map /\ map[key] = type
Without(map, key) == Restrict(map, DOMAIN map \ {key})
Checked(map, key, type) ==
  IF Expects(map, key, type) THEN Without(map, key) ELSE map

=============================================================================
