----------------------------- MODULE IdleBarrier -----------------------------
(***************************************************************************)
(* What a caller of ActiveCount::waitUntilIdle() relies on, with no        *)
(* counter, mutex or condition variable in sight: a wait ends only at a    *)
(* moment when no command is inside, and it does end if the commands stay  *)
(* out.  The modules that compose HttpClient and CallbackDispatcher use    *)
(* the barrier in this form; ActiveCount is shown to implement it.         *)
(***************************************************************************)
CONSTANTS Task, Waiter

VARIABLES
  inside,     \* tasks that are counted in
  waiting     \* threads inside waitUntilIdle()

vars == <<inside, waiting>>

Init == inside = {} /\ waiting = {}

Enter(t) ==
  /\ t \notin inside
  /\ inside' = inside \cup {t}
  /\ UNCHANGED waiting

Leave(t) ==
  /\ t \in inside
  /\ inside' = inside \ {t}
  /\ UNCHANGED waiting

Wait(w) ==
  /\ w \notin waiting
  /\ waiting' = waiting \cup {w}
  /\ UNCHANGED inside

Return(w) ==
  /\ w \in waiting
  /\ inside = {}
  /\ waiting' = waiting \ {w}
  /\ UNCHANGED inside

Next ==
  \/ \E t \in Task : Enter(t) \/ Leave(t)
  \/ \E w \in Waiter : Wait(w) \/ Return(w)

Spec == Init /\ [][Next]_vars

FairSpec == Spec /\ \A w \in Waiter : WF_vars(Return(w))

=============================================================================
