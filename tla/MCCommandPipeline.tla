-------------------------- MODULE MCCommandPipeline --------------------------
(***************************************************************************)
(* Instances of CommandPipeline for TLC.                                   *)
(*                                                                         *)
(* Initial synchronisation: two files exist only in a cloud and are        *)
(* downloaded (d1, d2) and then recorded locally (l1, l2); behind the      *)
(* barrier one local file is uploaded (u1).                                *)
(* Daemon: a new local file (l1) goes to two clouds (u1, u2), a new cloud  *)
(* file (d1) is downloaded, recorded (l2) and uploaded to another (u3).    *)
(***************************************************************************)
EXTENDS CommandPipeline

CONSTANTS d1, d2, l1, l2, u1, u2, u3

SyncCommand == {d1, d2, l1, l2, u1}
SyncLocal == {l1, l2}
SyncNext == [c \in SyncCommand |->
               IF c = d1 THEN {l1} ELSE IF c = d2 THEN {l2} ELSE {}]
SyncBatch == <<{d1, d2}, {u1}>>

DaemonCommand == {l1, u1, u2, d1, l2, u3}
DaemonLocal == {l1, l2}
DaemonNext == [c \in DaemonCommand |->
                 CASE c = l1 -> {u1, u2}
                   [] c = d1 -> {l2}
                   [] c = l2 -> {u3}
                   [] OTHER -> {}]
DaemonBatch == <<{l1}, {d1}>>

=============================================================================
