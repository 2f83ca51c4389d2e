--------------------------- MODULE DeviceSharing ---------------------------
(***************************************************************************)
(* Who uses a device and who may lock it, without threads, mutexes and     *)
(* drivers: what Device, DevManager and Client have in common.  Every      *)
(* change is one step.                                                     *)
(***************************************************************************)
CONSTANT Conns

VARIABLES users, locked

vars == <<users, locked>>

Init == users = {} /\ locked = FALSE

\* A connection becomes a user, or is one already.
Join(c) == users' = users \cup {c} /\ UNCHANGED locked

\* A user leaves; a lock does not survive any user's leaving.
Part(c) ==
  /\ c \in users
  /\ users' = users \ {c}
  /\ locked' = FALSE

\* Only a device with exactly one user is locked.
Take(c) ==
  /\ users = {c}
  /\ locked' = TRUE
  /\ UNCHANGED users

\* Only a user unlocks.
Give(c) ==
  /\ c \in users
  /\ locked' = FALSE
  /\ UNCHANGED users

\* All users are sent away at once.
Drop == users' = {} /\ locked' = FALSE

Next ==
  \/ \E c \in Conns : Join(c) \/ Part(c) \/ Take(c) \/ Give(c)
  \/ Drop

Spec == Init /\ [][Next]_vars

\* A locked device has a user, who can unlock it or leave: no order of joining,
\* leaving and sending away makes it useless for everybody.
LockHasUser == locked => users # {}
=============================================================================
