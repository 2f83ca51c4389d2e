--------------------------- MODULE DeviceContract ---------------------------
(***************************************************************************)
(* What a device promises: connections come to it one at a time, join it,  *)
(* leave it and lock it as in DeviceSharing, and it is open as long as     *)
(* somebody uses it.  Every change is one step of the connection whose     *)
(* turn it is.                                                             *)
(***************************************************************************)
CONSTANTS Conns, NoConn

VARIABLES open, users, locked, turn

Sharing == INSTANCE DeviceSharing

vars == <<open, users, locked, turn>>

Init == open = FALSE /\ turn = NoConn /\ Sharing!Init

Enter(c) == turn = NoConn /\ turn' = c /\ UNCHANGED <<open, users, locked>>

\* A connection joins for itself and opens the device if it is closed.
Join(c) == open' = TRUE /\ Sharing!Join(c)

\* Nobody leaves or unlocks for another.  The one user that a device must have
\* to be locked need not be the connection that locks it: close may come
\* between its becoming a user and its turn.
Change(c) ==
  /\ \/ Sharing!Part(c) \/ Sharing!Give(c) \/ Sharing!Drop
     \/ \E d \in Conns : Sharing!Take(d)
  /\ UNCHANGED open

\* Only a device that nobody uses is closed.
Shut == users = {} /\ open' = FALSE /\ UNCHANGED <<users, locked>>

Same == UNCHANGED <<open, users, locked>>

\* What a connection does in its turn, and whether it ends the turn with it
Act(c) ==
  /\ turn = c /\ turn' \in {c, NoConn}
  /\ Join(c) \/ Change(c) \/ Shut \/ Same

Next == \E c \in Conns : Enter(c) \/ Act(c)

Spec == Init /\ [][Next]_vars
=============================================================================
