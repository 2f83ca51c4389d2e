--------------------------- MODULE MCQueryDriver ---------------------------
(* Instances of QueryDriver for TLC.                                       *)
EXTENDS QueryDriver

EveryKind    == AllKinds
EveryMessage == AllMessages
=============================================================================
