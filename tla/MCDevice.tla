------------------------------ MODULE MCDevice ------------------------------
(* Instances of Device for TLC.                                            *)
EXTENDS Device, TLC

Symmetry == Permutations(Conns)

AllRequests  == RequestNames
\* Who uses, who holds and who asks, without the logs
Sharing      == {"use", "release", "lock", "unlock", "ask"}
SharingClose == Sharing \cup {"close"}
=============================================================================
