------------------------------ MODULE MCClient ------------------------------
(* Instances of Client for TLC.                                            *)
EXTENDS Client

SomeActs == {"lock_dev", "use_srv", "monitor", "ask", "reload"}
SomeLines == {"ask", "lock", "unlock", "release_all", "log_start", "log_get", "log_finish"}
=============================================================================
