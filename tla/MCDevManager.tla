---------------------------- MODULE MCDevManager ----------------------------
(* Instances of DevManager for TLC.                                        *)
EXTENDS DevManager

AllRequests  == RequestNames
\* What changes devices and their users
ReloadRequests == {"use", "lock", "reload"}
=============================================================================
