------------------------------ MODULE MCHm310t ------------------------------
(* Instances of Hm310t for TLC.                                            *)
EXTENDS Hm310t

TwoWords  == {1, 2}
TwoPowers == {65536, 131073}
=============================================================================
