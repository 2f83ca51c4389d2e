------------------------------ MODULE MCOpening ------------------------------
(* Instances of Opening for TLC.                                           *)
EXTENDS Opening, TLC

CONSTANTS d1, d2

\* A serial device with every driver, or two other devices
MixedLists == {(d1 :> k) @@ (d2 :> "test") : k \in SerialKinds}
              \cup [Devs -> OtherKinds]
OneHm310t  == {d1 :> "serial_hm310t"}

\* The ASM340 example of Readme.md, a terminal with parity, a line by line
\* terminal that leaves it, and one that waits for a byte
Chosen == { <<>>,
            [parity |-> "8N1", vmin |-> 0, ndelay |-> 0, icrnl |-> 0, sfc |-> 1, raw |-> 1],
            [parity |-> "7E1", raw |-> 1, inlcr |-> 1],
            [parity |-> "", raw |-> 0, lcase |-> 1, parmrk |-> 1],
            [vmin |-> 1, ndelay |-> 0, nlcnv |-> 0] }
NoOptions == {<<>>}
=============================================================================
