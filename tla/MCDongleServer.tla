--------------------------- MODULE MCDongleServer ---------------------------
(* Instances of DongleServer for TLC.                                      *)
EXTENDS DongleServer

CONSTANTS rd, w1, w2

\* The read and the first write name different registers, both writes the
\* same one; register 0 is also a polled ReadInput block.
MCRegOf == [r \in Req |-> IF r = rd THEN 0 ELSE 21]
=============================================================================
