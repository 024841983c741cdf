------------------------- MODULE MCModbusController -------------------------
(* Instances of ModbusController for TLC: two blocks of one register each, *)
(* read one by one or as one coalesced range.                              *)
EXTENDS ModbusController

CONSTANTS a, b, lo, hi, c1, c2

MCBlock == [r \in Reg |-> {r}]
MCRanges == {{a}, {b}, {a, b}}

\* A device that answers the coalesced range with its first block only.
MCServed == [k \in Ranges |-> IF k = {a, b} THEN {a} ELSE k]

Low == [reg |-> a, mask |-> {lo}, verify |-> FALSE]
High == [reg |-> a, mask |-> {hi}, verify |-> FALSE]
Hybrid == [High EXCEPT !.verify = TRUE]
Whole == [reg |-> b, mask |-> {lo, hi}, verify |-> FALSE]
MCItems == {Low, Hybrid, Whole}

\* Both calls write the shared register a, each its own bit of it.
MCMay == [c \in Client |-> IF c = c1 THEN {Hybrid} ELSE {Low, Whole}]
=============================================================================
