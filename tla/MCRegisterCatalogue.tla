------------------------- MODULE MCRegisterCatalogue -------------------------
(* RegisterCatalogue with the items of the program.                        *)
EXTENDS RegisterCatalogue, ModbusRegisters

MCItems == Catalog
MCDanger == Confirmed
MCPages == Queries

\* The boundaries of the allowed values, one within and one on either side.
Samples(item) ==
    item.options \cup {item.max + 1}
    \cup (IF item.kind \in {"number", "time"} THEN {item.min - 1, item.min + 17} ELSE {})

Boundaries == [k \in DOMAIN Catalog |-> Samples(Catalog[k])]
MCTried == Boundaries

\* Every other bit is set, beginning with the second one.
MCContents == {[r \in {Catalog[k].reg : k \in DOMAIN Catalog} |-> 43690]}
=============================================================================
