------------------------- MODULE MCMigrationRunner -------------------------
(* The list MIGRATIONS_SQL as it is: 17 statements, of which three alter   *)
(* a table and six rewrite rows.                                           *)
EXTENDS MigrationRunner

MCAlters == {4, 6, 12}
MCRewrites == {8} \cup 13..17
MCNeeds == [i \in MCAlters \cup MCRewrites |->
              CASE i = 4 -> 3
                [] i \in {6, 13} -> 5
                [] i = 8 -> 7
                [] i \in {12, 14} -> 11
                [] i \in {15, 16} -> 10
                [] i = 17 -> 9]
=============================================================================
