--------------------------- MODULE MCTriggerEngine ---------------------------
(* TriggerEngine on a small instance.                                      *)
EXTENDS TriggerEngine

\* The second trigger has no When part, the first one a window that passes
\* midnight, on the first day only.
MCWindow == [t \in Trigger |->
               IF t = 2 THEN [days |-> {}, start |-> Never, end |-> Never]
               ELSE [days |-> {1}, start |-> 2, end |-> 0]]
=============================================================================
