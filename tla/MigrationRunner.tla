-------------------------- MODULE MigrationRunner --------------------------
(***************************************************************************)
(* run_migration of migration.py over SQLite, across crashes, restarts and *)
(* upgrades of the program.  The list MIGRATIONS_SQL only ever grows: the  *)
(* program installed at some time knows its first "version" statements.    *)
(*                                                                         *)
(* The connection is in the default transaction mode of Python's sqlite3:  *)
(* INSERT and UPDATE open a transaction, CREATE and ALTER do not, so that  *)
(* outside of a transaction they are durable at once.                      *)
(***************************************************************************)
EXTENDS Integers

CONSTANTS N,         \* statements of the longest list
          Alters,    \* positions of ALTER TABLE ... ADD COLUMN
          Rewrites,  \* positions of UPDATE (the others: CREATE TABLE)
          Needs      \* the CREATE TABLE an ALTER or UPDATE works on

ASSUME ListAssumption ==
    /\ N \in Nat \ {0}
    /\ Alters \subseteq 2..N /\ Rewrites \subseteq 2..N
    /\ Alters \cap Rewrites = {}
    /\ \A i \in Alters \cup Rewrites : Needs[i] \in 1..(i - 1)

VARIABLES
    disk,     \* the database file: a Database
    view,     \* what the connection sees
    open,     \* the connection has an open transaction
    version,  \* length of MIGRATIONS_SQL
    stage,    \* "down", "execute", "record", "commit" or "running"
    at        \* the statement the loop is at

vars == <<disk, view, open, version, stage, at>>

\* done: statements whose effect is there; rows: ids in the migration table;
\* legacy: rewrites for which there are rows in the old form.
Database == [done : SUBSET (1..N), rows : SUBSET (1..N), legacy : SUBSET Rewrites]

Init ==
    /\ disk = [done |-> {}, rows |-> {}, legacy |-> {}]
    /\ view = disk
    /\ open = FALSE
    /\ version = 0
    /\ stage = "down"
    /\ at = 0

\* Fault: an empty migration table is taken for a finished migration.
NextIdTrustsTable ==
    IF 1 \notin disk.done THEN 1
    ELSE IF disk.rows = {} THEN N + 1
    ELSE (CHOOSE i \in disk.rows : \A j \in disk.rows : j <= i) + 1

\* Fault: the statement after the last recorded one is passed over.
NextIdSkipsOne ==
    IF 1 \notin disk.done \/ disk.rows = {} THEN 1
    ELSE (CHOOSE i \in disk.rows : \A j \in disk.rows : j <= i) + 2

\* No migration table, or an empty one, means that nothing was applied.
NextId ==
    IF 1 \notin disk.done \/ disk.rows = {} THEN 1
    ELSE (CHOOSE i \in disk.rows : \A j \in disk.rows : j <= i) + 1

\* The program starts, after an upgrade or not, and looks for its first
\* pending statement.
Start ==
    /\ stage = "down"
    /\ \E v \in 1..N :
          /\ v >= version
          /\ version' = v
          /\ IF v < NextId
             THEN stage' = "running" /\ UNCHANGED at
             ELSE stage' = "execute" /\ at' = NextId
    /\ UNCHANGED <<disk, view, open>>

\* Fault: a table or column that exists already makes the statement fail.
DefineOnce ==
    /\ stage = "execute" /\ at \notin Rewrites /\ at \notin view.done
    /\ at \in Alters => Needs[at] \in view.done
    /\ view' = [view EXCEPT !.done = @ \cup {at}]
    /\ disk' = IF open THEN disk ELSE view'
    /\ stage' = "record"
    /\ UNCHANGED <<open, version, at>>

\* CREATE TABLE IF NOT EXISTS and ALTER TABLE have the same result however
\* often they run: "duplicate column name" is caught.
Define ==
    /\ stage = "execute" /\ at \notin Rewrites
    /\ at \in Alters => Needs[at] \in view.done
    /\ view' = [view EXCEPT !.done = @ \cup {at}]
    /\ disk' = IF open THEN disk ELSE view'
    /\ stage' = "record"
    /\ UNCHANGED <<open, version, at>>

\* UPDATE of the rows a former version wrote.
Rewrite ==
    /\ stage = "execute" /\ at \in Rewrites /\ Needs[at] \in view.done
    /\ view' = [view EXCEPT !.done = @ \cup {at}, !.legacy = @ \ {at}]
    /\ open' = TRUE
    /\ stage' = "record"
    /\ UNCHANGED <<disk, version, at>>

\* Fault: the id is committed at once, the statement with the last one.
RecordCommitsRow ==
    /\ stage = "record"
    /\ view' = [view EXCEPT !.rows = @ \cup {at}]
    /\ disk' = [disk EXCEPT !.rows = @ \cup {at}]
    /\ open' = TRUE
    /\ IF at < version THEN stage' = "execute" /\ at' = at + 1
                       ELSE stage' = "commit" /\ UNCHANGED at
    /\ UNCHANGED version

\* INSERT INTO migration, then the next statement of the loop.
Record ==
    /\ stage = "record"
    /\ view' = [view EXCEPT !.rows = @ \cup {at}]
    /\ open' = TRUE
    /\ IF at < version THEN stage' = "execute" /\ at' = at + 1
                       ELSE stage' = "commit" /\ UNCHANGED at
    /\ UNCHANGED <<disk, version>>

Commit ==
    /\ stage = "commit"
    /\ disk' = view
    /\ open' = FALSE
    /\ stage' = "running"
    /\ UNCHANGED <<view, version, at>>

\* The process ends, by itself, killed, or because a statement raised (the
\* database is locked): SQLite rolls the open transaction back.
Crash ==
    /\ stage # "down"
    /\ stage' = "down"
    /\ view' = disk
    /\ open' = FALSE
    /\ UNCHANGED <<disk, version, at>>

\* A program that does not know a rewrite yet writes rows in the old form.
WriteLegacy ==
    /\ stage = "running"
    /\ \E i \in Rewrites :
          /\ i > version /\ Needs[i] \in disk.done
          /\ disk' = [disk EXCEPT !.legacy = @ \cup {i}]
    /\ view' = disk'
    /\ UNCHANGED <<open, version, stage, at>>

Migrate == Start \/ Define \/ Rewrite \/ Record \/ Commit

Next == Migrate \/ Crash \/ WriteLegacy

Spec == Init /\ [][Next]_vars

FairSpec == Spec /\ WF_vars(Migrate)
-----------------------------------------------------------------------------
(* Properties.                                                             *)

\* Type invariant.
TypeOK ==
    /\ disk \in Database /\ view \in Database
    /\ open \in BOOLEAN
    /\ version \in 0..N
    /\ stage \in {"down", "execute", "record", "commit", "running"}
    /\ at \in 0..N

\* The migration table holds the ids of a prefix of the list, and every one
\* of them was executed: no crash leaves a statement recorded that has not
\* taken effect, or a gap that the next start would skip over.
RecordedPrefix ==
    /\ \E k \in 0..N : disk.rows = 1..k
    /\ disk.rows \subseteq disk.done

\* A statement that alters or rewrites a table finds the table, whatever was
\* durable when the migration started (else every restart would fail).
TablesComeFirst ==
    stage = "execute" /\ at \in Alters \cup Rewrites => Needs[at] \in view.done

\* Once the program runs, each statement it knows is durable and no row is
\* left in a form that one of them rewrites ("run_migration must rebuild from
\* any incomplete state, not silently no-op", tests/test_notifications.py).
RunsMigrated ==
    stage = "running" => /\ 1..version \subseteq disk.done
                         /\ disk.rows = 1..version
                         /\ disk.legacy \cap 1..version = {}

\* When crashes stop, the program gets to run.
GetsToRun == <>[][~Crash]_vars => <>[](stage = "running")
=============================================================================
