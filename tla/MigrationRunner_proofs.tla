----------------------- MODULE MigrationRunner_proofs -----------------------
(***************************************************************************)
(* The safety invariants of MigrationRunner, for every list of statements: *)
(* however often the process crashes, restarts and is upgraded.            *)
(***************************************************************************)
EXTENDS MigrationRunner, TLAPS

\* What is recorded was executed, and left no row in the old form.
Sound(db) == db.rows \subseteq db.done /\ db.rows \cap db.legacy = {}

\* The migration table holds a prefix of the list this version knows.
Prefix(db) == \E k \in 0..version : db.rows = 1..k

\* Where the loop is, in terms of what it has recorded.
LoopAt ==
    /\ stage \in {"execute", "record"} =>
          at \in 1..version /\ view.rows = 1..(at - 1)
    /\ stage = "record" => at \in view.done /\ at \notin view.legacy
    /\ stage = "commit" => view.rows = 1..version
    /\ stage = "running" => disk.rows = 1..version
    /\ stage \in {"down", "running"} => ~open
    /\ ~open => view = disk

\* The inductive invariant.
IInv == TypeOK /\ Sound(disk) /\ Sound(view) /\ Prefix(disk) /\ LoopAt

\* The first pending statement is the one after the recorded prefix.
LEMMA NextIdAfterPrefix ==
    ASSUME NEW k \in 0..N, disk.rows = 1..k, disk.rows \subseteq disk.done,
           ListAssumption
    PROVE  NextId = k + 1
<1>1. CASE k = 0
  <2>1. disk.rows = {}
    BY <1>1
  <2> QED
    BY <2>1, <1>1 DEF NextId
<1>2. CASE k # 0
  <2>1. 1 \in disk.rows /\ k \in disk.rows
    BY <1>2 DEF ListAssumption
  <2>2. \A i \in disk.rows : (\A j \in disk.rows : j <= i) <=> i = k
    BY <2>1 DEF ListAssumption
  <2>3. (CHOOSE i \in disk.rows : \A j \in disk.rows : j <= i) = k
    BY <2>1, <2>2
  <2> QED
    BY <2>1, <2>3 DEF NextId
<1> QED
  BY <1>1, <1>2

\* The empty database is a correct start.
LEMMA InitIInv == ASSUME ListAssumption, Init PROVE IInv
<1>1. TypeOK
  <2>1. disk \in Database /\ view \in Database
    BY DEF Init, Database
  <2>2. version \in 0..N /\ at \in 0..N
    BY DEF Init, ListAssumption
  <2> QED
    BY <2>1, <2>2 DEF Init, TypeOK
<1>2. Sound(disk) /\ Sound(view)
  BY DEF Init, Sound
<1>3. Prefix(disk)
  <2>1. disk.rows = 1..0 /\ version = 0
    BY DEF Init
  <2> QED
    BY <2>1 DEF Prefix
<1>4. LoopAt
  BY DEF Init, LoopAt
<1> QED
  BY <1>1, <1>2, <1>3, <1>4 DEF IInv

\* A start finds the prefix recorded before, by this version or another.
LEMMA StartKeeps == ASSUME ListAssumption, IInv, Start PROVE IInv'
<1>1. PICK v \in 1..N :
        /\ v >= version /\ version' = v
        /\ IF v < NextId THEN stage' = "running" /\ UNCHANGED at
                         ELSE stage' = "execute" /\ at' = NextId
  BY DEF Start
<1>2. stage = "down" /\ UNCHANGED <<disk, view, open>>
  BY DEF Start
<1>3. ~open /\ view = disk
  BY <1>2 DEF IInv, LoopAt
<1>4. N \in Nat /\ version \in 0..N /\ at \in 0..N
  BY DEF IInv, TypeOK, ListAssumption
<1>5. PICK k \in 0..version : disk.rows = 1..k
  BY DEF IInv, Prefix
<1>6. NextId = k + 1
  <2>1. k \in 0..N
    BY <1>4
  <2>2. disk.rows \subseteq disk.done
    BY DEF IInv, Sound
  <2> QED
    BY <1>5, <2>1, <2>2, NextIdAfterPrefix
<1>7. Sound(disk)' /\ Sound(view)'
  BY <1>2 DEF IInv, Sound
<1>8. Prefix(disk)'
  <2>1. k \in 0..version' /\ disk'.rows = 1..k
    BY <1>1, <1>2, <1>4, <1>5
  <2> QED
    BY <2>1 DEF Prefix
<1>9. CASE v < NextId
  <2>1. k = v /\ stage' = "running" /\ UNCHANGED at
    BY <1>1, <1>4, <1>6, <1>9
  <2>2. TypeOK'
    BY <1>1, <1>2, <1>4, <2>1 DEF IInv, TypeOK
  <2>3. LoopAt'
    BY <1>1, <1>2, <1>3, <1>5, <2>1 DEF LoopAt
  <2> QED
    BY <1>7, <1>8, <2>2, <2>3 DEF IInv
<1>10. CASE ~(v < NextId)
  <2>1. stage' = "execute" /\ at' = k + 1 /\ k + 1 \in 1..v
    BY <1>1, <1>4, <1>6, <1>10
  <2>2. TypeOK'
    BY <1>1, <1>2, <1>4, <2>1 DEF IInv, TypeOK
  <2>3. view'.rows = 1..(at' - 1)
    <3>1. at' - 1 = k
      BY <2>1, <1>4
    <3> QED
      BY <3>1, <1>2, <1>3, <1>5
  <2>4. LoopAt'
    BY <1>1, <1>2, <1>3, <2>1, <2>3 DEF LoopAt
  <2> QED
    BY <1>7, <1>8, <2>2, <2>4 DEF IInv
<1> QED
  BY <1>9, <1>10

\* A definition is durable at once outside of a transaction, with it inside.
LEMMA DefineKeeps == ASSUME ListAssumption, IInv, Define PROVE IInv'
<1> DEFINE new == [view EXCEPT !.done = @ \cup {at}]
<1>1. /\ stage = "execute" /\ at \notin Rewrites /\ stage' = "record"
      /\ view' = new /\ disk' = (IF open THEN disk ELSE new)
      /\ UNCHANGED <<open, version, at>>
  BY DEF Define
<1>2. at \in 1..version /\ view.rows = 1..(at - 1) /\ version \in 0..N
  BY <1>1 DEF IInv, LoopAt, TypeOK
<1>3. view \in Database /\ disk \in Database /\ N \in Nat
  BY DEF IInv, TypeOK, ListAssumption
<1>4. at \in 1..N
  BY <1>2, <1>3
<1>5. /\ new \in Database /\ new.rows = view.rows
      /\ new.done = view.done \cup {at} /\ new.legacy = view.legacy
  BY <1>3, <1>4 DEF Database
<1>6. TypeOK'
  BY <1>1, <1>3, <1>5 DEF IInv, TypeOK
<1>7. Sound(new) /\ Sound(disk)
  BY <1>5 DEF IInv, Sound
<1>8. Sound(view)' /\ Sound(disk)'
  BY <1>1, <1>7 DEF Sound
<1>9. disk'.rows = disk.rows
  <2>1. ~open => view = disk
    BY DEF IInv, LoopAt
  <2> QED
    BY <2>1, <1>1, <1>5
<1>10. Prefix(disk)'
  BY <1>1, <1>9 DEF IInv, Prefix
<1>11. LoopAt'
  <2>1. at \notin view.legacy
    BY <1>1, <1>3 DEF Database
  <2> QED
    BY <1>1, <1>2, <1>5, <2>1 DEF LoopAt
<1> QED
  BY <1>6, <1>8, <1>10, <1>11 DEF IInv

\* A rewrite leaves no row in the old form, and stays in the transaction.
LEMMA RewriteKeeps == ASSUME ListAssumption, IInv, Rewrite PROVE IInv'
<1> DEFINE new == [view EXCEPT !.done = @ \cup {at}, !.legacy = @ \ {at}]
<1>1. /\ stage = "execute" /\ stage' = "record" /\ view' = new /\ open' = TRUE
      /\ UNCHANGED <<disk, version, at>>
  BY DEF Rewrite
<1>2. at \in 1..version /\ view.rows = 1..(at - 1) /\ version \in 0..N
  BY <1>1 DEF IInv, LoopAt, TypeOK
<1>3. view \in Database /\ N \in Nat
  BY DEF IInv, TypeOK, ListAssumption
<1>4. at \in 1..N
  BY <1>2, <1>3
<1>5. /\ new \in Database /\ new.rows = view.rows
      /\ new.done = view.done \cup {at} /\ new.legacy = view.legacy \ {at}
  BY <1>3, <1>4 DEF Database
<1>6. TypeOK'
  BY <1>1, <1>5 DEF IInv, TypeOK
<1>7. Sound(view)' /\ Sound(disk)'
  BY <1>1, <1>5 DEF IInv, Sound
<1>8. Prefix(disk)'
  BY <1>1 DEF IInv, Prefix
<1>9. LoopAt'
  BY <1>1, <1>2, <1>5 DEF LoopAt
<1> QED
  BY <1>6, <1>7, <1>8, <1>9 DEF IInv

\* The recorded prefix grows by the statement just executed.
LEMMA RecordKeeps == ASSUME ListAssumption, IInv, Record PROVE IInv'
<1> DEFINE new == [view EXCEPT !.rows = @ \cup {at}]
<1>1. /\ stage = "record" /\ view' = new /\ open' = TRUE
      /\ IF at < version THEN stage' = "execute" /\ at' = at + 1
                         ELSE stage' = "commit" /\ UNCHANGED at
      /\ UNCHANGED <<disk, version>>
  BY DEF Record
<1>2. /\ at \in 1..version /\ view.rows = 1..(at - 1) /\ version \in 0..N
      /\ at \in view.done /\ at \notin view.legacy
  BY <1>1 DEF IInv, LoopAt, TypeOK
<1>3. view \in Database /\ N \in Nat
  BY DEF IInv, TypeOK, ListAssumption
<1>4. at \in 1..N
  BY <1>2, <1>3
<1>5. /\ new \in Database /\ new.rows = view.rows \cup {at}
      /\ new.done = view.done /\ new.legacy = view.legacy
  BY <1>3, <1>4 DEF Database
<1>6. new.rows = 1..at
  BY <1>2, <1>5
<1>7. Sound(view)' /\ Sound(disk)'
  BY <1>1, <1>2, <1>5 DEF IInv, Sound
<1>8. Prefix(disk)'
  BY <1>1 DEF IInv, Prefix
<1>9. CASE at < version
  <2>1. stage' = "execute" /\ at' = at + 1 /\ at + 1 \in 1..version
    BY <1>1, <1>2, <1>3, <1>9
  <2>2. TypeOK'
    BY <1>1, <1>2, <1>3, <1>5, <2>1 DEF IInv, TypeOK
  <2>3. at' - 1 = at
    BY <2>1, <1>4
  <2>4. LoopAt'
    BY <1>1, <1>6, <2>1, <2>3 DEF LoopAt
  <2> QED
    BY <1>7, <1>8, <2>2, <2>4 DEF IInv
<1>10. CASE ~(at < version)
  <2>1. stage' = "commit" /\ UNCHANGED at /\ at = version
    BY <1>1, <1>2, <1>3, <1>10
  <2>2. TypeOK'
    BY <1>1, <1>5, <2>1 DEF IInv, TypeOK
  <2>3. LoopAt'
    BY <1>1, <1>6, <2>1 DEF LoopAt
  <2> QED
    BY <1>7, <1>8, <2>2, <2>3 DEF IInv
<1> QED
  BY <1>9, <1>10

\* The commit makes the whole list durable.
LEMMA CommitKeeps == ASSUME ListAssumption, IInv, Commit PROVE IInv'
<1>1. /\ stage = "commit" /\ stage' = "running" /\ disk' = view /\ open' = FALSE
      /\ UNCHANGED <<view, version, at>>
  BY DEF Commit
<1>2. view.rows = 1..version /\ version \in 0..N /\ N \in Nat
  BY <1>1 DEF IInv, LoopAt, TypeOK, ListAssumption
<1>3. TypeOK' /\ Sound(view)' /\ Sound(disk)' /\ LoopAt'
  BY <1>1, <1>2 DEF IInv, TypeOK, Sound, LoopAt
<1>4. Prefix(disk)'
  <2>1. version \in 0..version' /\ disk'.rows = 1..version
    BY <1>1, <1>2
  <2> QED
    BY <2>1 DEF Prefix
<1> QED
  BY <1>3, <1>4 DEF IInv

\* A crash leaves what was durable.
LEMMA CrashKeeps == ASSUME ListAssumption, IInv, Crash PROVE IInv'
<1>1. /\ stage' = "down" /\ view' = disk /\ open' = FALSE
      /\ UNCHANGED <<disk, version, at>>
  BY DEF Crash
<1>2. TypeOK' /\ Sound(view)' /\ Sound(disk)' /\ LoopAt'
  BY <1>1 DEF IInv, TypeOK, Sound, LoopAt
<1>3. Prefix(disk)'
  BY <1>1 DEF IInv, Prefix
<1> QED
  BY <1>2, <1>3 DEF IInv

\* Rows in an old form are only written before their rewrite is known.
LEMMA WriteLegacyKeeps == ASSUME ListAssumption, IInv, WriteLegacy PROVE IInv'
<1>1. PICK i \in Rewrites :
        i > version /\ disk' = [disk EXCEPT !.legacy = @ \cup {i}]
  BY DEF WriteLegacy
<1>2. stage = "running" /\ view' = disk' /\ UNCHANGED <<open, version, stage, at>>
  BY DEF WriteLegacy
<1>3. /\ disk.rows = 1..version /\ disk \in Database /\ ~open
      /\ N \in Nat /\ version \in 0..N /\ i \in 2..N
  BY <1>2 DEF IInv, LoopAt, TypeOK, ListAssumption
<1>4. /\ disk' \in Database /\ disk'.rows = disk.rows
      /\ disk'.done = disk.done /\ disk'.legacy = disk.legacy \cup {i}
  BY <1>1, <1>3 DEF Database
<1>5. i \notin disk.rows
  BY <1>1, <1>3
<1>6. Sound(disk)' /\ Sound(view)'
  BY <1>2, <1>4, <1>5 DEF IInv, Sound
<1>7. TypeOK'
  BY <1>2, <1>4 DEF IInv, TypeOK
<1>8. Prefix(disk)' /\ LoopAt'
  BY <1>2, <1>3, <1>4 DEF IInv, Prefix, LoopAt
<1> QED
  BY <1>6, <1>7, <1>8 DEF IInv

\* Every step keeps the invariant.
LEMMA NextIInv == ASSUME ListAssumption, IInv, [Next]_vars PROVE IInv'
<1>1. CASE UNCHANGED vars
  BY <1>1 DEF vars, IInv, TypeOK, Sound, Prefix, LoopAt
<1>2. CASE Next
  BY <1>2, StartKeeps, DefineKeeps, RewriteKeeps, RecordKeeps, CommitKeeps,
     CrashKeeps, WriteLegacyKeeps DEF Next, Migrate
<1> QED
  BY <1>1, <1>2

\* The invariant gives the three properties and the types.
LEMMA IInvImplies ==
    ASSUME ListAssumption, IInv
    PROVE  TypeOK /\ RecordedPrefix /\ TablesComeFirst /\ RunsMigrated
<1>1. N \in Nat /\ version \in 0..N
  BY DEF IInv, TypeOK, ListAssumption
<1>2. RecordedPrefix
  BY <1>1 DEF IInv, Sound, Prefix, RecordedPrefix
<1>3. TablesComeFirst
  <2>1. SUFFICES ASSUME stage = "execute", at \in Alters \cup Rewrites
                 PROVE  Needs[at] \in view.done
    BY DEF TablesComeFirst
  <2>2. view.rows = 1..(at - 1)
    BY <2>1 DEF IInv, LoopAt
  <2>3. Needs[at] \in 1..(at - 1)
    BY <2>1 DEF ListAssumption
  <2> QED
    BY <2>2, <2>3 DEF IInv, Sound
<1>4. RunsMigrated
  BY DEF IInv, LoopAt, Sound, RunsMigrated
<1> QED
  BY <1>2, <1>3, <1>4 DEF IInv

\* The inductive invariant holds throughout.
LEMMA AlwaysIInv == ASSUME ListAssumption PROVE Spec => []IInv
<1>1. Init => IInv
  BY InitIInv
<1>2. IInv /\ [Next]_vars => IInv'
  BY NextIInv
<1> QED
  BY <1>1, <1>2, PTL DEF Spec

\* Type correctness.
THEOREM TypeCorrect == ASSUME ListAssumption PROVE Spec => []TypeOK
<1>1. IInv => TypeOK
  BY IInvImplies
<1> QED
  BY <1>1, AlwaysIInv, PTL

\* The migration table always holds the ids of a prefix of the list whose
\* statements all took effect, whatever crashes and upgrades happen.
THEOREM RecordsCorrect == ASSUME ListAssumption PROVE Spec => []RecordedPrefix
<1>1. IInv => RecordedPrefix
  BY IInvImplies
<1> QED
  BY <1>1, AlwaysIInv, PTL

\* No restart ever meets an ALTER or UPDATE whose table is missing.
THEOREM TablesCorrect == ASSUME ListAssumption PROVE Spec => []TablesComeFirst
<1>1. IInv => TablesComeFirst
  BY IInvImplies
<1> QED
  BY <1>1, AlwaysIInv, PTL

\* A program that runs has every statement it knows applied, durably.
THEOREM RunningCorrect == ASSUME ListAssumption PROVE Spec => []RunsMigrated
<1>1. IInv => RunsMigrated
  BY IInvImplies
<1> QED
  BY <1>1, AlwaysIInv, PTL
=============================================================================
