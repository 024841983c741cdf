------------------------ MODULE TriggerEngine_proofs ------------------------
(***************************************************************************)
(* Safety of TriggerEngine for any number of triggers, any cooldowns and   *)
(* any length of the day, the second and the history.                      *)
(***************************************************************************)
EXTENDS TriggerEngine, SequenceTheorems, TLAPS

\* What a row that is not there, or on, implies for the ghosts.
RowInv ==
    \A t \in Trigger : /\ row[t] = "none" => fired[t] = Never
                       /\ row[t] \in {"none", "on"} => late[t] = 0

\* The trigger in the worker's hand: read, decided, recorded.
HandInv ==
    \A t \in Trigger :
        /\ read[t].on => row[t] # "none" /\ worker.pc # "idle"
        /\ Acting(t) => read[t].on
        /\ Acting(t) /\ Present(t) => fired[t] = worker.now
        /\ Acting(t) /\ worker.pc = "stamp" =>
              \E i \in DOMAIN history[t] : history[t][i] >= Stored(worker.now)

\* What the round read of a trigger that it has still to look at is as new as
\* its last firing.
CopyInv ==
    \A t \in Trigger :
        read[t].on /\ ~Acting(t) =>
            /\ fired[t] # Never /\ ~forgotten[t] => read[t].last >= Stored(fired[t])
            /\ row[t] # "on" => late[t] = 0

\* The inductive invariant.
IInv == /\ TypeOK /\ RowInv /\ HandInv /\ CopyInv
        /\ FiringIsRemembered /\ SwitchedOffStops

-----------------------------------------------------------------------------
\* The stamp drops less than a second.
LEMMA StoredBounds ==
    ASSUME TriggerAssumption, NEW x \in Nat
    PROVE  /\ Stored(x) \in Nat /\ Stored(x) <= x
           /\ x < Stored(x) + PerSecond
<1>1. PerSecond \in Nat /\ PerSecond > 0
  BY DEF TriggerAssumption
<1>2. x % PerSecond \in 0..(PerSecond - 1)
  BY <1>1
<1>3. x = PerSecond * (x \div PerSecond) + (x % PerSecond)
  BY <1>1
<1>4. x \div PerSecond \in Nat
  BY <1>1
<1>5. PerSecond * (x \div PerSecond) \in Nat
  BY <1>1, <1>4
<1> QED
  BY <1>1, <1>2, <1>3, <1>5 DEF Stored

\* The stamps of two times are in the order of the times.
LEMMA StoredMonotone ==
    ASSUME TriggerAssumption, NEW x \in Nat, NEW y \in Nat, x <= y
    PROVE  Stored(x) <= Stored(y)
<1> DEFINE q == x \div PerSecond
           r == y \div PerSecond
<1>1. PerSecond \in Nat /\ PerSecond > 0
  BY DEF TriggerAssumption
<1>2. /\ x % PerSecond \in 0..(PerSecond - 1) /\ y % PerSecond \in 0..(PerSecond - 1)
      /\ q \in Nat /\ r \in Nat
  BY <1>1
<1>3. x = PerSecond * q + (x % PerSecond) /\ y = PerSecond * r + (y % PerSecond)
  BY <1>1
<1>4. Stored(x) = PerSecond * q /\ Stored(y) = PerSecond * r
  <2>1. PerSecond * q \in Nat /\ PerSecond * r \in Nat
    BY <1>1, <1>2
  <2> HIDE DEF q, r
  <2> QED
    BY <1>1, <1>2, <1>3, <2>1 DEF Stored
<1> HIDE DEF q, r
<1>5. SUFFICES ASSUME q > r PROVE FALSE
  <2>1. q <= r => PerSecond * q <= PerSecond * r
    BY <1>1, <1>2
  <2> QED
    BY <1>2, <1>4, <2>1
<1>6. PerSecond * q >= PerSecond * (r + 1)
  BY <1>1, <1>2, <1>5
<1>7. PerSecond * (r + 1) = PerSecond * r + PerSecond
  BY <1>1, <1>2
<1>8. PerSecond * q \in Nat /\ PerSecond * r \in Nat
  BY <1>1, <1>2
<1> QED
  BY <1>1, <1>2, <1>3, <1>6, <1>7, <1>8

\* The row that was inserted survives the trim.
LEMMA NewestKeeps ==
    ASSUME TriggerAssumption, NEW s \in Seq(Time), NEW x \in Time
    PROVE  /\ Newest(Append(s, x)) \in Seq(Time)
           /\ \E i \in DOMAIN Newest(Append(s, x)) : Newest(Append(s, x))[i] = x
<1> DEFINE a == Append(s, x)
           f == IF Len(a) > HistoryLimit THEN Len(a) - HistoryLimit + 1 ELSE 1
<1>1. a \in Seq(Time) /\ Len(a) = Len(s) + 1 /\ a[Len(a)] = x /\ Len(s) \in Nat
  BY AppendProperties
<1>2. HistoryLimit \in Nat /\ HistoryLimit > 0
  BY DEF TriggerAssumption
<1>3. f \in 1..Len(a) /\ Len(a) \in 1..Len(a)
  BY <1>1, <1>2
<1>4. Newest(a) = SubSeq(a, f, Len(a))
  BY DEF Newest
<1> HIDE DEF a, f
<1>5. /\ SubSeq(a, f, Len(a)) \in Seq(Time)
      /\ Len(SubSeq(a, f, Len(a))) = Len(a) - f + 1
      /\ \A i \in 1..(Len(a) - f + 1) : SubSeq(a, f, Len(a))[i] = a[f + i - 1]
  BY <1>1, <1>3, SubSeqProperties
<1>6. /\ Len(a) - f + 1 \in 1..(Len(a) - f + 1)
      /\ f + (Len(a) - f + 1) - 1 = Len(a)
  BY <1>1, <1>3
<1>7. SubSeq(a, f, Len(a))[Len(a) - f + 1] = x
  BY <1>1, <1>5, <1>6
<1>8. DOMAIN SubSeq(a, f, Len(a)) = 1..(Len(a) - f + 1)
  BY <1>5
<1>9. Newest(a) \in Seq(Time) /\ \E i \in DOMAIN Newest(a) : Newest(a)[i] = x
  BY <1>4, <1>5, <1>6, <1>7, <1>8
<1> QED
  BY <1>9 DEF a

-----------------------------------------------------------------------------
\* What can be read off the type of the variables.
LEMMA Types ==
    ASSUME TriggerAssumption, TypeOK
    PROVE  /\ Never = -1 /\ MaxTime \in Nat /\ clock \in Nat /\ clock <= MaxTime
           /\ N \in Nat
           /\ worker.pc # "idle" =>
                 /\ worker \in [pc : {"scan", "act", "stamp"}, now : 0..clock, at : Trigger]
                 /\ InHand \in Trigger /\ InHand \in 1..N
                 /\ worker.now \in Nat /\ worker.now <= clock
           /\ worker.pc = "idle" => worker = Idle
           /\ tester.pc # "idle" =>
                 /\ tester \in [pc : {"act", "log"}, t : Trigger, now : 0..clock]
                 /\ tester.t \in Trigger
                 /\ tester.now \in Nat /\ tester.now <= clock
           /\ \A t \in Trigger : /\ fired[t] # Never => fired[t] \in Nat /\ fired[t] <= clock
                                 /\ last[t] \in Int /\ read[t].last \in Int
                                 /\ read[t].cool \in Nat
                                 /\ history[t] \in Seq(Time) /\ late[t] \in Nat
<1>1. Never = -1 /\ MaxTime \in Nat /\ N \in Nat /\ Cooldowns \subseteq Nat
  BY DEF TriggerAssumption, Never
<1>2. clock \in Nat /\ clock <= MaxTime
  BY <1>1 DEF TypeOK, Time
<1>3. ASSUME worker.pc # "idle"
      PROVE  /\ worker \in [pc : {"scan", "act", "stamp"}, now : 0..clock, at : Trigger]
             /\ InHand \in Trigger /\ InHand \in 1..N
             /\ worker.now \in Nat /\ worker.now <= clock
  <2>1. worker \in [pc : {"scan", "act", "stamp"}, now : 0..clock, at : Trigger]
    BY <1>3 DEF TypeOK, Idle
  <2> QED
    BY <1>2, <2>1 DEF InHand, Trigger
<1>4. worker.pc = "idle" => worker = Idle
  BY DEF TypeOK
<1>5. ASSUME tester.pc # "idle"
      PROVE  /\ tester \in [pc : {"act", "log"}, t : Trigger, now : 0..clock]
             /\ tester.t \in Trigger
             /\ tester.now \in Nat /\ tester.now <= clock
  <2>1. tester \in [pc : {"act", "log"}, t : Trigger, now : 0..clock]
    BY <1>5 DEF TypeOK, NoTest
  <2> QED
    BY <1>2, <2>1
<1>6. ASSUME NEW t \in Trigger
      PROVE  /\ fired[t] # Never => fired[t] \in Nat /\ fired[t] <= clock
             /\ last[t] \in Int /\ read[t].last \in Int
             /\ read[t].cool \in Nat
             /\ history[t] \in Seq(Time) /\ late[t] \in Nat
  <2>1. fired[t] # Never => fired[t] \in Nat /\ fired[t] <= clock
    BY <1>2 DEF TypeOK
  <2>2. last[t] \in Times /\ read[t] \in [on : BOOLEAN, cool : Cooldowns \cup {0}, last : Times]
        /\ history[t] \in Seq(Time) /\ late[t] \in Nat
    BY DEF TypeOK
  <2>3. Times \subseteq Int
    BY <1>1 DEF Times, Time
  <2>4. read[t].last \in Times /\ read[t].cool \in Cooldowns \cup {0}
    BY <2>2
  <2>5. Cooldowns \cup {0} \subseteq Nat
    BY <1>1
  <2> QED
    BY <2>1, <2>2, <2>3, <2>4, <2>5
<1> QED
  BY <1>1, <1>2, <1>3, <1>4, <1>5, <1>6

\* A stamp is a time.
LEMMA StoredTime ==
    ASSUME TriggerAssumption, NEW x \in Nat, x <= MaxTime
    PROVE  Stored(x) \in Time /\ Stored(x) \in Times
<1>1. Stored(x) \in Nat /\ Stored(x) <= x
  BY StoredBounds
<1>2. MaxTime \in Nat
  BY DEF TriggerAssumption
<1> QED
  BY <1>1, <1>2 DEF Time, Times

\* The initial states.
LEMMA InitIInv == ASSUME TriggerAssumption, Init PROVE IInv
<1>1. TypeOK
  BY DEF TriggerAssumption, Init, TypeOK, Time, Times, Never, Nothing, Blank, Idle, NoTest
<1>2. \A t \in Trigger : ~read[t].on /\ ~Acting(t) /\ fired[t] = Never /\ late[t] = 0
  BY DEF Init, Nothing, Blank, Acting, Idle
<1>3. RowInv /\ HandInv /\ CopyInv /\ FiringIsRemembered /\ SwitchedOffStops
  BY <1>2 DEF RowInv, HandInv, CopyInv, FiringIsRemembered, SwitchedOffStops
<1> QED
  BY <1>1, <1>3 DEF IInv

\* What depends on the tables, the worker and the ghosts alone.
LEMMA Elsewhere ==
    ASSUME IInv, TypeOK', UNCHANGED <<tables, worker, read, ghosts>>
    PROVE  IInv'
<1> USE DEF tables, ghosts
<1>1. \A t \in Trigger : Acting(t)' = Acting(t) /\ Present(t)' = Present(t)
  BY DEF Acting, Present, InHand
<1>2. RowInv' /\ CopyInv' /\ SwitchedOffStops'
  BY <1>1 DEF IInv, RowInv, CopyInv, SwitchedOffStops
<1>3. HandInv' /\ FiringIsRemembered'
  BY <1>1 DEF IInv, HandInv, FiringIsRemembered
<1> QED
  BY <1>2, <1>3 DEF IInv

\* Steps that touch neither: the clock, the start and the failure of a test.
LEMMA AsideKeeps ==
    ASSUME TriggerAssumption, IInv,
           Tick \/ (\E t \in Trigger : TestStart(t)) \/ TestFails
    PROVE  IInv'
<1>1. UNCHANGED <<tables, worker, read, ghosts>>
  BY DEF Tick, TestStart, TestFails
<1>2. TypeOK'
  <2>1. CASE Tick
    BY <2>1, Types DEF IInv, TypeOK, Tick, Time, Times, tables, ghosts
  <2>2. CASE \E t \in Trigger : TestStart(t)
    <3>1. PICK t \in Trigger : tester' = [pc |-> "act", t |-> t, now |-> clock]
                              /\ UNCHANGED <<clock, tables, worker, read, ghosts>>
      BY <2>2 DEF TestStart
    <3>2. TypeOK /\ clock \in 0..clock
      BY Types DEF IInv
    <3>3. tester' \in [pc : {"act", "log"}, t : Trigger, now : 0..clock]
      BY <3>1, <3>2
    <3> QED
      BY <3>1, <3>2, <3>3 DEF TypeOK, tables, ghosts
  <2>3. CASE TestFails
    BY <2>3 DEF IInv, TypeOK, TestFails, tables, ghosts
  <2> QED
    BY <2>1, <2>2, <2>3
<1> QED
  BY <1>1, <1>2, Elsewhere

-----------------------------------------------------------------------------
\* The round begins with a copy of what is remembered.
LEMMA StartKeeps == ASSUME TriggerAssumption, IInv, StartRound PROVE IInv'
<1> USE DEF tables, ghosts
<1>1. /\ worker.pc = "idle" /\ worker' = [pc |-> "scan", now |-> clock, at |-> 1]
      /\ read' = Snapshot /\ N > 0
      /\ UNCHANGED <<clock, row, cool, last, history, tester, fired, forgotten, late>>
  BY DEF StartRound
<1>2. \A t \in Trigger : /\ ~Acting(t) /\ ~Acting(t)' /\ Present(t)' = Present(t)
                         /\ read'[t].on => row[t] = "on" /\ read'[t].last = last[t]
  BY <1>1 DEF Snapshot, Blank, Acting, Present
<1>3. TypeOK'
  <2>1. TypeOK /\ 1 \in Trigger /\ clock \in 0..clock
    <3>1. TypeOK
      BY DEF IInv
    <3>2. N \in Nat /\ clock \in Nat
      BY <3>1, Types
    <3> QED
      BY <1>1, <3>1, <3>2 DEF Trigger
  <2>2. worker' \in [pc : {"scan", "act", "stamp"}, now : 0..clock, at : Trigger]
    BY <1>1, <2>1
  <2>3. Snapshot \in [Trigger -> [on : BOOLEAN, cool : Cooldowns \cup {0}, last : Times]]
    BY <2>1 DEF TypeOK, Snapshot, Blank, Times, Never
  <2> QED
    BY <1>1, <2>1, <2>2, <2>3 DEF TypeOK
<1>4. RowInv' /\ SwitchedOffStops'
  BY <1>1 DEF IInv, RowInv, SwitchedOffStops
<1>5. HandInv'
  BY <1>1, <1>2 DEF HandInv
<1>6. FiringIsRemembered'
  BY <1>1, <1>2 DEF IInv, FiringIsRemembered
<1>7. CopyInv'
  BY <1>1, <1>2 DEF IInv, CopyInv, FiringIsRemembered, Present
<1> QED
  BY <1>3, <1>4, <1>5, <1>6, <1>7 DEF IInv

\* What a step to the next row, or the end of the round, does to the worker.
LEMMA AdvanceFacts ==
    ASSUME TriggerAssumption, TypeOK, worker.pc # "idle", Advance \/ End
    PROVE  /\ worker' \in [pc : {"scan"}, now : 0..clock, at : Trigger] \cup {Idle}
           /\ worker'.pc \in {"scan", "idle"}
           /\ read' \in [Trigger -> [on : BOOLEAN, cool : Cooldowns \cup {0}, last : Times]]
           /\ \A t \in Trigger :
                 /\ ~Acting(t)'
                 /\ read'[t].on => /\ read'[t] = read[t] /\ worker'.pc # "idle"
                                   /\ t # InHand
<1>1. /\ worker \in [pc : {"scan", "act", "stamp"}, now : 0..clock, at : Trigger]
      /\ InHand \in 1..N /\ N \in Nat
  BY Types
<1>2. CASE End
  <2>1. \A t \in Trigger : read'[t] = Blank
    BY <1>2 DEF End, Nothing
  <2>2. worker' = Idle
    BY <1>2 DEF End
  <2>3. read' \in [Trigger -> [on : BOOLEAN, cool : Cooldowns \cup {0}, last : Times]]
    BY <1>2 DEF End, Nothing, Blank, Times, Never
  <2> QED
    BY <2>1, <2>2, <2>3 DEF Idle, Blank, Acting
<1>3. CASE ~End /\ Advance
  <2>1. /\ InHand # N
        /\ worker' = [pc |-> "scan", now |-> worker.now, at |-> InHand + 1]
        /\ read' = [read EXCEPT ![InHand] = Blank]
    BY <1>3 DEF Advance
  <2>2. worker' \in [pc : {"scan"}, now : 0..clock, at : Trigger]
    BY <1>1, <2>1 DEF InHand, Trigger
  <2>3. read' \in [Trigger -> [on : BOOLEAN, cool : Cooldowns \cup {0}, last : Times]]
    BY <2>1 DEF TypeOK, Blank, Times, Never
  <2>4. \A t \in Trigger : read'[t] = IF t = InHand THEN Blank ELSE read[t]
    BY <2>1 DEF TypeOK
  <2> QED
    BY <2>2, <2>3, <2>4 DEF Acting, Blank
<1> QED
  BY <1>2, <1>3

-----------------------------------------------------------------------------
\* The round leaves a row without firing, or ends.
LEMMA LeaveKeeps ==
    ASSUME TriggerAssumption, IInv, PassOver \/ Abort \/ Crash
    PROVE  IInv'
<1> USE DEF tables, ghosts
<1>1. /\ UNCHANGED <<clock, row, cool, last, history, fired, late>>
      /\ tester' = tester \/ tester' = NoTest
      /\ worker.pc # "idle" => Advance \/ End
      /\ worker.pc = "idle" => End
      /\ \A t \in Trigger : /\ forgotten'[t] \in BOOLEAN
                            /\ ~forgotten'[t] => ~forgotten[t] /\ ~Acting(t)
      /\ forgotten' \in [Trigger -> BOOLEAN]
  <2>1. CASE PassOver
    BY <2>1 DEF PassOver, IInv, TypeOK, Acting
  <2>2. CASE Abort
    BY <2>2 DEF Abort, IInv, TypeOK, Acting
  <2>3. CASE Crash
    BY <2>3 DEF Crash, IInv, TypeOK, Acting
  <2> QED
    BY <2>1, <2>2, <2>3
<1>2. /\ worker' \in [pc : {"scan"}, now : 0..clock, at : Trigger] \cup {Idle}
      /\ read' \in [Trigger -> [on : BOOLEAN, cool : Cooldowns \cup {0}, last : Times]]
      /\ \A t \in Trigger :
            /\ ~Acting(t)'
            /\ read'[t].on => /\ read'[t] = read[t] /\ worker'.pc # "idle"
                              /\ worker.pc # "idle" /\ t # InHand
  <2>1. CASE worker.pc # "idle"
    BY <1>1, <2>1, AdvanceFacts DEF IInv
  <2>2. CASE worker.pc = "idle"
    <3>1. worker' = Idle /\ read' = Nothing
      BY <1>1, <2>2 DEF End
    <3>2. \A t \in Trigger : read'[t] = Blank
      BY <3>1 DEF Nothing
    <3>3. read' \in [Trigger -> [on : BOOLEAN, cool : Cooldowns \cup {0}, last : Times]]
      BY <3>1 DEF Nothing, Blank, Times, Never
    <3> QED
      BY <3>1, <3>2, <3>3 DEF Idle, Blank, Acting
  <2> QED
    BY <2>1, <2>2
<1>3. TypeOK'
  BY <1>1, <1>2 DEF IInv, TypeOK
<1>4. RowInv' /\ SwitchedOffStops'
  BY <1>1 DEF IInv, RowInv, SwitchedOffStops
<1>5. HandInv'
  BY <1>1, <1>2 DEF IInv, HandInv
<1>6. FiringIsRemembered'
  BY <1>1, <1>2 DEF IInv, FiringIsRemembered, Present
<1>7. CopyInv'
  BY <1>1, <1>2 DEF IInv, CopyInv, Acting
<1> QED
  BY <1>3, <1>4, <1>5, <1>6, <1>7 DEF IInv

\* The decision to fire, which the worker has to remember from now on.
LEMMA FireKeeps == ASSUME TriggerAssumption, IInv, Fire PROVE IInv'
<1> USE DEF tables, ghosts
<1>1. /\ worker.pc = "scan" /\ read[InHand].on
      /\ worker' = [worker EXCEPT !.pc = "act"] /\ read' = read
      /\ fired' = [fired EXCEPT ![InHand] = worker.now]
      /\ forgotten' = [forgotten EXCEPT ![InHand] = FALSE]
      /\ late' = [late EXCEPT ![InHand] = IF row[InHand] = "on" THEN 0 ELSE @ + 1]
      /\ UNCHANGED <<clock, row, cool, last, history, tester>>
  BY DEF Fire, Decide, To
<1>2. /\ worker \in [pc : {"scan", "act", "stamp"}, now : 0..clock, at : Trigger]
      /\ InHand \in Trigger /\ worker.now \in 0..clock
      /\ \A t \in Trigger : late[t] \in Nat
  BY <1>1, Types DEF IInv
<1>3. /\ worker'.pc = "act" /\ worker'.now = worker.now /\ InHand' = InHand
      /\ worker' \in [pc : {"scan", "act", "stamp"}, now : 0..clock, at : Trigger]
      /\ \A t \in Trigger : ~Acting(t) /\ (Acting(t)' <=> t = InHand)
  BY <1>1, <1>2 DEF InHand, Acting
<1>4. \A t \in Trigger :
         /\ fired'[t] = IF t = InHand THEN worker.now ELSE fired[t]
         /\ forgotten'[t] = IF t = InHand THEN FALSE ELSE forgotten[t]
         /\ late'[t] = IF t # InHand THEN late[t]
                       ELSE IF row[t] = "on" THEN 0 ELSE late[t] + 1
  BY <1>1 DEF IInv, TypeOK
<1>5. TypeOK'
  <2>1. /\ fired' \in [Trigger -> (0..clock) \cup {Never}]
        /\ forgotten' \in [Trigger -> BOOLEAN] /\ late' \in [Trigger -> Nat]
    BY <1>1, <1>2 DEF IInv, TypeOK
  <2> QED
    BY <1>1, <1>3, <2>1 DEF IInv, TypeOK
<1>6. row[InHand] # "none" /\ (row[InHand] # "on" => late[InHand] = 0)
  BY <1>1, <1>2, <1>3 DEF IInv, HandInv, CopyInv
<1>7. RowInv' /\ SwitchedOffStops'
  BY <1>1, <1>4, <1>6 DEF IInv, RowInv, SwitchedOffStops
<1>8. HandInv'
  BY <1>1, <1>3, <1>4 DEF IInv, HandInv
<1>9. FiringIsRemembered'
  BY <1>1, <1>3, <1>4 DEF IInv, FiringIsRemembered, Present
<1>10. CopyInv'
  BY <1>1, <1>3, <1>4 DEF IInv, CopyInv
<1> QED
  BY <1>5, <1>7, <1>8, <1>9, <1>10 DEF IInv

\* What a new row of the history shows.
LEMMA HistoryFacts ==
    ASSUME TriggerAssumption, TypeOK, NEW t \in Trigger, AddHistory(t)
    PROVE  /\ history' \in [Trigger -> Seq(Time)]
           /\ \A s \in Trigger : s # t => history'[s] = history[s]
           /\ \E i \in DOMAIN history'[t] :
                 \A x \in Nat : x <= clock => history'[t][i] >= Stored(x)
<1>1. /\ history' = [history EXCEPT ![t] = Newest(Append(history[t], Stored(clock)))]
      /\ history[t] \in Seq(Time) /\ clock \in Nat /\ clock <= MaxTime
  BY Types DEF AddHistory
<1>2. Stored(clock) \in Time /\ Stored(clock) \in Nat
  BY <1>1, StoredTime, StoredBounds
<1>3. /\ Newest(Append(history[t], Stored(clock))) \in Seq(Time)
      /\ \E i \in DOMAIN Newest(Append(history[t], Stored(clock))) :
            Newest(Append(history[t], Stored(clock)))[i] = Stored(clock)
  BY <1>1, <1>2, NewestKeeps
<1>4. history'[t] = Newest(Append(history[t], Stored(clock)))
  BY <1>1 DEF TypeOK
<1>5. \A x \in Nat : x <= clock => Stored(clock) >= Stored(x)
  BY <1>1, StoredMonotone
<1> QED
  BY <1>1, <1>3, <1>4, <1>5 DEF TypeOK

\* The firing is in the history.
LEMMA RecordKeeps == ASSUME TriggerAssumption, IInv, Record PROVE IInv'
<1> USE DEF tables, ghosts
<1>1. /\ worker.pc = "act" /\ AddHistory(InHand)
      /\ worker' = [worker EXCEPT !.pc = "stamp"] /\ read' = read
      /\ UNCHANGED <<clock, row, cool, last, tester, fired, forgotten, late>>
  BY DEF Record, To
<1>2. /\ worker \in [pc : {"scan", "act", "stamp"}, now : 0..clock, at : Trigger]
      /\ InHand \in Trigger /\ worker.now \in Nat /\ worker.now <= clock
  BY <1>1, Types DEF IInv
<1>3. /\ worker'.pc = "stamp" /\ worker'.now = worker.now /\ InHand' = InHand
      /\ worker' \in [pc : {"scan", "act", "stamp"}, now : 0..clock, at : Trigger]
      /\ \A t \in Trigger : (Acting(t) <=> t = InHand) /\ (Acting(t)' <=> t = InHand)
  BY <1>1, <1>2 DEF InHand, Acting
<1>4. /\ history' \in [Trigger -> Seq(Time)]
      /\ \A s \in Trigger : s # InHand => history'[s] = history[s]
      /\ \E i \in DOMAIN history'[InHand] : history'[InHand][i] >= Stored(worker.now)
  BY <1>1, <1>2, HistoryFacts DEF IInv
<1>5. TypeOK'
  BY <1>1, <1>3, <1>4 DEF IInv, TypeOK
<1>6. RowInv' /\ SwitchedOffStops'
  BY <1>1 DEF IInv, RowInv, SwitchedOffStops
<1>7. HandInv'
  BY <1>1, <1>3, <1>4 DEF IInv, HandInv, Present
<1>8. FiringIsRemembered'
  BY <1>1, <1>3, <1>4 DEF IInv, FiringIsRemembered, Present
<1>9. CopyInv'
  BY <1>1, <1>3 DEF IInv, CopyInv
<1> QED
  BY <1>5, <1>6, <1>7, <1>8, <1>9 DEF IInv

\* The table says that the trigger fired.
LEMMA StampKeeps == ASSUME TriggerAssumption, IInv, Stamp PROVE IInv'
<1> USE DEF tables, ghosts
<1>1. /\ worker.pc = "stamp" /\ UpdateLast(InHand, worker.now) /\ Advance
      /\ forgotten' = [forgotten EXCEPT ![InHand] = FALSE]
      /\ UNCHANGED <<clock, row, cool, history, tester, fired, late>>
  BY DEF Stamp
<1>2. /\ InHand \in Trigger /\ worker.now \in Nat /\ worker.now <= clock
      /\ clock <= MaxTime /\ clock \in Nat /\ MaxTime \in Nat
  BY <1>1, Types DEF IInv
<1>3. /\ worker' \in [pc : {"scan"}, now : 0..clock, at : Trigger] \cup {Idle}
      /\ read' \in [Trigger -> [on : BOOLEAN, cool : Cooldowns \cup {0}, last : Times]]
      /\ \A t \in Trigger :
            /\ ~Acting(t)'
            /\ read'[t].on => read'[t] = read[t] /\ worker'.pc # "idle" /\ t # InHand
  BY <1>1, AdvanceFacts DEF IInv
<1>4. Stored(worker.now) \in Times
  BY <1>2, StoredTime
<1>5. /\ last' \in [Trigger -> Times]
      /\ \A t \in Trigger :
            last'[t] = IF t = InHand /\ Present(t) THEN Stored(worker.now) ELSE last[t]
  BY <1>1, <1>2, <1>4 DEF UpdateLast, IInv, TypeOK
<1>6. /\ forgotten' \in [Trigger -> BOOLEAN]
      /\ \A t \in Trigger : forgotten'[t] = IF t = InHand THEN FALSE ELSE forgotten[t]
  BY <1>1 DEF IInv, TypeOK
<1>7. TypeOK'
  BY <1>1, <1>3, <1>5, <1>6 DEF IInv, TypeOK
<1>8. RowInv' /\ SwitchedOffStops'
  BY <1>1 DEF IInv, RowInv, SwitchedOffStops
<1>9. HandInv'
  BY <1>1, <1>3 DEF IInv, HandInv
<1>10. \A t \in Trigger : Acting(t) <=> t = InHand
  BY <1>1 DEF Acting
<1>11. FiringIsRemembered'
  <2>1. Stored(worker.now) \in Nat
    BY <1>2, StoredBounds
  <2> SUFFICES ASSUME NEW t \in Trigger,
                      Present(t), fired[t] # Never, ~forgotten'[t]
               PROVE  /\ last'[t] >= Stored(fired[t])
                      /\ \E i \in DOMAIN history[t] : history[t][i] >= Stored(fired[t])
    BY <1>1 DEF FiringIsRemembered, Present
  <2>2. CASE t = InHand
    BY <1>1, <1>5, <1>10, <2>1, <2>2 DEF IInv, HandInv
  <2>3. CASE t # InHand
    BY <1>5, <1>6, <1>10, <2>3 DEF IInv, FiringIsRemembered
  <2> QED
    BY <2>2, <2>3
<1>12. CopyInv'
  BY <1>1, <1>3, <1>6, <1>10 DEF IInv, CopyInv
<1> QED
  BY <1>7, <1>8, <1>9, <1>11, <1>12 DEF IInv

-----------------------------------------------------------------------------
\* An edit leaves the time of the last firing as it is.
LEMMA SaveKeeps ==
    ASSUME TriggerAssumption, IInv, NEW t \in Trigger, SaveNew(t) \/ Save(t)
    PROVE  IInv'
<1> USE DEF tables, ghosts
<1>1. PICK s \in {"on", "off"}, c \in Cooldowns :
         /\ row' = [row EXCEPT ![t] = s] /\ cool' = [cool EXCEPT ![t] = c]
         /\ late' = IF Present(t) THEN [late EXCEPT ![t] = IF s = "on" THEN 0 ELSE @]
                                  ELSE late
  BY DEF SaveNew, Save, Present
<1>2. /\ UNCHANGED <<clock, last, history, worker, read, tester, fired, forgotten>>
      /\ row[t] \in {"none", "on", "off"}
  BY DEF SaveNew, Save, Present
<1>3. /\ row' \in [Trigger -> {"none", "on", "off", "deleted"}]
      /\ cool' \in [Trigger -> Cooldowns]
      /\ \A u \in Trigger : row'[u] = IF u = t THEN s ELSE row[u]
  BY <1>1 DEF IInv, TypeOK
<1>4. /\ late' \in [Trigger -> Nat]
      /\ \A u \in Trigger : late'[u] = IF u = t /\ s = "on" /\ Present(t) THEN 0 ELSE late[u]
  BY <1>1 DEF IInv, TypeOK
<1>5. TypeOK'
  BY <1>2, <1>3, <1>4 DEF IInv, TypeOK
<1>6. \A u \in Trigger : Acting(u)' = Acting(u)
  BY <1>2 DEF Acting, InHand
<1>7. ~Present(t) => row[t] = "none" /\ fired[t] = Never /\ late[t] = 0
  BY <1>2 DEF Present, IInv, RowInv
<1>8. RowInv' /\ SwitchedOffStops'
  BY <1>2, <1>3, <1>4, <1>7 DEF IInv, RowInv, SwitchedOffStops
<1>9. HandInv'
  <2>1. ~Present(t) => ~read[t].on /\ ~Acting(t)
    BY <1>7 DEF IInv, HandInv
  <2>2. \A u \in Trigger : u # t => Present(u)' = Present(u)
    BY <1>3 DEF Present
  <2> QED
    BY <1>2, <1>3, <1>6, <2>1, <2>2 DEF IInv, HandInv
<1>10. FiringIsRemembered'
  <2>1. \A u \in Trigger : u # t => Present(u)' = Present(u)
    BY <1>3 DEF Present
  <2> QED
    BY <1>2, <1>6, <1>7, <2>1 DEF IInv, FiringIsRemembered
<1>11. CopyInv'
  <2>1. row[t] = "on" => late[t] = 0
    BY DEF IInv, RowInv
  <2> QED
    BY <1>2, <1>3, <1>4, <1>6, <1>7, <2>1 DEF IInv, CopyInv
<1> QED
  BY <1>5, <1>8, <1>9, <1>10, <1>11 DEF IInv

\* A deleted row has nothing to remember.
LEMMA DeleteKeeps ==
    ASSUME TriggerAssumption, IInv, NEW t \in Trigger, Delete(t)
    PROVE  IInv'
<1> USE DEF tables, ghosts
<1>1. /\ Present(t) /\ row' = [row EXCEPT ![t] = "deleted"]
      /\ last' = [last EXCEPT ![t] = Never] /\ fired' = [fired EXCEPT ![t] = Never]
      /\ UNCHANGED <<clock, cool, history, worker, read, tester, forgotten, late>>
  BY DEF Delete
<1>2. /\ row' \in [Trigger -> {"none", "on", "off", "deleted"}]
      /\ last' \in [Trigger -> Times]
      /\ fired' \in [Trigger -> (0..clock) \cup {Never}]
      /\ \A u \in Trigger :
            /\ row'[u] = IF u = t THEN "deleted" ELSE row[u]
            /\ last'[u] = IF u = t THEN Never ELSE last[u]
            /\ fired'[u] = IF u = t THEN Never ELSE fired[u]
  BY <1>1 DEF IInv, TypeOK, Times
<1>3. TypeOK'
  BY <1>1, <1>2 DEF IInv, TypeOK
<1>4. \A u \in Trigger : /\ Acting(u)' <=> Acting(u)
                         /\ Present(u)' <=> Present(u) /\ u # t
                         /\ row[u] # "none" => row'[u] # "none"
                         /\ u # t => fired'[u] = fired[u]
  BY <1>1, <1>2 DEF Acting, InHand, Present
<1>5. RowInv' /\ SwitchedOffStops'
  BY <1>1, <1>2 DEF IInv, RowInv, SwitchedOffStops
<1>6. HandInv'
  <2>1. \A u \in Trigger : /\ read[u].on => row'[u] # "none" /\ worker.pc # "idle"
                           /\ Acting(u)' => read[u].on
                           /\ Acting(u)' /\ Present(u)' => fired'[u] = worker.now
    BY <1>4 DEF IInv, HandInv
  <2>2. \A u \in Trigger : Acting(u)' /\ worker.pc = "stamp" =>
           \E i \in DOMAIN history[u] : history[u][i] >= Stored(worker.now)
    BY <1>4 DEF IInv, HandInv
  <2> QED
    BY <1>1, <2>1, <2>2 DEF HandInv
<1>7. FiringIsRemembered'
  BY <1>1, <1>2, <1>4 DEF IInv, FiringIsRemembered
<1>8. CopyInv'
  <2>1. row[t] = "on" => late[t] = 0
    BY DEF IInv, RowInv
  <2> QED
    BY <1>1, <1>2, <1>4, <2>1 DEF IInv, CopyInv
<1> QED
  BY <1>3, <1>5, <1>6, <1>7, <1>8 DEF IInv

\* The stamp of a test: older than that of a firing, it is the test's doing.
LEMMA TestStampKeeps == ASSUME TriggerAssumption, IInv, TestStamp PROVE IInv'
<1> USE DEF tables, ghosts
<1> DEFINE t == tester.t
<1>1. /\ tester.pc = "act" /\ UpdateLast(t, tester.now)
      /\ forgotten' = [forgotten EXCEPT ![t] =
                          (@ \/ Stored(tester.now) < Stored(fired[t]))]
      /\ tester' = [tester EXCEPT !.pc = "log"]
      /\ UNCHANGED <<clock, row, cool, history, worker, read, fired, late>>
  BY DEF TestStamp
<1>2. /\ tester \in [pc : {"act", "log"}, t : Trigger, now : 0..clock]
      /\ t \in Trigger /\ tester.now \in Nat /\ tester.now <= clock
      /\ clock <= MaxTime /\ clock \in Nat /\ MaxTime \in Nat
  BY <1>1, Types DEF IInv
<1>3. Stored(tester.now) \in Times /\ Stored(tester.now) \in Nat
  BY <1>2, StoredTime, StoredBounds
<1>4. tester' \in [pc : {"act", "log"}, t : Trigger, now : 0..clock]
  BY <1>1, <1>2
<1>5. /\ last' \in [Trigger -> Times]
      /\ \A u \in Trigger :
            last'[u] = IF u = t /\ Present(t) THEN Stored(tester.now) ELSE last[u]
  BY <1>1, <1>2, <1>3 DEF UpdateLast, IInv, TypeOK
<1>6. \A u \in Trigger :
         forgotten'[u] = IF u = t
                         THEN forgotten[t] \/ Stored(tester.now) < Stored(fired[t])
                         ELSE forgotten[u]
  BY <1>1 DEF IInv, TypeOK
<1>7. forgotten' \in [Trigger -> BOOLEAN]
  <2>1. (forgotten[t] \/ Stored(tester.now) < Stored(fired[t])) \in BOOLEAN
    OBVIOUS
  <2> QED
    BY <1>1, <1>2, <2>1 DEF IInv, TypeOK
<1>8. TypeOK'
  BY <1>1, <1>4, <1>5, <1>7 DEF IInv, TypeOK
<1>9. \A u \in Trigger : Acting(u)' = Acting(u) /\ Present(u)' = Present(u)
  BY <1>1 DEF Acting, InHand, Present
<1>10. RowInv' /\ SwitchedOffStops'
  BY <1>1 DEF IInv, RowInv, SwitchedOffStops
<1>11. HandInv'
  BY <1>1, <1>9 DEF IInv, HandInv
<1>12. \A u \in Trigger : ~forgotten'[u] => ~forgotten[u]
  BY <1>6
<1>13. FiringIsRemembered'
  <2> SUFFICES ASSUME NEW u \in Trigger,
                      Present(u), fired[u] # Never, ~Acting(u), ~forgotten'[u]
               PROVE  /\ last'[u] >= Stored(fired[u])
                      /\ \E i \in DOMAIN history[u] : history[u][i] >= Stored(fired[u])
    BY <1>1, <1>9 DEF FiringIsRemembered
  <2>1. /\ last[u] >= Stored(fired[u])
        /\ \E i \in DOMAIN history[u] : history[u][i] >= Stored(fired[u])
    BY <1>12 DEF IInv, FiringIsRemembered
  <2>2. fired[u] \in Nat
    BY Types DEF IInv
  <2>3. Stored(fired[u]) \in Nat
    BY <2>2, StoredBounds
  <2> HIDE DEF t
  <2>4. u = t => Stored(tester.now) >= Stored(fired[u])
    <3>1. u = t => ~(Stored(tester.now) < Stored(fired[u]))
      BY <1>6
    <3> QED
      BY <1>3, <2>3, <3>1
  <2> QED
    BY <1>5, <2>1, <2>4
<1>14. CopyInv'
  BY <1>1, <1>9, <1>12 DEF IInv, CopyInv
<1> QED
  BY <1>8, <1>10, <1>11, <1>13, <1>14 DEF IInv

\* The history of a test.
LEMMA TestLogKeeps == ASSUME TriggerAssumption, IInv, TestLog PROVE IInv'
<1> USE DEF tables, ghosts
<1> DEFINE t == tester.t
<1>1. /\ tester.pc = "log" /\ AddHistory(t) /\ tester' = NoTest
      /\ UNCHANGED <<clock, row, cool, last, worker, read, fired, forgotten, late>>
  BY DEF TestLog
<1>2. t \in Trigger
  BY <1>1, Types DEF IInv
<1>3. /\ history' \in [Trigger -> Seq(Time)]
      /\ \A s \in Trigger : s # t => history'[s] = history[s]
      /\ \E i \in DOMAIN history'[t] :
            \A x \in Nat : x <= clock => history'[t][i] >= Stored(x)
  BY <1>1, <1>2, HistoryFacts DEF IInv
<1> HIDE DEF t
<1>4. TypeOK'
  BY <1>1, <1>3 DEF IInv, TypeOK
<1>5. \A u \in Trigger : Acting(u)' = Acting(u) /\ Present(u)' = Present(u)
  BY <1>1 DEF Acting, InHand, Present
<1>6. RowInv' /\ SwitchedOffStops' /\ CopyInv'
  BY <1>1, <1>5 DEF IInv, RowInv, SwitchedOffStops, CopyInv
<1>7. worker.pc # "idle" => worker.now \in Nat /\ worker.now <= clock
  BY Types DEF IInv
<1>8. HandInv'
  <2>1. \A u \in Trigger : Acting(u) => worker.pc # "idle"
    BY DEF Acting
  <2> QED
    BY <1>1, <1>3, <1>5, <1>7, <2>1 DEF IInv, HandInv
<1>9. FiringIsRemembered'
  <2>1. \A u \in Trigger : fired[u] # Never => fired[u] \in Nat /\ fired[u] <= clock
    BY Types DEF IInv
  <2> QED
    BY <1>1, <1>3, <1>5, <2>1 DEF IInv, FiringIsRemembered
<1> QED
  BY <1>4, <1>6, <1>8, <1>9 DEF IInv

-----------------------------------------------------------------------------
\* A step that changes nothing.
LEMMA StutterKeeps == ASSUME IInv, UNCHANGED vars PROVE IInv'
<1>1. UNCHANGED <<tables, worker, read, ghosts, clock, tester>>
  BY DEF vars
<1>2. TypeOK'
  BY <1>1 DEF IInv, TypeOK, tables, ghosts
<1> QED
  BY <1>1, <1>2, Elsewhere

\* Every step preserves the invariant.
LEMMA NextIInv == ASSUME TriggerAssumption, IInv, [Next]_vars PROVE IInv'
<1>1. CASE Tick \/ TestFails \/ \E t \in Edited : TestStart(t)
  BY <1>1, AsideKeeps DEF TriggerAssumption
<1>2. CASE StartRound
  BY <1>2, StartKeeps
<1>3. CASE PassOver \/ Abort \/ Crash
  BY <1>3, LeaveKeeps
<1>4. CASE Fire
  BY <1>4, FireKeeps
<1>5. CASE Record
  BY <1>5, RecordKeeps
<1>6. CASE Stamp
  BY <1>6, StampKeeps
<1>7. CASE (\E t \in Trigger : SaveNew(t)) \/ \E t \in Edited : Save(t)
  BY <1>7, SaveKeeps DEF TriggerAssumption
<1>8. CASE \E t \in Edited : Delete(t)
  BY <1>8, DeleteKeeps DEF TriggerAssumption
<1>9. CASE TestStamp
  BY <1>9, TestStampKeeps
<1>10. CASE TestLog
  BY <1>10, TestLogKeeps
<1>11. CASE UNCHANGED vars
  BY <1>11, StutterKeeps
<1> QED
  BY <1>1, <1>2, <1>3, <1>4, <1>5, <1>6, <1>7, <1>8, <1>9, <1>10, <1>11
     DEF Next, Round, Web

\* The later firing is the cooldown after the earlier one.
LEMMA FireIsApart ==
    ASSUME TriggerAssumption, IInv, Fire, NEW t \in Trigger,
           fired'[t] # fired[t], fired[t] # Never, ~forgotten[t]
    PROVE  fired'[t] - fired[t] > (read[t].cool - 1) * PerSecond
<1>1. /\ worker.pc = "scan" /\ read[InHand].on
      /\ CooledDown(read[InHand], worker.now)
      /\ fired' = [fired EXCEPT ![InHand] = worker.now]
  BY DEF Fire, Decide
<1>2. t = InHand /\ fired'[t] = worker.now
  BY <1>1 DEF IInv, TypeOK
<1>3. ~Acting(t)
  BY <1>1 DEF Acting
<1>4. /\ fired[t] \in Nat /\ worker.now \in Nat /\ read[t].last \in Int
      /\ read[t].cool \in Nat
  BY <1>1, Types DEF IInv
<1>5. read[t].last >= Stored(fired[t])
  BY <1>1, <1>2, <1>3 DEF IInv, CopyInv
<1>6. Stored(fired[t]) \in Nat /\ fired[t] < Stored(fired[t]) + PerSecond
  BY <1>4, StoredBounds
<1>7. worker.now - read[t].last >= read[t].cool * PerSecond
  <2>1. read[t].last # Never
    BY <1>5, <1>6 DEF Never
  <2> QED
    BY <1>1, <1>2, <2>1 DEF CooledDown
<1>8. PerSecond \in Nat
  BY DEF TriggerAssumption
<1>9. /\ (read[t].cool - 1) * PerSecond = read[t].cool * PerSecond - PerSecond
      /\ read[t].cool * PerSecond \in Int
  BY <1>4, <1>8
<1> QED
  BY <1>2, <1>4, <1>5, <1>6, <1>7, <1>8, <1>9

\* Only a firing and a deletion change the time of the last firing.
LEMMA NextIsApart ==
    ASSUME TriggerAssumption, IInv, [Next]_vars
    PROVE  \A t \in Trigger :
              (fired'[t] \notin {fired[t], Never} /\ fired[t] # Never /\ ~forgotten[t]) =>
                  fired'[t] - fired[t] > (read[t].cool - 1) * PerSecond
<1>1. CASE Fire
  BY <1>1, FireIsApart
<1>2. CASE \E t \in Edited : Delete(t)
  BY <1>2 DEF Delete, IInv, TypeOK
<1>3. CASE ~Fire /\ ~\E t \in Edited : Delete(t)
  <2>1. fired' = fired
    BY <1>3 DEF Next, Tick, Round, StartRound, PassOver, Record, Stamp, Abort, Web,
       SaveNew, Save, TestStart, TestStamp, TestLog, TestFails, Crash, vars, ghosts
  <2> QED
    BY <2>1
<1> QED
  BY <1>1, <1>2, <1>3

-----------------------------------------------------------------------------
\* The inductive invariant holds of every behaviour.
THEOREM Invariance == ASSUME TriggerAssumption PROVE Spec => []IInv
<1>1. Init => IInv
  BY InitIInv
<1>2. IInv /\ [Next]_vars => IInv'
  BY NextIInv
<1> QED
  BY <1>1, <1>2, PTL DEF Spec

\* The tables, the round and the test keep their types.
THEOREM TypeCorrect == ASSUME TriggerAssumption PROVE Spec => []TypeOK
<1>1. IInv => TypeOK
  BY DEF IInv
<1> QED
  BY <1>1, Invariance, PTL

\* A firing is remembered by the time the round is done with the trigger.
THEOREM Remembered == ASSUME TriggerAssumption PROVE Spec => []FiringIsRemembered
<1>1. IInv => FiringIsRemembered
  BY DEF IInv
<1> QED
  BY <1>1, Invariance, PTL

\* A trigger that was switched off or deleted fires at most once more.
THEOREM StopsFiring == ASSUME TriggerAssumption PROVE Spec => []SwitchedOffStops
<1>1. IInv => SwitchedOffStops
  BY DEF IInv
<1> QED
  BY <1>1, Invariance, PTL

\* Automatic firings are the cooldown apart.
THEOREM CooldownIsKept == ASSUME TriggerAssumption PROVE Spec => CooldownHolds
<1>1. IInv /\ [Next]_vars =>
        [\A t \in Trigger :
           (fired'[t] \notin {fired[t], Never} /\ fired[t] # Never /\ ~forgotten[t]) =>
               fired'[t] - fired[t] > (read[t].cool - 1) * PerSecond]_vars
  BY NextIsApart
<1> QED
  BY <1>1, Invariance, PTL DEF Spec, CooldownHolds

-----------------------------------------------------------------------------
(* The minutes of a window, counted round the day.                         *)

\* A number that is r above a multiple of d, and less than d, leaves r.
LEMMA Remainder ==
    ASSUME NEW d \in Nat, d > 0, NEW q \in Int, NEW r \in 0..(d - 1)
    PROVE  (d * q + r) % d = r
<1> DEFINE y == d * q + r
           k == y \div d
           t == y % d
<1>1. d * q \in Int /\ y \in Int
  OBVIOUS
<1>2. k \in Int /\ t \in 0..(d - 1) /\ y = d * k + t
  <2> HIDE DEF y
  <2> QED
    BY <1>1
<1>3. d * q + r = d * k + t
  BY <1>2
<1> HIDE DEF k, t
<1>4. d * (q - k) = t - r
  <2>1. d * (q - k) = d * q - d * k /\ d * k \in Int
    BY <1>2
  <2> QED
    BY <1>1, <1>2, <1>3, <2>1
<1>5. q = k
  <2>1. q - k >= 1 => d * (q - k) >= d
    BY <1>2
  <2>2. q - k <= -1 => d * (q - k) <= -d
    BY <1>2
  <2> QED
    BY <1>2, <1>4, <2>1, <2>2
<1>6. t = r
  BY <1>2, <1>3, <1>5
<1> QED
  BY <1>6 DEF t

\* The minutes from one minute to another, if the second is of the same day and
\* if it is of the next.
LEMMA MinutesFrom ==
    ASSUME NEW d \in Nat, d > 0, NEW x \in Nat, NEW s \in 0..(d - 1)
    PROVE  (x - s) % d = IF s <= x % d THEN (x % d) - s ELSE (x % d) - s + d
<1> DEFINE q == x \div d
           m == x % d
<1>1. q \in Int /\ m \in 0..(d - 1) /\ x = d * q + m
  OBVIOUS
<1> HIDE DEF q, m
<1>2. d * q \in Int /\ d * (q - 1) = d * q - d
  BY <1>1
<1>3. CASE s <= m
  <2>1. m - s \in 0..(d - 1) /\ x - s = d * q + (m - s)
    BY <1>1, <1>2, <1>3
  <2>2. (d * q + (m - s)) % d = m - s
    BY <1>1, <2>1, Remainder
  <2> QED
    BY <1>3, <2>1, <2>2 DEF m
<1>4. CASE ~(s <= m)
  <2>1. m - s + d \in 0..(d - 1) /\ x - s = d * (q - 1) + (m - s + d) /\ q - 1 \in Int
    BY <1>1, <1>2, <1>4
  <2>2. (d * (q - 1) + (m - s + d)) % d = m - s + d
    BY <2>1, Remainder
  <2> QED
    BY <1>4, <2>1, <2>2 DEF m
<1> QED
  BY <1>3, <1>4

\* A minute of the window is no further from its start than its end is, also
\* when the window passes midnight.
LEMMA WindowMinutes ==
    ASSUME NEW d \in Nat, d > 0, NEW x \in Nat,
           NEW s \in 0..(d - 1), NEW e \in 0..(d - 1),
           \/ s <= e /\ s <= x % d /\ x % d <= e
           \/ s > e /\ (s <= x % d \/ x % d <= e)
    PROVE  ((x - s) % d) <= ((e - s) % d)
<1>1. x % d \in 0..(d - 1)
  OBVIOUS
<1>2. e % d = e
  <2>1. (d * 0 + e) % d = e
    BY Remainder
  <2>2. d * 0 + e = e
    OBVIOUS
  <2> QED
    BY <2>1, <2>2
<1>3. (x - s) % d = IF s <= x % d THEN (x % d) - s ELSE (x % d) - s + d
  BY MinutesFrom
<1>4. (e - s) % d = IF s <= e THEN e - s ELSE e - s + d
  BY <1>2, MinutesFrom
<1> DEFINE m == x % d
           u == (x - s) % d
           v == (e - s) % d
<1>5. /\ m \in 0..(d - 1)
      /\ u = IF s <= m THEN m - s ELSE m - s + d
      /\ v = IF s <= e THEN e - s ELSE e - s + d
      /\ \/ s <= e /\ s <= m /\ m <= e
         \/ s > e /\ (s <= m \/ m <= e)
  BY <1>1, <1>3, <1>4
<1> HIDE DEF m, u, v
<1>6. u <= v
  BY <1>5
<1> QED
  BY <1>6 DEF u, v

\* The decision to fire is made within the window of its trigger.
LEMMA FireInWindow ==
    ASSUME TriggerAssumption, WindowAssumption, IInv, FiresInWindow, Fire
    PROVE  FiresInWindow'
<1>1. /\ worker.pc = "scan" /\ InWindow(Window[InHand], worker.now)
      /\ fired' = [fired EXCEPT ![InHand] = worker.now]
  BY DEF Fire, Decide
<1>2. worker.now \in Nat /\ InHand \in Trigger
  BY <1>1, Types DEF IInv
<1>3. /\ DayMinutes \in Nat /\ DayMinutes > 0
      /\ MinuteTicks \in Nat /\ MinuteTicks > 0
  BY DEF TriggerAssumption
<1> DEFINE w == Window[InHand]
           minute == worker.now \div MinuteTicks
<1>4. minute \in Nat
  BY <1>2, <1>3
<1>5. /\ w.start \in 0..(DayMinutes - 1) \cup {Never}
      /\ w.end \in 0..(DayMinutes - 1) \cup {Never}
  BY <1>2 DEF WindowAssumption
<1>6. /\ w.days # {} => 1 + ((minute \div DayMinutes) % 7) \in w.days
      /\ \/ w.start = Never \/ w.end = Never
         \/ w.start <= w.end /\ w.start <= minute % DayMinutes
              /\ minute % DayMinutes <= w.end
         \/ w.start > w.end /\ (w.start <= minute % DayMinutes
                                  \/ minute % DayMinutes <= w.end)
  BY <1>1 DEF InWindow
<1>7. w.start # Never /\ w.end # Never =>
         ((minute - w.start) % DayMinutes) <= ((w.end - w.start) % DayMinutes)
  <2> HIDE DEF w, minute
  <2> QED
    BY <1>3, <1>4, <1>5, <1>6, WindowMinutes
<1>8. \A t \in Trigger : fired'[t] = IF t = InHand THEN worker.now ELSE fired[t]
  BY <1>1 DEF IInv, TypeOK
<1> SUFFICES ASSUME NEW t \in Trigger, fired'[t] # Never
             PROVE  LET v == Window[t]
                        n == fired'[t] \div MinuteTicks
                    IN  /\ v.days # {} => 1 + ((n \div DayMinutes) % 7) \in v.days
                        /\ v.start # Never /\ v.end # Never =>
                              ((n - v.start) % DayMinutes)
                                 <= ((v.end - v.start) % DayMinutes)
  BY DEF FiresInWindow
<1>9. CASE t = InHand
  BY <1>6, <1>7, <1>8, <1>9
<1>10. CASE t # InHand
  BY <1>8, <1>10 DEF FiresInWindow
<1> QED
  BY <1>9, <1>10

\* Every step keeps the firings in their windows.
LEMMA NextInWindow ==
    ASSUME TriggerAssumption, WindowAssumption, IInv, FiresInWindow, [Next]_vars
    PROVE  FiresInWindow'
<1>1. CASE Fire
  BY <1>1, FireInWindow
<1>2. ASSUME NEW t \in Edited, Delete(t) PROVE FiresInWindow'
  <2>1. \A x \in Trigger : fired'[x] = fired[x] \/ fired'[x] = Never
    BY <1>2 DEF Delete, IInv, TypeOK
  <2> QED
    BY <2>1 DEF FiresInWindow
<1>3. CASE ~Fire /\ ~\E t \in Edited : Delete(t)
  <2>1. fired' = fired
    BY <1>3 DEF Next, Tick, Round, StartRound, PassOver, Record, Stamp, Abort, Web,
       SaveNew, Save, TestStart, TestStamp, TestLog, TestFails, Crash, vars, ghosts
  <2> QED
    BY <2>1 DEF FiresInWindow
<1> QED
  BY <1>1, <1>2, <1>3

\* An automatic firing falls in the window of its trigger, for a day of any
\* length and windows that pass midnight (_is_in_time_window).
THEOREM WindowIsKept ==
    ASSUME TriggerAssumption, WindowAssumption PROVE Spec => []FiresInWindow
<1>1. Init => FiresInWindow
  BY DEF Init, FiresInWindow
<1>2. IInv /\ FiresInWindow /\ [Next]_vars => FiresInWindow'
  BY NextInWindow
<1> QED
  BY <1>1, <1>2, Invariance, PTL DEF Spec
=============================================================================
