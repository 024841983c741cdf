---------------------------- MODULE TriggerEngine ----------------------------
(***************************************************************************)
(* The triggers of trigger_engine/: rounds of evaluation in a worker       *)
(* thread, one at a time since the main loop awaits each; manual tests and *)
(* edits in the thread of the web server, where a test holds the event     *)
(* loop from its start to its end; and the two tables they share.          *)
(*                                                                         *)
(* Time is counted in ticks, PerSecond to a second; a time stamp in the    *)
(* database is cut to its second.  Whether the conditions of a trigger are *)
(* met is the environment's choice at each evaluation.                     *)
(***************************************************************************)
EXTENDS Integers, Sequences

CONSTANTS N,             \* triggers have the ids 1..N, in order of creation
          Cooldowns,     \* values of cooldown_seconds
          Window,        \* the When part of each trigger
          PerSecond,     \* ticks per second
          MinuteTicks,   \* ticks per minute
          DayMinutes,    \* minutes per day
          HistoryLimit,  \* rows kept per trigger (10 in storage.py)
          MaxTime,       \* bound: the last tick
          Edited         \* bound: the triggers that are edited and tested

Trigger == 1..N
Never == -1              \* NULL in a time column, no time in the When part

ASSUME TriggerAssumption ==
    /\ N \in Nat
    /\ Cooldowns \subseteq Nat
    /\ PerSecond \in Nat \ {0} /\ MinuteTicks \in Nat \ {0}
    /\ DayMinutes \in Nat \ {0} /\ HistoryLimit \in Nat \ {0} /\ MaxTime \in Nat
    /\ Edited \subseteq Trigger

\* A When part names minutes of the day: a time that is none is taken for no
\* window at all (dtime raises, _is_in_time_window returns True).
ASSUME WindowAssumption ==
    \A t \in Trigger : /\ Window[t].start \in 0..(DayMinutes - 1) \cup {Never}
                       /\ Window[t].end \in 0..(DayMinutes - 1) \cup {Never}

VARIABLES
    clock,
    row,        \* automation_triggers: "none", "on", "off" or "deleted"
    cool,       \* cooldown_seconds of each row
    last,       \* last_triggered_at of each row
    history,    \* trigger_history: the times of the rows of each trigger
    worker,     \* the round: pc, now, and the trigger it is at
    read,       \* what the round read of each trigger when it began
    tester,     \* the manual test: pc, trigger and now
    fired,      \* history: now of the last automatic firing
    forgotten,  \* history: a crash, a failed write or the older time of a
                \* manual test undid the stamp of that firing
    late        \* history: automatic firings since the trigger was not on

tables == <<row, cool, last, history>>
ghosts == <<fired, forgotten, late>>
vars == <<clock, tables, worker, read, tester, ghosts>>

Idle == [pc |-> "idle", now |-> Never, at |-> Never]
Blank == [on |-> FALSE, cool |-> 0, last |-> Never]
Nothing == [t \in Trigger |-> Blank]
NoTest == [pc |-> "idle", t |-> Never, now |-> Never]

Init ==
    /\ clock = 0
    /\ row = [t \in Trigger |-> "none"]
    /\ cool \in [Trigger -> Cooldowns]
    /\ last = [t \in Trigger |-> Never]
    /\ history = [t \in Trigger |-> <<>>]
    /\ worker = Idle /\ read = Nothing /\ tester = NoTest
    /\ fired = [t \in Trigger |-> Never]
    /\ forgotten = [t \in Trigger |-> FALSE]
    /\ late = [t \in Trigger |-> 0]

\* format_datetime: second precision.
Stored(time) == time - (time % PerSecond)

Present(t) == row[t] \in {"on", "off"}

Tick ==
    /\ clock < MaxTime
    /\ clock' = clock + 1
    /\ UNCHANGED <<tables, worker, read, tester, ghosts>>

-----------------------------------------------------------------------------
(* Storage.                                                                *)

\* get_all_triggers: of the rows that are there and on.
Snapshot == [t \in Trigger |->
               IF row[t] = "on" THEN [on |-> TRUE, cool |-> cool[t], last |-> last[t]]
                                ELSE Blank]

\* Fault: the oldest rows are kept.
KeepOldest(times) == SubSeq(times, 1, IF Len(times) > HistoryLimit
                                      THEN HistoryLimit ELSE Len(times))

\* The rows that survive the trim: the newest ones.
Newest(times) == SubSeq(times, IF Len(times) > HistoryLimit
                               THEN Len(times) - HistoryLimit + 1 ELSE 1,
                        Len(times))

\* add_trigger_history: insert and trim in one transaction.
AddHistory(t) ==
    history' = [history EXCEPT ![t] = Newest(Append(@, Stored(clock)))]

\* _update_last_triggered: no row, no effect.
UpdateLast(t, now) ==
    last' = IF Present(t) THEN [last EXCEPT ![t] = Stored(now)] ELSE last

-----------------------------------------------------------------------------
(* A round: evaluate_triggers.                                             *)

\* Fault: the days are not looked at.
AnyDay(w, now) ==
    LET minute == now \div MinuteTicks
        m == minute % DayMinutes
    IN  \/ w.start = Never \/ w.end = Never
        \/ w.start <= m \/ m <= w.end

\* _is_in_time_window, for a window of minutes that may pass midnight.
InWindow(w, now) ==
    LET minute == now \div MinuteTicks
        day == 1 + ((minute \div DayMinutes) % 7)
        m == minute % DayMinutes
    IN  /\ w.days = {} \/ day \in w.days
        /\ \/ w.start = Never \/ w.end = Never
           \/ w.start <= w.end /\ w.start <= m /\ m <= w.end
           \/ w.start > w.end /\ (w.start <= m \/ m <= w.end)

\* _check_cooldown, from what the round read.
CooledDown(trig, now) ==
    trig.last = Never \/ now - trig.last >= trig.cool * PerSecond

InHand == worker.at
Acting(t) == worker.pc \in {"act", "stamp"} /\ InHand = t
To(pc) == worker' = [worker EXCEPT !.pc = pc] /\ UNCHANGED read
End == worker' = Idle /\ read' = Nothing

\* On to the next row of the round, or the end of it.
Advance == IF InHand = N THEN End
           ELSE /\ worker' = [pc |-> "scan", now |-> worker.now, at |-> InHand + 1]
                /\ read' = [read EXCEPT ![InHand] = Blank]

StartRound ==
    /\ worker.pc = "idle" /\ N > 0
    /\ worker' = [pc |-> "scan", now |-> clock, at |-> 1]
    /\ read' = Snapshot
    /\ UNCHANGED <<clock, tables, tester, ghosts>>

\* No such row, disabled, outside its window, conditions not met or still
\* cooling down.
PassOver ==
    /\ worker.pc = "scan"
    /\ Advance
    /\ UNCHANGED <<clock, tables, tester, ghosts>>

\* The decision to fire t; the actions follow and take their time.
Decide(t) ==
    /\ To("act")
    /\ fired' = [fired EXCEPT ![t] = worker.now]
    /\ forgotten' = [forgotten EXCEPT ![t] = FALSE]
    /\ late' = [late EXCEPT ![t] = IF row[t] = "on" THEN 0 ELSE @ + 1]
    /\ UNCHANGED <<clock, tables, tester>>

\* Fault: the switch is not looked at.
FireDisabled ==
    /\ worker.pc = "scan"
    /\ InWindow(Window[InHand], worker.now) /\ CooledDown(read[InHand], worker.now)
    /\ row[InHand] # "none"
    /\ Decide(InHand)

Fire ==
    /\ worker.pc = "scan"
    /\ read[InHand].on
    /\ InWindow(Window[InHand], worker.now) /\ CooledDown(read[InHand], worker.now)
    /\ Decide(InHand)

\* _execute_actions returns, as each action swallows its own exceptions, and
\* success is recorded, or the error that recording it met.
Record ==
    /\ worker.pc = "act"
    /\ AddHistory(InHand)
    /\ To("stamp")
    /\ UNCHANGED <<clock, row, cool, last, tester, ghosts>>

\* The stamp is the time of the decision: it undoes that of a test that ran
\* meanwhile.
Stamp ==
    /\ worker.pc = "stamp"
    /\ UpdateLast(InHand, worker.now)
    /\ forgotten' = [forgotten EXCEPT ![InHand] = FALSE]
    /\ Advance
    /\ UNCHANGED <<clock, row, cool, history, tester, fired, late>>

\* An exception: a trigger that cannot be examined, or a database that is
\* locked for longer than the timeout.  The round ends, the triggers after
\* this one are not looked at.
Abort ==
    /\ worker.pc # "idle"
    /\ End
    /\ forgotten' = [t \in Trigger |-> forgotten[t] \/ Acting(t)]
    /\ UNCHANGED <<clock, tables, tester, fired, late>>

Round == StartRound \/ PassOver \/ Fire \/ Record \/ Stamp \/ Abort

-----------------------------------------------------------------------------
(* The web server.  save and delete wait while a test holds the event loop. *)

SaveNew(t) ==
    /\ tester.pc = "idle" /\ row[t] = "none" /\ (t > 1 => row[t - 1] # "none")
    /\ \E s \in {"on", "off"}, c \in Cooldowns :
          /\ row' = [row EXCEPT ![t] = s]
          /\ cool' = [cool EXCEPT ![t] = c]
    /\ UNCHANGED <<clock, last, history, worker, read, tester, ghosts>>

\* Fault: an edit forgets when the trigger fired.
SaveResets(t) ==
    /\ tester.pc = "idle" /\ Present(t)
    /\ \E s \in {"on", "off"}, c \in Cooldowns :
          /\ row' = [row EXCEPT ![t] = s]
          /\ cool' = [cool EXCEPT ![t] = c]
          /\ late' = [late EXCEPT ![t] = IF s = "on" THEN 0 ELSE @]
    /\ last' = [last EXCEPT ![t] = Never]
    /\ UNCHANGED <<clock, history, worker, read, tester, fired, forgotten>>

\* save_trigger of a row: last_triggered_at stays as it is.
Save(t) ==
    /\ tester.pc = "idle" /\ Present(t)
    /\ \E s \in {"on", "off"}, c \in Cooldowns :
          /\ row' = [row EXCEPT ![t] = s]
          /\ cool' = [cool EXCEPT ![t] = c]
          /\ late' = [late EXCEPT ![t] = IF s = "on" THEN 0 ELSE @]
    /\ UNCHANGED <<clock, last, history, worker, read, tester, fired, forgotten>>

\* delete_trigger; the rows of its history stay.
Delete(t) ==
    /\ tester.pc = "idle" /\ Present(t)
    /\ row' = [row EXCEPT ![t] = "deleted"]
    /\ last' = [last EXCEPT ![t] = Never]
    /\ fired' = [fired EXCEPT ![t] = Never]
    /\ UNCHANGED <<clock, cool, history, worker, read, tester, forgotten, late>>

\* test_trigger_route: neither the switch nor the cooldown is looked at.
TestStart(t) ==
    /\ tester.pc = "idle" /\ Present(t)
    /\ tester' = [pc |-> "act", t |-> t, now |-> clock]
    /\ UNCHANGED <<clock, tables, worker, read, ghosts>>

TestStamp ==
    /\ tester.pc = "act"
    /\ UpdateLast(tester.t, tester.now)
    /\ forgotten' = [forgotten EXCEPT ![tester.t] =
                        (@ \/ Stored(tester.now) < Stored(fired[tester.t]))]
    /\ tester' = [tester EXCEPT !.pc = "log"]
    /\ UNCHANGED <<clock, row, cool, history, worker, read, fired, late>>

TestLog ==
    /\ tester.pc = "log"
    /\ AddHistory(tester.t)
    /\ tester' = NoTest
    /\ UNCHANGED <<clock, row, cool, last, worker, read, ghosts>>

\* A write of the test fails: the route answers 500.
TestFails ==
    /\ tester.pc \in {"act", "log"}
    /\ tester' = NoTest
    /\ UNCHANGED <<clock, tables, worker, read, ghosts>>

Web == \/ \E t \in Trigger : SaveNew(t)
       \/ \E t \in Edited : Save(t) \/ Delete(t) \/ TestStart(t)
       \/ TestStamp \/ TestLog \/ TestFails

-----------------------------------------------------------------------------
\* The process ends and starts again: what was committed is all there is.
Crash ==
    /\ worker # Idle \/ tester # NoTest
    /\ forgotten' = [t \in Trigger |-> forgotten[t] \/ Acting(t)]
    /\ End /\ tester' = NoTest
    /\ UNCHANGED <<clock, tables, fired, late>>

Next == Tick \/ Round \/ Web \/ Crash

Spec == Init /\ [][Next]_vars

-----------------------------------------------------------------------------
Time == 0..MaxTime
Times == Time \cup {Never}

TypeOK ==
    /\ clock \in Time
    /\ row \in [Trigger -> {"none", "on", "off", "deleted"}]
    /\ cool \in [Trigger -> Cooldowns]
    /\ last \in [Trigger -> Times]
    /\ history \in [Trigger -> Seq(Time)]
    /\ worker \in [pc : {"scan", "act", "stamp"}, now : 0..clock, at : Trigger]
                  \cup {Idle}
    /\ read \in [Trigger -> [on : BOOLEAN, cool : Cooldowns \cup {0}, last : Times]]
    /\ tester \in [pc : {"act", "log"}, t : Trigger, now : 0..clock] \cup {NoTest}
    /\ fired \in [Trigger -> (0..clock) \cup {Never}]
    /\ forgotten \in [Trigger -> BOOLEAN] /\ late \in [Trigger -> Nat]

\* Once the round is done with a trigger that fired, the table says so, with a
\* row of the history to show for it, whatever edits, tests and rounds came in
\* between; unless a crash, a failed write or the older time of a manual test
\* undid it.
FiringIsRemembered ==
    \A t \in Trigger :
        Present(t) /\ fired[t] # Never /\ ~Acting(t) /\ ~forgotten[t] =>
            /\ last[t] >= Stored(fired[t])
            /\ \E i \in DOMAIN history[t] : history[t][i] >= Stored(fired[t])

\* Two automatic firings are the cooldown apart, as the later round read it and
\* but for the part of a second that the stamp drops, though the round
\* works from a copy and tests and edits write the row under it.
CooldownHolds ==
    [][\A t \in Trigger :
          (fired'[t] \notin {fired[t], Never} /\ fired[t] # Never /\ ~forgotten[t]) =>
              fired'[t] - fired[t] > (read[t].cool - 1) * PerSecond]_vars

\* A trigger that was switched off or deleted fires at most once more: in the
\* round that had already read it.
SwitchedOffStops == \A t \in Trigger : late[t] <= 1

\* The minutes of a window, counted from its start, in days of its list: of a
\* window that passes midnight the part after midnight counts for its own day.
FiresInWindow ==
    \A t \in Trigger : fired[t] # Never =>
        LET w == Window[t]
            minute == fired[t] \div MinuteTicks
        IN  /\ w.days # {} => 1 + ((minute \div DayMinutes) % 7) \in w.days
            /\ w.start # Never /\ w.end # Never =>
                  ((minute - w.start) % DayMinutes) <= ((w.end - w.start) % DayMinutes)
=============================================================================
