----------------------------- MODULE GridStatus -----------------------------
(***************************************************************************)
(* handle_grid_status of app.py: one sample of the inverter after another  *)
(* is compared with the state file; a change is written to the history and *)
(* the state file and announced; then the off-grid warning and the "battery *)
(* full" notice are considered.  The process may end between any two       *)
(* writes, and a page of the web viewer may post the settings it read      *)
(* earlier.                                                                *)
(*                                                                         *)
(* open(..., 'w') empties a file before the new contents are flushed, so a *)
(* write is two steps and a crash between them leaves the file "torn".     *)
(***************************************************************************)
EXTENDS Naturals, Sequences, FiniteSets, SequencesExt

CONSTANTS HistoryCount,  \* HISTORY_COUNT
          SkipCount,     \* 60 // SLEEP_TIME
          LoadsSettings, \* RUN_WEB_VIEWER: settings are loaded at the start
          MaxCrashes,    \* bound: crashes
          MaxDay         \* bound: days

ASSUME GridAssumption ==
    /\ HistoryCount \in Nat \ {0} /\ SkipCount \in Nat
    /\ LoadsSettings \in BOOLEAN
    /\ MaxCrashes \in Nat /\ MaxDay \in Nat \ {0}

VARIABLES
    grid,       \* the grid itself
    stateFile,  \* "absent", "torn", "True" or "False"
    history,    \* the entries of HISTORY_FILE, newest first
    corrupt,    \* HISTORY_FILE was left empty
    pc,         \* where the handler is
    sample,     \* the sample it handles
    skip,       \* dectect_off_grid_warning_skip_check_count
    day,        \* the date
    noted,      \* LAST_BATTERY_FULL_NOTIFY_DATE, [mem |-> , disk |-> ]; 0: none
    form,       \* the date in a settings page opened in a browser, if any
    crashes,
    \* History variables.
    told,       \* the last state that was announced
    lost,       \* the last change was recorded and not announced
    cut,        \* changes in the history that a crash kept from the state file
    quiet,      \* dangerous samples since the last warning
    calm,       \* a safe sample or a restart came since the last warning
    notice      \* "none" of the day's "battery full" notices was sent, "told",
                \* or "again": one was and its date was lost since

vars == <<grid, stateFile, history, corrupt, pc, sample, skip, day, noted, form,
          crashes, told, lost, cut, quiet, calm, notice>>
files == <<stateFile, history, corrupt>>
warning == <<skip, quiet, calm>>
battery == <<noted, form, notice>>
outside == <<grid, day, crashes>>
said == <<told, lost, cut>>

\* A sample: fac > 0; whether an outage would be dangerous, safe, or "sunny"
\* (p_pv above p_eps); whether the battery is full.
Sample == [on : BOOLEAN, load : {"danger", "safe", "sunny"}, full : BOOLEAN]
NoSample == [on |-> TRUE, load |-> "sunny", full |-> FALSE]

Init ==
    /\ grid \in BOOLEAN
    /\ stateFile = "absent" /\ history = <<>> /\ corrupt = FALSE
    /\ pc = "idle" /\ sample = NoSample
    /\ skip = 0 /\ day = 1
    /\ noted = [mem |-> 0, disk |-> 0] /\ form = 0
    /\ crashes = 0
    /\ told = TRUE /\ lost = FALSE /\ cut = 0
    /\ quiet = 0 /\ calm = TRUE
    /\ notice = "none"

\* What the handler takes the last state for; no file means connected.
LastConnected == stateFile \in {"absent", "True"}

\* Fault: an empty state file raises.
BeginStrict ==
    /\ pc = "idle"
    /\ \E load \in {"danger", "safe", "sunny"}, full \in BOOLEAN :
          sample' = [on |-> grid, load |-> load, full |-> full]
    /\ pc' = IF stateFile = "torn" \/ corrupt THEN "idle"
             ELSE IF LastConnected = grid THEN "warn" ELSE "history"
    /\ UNCHANGED <<files, warning, battery, outside, said>>

\* Fault: the state file is not looked at.
BeginAlways ==
    /\ pc = "idle"
    /\ \E load \in {"danger", "safe", "sunny"}, full \in BOOLEAN :
          sample' = [on |-> grid, load |-> load, full |-> full]
    /\ pc' = IF corrupt THEN "idle" ELSE "history"
    /\ UNCHANGED <<files, warning, battery, outside, said>>

\* A sample arrives.  An empty history file raises: the rest is skipped.
Begin ==
    /\ pc = "idle"
    /\ \E load \in {"danger", "safe", "sunny"}, full \in BOOLEAN :
          sample' = [on |-> grid, load |-> load, full |-> full]
    /\ pc' = IF LastConnected = grid THEN "warn"
             ELSE IF corrupt THEN "idle" ELSE "history"
    /\ UNCHANGED <<files, warning, battery, outside, said>>

\* The oldest entry makes room.
Trim(h) == IF Len(h) = HistoryCount THEN Front(h) ELSE h

\* The history is written.
WriteHistory ==
    /\ pc = "history"
    /\ history' = <<sample.on>> \o Trim(history)
    /\ pc' = "state"
    /\ UNCHANGED <<stateFile, corrupt, sample, warning, battery, outside, said>>

\* The state file is written.
WriteState ==
    /\ pc = "state"
    /\ stateFile' = IF sample.on THEN "True" ELSE "False"
    /\ pc' = "notify"
    /\ UNCHANGED <<history, corrupt, sample, warning, battery, outside, said>>

\* ongrid_notify or offgrid_notify, and the audio.
Notify ==
    /\ pc = "notify"
    /\ told' = sample.on
    /\ lost' = FALSE
    /\ pc' = "warn"
    /\ UNCHANGED <<files, sample, warning, battery, outside, cut>>

\* The samples the off-grid warning looks at.
OffGrid == ~sample.on /\ sample.load # "sunny"

\* Fault: the counter is left alone while it suppresses a warning.
WarnForever ==
    /\ pc = "warn" /\ pc' = "battery"
    /\ \/ /\ OffGrid /\ sample.load = "danger" /\ skip > 0
          /\ quiet' = quiet + 1
          /\ UNCHANGED <<skip, calm>>
       \/ /\ OffGrid /\ sample.load = "danger" /\ skip = 0
          /\ skip' = SkipCount /\ quiet' = 0 /\ calm' = FALSE
       \/ /\ OffGrid /\ sample.load = "safe"
          /\ skip' = 0 /\ calm' = TRUE
          /\ UNCHANGED quiet
       \/ ~OffGrid /\ UNCHANGED warning
    /\ UNCHANGED <<files, sample, battery, outside, said>>

\* dectect_off_grid_warning: a dangerous sample warns or is skipped.
Warn ==
    /\ pc = "warn" /\ pc' = "battery"
    /\ \/ /\ OffGrid /\ sample.load = "danger" /\ skip > 0
          /\ skip' = skip - 1 /\ quiet' = quiet + 1
          /\ UNCHANGED calm
       \/ /\ OffGrid /\ sample.load = "danger" /\ skip = 0
          /\ skip' = SkipCount /\ quiet' = 0 /\ calm' = FALSE
       \/ /\ OffGrid /\ sample.load = "safe"
          /\ skip' = 0 /\ calm' = TRUE
          /\ UNCHANGED quiet
       \/ ~OffGrid /\ UNCHANGED warning
    /\ UNCHANGED <<files, sample, battery, outside, said>>

\* detect_battery_full up to the notice.
Battery ==
    /\ pc = "battery"
    /\ IF sample.full /\ noted.mem # day
       THEN pc' = "save" /\ notice' = "told"
       ELSE pc' = "idle" /\ UNCHANGED notice
    /\ UNCHANGED <<files, sample, warning, noted, form, outside, said>>

\* Fault: the date is stored but not remembered.
SaveDiskOnly ==
    /\ pc = "save" /\ pc' = "idle"
    /\ noted' = [noted EXCEPT !.disk = day]
    /\ UNCHANGED <<files, sample, warning, form, notice, outside, said>>

\* save_setting with the date of the notice, and the end of the handler.
SaveDate ==
    /\ pc = "save" /\ pc' = "idle"
    /\ noted' = [mem |-> day, disk |-> day]
    /\ UNCHANGED <<files, sample, warning, form, notice, outside, said>>

\* save_setting raises after the notice was sent (the database is locked, say),
\* which the main loop swallows: the date is not remembered.  If it was the
\* commit that failed, a later one on the same connection stores it.
SaveFails ==
    /\ pc = "save" /\ pc' = "idle"
    /\ \E date \in {noted.disk, day} : noted' = [noted EXCEPT !.disk = date]
    /\ notice' = "again"
    /\ UNCHANGED <<files, sample, warning, form, outside, said>>

\* A notification raises, for the file of device tokens cannot be read
\* (FcmDevices): the rest of the handler is skipped.
NotifyFails ==
    /\ \/ pc = "notify"
       \/ pc = "warn" /\ OffGrid /\ sample.load = "danger" /\ skip = 0
       \/ pc = "battery" /\ sample.full /\ noted.mem # day
    /\ pc' = "idle"
    /\ lost' = (lost \/ pc = "notify")
    /\ UNCHANGED <<files, sample, warning, battery, outside, told, cut>>

\* The process ends; a file being written may be left empty.
Crash ==
    /\ pc # "down" /\ crashes < MaxCrashes
    /\ pc' = "down" /\ crashes' = crashes + 1
    /\ \/ UNCHANGED files
       \/ /\ pc = "history"
          /\ history' = <<>> /\ corrupt' = TRUE
          /\ UNCHANGED stateFile
       \/ /\ pc = "state"
          /\ stateFile' = "torn"
          /\ UNCHANGED <<history, corrupt>>
    /\ cut' = IF pc = "state" THEN cut + 1 ELSE cut
    /\ lost' = (lost \/ pc = "notify" \/ stateFile' # stateFile)
    /\ notice' = IF pc = "save" THEN "again" ELSE notice
    /\ UNCHANGED <<grid, day, sample, warning, noted, form, told>>

\* Fault: the state of the grid is kept in memory only.
RestartForgets ==
    /\ pc = "down" /\ pc' = "idle" /\ sample' = NoSample
    /\ stateFile' = "absent"
    /\ skip' = 0 /\ calm' = TRUE
    /\ noted' = [noted EXCEPT !.mem = IF LoadsSettings THEN noted.disk ELSE 0]
    /\ notice' = IF notice = "told" /\ noted'.mem # day THEN "again" ELSE notice
    /\ UNCHANGED <<history, corrupt, outside, said, quiet, form>>

\* The process starts again, with the settings of the database or none.
Restart ==
    /\ pc = "down" /\ pc' = "idle" /\ sample' = NoSample
    /\ skip' = 0 /\ calm' = TRUE
    /\ noted' = [noted EXCEPT !.mem = IF LoadsSettings THEN noted.disk ELSE 0]
    /\ notice' = IF notice = "told" /\ noted'.mem # day THEN "again" ELSE notice
    /\ UNCHANGED <<files, outside, said, quiet, form>>

\* A browser opens the settings page (get_settings).
OpenPage ==
    /\ LoadsSettings /\ pc # "down"
    /\ form' = noted.mem
    /\ UNCHANGED <<files, pc, sample, warning, outside, said, noted, notice>>

\* The page posts every setting it was given back, this date among them.
SavePage ==
    /\ form # 0 /\ pc # "down"
    /\ noted' = [mem |-> form, disk |-> form]
    /\ form' = 0
    /\ notice' = IF notice = "told" /\ form # day THEN "again" ELSE notice
    /\ UNCHANGED <<files, pc, sample, warning, outside, said>>

\* The grid comes or goes.
Switch ==
    /\ grid' = ~grid
    /\ UNCHANGED <<files, pc, sample, warning, battery, day, crashes, said>>

\* Midnight, between two samples.
Midnight ==
    /\ pc \in {"idle", "down"} /\ day < MaxDay
    /\ day' = day + 1 /\ notice' = "none"
    /\ UNCHANGED <<files, pc, sample, warning, noted, form, grid, crashes, said>>

Handle == Begin \/ WriteHistory \/ WriteState \/ Notify \/ Warn \/ Battery \/ SaveDate

Next == Handle \/ NotifyFails \/ SaveFails \/ Restart \/ Crash \/ OpenPage \/ SavePage \/ Switch \/ Midnight

Spec == Init /\ [][Next]_vars

FairSpec == Spec /\ WF_vars(Handle) /\ WF_vars(Restart)
-----------------------------------------------------------------------------
(* Properties.                                                             *)

\* Type invariant.
TypeOK ==
    /\ grid \in BOOLEAN
    /\ stateFile \in {"absent", "torn", "True", "False"}
    /\ history \in Seq(BOOLEAN) /\ Len(history) <= HistoryCount
    /\ corrupt \in BOOLEAN
    /\ pc \in {"idle", "history", "state", "notify", "warn", "battery", "save", "down"}
    /\ sample \in Sample
    /\ skip \in 0..SkipCount
    /\ day \in 1..MaxDay
    /\ noted \in [mem : 0..MaxDay, disk : 0..MaxDay] /\ form \in 0..MaxDay
    /\ crashes \in 0..MaxCrashes
    /\ told \in BOOLEAN /\ lost \in BOOLEAN /\ cut \in 0..crashes
    /\ quiet \in Nat /\ calm \in BOOLEAN
    /\ notice \in {"none", "told", "again"}

\* The history tells a story: the grid comes and goes by turns, and an entry
\* repeats the one before it only where a crash came after the history was
\* written and before the state file was.
HistoryAlternates ==
    Cardinality({i \in 1..(Len(history) - 1) : history[i] = history[i + 1]}) <= cut

\* Between two samples the last announcement is the recorded state: no change
\* is recorded silently or announced twice, however often the process is
\* restarted, unless a crash or a failure falls between the record and the
\* announcement.
ToldTheState ==
    pc \in {"idle", "warn", "battery", "save"} /\ ~lost => told = LastConnected

\* A dangerous sample warns exactly when it is the first one, when SkipCount
\* dangerous samples were passed over since the last warning, or when a safe
\* sample or a restart came in between; outages that end and begin do not
\* count ("Skip next OFF_GRID_WARNING_SKIP_CHECK_COUNT time", app.py).
WarningsSpaced ==
    [][pc = "warn" /\ pc' = "battery" /\ OffGrid /\ sample.load = "danger"
       => (quiet' = 0 <=> calm \/ quiet = SkipCount)]_vars

\* "Battery full" is announced once a day, but for the times its date was
\* lost: by a crash before it was saved, by a save that failed, by a restart
\* that does not load the settings, or by a page that posts an older date back.
BatteryOncePerDay ==
    [][pc = "battery" /\ pc' = "save" => notice # "told"]_vars

\* A grid that stays on or off is recorded and, but for a crash in between,
\* announced.  One crash does stop the handler for good: that which leaves the
\* history file empty, for json.loads raises on it at every later change.
GridReported == \A g \in BOOLEAN :
    <>[](grid = g) =>
        <>[](corrupt \/ (LastConnected = g /\ (told = g \/ lost)))
=============================================================================
