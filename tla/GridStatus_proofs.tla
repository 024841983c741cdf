-------------------------- MODULE GridStatus_proofs --------------------------
(***************************************************************************)
(* Safety of GridStatus for any length of the history, any number of       *)
(* skipped samples and any number of crashes and days.                     *)
(***************************************************************************)
EXTENDS GridStatus, SequenceTheorems, FiniteSetTheorems, TLAPS

\* The announcement follows the record of a change and nothing else: before
\* the state file is written the sample differs from it.
ToldInv ==
    /\ pc \in {"history", "state"} => sample.on # LastConnected
    /\ pc = "notify" => sample.on = LastConnected
    /\ pc # "notify" /\ ~lost => told = LastConnected

\* What the counter of the off-grid warning stands for.
WarnInv == (calm => skip = 0) /\ (~calm => skip + quiet = SkipCount)

\* A notice of today is remembered, or about to be.
NoticeInv == notice = "told" => noted.mem = day \/ pc = "save"

\* The inductive invariant.
IInv == TypeOK /\ ToldInv /\ WarnInv /\ NoticeInv

\* Trimming makes room for one entry.
LEMMA TrimMakesRoom ==
    ASSUME GridAssumption, NEW h \in Seq(BOOLEAN), Len(h) <= HistoryCount
    PROVE  Trim(h) \in Seq(BOOLEAN) /\ Len(Trim(h)) <= HistoryCount - 1
<1>1. HistoryCount \in Nat /\ HistoryCount > 0
  BY DEF GridAssumption
<1>2. CASE Len(h) = HistoryCount
  <2>1. Trim(h) = SubSeq(h, 1, Len(h) - 1)
    BY <1>2 DEF Trim, Front
  <2>2. /\ SubSeq(h, 1, Len(h) - 1) \in Seq(BOOLEAN)
        /\ Len(SubSeq(h, 1, Len(h) - 1)) = Len(h) - 1
    BY <1>1, <1>2
  <2> QED
    BY <1>2, <2>1, <2>2
<1>3. CASE Len(h) # HistoryCount
  BY <1>1, <1>3 DEF Trim
<1> QED
  BY <1>2, <1>3

\* The initial states.
LEMMA InitIInv == ASSUME GridAssumption, Init PROVE IInv
<1>1. TypeOK
  <2>1. sample \in Sample
    BY DEF Init, Sample, NoSample
  <2>2. noted \in [mem : 0..MaxDay, disk : 0..MaxDay] /\ day \in 1..MaxDay
    BY DEF Init, GridAssumption
  <2>3. skip \in 0..SkipCount /\ crashes \in 0..MaxCrashes /\ cut \in 0..crashes
    BY DEF Init, GridAssumption
  <2>4. history \in Seq(BOOLEAN) /\ Len(history) <= HistoryCount
    BY DEF Init, GridAssumption
  <2> QED
    BY <2>1, <2>2, <2>3, <2>4 DEF Init, TypeOK, GridAssumption
<1>2. ToldInv /\ WarnInv /\ NoticeInv
  BY DEF Init, ToldInv, WarnInv, NoticeInv, LastConnected
<1> QED
  BY <1>1, <1>2 DEF IInv

\* A sample is compared with the state file.
LEMMA BeginKeeps == ASSUME GridAssumption, IInv, Begin PROVE IInv'
<1>1. PICK load \in {"danger", "safe", "sunny"}, full \in BOOLEAN :
         sample' = [on |-> grid, load |-> load, full |-> full]
  BY DEF Begin
<1>2. /\ pc = "idle" /\ UNCHANGED <<files, warning, battery, outside, said>>
      /\ pc' = IF LastConnected = grid THEN "warn"
               ELSE IF corrupt THEN "idle" ELSE "history"
  BY DEF Begin
<1>3. TypeOK'
  BY <1>1, <1>2 DEF IInv, TypeOK, Sample, files, warning, battery, outside, said
<1>4. LastConnected' = LastConnected
  BY <1>2 DEF LastConnected, files
<1>5. sample'.on = grid
  BY <1>1
<1>6. ToldInv'
  BY <1>2, <1>4, <1>5 DEF IInv, ToldInv, said
<1>7. WarnInv' /\ NoticeInv'
  BY <1>2 DEF IInv, WarnInv, NoticeInv, warning, battery, outside
<1> QED
  BY <1>3, <1>6, <1>7 DEF IInv

\* The history grows by the sample.
LEMMA WriteHistoryKeeps == ASSUME GridAssumption, IInv, WriteHistory PROVE IInv'
<1>1. /\ pc = "history" /\ pc' = "state" /\ history' = <<sample.on>> \o Trim(history)
      /\ UNCHANGED <<stateFile, corrupt, sample, warning, battery, outside, said>>
  BY DEF WriteHistory
<1>2. history \in Seq(BOOLEAN) /\ Len(history) <= HistoryCount /\ sample.on \in BOOLEAN
  BY DEF IInv, TypeOK, Sample
<1>3. history' \in Seq(BOOLEAN) /\ Len(history') <= HistoryCount
  <2>1. Trim(history) \in Seq(BOOLEAN) /\ Len(Trim(history)) <= HistoryCount - 1
    BY <1>2, TrimMakesRoom
  <2>2. <<sample.on>> \in Seq(BOOLEAN) /\ Len(<<sample.on>>) = 1
    BY <1>2
  <2>3. /\ <<sample.on>> \o Trim(history) \in Seq(BOOLEAN)
        /\ Len(<<sample.on>> \o Trim(history)) = 1 + Len(Trim(history))
    BY <2>1, <2>2, ConcatProperties
  <2>4. HistoryCount \in Nat /\ Len(Trim(history)) \in Nat
    BY <2>1 DEF GridAssumption
  <2> QED
    BY <1>1, <2>1, <2>3, <2>4
<1>4. TypeOK'
  BY <1>1, <1>3 DEF IInv, TypeOK, warning, battery, outside, said
<1>5. ToldInv' /\ WarnInv' /\ NoticeInv'
  BY <1>1 DEF IInv, ToldInv, WarnInv, NoticeInv, LastConnected, warning, battery,
     outside, said
<1> QED
  BY <1>4, <1>5 DEF IInv

\* The state file takes the sample over.
LEMMA WriteStateKeeps == ASSUME GridAssumption, IInv, WriteState PROVE IInv'
<1>1. /\ pc = "state" /\ pc' = "notify"
      /\ stateFile' = IF sample.on THEN "True" ELSE "False"
      /\ UNCHANGED <<history, corrupt, sample, warning, battery, outside, said>>
  BY DEF WriteState
<1>2. sample.on \in BOOLEAN
  BY DEF IInv, TypeOK, Sample
<1>3. TypeOK'
  BY <1>1 DEF IInv, TypeOK, warning, battery, outside, said
<1>4. LastConnected' = sample.on
  BY <1>1, <1>2 DEF LastConnected
<1>5. ToldInv'
  BY <1>1, <1>4 DEF ToldInv
<1>6. WarnInv' /\ NoticeInv'
  BY <1>1 DEF IInv, WarnInv, NoticeInv, warning, battery, outside
<1> QED
  BY <1>3, <1>5, <1>6 DEF IInv

\* The recorded change is announced, or is lost.
LEMMA NotifyKeeps == ASSUME GridAssumption, IInv, Notify \/ NotifyFails PROVE IInv'
<1>1. CASE Notify
  <2>1. /\ pc = "notify" /\ pc' = "warn" /\ told' = sample.on /\ lost' = FALSE
        /\ UNCHANGED <<files, sample, warning, battery, outside, cut>>
    BY <1>1 DEF Notify
  <2>2. TypeOK'
    BY <2>1 DEF IInv, TypeOK, Sample, files, warning, battery, outside
  <2>3. ToldInv'
    BY <2>1 DEF IInv, ToldInv, LastConnected, files
  <2>4. WarnInv' /\ NoticeInv'
    BY <2>1 DEF IInv, WarnInv, NoticeInv, warning, battery, outside
  <2> QED
    BY <2>2, <2>3, <2>4 DEF IInv
<1>2. CASE NotifyFails
  <2>1. /\ pc \in {"notify", "warn", "battery"} /\ pc' = "idle"
        /\ lost' = (lost \/ pc = "notify")
        /\ UNCHANGED <<files, sample, warning, battery, outside, told, cut>>
    BY <1>2 DEF NotifyFails
  <2>2. TypeOK'
    BY <2>1 DEF IInv, TypeOK, files, warning, battery, outside
  <2>3. ToldInv'
    BY <2>1 DEF IInv, ToldInv, LastConnected, files
  <2>4. WarnInv' /\ NoticeInv'
    BY <2>1 DEF IInv, WarnInv, NoticeInv, warning, battery, outside
  <2> QED
    BY <2>2, <2>3, <2>4 DEF IInv
<1> QED
  BY <1>1, <1>2

\* The counter is set by a warning, counts down and is cleared.
LEMMA WarnKeeps == ASSUME GridAssumption, IInv, Warn PROVE IInv'
<1>1. pc = "warn" /\ pc' = "battery" /\ UNCHANGED <<files, sample, battery, outside, said>>
  BY DEF Warn
<1>2. /\ skip \in 0..SkipCount /\ quiet \in Nat /\ SkipCount \in Nat
      /\ calm \in BOOLEAN /\ WarnInv
  BY DEF IInv, TypeOK, GridAssumption
<1>3. skip' \in 0..SkipCount /\ quiet' \in Nat /\ calm' \in BOOLEAN /\ WarnInv'
  <2>1. CASE skip > 0 /\ skip' = skip - 1 /\ quiet' = quiet + 1 /\ UNCHANGED calm
    <3>1. ~calm /\ skip + quiet = SkipCount
      BY <1>2, <2>1 DEF WarnInv
    <3>2. ~calm'
      BY <2>1, <3>1
    <3>3. skip' \in 0..SkipCount /\ quiet' \in Nat /\ skip' + quiet' = SkipCount
      BY <1>2, <2>1, <3>1
    <3>4. calm' \in BOOLEAN
      BY <1>2, <2>1
    <3> QED
      BY <3>2, <3>3, <3>4, Zenon DEF WarnInv
  <2>2. CASE skip' = SkipCount /\ quiet' = 0 /\ calm' = FALSE
    <3>1. skip' \in 0..SkipCount /\ quiet' \in Nat /\ skip' + quiet' = SkipCount
      BY <1>2, <2>2
    <3>2. ~calm' /\ calm' \in BOOLEAN
      BY <2>2
    <3> QED
      BY <3>1, <3>2, Zenon DEF WarnInv
  <2>3. CASE skip' = 0 /\ calm' = TRUE /\ UNCHANGED quiet
    <3>1. skip' \in 0..SkipCount /\ quiet' \in Nat /\ skip' = 0
      BY <1>2, <2>3
    <3>2. calm' /\ calm' \in BOOLEAN
      BY <2>3
    <3> QED
      BY <3>1, <3>2, Zenon DEF WarnInv
  <2>4. CASE UNCHANGED warning
    <3>1. skip' = skip /\ quiet' = quiet /\ calm' = calm
      BY <2>4 DEF warning
    <3>2. WarnInv'
      BY <1>2, <3>1, Zenon DEF WarnInv
    <3>3. skip' \in 0..SkipCount /\ quiet' \in Nat /\ calm' \in BOOLEAN
      BY <1>2, <3>1, Zenon
    <3> QED
      BY <3>2, <3>3, Zenon
  <2>5. \/ skip > 0 /\ skip' = skip - 1 /\ quiet' = quiet + 1 /\ UNCHANGED calm
        \/ skip' = SkipCount /\ quiet' = 0 /\ calm' = FALSE
        \/ skip' = 0 /\ calm' = TRUE /\ UNCHANGED quiet
        \/ UNCHANGED warning
    BY Zenon DEF Warn
  <2> QED
    BY <2>1, <2>2, <2>3, <2>4, <2>5, Zenon
<1>4. TypeOK'
  BY <1>1, <1>3 DEF IInv, TypeOK, files, battery, outside, said
<1>5. ToldInv' /\ NoticeInv'
  BY <1>1 DEF IInv, ToldInv, NoticeInv, LastConnected, files, battery, outside, said
<1> QED
  BY <1>3, <1>4, <1>5 DEF IInv

\* The notice and its date.
LEMMA BatteryKeeps == ASSUME GridAssumption, IInv, Battery \/ SaveDate PROVE IInv'
<1>1. CASE Battery
  <2>1. /\ pc = "battery"
        /\ \/ pc' = "save" /\ notice' = "told"
           \/ pc' = "idle" /\ UNCHANGED notice
        /\ UNCHANGED <<files, sample, warning, noted, form, outside, said>>
    BY <1>1 DEF Battery
  <2>2. TypeOK'
    BY <2>1 DEF IInv, TypeOK, files, warning, outside, said
  <2>3. ToldInv' /\ WarnInv'
    BY <2>1 DEF IInv, ToldInv, WarnInv, LastConnected, files, warning, said
  <2>4. NoticeInv'
    BY <2>1 DEF IInv, NoticeInv, outside
  <2> QED
    BY <2>2, <2>3, <2>4 DEF IInv
<1>2. CASE SaveDate
  <2>1. /\ pc = "save" /\ pc' = "idle" /\ noted' = [mem |-> day, disk |-> day]
        /\ UNCHANGED <<files, sample, warning, form, notice, outside, said>>
    BY <1>2 DEF SaveDate
  <2>2. day \in 0..MaxDay
    BY DEF IInv, TypeOK, GridAssumption
  <2>3. TypeOK'
    BY <2>1, <2>2 DEF IInv, TypeOK, files, warning, outside, said
  <2>4. ToldInv' /\ WarnInv'
    BY <2>1 DEF IInv, ToldInv, WarnInv, LastConnected, files, warning, said
  <2>5. NoticeInv'
    BY <2>1 DEF NoticeInv, outside
  <2> QED
    BY <2>3, <2>4, <2>5 DEF IInv
<1> QED
  BY <1>1, <1>2

\* The date of a notice is lost.
LEMMA SaveFailsKeeps == ASSUME GridAssumption, IInv, SaveFails PROVE IInv'
<1>1. PICK date \in {noted.disk, day} : noted' = [noted EXCEPT !.disk = date]
  BY DEF SaveFails
<1>2. /\ pc = "save" /\ pc' = "idle" /\ notice' = "again"
      /\ UNCHANGED <<files, sample, warning, form, outside, said>>
  BY DEF SaveFails
<1>3. noted' \in [mem : 0..MaxDay, disk : 0..MaxDay]
  BY <1>1 DEF IInv, TypeOK, GridAssumption
<1>4. TypeOK'
  BY <1>2, <1>3 DEF IInv, TypeOK, files, warning, outside, said
<1>5. ToldInv' /\ WarnInv'
  BY <1>2 DEF IInv, ToldInv, WarnInv, LastConnected, files, warning, said
<1>6. NoticeInv'
  BY <1>2 DEF NoticeInv
<1> QED
  BY <1>4, <1>5, <1>6 DEF IInv

\* A crash keeps the record and the announcement together, or loses one.
LEMMA CrashKeeps == ASSUME GridAssumption, IInv, Crash PROVE IInv'
<1>1. /\ pc' = "down" /\ crashes < MaxCrashes /\ crashes' = crashes + 1
      /\ cut' = IF pc = "state" THEN cut + 1 ELSE cut
      /\ lost' = (lost \/ pc = "notify" \/ stateFile' # stateFile)
      /\ notice' = IF pc = "save" THEN "again" ELSE notice
      /\ UNCHANGED <<grid, day, sample, warning, noted, form, told>>
  BY DEF Crash
<1>2. \/ UNCHANGED files
      \/ history' = <<>> /\ corrupt' = TRUE /\ UNCHANGED stateFile
      \/ stateFile' = "torn" /\ UNCHANGED <<history, corrupt>>
  BY DEF Crash
<1>3. TypeOK'
  <2>1. crashes' \in 0..MaxCrashes /\ cut' \in 0..crashes'
    BY <1>1 DEF IInv, TypeOK, GridAssumption
  <2>2. notice' \in {"none", "told", "again"} /\ lost' \in BOOLEAN
    BY <1>1 DEF IInv, TypeOK
  <2>3. /\ stateFile' \in {"absent", "torn", "True", "False"}
        /\ history' \in Seq(BOOLEAN) /\ Len(history') <= HistoryCount
        /\ corrupt' \in BOOLEAN
    <3>1. CASE UNCHANGED files
      BY <3>1 DEF IInv, TypeOK, files
    <3>2. CASE history' = <<>> /\ corrupt' = TRUE /\ UNCHANGED stateFile
      <4>1. <<>> \in Seq(BOOLEAN) /\ Len(<<>>) = 0
        OBVIOUS
      <4>2. 0 <= HistoryCount
        BY DEF GridAssumption
      <4> QED
        BY <3>2, <4>1, <4>2 DEF IInv, TypeOK
    <3>3. CASE stateFile' = "torn" /\ UNCHANGED <<history, corrupt>>
      BY <3>3 DEF IInv, TypeOK
    <3> QED
      BY <1>2, <3>1, <3>2, <3>3
  <2> QED
    BY <1>1, <2>1, <2>2, <2>3 DEF IInv, TypeOK, warning
<1>4. ToldInv'
  <2>1. SUFFICES ASSUME ~lost' PROVE told' = LastConnected'
    BY <1>1 DEF ToldInv
  <2>2. pc # "notify" /\ ~lost /\ stateFile' = stateFile
    BY <1>1, <2>1
  <2>3. told = LastConnected
    BY <2>2 DEF IInv, ToldInv
  <2> QED
    BY <1>1, <2>2, <2>3 DEF LastConnected
<1>5. WarnInv' /\ NoticeInv'
  BY <1>1 DEF IInv, WarnInv, NoticeInv, warning
<1> QED
  BY <1>3, <1>4, <1>5 DEF IInv

\* A restart empties the counter, and may lose the date.
LEMMA RestartKeeps == ASSUME GridAssumption, IInv, Restart PROVE IInv'
<1>1. /\ pc = "down" /\ pc' = "idle" /\ sample' = NoSample
      /\ skip' = 0 /\ calm' = TRUE
      /\ noted' = [noted EXCEPT !.mem = IF LoadsSettings THEN noted.disk ELSE 0]
      /\ notice' = IF notice = "told" /\ noted'.mem # day THEN "again" ELSE notice
      /\ UNCHANGED <<files, outside, said, quiet, form>>
  BY DEF Restart
<1>2. noted' \in [mem : 0..MaxDay, disk : 0..MaxDay]
  BY <1>1 DEF IInv, TypeOK, GridAssumption
<1>3. skip' \in 0..SkipCount /\ calm' \in BOOLEAN /\ sample' \in Sample
  BY <1>1 DEF GridAssumption, Sample, NoSample
<1>4. notice' \in {"none", "told", "again"}
  BY <1>1 DEF IInv, TypeOK
<1>5. TypeOK'
  BY <1>1, <1>2, <1>3, <1>4 DEF IInv, TypeOK, files, outside, said
<1>6. ToldInv'
  BY <1>1 DEF IInv, ToldInv, LastConnected, files, said
<1>7. WarnInv'
  BY <1>1 DEF WarnInv
<1>8. NoticeInv'
  BY <1>1 DEF NoticeInv, outside
<1> QED
  BY <1>5, <1>6, <1>7, <1>8 DEF IInv

\* The settings page.
LEMMA PageKeeps == ASSUME GridAssumption, IInv, OpenPage \/ SavePage PROVE IInv'
<1>1. CASE OpenPage
  <2>1. /\ form' = noted.mem
        /\ UNCHANGED <<files, pc, sample, warning, outside, said, noted, notice>>
    BY <1>1 DEF OpenPage
  <2>2. TypeOK'
    BY <2>1 DEF IInv, TypeOK, files, warning, outside, said
  <2>3. ToldInv' /\ WarnInv' /\ NoticeInv'
    BY <2>1 DEF IInv, ToldInv, WarnInv, NoticeInv, LastConnected, files, warning,
       outside, said
  <2> QED
    BY <2>2, <2>3 DEF IInv
<1>2. CASE SavePage
  <2>1. /\ noted' = [mem |-> form, disk |-> form] /\ form' = 0
        /\ notice' = IF notice = "told" /\ form # day THEN "again" ELSE notice
        /\ UNCHANGED <<files, pc, sample, warning, outside, said>>
    BY <1>2 DEF SavePage
  <2>2. noted' \in [mem : 0..MaxDay, disk : 0..MaxDay] /\ form' \in 0..MaxDay
    BY <2>1 DEF IInv, TypeOK, GridAssumption
  <2>3. notice' \in {"none", "told", "again"}
    BY <2>1 DEF IInv, TypeOK
  <2>4. TypeOK'
    BY <2>1, <2>2, <2>3 DEF IInv, TypeOK, files, warning, outside, said
  <2>5. ToldInv' /\ WarnInv'
    BY <2>1 DEF IInv, ToldInv, WarnInv, LastConnected, files, warning, said
  <2>6. NoticeInv'
    BY <2>1 DEF NoticeInv, outside
  <2> QED
    BY <2>4, <2>5, <2>6 DEF IInv
<1> QED
  BY <1>1, <1>2

\* The world outside: the grid and the clock.
LEMMA OutsideKeeps == ASSUME GridAssumption, IInv, Switch \/ Midnight PROVE IInv'
<1>1. CASE Switch
  <2>1. /\ grid' = ~grid
        /\ UNCHANGED <<files, pc, sample, warning, battery, day, crashes, said>>
    BY <1>1 DEF Switch
  <2>2. grid' \in BOOLEAN
    BY <2>1
  <2>3. TypeOK'
    BY <2>1, <2>2 DEF IInv, TypeOK, files, warning, battery, said
  <2>4. ToldInv' /\ WarnInv' /\ NoticeInv'
    BY <2>1 DEF IInv, ToldInv, WarnInv, NoticeInv, LastConnected, files, warning,
       battery, said
  <2> QED
    BY <2>3, <2>4 DEF IInv
<1>2. CASE Midnight
  <2>1. /\ day < MaxDay /\ day' = day + 1 /\ notice' = "none"
        /\ UNCHANGED <<files, pc, sample, warning, noted, form, grid, crashes, said>>
    BY <1>2 DEF Midnight
  <2>2. day' \in 1..MaxDay
    BY <2>1 DEF IInv, TypeOK, GridAssumption
  <2>3. TypeOK'
    BY <2>1, <2>2 DEF IInv, TypeOK, files, warning, said
  <2>4. ToldInv' /\ WarnInv'
    BY <2>1 DEF IInv, ToldInv, WarnInv, LastConnected, files, warning, said
  <2>5. NoticeInv'
    BY <2>1 DEF NoticeInv
  <2> QED
    BY <2>3, <2>4, <2>5 DEF IInv
<1> QED
  BY <1>1, <1>2

\* Every step preserves the inductive invariant.
LEMMA NextKeeps == ASSUME GridAssumption, IInv, [Next]_vars PROVE IInv'
<1>1. CASE UNCHANGED vars
  BY <1>1 DEF IInv, TypeOK, ToldInv, WarnInv, NoticeInv, LastConnected, vars
<1>2. CASE Next
  BY <1>2, BeginKeeps, WriteHistoryKeeps, WriteStateKeeps, NotifyKeeps, WarnKeeps,
     BatteryKeeps, SaveFailsKeeps, CrashKeeps, RestartKeeps, PageKeeps, OutsideKeeps
     DEF Next, Handle
<1> QED
  BY <1>1, <1>2

\* It holds in every state.
LEMMA AlwaysIInv == ASSUME GridAssumption PROVE Spec => []IInv
<1>1. Init => IInv
  BY InitIInv
<1>2. IInv /\ [Next]_vars => IInv'
  BY NextKeeps
<1> QED
  BY <1>1, <1>2, PTL DEF Spec

\* The handler and its files keep their types: the history never outgrows
\* HISTORY_COUNT.
THEOREM TypeCorrect == ASSUME GridAssumption PROVE Spec => []TypeOK
<1>1. IInv => TypeOK
  BY DEF IInv
<1> QED
  BY <1>1, AlwaysIInv, PTL

\* No change of the grid is recorded silently or announced twice, for any
\* number of samples, crashes and restarts.
THEOREM ToldCorrect == ASSUME GridAssumption PROVE Spec => []ToldTheState
<1>1. IInv => ToldTheState
  BY DEF IInv, ToldInv, ToldTheState
<1> QED
  BY <1>1, AlwaysIInv, PTL

\* The off-grid warnings are spaced as the counter is meant to space them,
\* whatever SkipCount.
THEOREM WarningsCorrect == ASSUME GridAssumption PROVE Spec => WarningsSpaced
<1> DEFINE W == pc = "warn" /\ pc' = "battery" /\ OffGrid /\ sample.load = "danger"
                => (quiet' = 0 <=> calm \/ quiet = SkipCount)
<1>1. ASSUME GridAssumption, IInv, Next PROVE W
  <2>1. SUFFICES ASSUME pc = "warn", pc' = "battery", OffGrid, sample.load = "danger"
                 PROVE  quiet' = 0 <=> calm \/ quiet = SkipCount
    OBVIOUS
  <2>2. Warn
    BY <1>1, <2>1 DEF Next, Handle, Begin, WriteHistory, WriteState, Notify, Battery,
       SaveDate, SaveFails, NotifyFails, Restart, Crash, OpenPage, SavePage, Switch, Midnight
  <2>3. skip \in Nat /\ quiet \in Nat /\ SkipCount \in Nat /\ WarnInv
    BY <1>1 DEF IInv, TypeOK, GridAssumption
  <2>4. \/ skip > 0 /\ quiet' = quiet + 1
        \/ skip = 0 /\ quiet' = 0
    BY <2>1, <2>2 DEF Warn
  <2>5. skip = 0 <=> calm \/ quiet = SkipCount
    <3>1. CASE calm
      BY <2>3, <3>1 DEF WarnInv
    <3>2. CASE ~calm
      <4>1. skip + quiet = SkipCount
        BY <2>3, <3>2 DEF WarnInv
      <4>2. skip = 0 <=> quiet = SkipCount
        BY <2>3, <4>1
      <4> QED
        BY <3>2, <4>2
    <3> QED
      BY <3>1, <3>2
  <2>6. quiet' = 0 <=> skip = 0
    BY <2>3, <2>4
  <2> QED
    BY <2>5, <2>6
<1>2. IInv /\ [Next]_vars => [W]_vars
  BY <1>1
<1> QED
  BY <1>2, AlwaysIInv, PTL DEF Spec, WarningsSpaced

\* "Battery full" is announced once a day, but for a lost date.
THEOREM BatteryCorrect == ASSUME GridAssumption PROVE Spec => BatteryOncePerDay
<1>1. ASSUME IInv, Next, pc = "battery", pc' = "save" PROVE notice # "told"
  <2>1. Battery
    BY <1>1 DEF Next, Handle, Begin, WriteHistory, WriteState, Notify, Warn,
       SaveDate, SaveFails, NotifyFails, Restart, Crash, OpenPage, SavePage, Switch, Midnight
  <2>2. noted.mem # day
    BY <1>1, <2>1 DEF Battery
  <2> QED
    BY <1>1, <2>2 DEF IInv, NoticeInv
<1>2. IInv /\ [Next]_vars => [pc = "battery" /\ pc' = "save" => notice # "told"]_vars
  BY <1>1
<1> QED
  BY <1>2, AlwaysIInv, PTL DEF Spec, BatteryOncePerDay
-----------------------------------------------------------------------------
(* The history.                                                            *)

\* The entries that repeat the one before them.
Repeats(h) == {i \in 1..(Len(h) - 1) : h[i] = h[i + 1]}

\* The newest entry is not what the state file says.
Ahead == history # <<>> /\ history[1] # LastConnected

\* Every repeated entry was paid for by a crash, and so is an entry the state
\* file does not know of, which will be repeated.
StoryInv ==
    /\ pc # "state" =>
          Cardinality(Repeats(history)) + (IF Ahead THEN 1 ELSE 0) <= cut
    /\ pc = "state" =>
          Cardinality(Repeats(history)) <= cut /\ history # <<>> /\ history[1] = sample.on

\* The repeated entries can be counted.
LEMMA RepeatsFinite ==
    ASSUME NEW h \in Seq(BOOLEAN)
    PROVE  IsFiniteSet(Repeats(h)) /\ Cardinality(Repeats(h)) \in Nat
<1>1. IsFiniteSet(1..(Len(h) - 1))
  BY FS_Interval
<1>2. Repeats(h) \in SUBSET (1..(Len(h) - 1))
  BY DEF Repeats
<1>3. IsFiniteSet(Repeats(h))
  BY <1>1, <1>2, FS_Subset
<1> QED
  BY <1>3, FS_CardinalityType

\* Trimming repeats nothing and leaves the newest entry, if it leaves any.
LEMMA TrimRepeats ==
    ASSUME GridAssumption, NEW h \in Seq(BOOLEAN), Len(h) <= HistoryCount
    PROVE  /\ Cardinality(Repeats(Trim(h))) <= Cardinality(Repeats(h))
           /\ Trim(h) # <<>> => h # <<>> /\ Trim(h)[1] = h[1]
<1>1. CASE Len(h) = HistoryCount
  <2>1. Len(h) > 0
    BY <1>1 DEF GridAssumption
  <2>2. Trim(h) = SubSeq(h, 1, Len(h) - 1)
    BY <1>1 DEF Trim, Front
  <2>3. /\ Len(Trim(h)) = Len(h) - 1
        /\ \A i \in 1..(Len(h) - 1) : Trim(h)[i] = h[i]
    <3>1. /\ 1 \in Int /\ Len(h) - 1 \in Int
          /\ \A i \in 1..(Len(h) - 1) : h[i] \in BOOLEAN
      BY <2>1
    <3>2. /\ Len(SubSeq(h, 1, Len(h) - 1))
               = IF 1 <= Len(h) - 1 THEN Len(h) - 1 - 1 + 1 ELSE 0
          /\ \A i \in 1..(Len(h) - 1 - 1 + 1) :
                SubSeq(h, 1, Len(h) - 1)[i] = h[1 + i - 1]
      BY <3>1, SubSeqProperties
    <3>3. Len(h) - 1 - 1 + 1 = Len(h) - 1 /\ \A i \in Int : 1 + i - 1 = i
      BY <2>1
    <3> QED
      BY <2>1, <2>2, <3>2, <3>3
  <2>4. Repeats(Trim(h)) \in SUBSET Repeats(h)
    BY <2>1, <2>3 DEF Repeats
  <2>5. Cardinality(Repeats(Trim(h))) <= Cardinality(Repeats(h))
    BY <2>4, RepeatsFinite, FS_Subset
  <2>6. Trim(h) # <<>> => h # <<>> /\ Trim(h)[1] = h[1]
    <3>1. SUFFICES ASSUME Trim(h) # <<>> PROVE h # <<>> /\ Trim(h)[1] = h[1]
      OBVIOUS
    <3>2. Trim(h) \in Seq(BOOLEAN)
      BY TrimMakesRoom
    <3>3. Len(Trim(h)) # 0
      BY <3>1, <3>2, EmptySeq
    <3>4. 1 \in 1..(Len(h) - 1)
      BY <2>1, <2>3, <3>3
    <3> QED
      BY <2>1, <2>3, <3>4
  <2> QED
    BY <2>5, <2>6
<1>2. CASE Len(h) # HistoryCount
  BY <1>2, RepeatsFinite DEF Trim
<1> QED
  BY <1>1, <1>2

\* A new entry adds a repetition when it equals the newest one.
LEMMA ConsRepeats ==
    ASSUME NEW h \in Seq(BOOLEAN), NEW x \in BOOLEAN
    PROVE  Cardinality(Repeats(<<x>> \o h))
               <= Cardinality(Repeats(h)) + (IF h # <<>> /\ h[1] = x THEN 1 ELSE 0)
<1> DEFINE g == <<x>> \o h
           shift == [i \in Repeats(h) |-> i + 1]
           moved == {i + 1 : i \in Repeats(h)}
<1>1. /\ Len(g) = 1 + Len(h) /\ g[1] = x
      /\ \A i \in 1..Len(h) : g[i + 1] = h[i]
  <2>1. <<x>> \in Seq(BOOLEAN) /\ Len(<<x>>) = 1 /\ <<x>>[1] = x
    OBVIOUS
  <2> QED
    BY <2>1, ConcatProperties
<1>2. IsFiniteSet(moved) /\ Cardinality(moved) <= Cardinality(Repeats(h))
  <2>1. shift \in Surjection(Repeats(h), moved)
    BY DEF Surjection
  <2> QED
    BY <2>1, RepeatsFinite, FS_Surjection
<1>3. Cardinality(moved) \in Nat /\ Cardinality(Repeats(h)) \in Nat
  BY <1>2, RepeatsFinite, FS_CardinalityType
<1>4. Repeats(g) \subseteq moved \cup {1}
  <2>1. SUFFICES ASSUME NEW i \in Repeats(g), i # 1 PROVE i \in moved
    OBVIOUS
  <2>2. i \in 1..Len(h) /\ g[i] = g[i + 1]
    BY <1>1, <2>1 DEF Repeats
  <2>3. i - 1 \in 1..(Len(h) - 1) /\ g[(i - 1) + 1] = h[i - 1] /\ g[i + 1] = h[i]
    BY <1>1, <2>1, <2>2
  <2>4. i - 1 \in Repeats(h) /\ i = (i - 1) + 1
    BY <2>2, <2>3 DEF Repeats
  <2> QED
    BY <2>4
<1>5. CASE h # <<>> /\ h[1] = x
  <2>1. IsFiniteSet(moved \cup {1}) /\ Cardinality(moved \cup {1}) <= Cardinality(moved) + 1
    <3>1. /\ IsFiniteSet(moved \cup {1})
          /\ Cardinality(moved \cup {1})
               = IF 1 \in moved THEN Cardinality(moved) ELSE Cardinality(moved) + 1
      BY <1>2, FS_AddElement
    <3> HIDE DEF moved
    <3> QED
      BY <1>3, <3>1
  <2>2. /\ Cardinality(Repeats(g)) <= Cardinality(moved \cup {1})
        /\ Cardinality(Repeats(g)) \in Nat /\ Cardinality(moved \cup {1}) \in Nat
    BY <1>4, <2>1, FS_Subset, FS_CardinalityType
  <2> QED
    BY <1>2, <1>3, <1>5, <2>1, <2>2
<1>6. CASE ~(h # <<>> /\ h[1] = x)
  <2>1. 1 \notin Repeats(g)
    <3>1. SUFFICES ASSUME 1 \in Repeats(g) PROVE FALSE
      OBVIOUS
    <3>2. Len(h) >= 1 /\ g[1] = g[1 + 1]
      BY <1>1, <3>1 DEF Repeats
    <3>3. h # <<>> /\ g[1 + 1] = h[1]
      BY <1>1, <3>2
    <3> QED
      BY <1>1, <1>6, <3>2, <3>3
  <2>2. Repeats(g) \in SUBSET moved
    BY <1>4, <2>1
  <2>3. /\ Cardinality(Repeats(g)) <= Cardinality(moved)
        /\ Cardinality(Repeats(g)) \in Nat
    BY <1>2, <2>2, FS_Subset, FS_CardinalityType
  <2> QED
    BY <1>2, <1>3, <1>6, <2>3
<1> QED
  BY <1>5, <1>6

\* The story holds in the initial states.
LEMMA StoryInit == ASSUME Init PROVE StoryInv
<1>1. Repeats(<<>>) = {}
  BY DEF Repeats
<1> QED
  BY <1>1, FS_EmptySet DEF Init, StoryInv, Ahead

\* The history is written: a repetition was ahead of the state file.
LEMMA StoryWrite ==
    ASSUME GridAssumption, IInv, StoryInv, WriteHistory PROVE StoryInv'
<1>1. /\ pc = "history" /\ pc' = "state" /\ history' = <<sample.on>> \o Trim(history)
      /\ UNCHANGED <<sample, cut>>
  BY DEF WriteHistory, said
<1>2. /\ history \in Seq(BOOLEAN) /\ Len(history) <= HistoryCount
      /\ sample.on \in BOOLEAN /\ cut \in Nat
  BY DEF IInv, TypeOK, Sample, GridAssumption
<1>3. sample.on # LastConnected /\ LastConnected \in BOOLEAN
  BY <1>1 DEF IInv, ToldInv, LastConnected
<1>4. Cardinality(Repeats(history)) + (IF Ahead THEN 1 ELSE 0) <= cut
  BY <1>1 DEF StoryInv
<1>5. Trim(history) \in Seq(BOOLEAN)
  BY <1>2, TrimMakesRoom
<1>6. Trim(history) # <<>> /\ Trim(history)[1] = sample.on => Ahead
  BY <1>2, <1>3, TrimRepeats DEF Ahead
<1>7. Cardinality(Repeats(history')) <= cut
  <2>1. Cardinality(Repeats(history'))
          <= Cardinality(Repeats(Trim(history)))
             + (IF Trim(history) # <<>> /\ Trim(history)[1] = sample.on THEN 1 ELSE 0)
    BY <1>1, <1>2, <1>5, ConsRepeats
  <2>2. history' \in Seq(BOOLEAN)
    BY <1>1, <1>2, <1>5
  <2>3. /\ Cardinality(Repeats(history')) \in Nat
        /\ Cardinality(Repeats(Trim(history))) \in Nat
        /\ Cardinality(Repeats(history)) \in Nat
    BY <1>2, <1>5, <2>2, RepeatsFinite
  <2>4. Cardinality(Repeats(Trim(history))) <= Cardinality(Repeats(history))
    BY <1>2, TrimRepeats
  <2> QED
    BY <1>2, <1>4, <1>6, <2>1, <2>3, <2>4
<1>8. history' # <<>> /\ history'[1] = sample'.on
  <2>1. <<sample.on>> \in Seq(BOOLEAN) /\ Len(<<sample.on>>) = 1 /\ <<sample.on>>[1] = sample.on
    BY <1>2
  <2>2. Len(history') = 1 + Len(Trim(history)) /\ history'[1] = sample.on
    BY <1>1, <1>5, <2>1, ConcatProperties
  <2> QED
    BY <1>1, <1>5, <2>2
<1> QED
  BY <1>1, <1>7, <1>8 DEF StoryInv

\* The process ends; after the history was written the crash pays for the
\* entry that will be repeated.
LEMMA StoryCrash ==
    ASSUME GridAssumption, IInv, StoryInv, Crash PROVE StoryInv'
<1>1. /\ pc' = "down" /\ cut' = IF pc = "state" THEN cut + 1 ELSE cut
      /\ \/ UNCHANGED files
         \/ pc = "history" /\ history' = <<>> /\ UNCHANGED stateFile
         \/ pc = "state" /\ stateFile' = "torn" /\ UNCHANGED <<history, corrupt>>
  BY DEF Crash
<1>2. history \in Seq(BOOLEAN) /\ cut \in Nat /\ Cardinality(Repeats(history)) \in Nat
  BY RepeatsFinite DEF IInv, TypeOK, GridAssumption
<1>3. CASE pc = "state"
  <2>1. history' = history /\ cut' = cut + 1 /\ Cardinality(Repeats(history)) <= cut
    BY <1>1, <1>3 DEF files, StoryInv
  <2>2. Cardinality(Repeats(history')) + (IF Ahead' THEN 1 ELSE 0) <= cut'
    BY <1>2, <2>1
  <2> QED
    BY <1>1, <2>2 DEF StoryInv
<1>4. CASE pc # "state" /\ UNCHANGED files
  BY <1>1, <1>4 DEF files, StoryInv, Ahead, LastConnected
<1>5. CASE pc = "history" /\ history' = <<>>
  <2>1. Repeats(history') = {} /\ ~Ahead' /\ cut' = cut
    BY <1>1, <1>5 DEF Repeats, Ahead
  <2> QED
    BY <1>1, <1>2, <2>1, FS_EmptySet DEF StoryInv
<1> QED
  BY <1>1, <1>3, <1>4, <1>5

\* Every step keeps the story.
LEMMA StoryStep ==
    ASSUME GridAssumption, IInv, StoryInv, [Next]_vars PROVE StoryInv'
<1>1. CASE WriteHistory
  BY <1>1, StoryWrite
<1>2. CASE Crash
  BY <1>2, StoryCrash
<1>3. CASE WriteState
  <2>1. /\ pc = "state" /\ pc' = "notify" /\ history' = history /\ cut' = cut
        /\ stateFile' = IF sample.on THEN "True" ELSE "False"
    BY <1>3 DEF WriteState, said
  <2>2. sample.on \in BOOLEAN /\ cut \in Nat /\ Cardinality(Repeats(history)) \in Nat
    BY RepeatsFinite DEF IInv, TypeOK, Sample, GridAssumption
  <2>3. LastConnected' = sample.on
    BY <2>1, <2>2 DEF LastConnected
  <2>4. Cardinality(Repeats(history)) <= cut /\ ~Ahead'
    BY <2>1, <2>3 DEF StoryInv, Ahead
  <2>5. Cardinality(Repeats(history')) + (IF Ahead' THEN 1 ELSE 0) <= cut'
    BY <2>1, <2>2, <2>4
  <2> QED
    BY <2>1, <2>5 DEF StoryInv
<1>4. ASSUME \/ Begin \/ Notify \/ Warn \/ Battery \/ SaveDate \/ SaveFails \/ NotifyFails
             \/ Restart \/ OpenPage \/ SavePage \/ Switch \/ Midnight \/ UNCHANGED vars
      PROVE  /\ UNCHANGED <<stateFile, history, cut>>
             /\ \/ pc # "state" /\ pc' # "state"
                \/ pc' = pc /\ sample' = sample
  BY <1>4 DEF Begin, Notify, Warn, Battery, SaveDate, SaveFails, NotifyFails,
     Restart, OpenPage, SavePage, Switch, Midnight, vars, files, said, outside
<1>5. ASSUME /\ UNCHANGED <<stateFile, history, cut>>
             /\ \/ pc # "state" /\ pc' # "state"
                \/ pc' = pc /\ sample' = sample
      PROVE  StoryInv'
  BY <1>5 DEF StoryInv, Ahead, LastConnected
<1> QED
  BY <1>1, <1>2, <1>3, <1>4, <1>5 DEF Next, Handle

\* The history tells the comings and goings of the grid by turns, but for one
\* repeated entry for each crash between the two files, for any number of
\* samples and crashes and any HISTORY_COUNT.
THEOREM HistoryCorrect == ASSUME GridAssumption PROVE Spec => []HistoryAlternates
<1>1. Init => StoryInv
  BY StoryInit
<1>2. IInv /\ StoryInv /\ [Next]_vars => StoryInv'
  BY StoryStep
<1>3. IInv /\ StoryInv => HistoryAlternates
  <2>1. SUFFICES ASSUME IInv, StoryInv PROVE Cardinality(Repeats(history)) <= cut
    BY DEF HistoryAlternates, Repeats
  <2>2. cut \in Nat /\ Cardinality(Repeats(history)) \in Nat
    BY <2>1, RepeatsFinite DEF IInv, TypeOK, GridAssumption
  <2> QED
    BY <2>1, <2>2 DEF StoryInv
<1> QED
  BY <1>1, <1>2, <1>3, AlwaysIInv, PTL DEF Spec
=============================================================================
