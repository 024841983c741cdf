------------------------- MODULE TuyaDevices_proofs -------------------------
(***************************************************************************)
(* Safety of TuyaDevices for any devices, addresses, names and threads,    *)
(* and any number of moves, faults and edits.                              *)
(***************************************************************************)
EXTENDS TuyaDevices, FiniteSetTheorems, TLAPS

(* The inductive invariant.                                                *)

\* A job that is not a poll is about one device, one that looks for devices
\* has some to look for, and the age of the scan counts between the reading of
\* the time and the lock only.
Sound(j) ==
    /\ j \in Job
    /\ j.what # "poll" => \E d \in Devices : j.todo = {d}
    /\ j.pc \in {"idle", "fetch"} => j.what = "poll"
    /\ j.pc \in {"ask", "lock", "scan", "heal"} => j.todo # {}
    /\ j.aged => j.pc = "lock"

Tables ==
    /\ at \in [Devices -> Place]
    /\ listed \subseteq Devices
    /\ ip \in [Devices -> Addresses]
    /\ name \in [Devices -> Names]
    /\ cache \in [Devices -> Place]
    /\ stale \in BOOLEAN
    /\ told \in [Devices -> Names \cup {None}]

\* Who found the cache too old before the lock still finds it so under it: a
\* scan that ends in between resets the age of all that wait.
Jobs ==
    /\ job \in [Threads -> Job]
    /\ \A w \in Threads : Sound(job[w])
    /\ \A w \in Threads : job[w].aged => stale
    /\ \A w, v \in Threads : job[w].pc = "scan" /\ job[v].pc = "scan" => w = v

\* What a device is set to for a job is the value that the job has fixed, and
\* nothing before it has.
Applied ==
    /\ applied \in [Threads -> SUBSET BOOLEAN]
    /\ \A w \in Threads : \A u \in applied[w] : job[w].pc = "set" /\ u = job[w].value

IInv == Tables /\ Jobs /\ ScanIsShared /\ UserEditsKept /\ Applied

-----------------------------------------------------------------------------
(* One thread takes a step.                                                *)

\* No thread's job changes but the one that steps.
LEMMA StepJob ==
    ASSUME job \in [Threads -> Job], NEW w \in Threads, NEW next \in Job, Step(w, next)
    PROVE  /\ job' \in [Threads -> Job]
           /\ job'[w] = next
           /\ \A v \in Threads : v # w => job'[v] = job[v]
BY DEF Step

\* A step of one thread keeps what holds of the jobs and of the scan, when its
\* next job does and, to scan, the lock is free and the cache of no use.
LEMMA StepKeeps ==
    ASSUME Jobs, ScanIsShared, NEW w \in Threads, NEW next, Step(w, next),
           Sound(next), next.aged => stale,
           \/ next.pc # "scan"
           \/ ~Scanning /\ (cache = Unseen \/ stale),
           UNCHANGED scans
    PROVE  Jobs' /\ ScanIsShared'
<1>1. /\ job' \in [Threads -> Job]
      /\ job'[w] = next
      /\ \A v \in Threads : v # w => job'[v] = job[v]
  BY StepJob DEF Jobs, Sound
<1>2. cache' = cache /\ stale' = stale
  BY DEF scans
<1>3. \A v \in Threads : Sound(job'[v]) /\ (job'[v].aged => stale)
  BY <1>1 DEF Jobs
<1>4. Jobs'
  <2>1. ASSUME NEW v \in Threads, NEW u \in Threads,
               job'[v].pc = "scan", job'[u].pc = "scan"
        PROVE  v = u
    <3>1. CASE next.pc # "scan"
      BY <1>1, <2>1, <3>1 DEF Jobs
    <3>2. CASE ~Scanning
      BY <1>1, <2>1, <3>2 DEF Scanning
    <3> QED
      BY <3>1, <3>2
  <2> QED
    BY <1>1, <1>2, <1>3, <2>1 DEF Jobs, Sound
<1>5. ScanIsShared'
  <2>1. CASE next.pc # "scan"
    BY <1>1, <1>2, <2>1 DEF ScanIsShared, Unseen
  <2>2. CASE cache = Unseen \/ stale
    BY <1>2, <2>2 DEF ScanIsShared, Unseen
  <2> QED
    BY <2>1, <2>2
<1> QED
  BY <1>4, <1>5

\* The tables are as they were.
LEMMA TablesStay ==
    ASSUME Tables, UserEditsKept, UNCHANGED <<at, table, scans, told>>
    PROVE  Tables' /\ UserEditsKept'
BY DEF Tables, UserEditsKept, table, scans, Place

\* No device is set by a step of a thread that sends no command.
LEMMA AppliedStays ==
    ASSUME Jobs, Applied, NEW w \in Threads, NEW next \in Job, Step(w, next),
           job[w].pc # "set", UNCHANGED applied
    PROVE  Applied'
<1>1. \A v \in Threads : v # w => job'[v] = job[v]
  BY StepJob DEF Jobs
<1> QED
  BY <1>1 DEF Applied

\* An idle job is a sound one.
LEMMA IdleJob == Idle \in Job /\ Sound(Idle) /\ Idle.pc = "idle" /\ ~Idle.aged
BY DEF Idle, Job, Sound, Unseen, Place

\* The work of a thread that changes nothing but its job.
LEMMA WorkKeeps ==
    ASSUME IInv, NEW w \in Threads, NEW next, Step(w, next),
           Sound(next), next.aged => stale,
           \/ next.pc # "scan"
           \/ ~Scanning /\ (cache = Unseen \/ stale),
           job[w].pc # "set",
           UNCHANGED <<world, table, scans, user, applied>>
    PROVE  IInv'
<1>1. UNCHANGED scans /\ UNCHANGED <<at, table, scans, told>> /\ UNCHANGED applied
  BY DEF world, user, scans
<1>2. Jobs' /\ ScanIsShared'
  BY <1>1, StepKeeps DEF IInv
<1>3. Tables' /\ UserEditsKept'
  BY <1>1, TablesStay DEF IInv
<1>4. Applied'
  BY <1>1, AppliedStays DEF IInv, Sound
<1> QED
  BY <1>2, <1>3, <1>4 DEF IInv

-----------------------------------------------------------------------------
(* The network and the user.                                               *)

\* At first every device has its address and no thread does anything.
LEMMA InitInv == ASSUME DeviceAssumption, Init PROVE IInv
<1>1. (CHOOSE n \in Names : TRUE) \in Names
  BY DEF DeviceAssumption
<1>2. Tables
  BY <1>1 DEF Init, Tables, DeviceAssumption, Place, Unseen
<1>3. \A w \in Threads : job[w] = Idle
  BY DEF Init
<1>4. Jobs
  BY <1>3, IdleJob DEF Init, Jobs
<1>5. ScanIsShared
  BY DEF Init, ScanIsShared
<1>6. UserEditsKept
  BY DEF Init, UserEditsKept
<1>7. Applied
  BY DEF Init, Applied
<1> QED
  BY <1>2, <1>4, <1>5, <1>6, <1>7 DEF IInv

\* The network gives a device another address.
LEMMA MoveInv ==
    ASSUME IInv, NEW d \in Devices, NEW a \in Place, Move(d, a)
    PROVE  IInv'
<1>1. at' \in [Devices -> Place]
  BY DEF Move, IInv, Tables
<1>2. UNCHANGED <<table, scans, job, told, applied>>
  BY DEF Move, user
<1> QED
  BY <1>1, <1>2 DEF IInv, Tables, Jobs, ScanIsShared, UserEditsKept, Applied, Sound,
                    table, scans, Unseen

\* The user adds a device, or gives it another name or address.
LEMMA AddInv ==
    ASSUME DeviceAssumption, IInv,
           NEW d \in Edited, NEW n \in Names, NEW a \in Addresses, add_device(d, n, a)
    PROVE  IInv'
<1>1. d \in Devices
  BY DEF DeviceAssumption
<1>2. UNCHANGED <<at, scans, job, applied>>
  BY DEF add_device, world
<1>3. Tables'
  BY <1>1, <1>2 DEF add_device, IInv, Tables, scans
<1>4. UserEditsKept'
  BY <1>1 DEF add_device, IInv, Tables, UserEditsKept
<1> QED
  BY <1>2, <1>3, <1>4 DEF IInv, Jobs, ScanIsShared, Applied, Sound, scans, Unseen

\* The user gives a device another name, if it is in the table.
LEMMA RenameInv ==
    ASSUME DeviceAssumption, IInv,
           NEW d \in Edited, NEW n \in Names, update_device_name(d, n)
    PROVE  IInv'
<1>1. d \in Devices
  BY DEF DeviceAssumption
<1>2. UNCHANGED <<at, listed, ip, scans, job, applied>>
  BY DEF update_device_name, world
<1>3. Tables'
  BY <1>1, <1>2 DEF update_device_name, IInv, Tables, scans
<1>4. UserEditsKept'
  BY <1>1, <1>2 DEF update_device_name, IInv, Tables, UserEditsKept
<1> QED
  BY <1>2, <1>3, <1>4 DEF IInv, Jobs, ScanIsShared, Applied, Sound, scans, Unseen

\* The user deletes a device.
LEMMA DeleteInv ==
    ASSUME DeviceAssumption, IInv, NEW d \in Edited, delete_device(d)
    PROVE  IInv'
<1>1. d \in Devices
  BY DEF DeviceAssumption
<1>2. UNCHANGED <<at, ip, name, scans, job, applied>>
  BY DEF delete_device, world
<1>3. Tables'
  BY <1>1, <1>2 DEF delete_device, IInv, Tables, scans
<1>4. UserEditsKept'
  BY <1>1, <1>2 DEF delete_device, IInv, Tables, UserEditsKept
<1> QED
  BY <1>2, <1>3, <1>4 DEF IInv, Jobs, ScanIsShared, Applied, Sound, scans, Unseen

-----------------------------------------------------------------------------
(* Status and control.                                                     *)

\* What a request starts is a sound job.
LEMMA StartInv ==
    ASSUME IInv, NEW w \in Threads, NEW what, NEW devices \in SUBSET Devices, NEW pc,
           Start(w, what, devices, pc),
           \/ what = "poll" /\ pc = "fetch"
           \/ what \in {"status"} \cup Commands /\ pc = "try"
                /\ \E d \in Devices : devices = {d}
    PROVE  IInv'
<1> DEFINE next == [Idle EXCEPT !.what = what, !.todo = devices, !.ips = Rows(devices),
                                !.pc = pc]
<1>1. next.pc \in {"fetch", "try"} /\ ~next.aged /\ next.pc = pc /\ next.what = what
        /\ next.todo = devices
  BY DEF Idle
<1>2. next \in Job
  <2>1. Rows(devices) \in [Devices -> Place]
    BY DEF Rows, Place, IInv, Tables
  <2> QED
    BY <2>1 DEF Idle, Job, Unseen, Place, Commands
<1>3. Sound(next)
  BY <1>1, <1>2 DEF Sound, Commands
<1>4. Step(w, next) /\ job[w].pc = "idle" /\ UNCHANGED <<world, table, scans, user, applied>>
  BY DEF Start
<1> HIDE DEF next
<1> QED
  BY <1>1, <1>3, <1>4, WorkKeeps

\* A device of a batch answers or fails.
LEMMA FetchInv ==
    ASSUME IInv, NEW w \in Threads, NEW d \in Devices, FetchOne(w, d)
    PROVE  IInv'
<1>1. job[w] \in Job /\ Sound(job[w]) /\ job[w].pc = "fetch"
  BY DEF FetchOne, IInv, Jobs
<1> DEFINE answered == [job[w] EXCEPT !.todo = @ \ {d}]
           missed == [job[w] EXCEPT !.todo = @ \ {d}, !.failed = @ \cup {d}]
<1>2. answered \in Job /\ answered.pc = "fetch" /\ answered.what = job[w].what
        /\ answered.aged = job[w].aged
  BY <1>1 DEF Job
<1>3. missed \in Job /\ missed.pc = "fetch" /\ missed.what = job[w].what
        /\ missed.aged = job[w].aged
  <2>1. job[w].failed \cup {d} \in SUBSET Devices /\ job[w].todo \ {d} \in SUBSET Devices
    BY <1>1 DEF Job
  <2> QED
    BY <1>1, <2>1 DEF Job
<1>4. Sound(answered) /\ ~answered.aged /\ Sound(missed) /\ ~missed.aged
  BY <1>1, <1>2, <1>3 DEF Sound
<1>5. Step(w, answered) \/ Step(w, missed)
  BY DEF FetchOne
<1> HIDE DEF answered, missed
<1> QED
  BY <1>1, <1>2, <1>3, <1>4, <1>5, WorkKeeps DEF FetchOne

\* The response of a batch is sent.
LEMMA RespondInv == ASSUME IInv, NEW w \in Threads, Respond(w) PROVE IInv'
<1>1. job[w] \in Job /\ Sound(job[w]) /\ job[w].pc = "fetch"
  BY DEF Respond, IInv, Jobs
<1> DEFINE next == IF job[w].failed = {} THEN Idle
                   ELSE [job[w] EXCEPT !.pc = "ask", !.todo = job[w].failed, !.failed = {}]
<1>2. Step(w, next)
  BY DEF Respond
<1>3. CASE job[w].failed = {}
  BY <1>1, <1>2, <1>3, IdleJob, WorkKeeps DEF Respond
<1>4. CASE job[w].failed # {}
  <2>1. next \in Job /\ next.pc = "ask" /\ next.what = job[w].what
          /\ next.aged = job[w].aged /\ next.todo # {}
    BY <1>1, <1>4 DEF Job
  <2>2. Sound(next) /\ ~next.aged
    BY <1>1, <2>1 DEF Sound
  <2> QED
    BY <1>1, <1>2, <2>1, <2>2, WorkKeeps DEF Respond
<1> QED
  BY <1>3, <1>4

\* A thread whose device was not reached looks for it, or gives up.
LEMMA MissedJob ==
    ASSUME IInv, NEW w \in Threads, NEW d \in job[w].todo, job[w].pc = "try"
    PROVE  Sound(Missed(w)) /\ ~Missed(w).aged /\ Missed(w).pc \in {"idle", "ask"}
<1>1. job[w] \in Job /\ Sound(job[w])
  BY DEF IInv, Jobs
<1>2. CASE job[w].again
  BY <1>2, IdleJob DEF Missed
<1>3. CASE ~job[w].again
  <2> DEFINE next == [job[w] EXCEPT !.pc = "ask"]
  <2>1. next \in Job /\ next.pc = "ask" /\ next.what = job[w].what
          /\ next.aged = job[w].aged /\ next.todo = job[w].todo
    BY <1>1 DEF Job
  <2>2. Sound(next) /\ ~next.aged
    BY <1>1, <2>1 DEF Sound
  <2> QED
    BY <1>3, <2>1, <2>2 DEF Missed
<1> QED
  BY <1>2, <1>3

\* The status of a device is asked.
LEMMA StatusInv ==
    ASSUME IInv, NEW w \in Threads, NEW d \in Devices, _sync_get_status(w, d)
    PROVE  IInv'
<1>1. job[w].pc = "try" /\ d \in job[w].todo
        /\ UNCHANGED <<world, table, scans, user, applied>>
  BY DEF _sync_get_status
<1>2. CASE Step(w, Idle)
  BY <1>1, <1>2, IdleJob, WorkKeeps
<1>3. CASE Step(w, Missed(w))
  BY <1>1, <1>3, MissedJob, WorkKeeps
<1> QED
  BY <1>2, <1>3 DEF _sync_get_status

\* A job fixes the value that it sends.
LEMMA ValueInv ==
    ASSUME IInv, NEW w \in Threads, NEW value \in BOOLEAN, job[w].pc = "try",
           Step(w, [job[w] EXCEPT !.pc = "set", !.value = value]),
           UNCHANGED <<world, table, scans, user, applied>>
    PROVE  IInv'
<1> DEFINE next == [job[w] EXCEPT !.pc = "set", !.value = value]
<1>1. job[w] \in Job /\ Sound(job[w])
  BY DEF IInv, Jobs
<1>2. next \in Job /\ next.pc = "set" /\ next.what = job[w].what
        /\ next.aged = job[w].aged /\ next.todo = job[w].todo
  BY <1>1 DEF Job
<1>3. Sound(next) /\ ~next.aged
  BY <1>1, <1>2 DEF Sound
<1> QED
  BY <1>2, <1>3, WorkKeeps

\* A device is to be turned on or off.
LEMMA CommandInv ==
    ASSUME IInv, NEW w \in Threads, NEW d \in Devices, _try_command(w, d)
    PROVE  IInv'
BY ValueInv DEF _try_command

\* tinytuya sends the command of a job once more.
LEMMA TransmitInv ==
    ASSUME IInv, NEW w \in Threads, NEW d \in Devices, Transmit(w, d)
    PROVE  IInv'
<1>1. UNCHANGED <<at, table, scans, job, told>>
  BY DEF Transmit, world, user
<1>2. job[w].pc = "set" /\ job[w].value \in BOOLEAN
  BY DEF Transmit, IInv, Jobs, Job
<1>3. /\ applied \in [Threads -> SUBSET BOOLEAN]
      /\ applied' = [applied EXCEPT ![w] = @ \cup {job[w].value}]
  BY DEF Transmit, IInv, Applied
<1>4. applied' \in [Threads -> SUBSET BOOLEAN]
  BY <1>2, <1>3
<1>5. \A v \in Threads : \A u \in applied'[v] : job[v].pc = "set" /\ u = job[v].value
  BY <1>2, <1>3 DEF IInv, Applied
<1>6. Applied'
  BY <1>1, <1>4, <1>5 DEF Applied
<1> QED
  BY <1>1, <1>6 DEF IInv, Tables, Jobs, ScanIsShared, UserEditsKept, Sound, table, scans, Unseen

\* The call with the command returns, and the job ends with it.
LEMMA SetInv ==
    ASSUME IInv, NEW w \in Threads, NEW d \in Devices, set_status(w, d)
    PROVE  IInv'
<1>1. Step(w, Idle) /\ UNCHANGED <<world, table, scans, user>>
        /\ applied' = [applied EXCEPT ![w] = IF job'[w].pc = "idle" THEN {} ELSE @]
  BY DEF set_status, Unanswered
<1>2. UNCHANGED scans /\ UNCHANGED <<at, table, scans, told>>
  BY <1>1 DEF world, user, scans
<1>3. Jobs' /\ ScanIsShared'
  BY <1>1, <1>2, IdleJob, StepKeeps DEF IInv
<1>4. Tables' /\ UserEditsKept'
  BY <1>2, TablesStay DEF IInv
<1>5. job'[w] = Idle /\ \A v \in Threads : v # w => job'[v] = job[v]
  BY <1>1, IdleJob, StepJob DEF IInv, Jobs
<1>6. applied \in [Threads -> SUBSET BOOLEAN] /\ applied' = [applied EXCEPT ![w] = {}]
  BY <1>1, <1>5, IdleJob DEF IInv, Applied
<1>7. Applied'
  BY <1>5, <1>6 DEF IInv, Applied
<1> QED
  BY <1>3, <1>4, <1>7 DEF IInv

\* A device is asked for the status that a toggle inverts.
LEMMA ToggleInv ==
    ASSUME IInv, NEW w \in Threads, NEW d \in Devices, _try_toggle(w, d)
    PROVE  IInv'
<1>1. job[w].pc = "try" /\ d \in job[w].todo
        /\ UNCHANGED <<world, table, scans, user, applied>>
  BY DEF _try_toggle
<1>2. CASE \E current \in BOOLEAN :
              Step(w, [job[w] EXCEPT !.pc = "set", !.value = ~current])
  BY <1>1, <1>2, ValueInv
<1>3. CASE Step(w, Missed(w))
  BY <1>1, <1>3, MissedJob, WorkKeeps
<1> QED
  BY <1>2, <1>3 DEF _try_toggle

-----------------------------------------------------------------------------
(* Looking for a device.                                                   *)

\* The time is read: what is then found too old is.
LEMMA AskInv == ASSUME IInv, NEW w \in Threads, Ask(w) PROVE IInv'
<1>1. job[w] \in Job /\ Sound(job[w]) /\ job[w].pc = "ask"
  BY DEF Ask, IInv, Jobs
<1>2. stale \in BOOLEAN
  BY DEF IInv, Tables
<1> DEFINE next == [job[w] EXCEPT !.aged = stale, !.pc = "lock"]
<1>3. next \in Job /\ next.pc = "lock" /\ next.what = job[w].what
        /\ next.aged = stale /\ next.todo = job[w].todo
  BY <1>1, <1>2 DEF Job
<1>4. Sound(next)
  BY <1>1, <1>3 DEF Sound
<1>5. Step(w, next)
  BY DEF Ask
<1> HIDE DEF next
<1> QED
  BY <1>1, <1>3, <1>4, <1>5, WorkKeeps DEF Ask

\* The lock is taken: the cache is used, or the thread scans with a cache
\* that is empty or too old.
LEMMA LockInv == ASSUME IInv, NEW w \in Threads, Lock(w) PROVE IInv'
<1>1. job[w] \in Job /\ Sound(job[w]) /\ job[w].pc = "lock" /\ (job[w].aged => stale)
  BY DEF Lock, IInv, Jobs
<1>2. cache \in [Devices -> Place]
  BY DEF IInv, Tables
<1> DEFINE used == [job[w] EXCEPT !.found = cache, !.pc = "heal", !.aged = FALSE]
           scan == [job[w] EXCEPT !.pc = "scan", !.aged = FALSE]
<1>3. used \in Job /\ used.pc = "heal" /\ used.what = job[w].what
        /\ ~used.aged /\ used.todo = job[w].todo
  BY <1>1, <1>2 DEF Job
<1>4. scan \in Job /\ scan.pc = "scan" /\ scan.what = job[w].what
        /\ ~scan.aged /\ scan.todo = job[w].todo
  BY <1>1 DEF Job
<1>5. Sound(used) /\ Sound(scan)
  BY <1>1, <1>3, <1>4 DEF Sound
<1>6. \/ Step(w, used)
      \/ Step(w, scan) /\ ~Fresh(w)
  BY DEF Lock
<1>7. ~Scanning /\ UNCHANGED <<world, table, scans, user, applied>>
  BY DEF Lock
<1> HIDE DEF used, scan
<1>8. CASE Step(w, used)
  BY <1>1, <1>3, <1>5, <1>7, <1>8, WorkKeeps
<1>9. CASE Step(w, scan) /\ ~Fresh(w)
  <2>1. cache = Unseen \/ stale
    BY <1>1, <1>9 DEF Fresh
  <2> QED
    BY <1>1, <1>4, <1>5, <1>7, <1>9, <2>1, WorkKeeps
<1> QED
  BY <1>6, <1>8, <1>9

\* A job that waits for the lock stays a sound one when its age is reset.
LEMMA SoundStill ==
    ASSUME NEW j, NEW k, Sound(j), j.pc = "lock", k \in Job,
           k.pc = j.pc, k.what = j.what, k.todo = j.todo, ~k.aged
    PROVE  Sound(k)
BY DEF Sound

\* The scan ends: no other one was running, and what it saw is fresh for all
\* that wait.
LEMMA ScanInv ==
    ASSUME IInv, NEW w \in Threads, NEW seen \in SUBSET Online, ScanSees(w, seen)
    PROVE  IInv'
<1> DEFINE result == [d \in Devices |-> IF d \in seen THEN at[d] ELSE None]
           healer == [job[w] EXCEPT !.found = result, !.pc = "heal"]
           Waiter(v) == [job[v] EXCEPT !.aged = FALSE]
<1>1. job[w] \in Job /\ Sound(job[w]) /\ job[w].pc = "scan"
  BY DEF ScanSees, IInv, Jobs
<1>2. result \in [Devices -> Place]
  BY DEF IInv, Tables, Place
<1>3. /\ cache' = result /\ stale' = FALSE
      /\ job' = [v \in Threads |-> IF v = w THEN healer
                                   ELSE IF job[v].pc = "lock" THEN Waiter(v) ELSE job[v]]
      /\ UNCHANGED <<at, moves, table, user, applied>>
  BY DEF ScanSees
<1>4. healer \in Job /\ healer.pc = "heal" /\ healer.what = job[w].what
        /\ healer.aged = job[w].aged /\ healer.todo = job[w].todo
  <2> HIDE DEF result
  <2> QED
    BY <1>1, <1>2 DEF Job
<1>5. Sound(healer) /\ ~healer.aged
  <2> HIDE DEF healer
  <2> QED
    BY <1>1, <1>4 DEF Sound
<1>6. ASSUME NEW v \in Threads, job[v].pc = "lock"
      PROVE  Sound(Waiter(v)) /\ ~Waiter(v).aged /\ Waiter(v).pc = "lock"
  <2>1. job[v] \in Job /\ Sound(job[v])
    BY DEF IInv, Jobs
  <2>2. Waiter(v) \in Job /\ Waiter(v).pc = "lock" /\ Waiter(v).what = job[v].what
          /\ ~Waiter(v).aged /\ Waiter(v).todo = job[v].todo
    BY <1>6, <2>1 DEF Job
  <2> QED
    BY <1>6, <2>1, <2>2, SoundStill
<1> HIDE DEF result, healer, Waiter
<1>7. \A v \in Threads : /\ Sound(job'[v]) /\ ~job'[v].aged /\ job'[v].pc # "scan"
                         /\ v # w => job'[v].pc = job[v].pc
  <2>1. SUFFICES ASSUME NEW v \in Threads
                 PROVE  /\ Sound(job'[v]) /\ ~job'[v].aged /\ job'[v].pc # "scan"
                        /\ v # w => job'[v].pc = job[v].pc
    OBVIOUS
  <2>2. CASE v = w
    BY <1>3, <1>4, <1>5, <2>2
  <2>3. CASE v # w /\ job[v].pc = "lock"
    BY <1>3, <1>6, <2>3
  <2>4. CASE v # w /\ job[v].pc # "lock"
    <3>1. job'[v] = job[v] /\ Sound(job[v])
      BY <1>3, <2>4 DEF IInv, Jobs
    <3>2. ~job[v].aged /\ job[v].pc # "scan"
      BY <1>1, <2>4, <3>1 DEF Sound, IInv, Jobs
    <3> QED
      BY <3>1, <3>2
  <2> QED
    BY <2>2, <2>3, <2>4
<1>8. Jobs'
  <2>1. \A v \in Threads : job'[v] \in Job
    BY <1>7 DEF Sound
  <2>2. job' \in [Threads -> Job]
    BY <1>3, <2>1
  <2> QED
    BY <1>7, <2>2 DEF Jobs, Sound
<1>9. ScanIsShared'
  BY <1>7 DEF ScanIsShared
<1>10. Tables' /\ UserEditsKept'
  BY <1>2, <1>3 DEF IInv, Tables, UserEditsKept, table, user
<1>11. Applied'
  BY <1>1, <1>3, <1>7 DEF IInv, Applied
<1> QED
  BY <1>8, <1>9, <1>10, <1>11 DEF IInv

\* The time to live of the scan passes.
LEMMA ExpireInv == ASSUME IInv, Expire PROVE IInv'
<1>1. stale' = TRUE /\ UNCHANGED <<at, table, cache, job, told, applied>>
  BY DEF Expire, world, user
<1> QED
  BY <1>1 DEF IInv, Tables, Jobs, ScanIsShared, UserEditsKept, Applied, Sound, table

\* A device is looked up in the scan: a new address is stored if the device
\* is still in the table, and the thread tries it there, or goes on.
LEMMA HealInv ==
    ASSUME IInv, NEW w \in Threads, NEW d \in Devices, Heal(w, d)
    PROVE  IInv'
<1> DEFINE new == job[w].found[d]
           rest == job[w].todo \ {d}
           left == [job[w] EXCEPT !.todo = rest]
           next == IF rest = {} THEN Idle ELSE left
           places == [job[w].ips EXCEPT ![d] = new]
           retry == [Idle EXCEPT !.what = job[w].what, !.todo = {d}, !.ips = places,
                                 !.again = TRUE, !.pc = "try"]
<1>1. job[w] \in Job /\ Sound(job[w]) /\ job[w].pc = "heal" /\ d \in job[w].todo
        /\ ~job[w].aged
  BY DEF Heal, IInv, Jobs, Sound
<1>2. new \in Place /\ job[w].ips \in [Devices -> Place]
  BY <1>1 DEF Job
<1>3. Sound(next) /\ ~next.aged /\ next.pc # "scan"
  <2>1. CASE rest = {}
    BY <2>1, IdleJob
  <2>2. CASE rest # {}
    <3>1. left \in Job /\ left.pc = "heal" /\ left.what = job[w].what
            /\ left.aged = job[w].aged /\ left.todo = rest
      BY <1>1 DEF Job
    <3>2. job[w].what = "poll"
      BY <1>1, <2>2 DEF Sound
    <3> HIDE DEF left
    <3>3. Sound(left)
      BY <1>1, <2>2, <3>1, <3>2 DEF Sound
    <3> QED
      BY <1>1, <2>2, <3>1, <3>3
  <2> QED
    BY <2>1, <2>2
<1>4. Sound(retry) /\ ~retry.aged /\ retry.pc # "scan"
  <2>1. places \in [Devices -> Place] /\ job[w].what \in {"poll", "status"} \cup Commands
    BY <1>1, <1>2 DEF Job
  <2> HIDE DEF places
  <2>2. retry \in Job /\ retry.pc = "try" /\ retry.todo = {d} /\ ~retry.aged
    BY <2>1 DEF Idle, Job, Unseen, Place
  <2> HIDE DEF retry
  <2> QED
    BY <2>2 DEF Sound
<1> HIDE DEF next, retry
<1>5. Step(w, next) \/ Step(w, retry)
  BY DEF Heal, next, retry, _find_device_ip
<1>6. UNCHANGED <<at, scans, user, applied>>
  BY DEF Heal
<1>7. /\ listed' = listed /\ name' = name
      /\ ip' = ip \/ (new # None /\ ip' = [ip EXCEPT ![d] = new])
  <2>1. CASE new # None /\ new # job[w].ips[d]
    <3>1. _update_device_ip(d, new)
      BY <2>1 DEF Heal, _find_device_ip
    <3> QED
      BY <2>1, <3>1 DEF _update_device_ip
  <2>2. CASE ~(new # None /\ new # job[w].ips[d])
    <3>1. UNCHANGED table
      BY <2>2 DEF Heal, _find_device_ip
    <3> QED
      BY <3>1 DEF table
  <2> QED
    BY <2>1, <2>2
<1> HIDE DEF new
<1>8. UNCHANGED scans /\ UNCHANGED <<at, cache, stale, told>> /\ UNCHANGED applied
  BY <1>6 DEF world, user, scans
<1>9. Jobs' /\ ScanIsShared'
  BY <1>3, <1>4, <1>5, <1>8, StepKeeps DEF IInv
<1>10. Tables' /\ UserEditsKept'
  BY <1>2, <1>7, <1>8 DEF IInv, Tables, UserEditsKept, Place
<1>11. Applied'
  BY <1>1, <1>3, <1>4, <1>5, <1>8, AppliedStays DEF IInv, Sound
<1> QED
  BY <1>9, <1>10, <1>11 DEF IInv

-----------------------------------------------------------------------------

\* Every step keeps the invariant.
LEMMA StepInv == ASSUME DeviceAssumption, IInv, [Next]_vars PROVE IInv'
<1>1. ASSUME NEW d \in Devices, NEW a \in Place, Move(d, a) PROVE IInv'
  BY <1>1, MoveInv
<1>2. ASSUME NEW d \in Edited, NEW n \in Names, NEW a \in Addresses, add_device(d, n, a)
      PROVE  IInv'
  BY <1>2, AddInv
<1>3. ASSUME NEW d \in Edited, NEW n \in Names, update_device_name(d, n) PROVE IInv'
  BY <1>3, RenameInv
<1>4. ASSUME NEW d \in Edited, delete_device(d) PROVE IInv'
  BY <1>4, DeleteInv
<1>5. ASSUME NEW w \in Pollers, get_devices_status_batch(w) PROVE IInv'
  <2>1. w \in Threads /\ listed \in SUBSET Devices
    BY DEF Threads, IInv, Tables
  <2> QED
    BY <1>5, <2>1, StartInv DEF get_devices_status_batch
<1>6. ASSUME NEW w \in Controllers, NEW d \in Devices,
             \/ get_device_status(w, d)
             \/ \E action \in Commands : control_device(w, d, action)
      PROVE  IInv'
  <2>1. w \in Threads /\ {d} \in SUBSET Devices
    BY DEF Threads
  <2>2. PICK what \in {"status"} \cup Commands : Start(w, what, {d}, "try")
    BY <1>6 DEF get_device_status, control_device
  <2> QED
    BY <2>1, <2>2, StartInv
<1>7. ASSUME NEW w \in Threads, NEW d \in Devices, Work(w, d) \/ Transmit(w, d)
      PROVE  IInv'
  BY <1>7, FetchInv, StatusInv, CommandInv, ToggleInv, TransmitInv, SetInv, HealInv DEF Work
<1>8. ASSUME NEW w \in Threads, Respond(w) \/ Ask(w) \/ Lock(w) PROVE IInv'
  BY <1>8, RespondInv, AskInv, LockInv
<1>9. ASSUME NEW w \in Threads, NEW seen \in SUBSET Online, ScanSees(w, seen) PROVE IInv'
  BY <1>9, ScanInv
<1>10. CASE Expire
  BY <1>10, ExpireInv
<1>11. CASE UNCHANGED vars
  <2>1. UNCHANGED <<at, table, scans, job, told, applied>>
    BY <1>11 DEF vars, world, user
  <2> QED
    BY <2>1 DEF IInv, Tables, Jobs, ScanIsShared, UserEditsKept, Applied, Sound,
                table, scans, Unseen
<1> QED
  BY <1>1, <1>2, <1>3, <1>4, <1>5, <1>6, <1>7, <1>8, <1>9, <1>10, <1>11 DEF Next

\* The invariant holds throughout.
LEMMA Always == ASSUME DeviceAssumption PROVE Spec => []IInv
<1>1. Init => IInv
  BY InitInv
<1>2. IInv /\ [Next]_vars => IInv'
  BY StepInv
<1> QED
  BY <1>1, <1>2, PTL DEF Spec

\* Every variable keeps its type, one scan runs at a time, and a job for one
\* device is never about two.
THEOREM TypeCorrect == ASSUME DeviceAssumption PROVE Spec => []TypeOK
<1>1. ASSUME IInv PROVE TypeOK
  <2>1. ASSUME NEW w \in Threads, job[w].what # "poll"
        PROVE  Cardinality(job[w].todo) = 1
    <3>1. PICK d \in Devices : job[w].todo = {d}
      BY <1>1, <2>1 DEF IInv, Jobs, Sound
    <3> QED
      BY <3>1, FS_Singleton
  <2>2. \A w \in Threads :
           job[w].pc \in {"ask", "lock", "scan", "heal"} => job[w].todo # {}
    BY <1>1 DEF IInv, Jobs, Sound
  <2>3. \A w, v \in Threads : job[w].pc = "scan" /\ job[v].pc = "scan" => w = v
    BY <1>1 DEF IInv, Jobs
  <2>4. Tables /\ job \in [Threads -> Job] /\ applied \in [Threads -> SUBSET BOOLEAN]
    BY <1>1 DEF IInv, Jobs, Applied
  <2> QED
    BY <2>1, <2>2, <2>3, <2>4 DEF TypeOK, Tables
<1> QED
  BY <1>1, Always, PTL

\* However many threads look for devices, none scans while the last scan saw
\* one and is fresh: they share it.  (_sync_scan_cached)
THEOREM Shared == ASSUME DeviceAssumption PROVE Spec => []ScanIsShared
<1>1. IInv => ScanIsShared
  BY DEF IInv
<1> QED
  BY <1>1, Always, PTL

\* The threads that store addresses neither bring back a deleted device nor
\* undo a name.  (_update_device_ip)
THEOREM EditsStand == ASSUME DeviceAssumption PROVE Spec => []UserEditsKept
<1>1. IInv => UserEditsKept
  BY DEF IInv
<1> QED
  BY <1>1, Always, PTL

\* However often tinytuya sends a command and whatever answers are lost, a
\* control request sets its device to one value.  (_sync_control)
THEOREM OneValue == ASSUME DeviceAssumption PROVE Spec => []OneEffect
<1>1. IInv => OneEffect
  BY DEF IInv, Applied, OneEffect
<1> QED
  BY <1>1, Always, PTL
=============================================================================
