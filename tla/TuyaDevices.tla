----------------------------- MODULE TuyaDevices -----------------------------
(***************************************************************************)
(* tuya_manager.py: the table of smart devices and the threads that ask    *)
(* them for their status or control them at their stored address.  A       *)
(* device that does not answer is looked for with a scan of the network,   *)
(* shared through a cache under a lock, and its new address is stored.     *)
(*                                                                         *)
(* External: the network, which gives the devices their addresses; the     *)
(* switches of the devices, which anybody may operate by hand too; and     *)
(* tinytuya, whose calls send a request as often as they like and return a *)
(* dictionary, which holds "Err" when the device was not reached, or None  *)
(* when it was reached and said nothing.                                   *)
(***************************************************************************)
EXTENDS Integers, FiniteSets

CONSTANTS Devices, Addresses, Names,
          Home,          \* where the devices are at first
          Pollers,       \* threads of batch status and of its background heal
          Controllers,   \* threads of status and control of one device
          MaxMoves,      \* bound: changes of an address in the network
          MaxFaults,     \* bound: scans that do not see a device that is on,
                         \* and addresses that are not stored
          MaxEdits,      \* bound: requests that change the table
          Edited         \* bound: the devices they are about

\* The devices have an address when the table gets them, and are edited by name.
ASSUME DeviceAssumption ==
    Home \in [Devices -> Addresses] /\ Names # {} /\ Edited \subseteq Devices

None == "none"
Threads == Pollers \cup Controllers

VARIABLES
    at,       \* where each device is in the network, None if it is off
    listed,   \* tuya_devices: the devices it has,
    ip,       \*   their addresses
    name,     \*   and their names
    cache,    \* _scan_cache: where the last scan saw each device
    stale,    \* its time to live has passed
    job,      \* what each thread is doing
    moves, faults, edits,
    told,     \* history: the name the user last gave each device
    applied   \* history: the values a device was set to for the job of each thread

table == <<listed, ip, name>>
scans == <<cache, stale>>
world == <<at, moves, faults>>
user == <<edits, told>>
vars == <<world, table, scans, job, user, applied>>

Unseen == [d \in Devices |-> None]
Place == Addresses \cup {None}

Idle == [pc |-> "idle", what |-> "poll", todo |-> {}, failed |-> {},
         ips |-> Unseen, aged |-> FALSE, found |-> Unseen, again |-> FALSE,
         value |-> FALSE]

Init ==
    /\ at = Home /\ ip = Home
    /\ listed = Devices
    /\ name = [d \in Devices |-> CHOOSE n \in Names : TRUE]
    /\ cache = Unseen /\ stale = FALSE
    /\ job = [w \in Threads |-> Idle]
    /\ moves = 0 /\ faults = 0 /\ edits = 0
    /\ told = name
    /\ applied = [w \in Threads |-> {}]

-----------------------------------------------------------------------------
(* The network and the user.                                               *)

Move(d, a) ==
    /\ moves < MaxMoves /\ moves' = moves + 1
    /\ a # at[d] /\ (a # None => \A e \in Devices : at[e] # a)
    /\ at' = [at EXCEPT ![d] = a]
    /\ UNCHANGED <<faults, table, scans, job, user, applied>>

Edit == edits < MaxEdits /\ edits' = edits + 1

\* INSERT OR REPLACE
add_device(d, n, a) ==
    /\ Edit
    /\ listed' = listed \cup {d}
    /\ ip' = [ip EXCEPT ![d] = a]
    /\ name' = [name EXCEPT ![d] = n]
    /\ told' = [told EXCEPT ![d] = n]
    /\ UNCHANGED <<world, scans, job, applied>>

update_device_name(d, n) ==
    /\ Edit
    /\ IF d \in listed
       THEN name' = [name EXCEPT ![d] = n] /\ told' = [told EXCEPT ![d] = n]
       ELSE UNCHANGED <<name, told>>
    /\ UNCHANGED <<world, listed, ip, scans, job, applied>>

delete_device(d) ==
    /\ Edit
    /\ listed' = listed \ {d}
    /\ told' = [told EXCEPT ![d] = None]
    /\ UNCHANGED <<world, ip, name, scans, job, applied>>

-----------------------------------------------------------------------------
(* Status and control.                                                     *)

Step(w, next) == job' = [job EXCEPT ![w] = next]
Rows(devices) == [d \in Devices |-> IF d \in devices THEN ip[d] ELSE None]
Start(w, what, devices, pc) ==
    /\ job[w].pc = "idle"
    /\ Step(w, [Idle EXCEPT !.what = what, !.todo = devices, !.ips = Rows(devices), !.pc = pc])
    /\ UNCHANGED <<world, table, scans, user, applied>>

\* The device is where the thread looks for it.
Reached(w, d) == at[d] # None /\ at[d] = job[w].ips[d]

\* get_devices_status_batch: the rows are read, then the devices asked, each
\* in a thread.  Every one has answered or failed after STATUS_CALL_TIMEOUT,
\* long before BATCH_STATUS_TIMEOUT.
get_devices_status_batch(w) == listed # {} /\ Start(w, "poll", listed, "fetch")

FetchOne(w, d) ==
    /\ job[w].pc = "fetch" /\ d \in job[w].todo
    /\ \/ Reached(w, d) /\ Step(w, [job[w] EXCEPT !.todo = @ \ {d}])
       \/ Step(w, [job[w] EXCEPT !.todo = @ \ {d}, !.failed = @ \cup {d}])
    /\ UNCHANGED <<world, table, scans, user, applied>>

\* Fault: the heal is started for no device too.
AlwaysHeal(w) ==
    /\ job[w].pc = "fetch" /\ job[w].todo = {}
    /\ Step(w, [job[w] EXCEPT !.pc = "ask", !.todo = job[w].failed, !.failed = {}])
    /\ UNCHANGED <<world, table, scans, user, applied>>

\* The response is sent; the heal goes on in a thread of its own.
Respond(w) ==
    /\ job[w].pc = "fetch" /\ job[w].todo = {}
    /\ Step(w, IF job[w].failed = {} THEN Idle
               ELSE [job[w] EXCEPT !.pc = "ask", !.todo = job[w].failed, !.failed = {}])
    /\ UNCHANGED <<world, table, scans, user, applied>>

get_device_status(w, d) == d \in listed /\ Start(w, "status", {d}, "try")
control_device(w, d, action) == d \in listed /\ Start(w, action, {d}, "try")

\* What a thread does when its device was not reached: it looks for it, once.
Missed(w) == IF job[w].again THEN Idle ELSE [job[w] EXCEPT !.pc = "ask"]

_sync_get_status(w, d) ==
    /\ job[w].pc = "try" /\ job[w].what = "status" /\ d \in job[w].todo
    /\ \/ Reached(w, d) /\ Step(w, Idle)
       \/ Step(w, Missed(w))
    /\ UNCHANGED <<world, table, scans, user, applied>>

Commands == {"turn", "toggle"}

\* turn_on, turn_off, set_value: the value is the request's.
_try_command(w, d) ==
    /\ job[w].pc = "try" /\ job[w].what = "turn" /\ d \in job[w].todo
    /\ \E value \in BOOLEAN : Step(w, [job[w] EXCEPT !.pc = "set", !.value = value])
    /\ UNCHANGED <<world, table, scans, user, applied>>

\* toggle: the status first, which is inverted, and False without one.
_try_toggle(w, d) ==
    /\ job[w].pc = "try" /\ job[w].what = "toggle" /\ d \in job[w].todo
    /\ \/ /\ Reached(w, d)
          /\ \E current \in BOOLEAN : Step(w, [job[w] EXCEPT !.pc = "set", !.value = ~current])
       \/ Step(w, Missed(w))
    /\ UNCHANGED <<world, table, scans, user, applied>>

\* Within one call tinytuya sends the command, and sends it again when it has
\* no answer: the device may take it any number of times.
Transmit(w, d) ==
    /\ job[w].pc = "set" /\ d \in job[w].todo /\ Reached(w, d)
    /\ applied' = [applied EXCEPT ![w] = @ \cup {job[w].value}]
    /\ UNCHANGED <<world, table, scans, job, user>>

\* Fault: None, no reply to the command, counts as a failure to look into.
TryAgain(w) == IF job[w].again THEN Idle ELSE [job[w] EXCEPT !.pc = "ask", !.value = FALSE]

\* None ends the job, as an unknown action.
Unanswered(w) == Idle

\* The call returns: a dictionary is taken for success, with "Err" or not.
set_status(w, d) ==
    /\ job[w].pc = "set" /\ d \in job[w].todo
    /\ \/ Step(w, Idle)
       \/ Step(w, Unanswered(w))
    /\ applied' = [applied EXCEPT ![w] = IF job'[w].pc = "idle" THEN {} ELSE @]
    /\ UNCHANGED <<world, table, scans, user>>

-----------------------------------------------------------------------------
(* Looking for a device.                                                   *)

Scanning == \E w \in Threads : job[w].pc = "scan"

\* _sync_scan_cached: the time is read before the lock is taken.
Ask(w) ==
    /\ job[w].pc = "ask"
    /\ Step(w, [job[w] EXCEPT !.aged = stale, !.pc = "lock"])
    /\ UNCHANGED <<world, table, scans, user, applied>>

\* Fault: a scan is used however old it is.
AnyAge(w) == cache # Unseen

Fresh(w) == cache # Unseen /\ ~job[w].aged

\* Fault: the lock is not taken.
NoLock(w) ==
    /\ job[w].pc = "lock"
    /\ Step(w, IF Fresh(w) THEN [job[w] EXCEPT !.found = cache, !.pc = "heal", !.aged = FALSE]
               ELSE [job[w] EXCEPT !.pc = "scan", !.aged = FALSE])
    /\ UNCHANGED <<world, table, scans, user, applied>>

Lock(w) ==
    /\ job[w].pc = "lock" /\ ~Scanning
    /\ Step(w, IF Fresh(w) THEN [job[w] EXCEPT !.found = cache, !.pc = "heal", !.aged = FALSE]
               ELSE [job[w] EXCEPT !.pc = "scan", !.aged = FALSE])
    /\ UNCHANGED <<world, table, scans, user, applied>>

Online == {d \in Devices : at[d] # None}

\* The scan sees some of the devices; for whoever waits it is newer than the
\* time read before the lock.
ScanSees(w, seen) ==
    /\ job[w].pc = "scan"
    /\ seen # Online => faults < MaxFaults
    /\ faults' = IF seen = Online THEN faults ELSE faults + 1
    /\ LET result == [d \in Devices |-> IF d \in seen THEN at[d] ELSE None]
       IN  /\ cache' = result
           /\ job' = [v \in Threads |->
                        IF v = w
                        THEN [job[w] EXCEPT !.found = result, !.pc = "heal"]
                        ELSE IF job[v].pc = "lock" THEN [job[v] EXCEPT !.aged = FALSE]
                        ELSE job[v]]
    /\ stale' = FALSE
    /\ UNCHANGED <<at, moves, table, user, applied>>

\* _SCAN_CACHE_TTL
Expire ==
    /\ cache # Unseen /\ ~stale
    /\ stale' = TRUE
    /\ UNCHANGED <<world, table, cache, job, user, applied>>

\* Fault: the row is written as a whole.
ReplaceRow(d, a) ==
    /\ listed' = listed \cup {d}
    /\ ip' = [ip EXCEPT ![d] = a]
    /\ UNCHANGED <<name, faults>>

\* UPDATE: nothing if the device has been deleted; a statement that fails is
\* logged, and the address not stored.
_update_device_ip(d, a) ==
    /\ \/ ip' = (IF d \in listed THEN [ip EXCEPT ![d] = a] ELSE ip) /\ UNCHANGED faults
       \/ faults < MaxFaults /\ faults' = faults + 1 /\ UNCHANGED ip
    /\ UNCHANGED <<listed, name>>

_find_device_ip(w, d) == job[w].found[d]

\* The device was found at another address than the thread had tried.
Heal(w, d) ==
    /\ job[w].pc = "heal" /\ d \in job[w].todo
    /\ LET new == _find_device_ip(w, d)
           rest == job[w].todo \ {d}
           next == IF rest = {} THEN Idle ELSE [job[w] EXCEPT !.todo = rest]
           retry == [Idle EXCEPT !.what = job[w].what, !.todo = {d}, !.ips = [job[w].ips EXCEPT ![d] = new],
                                 !.again = TRUE, !.pc = "try"]
       IN  IF new # None /\ new # job[w].ips[d]
           THEN /\ _update_device_ip(d, new)
                /\ Step(w, IF job[w].what = "poll" THEN next ELSE retry)
           ELSE UNCHANGED <<table, faults>> /\ Step(w, next)
    /\ UNCHANGED <<at, moves, scans, user, applied>>

-----------------------------------------------------------------------------

Work(w, d) ==
    \/ FetchOne(w, d) \/ _sync_get_status(w, d) \/ _try_command(w, d)
    \/ _try_toggle(w, d) \/ set_status(w, d) \/ Heal(w, d)

Next ==
    \/ \E d \in Devices : \E a \in Place : Move(d, a)
    \/ \E d \in Edited : \/ \E n \in Names, a \in Addresses : add_device(d, n, a)
                         \/ \E n \in Names : update_device_name(d, n)
                         \/ delete_device(d)
    \/ \E w \in Pollers : get_devices_status_batch(w)
    \/ \E w \in Controllers, d \in Devices :
          \/ get_device_status(w, d)
          \/ \E action \in Commands : control_device(w, d, action)
    \/ \E w \in Threads :
          \/ \E d \in Devices : Work(w, d) \/ Transmit(w, d)
          \/ Respond(w) \/ Ask(w) \/ Lock(w)
          \/ \E seen \in SUBSET Online : ScanSees(w, seen)
    \/ Expire

\* Time passes and threads run; a thread that waits for the lock gets it in
\* the end, and a device that stays on is seen by a scan in the end.  Nobody
\* has to ask for anything.
Spec ==
    /\ Init /\ [][Next]_vars
    /\ WF_vars(Expire)
    /\ \A w \in Threads :
          /\ WF_vars(Respond(w)) /\ WF_vars(Ask(w)) /\ SF_vars(Lock(w))
          /\ WF_vars(\E seen \in SUBSET Online : ScanSees(w, seen))
          /\ WF_vars(\E d \in Devices : Work(w, d))

-----------------------------------------------------------------------------

Job == [pc : {"idle", "fetch", "try", "set", "ask", "lock", "scan", "heal"},
        what : {"poll", "status"} \cup Commands,
        todo : SUBSET Devices, failed : SUBSET Devices,
        ips : [Devices -> Place], aged : BOOLEAN, found : [Devices -> Place],
        again : BOOLEAN, value : BOOLEAN]

TypeOK ==
    /\ at \in [Devices -> Place] /\ listed \subseteq Devices
    /\ ip \in [Devices -> Addresses] /\ name \in [Devices -> Names]
    /\ cache \in [Devices -> Place] /\ stale \in BOOLEAN
    /\ applied \in [Threads -> SUBSET BOOLEAN]
    /\ job \in [Threads -> Job]
    /\ \A w, v \in Threads : job[w].pc = "scan" /\ job[v].pc = "scan" => w = v
    /\ \A w \in Threads : /\ job[w].pc \in {"ask", "lock", "scan", "heal"} => job[w].todo # {}
                          /\ job[w].what # "poll" => Cardinality(job[w].todo) = 1

\* A scan that saw a device is shared: while it is fresh no other is running,
\* however many threads were waiting for it.  (_sync_scan_cached)
ScanIsShared ==
    (\E w \in Threads : job[w].pc = "scan") => cache = Unseen \/ stale

\* What the user said last of a device stands: the threads that store its
\* address neither bring back a device that was deleted meanwhile nor undo a
\* new name.  (_update_device_ip)
UserEditsKept ==
    \A d \in Devices :
        IF d \in listed THEN name[d] = told[d] ELSE told[d] = None

\* However often tinytuya sends a command, and though its answer is lost and
\* the device found at another address, a request sets its device to one value:
\* a toggle is not undone by a second attempt of its own, which would invert
\* the status that the first one set.  (_sync_control)
OneEffect == \A w \in Threads : \A u, v \in applied[w] : u = v

\* The status of all devices is asked for again and again.
Polled == \E w \in Pollers : []<><<get_devices_status_batch(w)>>_vars

\* As long as somebody asks for the status of the devices, and the network and
\* the table are left alone, the stored address of every device that is on
\* becomes the one it has, and stays so, whatever older scans were still in use
\* and though an address could not be stored.  (_heal_device_ips_in_background)
AddressesSettle ==
    Polled => <>[](\A d \in listed : at[d] # None => ip[d] = at[d])
=============================================================================
