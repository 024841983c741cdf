---------------------------- MODULE DongleServer ----------------------------
(***************************************************************************)
(* The asyncio TCP server of dongle_server.py in SERVER mode: the queue of *)
(* Modbus requests, the connection handlers that interleave those requests *)
(* with the ReadInput polls, the callers of request_modbus, and the dongle *)
(* at the other end of each connection.                                    *)
(*                                                                         *)
(* Everything runs on one event loop: between two awaits a handler is not  *)
(* interrupted.  A handler whose pc is in Running is between awaits, and   *)
(* every step of another task waits until no handler is.                   *)
(***************************************************************************)
EXTENDS Integers, Sequences, SequencesExt

CONSTANTS Req,          \* calls of request_modbus, each made at most once
          Reads,        \* the calls with function 0x03 (the others: 0x06)
          Blocks,       \* the reads of exactly one 40-register block
          RegOf,        \* the register each call names
          InputBlocks,  \* registers polled with function 0x04 (ReadInput)
          Conn,         \* connections a dongle may open
          CancelIn,     \* attempts in which a caller's task may be cancelled
          MaxStream,    \* bound: replies on their way from one dongle
          Idle,         \* the dongle has no command in hand
          NoReq         \* the handler is writing no request

Cmd == Req \cup InputBlocks

\* A frame of the dongle: the command it names, and whether it answers that
\* command or refuses it (the function code with bit 0x80, and the register).
Frame == [cmd : Cmd, ok : BOOLEAN]

ASSUME RequestAssumption ==
    /\ Reads \subseteq Req /\ Blocks \subseteq Reads
    /\ DOMAIN RegOf = Req
    /\ Req \cap InputBlocks = {} /\ NoReq \notin Req /\ Idle \notin Cmd
    /\ CancelIn \subseteq {"wait1", "wait2"}
    /\ MaxStream \in Nat

VARIABLES
    caller,     \* "idle", "wait1", "wait2", or how the call ended: Ended
    future,     \* "open", or the frame it was resolved with: "done", "refused"
    pending,    \* __modbus_pending, an entry being its call
    sent,       \* entry["sent"]
    wires,      \* history: frames written for the call
    wake,       \* value of the event __modbus_wake
    pc,         \* where the handler of each connection is
    cur,        \* the request whose frame the handler is writing
    woken,      \* the event was set while the handler waited for it
    buf,        \* complete frames in the handler's read_buffer
    stream,     \* frames the dongle sent that were not read yet
    busy,       \* the command the dongle is servicing
    landed,     \* history: calls whose frame the inverter executed
    cached      \* what the last block merged in __cached_data came from

callVars == <<caller, future, pending, sent>>
connVars == <<buf, stream, busy>>
vars == <<caller, future, pending, sent, wires, wake, pc, cur, woken,
          buf, stream, busy, landed, cached>>

Running == {"top", "enter", "handle", "replied", "after", "snooze"}
Writing == {"greet", "sendTop", "sendBack", "poll"}
Parked == {"read", "sleep"}
Ended == {"ok", "refused", "timeout", "cancelled"}
Quiet == \A c \in Conn : pc[c] \notin Running

Unsent == {i \in DOMAIN pending : ~sent[pending[i]]}
HasUnsent == Unsent # {}
HasInflight == \E i \in DOMAIN pending : sent[pending[i]]

Goto(c, l) == pc' = [pc EXCEPT ![c] = l]

Init ==
    /\ caller = [r \in Req |-> "idle"]
    /\ future = [r \in Req |-> "open"]
    /\ pending = <<>>
    /\ sent = [r \in Req |-> FALSE]
    /\ wires = [r \in Req |-> 0]
    /\ wake = FALSE
    /\ pc = [c \in Conn |-> "absent"]
    /\ cur = [c \in Conn |-> NoReq]
    /\ woken = [c \in Conn |-> FALSE]
    /\ buf = [c \in Conn |-> <<>>]
    /\ stream = [c \in Conn |-> <<>>]
    /\ busy = [c \in Conn |-> Idle]
    /\ landed = {}
    /\ cached = [b \in InputBlocks |-> "nothing"]

-----------------------------------------------------------------------------
(* The callers: request_modbus.                                            *)

\* asyncio.Event.set: latches every task that waits for the event.
SetWake ==
    /\ wake' = TRUE
    /\ woken' = [c \in Conn |-> woken[c] \/ pc[c] \in Parked]

\* Fault: a call that ends leaves its entry in the queue.
DropNothing(q, r) == q

\* The entry of call r deleted from queue q, when it is there.
Drop(q, r) ==
    IF \E i \in DOMAIN q : q[i] = r
    THEN RemoveAt(q, CHOOSE i \in DOMAIN q : q[i] = r)
    ELSE q

Request(r) ==
    /\ Quiet /\ caller[r] = "idle"
    /\ caller' = [caller EXCEPT ![r] = "wait1"]
    /\ pending' = Append(pending, r)
    /\ SetWake
    /\ UNCHANGED <<future, sent, wires, pc, cur, connVars, landed, cached>>

\* Fault: whatever frame resolved the future is an answer.
OutcomeUnchecked(r) == "ok"

\* What the caller makes of the raw frame in the future: validated_subject
\* raises ModbusExceptionResponse for one with bit 0x80.
Outcome(r) == IF future[r] = "done" THEN "ok" ELSE "refused"

\* wait_for wakes up with the result of the future.
Deliver(r) ==
    /\ Quiet /\ caller[r] \in {"wait1", "wait2"} /\ future[r] # "open"
    /\ caller' = [caller EXCEPT ![r] = Outcome(r)]
    /\ UNCHANGED <<future, pending, sent, wires, wake, pc, cur, woken,
                   connVars, landed, cached>>

\* Fault: the entry is queued again without deleting the first one.
RetryKeepsEntry(r) ==
    /\ Quiet /\ caller[r] = "wait1" /\ r \in Reads
    /\ caller' = [caller EXCEPT ![r] = "wait2"]
    /\ future' = [future EXCEPT ![r] = "open"]
    /\ sent' = [sent EXCEPT ![r] = FALSE]
    /\ pending' = Append(pending, r)
    /\ SetWake
    /\ UNCHANGED <<wires, pc, cur, connVars, landed, cached>>

\* First timeout of a read: a fresh future, the same entry queued again.
\* The timer may also win against a future that was just resolved.
Retry(r) ==
    /\ Quiet /\ caller[r] = "wait1" /\ r \in Reads
    /\ caller' = [caller EXCEPT ![r] = "wait2"]
    /\ future' = [future EXCEPT ![r] = "open"]
    /\ sent' = [sent EXCEPT ![r] = FALSE]
    /\ pending' = Append(Drop(pending, r), r)
    /\ SetWake
    /\ UNCHANGED <<wires, pc, cur, connVars, landed, cached>>

\* A write that times out, or a read that times out twice.
GiveUp(r) ==
    /\ Quiet
    /\ \/ caller[r] = "wait1" /\ r \notin Reads
       \/ caller[r] = "wait2"
    /\ caller' = [caller EXCEPT ![r] = "timeout"]
    /\ pending' = Drop(pending, r)
    /\ UNCHANGED <<future, sent, wires, wake, pc, cur, woken, connVars,
                   landed, cached>>

\* The caller's task is cancelled.  The except clause only covers the first
\* wait: the second runs inside the handler of the first TimeoutError.
Cancel(r) ==
    /\ Quiet /\ caller[r] \in CancelIn
    /\ caller' = [caller EXCEPT ![r] = "cancelled"]
    /\ pending' = IF caller[r] = "wait1" THEN Drop(pending, r) ELSE pending
    /\ UNCHANGED <<future, sent, wires, wake, pc, cur, woken, connVars,
                   landed, cached>>

Call(r) == Request(r) \/ Deliver(r) \/ Retry(r) \/ GiveUp(r) \/ Cancel(r)

-----------------------------------------------------------------------------
(* The connection handler: __handle_client and what it calls.              *)

\* Fault: the entry is not marked before the write is awaited.
SendPendingUnmarked(c, l) ==
    \E i \in Unsent :
        /\ \A j \in Unsent : i <= j
        /\ cur' = [cur EXCEPT ![c] = pending[i]]
        /\ Goto(c, l)
        /\ UNCHANGED sent

\* __send_pending_modbus: the first unsent entry is marked before the write
\* is awaited; the handler then writes it and goes on at l.
SendPending(c, l) ==
    \E i \in Unsent :
        /\ \A j \in Unsent : i <= j
        /\ sent' = [sent EXCEPT ![pending[i]] = TRUE]
        /\ cur' = [cur EXCEPT ![c] = pending[i]]
        /\ Goto(c, l)

\* A connection is accepted; the first ReadInput request is being written.
Connect(c) ==
    /\ Quiet /\ pc[c] = "absent"
    /\ Goto(c, "greet")
    /\ UNCHANGED <<callVars, wires, wake, cur, woken, connVars, landed, cached>>

Top(c) ==
    /\ pc[c] = "top"
    /\ \/ SendPending(c, "sendTop")
       \/ ~HasUnsent /\ Goto(c, "enter") /\ UNCHANGED <<sent, cur>>
    /\ UNCHANGED <<caller, future, pending, wires, wake, woken, connVars,
                   landed, cached>>

\* Fault: the queue is not looked at again after the event is cleared.
EnterReadBlindly(c) ==
    /\ pc[c] = "enter"
    /\ IF buf[c] # <<>>
       THEN Goto(c, "handle") /\ UNCHANGED wake
       ELSE wake' = FALSE /\ Goto(c, "arm")
    /\ UNCHANGED <<callVars, wires, cur, woken, connVars, landed, cached>>

\* __read_with_wake up to its await: a frame already buffered is returned at
\* once, otherwise the wake event is cleared and the queue looked at again.
EnterRead(c) ==
    /\ pc[c] = "enter"
    /\ IF buf[c] # <<>>
       THEN Goto(c, "handle") /\ UNCHANGED wake
       ELSE /\ wake' = FALSE
            /\ Goto(c, IF HasUnsent THEN "top" ELSE "arm")
    /\ UNCHANGED <<callVars, wires, cur, woken, connVars, landed, cached>>

\* wake_task is a task of its own: it starts waiting one turn of the loop
\* later, and returns at once when the event was set meanwhile.
Arm(c) ==
    /\ Quiet /\ pc[c] = "arm"
    /\ Goto(c, "read")
    /\ woken' = [woken EXCEPT ![c] = wake]
    /\ UNCHANGED <<callVars, wires, wake, cur, connVars, landed, cached>>

\* reader.read returned bytes, also when the wake event fired as well.
ReadChunk(c) ==
    /\ Quiet /\ pc[c] = "read"
    /\ \E k \in 1..Len(stream[c]) :
          /\ buf' = [buf EXCEPT ![c] = SubSeq(stream[c], 1, k)]
          /\ stream' = [stream EXCEPT ![c] = SubSeq(stream[c], k + 1, Len(stream[c]))]
    /\ Goto(c, "handle")
    /\ woken' = [woken EXCEPT ![c] = FALSE]
    /\ UNCHANGED <<callVars, wires, wake, cur, busy, landed, cached>>

\* The read window closed or the event fired, with no frame: back to the top
\* for a queued request, otherwise the path of a timeout.
ReadIdle(c) ==
    /\ Quiet /\ pc[c] = "read"
    /\ Goto(c, IF HasUnsent THEN "top" ELSE "after")
    /\ woken' = [woken EXCEPT ![c] = FALSE]
    /\ UNCHANGED <<callVars, wires, wake, cur, connVars, landed, cached>>

SameKey(q, r) == (q \in Reads <=> r \in Reads) /\ RegOf[q] = RegOf[r]

\* Fault: an entry that waits to be sent again is passed over.
MatchesSent(f) == IF f.cmd \in Req
                  THEN {i \in DOMAIN pending : SameKey(f.cmd, pending[i]) /\ sent[pending[i]]}
                  ELSE {}

\* Positions of the entries a frame may resolve: base function and register
\* are compared, "sent" and bit 0x80 of the function (fn & 0x7F) are not.
\* ReadInput replies match no entry.
Matches(f) == IF f.cmd \in Req
              THEN {i \in DOMAIN pending : SameKey(f.cmd, pending[i])}
              ELSE {}

\* __resolve_modbus on the first matching entry: its future gets the raw
\* frame, an answer or a refusal (every caller passes return_raw).
Resolve(c) ==
    /\ pc[c] = "handle"
    /\ \E i \in Matches(Head(buf[c])) :
          /\ \A j \in Matches(Head(buf[c])) : i <= j
          /\ pending' = RemoveAt(pending, i)
          /\ future' = [future EXCEPT ![pending[i]] =
                           IF Head(buf[c]).ok THEN "done" ELSE "refused"]
    /\ buf' = [buf EXCEPT ![c] = Tail(@)]
    /\ Goto(c, "replied")
    /\ UNCHANGED <<caller, sent, wires, wake, cur, woken, stream, busy,
                   landed, cached>>

\* What __parse_inverter_data makes of a frame: read_input looks at the
\* register and the 80 byte length only, never at the function code; a
\* refusal carries no block.
Taken(f) == CASE f.ok /\ f.cmd \in InputBlocks -> [cached EXCEPT ![f.cmd] = "input"]
              [] f.ok /\ f.cmd \in Blocks /\ RegOf[f.cmd] \in InputBlocks ->
                    [cached EXCEPT ![RegOf[f.cmd]] = "holding"]
              [] OTHER -> cached

Parse(c) ==
    /\ pc[c] = "handle" /\ Matches(Head(buf[c])) = {}
    /\ cached' = Taken(Head(buf[c]))
    /\ buf' = [buf EXCEPT ![c] = Tail(@)]
    /\ Goto(c, "after")
    /\ UNCHANGED <<callVars, wires, wake, cur, woken, stream, busy, landed>>

\* After a Modbus reply: next request, or a poll and the polling sleep.
Replied(c) ==
    /\ pc[c] = "replied"
    /\ \/ SendPending(c, "sendBack")
       \/ ~HasUnsent /\ Goto(c, "poll") /\ UNCHANGED <<sent, cur>>
    /\ UNCHANGED <<caller, future, pending, wires, wake, woken, connVars,
                   landed, cached>>

\* After telemetry or a timeout: as above, but not while a reply is due.
After(c) ==
    /\ pc[c] = "after"
    /\ \/ SendPending(c, "sendBack")
       \/ /\ ~HasUnsent
          /\ Goto(c, IF HasInflight THEN "top" ELSE "poll")
          /\ UNCHANGED <<sent, cur>>
    /\ UNCHANGED <<caller, future, pending, wires, wake, woken, connVars,
                   landed, cached>>

\* The dongle takes a command that arrives while it is free; one that
\* arrives while it is busy is dropped, and any may get lost.
Arrive(c, m) == \/ busy[c] = Idle /\ busy' = [busy EXCEPT ![c] = m]
                \/ UNCHANGED busy

\* __write_dongle_command of a request returns (command gap, write, drain).
Sent(c) ==
    /\ Quiet /\ pc[c] \in {"sendTop", "sendBack"}
    /\ wires' = [wires EXCEPT ![cur[c]] = @ + 1]
    /\ Arrive(c, cur[c])
    /\ cur' = [cur EXCEPT ![c] = NoReq]
    /\ Goto(c, IF pc[c] = "sendTop" THEN "enter" ELSE "top")
    /\ UNCHANGED <<callVars, wake, woken, buf, stream, landed, cached>>

\* ... and of a ReadInput request.
Polled(c) ==
    /\ Quiet /\ pc[c] \in {"greet", "poll"}
    /\ \E b \in InputBlocks : Arrive(c, b)
    /\ Goto(c, IF pc[c] = "greet" THEN "top" ELSE "snooze")
    /\ UNCHANGED <<callVars, wires, wake, cur, woken, buf, stream, landed, cached>>

\* __interruptible_sleep up to its await, and its end.
Snooze(c) ==
    /\ pc[c] = "snooze"
    /\ wake' = FALSE
    /\ Goto(c, IF HasUnsent THEN "top" ELSE "sleep")
    /\ UNCHANGED <<callVars, wires, cur, woken, connVars, landed, cached>>

WakeUp(c) ==
    /\ Quiet /\ pc[c] = "sleep"
    /\ Goto(c, "top")
    /\ woken' = [woken EXCEPT ![c] = FALSE]
    /\ UNCHANGED <<callVars, wires, wake, cur, connVars, landed, cached>>

Close(c) ==
    /\ Goto(c, "absent")
    /\ cur' = [cur EXCEPT ![c] = NoReq]
    /\ woken' = [woken EXCEPT ![c] = FALSE]
    /\ buf' = [buf EXCEPT ![c] = <<>>]
    /\ stream' = [stream EXCEPT ![c] = <<>>]
    /\ busy' = [busy EXCEPT ![c] = Idle]
    /\ UNCHANGED <<callVars, wake, cached>>

\* read returns b"" once the dongle closed the connection.
Disconnect(c) ==
    /\ Quiet /\ pc[c] = "read" /\ stream[c] = <<>>
    /\ Close(c)
    /\ UNCHANGED <<wires, landed>>

\* The write or the drain raises: the frame may or may not have gone out,
\* and the inverter may have executed it.
WriteFails(c) ==
    /\ Quiet /\ pc[c] \in Writing
    /\ Close(c)
    /\ \/ UNCHANGED <<wires, landed>>
       \/ /\ cur[c] \in Req
          /\ wires' = [wires EXCEPT ![cur[c]] = @ + 1]
          /\ landed' \in {landed, landed \cup {cur[c]}}

\* What a handler does on its own; Connect and the failures are left to the
\* environment.
Handler(c) ==
    \/ Top(c) \/ EnterRead(c) \/ Arm(c) \/ ReadChunk(c) \/ ReadIdle(c)
    \/ Resolve(c) \/ Parse(c) \/ Replied(c) \/ After(c)
    \/ Sent(c) \/ Polled(c) \/ Snooze(c) \/ WakeUp(c)

-----------------------------------------------------------------------------
(* The dongle and the inverter behind it: external to the program.         *)

Executed(c) == landed \cup ({busy[c]} \cap Req)

\* The command is lost, executed without a reply, executed and answered, or
\* refused; the frame may come long after the caller gave up.  The refusal
\* of a poll, or one too short to name its register, resolves nothing and is
\* merged nowhere: it is a lost reply.
Lose(c) ==
    /\ busy[c] # Idle
    /\ busy' = [busy EXCEPT ![c] = Idle]
    /\ landed' \in {landed, Executed(c)}
    /\ UNCHANGED <<callVars, wires, wake, pc, cur, woken, buf, stream, cached>>

Reply(c) ==
    /\ busy[c] # Idle /\ Len(stream[c]) < MaxStream
    /\ stream' = [stream EXCEPT ![c] = Append(@, [cmd |-> busy[c], ok |-> TRUE])]
    /\ busy' = [busy EXCEPT ![c] = Idle]
    /\ landed' = Executed(c)
    /\ UNCHANGED <<callVars, wires, wake, pc, cur, woken, buf, cached>>

Refuse(c) ==
    /\ busy[c] \in Req /\ Len(stream[c]) < MaxStream
    /\ stream' = [stream EXCEPT ![c] = Append(@, [cmd |-> busy[c], ok |-> FALSE])]
    /\ busy' = [busy EXCEPT ![c] = Idle]
    /\ UNCHANGED <<callVars, wires, wake, pc, cur, woken, buf, landed, cached>>

-----------------------------------------------------------------------------
Next ==
    \/ \E r \in Req : Call(r)
    \/ \E c \in Conn : \/ Handler(c) \/ Connect(c) \/ Disconnect(c)
                       \/ WriteFails(c) \/ Lose(c) \/ Reply(c) \/ Refuse(c)

Spec == Init /\ [][Next]_vars

\* The event loop runs every ready task and every due timer in its turn
\* (strong fairness: a task is only held up while another one runs).
Fairness == /\ \A c \in Conn : SF_vars(Handler(c))
            /\ \A r \in Req : SF_vars(Deliver(r)) /\ SF_vars(Retry(r) \/ GiveUp(r))

FairSpec == Spec /\ Fairness
-----------------------------------------------------------------------------
(* Properties.                                                             *)

\* Type invariant of the queue, the handlers and the connections.
TypeOK ==
    /\ caller \in [Req -> {"idle", "wait1", "wait2"} \cup Ended]
    /\ future \in [Req -> {"open", "done", "refused"}]
    /\ pending \in Seq(Req)
    /\ sent \in [Req -> BOOLEAN]
    /\ wires \in [Req -> Nat]
    /\ wake \in BOOLEAN
    /\ pc \in [Conn -> Running \cup Writing \cup Parked \cup {"absent", "arm"}]
    /\ cur \in [Conn -> Req \cup {NoReq}]
    /\ woken \in [Conn -> BOOLEAN]
    /\ buf \in [Conn -> Seq(Frame)]
    /\ stream \in [Conn -> Seq(Frame)]
    /\ busy \in [Conn -> Cmd \cup {Idle}]
    /\ landed \in SUBSET Req
    /\ cached \in [InputBlocks -> {"nothing", "input", "holding"}]

\* The queue and the calls agree: no call is queued twice, a queued call is
\* unanswered and still waiting (or was cancelled in its second wait, which
\* leaves its entry behind), and a call that waits for an answer is queued,
\* so that a reply can find it (request_modbus, __resolve_modbus).
QueueHoldsTheOpenCalls ==
    /\ \A i, j \in DOMAIN pending : pending[i] = pending[j] => i = j
    /\ \A i \in DOMAIN pending :
          /\ future[pending[i]] = "open"
          /\ \/ caller[pending[i]] \in {"wait1", "wait2"}
             \/ caller[pending[i]] = "cancelled" /\ "wait2" \in CancelIn
    /\ \A r \in Req : caller[r] \in {"wait1", "wait2"} /\ future[r] = "open"
                        => \E i \in DOMAIN pending : pending[i] = r

\* A handler that waits and was not woken has nothing to send: clearing the
\* event never loses a request (comments in __read_with_wake and
\* __interruptible_sleep).  It holds for one connection at a time.
NoLostWakeup ==
    \A c \in Conn :
        /\ pc[c] \in Parked /\ ~woken[c] => ~HasUnsent
        /\ pc[c] = "arm" /\ ~wake => ~HasUnsent

\* The calls and the frames written for them behave as ModbusExchange says:
\* writes go out at most once, reads at most twice, nothing is sent before
\* it is asked for, and only a frame of the same function and register
\* answers or refuses a call.
Exchange == INSTANCE ModbusExchange WITH
    phase <- [r \in Req |-> IF caller[r] \in {"wait1", "wait2"}
                            THEN "waiting" ELSE caller[r]]

ImplementsExchange == Exchange!Spec

\* Polling never stops for good: an open connection keeps being polled,
\* whatever requests and late replies come in between.
PollsResume == \A c \in Conn : []<>(pc[c] \in {"poll", "greet", "absent"})

\* A write that returns "confirms the write landed" (write_item in
\* modbus_controller.py): the inverter executed that write, or another one of
\* the same register that was in flight or given up, whose echo this is.  A
\* refusal is matched like an echo in the queue, and must not pass for one.
AnsweredWriteLanded ==
    \A r \in Req \ Reads : caller[r] = "ok" => \E q \in landed \ Reads : RegOf[q] = RegOf[r]

\* What is merged in the telemetry came from a ReadInput reply, unless a read
\* of the same register was sent again or given up: otherwise no reply to a
\* block read is left without a call to take it, though one reply may resolve
\* the call of another, sent or not.
TelemetryIsInput ==
    \A b \in InputBlocks : cached[b] = "holding" =>
        \E r \in Reads : /\ RegOf[r] = b
                         /\ \/ wires[r] > 1
                            \/ caller[r] \in {"timeout", "cancelled"}
=============================================================================
