--------------------------- MODULE DirectExchange ---------------------------
(***************************************************************************)
(* ModbusController._blocking_execute_raw: the exchange of WORKING_MODE    *)
(* DONGLE.  Callers in threads of asyncio.to_thread take turns under one   *)
(* lock; each attempt opens a connection of its own, sends the request and *)
(* cuts what arrives into frames until one of them matches, the deadline   *)
(* passes or the connection ends.                                          *)
(*                                                                         *)
(* The dongle is the environment: it takes requests late, twice at once or *)
(* never, refuses them with an exception reply, and writes its replies and *)
(* frames that answer nobody to whichever connection is open.              *)
(***************************************************************************)
EXTENDS ModbusFrames, FiniteSets

CONSTANTS Callers,     \* threads that exchange a request
          Registers, Values,
          Counts,      \* registers that one read may ask for
          Calls,       \* the requests of each caller
          Others,      \* requests of other clients of the inverter
          Pushes,      \* frames the dongle sends that answer no request
          Lengths,     \* whether its read replies have the length byte
          Chunks,      \* bytes that one recv returns, at most
          ReadTicks, WriteTicks,   \* timeout of an attempt (2.5 s and 5 s)
          MaxFrames,   \* bound: frames on one connection
          MaxPending   \* bound: requests the dongle holds, more it drops

None == "none"

\* The registers that a request is about: arg is the count or the value.
Span(q) == IF q.fn = ReadHolding THEN q.reg .. (q.reg + q.arg - 1) ELSE {q.reg}

Request == {q \in [fn : {ReadHolding}, reg : Registers, arg : Counts] :
                Span(q) \subseteq Registers}
             \cup [fn : {WriteSingle}, reg : Registers, arg : Values]

\* How many registers a frame may have. (_HOLDING_MAX_COUNT)
MaxCount == 125
BlockCounts == 1..MaxCount

\* Registers and values are words, a read asks for a block, nobody is no caller,
\* and what answers no request is no reply: it has another function or ends early.
ASSUME ExchangeAssumption ==
    /\ Registers \subseteq Words /\ Values \subseteq Words
    /\ Counts \subseteq BlockCounts
    /\ Calls \in [Callers -> SUBSET Request] /\ Others \subseteq Request
    /\ None \notin Callers
    /\ Chunks \subseteq Nat \ {0} /\ Lengths \subseteq BOOLEAN
    /\ ReadTicks \in Nat /\ WriteTicks \in Nat
    /\ Pushes \subseteq [fn : 0..127, reg : Int, vals : Seq(Words), counted : BOOLEAN]
    /\ \A f \in Pushes :
          /\ Len(f.vals) \in BlockCounts
          /\ f.fn \in {ReadHolding, WriteSingle} => f.reg \notin Registers

\* A function, of which TLC then builds the table once.
Table(f) == CHOOSE t \in {f} : t = f

RequestBytes ==
    Table([q \in Request |-> IF q.fn = ReadHolding
                             THEN build_read_holding_request(q.reg, q.arg)
                             ELSE build_write_single_request(q.reg, q.arg)])

Understood == Table([q \in Request |-> Intact(RequestBytes[q])])

\* A frame of the dongle.  A short one ends before its register.
Frame == [fn : {ReadHolding}, reg : Registers,
          vals : UNION {[1..n -> Values] : n \in Counts}, counted : BOOLEAN]
           \cup [fn : {WriteSingle}, reg : Registers, vals : [1..1 -> Values],
                 counted : {FALSE}]
           \cup [fn : {ReadHolding + Exception, WriteSingle + Exception},
                 reg : Registers, vals : {<<2>>}, counted : {FALSE}]
           \cup Pushes

\* The values in bytes: those of a refusal are its code.
Bytes(vals) ==
    [i \in 1..(2 * Len(vals)) |-> Word(vals[(i + 1) \div 2])[2 - (i % 2)]]

Payload(f) ==
    CASE f.fn >= Exception -> f.vals
      [] f.fn < Exception /\ f.counted -> <<2 * Len(f.vals)>> \o Bytes(f.vals)
      [] OTHER -> Bytes(f.vals)

Wire(f) ==
    IF f.reg \notin Registers THEN build_frame(f.fn, <<>>)
    ELSE build_response_frame(f.fn, f.reg, Payload(f))

FrameBytes == Table([f \in Frame |-> Wire(f)])

VARIABLES
    holding,   \* the registers of the inverter
    pc,        \* each caller: idle, queued, connecting or reading
    call,      \* its request
    result,    \* how its last call ended, and the values, register by register
    attempt,   \* the attempt of the holder of the lock
    left,      \* ticks to the deadline of the attempt
    data,      \* bytes received and not yet cut
    sock,      \* the open connection: the frames the dongle wrote, where each
               \* ends, their bytes, and how many of them were received
    inbox,     \* requests the dongle has not taken yet, and whose they are
    ran,       \* history: executions of the write of each caller's call
    seen       \* history: the registers of the call, with what each held, or
               \* was written with, since the call began

thread == <<attempt, left, data, sock>>
calls == <<pc, call, result>>
dongle == <<holding, inbox>>
ghosts == <<ran, seen>>
vars == <<dongle, calls, thread, ghosts>>

Closed == [open |-> FALSE, frames |-> <<>>, bytes |-> <<>>, got |-> 0]
NoCall == [fn |-> 0, reg |-> 0, arg |-> 0]
Outcome(kind) == [kind |-> kind, value |-> <<>>]

Init ==
    /\ holding \in [Registers -> Values]
    /\ inbox = {}
    /\ pc = [c \in Callers |-> "idle"]
    /\ call = [c \in Callers |-> NoCall]
    /\ result = [c \in Callers |-> Outcome(None)]
    /\ attempt = 0 /\ left = 0 /\ data = <<>> /\ sock = Closed
    /\ ran = [c \in Callers |-> 0]
    /\ seen = [c \in Callers |-> {}]

Holds(c) == pc[c] \in {"connecting", "reading"}
LockFree == \A c \in Callers : ~Holds(c)

\* Fault: writes are sent again too.
TwoForAll(fn) == 2

Attempts(fn) == IF fn = ReadHolding THEN 2 ELSE 1
Budget(fn) == IF fn = ReadHolding THEN ReadTicks ELSE WriteTicks

-----------------------------------------------------------------------------
(* The caller.                                                             *)

\* A request that is still with the dongle is nobody's from now on.
Call(c, q) ==
    /\ pc[c] = "idle"
    /\ pc' = [pc EXCEPT ![c] = "queued"]
    /\ call' = [call EXCEPT ![c] = q]
    /\ result' = [result EXCEPT ![c] = Outcome(None)]
    /\ ran' = [ran EXCEPT ![c] = 0]
    /\ seen' = [seen EXCEPT ![c] = IF q.fn = ReadHolding
                                   THEN {<<r, holding[r]>> : r \in Span(q)} ELSE {}]
    /\ inbox' = {[r EXCEPT !.by = IF r.by = c THEN None ELSE r.by] : r \in inbox}
    /\ UNCHANGED <<holding, thread>>

\* Fault: the lock is not taken.
AcquireAtOnce(c) ==
    /\ pc[c] = "queued"
    /\ pc' = [pc EXCEPT ![c] = "connecting"]
    /\ attempt' = 1
    /\ UNCHANGED <<dongle, call, result, left, data, sock, ghosts>>

Acquire(c) ==
    /\ pc[c] = "queued" /\ LockFree
    /\ pc' = [pc EXCEPT ![c] = "connecting"]
    /\ attempt' = 1
    /\ UNCHANGED <<dongle, call, result, left, data, sock, ghosts>>

\* The connection is closed and the lock released, whatever the outcome.
Finish(c, outcome) ==
    /\ pc' = [pc EXCEPT ![c] = "idle"]
    /\ result' = [result EXCEPT ![c] = outcome]
    /\ attempt' = 0 /\ left' = 0 /\ data' = <<>> /\ sock' = Closed
    /\ UNCHANGED <<call, dongle, ghosts>>

Again(c) ==
    /\ pc' = [pc EXCEPT ![c] = "connecting"]
    /\ attempt' = attempt + 1
    /\ left' = 0 /\ data' = <<>> /\ sock' = Closed
    /\ UNCHANGED <<call, result, dongle, ghosts>>

Fail(c) ==
    IF attempt < Attempts(call[c].fn) THEN Again(c)
    ELSE Finish(c, Outcome("timeout"))

\* connect fails, which is outside of the try block, or sendall other than by
\* a timeout: the call is over, whichever attempt this was.
Unreachable(c) ==
    /\ pc[c] = "connecting"
    /\ Finish(c, Outcome("error"))

\* sendall times out, which counts as an attempt.
Unsent(c) == pc[c] = "connecting" /\ Fail(c)

Connect(c) ==
    /\ pc[c] = "connecting"
    /\ pc' = [pc EXCEPT ![c] = "reading"]
    /\ sock' = [Closed EXCEPT !.open = TRUE]
    /\ data' = <<>>
    /\ left' = Budget(call[c].fn)
    /\ inbox' = IF Cardinality(inbox) < MaxPending /\ Understood[call[c]]
                THEN inbox \cup {[by |-> c, req |-> call[c]]}
                ELSE inbox
    /\ UNCHANGED <<holding, call, result, attempt, ghosts>>

\* Fault: the register of the reply is not compared.
AnyRegister(frame, q) ==
    HasRegister(frame) /\ response_function(frame) = q.fn

Matches(frame, q) ==
    /\ HasFunction(frame) /\ response_function(frame) = q.fn
    /\ HasRegister(frame)
    /\ response_register(frame) = request_register(RequestBytes[q])

\* The function is right and the register missing: response_register raises.
Breaks(frame, q) ==
    /\ HasFunction(frame) /\ response_function(frame) = q.fn
    /\ ~HasRegister(frame)

\* Fault: after a frame for somebody else the next bytes are awaited first.
OneFrameOnly(bytes, q) ==
    LET total == frame_length_expected(bytes)
        rest == SubSeq(bytes, total + 1, Len(bytes))
    IN  IF Len(bytes) >= 8 /\ total \in 8..Len(bytes)
           /\ Matches(SubSeq(bytes, 1, total), q)
        THEN [rest |-> rest, found |-> "frame", frame |-> SubSeq(bytes, 1, total)]
        ELSE [rest |-> IF Len(bytes) >= 8 /\ total <= Len(bytes) THEN rest ELSE bytes,
              found |-> "nothing", frame |-> <<>>]

\* The first frame of the bytes, by the length it gives for itself.
First(b) == SubSeq(b, 1, frame_length_expected(b))
Rest(b) == SubSeq(b, frame_length_expected(b) + 1, Len(b))

\* A length that cannot be one, and a frame that has not arrived whole.
Garbled(b) ==
    Len(b) >= 8 /\ (frame_length_expected(b) < 8 \/ frame_length_expected(b) > 4096)
Partial(b) ==
    Len(b) < 8 \/ (~Garbled(b) /\ Len(b) < frame_length_expected(b))

\* The frames of what has been received, cut one after the other until one
\* matches the request.  A length that cannot be one is skipped by a byte.
Sift(bytes, q) ==
    LET sift[b \in Seq(Byte)] ==
          CASE Partial(b) -> [rest |-> b, found |-> "nothing", frame |-> <<>>]
            [] Garbled(b) -> sift[Tail(b)]
            [] OTHER ->
                 CASE Matches(First(b), q) ->
                        [rest |-> Rest(b), found |-> "frame", frame |-> First(b)]
                   [] Breaks(First(b), q) ->
                        [rest |-> Rest(b), found |-> "truncated", frame |-> First(b)]
                   [] OTHER -> sift[Rest(b)]
    IN  sift[bytes]

Flight == SubSeq(sock.bytes, sock.got + 1, Len(sock.bytes))

\* What the caller makes of the frame that matched.
Answer(frame, q) ==
    IF Readable(frame, q.fn)
    THEN [kind |-> "value", value |-> RegistersOf(read_response_values(frame, q.fn))]
    ELSE Outcome("error")

Recv(c, size) ==
    /\ pc[c] = "reading" /\ left > 0 /\ Flight # <<>>
    /\ LET n == IF size < Len(Flight) THEN size ELSE Len(Flight)
           cut == Sift(data \o SubSeq(Flight, 1, n), call[c])
       IN  \/ /\ cut.found = "nothing"
              /\ data' = cut.rest
              /\ sock' = [sock EXCEPT !.got = @ + n]
              /\ UNCHANGED <<calls, attempt, left>>
              /\ UNCHANGED <<dongle, ghosts>>
           \/ cut.found = "truncated" /\ Finish(c, Outcome("error"))
           \/ cut.found = "frame" /\ Finish(c, Answer(cut.frame, call[c]))

\* recv raises something other than a timeout.
Reset(c) ==
    /\ pc[c] = "reading" /\ left > 0
    /\ Finish(c, Outcome("error"))

\* Fault: the socket is left blocking.
NoTimeout(c) == FALSE

\* The deadline has passed.
GiveUp(c) == pc[c] = "reading" /\ left = 0 /\ Fail(c)

\* The dongle ends the connection: recv returns no bytes.
Hangup(c) == pc[c] = "reading" /\ left > 0 /\ Flight = <<>> /\ Fail(c)

Tick ==
    /\ left > 0
    /\ left' = left - 1
    /\ UNCHANGED <<dongle, calls, attempt, data, sock, ghosts>>

-----------------------------------------------------------------------------
(* The dongle.                                                             *)

\* A reply is written to the open connection, or to none.
Send(f) ==
    IF sock.open /\ Len(sock.frames) < MaxFrames
    THEN LET bytes == sock.bytes \o FrameBytes[f]
         IN  sock' = [sock EXCEPT !.bytes = bytes,
                        !.frames = Append(@, [frame |-> f, end |-> Len(bytes)])]
    ELSE UNCHANGED sock

Stored(q) == IF q.fn = WriteSingle THEN <<q.arg>>
             ELSE [k \in 1..q.arg |-> holding[q.reg + k - 1]]

\* The inverter executes a request and the reply goes out at once.
Serve(q, counted) ==
    /\ holding' = [holding EXCEPT ![q.reg] = Stored(q)[1]]
    /\ Send([fn |-> q.fn, reg |-> q.reg, vals |-> Stored(q),
             counted |-> counted /\ q.fn = ReadHolding])
    /\ seen' = [c \in Callers |->
                  IF pc[c] # "idle" /\ (q.fn = WriteSingle \/ call[c].fn = ReadHolding)
                  THEN seen[c] \cup {<<r, Stored(q)[r - q.reg + 1]>> :
                                       r \in Span(q) \cap Span(call[c])}
                  ELSE seen[c]]
    /\ UNCHANGED <<calls, attempt, left, data>>

Execute(r, counted) ==
    /\ inbox' = inbox \ {r}
    /\ Serve(r.req, counted)
    /\ ran' = [c \in Callers |-> IF c = r.by /\ r.req.fn = WriteSingle
                                 THEN ran[c] + 1 ELSE ran[c]]

\* The request of another client, the reply of which the dongle may push on
\* this connection too.
Foreign(q, counted) == Serve(q, counted) /\ UNCHANGED <<inbox, ran>>

Refuse(r) ==
    /\ inbox' = inbox \ {r}
    /\ Send([fn |-> r.req.fn + Exception, reg |-> r.req.reg, vals |-> <<2>>,
             counted |-> FALSE])
    /\ UNCHANGED <<holding, calls, attempt, left, data, ghosts>>

Ignore(r) ==
    /\ inbox' = inbox \ {r}
    /\ UNCHANGED <<holding, calls, thread, ghosts>>

Push(f) ==
    /\ sock.open /\ Len(sock.frames) < MaxFrames
    /\ Send(f)
    /\ UNCHANGED <<dongle, calls, attempt, left, data, ghosts>>

-----------------------------------------------------------------------------

Exchange(c) ==
    \/ Acquire(c) \/ Unreachable(c) \/ Unsent(c) \/ Connect(c)
    \/ \E size \in Chunks : Recv(c, size)
    \/ Reset(c) \/ GiveUp(c) \/ Hangup(c)

Next ==
    \/ \E c \in Callers : (\E q \in Calls[c] : Call(c, q)) \/ Exchange(c)
    \/ \E r \in inbox : (\E b \in Lengths : Execute(r, b)) \/ Refuse(r) \/ Ignore(r)
    \/ \E q \in Others, b \in Lengths : Foreign(q, b)
    \/ \E f \in Pushes : Push(f)
    \/ Tick

\* Time passes, and a thread that holds the lock runs.
Spec ==
    /\ Init /\ [][Next]_vars
    /\ WF_vars(Tick)
    /\ \A c \in Callers : WF_vars(Unreachable(c) \/ Connect(c) \/ GiveUp(c))

-----------------------------------------------------------------------------

\* One caller has the lock, and the connection while it reads.
ControlOK ==
    /\ holding \in [Registers -> Values]
    /\ pc \in [Callers -> {"idle", "queued", "connecting", "reading"}]
    /\ call \in [Callers -> Request \cup {NoCall}]
    /\ \A c \in Callers : /\ Holds(c) => attempt \in 1..Attempts(call[c].fn)
                          /\ \A d \in Callers : Holds(c) /\ Holds(d) => c = d
                          /\ pc[c] = "reading" <=> (Holds(c) /\ sock.open)
    /\ LockFree => sock = Closed /\ left = 0 /\ data = <<>>
    /\ inbox \subseteq [by : Callers \cup {None}, req : Request]

TypeOK == ControlOK /\ data \in Seq(Byte) /\ Len(data) <= sock.got

\* Every request is built as the dongle expects it, its length and CRC right.
\* (build_frame, crc16_modbus)
RequestsAreIntact ==
    \A c \in Callers : Holds(c) => Understood[call[c]]

\* A write is executed at most once for each call, also when its answer is
\* late or lost: only reads are sent again.  (IDEMPOTENT_READ_FUNCTIONS)
WrittenOnce ==
    \A c \in Callers : ran[c] <= 1

\* Each value is one that its register held, or was written with, during the
\* call of q.
Known(q, values, during) ==
    \A k \in DOMAIN values :
        q.reg + k - 1 \in Span(q) => <<q.reg + k - 1, values[k]>> \in during

\* An uncounted reply to a read may begin with a byte that looks like the count
\* of those after it: it is left out, and what follows is cut into registers one
\* byte too late, the last of which is incomplete.  (read_response_values)
LooksCounted(q, values, during) ==
    /\ q.fn = ReadHolding /\ FALSE \in Lengths
    /\ \E n \in Counts, v \in Values :
          Len(values) = n - 1 /\ v % 256 = 2 * n - 1 /\ <<q.reg, v>> \in during

\* Each value in the answer of a read is one that its register held during the
\* call, and the value in that of a write one that the register was written
\* with during the call, whatever else the dongle sent, replies to others about
\* the same registers included, and however the bytes were split; unless an
\* uncounted reply looks like a counted one.
AnswerIsFresh ==
    \A c \in Callers : result[c].kind = "value" =>
        \/ Known(call[c], result[c].value, seen[c])
        \/ LooksCounted(call[c], result[c].value, seen[c])

\* While a caller still waits, the reply to its request is not among what it
\* has received: no reply is skipped, cut wrongly or dropped with a frame
\* before it.
NoReplyMissed ==
    \A c \in Callers : pc[c] = "reading" =>
        \A n \in DOMAIN sock.frames :
            /\ sock.frames[n].frame.fn = call[c].fn
            /\ sock.frames[n].frame.reg = call[c].reg
            => sock.frames[n].end > sock.got

\* Whoever has the lock gives it back, whatever the dongle sends or does not:
\* the lock is free again and again.
LockComesBack == []<>LockFree
=============================================================================
