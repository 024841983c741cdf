--------------------------- MODULE ModbusExchange ---------------------------
(***************************************************************************)
(* What DongleServer.request_modbus promises its callers, with no queue,   *)
(* no connection and no polling: a call ends once, a frame goes out only   *)
(* for a call that was made, a write goes out at most once and a read at   *)
(* most twice, and a call is only answered or refused when a frame of its  *)
(* function and register has gone out.  DongleServer refines this module.  *)
(***************************************************************************)
EXTENDS Integers

CONSTANTS Req,      \* the calls of request_modbus
          Reads,    \* those whose function code is 0x03 or 0x04
          RegOf     \* the register each call names

VARIABLES phase,    \* "idle", "waiting", "ok", "refused", "timeout" or "cancelled"
          wires     \* how often the frame of each call was written

exchangeVars == <<phase, wires>>

\* A reply carries a function code and a register and nothing else.
SameKey(q, r) == (q \in Reads <=> r \in Reads) /\ RegOf[q] = RegOf[r]

\* IDEMPOTENT_READ_FUNCTIONS: only reads are re-sent, once.
MaxWires(r) == IF r \in Reads THEN 2 ELSE 1

Init == /\ phase = [r \in Req |-> "idle"]
        /\ wires = [r \in Req |-> 0]

Begin(r) == /\ phase[r] = "idle"
            /\ phase' = [phase EXCEPT ![r] = "waiting"]
            /\ UNCHANGED wires

\* The frame may leave after the caller gave up: the entry is deleted from
\* the queue but a write that already waits for the command gap goes on.
Transmit(r) == /\ phase[r] # "idle"
               /\ wires[r] < MaxWires(r)
               /\ wires' = [wires EXCEPT ![r] = @ + 1]
               /\ UNCHANGED phase

Answer(r) == /\ phase[r] = "waiting"
             /\ \E q \in Req : SameKey(q, r) /\ wires[q] > 0
             /\ \E e \in {"ok", "refused"} : phase' = [phase EXCEPT ![r] = e]
             /\ UNCHANGED wires

Fail(r) == /\ phase[r] = "waiting"
           /\ \E e \in {"timeout", "cancelled"} : phase' = [phase EXCEPT ![r] = e]
           /\ UNCHANGED wires

Next == \E r \in Req : Begin(r) \/ Transmit(r) \/ Answer(r) \/ Fail(r)

Spec == Init /\ [][Next]_exchangeVars
=============================================================================
