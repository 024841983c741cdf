-------------------------- MODULE MCDirectExchange --------------------------
(* DirectExchange on a small instance.                                     *)
EXTENDS DirectExchange, TLC

\* "AB" and "CD...": one serial is padded to ten bytes, one is cut.
MCDongleSerial == <<65, 66>>
MCInverterSerial == [i \in 1..11 |-> 66 + i]

\* A thread that reads two registers and writes the first of them, and one that
\* writes it too and reads the second.  Another client reads the first one alone.
CONSTANTS a, b
Read(r, n) == [fn |-> ReadHolding, reg |-> r, arg |-> n]
Write(r, v) == [fn |-> WriteSingle, reg |-> r, arg |-> v]
MCCalls == a :> {Read(255, 2), Write(255, 259)} @@ b :> {Read(256, 1), Write(255, 0)}
MCOthers == {Read(255, 1)}

NoRegister == -1
\* Telemetry for the polling client, and a frame that ends before its register.
MCPushes ==
    {[fn |-> ReadInput, reg |-> 0, vals |-> <<258>>, counted |-> TRUE],
     [fn |-> ReadHolding, reg |-> NoRegister, vals |-> <<0>>, counted |-> FALSE]}
=============================================================================
