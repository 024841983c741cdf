------------------------ MODULE DongleServer_proofs ------------------------
(***************************************************************************)
(* Proofs about DongleServer for every set of calls and connections.       *)
(***************************************************************************)
EXTENDS DongleServer, FiniteSetTheorems, TLAPS

Distinct(q) == \A i, j \in DOMAIN q : q[i] = q[j] => i = j

Holds(q, r) == \E i \in DOMAIN q : q[i] = r

\* What removing the i-th element of a sequence leaves (list.pop and __delitem__
\* on the queue).
LEMMA RemoveAtFacts ==
    ASSUME NEW S, NEW q \in Seq(S), NEW i \in DOMAIN q
    PROVE  /\ RemoveAt(q, i) \in Seq(S)
           /\ DOMAIN RemoveAt(q, i) = 1..(Len(q) - 1)
           /\ \A j \in 1..(Len(q) - 1) :
                 RemoveAt(q, i)[j] = IF j < i THEN q[j] ELSE q[j + 1]
<1>. DEFINE a == SubSeq(q, 1, i - 1)
            b == SubSeq(q, i + 1, Len(q))
<1>1. i \in 1..Len(q) /\ Len(q) \in Nat
  OBVIOUS
<1>2. a \in Seq(S) /\ Len(a) = i - 1 /\ \A j \in 1..(i - 1) : a[j] = q[j]
  BY <1>1
<1>3. /\ b \in Seq(S) /\ Len(b) = Len(q) - i
      /\ \A j \in 1..(Len(q) - i) : b[j] = q[i + j]
  BY <1>1
<1>4. RemoveAt(q, i) = a \o b
  BY DEF RemoveAt
<1>. HIDE DEF a, b
<1>5. /\ a \o b \in Seq(S) /\ Len(a \o b) = Len(q) - 1
      /\ DOMAIN (a \o b) = 1..(Len(q) - 1)
  BY <1>1, <1>2, <1>3
<1>6. ASSUME NEW j \in 1..(Len(q) - 1)
      PROVE  (a \o b)[j] = IF j < i THEN q[j] ELSE q[j + 1]
  <2>1. (a \o b)[j] = IF j <= Len(a) THEN a[j] ELSE b[j - Len(a)]
    BY <1>1, <1>2, <1>3
  <2>2. CASE j < i
    BY <2>1, <2>2, <1>1, <1>2
  <2>3. CASE ~(j < i)
    <3>1. j - (i - 1) \in 1..(Len(q) - i) /\ i + (j - (i - 1)) = j + 1
      BY <1>1, <2>3
    <3>2. b[j - (i - 1)] = q[j + 1]
      BY <1>3, <3>1
    <3>3. QED
      BY <2>1, <2>3, <3>2, <1>1, <1>2
  <2>4. QED
    BY <2>2, <2>3
<1>7. QED
  BY <1>4, <1>5, <1>6

\* Removing one entry of a queue without duplicates keeps the others.
LEMMA RemoveAtKeepsOthers ==
    ASSUME NEW S, NEW q \in Seq(S), NEW i \in DOMAIN q, Distinct(q)
    PROVE  /\ RemoveAt(q, i) \in Seq(S)
           /\ Distinct(RemoveAt(q, i))
           /\ \A r : Holds(RemoveAt(q, i), r) <=> Holds(q, r) /\ r # q[i]
<1>. DEFINE p == RemoveAt(q, i)
<1>1. /\ p \in Seq(S)
      /\ DOMAIN p = 1..(Len(q) - 1)
      /\ \A j \in 1..(Len(q) - 1) : p[j] = IF j < i THEN q[j] ELSE q[j + 1]
  BY RemoveAtFacts
<1>2. DOMAIN q = 1..Len(q) /\ Len(q) \in Nat /\ i \in 1..Len(q)
  OBVIOUS
<1>. HIDE DEF p
<1>3. Distinct(p)
  BY <1>1, <1>2 DEF Distinct
<1>4. ASSUME NEW r, Holds(p, r) PROVE Holds(q, r) /\ r # q[i]
  BY <1>1, <1>2, <1>4 DEF Holds, Distinct
<1>5. ASSUME NEW r, Holds(q, r), r # q[i] PROVE Holds(p, r)
  <2>1. PICK j \in DOMAIN q : q[j] = r
    BY <1>5 DEF Holds
  <2>2. CASE j < i
    BY <2>1, <2>2, <1>1, <1>2 DEF Holds
  <2>3. CASE j > i
    <3>1. j - 1 \in DOMAIN p /\ p[j - 1] = q[j]
      BY <2>1, <2>3, <1>1, <1>2
    <3>2. QED
      BY <3>1, <2>1 DEF Holds
  <2>4. QED
    BY <2>1, <2>2, <2>3, <1>2, <1>5
<1>6. QED
  BY <1>1, <1>3, <1>4, <1>5 DEF p

\* Dropping the entry of a call keeps every other entry, once.
LEMMA DropFacts ==
    ASSUME NEW S, NEW q \in Seq(S), NEW r, Distinct(q)
    PROVE  /\ Drop(q, r) \in Seq(S)
           /\ Distinct(Drop(q, r))
           /\ \A x : Holds(Drop(q, r), x) <=> Holds(q, x) /\ x # r
<1>1. CASE Holds(q, r)
  <2>. DEFINE i == CHOOSE k \in DOMAIN q : q[k] = r
  <2>1. i \in DOMAIN q /\ q[i] = r
    BY <1>1 DEF Holds
  <2>2. Drop(q, r) = RemoveAt(q, i)
    BY <1>1 DEF Drop, Holds
  <2>. HIDE DEF i
  <2>3. QED
    BY <2>1, <2>2, RemoveAtKeepsOthers
<1>2. CASE ~Holds(q, r)
  BY <1>2 DEF Drop, Holds
<1>3. QED
  BY <1>1, <1>2

\* Queueing a call that is not queued adds it, once.
LEMMA AppendFacts ==
    ASSUME NEW S, NEW q \in Seq(S), NEW r \in S, Distinct(q), ~Holds(q, r)
    PROVE  /\ Append(q, r) \in Seq(S)
           /\ Distinct(Append(q, r))
           /\ \A x : Holds(Append(q, r), x) <=> Holds(q, x) \/ x = r
<1>. DEFINE p == Append(q, r)
<1>1. /\ p \in Seq(S) /\ DOMAIN p = 1..(Len(q) + 1) /\ DOMAIN q = 1..Len(q)
      /\ Len(q) \in Nat
      /\ \A j \in 1..Len(q) : p[j] = q[j]
      /\ p[Len(q) + 1] = r
  OBVIOUS
<1>. HIDE DEF p
<1>2. Distinct(p)
  BY <1>1 DEF Distinct, Holds
<1>3. ASSUME NEW x PROVE Holds(p, x) <=> Holds(q, x) \/ x = r
  <2>1. Holds(p, x) => Holds(q, x) \/ x = r
    BY <1>1 DEF Holds
  <2>2. Holds(q, x) => Holds(p, x)
    BY <1>1 DEF Holds
  <2>3. x = r => Holds(p, x)
    BY <1>1 DEF Holds
  <2>4. QED
    BY <2>1, <2>2, <2>3
<1>4. QED
  BY <1>1, <1>2, <1>3 DEF p
-----------------------------------------------------------------------------
\* A handler that writes a request knows which, and one that handles a frame
\* has one.
HandlerOK ==
    \A c \in Conn : /\ pc[c] \in {"sendTop", "sendBack"} => cur[c] \in Req
                    /\ pc[c] = "handle" => buf[c] # <<>>

TypeInv == TypeOK /\ HandlerOK

\* Dropping an entry leaves a queue of calls.
LEMMA DropType ==
    ASSUME NEW S, NEW q \in Seq(S), NEW r
    PROVE  Drop(q, r) \in Seq(S)
<1>1. CASE Holds(q, r)
  <2>1. PICK i \in DOMAIN q : Drop(q, r) = RemoveAt(q, i)
    BY <1>1 DEF Drop, Holds
  <2>2. QED
    BY <2>1, RemoveAtFacts
<1>2. CASE ~Holds(q, r)
  BY <1>2 DEF Drop, Holds
<1>3. QED
  BY <1>1, <1>2

\* A queue cut after its first n > 0 elements.
LEMMA SplitFacts ==
    ASSUME NEW S, NEW q \in Seq(S), NEW n \in 1..Len(q)
    PROVE  /\ SubSeq(q, 1, n) \in Seq(S) /\ SubSeq(q, 1, n) # <<>>
           /\ SubSeq(q, n + 1, Len(q)) \in Seq(S)
<1>1. SubSeq(q, 1, n) \in Seq(S) /\ Len(SubSeq(q, 1, n)) = n
  OBVIOUS
<1>2. SubSeq(q, 1, n) # <<>>
  BY <1>1
<1>3. SubSeq(q, n + 1, Len(q)) \in Seq(S)
  OBVIOUS
<1>4. QED
  BY <1>1, <1>2, <1>3

\* The server starts in a typed state.
LEMMA TypeInit == Init => TypeInv
<1>. SUFFICES ASSUME Init PROVE TypeInv
  OBVIOUS
<1>1. /\ pending \in Seq(Req)
      /\ buf \in [Conn -> Seq(Frame)]
      /\ stream \in [Conn -> Seq(Frame)]
  BY DEF Init
<1>2. /\ caller \in [Req -> {"idle", "wait1", "wait2"} \cup Ended]
      /\ future \in [Req -> {"open", "done", "refused"}]
      /\ sent \in [Req -> BOOLEAN]
      /\ wires \in [Req -> Nat]
      /\ wake \in BOOLEAN /\ landed \in SUBSET Req
  BY DEF Init
<1>3. /\ pc \in [Conn -> Running \cup Writing \cup Parked \cup {"absent", "arm"}]
      /\ cur \in [Conn -> Req \cup {NoReq}]
      /\ woken \in [Conn -> BOOLEAN]
      /\ busy \in [Conn -> Cmd \cup {Idle}]
  BY DEF Init
<1>4. cached \in [InputBlocks -> {"nothing", "input", "holding"}]
  BY DEF Init
<1>5. HandlerOK
  BY DEF Init, HandlerOK
<1>6. QED
  BY <1>1, <1>2, <1>3, <1>4, <1>5 DEF TypeInv, TypeOK

\* What marking and starting to write the first unsent entry does.
LEMMA SendPendingType ==
    ASSUME TypeInv, NEW c \in Conn, NEW l \in {"sendTop", "sendBack"},
           SendPending(c, l)
    PROVE  \E r \in Req : /\ sent' = [sent EXCEPT ![r] = TRUE]
                          /\ cur' = [cur EXCEPT ![c] = r]
                          /\ pc' = [pc EXCEPT ![c] = l]
<1>1. PICK i \in Unsent : /\ sent' = [sent EXCEPT ![pending[i]] = TRUE]
                          /\ cur' = [cur EXCEPT ![c] = pending[i]]
                          /\ pc' = [pc EXCEPT ![c] = l]
  BY DEF SendPending, Goto
<1>2. pending[i] \in Req
  BY DEF Unsent, TypeInv, TypeOK
<1>3. QED
  BY <1>1, <1>2

\* Every step of the callers, the handlers and the dongle keeps the types.
LEMMA TypeStep == TypeInv /\ [Next]_vars => TypeInv'
<1>. SUFFICES ASSUME TypeInv, [Next]_vars PROVE TypeInv'
  OBVIOUS
<1>. USE RequestAssumption DEF TypeInv, TypeOK, HandlerOK, Ended, Running, Writing, Parked,
         callVars, connVars, Goto
<1>1. ASSUME NEW r \in Req, Request(r) PROVE TypeInv'
  BY <1>1 DEF Request, SetWake
<1>2. ASSUME NEW r \in Req, Deliver(r) PROVE TypeInv'
  BY <1>2 DEF Deliver, Outcome
<1>3. ASSUME NEW r \in Req, Retry(r) PROVE TypeInv'
  BY <1>3, DropType DEF Retry, SetWake
<1>4. ASSUME NEW r \in Req, GiveUp(r) PROVE TypeInv'
  BY <1>4, DropType DEF GiveUp
<1>5. ASSUME NEW r \in Req, Cancel(r) PROVE TypeInv'
  BY <1>5, DropType DEF Cancel
<1>6. ASSUME NEW c \in Conn, Top(c) PROVE TypeInv'
  <2>1. CASE SendPending(c, "sendTop")
    <3>1. PICK r \in Req : /\ sent' = [sent EXCEPT ![r] = TRUE]
                           /\ cur' = [cur EXCEPT ![c] = r]
                           /\ pc' = [pc EXCEPT ![c] = "sendTop"]
      BY <2>1, SendPendingType
    <3>2. QED
      BY <1>6, <3>1 DEF Top
  <2>2. CASE ~SendPending(c, "sendTop")
    BY <1>6, <2>2 DEF Top
  <2>3. QED
    BY <2>1, <2>2
<1>7. ASSUME NEW c \in Conn, EnterRead(c) PROVE TypeInv'
  BY <1>7 DEF EnterRead
<1>8. ASSUME NEW c \in Conn, Arm(c) PROVE TypeInv'
  BY <1>8 DEF Arm
<1>9. ASSUME NEW c \in Conn, ReadChunk(c) PROVE TypeInv'
  <2>1. PICK k \in 1..Len(stream[c]) :
           /\ buf' = [buf EXCEPT ![c] = SubSeq(stream[c], 1, k)]
           /\ stream' = [stream EXCEPT ![c] = SubSeq(stream[c], k + 1, Len(stream[c]))]
    BY <1>9 DEF ReadChunk
  <2>2. stream[c] \in Seq(Frame)
    OBVIOUS
  <2>3. /\ SubSeq(stream[c], 1, k) \in Seq(Frame) /\ SubSeq(stream[c], 1, k) # <<>>
        /\ SubSeq(stream[c], k + 1, Len(stream[c])) \in Seq(Frame)
    BY <2>2, SplitFacts
  <2>4. buf' \in [Conn -> Seq(Frame)] /\ stream' \in [Conn -> Seq(Frame)]
    BY <2>1, <2>3
  <2>5. QED
    BY <1>9, <2>1, <2>3, <2>4 DEF ReadChunk
<1>10. ASSUME NEW c \in Conn, ReadIdle(c) PROVE TypeInv'
  BY <1>10 DEF ReadIdle
<1>11. ASSUME NEW c \in Conn, Resolve(c) PROVE TypeInv'
  BY <1>11, RemoveAtFacts DEF Resolve, Matches
<1>12. ASSUME NEW c \in Conn, Parse(c) PROVE TypeInv'
  BY <1>12 DEF Parse, Taken
<1>13. ASSUME NEW c \in Conn, Replied(c) PROVE TypeInv'
  <2>1. CASE SendPending(c, "sendBack")
    <3>1. PICK r \in Req : /\ sent' = [sent EXCEPT ![r] = TRUE]
                           /\ cur' = [cur EXCEPT ![c] = r]
                           /\ pc' = [pc EXCEPT ![c] = "sendBack"]
      BY <2>1, SendPendingType
    <3>2. QED
      BY <1>13, <3>1 DEF Replied
  <2>2. CASE ~SendPending(c, "sendBack")
    BY <1>13, <2>2 DEF Replied
  <2>3. QED
    BY <2>1, <2>2
<1>14. ASSUME NEW c \in Conn, After(c) PROVE TypeInv'
  <2>1. CASE SendPending(c, "sendBack")
    <3>1. PICK r \in Req : /\ sent' = [sent EXCEPT ![r] = TRUE]
                           /\ cur' = [cur EXCEPT ![c] = r]
                           /\ pc' = [pc EXCEPT ![c] = "sendBack"]
      BY <2>1, SendPendingType
    <3>2. QED
      BY <1>14, <3>1 DEF After
  <2>2. CASE ~SendPending(c, "sendBack")
    BY <1>14, <2>2 DEF After
  <2>3. QED
    BY <2>1, <2>2
<1>15. ASSUME NEW c \in Conn, Sent(c) PROVE TypeInv'
  <2>1. cur[c] \in Req
    BY <1>15 DEF Sent
  <2>2. busy' \in [Conn -> Cmd \cup {Idle}]
    BY <1>15, <2>1 DEF Sent, Arrive, Cmd
  <2>3. wires' \in [Req -> Nat]
    BY <1>15, <2>1 DEF Sent
  <2>4. QED
    BY <1>15, <2>2, <2>3 DEF Sent
<1>16. ASSUME NEW c \in Conn, Polled(c) PROVE TypeInv'
  <2>1. busy' \in [Conn -> Cmd \cup {Idle}]
    BY <1>16 DEF Polled, Arrive, Cmd
  <2>2. QED
    BY <1>16, <2>1 DEF Polled
<1>17. ASSUME NEW c \in Conn, Snooze(c) PROVE TypeInv'
  BY <1>17 DEF Snooze
<1>18. ASSUME NEW c \in Conn, WakeUp(c) PROVE TypeInv'
  BY <1>18 DEF WakeUp
<1>19. ASSUME NEW c \in Conn, Connect(c) PROVE TypeInv'
  BY <1>19 DEF Connect
<1>20. ASSUME NEW c \in Conn, Disconnect(c) PROVE TypeInv'
  BY <1>20 DEF Disconnect, Close
<1>21. ASSUME NEW c \in Conn, WriteFails(c) PROVE TypeInv'
  <2>1. wires' \in [Req -> Nat] /\ landed' \in SUBSET Req
    <3>1. CASE UNCHANGED <<wires, landed>>
      BY <3>1
    <3>2. CASE /\ cur[c] \in Req
               /\ wires' = [wires EXCEPT ![cur[c]] = @ + 1]
               /\ landed' \in {landed, landed \cup {cur[c]}}
      BY <3>2
    <3>3. QED
      BY <1>21, <3>1, <3>2 DEF WriteFails
  <2>2. /\ buf' \in [Conn -> Seq(Frame)] /\ stream' \in [Conn -> Seq(Frame)]
        /\ busy' \in [Conn -> Cmd \cup {Idle}]
    BY <1>21 DEF WriteFails, Close
  <2>3. QED
    BY <1>21, <2>1, <2>2 DEF WriteFails, Close
<1>22. ASSUME NEW c \in Conn, Lose(c) PROVE TypeInv'
  BY <1>22 DEF Lose, Executed
<1>23. ASSUME NEW c \in Conn, Reply(c) \/ Refuse(c) PROVE TypeInv'
  <2>1. PICK k \in BOOLEAN :
           stream' = [stream EXCEPT ![c] = Append(@, [cmd |-> busy[c], ok |-> k])]
    BY <1>23 DEF Reply, Refuse
  <2>2. [cmd |-> busy[c], ok |-> k] \in Frame
    BY <1>23 DEF Reply, Refuse, Frame, Cmd
  <2>3. stream' \in [Conn -> Seq(Frame)]
    BY <2>1, <2>2
  <2>4. landed' \in SUBSET Req /\ busy' \in [Conn -> Cmd \cup {Idle}]
    BY <1>23 DEF Reply, Refuse, Executed
  <2>5. QED
    BY <1>23, <2>3, <2>4 DEF Reply, Refuse
<1>24. CASE UNCHANGED vars
  BY <1>24 DEF vars
<1>25. QED
  BY <1>1, <1>2, <1>3, <1>4, <1>5, <1>6, <1>7, <1>8, <1>9, <1>10, <1>11, <1>12,
     <1>13, <1>14, <1>15, <1>16, <1>17, <1>18, <1>19, <1>20, <1>21, <1>22, <1>23,
     <1>24 DEF Next, Call, Handler

\* The queue, the handlers and the connections keep their types, a handler
\* that writes a request knows which (__send_pending_modbus) and one that
\* handles a frame has one (__pop_complete_frame).
THEOREM TypeCorrect == Spec => []TypeInv
  BY TypeInit, TypeStep, PTL DEF Spec

\* No variable ever leaves its type.
THEOREM TypeSafe == Spec => []TypeOK
<1>1. TypeInv => TypeOK
  BY DEF TypeInv
<1>2. QED
  BY <1>1, TypeCorrect, PTL

-----------------------------------------------------------------------------
(* The queue and the calls.                                                *)

\* Inductive form of QueueHoldsTheOpenCalls; a call that was not made yet
\* has an unresolved future, so queueing it keeps the second conjunct.
QueueInv ==
    /\ Distinct(pending)
    /\ \A r \in Req : Holds(pending, r) =>
          /\ future[r] = "open"
          /\ \/ caller[r] \in {"wait1", "wait2"}
             \/ caller[r] = "cancelled" /\ "wait2" \in CancelIn
    /\ \A r \in Req : caller[r] \in {"wait1", "wait2"} /\ future[r] = "open"
                      => Holds(pending, r)
    /\ \A r \in Req : caller[r] = "idle" => future[r] = "open"

\* The empty queue agrees with the calls.
LEMMA QueueInit == Init => QueueInv
  BY DEF Init, QueueInv, Distinct, Holds

\* A step that leaves the queue and the calls alone keeps their agreement.
LEMMA QueueUnchanged ==
    ASSUME QueueInv, UNCHANGED <<caller, future, pending>> PROVE QueueInv'
  BY DEF QueueInv, Distinct, Holds

\* Every step keeps the queue in agreement with the calls.
LEMMA QueueStep == TypeInv /\ QueueInv /\ [Next]_vars => QueueInv'
<1>. SUFFICES ASSUME TypeInv, QueueInv, [Next]_vars PROVE QueueInv'
  OBVIOUS
<1>. USE DEF TypeInv, TypeOK
<1>0. pending \in Seq(Req) /\ Distinct(pending)
  BY DEF QueueInv
<1>1. ASSUME NEW r \in Req, Request(r) PROVE QueueInv'
  <2>1. ~Holds(pending, r)
    BY <1>1 DEF Request, QueueInv
  <2>2. Distinct(pending') /\ \A x : Holds(pending', x) <=> Holds(pending, x) \/ x = r
    BY <1>0, <1>1, <2>1, AppendFacts DEF Request
  <2>3. caller' = [caller EXCEPT ![r] = "wait1"] /\ future' = future
        /\ caller[r] = "idle" /\ future[r] = "open"
    BY <1>1 DEF Request, QueueInv
  <2>4. QED
    BY <2>2, <2>3 DEF QueueInv
<1>2. ASSUME NEW r \in Req, Deliver(r) PROVE QueueInv'
  <2>1. Outcome(r) \notin {"idle", "wait1", "wait2"}
    BY DEF Outcome
  <2>2. /\ caller' = [caller EXCEPT ![r] = Outcome(r)] /\ caller[r] \in {"wait1", "wait2"}
        /\ future[r] # "open" /\ UNCHANGED <<future, pending>>
    BY <1>2 DEF Deliver
  <2>3. ~Holds(pending, r)
    BY <2>2 DEF QueueInv
  <2>4. QED
    BY <2>1, <2>2, <2>3 DEF QueueInv, Distinct, Holds
<1>3. ASSUME NEW r \in Req, Retry(r) PROVE QueueInv'
  <2>1. /\ Drop(pending, r) \in Seq(Req) /\ Distinct(Drop(pending, r))
        /\ \A x : Holds(Drop(pending, r), x) <=> Holds(pending, x) /\ x # r
    BY <1>0, DropFacts
  <2>2. Distinct(pending') /\ \A x : Holds(pending', x) <=> Holds(pending, x) \/ x = r
    BY <1>3, <2>1, AppendFacts DEF Retry
  <2>3. QED
    BY <1>3, <2>2 DEF Retry, QueueInv
<1>4. ASSUME NEW r \in Req, GiveUp(r) PROVE QueueInv'
  <2>1. /\ Distinct(pending')
        /\ \A x : Holds(pending', x) <=> Holds(pending, x) /\ x # r
    BY <1>0, <1>4, DropFacts DEF GiveUp
  <2>2. QED
    BY <1>4, <2>1 DEF GiveUp, QueueInv
<1>5. ASSUME NEW r \in Req, Cancel(r) PROVE QueueInv'
  <2>1. CASE caller[r] = "wait1"
    <3>1. /\ Distinct(pending')
          /\ \A x : Holds(pending', x) <=> Holds(pending, x) /\ x # r
      BY <1>0, <1>5, <2>1, DropFacts DEF Cancel
    <3>2. QED
      BY <1>5, <3>1 DEF Cancel, QueueInv
  <2>2. CASE caller[r] # "wait1"
    <3>1. caller[r] = "wait2" /\ "wait2" \in CancelIn /\ pending' = pending
      BY <1>5, <2>2, RequestAssumption DEF Cancel
    <3>2. QED
      BY <1>5, <3>1 DEF Cancel, QueueInv
  <2>3. QED
    BY <2>1, <2>2
<1>6. ASSUME NEW c \in Conn, Resolve(c) PROVE QueueInv'
  <2>1. PICK i \in DOMAIN pending :
           /\ pending' = RemoveAt(pending, i)
           /\ \E a \in {"done", "refused"} : future' = [future EXCEPT ![pending[i]] = a]
    BY <1>6 DEF Resolve, Matches
  <2>2. /\ Distinct(pending')
        /\ \A x : Holds(pending', x) <=> Holds(pending, x) /\ x # pending[i]
    BY <1>0, <2>1, RemoveAtKeepsOthers
  <2>3. pending[i] \in Req /\ caller' = caller /\ Holds(pending, pending[i])
    BY <1>6, <2>1 DEF Resolve, Holds
  <2>4. PICK a \in {"done", "refused"} : future' = [future EXCEPT ![pending[i]] = a]
    BY <2>1
  <2>5. \A r \in Req : r # pending[i] => future'[r] = future[r]
    BY <2>4
  <2>6. future'[pending[i]] # "open"
    BY <2>3, <2>4
  <2>7. caller[pending[i]] # "idle"
    BY <2>3 DEF QueueInv
  <2>8. QED
    BY <2>2, <2>3, <2>5, <2>6, <2>7 DEF QueueInv
<1>7. ASSUME NEW c \in Conn,
             \/ Top(c) \/ EnterRead(c) \/ Arm(c) \/ ReadChunk(c) \/ ReadIdle(c)
             \/ Parse(c) \/ Replied(c) \/ After(c) \/ Sent(c) \/ Polled(c)
             \/ Snooze(c) \/ WakeUp(c) \/ Connect(c) \/ Disconnect(c)
             \/ WriteFails(c) \/ Lose(c) \/ Reply(c) \/ Refuse(c)
      PROVE  QueueInv'
  <2>1. UNCHANGED <<caller, future, pending>>
    BY <1>7 DEF callVars, Top, EnterRead, Arm, ReadChunk, ReadIdle, Parse, Replied,
       After, Sent, Polled, Snooze, WakeUp, Connect, Disconnect, WriteFails, Close,
       Lose, Reply, Refuse
  <2>2. QED
    BY <2>1, QueueUnchanged
<1>8. CASE UNCHANGED vars
  BY <1>8, QueueUnchanged DEF vars
<1>9. QED
  BY <1>1, <1>2, <1>3, <1>4, <1>5, <1>6, <1>7, <1>8 DEF Next, Call, Handler

\* No call is queued twice; what is queued is unanswered and waiting, or was
\* cancelled in its second wait; what waits for an answer is queued.
THEOREM QueueCorrect == Spec => []QueueHoldsTheOpenCalls
<1>1. Spec => []QueueInv
  BY QueueInit, QueueStep, TypeCorrect, PTL DEF Spec
<1>2. TypeInv /\ QueueInv => QueueHoldsTheOpenCalls
  <2>. SUFFICES ASSUME TypeInv, QueueInv PROVE QueueHoldsTheOpenCalls
    OBVIOUS
  <2>1. \A i \in DOMAIN pending : pending[i] \in Req /\ Holds(pending, pending[i])
    BY DEF TypeInv, TypeOK, Holds
  <2>2. QED
    BY <2>1 DEF QueueInv, QueueHoldsTheOpenCalls, Distinct, Holds
<1>3. QED
  BY <1>1, <1>2, TypeCorrect, PTL

-----------------------------------------------------------------------------
(* Wake-ups.                                                               *)

SingleConnection == \A c, d \in Conn : c = d

\* Whether a request is queued unsent, in terms of membership of the queue.
LEMMA UnsentHolds ==
    ASSUME TypeInv
    PROVE  HasUnsent <=> \E r \in Req : Holds(pending, r) /\ ~sent[r]
  BY DEF TypeInv, TypeOK, HasUnsent, Unsent, Holds

\* The same in the next state.
LEMMA UnsentHoldsNext ==
    ASSUME TypeInv'
    PROVE  HasUnsent' <=> \E r \in Req : Holds(pending', r) /\ ~sent'[r]
  BY DEF TypeInv, TypeOK, HasUnsent, Unsent, Holds

\* No handler waits at the start.
LEMMA WakeInit == Init => NoLostWakeup
  BY DEF Init, NoLostWakeup, Parked

\* With one connection, no step leaves a handler waiting on a queued request.
LEMMA WakeStep ==
    ASSUME SingleConnection
    PROVE  TypeInv /\ QueueInv /\ TypeInv' /\ NoLostWakeup /\ [Next]_vars => NoLostWakeup'
<1>. SUFFICES ASSUME TypeInv, QueueInv, TypeInv', NoLostWakeup, [Next]_vars
              PROVE  NoLostWakeup'
  OBVIOUS
<1>. USE DEF Parked
<1>0. pending \in Seq(Req) /\ Distinct(pending)
      /\ pc \in [Conn -> Running \cup Writing \cup Parked \cup {"absent", "arm"}]
      /\ woken \in [Conn -> BOOLEAN]
  BY DEF QueueInv, TypeInv, TypeOK
\* A step that queues a request wakes every waiting handler.
<1>1. ASSUME SetWake, pc' = pc PROVE NoLostWakeup'
  BY <1>0, <1>1 DEF SetWake, NoLostWakeup
\* A step that only takes requests off the queue leaves nothing unsent behind.
<1>2. ASSUME UNCHANGED <<pc, woken, wake, sent>>,
             \A r \in Req : Holds(pending', r) => Holds(pending, r)
      PROVE  NoLostWakeup'
  <2>1. HasUnsent' => HasUnsent
    BY <1>2, UnsentHolds, UnsentHoldsNext
  <2>2. QED
    BY <1>2, <2>1 DEF NoLostWakeup
<1>3. ASSUME NEW r \in Req, Call(r) PROVE NoLostWakeup'
  <2>1. CASE Request(r) \/ Retry(r)
    BY <1>1, <2>1 DEF Request, Retry
  <2>2. CASE Deliver(r)
    BY <1>2, <2>2 DEF Deliver
  <2>3. CASE GiveUp(r) \/ Cancel(r)
    <3>1. \A x : Holds(Drop(pending, r), x) => Holds(pending, x)
      BY <1>0, DropFacts
    <3>2. pending' = Drop(pending, r) \/ pending' = pending
      BY <2>3 DEF GiveUp, Cancel
    <3>3. QED
      BY <1>2, <2>3, <3>1, <3>2 DEF GiveUp, Cancel
  <2>4. QED
    BY <1>3, <2>1, <2>2, <2>3 DEF Call
\* The only handler goes to a place where it is not waiting.
<1>4. ASSUME NEW c \in Conn, NEW l, l \notin Parked \cup {"arm"},
             pc' = [pc EXCEPT ![c] = l]
      PROVE  NoLostWakeup'
  BY <1>0, <1>4 DEF NoLostWakeup, SingleConnection
<1>5. ASSUME NEW c \in Conn,
             \/ Top(c) \/ ReadChunk(c) \/ ReadIdle(c) \/ Resolve(c) \/ Parse(c)
             \/ Replied(c) \/ After(c) \/ Sent(c) \/ Polled(c) \/ WakeUp(c)
             \/ Connect(c) \/ Disconnect(c) \/ WriteFails(c)
      PROVE  NoLostWakeup'
  <2>1. \E l : l \notin Parked \cup {"arm"} /\ pc' = [pc EXCEPT ![c] = l]
    BY <1>5 DEF Top, ReadChunk, ReadIdle, Resolve, Parse, Replied, After, Sent, Polled,
       WakeUp, Connect, Disconnect, WriteFails, Close, SendPending, Goto
  <2>2. QED
    BY <1>4, <2>1
<1>6. ASSUME NEW c \in Conn, EnterRead(c) \/ Snooze(c) PROVE NoLostWakeup'
  <2>1. pending' = pending /\ sent' = sent
    BY <1>6 DEF EnterRead, Snooze, callVars
  <2>2. HasUnsent' = HasUnsent
    BY <2>1 DEF HasUnsent, Unsent
  <2>3. \/ \E l : l \notin Parked \cup {"arm"} /\ pc' = [pc EXCEPT ![c] = l]
        \/ ~HasUnsent
    BY <1>6 DEF EnterRead, Snooze, Goto
  <2>4. QED
    BY <1>4, <2>2, <2>3 DEF NoLostWakeup
<1>7. ASSUME NEW c \in Conn, Arm(c) PROVE NoLostWakeup'
  <2>1. /\ pending' = pending /\ sent' = sent /\ wake' = wake
        /\ pc[c] = "arm" /\ pc' = [pc EXCEPT ![c] = "read"]
        /\ woken' = [woken EXCEPT ![c] = wake]
    BY <1>7 DEF Arm, callVars, Goto
  <2>2. HasUnsent' = HasUnsent
    BY <2>1 DEF HasUnsent, Unsent
  <2>3. QED
    BY <1>0, <2>1, <2>2 DEF NoLostWakeup, SingleConnection
<1>8. ASSUME NEW c \in Conn, Lose(c) \/ Reply(c) \/ Refuse(c) PROVE NoLostWakeup'
  BY <1>2, <1>8 DEF Lose, Reply, Refuse, callVars
<1>9. CASE UNCHANGED vars
  BY <1>2, <1>9 DEF vars
<1>10. QED
  BY <1>3, <1>5, <1>6, <1>7, <1>8, <1>9 DEF Next, Handler

\* With one dongle connection, a handler that waits for the event and was not
\* woken has nothing to send: __read_with_wake and __interruptible_sleep look
\* at the queue again after they clear the event.
THEOREM WakeupCorrect == SingleConnection => (Spec => []NoLostWakeup)
<1>. SUFFICES ASSUME SingleConnection PROVE Spec => []NoLostWakeup
  OBVIOUS
<1>1. Spec => []QueueInv
  BY QueueInit, QueueStep, TypeCorrect, PTL DEF Spec
<1>2. QED
  BY <1>1, WakeInit, WakeStep, TypeCorrect, PTL DEF Spec

-----------------------------------------------------------------------------
(* DongleServer implements ModbusExchange.                                 *)

\* How often the frame of r may have left, or be leaving: once for the mark of
\* its entry, and once for the first attempt of a read that was repeated.
Budget(r) == (IF sent[r] THEN 1 ELSE 0)
             + (IF r \in Reads /\ caller[r] \notin {"idle", "wait1"} THEN 1 ELSE 0)

Sending == {"sendTop", "sendBack"}

\* The frames written for a call and the handlers that are writing one for it
\* stay within the budget (two handlers at most, for no budget exceeds two).
BudgetInv ==
    /\ \A c \in Conn : pc[c] \notin Sending => cur[c] = NoReq
    /\ \A r \in Req : caller[r] = "idle" => ~sent[r]
    /\ \A r \in Req : wires[r] <= Budget(r)
    /\ \A c \in Conn : cur[c] \in Req => wires[cur[c]] + 1 <= Budget(cur[c])
    /\ \A c, d \in Conn : c # d /\ cur[c] = cur[d] /\ cur[c] \in Req =>
          wires[cur[c]] + 2 <= Budget(cur[c])
    /\ \A c, d, e \in Conn :
          c # d /\ c # e /\ d # e /\ cur[c] = cur[d] /\ cur[c] = cur[e] => cur[c] \notin Req

\* A frame on the line, or the command of the dongle, was written for its call.
Written(q) == \A i \in DOMAIN q : q[i].cmd \in Req => wires[q[i].cmd] > 0

FramesInv ==
    \A c \in Conn : /\ busy[c] \in Req => wires[busy[c]] > 0
                    /\ Written(stream[c]) /\ Written(buf[c])

\* A call is only answered by a frame of its function and register.
AnswerInv ==
    \A r \in Req : future[r] # "open" =>
        \E q \in Req : SameKey(q, r) /\ wires[q] > 0

WireInv == BudgetInv /\ FramesInv /\ AnswerInv

\* Nothing has been sent at the start.
LEMMA WireInit == Init => WireInv
<1>. SUFFICES ASSUME Init PROVE WireInv
  OBVIOUS
<1>1. BudgetInv
  BY RequestAssumption DEF Init, BudgetInv, Budget
<1>2. FramesInv /\ AnswerInv
  BY RequestAssumption DEF Init, FramesInv, AnswerInv, Written, Cmd
<1>3. QED
  BY <1>1, <1>2 DEF WireInv

\* The bounds of a budget.
LEMMA BudgetBounds ==
    ASSUME TypeInv, NEW r \in Req
    PROVE  /\ Budget(r) \in Nat /\ Budget(r) <= 2
           /\ r \notin Reads => Budget(r) <= 1
  BY DEF TypeInv, TypeOK, Budget

\* The same of the next state.
LEMMA BudgetBoundsNext ==
    ASSUME TypeInv', NEW r \in Req
    PROVE  Budget(r)' \in Nat
  BY DEF TypeInv, TypeOK, Budget

\* A step of a caller spends nothing and takes no budget back.
LEMMA BudgetOfCall ==
    ASSUME TypeInv, TypeInv', BudgetInv, NEW r \in Req, Call(r)
    PROVE  BudgetInv'
<1>1. UNCHANGED <<pc, cur, wires>>
  BY DEF Call, Request, Deliver, Retry, GiveUp, Cancel
<1>2. \A q \in Req : caller'[q] = "idle" => ~sent'[q]
  BY DEF BudgetInv, Call, Request, Deliver, Outcome, Retry, GiveUp, Cancel, TypeInv, TypeOK
<1>3. ASSUME NEW q \in Req PROVE Budget(q)' >= Budget(q)
  <2>1. CASE q # r
    <3>1. caller'[q] = caller[q] /\ sent'[q] = sent[q]
      BY <2>1 DEF Call, Request, Deliver, Retry, GiveUp, Cancel, TypeInv, TypeOK
    <3>2. QED
      BY <3>1, BudgetBounds DEF Budget
  <2>2. CASE q = r
    <3>1. CASE Retry(r)
      BY <2>2, <3>1 DEF Retry, TypeInv, TypeOK, Budget
    <3>2. CASE ~Retry(r)
      <4>1. /\ sent' = sent /\ caller' \in [Req -> {"idle", "wait1", "wait2"} \cup Ended]
            /\ \/ caller[r] = "idle" /\ caller'[r] = "wait1"
               \/ caller[r] # "idle" /\ caller'[r] \notin {"idle", "wait1"}
        BY <3>2, RequestAssumption
           DEF Call, Request, Deliver, Outcome, GiveUp, Cancel, Ended, TypeInv, TypeOK
      <4>2. sent[r] \in BOOLEAN
        BY DEF TypeInv, TypeOK
      <4>3. QED
        BY <2>2, <4>1, <4>2 DEF Budget
    <3>3. QED
      BY <3>1, <3>2
  <2>3. QED
    BY <2>1, <2>2
<1>4. \A q \in Req : wires[q] \in Nat /\ Budget(q) \in Nat /\ Budget(q)' \in Nat
  BY BudgetBounds, BudgetBoundsNext DEF TypeInv, TypeOK
<1>5. /\ \A q \in Req : wires'[q] <= Budget(q)'
      /\ \A c \in Conn : cur'[c] \in Req => wires'[cur'[c]] + 1 <= Budget(cur[c])'
      /\ \A c, d \in Conn : c # d /\ cur'[c] = cur'[d] /\ cur'[c] \in Req =>
            wires'[cur'[c]] + 2 <= Budget(cur[c])'
  <2>1. \A q \in Req : wires[q] <= Budget(q)'
    BY <1>3, <1>4 DEF BudgetInv
  <2>2. ASSUME NEW q \in Req, NEW c \in Conn, cur[c] = q
        PROVE  wires[q] + 1 <= Budget(q)'
    BY <1>3, <1>4, <2>2 DEF BudgetInv
  <2>3. ASSUME NEW q \in Req, NEW c \in Conn, NEW d \in Conn, c # d, cur[c] = q, cur[d] = q
        PROVE  wires[q] + 2 <= Budget(q)'
    BY <1>3, <1>4, <2>3 DEF BudgetInv
  <2>4. QED
    BY <1>1, <2>1, <2>2, <2>3 DEF Budget
<1>6. QED
  BY <1>1, <1>2, <1>5 DEF BudgetInv

\* Marking an entry is what adds to the budget.
LEMMA BudgetOfSend ==
    ASSUME TypeInv, QueueInv, BudgetInv, NEW c \in Conn, NEW l \in Sending,
           pc[c] \notin Sending, SendPending(c, l), UNCHANGED <<caller, wires>>
    PROVE  BudgetInv'
<1>1. PICK i \in Unsent : /\ sent' = [sent EXCEPT ![pending[i]] = TRUE]
                          /\ cur' = [cur EXCEPT ![c] = pending[i]]
                          /\ pc' = [pc EXCEPT ![c] = l]
  BY DEF SendPending, Goto
<1>2. PICK q \in Req : q = pending[i] /\ ~sent[q] /\ Holds(pending, q)
  BY DEF Unsent, Holds, TypeInv, TypeOK
<1>3. caller[q] # "idle"
  BY <1>2 DEF QueueInv
<1>4. /\ sent' = [sent EXCEPT ![q] = TRUE] /\ cur' = [cur EXCEPT ![c] = q]
      /\ pc' = [pc EXCEPT ![c] = l] /\ caller' = caller /\ wires' = wires
  BY <1>1, <1>2
<1>5. /\ Budget(q)' = Budget(q) + 1
      /\ \A r \in Req : r # q => Budget(r)' = Budget(r)
  BY <1>2, <1>4 DEF Budget, TypeInv, TypeOK
<1>6. cur[c] = NoReq /\ NoReq \notin Req /\ cur'[c] = q
      /\ \A d \in Conn : d # c => cur'[d] = cur[d] /\ cur[d] \in Req \cup {NoReq}
  BY <1>4, RequestAssumption DEF BudgetInv, TypeInv, TypeOK
<1>7. \A r \in Req : wires[r] \in Nat /\ Budget(r) \in Nat /\ Budget(r) <= 2
  BY BudgetBounds DEF TypeInv, TypeOK
<1>8. \A d \in Conn : pc'[d] \notin Sending => cur'[d] = NoReq
  BY <1>4, <1>6 DEF BudgetInv, TypeInv, TypeOK
<1>9. \A r \in Req : caller'[r] = "idle" => ~sent'[r]
  BY <1>3, <1>4 DEF BudgetInv, TypeInv, TypeOK
<1>10. \A r \in Req : wires[r] <= Budget(r)'
  BY <1>2, <1>5, <1>7 DEF BudgetInv
<1>11. ASSUME NEW d \in Conn, NEW r \in Req, cur'[d] = r
       PROVE  wires[r] + 1 <= Budget(r)'
  BY <1>2, <1>5, <1>6, <1>7, <1>11 DEF BudgetInv
<1>12. ASSUME NEW d \in Conn, NEW e \in Conn, d # e, NEW r \in Req, cur'[d] = r, cur'[e] = r
       PROVE  wires[r] + 2 <= Budget(r)'
  <2>1. CASE r = q /\ d = c
    BY <1>2, <1>5, <1>6, <1>7, <1>12, <2>1 DEF BudgetInv
  <2>2. CASE r = q /\ e = c
    BY <1>2, <1>5, <1>6, <1>7, <1>12, <2>2 DEF BudgetInv
  <2>3. CASE d # c /\ e # c
    BY <1>2, <1>5, <1>6, <1>7, <1>12, <2>3 DEF BudgetInv
  <2>4. CASE r # q
    BY <1>6, <1>12, <2>3, <2>4
  <2>5. QED
    BY <2>1, <2>2, <2>3, <2>4
<1>13. ASSUME NEW d \in Conn, NEW e \in Conn, NEW f \in Conn, d # e, d # f, e # f,
              NEW r \in Req, cur'[d] = r, cur'[e] = r, cur'[f] = r
       PROVE  FALSE
  <2>1. CASE d # c /\ e # c /\ f # c
    BY <1>6, <1>13, <2>1 DEF BudgetInv
  <2>2. CASE d = c \/ e = c \/ f = c
    <3>1. r = q
      BY <1>6, <1>13, <2>2
    <3>2. PICK g \in Conn, h \in Conn : g # h /\ cur[g] = q /\ cur[h] = q
      BY <1>6, <1>13, <2>2, <3>1
    <3>3. wires[q] + 2 <= Budget(q)
      BY <1>2, <3>2 DEF BudgetInv
    <3>4. Budget(q) <= 1
      BY <1>2, <1>3 DEF Budget
    <3>5. QED
      BY <1>2, <1>7, <3>3, <3>4
  <2>3. QED
    BY <2>1, <2>2
<1>14. \A d \in Conn : cur'[d] \in Req => wires[cur'[d]] + 1 <= Budget(cur[d])'
  BY <1>11 DEF Budget
<1>15. \A d, e \in Conn : d # e /\ cur'[d] = cur'[e] /\ cur'[d] \in Req =>
          wires[cur'[d]] + 2 <= Budget(cur[d])'
  BY <1>12 DEF Budget
<1>16. QED
  BY <1>4, <1>8, <1>9, <1>10, <1>13, <1>14, <1>15 DEF BudgetInv

\* A handler that stops writing spends at most what it held.
LEMMA BudgetOfWrite ==
    ASSUME TypeInv, BudgetInv, NEW c \in Conn, NEW l, l \notin Sending,
           UNCHANGED <<caller, sent>>,
           pc' = [pc EXCEPT ![c] = l], cur' = [cur EXCEPT ![c] = NoReq],
           \/ wires' = wires
           \/ cur[c] \in Req /\ wires' = [wires EXCEPT ![cur[c]] = @ + 1]
    PROVE  BudgetInv'
<1>1. \A r \in Req : Budget(r)' = Budget(r)
  BY DEF Budget
<1>2. /\ cur'[c] = NoReq /\ NoReq \notin Req
      /\ \A d \in Conn : d # c => cur'[d] = cur[d]
  BY RequestAssumption DEF TypeInv, TypeOK
<1>3. \A r \in Req : wires[r] \in Nat /\ Budget(r) \in Nat
  BY BudgetBounds DEF TypeInv, TypeOK
<1>4. \A r \in Req : /\ r = cur[c] => wires'[r] <= wires[r] + 1 /\ wires'[r] \in Nat
                     /\ r # cur[c] => wires'[r] = wires[r]
  BY DEF TypeInv, TypeOK
<1>5. \A d \in Conn : pc'[d] \notin Sending => cur'[d] = NoReq
  BY <1>2 DEF BudgetInv, TypeInv, TypeOK
<1>6. ASSUME NEW r \in Req PROVE wires'[r] <= Budget(r)
  <2>1. CASE r = cur[c]
    BY <1>3, <1>4, <2>1 DEF BudgetInv
  <2>2. CASE r # cur[c]
    BY <1>3, <1>4, <2>2 DEF BudgetInv
  <2>3. QED
    BY <2>1, <2>2
<1>7. ASSUME NEW d \in Conn, NEW r \in Req, cur'[d] = r PROVE wires'[r] + 1 <= Budget(r)
  <2>1. d # c /\ cur[d] = r
    BY <1>2, <1>7
  <2>2. CASE r = cur[c]
    <3>1. wires[r] + 2 <= Budget(r)
      BY <2>1, <2>2 DEF BudgetInv
    <3>2. QED
      BY <1>3, <1>4, <2>2, <3>1
  <2>3. CASE r # cur[c]
    <3>1. wires[r] + 1 <= Budget(r)
      BY <2>1 DEF BudgetInv
    <3>2. QED
      BY <1>4, <2>3, <3>1
  <2>4. QED
    BY <2>2, <2>3
<1>8. ASSUME NEW d \in Conn, NEW e \in Conn, d # e, NEW r \in Req, cur'[d] = r, cur'[e] = r
      PROVE  wires'[r] + 2 <= Budget(r)
  <2>1. d # c /\ cur[d] = r /\ e # c /\ cur[e] = r
    BY <1>2, <1>8
  <2>2. r # cur[c]
    BY <1>8, <2>1 DEF BudgetInv
  <2>3. wires[r] + 2 <= Budget(r)
    BY <1>8, <2>1 DEF BudgetInv
  <2>4. QED
    BY <1>4, <2>2, <2>3
<1>9. ASSUME NEW d \in Conn, NEW e \in Conn, NEW f \in Conn, d # e, d # f, e # f,
             NEW r \in Req, cur'[d] = r, cur'[e] = r, cur'[f] = r
      PROVE  FALSE
  BY <1>2, <1>9 DEF BudgetInv
<1>10. \A d \in Conn : cur'[d] \in Req => wires'[cur'[d]] + 1 <= Budget(cur[d])'
  BY <1>1, <1>7 DEF Budget
<1>11. \A d, e \in Conn : d # e /\ cur'[d] = cur'[e] /\ cur'[d] \in Req =>
          wires'[cur'[d]] + 2 <= Budget(cur[d])'
  BY <1>1, <1>8 DEF Budget
<1>12. \A r \in Req : wires'[r] <= Budget(r)'
  BY <1>1, <1>6
<1>13. \A r \in Req : caller'[r] = "idle" => ~sent'[r]
  BY DEF BudgetInv
<1>14. QED
  BY <1>5, <1>9, <1>10, <1>11, <1>12, <1>13 DEF BudgetInv

\* A handler that neither starts nor ends a write leaves the budgets alone.
LEMMA BudgetElse ==
    ASSUME TypeInv, BudgetInv, NEW c \in Conn, NEW l, l \notin Sending,
           pc[c] \notin Sending, pc' = [pc EXCEPT ![c] = l],
           UNCHANGED <<caller, sent, cur, wires>>
    PROVE  BudgetInv'
<1>1. \A d \in Conn : pc'[d] \notin Sending => cur'[d] = NoReq
  BY DEF BudgetInv, TypeInv, TypeOK
<1>2. QED
  BY <1>1 DEF BudgetInv, Budget

\* Every step stays within the budgets.
LEMMA BudgetStep ==
    ASSUME TypeInv, TypeInv', QueueInv, BudgetInv, [Next]_vars
    PROVE  BudgetInv'
<1>1. ASSUME NEW r \in Req, Call(r) PROVE BudgetInv'
  BY <1>1, BudgetOfCall
<1>2. ASSUME NEW c \in Conn, Top(c) \/ Replied(c) \/ After(c) PROVE BudgetInv'
  <2>1. pc[c] \notin Sending /\ UNCHANGED <<caller, wires>>
    BY <1>2 DEF Top, Replied, After, Sending
  <2>2. ASSUME NEW l \in Sending, SendPending(c, l) PROVE BudgetInv'
    BY <2>1, <2>2, BudgetOfSend
  <2>3. "sendTop" \in Sending /\ "sendBack" \in Sending
    BY DEF Sending
  <2>4. CASE SendPending(c, "sendTop") \/ SendPending(c, "sendBack")
    BY <2>2, <2>3, <2>4
  <2>5. CASE ~(SendPending(c, "sendTop") \/ SendPending(c, "sendBack"))
    <3>1. UNCHANGED <<sent, cur>> /\ \E l : l \notin Sending /\ pc' = [pc EXCEPT ![c] = l]
      BY <1>2, <2>5 DEF Top, Replied, After, Goto, Sending
    <3>2. QED
      BY <2>1, <3>1, BudgetElse
  <2>6. QED
    BY <2>4, <2>5
<1>3. ASSUME NEW c \in Conn,
             \/ EnterRead(c) \/ Arm(c) \/ ReadChunk(c) \/ ReadIdle(c) \/ Resolve(c)
             \/ Parse(c) \/ Polled(c) \/ Snooze(c) \/ WakeUp(c) \/ Connect(c)
      PROVE  BudgetInv'
  <2>1. /\ UNCHANGED <<caller, sent, cur, wires>> /\ pc[c] \notin Sending
        /\ \E l : l \notin Sending /\ pc' = [pc EXCEPT ![c] = l]
    BY <1>3 DEF EnterRead, Arm, ReadChunk, ReadIdle, Resolve, Parse, Polled, Snooze,
       WakeUp, Connect, Goto, Sending, callVars
  <2>2. QED
    BY <2>1, BudgetElse
<1>4. ASSUME NEW c \in Conn, Sent(c) \/ Disconnect(c) \/ WriteFails(c) PROVE BudgetInv'
  <2>1. /\ UNCHANGED <<caller, sent>> /\ cur' = [cur EXCEPT ![c] = NoReq]
        /\ \E l : l \notin Sending /\ pc' = [pc EXCEPT ![c] = l]
    BY <1>4 DEF Sent, Disconnect, WriteFails, Close, Goto, Sending, callVars
  <2>2. \/ wires' = wires
        \/ cur[c] \in Req /\ wires' = [wires EXCEPT ![cur[c]] = @ + 1]
    BY <1>4 DEF Sent, Disconnect, WriteFails, TypeInv, HandlerOK
  <2>3. QED
    BY <2>1, <2>2, BudgetOfWrite
<1>5. ASSUME \/ \E c \in Conn : Lose(c) \/ Reply(c) \/ Refuse(c)
             \/ UNCHANGED vars
      PROVE  BudgetInv'
  <2>1. UNCHANGED <<caller, sent, cur, wires, pc>>
    BY <1>5 DEF Lose, Reply, Refuse, callVars, vars
  <2>2. QED
    BY <2>1 DEF BudgetInv, Budget
<1>6. QED
  BY <1>1, <1>2, <1>3, <1>4, <1>5 DEF Next, Handler

\* The parts of a line that was written for its calls.
LEMMA WrittenParts ==
    ASSUME NEW q \in Seq(Frame), Written(q)
    PROVE  /\ \A n \in 1..Len(q) : /\ Written(SubSeq(q, 1, n))
                                   /\ Written(SubSeq(q, n + 1, Len(q)))
           /\ q # <<>> => /\ Written(Tail(q))
                          /\ Head(q).cmd \in Req => wires[Head(q).cmd] > 0
           /\ \A f \in Frame : (f.cmd \in Req => wires[f.cmd] > 0) => Written(Append(q, f))
  BY DEF Written

\* The dongle answers or refuses the command it has in hand.
LEMMA FrameSent ==
    ASSUME TypeInv, NEW c \in Conn, Reply(c) \/ Refuse(c)
    PROVE  /\ busy[c] \in Cmd
           /\ \E f \in Frame : /\ f.cmd = busy[c]
                               /\ f.ok /\ busy[c] \in Req => busy[c] \in landed'
                               /\ stream' = [stream EXCEPT ![c] = Append(@, f)]
<1>1. busy[c] \in Cmd
  BY RequestAssumption DEF Reply, Refuse, TypeInv, TypeOK, Cmd
<1>2. CASE Reply(c)
  <2>. DEFINE f == [cmd |-> busy[c], ok |-> TRUE]
  <2>1. f \in Frame /\ f.cmd = busy[c]
    BY <1>1 DEF Frame
  <2>2. stream' = [stream EXCEPT ![c] = Append(@, f)] /\ landed' = Executed(c)
    BY <1>2 DEF Reply
  <2>3. QED
    BY <1>1, <2>1, <2>2 DEF Executed
<1>3. CASE Refuse(c)
  <2>. DEFINE f == [cmd |-> busy[c], ok |-> FALSE]
  <2>1. f \in Frame /\ f.cmd = busy[c] /\ ~f.ok
    BY <1>1 DEF Frame
  <2>2. stream' = [stream EXCEPT ![c] = Append(@, f)]
    BY <1>3 DEF Refuse
  <2>3. QED
    BY <1>1, <2>1, <2>2
<1>4. QED
  BY <1>2, <1>3

\* What was written stays written.
LEMMA WiresGrow ==
    ASSUME TypeInv, [Next]_vars
    PROVE  \A r \in Req : wires'[r] >= wires[r] /\ wires'[r] \in Nat
<1>1. ASSUME NEW r \in Req, Call(r) PROVE wires' = wires
  BY <1>1 DEF Call, Request, Deliver, Retry, GiveUp, Cancel
<1>2. ASSUME NEW c \in Conn,
             \/ Top(c) \/ EnterRead(c) \/ Arm(c) \/ ReadChunk(c) \/ ReadIdle(c)
             \/ Parse(c) \/ Replied(c) \/ After(c) \/ Resolve(c) \/ Polled(c)
             \/ Snooze(c) \/ WakeUp(c) \/ Connect(c) \/ Disconnect(c)
             \/ Lose(c) \/ Reply(c) \/ Refuse(c)
      PROVE  wires' = wires
  BY <1>2 DEF Top, EnterRead, Arm, ReadChunk, ReadIdle, Parse, Replied, After, Resolve,
     Polled, Snooze, WakeUp, Connect, Disconnect, Lose, Reply, Refuse
<1>3. ASSUME NEW c \in Conn, Sent(c) \/ WriteFails(c)
      PROVE  \/ wires' = wires
             \/ cur[c] \in Req /\ wires' = [wires EXCEPT ![cur[c]] = @ + 1]
  BY <1>3 DEF Sent, WriteFails, TypeInv, HandlerOK
<1>4. ASSUME UNCHANGED vars PROVE wires' = wires
  BY <1>4 DEF vars
<1>5. \/ wires' = wires
      \/ \E c \in Conn : cur[c] \in Req /\ wires' = [wires EXCEPT ![cur[c]] = @ + 1]
  BY <1>1, <1>2, <1>3, <1>4 DEF Next, Handler
<1>6. wires \in [Req -> Nat]
  BY DEF TypeInv, TypeOK
<1>7. QED
  BY <1>5, <1>6

\* Every frame on the line was written for its call.
LEMMA FramesStep ==
    ASSUME TypeInv, FramesInv, [Next]_vars
    PROVE  FramesInv'
<1>1. \A r \in Req : /\ wires[r] > 0 => wires'[r] > 0
                     /\ wires[r] \in Nat /\ wires'[r] \in Nat
  BY WiresGrow DEF TypeInv, TypeOK
<1>2. ASSUME NEW q, Written(q) PROVE \A i \in DOMAIN q : q[i].cmd \in Req => wires'[q[i].cmd] > 0
  BY <1>1, <1>2 DEF Written
<1>3. /\ stream \in [Conn -> Seq(Frame)] /\ buf \in [Conn -> Seq(Frame)]
      /\ busy \in [Conn -> Cmd \cup {Idle}]
  BY DEF TypeInv, TypeOK
<1>4. SUFFICES ASSUME NEW d \in Conn
               PROVE  /\ busy'[d] \in Req => wires'[busy'[d]] > 0
                      /\ \A i \in DOMAIN stream'[d] :
                            stream'[d][i].cmd \in Req => wires'[stream'[d][i].cmd] > 0
                      /\ \A i \in DOMAIN buf'[d] :
                            buf'[d][i].cmd \in Req => wires'[buf'[d][i].cmd] > 0
  BY DEF FramesInv, Written
<1>5. /\ busy[d] \in Req => wires'[busy[d]] > 0
      /\ \A i \in DOMAIN stream[d] : stream[d][i].cmd \in Req => wires'[stream[d][i].cmd] > 0
      /\ \A i \in DOMAIN buf[d] : buf[d][i].cmd \in Req => wires'[buf[d][i].cmd] > 0
  BY <1>1, <1>2, <1>3 DEF FramesInv
<1>6. ASSUME NEW r \in Req, Call(r) PROVE UNCHANGED <<buf, stream, busy>>
  BY <1>6 DEF Call, Request, Deliver, Retry, GiveUp, Cancel, connVars
<1>7. ASSUME NEW c \in Conn,
             \/ Top(c) \/ EnterRead(c) \/ Arm(c) \/ ReadIdle(c) \/ Replied(c)
             \/ After(c) \/ Snooze(c) \/ WakeUp(c) \/ Connect(c)
      PROVE  UNCHANGED <<buf, stream, busy>>
  BY <1>7 DEF Top, EnterRead, Arm, ReadIdle, Replied, After, Snooze, WakeUp, Connect,
     connVars
<1>. DEFINE Goal == /\ busy'[d] \in Req => wires'[busy'[d]] > 0
                    /\ \A i \in DOMAIN stream'[d] :
                          stream'[d][i].cmd \in Req => wires'[stream'[d][i].cmd] > 0
                    /\ \A i \in DOMAIN buf'[d] :
                          buf'[d][i].cmd \in Req => wires'[buf'[d][i].cmd] > 0
<1>8. CASE UNCHANGED <<buf, stream, busy>>
  BY <1>5, <1>8
<1>9. ASSUME NEW c \in Conn, ReadChunk(c) PROVE Goal
  <2>1. PICK k \in 1..Len(stream[c]) :
           /\ buf' = [buf EXCEPT ![c] = SubSeq(stream[c], 1, k)]
           /\ stream' = [stream EXCEPT ![c] = SubSeq(stream[c], k + 1, Len(stream[c]))]
    BY <1>9 DEF ReadChunk
  <2>2. busy' = busy
    BY <1>9 DEF ReadChunk
  <2>3. /\ Written(SubSeq(stream[c], 1, k))
        /\ Written(SubSeq(stream[c], k + 1, Len(stream[c])))
    BY <1>3, WrittenParts DEF FramesInv
  <2>4. CASE d = c
    <3>1. /\ buf'[d] = SubSeq(stream[c], 1, k)
          /\ stream'[d] = SubSeq(stream[c], k + 1, Len(stream[c]))
      BY <1>3, <2>1, <2>4
    <3>2. QED
      BY <1>2, <1>5, <2>2, <2>3, <3>1
  <2>5. CASE d # c
    BY <1>3, <1>5, <2>1, <2>2, <2>5
  <2>6. QED
    BY <2>4, <2>5
<1>10. ASSUME NEW c \in Conn, Resolve(c) \/ Parse(c) PROVE Goal
  <2>1. buf' = [buf EXCEPT ![c] = Tail(@)] /\ UNCHANGED <<stream, busy>> /\ pc[c] = "handle"
    BY <1>10 DEF Resolve, Parse
  <2>2. Written(Tail(buf[c]))
    BY <1>3, <2>1, WrittenParts DEF FramesInv, TypeInv, HandlerOK
  <2>3. CASE d = c
    <3>1. buf'[d] = Tail(buf[c])
      BY <1>3, <2>1, <2>3
    <3>2. QED
      BY <1>2, <1>5, <2>1, <2>2, <3>1
  <2>4. CASE d # c
    BY <1>3, <1>5, <2>1, <2>4
  <2>5. QED
    BY <2>3, <2>4
<1>11. ASSUME NEW c \in Conn, Sent(c) PROVE Goal
  <2>1. /\ cur[c] \in Req /\ wires' = [wires EXCEPT ![cur[c]] = @ + 1]
        /\ UNCHANGED <<buf, stream>> /\ Arrive(c, cur[c])
    BY <1>11 DEF Sent, TypeInv, HandlerOK
  <2>2. wires'[cur[c]] > 0
    BY <2>1 DEF TypeInv, TypeOK
  <2>3. busy'[d] = busy[d] \/ busy'[d] = cur[c]
    BY <1>3, <2>1 DEF Arrive
  <2>4. QED
    BY <1>5, <2>1, <2>2, <2>3
<1>12. ASSUME NEW c \in Conn, Polled(c) PROVE Goal
  <2>1. UNCHANGED <<buf, stream>> /\ \E b \in InputBlocks : Arrive(c, b)
    BY <1>12 DEF Polled
  <2>2. busy'[d] = busy[d] \/ busy'[d] \in InputBlocks
    BY <1>3, <2>1 DEF Arrive
  <2>3. QED
    BY <1>5, <2>1, <2>2, RequestAssumption
<1>13. ASSUME NEW c \in Conn, Disconnect(c) \/ WriteFails(c) PROVE Goal
  <2>1. /\ buf' = [buf EXCEPT ![c] = <<>>] /\ stream' = [stream EXCEPT ![c] = <<>>]
        /\ busy' = [busy EXCEPT ![c] = Idle]
    BY <1>13 DEF Disconnect, WriteFails, Close
  <2>2. Idle \notin Req
    BY RequestAssumption DEF Cmd
  <2>3. CASE d = c
    BY <1>3, <2>1, <2>2, <2>3
  <2>4. CASE d # c
    BY <1>3, <1>5, <2>1, <2>4
  <2>5. QED
    BY <2>3, <2>4
<1>14. ASSUME NEW c \in Conn, Lose(c) PROVE Goal
  <2>1. UNCHANGED <<buf, stream>> /\ busy' = [busy EXCEPT ![c] = Idle] /\ Idle \notin Req
    BY <1>14, RequestAssumption DEF Lose, Cmd
  <2>2. QED
    BY <1>3, <1>5, <2>1
<1>15. ASSUME NEW c \in Conn, Reply(c) \/ Refuse(c) PROVE Goal
  <2>0. PICK f \in Frame : /\ f.cmd = busy[c]
                           /\ stream' = [stream EXCEPT ![c] = Append(@, f)]
    BY <1>15, FrameSent
  <2>1. /\ buf' = buf /\ busy' = [busy EXCEPT ![c] = Idle] /\ Idle \notin Req
    BY <1>3, <1>15, RequestAssumption DEF Reply, Refuse, Cmd
  <2>2. Written(Append(stream[c], f))
    BY <1>3, <2>0, WrittenParts DEF FramesInv
  <2>3. CASE d = c
    <3>1. stream'[d] = Append(stream[c], f) /\ busy'[d] = Idle
      BY <1>3, <2>0, <2>1, <2>3
    <3>2. QED
      BY <1>2, <1>5, <2>1, <2>2, <3>1
  <2>4. CASE d # c
    BY <1>3, <1>5, <2>0, <2>1, <2>4
  <2>5. QED
    BY <2>3, <2>4
<1>16. CASE UNCHANGED vars
  BY <1>8, <1>16 DEF vars
<1>17. QED
  BY <1>6, <1>7, <1>8, <1>9, <1>10, <1>11, <1>12, <1>13, <1>14, <1>15, <1>16
     DEF Next, Handler

\* What resolves a future was written for a call of the same key.
LEMMA AnswerStep ==
    ASSUME TypeInv, FramesInv, AnswerInv, [Next]_vars
    PROVE  AnswerInv'
<1>1. \A r \in Req : /\ wires[r] > 0 => wires'[r] > 0
                     /\ wires[r] \in Nat /\ wires'[r] \in Nat
  BY WiresGrow DEF TypeInv, TypeOK
<1>2. ASSUME \A r \in Req : future'[r] # "open" => future[r] # "open" PROVE AnswerInv'
  BY <1>1, <1>2 DEF AnswerInv, SameKey
<1>3. ASSUME NEW r \in Req, Call(r) PROVE AnswerInv'
  <2>1. future' = future \/ future' = [future EXCEPT ![r] = "open"]
    BY <1>3 DEF Call, Request, Deliver, Retry, GiveUp, Cancel
  <2>2. QED
    BY <1>2, <2>1 DEF TypeInv, TypeOK
<1>4. ASSUME NEW c \in Conn, Resolve(c) PROVE AnswerInv'
  <2>. DEFINE f == Head(buf[c])
  <2>1. PICK i \in Matches(f), a \in {"done", "refused"} :
           future' = [future EXCEPT ![pending[i]] = a]
    BY <1>4 DEF Resolve
  <2>2. f.cmd \in Req /\ i \in DOMAIN pending /\ SameKey(f.cmd, pending[i])
    BY <2>1 DEF Matches
  <2>3. buf[c] \in Seq(Frame) /\ buf[c] # <<>> /\ Written(buf[c])
    BY <1>4 DEF Resolve, FramesInv, TypeInv, TypeOK, HandlerOK
  <2>4. wires[f.cmd] > 0
    BY <2>2, <2>3, WrittenParts
  <2>. HIDE DEF f
  <2>5. ASSUME NEW r \in Req, future'[r] # "open"
        PROVE  \E q \in Req : SameKey(q, r) /\ wires'[q] > 0
    <3>1. CASE r = pending[i]
      BY <1>1, <2>2, <2>4, <3>1
    <3>2. CASE r # pending[i]
      <4>1. future[r] # "open"
        BY <2>1, <2>5, <3>2 DEF TypeInv, TypeOK
      <4>2. QED
        BY <1>1, <4>1 DEF AnswerInv
    <3>3. QED
      BY <3>1, <3>2
  <2>6. QED
    BY <2>5 DEF AnswerInv, SameKey
<1>5. ASSUME NEW c \in Conn,
             \/ Top(c) \/ EnterRead(c) \/ Arm(c) \/ ReadChunk(c) \/ ReadIdle(c)
             \/ Parse(c) \/ Replied(c) \/ After(c) \/ Sent(c) \/ Polled(c)
             \/ Snooze(c) \/ WakeUp(c) \/ Connect(c) \/ Disconnect(c)
             \/ WriteFails(c) \/ Lose(c) \/ Reply(c) \/ Refuse(c)
      PROVE  future' = future
  BY <1>5 DEF callVars, Top, EnterRead, Arm, ReadChunk, ReadIdle, Parse, Replied,
     After, Sent, Polled, Snooze, WakeUp, Connect, Disconnect, WriteFails, Close,
     Lose, Reply, Refuse
<1>6. CASE UNCHANGED vars
  BY <1>2, <1>6 DEF vars
<1>7. QED
  BY <1>2, <1>3, <1>4, <1>5, <1>6 DEF Next, Handler

\* The phase of a call, as the abstract module sees it.
Phase == [r \in Req |-> IF caller[r] \in {"wait1", "wait2"} THEN "waiting" ELSE caller[r]]

\* The initial states are initial there.
LEMMA ExchangeInit == Init => Exchange!Init
  BY DEF Init, Exchange!Init

\* A step of a caller begins, answers or fails the call, or is a stutter.
LEMMA ExchangeCall ==
    ASSUME TypeInv, AnswerInv, NEW r \in Req, Call(r)
    PROVE  Exchange!Next \/ UNCHANGED <<Phase, wires>>
<1>1. /\ wires' = wires /\ caller \in [Req -> {"idle", "wait1", "wait2"} \cup Ended]
      /\ \E e : caller' = [caller EXCEPT ![r] = e]
  BY DEF Call, Request, Deliver, Retry, GiveUp, Cancel, TypeInv, TypeOK
<1>2. CASE Request(r)
  <2>1. Exchange!Begin(r)
    BY <1>1, <1>2 DEF Request, Exchange!Begin
  <2>2. QED
    BY <2>1 DEF Exchange!Next
<1>3. CASE Deliver(r)
  <2>1. \E q \in Req : Exchange!SameKey(q, r) /\ wires[q] > 0
    BY <1>3 DEF Deliver, AnswerInv, SameKey, Exchange!SameKey
  <2>2. Exchange!Answer(r)
    BY <1>1, <1>3, <2>1 DEF Deliver, Outcome, Ended, Exchange!Answer
  <2>3. QED
    BY <2>2 DEF Exchange!Next
<1>4. CASE Retry(r)
  BY <1>1, <1>4 DEF Retry, Phase
<1>5. CASE GiveUp(r) \/ Cancel(r)
  <2>1. PICK e \in {"timeout", "cancelled"} : caller' = [caller EXCEPT ![r] = e]
    BY <1>5 DEF GiveUp, Cancel
  <2>2. caller[r] \in {"wait1", "wait2"}
    BY <1>5, RequestAssumption DEF GiveUp, Cancel
  <2>3. Exchange!Fail(r)
    BY <1>1, <2>1, <2>2 DEF Exchange!Fail
  <2>4. QED
    BY <2>3 DEF Exchange!Next
<1>6. QED
  BY <1>2, <1>3, <1>4, <1>5 DEF Call

\* A frame that is written is a transmission within the bound of its call.
LEMMA ExchangeTransmit ==
    ASSUME TypeInv, BudgetInv, NEW c \in Conn, cur[c] \in Req,
           wires' = [wires EXCEPT ![cur[c]] = @ + 1], caller' = caller
    PROVE  Exchange!Next
<1>1. PICK r \in Req : r = cur[c]
  OBVIOUS
<1>2. wires[r] + 1 <= Budget(r) /\ wires[r] \in Nat
  BY <1>1 DEF BudgetInv, TypeInv, TypeOK
<1>3. wires[r] < Exchange!MaxWires(r)
  BY <1>2, BudgetBounds DEF Exchange!MaxWires
<1>4. caller[r] # "idle"
  BY <1>2 DEF Budget, BudgetInv
<1>5. Exchange!Transmit(r)
  BY <1>1, <1>3, <1>4 DEF Exchange!Transmit
<1>6. QED
  BY <1>5 DEF Exchange!Next

\* Every step of the server is a step of the exchange or a stutter.
LEMMA ExchangeStep ==
    ASSUME TypeInv, BudgetInv, AnswerInv, [Next]_vars
    PROVE  [Exchange!Next]_(Exchange!exchangeVars)
<1>1. ASSUME NEW r \in Req, Call(r) PROVE Exchange!Next \/ UNCHANGED Exchange!exchangeVars
  BY <1>1, ExchangeCall DEF Exchange!exchangeVars, Phase
<1>2. ASSUME NEW c \in Conn, Sent(c) \/ WriteFails(c)
      PROVE  Exchange!Next \/ UNCHANGED Exchange!exchangeVars
  <2>1. /\ caller' = caller
        /\ \/ wires' = wires
           \/ cur[c] \in Req /\ wires' = [wires EXCEPT ![cur[c]] = @ + 1]
    BY <1>2 DEF Sent, WriteFails, Close, callVars, TypeInv, HandlerOK
  <2>2. CASE wires' = wires
    BY <2>1, <2>2 DEF Phase, Exchange!exchangeVars
  <2>3. CASE cur[c] \in Req /\ wires' = [wires EXCEPT ![cur[c]] = @ + 1]
    BY <2>1, <2>3, ExchangeTransmit
  <2>4. QED
    BY <2>1, <2>2, <2>3
<1>3. ASSUME NEW c \in Conn,
             \/ Top(c) \/ EnterRead(c) \/ Arm(c) \/ ReadChunk(c) \/ ReadIdle(c)
             \/ Resolve(c) \/ Parse(c) \/ Replied(c) \/ After(c) \/ Polled(c)
             \/ Snooze(c) \/ WakeUp(c) \/ Connect(c) \/ Disconnect(c)
             \/ Lose(c) \/ Reply(c) \/ Refuse(c)
      PROVE  UNCHANGED <<caller, wires>>
  BY <1>3 DEF callVars, Top, EnterRead, Arm, ReadChunk, ReadIdle, Resolve, Parse,
     Replied, After, Polled, Snooze, WakeUp, Connect, Disconnect, Close, Lose, Reply, Refuse
<1>4. CASE UNCHANGED vars
  BY <1>4 DEF vars, Phase, Exchange!exchangeVars
<1>5. CASE UNCHANGED <<caller, wires>>
  BY <1>5 DEF Phase, Exchange!exchangeVars
<1>6. QED
  BY <1>1, <1>2, <1>3, <1>4, <1>5 DEF Next, Handler

\* Callers see nothing but what ModbusExchange promises: a write goes out at
\* most once and a read at most twice, for any calls, connections, timeouts,
\* cancellations and failing writes, and an answer has the key of a frame
\* that was sent (request_modbus).
THEOREM ExchangeImplemented == Spec => ImplementsExchange
<1>1. Init => WireInv
  BY WireInit
<1>2. TypeInv /\ TypeInv' /\ QueueInv /\ WireInv /\ [Next]_vars => WireInv'
  BY BudgetStep, FramesStep, AnswerStep DEF WireInv
<1>3. Spec => []QueueInv
  BY QueueInit, QueueStep, TypeCorrect, PTL DEF Spec
<1>4. Spec => []WireInv
  BY <1>1, <1>2, <1>3, TypeCorrect, PTL DEF Spec
<1>5. TypeInv /\ WireInv /\ [Next]_vars => [Exchange!Next]_(Exchange!exchangeVars)
  BY ExchangeStep DEF WireInv
<1>6. QED
  BY <1>4, <1>5, ExchangeInit, TypeCorrect, PTL DEF Spec, ImplementsExchange, Exchange!Spec

-----------------------------------------------------------------------------
(* What the replies on the line may still do: confirm a write, or be taken *)
(* for telemetry.                                                          *)

\* A command whose answer is on its way was executed, a call that returned was
\* resolved, and a write resolved by an answer has a write of its register
\* behind it.
LandedInv ==
    /\ \A c \in Conn, f \in Frame :
          f.ok /\ f.cmd \in Req /\ (Holds(stream[c], f) \/ Holds(buf[c], f)) => f.cmd \in landed
    /\ \A r \in Req : /\ caller[r] = "ok" => future[r] = "done"
                      /\ caller[r] = "refused" => future[r] # "open"
    /\ \A r \in Req \ Reads : future[r] = "done" =>
          \E q \in landed \ Reads : RegOf[q] = RegOf[r]

\* A part of the line has a frame of call r ...
Carries(q, r) == \E i \in DOMAIN q : q[i].cmd = r

\* ... and not two.
Once(q, r) == \A i, j \in DOMAIN q : q[i].cmd = r /\ q[j].cmd = r => i = j

\* The connection has the command or a frame of call r.
At(c, r) == busy[c] = r \/ Carries(stream[c], r) \/ Carries(buf[c], r)

\* ... in one place.
OnceAt(c, r) == /\ busy[c] = r => ~Carries(stream[c], r) /\ ~Carries(buf[c], r)
                /\ Carries(stream[c], r) => ~Carries(buf[c], r)
                /\ Once(stream[c], r) /\ Once(buf[c], r)

\* A frame that was written once is in one place at most.
OnceInv ==
    \A r \in Req : wires[r] <= 1 =>
        /\ \A c \in Conn : OnceAt(c, r)
        /\ \A c, d \in Conn : At(c, r) /\ At(d, r) => c = d

\* What the parts of a line hold.
LEMMA LineFacts ==
    ASSUME NEW q \in Seq(Frame), NEW r
    PROVE  /\ \A n \in 1..Len(q) :
                 LET a == SubSeq(q, 1, n)
                     b == SubSeq(q, n + 1, Len(q))
                 IN  /\ Carries(a, r) \/ Carries(b, r) => Carries(q, r)
                     /\ Once(q, r) => /\ Once(a, r) /\ Once(b, r)
                                      /\ ~(Carries(a, r) /\ Carries(b, r))
           /\ q # <<>> =>
                 /\ Carries(q, Head(q).cmd)
                 /\ Carries(Tail(q), r) => Carries(q, r)
                 /\ Once(q, r) => /\ Once(Tail(q), r)
                                  /\ r = Head(q).cmd => ~Carries(Tail(q), r)
           /\ \A m \in Frame : /\ Carries(Append(q, m), r) => Carries(q, r) \/ m.cmd = r
                               /\ Once(q, r) /\ (m.cmd = r => ~Carries(q, r)) => Once(Append(q, m), r)
<1>1. ASSUME NEW n \in 1..Len(q)
      PROVE  LET a == SubSeq(q, 1, n)
                 b == SubSeq(q, n + 1, Len(q))
             IN  /\ Carries(a, r) \/ Carries(b, r) => Carries(q, r)
                 /\ Once(q, r) => /\ Once(a, r) /\ Once(b, r)
                                  /\ ~(Carries(a, r) /\ Carries(b, r))
  <2>. DEFINE a == SubSeq(q, 1, n)
              b == SubSeq(q, n + 1, Len(q))
  <2>1. DOMAIN a = 1..n /\ \A i \in 1..n : a[i] = q[i] /\ i \in DOMAIN q
    OBVIOUS
  <2>2. /\ DOMAIN b = 1..(Len(q) - n)
        /\ \A i \in 1..(Len(q) - n) : b[i] = q[n + i] /\ n + i \in DOMAIN q
    OBVIOUS
  <2>. HIDE DEF a, b
  <2>3. Carries(a, r) \/ Carries(b, r) => Carries(q, r)
    BY <2>1, <2>2 DEF Carries
  <2>4. Once(q, r) => Once(a, r)
    BY <2>1 DEF Once
  <2>5. Once(q, r) => Once(b, r)
    BY <2>2 DEF Once
  <2>6. Once(q, r) => ~(Carries(a, r) /\ Carries(b, r))
    BY <2>1, <2>2 DEF Once, Carries
  <2>7. QED
    BY <2>3, <2>4, <2>5, <2>6 DEF a, b
<1>2. ASSUME q # <<>>
      PROVE  /\ Carries(q, Head(q).cmd)
             /\ Carries(Tail(q), r) => Carries(q, r)
             /\ Once(q, r) => /\ Once(Tail(q), r)
                              /\ r = Head(q).cmd => ~Carries(Tail(q), r)
  <2>1. Head(q) = q[1] /\ 1 \in DOMAIN q
    BY <1>2
  <2>2. /\ DOMAIN Tail(q) = 1..(Len(q) - 1)
        /\ \A i \in 1..(Len(q) - 1) : Tail(q)[i] = q[i + 1] /\ i + 1 \in DOMAIN q
    BY <1>2
  <2>3. QED
    BY <2>1, <2>2 DEF Once, Carries
<1>3. ASSUME NEW m \in Frame
      PROVE  /\ Carries(Append(q, m), r) => Carries(q, r) \/ m.cmd = r
             /\ Once(q, r) /\ (m.cmd = r => ~Carries(q, r)) => Once(Append(q, m), r)
  <2>1. /\ DOMAIN Append(q, m) = 1..(Len(q) + 1) /\ DOMAIN q = 1..Len(q) /\ Len(q) \in Nat
        /\ \A i \in 1..Len(q) : Append(q, m)[i] = q[i]
        /\ Append(q, m)[Len(q) + 1] = m
    OBVIOUS
  <2>2. QED
    BY <2>1 DEF Once, Carries
<1>4. QED
  BY <1>1, <1>2, <1>3

\* The frames that the parts of a line hold are frames of the line.
LEMMA PartsHold ==
    ASSUME NEW q \in Seq(Frame), NEW f
    PROVE  /\ \A n \in 1..Len(q) :
                 Holds(SubSeq(q, 1, n), f) \/ Holds(SubSeq(q, n + 1, Len(q)), f) => Holds(q, f)
           /\ q # <<>> => Holds(q, Head(q)) /\ (Holds(Tail(q), f) => Holds(q, f))
           /\ \A m \in Frame : Holds(Append(q, m), f) => Holds(q, f) \/ m = f
<1>1. ASSUME NEW n \in 1..Len(q)
      PROVE  Holds(SubSeq(q, 1, n), f) \/ Holds(SubSeq(q, n + 1, Len(q)), f) => Holds(q, f)
  <2>. DEFINE a == SubSeq(q, 1, n)
              b == SubSeq(q, n + 1, Len(q))
  <2>1. DOMAIN a = 1..n /\ \A i \in 1..n : a[i] = q[i] /\ i \in DOMAIN q
    OBVIOUS
  <2>2. /\ DOMAIN b = 1..(Len(q) - n)
        /\ \A i \in 1..(Len(q) - n) : b[i] = q[n + i] /\ n + i \in DOMAIN q
    OBVIOUS
  <2>. HIDE DEF a, b
  <2>3. Holds(a, f) \/ Holds(b, f) => Holds(q, f)
    BY <2>1, <2>2 DEF Holds
  <2>4. QED
    BY <2>3 DEF a, b
<1>2. ASSUME q # <<>>
      PROVE  Holds(q, Head(q)) /\ (Holds(Tail(q), f) => Holds(q, f))
  <2>1. Head(q) = q[1] /\ 1 \in DOMAIN q
    BY <1>2
  <2>2. /\ DOMAIN Tail(q) = 1..(Len(q) - 1)
        /\ \A i \in 1..(Len(q) - 1) : Tail(q)[i] = q[i + 1] /\ i + 1 \in DOMAIN q
    BY <1>2
  <2>3. QED
    BY <2>1, <2>2 DEF Holds
<1>3. ASSUME NEW m \in Frame PROVE Holds(Append(q, m), f) => Holds(q, f) \/ m = f
  <2>1. /\ DOMAIN Append(q, m) = 1..(Len(q) + 1) /\ DOMAIN q = 1..Len(q) /\ Len(q) \in Nat
        /\ \A i \in 1..Len(q) : Append(q, m)[i] = q[i]
        /\ Append(q, m)[Len(q) + 1] = m
    OBVIOUS
  <2>2. QED
    BY <2>1 DEF Holds
<1>4. QED
  BY <1>1, <1>2, <1>3

\* The line of r is not longer after a step, and in one place if it was.
LineKept(r) ==
    \A d \in Conn : /\ At(d, r)' => At(d, r)
                    /\ OnceAt(d, r) => OnceAt(d, r)'

\* A step that touches the line of one connection at most.
LEMMA OneLine ==
    ASSUME NEW c \in Conn, NEW r,
           \A d \in Conn \ {c} : UNCHANGED <<busy[d], stream[d], buf[d]>>,
           At(c, r)' => At(c, r), OnceAt(c, r) => OnceAt(c, r)'
    PROVE  LineKept(r)
<1>. SUFFICES ASSUME NEW d \in Conn
              PROVE  /\ At(d, r)' => At(d, r)
                     /\ OnceAt(d, r) => OnceAt(d, r)'
  BY DEF LineKept
<1>1. CASE d = c
  BY <1>1
<1>2. CASE d # c
  BY <1>2 DEF At, OnceAt
<1>3. QED
  BY <1>1, <1>2

\* Only a write that returns puts a frame on the line, the one it wrote.
LEMMA LineStep ==
    ASSUME TypeInv, [Next]_vars, NEW r \in Req
    PROVE  \/ LineKept(r)
           \/ \E c \in Conn : /\ busy' = [busy EXCEPT ![c] = r] /\ UNCHANGED <<stream, buf>>
                              /\ wires' = [wires EXCEPT ![r] = @ + 1]
<1>1. /\ stream \in [Conn -> Seq(Frame)] /\ buf \in [Conn -> Seq(Frame)]
      /\ busy \in [Conn -> Cmd \cup {Idle}]
      /\ Idle \notin Cmd /\ r \in Cmd /\ r \notin InputBlocks
  BY RequestAssumption DEF TypeInv, TypeOK, Cmd
<1>2. CASE UNCHANGED <<buf, stream, busy>>
  BY <1>2 DEF LineKept, At, OnceAt
<1>3. ASSUME NEW q \in Req, Call(q) PROVE UNCHANGED <<buf, stream, busy>>
  BY <1>3 DEF Call, Request, Deliver, Retry, GiveUp, Cancel, connVars
<1>4. ASSUME NEW c \in Conn,
             \/ Top(c) \/ EnterRead(c) \/ Arm(c) \/ ReadIdle(c) \/ Replied(c)
             \/ After(c) \/ Snooze(c) \/ WakeUp(c) \/ Connect(c)
      PROVE  UNCHANGED <<buf, stream, busy>>
  BY <1>4 DEF Top, EnterRead, Arm, ReadIdle, Replied, After, Snooze, WakeUp, Connect,
     connVars
<1>5. ASSUME NEW c \in Conn, ReadChunk(c) PROVE LineKept(r)
  <2>1. PICK k \in 1..Len(stream[c]) :
           /\ buf' = [buf EXCEPT ![c] = SubSeq(stream[c], 1, k)]
           /\ stream' = [stream EXCEPT ![c] = SubSeq(stream[c], k + 1, Len(stream[c]))]
    BY <1>5 DEF ReadChunk
  <2>2. busy' = busy /\ \A d \in Conn \ {c} : UNCHANGED <<busy[d], stream[d], buf[d]>>
    BY <1>1, <1>5, <2>1 DEF ReadChunk
  <2>3. /\ buf'[c] = SubSeq(stream[c], 1, k)
        /\ stream'[c] = SubSeq(stream[c], k + 1, Len(stream[c]))
        /\ stream[c] \in Seq(Frame)
    BY <1>1, <2>1
  <2>4. At(c, r)' => At(c, r)
    BY <2>2, <2>3, LineFacts DEF At
  <2>5. OnceAt(c, r) => OnceAt(c, r)'
    BY <2>2, <2>3, LineFacts DEF OnceAt
  <2>6. QED
    BY <2>2, <2>4, <2>5, OneLine
<1>6. ASSUME NEW c \in Conn, Resolve(c) \/ Parse(c) PROVE LineKept(r)
  <2>1. buf' = [buf EXCEPT ![c] = Tail(@)] /\ UNCHANGED <<stream, busy>> /\ pc[c] = "handle"
    BY <1>6 DEF Resolve, Parse
  <2>2. buf'[c] = Tail(buf[c]) /\ buf[c] \in Seq(Frame) /\ buf[c] # <<>>
    BY <1>1, <2>1 DEF TypeInv, HandlerOK
  <2>3. \A d \in Conn \ {c} : UNCHANGED <<busy[d], stream[d], buf[d]>>
    BY <1>1, <2>1
  <2>4. At(c, r)' => At(c, r)
    BY <2>1, <2>2, LineFacts DEF At
  <2>5. OnceAt(c, r) => OnceAt(c, r)'
    BY <2>1, <2>2, LineFacts DEF OnceAt
  <2>6. QED
    BY <2>3, <2>4, <2>5, OneLine
<1>7. ASSUME NEW c \in Conn, NEW m \in Cmd, Arrive(c, m), UNCHANGED <<buf, stream>>, m # r
      PROVE  LineKept(r)
  <2>1. busy'[c] # r \/ busy'[c] = busy[c]
    BY <1>1, <1>7 DEF Arrive
  <2>2. \A d \in Conn \ {c} : UNCHANGED <<busy[d], stream[d], buf[d]>>
    BY <1>1, <1>7 DEF Arrive
  <2>3. (At(c, r)' => At(c, r)) /\ (OnceAt(c, r) => OnceAt(c, r)')
    BY <1>7, <2>1 DEF At, OnceAt
  <2>4. QED
    BY <2>2, <2>3, OneLine
<1>8. ASSUME NEW c \in Conn, Sent(c)
      PROVE  \/ LineKept(r)
             \/ \E d \in Conn : /\ busy' = [busy EXCEPT ![d] = r] /\ UNCHANGED <<stream, buf>>
                                /\ wires' = [wires EXCEPT ![r] = @ + 1]
  <2>1. /\ cur[c] \in Req /\ wires' = [wires EXCEPT ![cur[c]] = @ + 1]
        /\ UNCHANGED <<buf, stream>> /\ Arrive(c, cur[c])
    BY <1>8 DEF Sent, TypeInv, HandlerOK
  <2>2. CASE cur[c] = r
    BY <1>2, <2>1, <2>2 DEF Arrive
  <2>3. CASE cur[c] # r
    BY <1>7, <2>1, <2>3 DEF Cmd
  <2>4. QED
    BY <2>2, <2>3
<1>9. ASSUME NEW c \in Conn, Polled(c) PROVE LineKept(r)
  <2>1. PICK b \in InputBlocks : Arrive(c, b) /\ UNCHANGED <<buf, stream>>
    BY <1>9 DEF Polled
  <2>2. QED
    BY <1>1, <1>7, <2>1 DEF Cmd
<1>10. ASSUME NEW c \in Conn, Disconnect(c) \/ WriteFails(c) PROVE LineKept(r)
  <2>1. /\ buf' = [buf EXCEPT ![c] = <<>>] /\ stream' = [stream EXCEPT ![c] = <<>>]
        /\ busy' = [busy EXCEPT ![c] = Idle]
    BY <1>10 DEF Disconnect, WriteFails, Close
  <2>2. buf'[c] = <<>> /\ stream'[c] = <<>> /\ busy'[c] # r
    BY <1>1, <2>1
  <2>3. \A d \in Conn \ {c} : UNCHANGED <<busy[d], stream[d], buf[d]>>
    BY <1>1, <2>1
  <2>4. ~At(c, r)' /\ OnceAt(c, r)'
    BY <2>2 DEF At, OnceAt, Carries, Once
  <2>5. QED
    BY <2>3, <2>4, OneLine
<1>11. ASSUME NEW c \in Conn, Lose(c) PROVE LineKept(r)
  <2>1. UNCHANGED <<buf, stream>> /\ busy' = [busy EXCEPT ![c] = Idle]
    BY <1>11 DEF Lose
  <2>2. busy'[c] # r /\ \A d \in Conn \ {c} : UNCHANGED <<busy[d], stream[d], buf[d]>>
    BY <1>1, <2>1
  <2>3. (At(c, r)' => At(c, r)) /\ (OnceAt(c, r) => OnceAt(c, r)')
    BY <2>1, <2>2 DEF At, OnceAt
  <2>4. QED
    BY <2>2, <2>3, OneLine
<1>12. ASSUME NEW c \in Conn, Reply(c) \/ Refuse(c) PROVE LineKept(r)
  <2>0. PICK f \in Frame : /\ f.cmd = busy[c]
                           /\ stream' = [stream EXCEPT ![c] = Append(@, f)]
    BY <1>12, FrameSent
  <2>1. buf' = buf /\ busy' = [busy EXCEPT ![c] = Idle]
    BY <1>12 DEF Reply, Refuse
  <2>2. busy'[c] # r /\ \A d \in Conn \ {c} : UNCHANGED <<busy[d], stream[d], buf[d]>>
    BY <1>1, <2>0, <2>1
  <2>3. stream'[c] = Append(stream[c], f) /\ stream[c] \in Seq(Frame)
    BY <1>1, <2>0
  <2>4. /\ Carries(stream'[c], r) => Carries(stream[c], r) \/ busy[c] = r
        /\ Once(stream[c], r) /\ (busy[c] = r => ~Carries(stream[c], r)) => Once(stream'[c], r)
    <3>1. /\ Carries(Append(stream[c], f), r) => Carries(stream[c], r) \/ f.cmd = r
          /\ Once(stream[c], r) /\ (f.cmd = r => ~Carries(stream[c], r))
                => Once(Append(stream[c], f), r)
      BY <2>0, <2>3, LineFacts
    <3>2. QED
      BY <2>0, <2>3, <3>1
  <2>5. At(c, r)' => At(c, r)
    BY <2>1, <2>2, <2>4 DEF At
  <2>6. OnceAt(c, r) => OnceAt(c, r)'
    BY <2>1, <2>2, <2>4 DEF OnceAt
  <2>7. QED
    BY <2>2, <2>5, <2>6, OneLine
<1>13. CASE UNCHANGED vars
  BY <1>2, <1>13 DEF vars
<1>14. QED
  BY <1>2, <1>3, <1>4, <1>5, <1>6, <1>8, <1>9, <1>10, <1>11, <1>12, <1>13 DEF Next, Handler

\* The frame that a handler takes off the line is gone, if it was there once.
LEMMA HeadTaken ==
    ASSUME TypeInv, OnceInv, NEW c \in Conn, Resolve(c) \/ Parse(c),
           NEW f \in Req, f = Head(buf[c]).cmd
    PROVE  /\ At(c, f)
           /\ wires[f] <= 1 => \A d \in Conn : ~At(d, f)'
<1>1. /\ buf' = [buf EXCEPT ![c] = Tail(@)] /\ UNCHANGED <<stream, busy>>
      /\ buf[c] \in Seq(Frame) /\ buf[c] # <<>> /\ buf \in [Conn -> Seq(Frame)]
  BY DEF Resolve, Parse, TypeInv, TypeOK, HandlerOK
<1>2. Carries(buf[c], f) /\ (Once(buf[c], f) => ~Carries(Tail(buf[c]), f))
  BY <1>1, LineFacts
<1>3. At(c, f)
  BY <1>2 DEF At
<1>4. ASSUME wires[f] <= 1, NEW d \in Conn PROVE ~At(d, f)'
  <2>1. OnceAt(c, f) /\ (At(d, f) => d = c)
    BY <1>3, <1>4 DEF OnceInv
  <2>2. CASE d = c
    <3>1. buf'[c] = Tail(buf[c])
      BY <1>1
    <3>2. QED
      BY <1>1, <1>2, <2>1, <2>2, <3>1 DEF At, OnceAt
  <2>3. CASE d # c
    BY <1>1, <2>1, <2>3 DEF At
  <2>4. QED
    BY <2>2, <2>3
<1>5. QED
  BY <1>3, <1>4

\* What is nowhere on the line was not written, in a call not written yet.
LEMMA UnwrittenNowhere ==
    ASSUME FramesInv, NEW c \in Conn, NEW r \in Req, At(c, r)
    PROVE  wires[r] > 0
  BY DEF FramesInv, Written, At, Carries

\* The line is empty at first.
LEMMA OnceInit == Init => OnceInv
  BY RequestAssumption DEF Init, OnceInv, OnceAt, At, Once, Carries, Cmd

\* A frame that was written once stays in one place.
LEMMA OnceStep ==
    ASSUME TypeInv, FramesInv, OnceInv, [Next]_vars
    PROVE  OnceInv'
<1>. SUFFICES ASSUME NEW r \in Req, wires'[r] <= 1
              PROVE  /\ \A c \in Conn : OnceAt(c, r)'
                     /\ \A c, d \in Conn : At(c, r)' /\ At(d, r)' => c = d
  BY DEF OnceInv, OnceAt, At
<1>1. wires'[r] >= wires[r] /\ wires'[r] \in Nat /\ wires[r] \in Nat
  BY WiresGrow DEF TypeInv, TypeOK
<1>2. /\ \A c \in Conn : OnceAt(c, r)
      /\ \A c, d \in Conn : At(c, r) /\ At(d, r) => c = d
  BY <1>1 DEF OnceInv
<1>3. CASE LineKept(r)
  BY <1>2, <1>3 DEF LineKept
<1>4. ASSUME NEW c \in Conn, busy' = [busy EXCEPT ![c] = r], UNCHANGED <<stream, buf>>,
             wires' = [wires EXCEPT ![r] = @ + 1]
      PROVE  /\ \A d \in Conn : OnceAt(d, r)'
             /\ \A d, e \in Conn : At(d, r)' /\ At(e, r)' => d = e
  <2>1. wires[r] = 0
    BY <1>1, <1>4 DEF TypeInv, TypeOK
  <2>2. \A d \in Conn : ~At(d, r)
    BY <1>1, <2>1, UnwrittenNowhere
  <2>3. \A d \in Conn : ~Carries(stream'[d], r) /\ ~Carries(buf'[d], r)
    BY <1>4, <2>2 DEF At
  <2>4. \A d \in Conn : d # c => busy'[d] # r
    BY <1>4, <2>2 DEF At, TypeInv, TypeOK
  <2>5. QED
    BY <2>3, <2>4 DEF At, OnceAt, Once, Carries
<1>5. QED
  BY <1>3, <1>4, LineStep

-----------------------------------------------------------------------------
\* Nothing landed and nobody was answered yet.
LEMMA LandedInit == Init => LandedInv
  BY DEF Init, LandedInv, Holds

\* The inverter forgets no command it executed.
LEMMA LandedGrows ==
    ASSUME [Next]_vars PROVE landed \subseteq landed'
<1>1. ASSUME NEW r \in Req, Call(r) PROVE landed' = landed
  BY <1>1 DEF Call, Request, Deliver, Retry, GiveUp, Cancel
<1>2. ASSUME NEW c \in Conn, Handler(c) \/ Connect(c) \/ Disconnect(c) PROVE landed' = landed
  BY <1>2 DEF Handler, Top, EnterRead, Arm, ReadChunk, ReadIdle, Resolve, Parse, Replied,
     After, Sent, Polled, Snooze, WakeUp, Connect, Disconnect
<1>3. ASSUME NEW c \in Conn, WriteFails(c) \/ Lose(c) \/ Reply(c) \/ Refuse(c) PROVE landed \subseteq landed'
  BY <1>3 DEF WriteFails, Lose, Reply, Refuse, Executed
<1>4. QED
  BY <1>1, <1>2, <1>3 DEF Next, vars

\* Every answer on the line is that of a command the inverter executed.
LEMMA RepliesLanded ==
    ASSUME TypeInv, LandedInv, [Next]_vars, NEW c \in Conn,
           NEW f \in Frame, f.ok, f.cmd \in Req,
           Holds(stream'[c], f) \/ Holds(buf'[c], f)
    PROVE  f.cmd \in landed'
<1>1. Holds(stream[c], f) \/ Holds(buf[c], f) => f.cmd \in landed'
  BY LandedGrows DEF LandedInv
<1>2. /\ stream \in [Conn -> Seq(Frame)] /\ buf \in [Conn -> Seq(Frame)]
      /\ busy \in [Conn -> Cmd \cup {Idle}] /\ Idle \notin Cmd
  BY RequestAssumption DEF TypeInv, TypeOK
<1>3. ASSUME NEW d \in Conn, ReadChunk(d)
      PROVE  Holds(stream[c], f) \/ Holds(buf[c], f)
  <2>1. PICK k \in 1..Len(stream[d]) :
           /\ buf' = [buf EXCEPT ![d] = SubSeq(stream[d], 1, k)]
           /\ stream' = [stream EXCEPT ![d] = SubSeq(stream[d], k + 1, Len(stream[d]))]
    BY <1>3 DEF ReadChunk
  <2>2. CASE d = c
    <3>1. /\ buf'[c] = SubSeq(stream[c], 1, k)
          /\ stream'[c] = SubSeq(stream[c], k + 1, Len(stream[c]))
          /\ stream[c] \in Seq(Frame) /\ k \in 1..Len(stream[c])
      BY <1>2, <2>1, <2>2
    <3>2. QED
      BY <3>1, PartsHold
  <2>3. CASE d # c
    BY <1>2, <2>1, <2>3
  <2>4. QED
    BY <2>2, <2>3
<1>4. ASSUME NEW d \in Conn, Resolve(d) \/ Parse(d)
      PROVE  Holds(stream[c], f) \/ Holds(buf[c], f)
  <2>1. /\ buf' = [buf EXCEPT ![d] = Tail(@)] /\ stream' = stream
        /\ buf[d] \in Seq(Frame) /\ buf[d] # <<>>
    BY <1>2, <1>4 DEF Resolve, Parse, TypeInv, HandlerOK
  <2>2. CASE d = c
    <3>1. buf'[c] = Tail(buf[c])
      BY <1>2, <2>1, <2>2
    <3>2. QED
      BY <2>1, <2>2, <3>1, PartsHold
  <2>3. CASE d # c
    BY <1>2, <2>1, <2>3
  <2>4. QED
    BY <2>2, <2>3
<1>5. ASSUME NEW d \in Conn, Disconnect(d) \/ WriteFails(d)
      PROVE  Holds(stream[c], f) \/ Holds(buf[c], f)
  <2>1. buf' = [buf EXCEPT ![d] = <<>>] /\ stream' = [stream EXCEPT ![d] = <<>>]
    BY <1>5 DEF Disconnect, WriteFails, Close
  <2>2. d # c
    BY <1>2, <2>1 DEF Holds
  <2>3. QED
    BY <1>2, <2>1, <2>2
<1>6. ASSUME NEW d \in Conn, Reply(d) \/ Refuse(d) PROVE f.cmd \in landed'
  <2>1. PICK g \in Frame : /\ g.cmd = busy[d]
                           /\ g.ok /\ busy[d] \in Req => busy[d] \in landed'
                           /\ stream' = [stream EXCEPT ![d] = Append(@, g)]
    BY <1>6, FrameSent
  <2>2. buf' = buf
    BY <1>6 DEF Reply, Refuse
  <2>3. CASE d = c
    <3>1. stream'[c] = Append(stream[c], g) /\ stream[c] \in Seq(Frame)
      BY <1>2, <2>1, <2>3
    <3>2. Holds(stream'[c], f) => Holds(stream[c], f) \/ g = f
      BY <3>1, PartsHold
    <3>3. QED
      BY <1>1, <2>1, <2>2, <2>3, <3>2
  <2>4. CASE d # c
    BY <1>1, <1>2, <2>1, <2>2, <2>4
  <2>5. QED
    BY <2>3, <2>4
<1>7. ASSUME NEW q \in Req, Call(q) PROVE UNCHANGED <<stream, buf>>
  BY <1>7 DEF Call, Request, Deliver, Retry, GiveUp, Cancel, connVars
<1>8. ASSUME NEW d \in Conn,
             \/ Top(d) \/ EnterRead(d) \/ Arm(d) \/ ReadIdle(d) \/ Replied(d)
             \/ After(d) \/ Sent(d) \/ Polled(d) \/ Snooze(d) \/ WakeUp(d)
             \/ Connect(d) \/ Lose(d)
      PROVE  UNCHANGED <<stream, buf>>
  BY <1>8 DEF Top, EnterRead, Arm, ReadIdle, Replied, After, Sent, Polled, Snooze,
     WakeUp, Connect, Lose, connVars
<1>9. CASE UNCHANGED vars
  BY <1>1, <1>9 DEF vars
<1>10. CASE UNCHANGED <<stream, buf>>
  BY <1>1, <1>10
<1>11. QED
  BY <1>1, <1>3, <1>4, <1>5, <1>6, <1>7, <1>8, <1>9, <1>10 DEF Next, Handler

\* Every step keeps a landed write behind each write that an answer resolved.
LEMMA LandedStep ==
    ASSUME TypeInv, QueueInv, LandedInv, [Next]_vars
    PROVE  LandedInv'
<1>1. \A c \in Conn, f \in Frame :
         f.ok /\ f.cmd \in Req /\ (Holds(stream'[c], f) \/ Holds(buf'[c], f))
            => f.cmd \in landed'
  BY RepliesLanded
<1>. DEFINE Rest == /\ \A r \in Req : /\ caller'[r] = "ok" => future'[r] = "done"
                                      /\ caller'[r] = "refused" => future'[r] # "open"
                    /\ \A r \in Req \ Reads : future'[r] = "done" =>
                          \E q \in landed' \ Reads : RegOf[q] = RegOf[r]
<1>2. /\ landed \subseteq landed'
      /\ caller \in [Req -> {"idle", "wait1", "wait2"} \cup Ended]
      /\ future \in [Req -> {"open", "done", "refused"}]
  BY LandedGrows DEF TypeInv, TypeOK
<1>3. ASSUME UNCHANGED <<caller, future>> PROVE Rest
  BY <1>2, <1>3 DEF LandedInv
<1>4. ASSUME NEW r \in Req, Call(r) PROVE Rest
  BY <1>2, <1>4 DEF LandedInv, Call, Request, Deliver, Outcome, Retry, GiveUp, Cancel
<1>5. ASSUME NEW c \in Conn, Resolve(c) PROVE Rest
  <2>. DEFINE f == Head(buf[c])
  <2>1. PICK i \in Matches(f) :
           future' = [future EXCEPT ![pending[i]] = IF f.ok THEN "done" ELSE "refused"]
    BY <1>5 DEF Resolve
  <2>2. f.cmd \in Req /\ i \in DOMAIN pending /\ SameKey(f.cmd, pending[i])
    BY <2>1 DEF Matches
  <2>3. buf[c] \in Seq(Frame) /\ buf[c] # <<>> /\ caller' = caller
    BY <1>5 DEF Resolve, TypeInv, TypeOK, HandlerOK
  <2>4. f.ok => f.cmd \in landed
    <3>1. f \in Frame /\ Holds(buf[c], f)
      BY <2>3, PartsHold
    <3>2. QED
      BY <2>2, <3>1 DEF LandedInv
  <2>. HIDE DEF f
  <2>5. ASSUME NEW r \in Req \ Reads, future'[r] = "done"
        PROVE  \E q \in landed' \ Reads : RegOf[q] = RegOf[r]
    <3>1. CASE r = pending[i]
      <4>1. f.ok
        BY <1>2, <2>1, <2>5, <3>1
      <4>2. QED
        BY <1>2, <2>2, <2>4, <3>1, <4>1 DEF SameKey
    <3>2. CASE r # pending[i]
      BY <1>2, <2>1, <2>5, <3>2 DEF LandedInv
    <3>3. QED
      BY <3>1, <3>2
  <2>6. \A r \in Req : /\ caller'[r] = "ok" => future'[r] = "done"
                       /\ caller'[r] = "refused" => future'[r] # "open"
    <3>1. caller[pending[i]] \notin {"ok", "refused"}
      <4>1. pending[i] \in Req /\ Holds(pending, pending[i])
        BY <2>2 DEF Holds, TypeInv, TypeOK
      <4>2. QED
        BY <4>1 DEF QueueInv
    <3>2. QED
      BY <1>2, <2>1, <2>3, <3>1 DEF LandedInv
  <2>7. QED
    BY <2>5, <2>6
<1>6. ASSUME NEW c \in Conn,
             \/ Top(c) \/ EnterRead(c) \/ Arm(c) \/ ReadChunk(c) \/ ReadIdle(c)
             \/ Parse(c) \/ Replied(c) \/ After(c) \/ Sent(c) \/ Polled(c)
             \/ Snooze(c) \/ WakeUp(c) \/ Connect(c) \/ Disconnect(c)
             \/ WriteFails(c) \/ Lose(c) \/ Reply(c) \/ Refuse(c)
      PROVE  UNCHANGED <<caller, future>>
  BY <1>6 DEF callVars, Top, EnterRead, Arm, ReadChunk, ReadIdle, Parse, Replied,
     After, Sent, Polled, Snooze, WakeUp, Connect, Disconnect, WriteFails, Close,
     Lose, Reply, Refuse
<1>7. ASSUME UNCHANGED vars PROVE UNCHANGED <<caller, future>>
  BY <1>7 DEF vars
<1>. HIDE DEF Rest
<1>8. Rest
  BY <1>3, <1>4, <1>5, <1>6, <1>7 DEF Next, Handler
<1>9. QED
  BY <1>1, <1>8 DEF LandedInv, Holds, Rest

\* The echo that confirms a write is that of a write of its register which the
\* inverter executed, for any calls and connections, frames that come late,
\* refusals that resolve calls and writes that fail (write_item,
\* __resolve_modbus, validated_subject).
THEOREM EchoConfirms == Spec => []AnsweredWriteLanded
<1>1. LandedInv => AnsweredWriteLanded
  BY DEF LandedInv, AnsweredWriteLanded
<1>2. TypeInv /\ QueueInv /\ LandedInv /\ [Next]_vars => LandedInv'
  BY LandedStep
<1>3. Spec => []QueueInv
  BY QueueInit, QueueStep, TypeCorrect, PTL DEF Spec
<1>4. QED
  BY <1>1, <1>2, <1>3, LandedInit, TypeCorrect, PTL DEF Spec

-----------------------------------------------------------------------------
(* No holding reply is taken for telemetry: the replies on their way to the *)
(* reads of a register, and the calls of them that were resolved, are       *)
(* together no more than the frames that went out, and so there is a call   *)
(* left for each reply.                                                     *)

Of(b) == {r \in Reads : RegOf[r] = b}

\* A read of the register was sent again or given up.
Excused(b) ==
    \E r \in Of(b) : wires[r] > 1 \/ caller[r] \in {"timeout", "cancelled"}

Flying(b) == {r \in Of(b) : \E c \in Conn : At(c, r)}
Resolved(b) == {r \in Of(b) : future[r] # "open"}
Out(b) == {r \in Of(b) : wires[r] > 0}

CountInv ==
    \A b \in InputBlocks :
        /\ IsFiniteSet(Out(b)) /\ IsFiniteSet(Resolved(b))
        /\ ~Excused(b) =>
              Cardinality(Flying(b)) + Cardinality(Resolved(b)) <= Cardinality(Out(b))

\* All the reads of b are counted by a step that adds none to what flies or is
\* resolved, and none to what went out that does not fly.
LEMMA CountKept ==
    ASSUME NEW F, NEW D, NEW O, NEW F1, NEW D1, NEW O1,
           IsFiniteSet(O), IsFiniteSet(D), F \subseteq O,
           Cardinality(F) + Cardinality(D) <= Cardinality(O),
           F1 \subseteq F, D1 \subseteq D, O \subseteq O1, IsFiniteSet(O1)
    PROVE  Cardinality(F1) + Cardinality(D1) <= Cardinality(O1)
<1>1. IsFiniteSet(F) /\ Cardinality(F) \in Nat /\ Cardinality(D) \in Nat
      /\ Cardinality(O) \in Nat /\ Cardinality(O1) \in Nat
  BY FS_Subset, FS_CardinalityType
<1>2. /\ IsFiniteSet(F1) /\ Cardinality(F1) <= Cardinality(F)
      /\ IsFiniteSet(D1) /\ Cardinality(D1) <= Cardinality(D)
      /\ Cardinality(O) <= Cardinality(O1)
  BY <1>1, FS_Subset
<1>3. Cardinality(F1) \in Nat /\ Cardinality(D1) \in Nat
  BY <1>2, FS_CardinalityType
<1>4. QED
  BY <1>1, <1>2, <1>3

\* A reply that resolves a call flies no more.
LEMMA CountResolved ==
    ASSUME NEW F, NEW D, NEW O, NEW F1, NEW D1, NEW f, NEW r,
           IsFiniteSet(O), IsFiniteSet(D), F \subseteq O,
           Cardinality(F) + Cardinality(D) <= Cardinality(O),
           f \in F, F1 \subseteq F \ {f}, D1 \subseteq D \cup {r}
    PROVE  Cardinality(F1) + Cardinality(D1) <= Cardinality(O)
<1>1. IsFiniteSet(F) /\ Cardinality(F) \in Nat /\ Cardinality(D) \in Nat
      /\ Cardinality(O) \in Nat
  BY FS_Subset, FS_CardinalityType
<1>2. IsFiniteSet(F \ {f}) /\ Cardinality(F \ {f}) = Cardinality(F) - 1
  BY <1>1, FS_RemoveElement
<1>3. IsFiniteSet(D \cup {r}) /\ Cardinality(D \cup {r}) <= Cardinality(D) + 1
  <2>1. /\ IsFiniteSet(D \cup {r})
        /\ Cardinality(D \cup {r}) = IF r \in D THEN Cardinality(D) ELSE Cardinality(D) + 1
    BY FS_AddElement
  <2>2. QED
    BY <1>1, <2>1
<1>4. /\ IsFiniteSet(F1) /\ Cardinality(F1) <= Cardinality(F \ {f})
      /\ IsFiniteSet(D1) /\ Cardinality(D1) <= Cardinality(D \cup {r})
  <2>1. F1 \in SUBSET (F \ {f}) /\ D1 \in SUBSET (D \cup {r})
    OBVIOUS
  <2>. DEFINE G == F \ {f}
              E == D \cup {r}
  <2>2. IsFiniteSet(G) /\ IsFiniteSet(E) /\ F1 \in SUBSET G /\ D1 \in SUBSET E
    BY <1>2, <1>3, <2>1
  <2>. HIDE DEF G, E
  <2>3. /\ IsFiniteSet(F1) /\ Cardinality(F1) <= Cardinality(G)
        /\ IsFiniteSet(D1) /\ Cardinality(D1) <= Cardinality(E)
    BY <2>2, FS_Subset
  <2>4. QED
    BY <2>3 DEF G, E
<1>5. /\ Cardinality(F1) \in Nat /\ Cardinality(D1) \in Nat
      /\ Cardinality(D \cup {r}) \in Nat
  BY <1>3, <1>4, FS_CardinalityType
<1>6. QED
  BY <1>1, <1>2, <1>3, <1>4, <1>5

\* A frame that goes out for the first time may fly.
LEMMA CountSent ==
    ASSUME NEW F, NEW D, NEW O, NEW F1, NEW r,
           IsFiniteSet(O), IsFiniteSet(D), F \subseteq O,
           Cardinality(F) + Cardinality(D) <= Cardinality(O),
           r \notin O, F1 \subseteq F \cup {r}
    PROVE  Cardinality(F1) + Cardinality(D) <= Cardinality(O \cup {r})
<1>1. IsFiniteSet(F) /\ Cardinality(F) \in Nat /\ Cardinality(D) \in Nat
      /\ Cardinality(O) \in Nat
  BY FS_Subset, FS_CardinalityType
<1>2. Cardinality(O \cup {r}) = Cardinality(O) + 1
  BY FS_AddElement
<1>3. IsFiniteSet(F \cup {r}) /\ Cardinality(F \cup {r}) <= Cardinality(F) + 1
  <2>1. /\ IsFiniteSet(F \cup {r})
        /\ Cardinality(F \cup {r}) = IF r \in F THEN Cardinality(F) ELSE Cardinality(F) + 1
    BY <1>1, FS_AddElement
  <2>2. QED
    BY <1>1, <2>1
<1>4. Cardinality(F1) <= Cardinality(F \cup {r}) /\ IsFiniteSet(F1)
  <2>. DEFINE G == F \cup {r}
  <2>1. IsFiniteSet(G) /\ F1 \in SUBSET G
    BY <1>3
  <2>. HIDE DEF G
  <2>2. IsFiniteSet(F1) /\ Cardinality(F1) <= Cardinality(G)
    BY <2>1, FS_Subset
  <2>3. QED
    BY <2>2 DEF G
<1>5. Cardinality(F1) \in Nat /\ Cardinality(F \cup {r}) \in Nat
  BY <1>3, <1>4, FS_CardinalityType
<1>6. QED
  BY <1>1, <1>2, <1>3, <1>4, <1>5

\* Nothing is counted at first.
LEMMA CountInit == Init => CountInv
<1>. SUFFICES ASSUME Init, NEW b \in InputBlocks
              PROVE  /\ IsFiniteSet(Out(b)) /\ IsFiniteSet(Resolved(b))
                     /\ Cardinality(Flying(b)) + Cardinality(Resolved(b))
                           <= Cardinality(Out(b))
  BY DEF CountInv
<1>1. Out(b) = {} /\ Resolved(b) = {}
  BY RequestAssumption DEF Init, Out, Resolved, Of
<1>2. Flying(b) = {}
  BY RequestAssumption DEF Init, Flying, Of, At, Carries, Cmd
<1>3. QED
  BY <1>1, <1>2, FS_EmptySet

\* What a step does to the futures.
LEMMA FutureStep ==
    ASSUME TypeInv, [Next]_vars
    PROVE  \/ \A r \in Req : future'[r] # "open" => future[r] # "open"
           \/ \E c \in Conn : Resolve(c)
<1>1. future \in [Req -> {"open", "done", "refused"}]
  BY DEF TypeInv, TypeOK
<1>2. ASSUME NEW r \in Req, Call(r)
      PROVE  \A q \in Req : future'[q] # "open" => future[q] # "open"
  BY <1>1, <1>2 DEF Call, Request, Deliver, Retry, GiveUp, Cancel
<1>3. ASSUME NEW c \in Conn,
             \/ Top(c) \/ EnterRead(c) \/ Arm(c) \/ ReadChunk(c) \/ ReadIdle(c)
             \/ Parse(c) \/ Replied(c) \/ After(c) \/ Sent(c) \/ Polled(c)
             \/ Snooze(c) \/ WakeUp(c) \/ Connect(c) \/ Disconnect(c)
             \/ WriteFails(c) \/ Lose(c) \/ Reply(c) \/ Refuse(c)
      PROVE  future' = future
  BY <1>3 DEF callVars, Top, EnterRead, Arm, ReadChunk, ReadIdle, Parse, Replied,
     After, Sent, Polled, Snooze, WakeUp, Connect, Disconnect, WriteFails, Close,
     Lose, Reply, Refuse
<1>4. CASE UNCHANGED vars
  BY <1>4 DEF vars
<1>5. QED
  BY <1>2, <1>3, <1>4 DEF Next, Handler

\* What a step does to the count of frames: nothing, or one goes out.
LEMMA WiresStep ==
    ASSUME TypeInv, [Next]_vars
    PROVE  \/ wires' = wires
           \/ \E r \in Req : wires' = [wires EXCEPT ![r] = @ + 1]
<1>1. ASSUME NEW r \in Req, Call(r) PROVE wires' = wires
  BY <1>1 DEF Call, Request, Deliver, Retry, GiveUp, Cancel
<1>2. ASSUME NEW c \in Conn,
             \/ Top(c) \/ EnterRead(c) \/ Arm(c) \/ ReadChunk(c) \/ ReadIdle(c)
             \/ Parse(c) \/ Replied(c) \/ After(c) \/ Resolve(c) \/ Polled(c)
             \/ Snooze(c) \/ WakeUp(c) \/ Connect(c) \/ Disconnect(c)
             \/ Lose(c) \/ Reply(c) \/ Refuse(c)
      PROVE  wires' = wires
  BY <1>2 DEF Top, EnterRead, Arm, ReadChunk, ReadIdle, Parse, Replied, After, Resolve,
     Polled, Snooze, WakeUp, Connect, Disconnect, Lose, Reply, Refuse
<1>3. ASSUME NEW c \in Conn, Sent(c) \/ WriteFails(c)
      PROVE  \/ wires' = wires
             \/ \E r \in Req : wires' = [wires EXCEPT ![r] = @ + 1]
  BY <1>3 DEF Sent, WriteFails, TypeInv, HandlerOK
<1>4. ASSUME UNCHANGED vars PROVE wires' = wires
  BY <1>4 DEF vars
<1>5. QED
  BY <1>1, <1>2, <1>3, <1>4 DEF Next, Handler

\* A call that was given up stays so.
LEMMA GivenUpStays ==
    ASSUME TypeInv, [Next]_vars, NEW r \in Req, caller[r] \in {"timeout", "cancelled"}
    PROVE  caller'[r] = caller[r]
<1>1. ASSUME NEW q \in Req, Call(q) PROVE caller'[r] = caller[r]
  BY <1>1, RequestAssumption
     DEF TypeInv, TypeOK, Call, Request, Deliver, Retry, GiveUp, Cancel
<1>2. ASSUME NEW c \in Conn,
             \/ Handler(c) \/ Connect(c) \/ Disconnect(c) \/ WriteFails(c)
             \/ Lose(c) \/ Reply(c) \/ Refuse(c)
      PROVE  caller' = caller
  BY <1>2 DEF callVars, Handler, Top, EnterRead, Arm, ReadChunk, ReadIdle, Resolve, Parse,
     Replied, After, Sent, Polled, Snooze, WakeUp, Connect, Disconnect, WriteFails, Close,
     Lose, Reply, Refuse
<1>3. QED
  BY <1>1, <1>2 DEF Next, vars

\* An excuse is for good.
LEMMA ExcusedStays ==
    ASSUME TypeInv, [Next]_vars, NEW b, Excused(b)
    PROVE  Excused(b)'
<1>1. PICK r \in Of(b) : wires[r] > 1 \/ caller[r] \in {"timeout", "cancelled"}
  BY DEF Excused
<1>2. r \in Req /\ wires[r] \in Nat /\ wires'[r] \in Nat /\ wires'[r] >= wires[r]
  BY WiresGrow, RequestAssumption DEF Of, TypeInv, TypeOK
<1>3. caller[r] \in {"timeout", "cancelled"} => caller'[r] \in {"timeout", "cancelled"}
  BY <1>2, GivenUpStays
<1>4. QED
  BY <1>1, <1>2, <1>3 DEF Excused, Of

\* The count of register b after a step, by what the step does to it.
LEMMA CountStep ==
    ASSUME TypeInv, FramesInv, OnceInv, CountInv, [Next]_vars
    PROVE  CountInv'
<1>. SUFFICES ASSUME NEW b \in InputBlocks
              PROVE  /\ IsFiniteSet(Out(b)') /\ IsFiniteSet(Resolved(b)')
                     /\ ~Excused(b)' =>
                           Cardinality(Flying(b)') + Cardinality(Resolved(b)')
                              <= Cardinality(Out(b)')
  BY DEF CountInv, Excused, Flying, Resolved, Out, Of, At
<1>1. /\ wires \in [Req -> Nat] /\ future \in [Req -> {"open", "done", "refused"}]
      /\ Of(b) \subseteq Req
  BY RequestAssumption DEF TypeInv, TypeOK, Of
<1>2. IsFiniteSet(Out(b)) /\ IsFiniteSet(Resolved(b)) /\ Flying(b) \subseteq Out(b)
  BY <1>1, UnwrittenNowhere DEF CountInv, Flying, Out
<1>3. ~Excused(b)' => Cardinality(Flying(b)) + Cardinality(Resolved(b)) <= Cardinality(Out(b))
  BY ExcusedStays DEF CountInv
<1>4. ASSUME NEW c \in Conn, Resolve(c)
      PROVE  /\ Out(b)' = Out(b) /\ Flying(b)' \subseteq Flying(b)
             /\ \/ Resolved(b)' = Resolved(b)
                \/ \E f \in Flying(b), r \in Req :
                      /\ Resolved(b)' = Resolved(b) \cup {r}
                      /\ wires[f] <= 1 => f \notin Flying(b)'
  <2>1. /\ wires' = wires /\ stream' = stream /\ busy' = busy
        /\ buf' = [buf EXCEPT ![c] = Tail(@)]
        /\ buf[c] \in Seq(Frame) /\ buf[c] # <<>> /\ buf \in [Conn -> Seq(Frame)]
    BY <1>4 DEF Resolve, TypeInv, TypeOK, HandlerOK
  <2>2. Out(b)' = Out(b)
    BY <2>1 DEF Out, Of
  <2>3. ASSUME NEW d \in Conn, NEW q, At(d, q)' PROVE At(d, q)
    <3>1. CASE d = c
      <4>1. buf'[c] = Tail(buf[c])
        BY <2>1
      <4>2. Carries(buf'[c], q) => Carries(buf[c], q)
        BY <2>1, <4>1, LineFacts
      <4>3. QED
        BY <2>1, <2>3, <3>1, <4>2 DEF At
    <3>2. CASE d # c
      BY <2>1, <2>3, <3>2 DEF At
    <3>3. QED
      BY <3>1, <3>2
  <2>4. Flying(b)' \subseteq Flying(b)
    BY <2>3 DEF Flying, Of
  <2>5. PICK i \in Matches(Head(buf[c])), r \in Req :
           /\ r = pending[i]
           /\ \E a \in {"done", "refused"} : future' = [future EXCEPT ![r] = a]
    <3>1. PICK i \in Matches(Head(buf[c])), a \in {"done", "refused"} :
             future' = [future EXCEPT ![pending[i]] = a]
      BY <1>4 DEF Resolve
    <3>2. pending[i] \in Req
      BY DEF Matches, TypeInv, TypeOK
    <3>3. QED
      BY <3>1, <3>2
  <2>6. PICK f \in Req : /\ f = Head(buf[c]).cmd /\ RegOf[f] = RegOf[r]
                         /\ f \in Reads <=> r \in Reads
    BY <2>5 DEF Matches, SameKey
  <2>7. At(c, f) /\ (wires[f] <= 1 => \A d \in Conn : ~At(d, f)')
    BY <1>4, <2>6, HeadTaken
  <2>8. CASE r \in Of(b)
    <3>1. Resolved(b)' = Resolved(b) \cup {r}
      BY <1>1, <2>5, <2>6, <2>8 DEF Resolved, Of
    <3>2. f \in Flying(b)
      BY <2>6, <2>7, <2>8 DEF Flying, Of
    <3>3. wires[f] <= 1 => f \notin Flying(b)'
      BY <2>7 DEF Flying
    <3>4. QED
      BY <2>2, <2>4, <2>6, <3>1, <3>2, <3>3
  <2>9. CASE r \notin Of(b)
    <3>1. Resolved(b)' = Resolved(b)
      BY <1>1, <2>5, <2>6, <2>9 DEF Resolved, Of
    <3>2. QED
      BY <2>2, <2>4, <3>1
  <2>10. QED
    BY <2>8, <2>9
<1>5. CASE \E c \in Conn : Resolve(c)
  <2>1. /\ Out(b)' = Out(b) /\ Flying(b)' \subseteq Flying(b)
        /\ \/ Resolved(b)' = Resolved(b)
           \/ \E f \in Flying(b), r \in Req :
                 /\ Resolved(b)' = Resolved(b) \cup {r}
                 /\ wires[f] <= 1 => f \notin Flying(b)'
    BY <1>4, <1>5
  <2>2. CASE Resolved(b)' = Resolved(b)
    BY <1>2, <1>3, <2>1, <2>2, CountKept
  <2>3. ASSUME NEW f \in Flying(b), NEW r \in Req,
               Resolved(b)' = Resolved(b) \cup {r},
               wires[f] <= 1 => f \notin Flying(b)'
        PROVE  /\ IsFiniteSet(Out(b)') /\ IsFiniteSet(Resolved(b)')
               /\ ~Excused(b)' =>
                     Cardinality(Flying(b)') + Cardinality(Resolved(b)')
                        <= Cardinality(Out(b)')
    <3>1. IsFiniteSet(Out(b)') /\ IsFiniteSet(Resolved(b)')
      BY <1>2, <2>1, <2>3, FS_AddElement
    <3>2. ASSUME ~Excused(b)'
          PROVE  Cardinality(Flying(b)') + Cardinality(Resolved(b)') <= Cardinality(Out(b)')
      <4>1. f \in Of(b) /\ ~(wires[f] > 1)
        BY <3>2, ExcusedStays DEF Excused, Flying
      <4>2. Flying(b)' \subseteq Flying(b) \ {f}
        BY <1>1, <2>1, <2>3, <4>1
      <4>3. QED
        BY <1>2, <1>3, <2>1, <2>3, <3>2, <4>2, CountResolved
    <3>3. QED
      BY <3>1, <3>2
  <2>4. QED
    BY <2>1, <2>2, <2>3
<1>6. CASE ~\E c \in Conn : Resolve(c)
  <2>1. Resolved(b)' \subseteq Resolved(b) /\ IsFiniteSet(Resolved(b)')
    <3>1. Resolved(b)' \subseteq Resolved(b)
      BY <1>1, <1>6, FutureStep DEF Resolved, Of
    <3>2. QED
      BY <1>2, <3>1, FS_Subset
  <2>2. IsFiniteSet(Out(b)') /\ Out(b) \subseteq Out(b)'
    <3>1. CASE wires' = wires
      <4>1. Out(b)' = Out(b)
        BY <3>1 DEF Out, Of
      <4>2. QED
        BY <1>2, <4>1
    <3>2. ASSUME NEW r \in Req, wires' = [wires EXCEPT ![r] = @ + 1]
          PROVE  IsFiniteSet(Out(b)') /\ Out(b) \subseteq Out(b)'
      <4>1. Out(b)' \subseteq Out(b) \cup {r} /\ Out(b) \subseteq Out(b)'
        BY <1>1, <3>2 DEF Out, Of
      <4>2. IsFiniteSet(Out(b) \cup {r})
        BY <1>2, FS_AddElement
      <4>3. QED
        BY <4>1, <4>2, FS_Subset
    <3>3. QED
      BY <3>1, <3>2, WiresStep
  <2>3. SUFFICES ASSUME ~Excused(b)'
                 PROVE  Cardinality(Flying(b)') + Cardinality(Resolved(b)')
                           <= Cardinality(Out(b)')
    BY <2>1, <2>2
  <2>4. CASE \A r \in Of(b) : LineKept(r)
    <3>1. Flying(b)' \subseteq Flying(b)
      BY <2>4 DEF LineKept, Flying, Of
    <3>2. QED
      BY <1>2, <1>3, <2>1, <2>2, <2>3, <3>1, CountKept
  <2>5. ASSUME NEW r \in Of(b), NEW c \in Conn,
               busy' = [busy EXCEPT ![c] = r], UNCHANGED <<stream, buf>>,
               wires' = [wires EXCEPT ![r] = @ + 1]
        PROVE  Cardinality(Flying(b)') + Cardinality(Resolved(b)') <= Cardinality(Out(b)')
    <3>1. r \in Req /\ wires'[r] = wires[r] + 1 /\ wires[r] \in Nat
      BY <1>1, <2>5
    <3>2. ~(wires'[r] > 1)
      BY <2>3 DEF Excused, Of
    <3>3. r \notin Out(b)
      BY <3>1, <3>2 DEF Out
    <3>4. Out(b)' = Out(b) \cup {r}
      BY <1>1, <2>5, <3>1 DEF Out, Of
    <3>5. Flying(b)' \subseteq Flying(b) \cup {r}
      <4>1. ASSUME NEW d \in Conn, NEW q, q # r, At(d, q)' PROVE At(d, q)
        BY <2>5, <4>1 DEF At, TypeInv, TypeOK
      <4>2. QED
        BY <4>1 DEF Flying, Of
    <3>6. Cardinality(Flying(b)') + Cardinality(Resolved(b)) <= Cardinality(Out(b) \cup {r})
      BY <1>2, <1>3, <2>3, <3>3, <3>5, CountSent
    <3>7. /\ Cardinality(Resolved(b)') <= Cardinality(Resolved(b))
          /\ Cardinality(Resolved(b)') \in Nat /\ Cardinality(Resolved(b)) \in Nat
      BY <1>2, <2>1, FS_Subset, FS_CardinalityType
    <3>8. IsFiniteSet(Flying(b)')
      <4>1. IsFiniteSet(Flying(b))
        BY <1>2, FS_Subset
      <4>2. IsFiniteSet(Flying(b) \cup {r})
        BY <4>1, FS_AddElement
      <4>3. QED
        BY <3>5, <4>2, FS_Subset
    <3>9. Cardinality(Flying(b)') \in Nat /\ Cardinality(Out(b)') \in Nat
      BY <2>2, <3>8, FS_CardinalityType
    <3>10. QED
      BY <3>4, <3>6, <3>7, <3>9
  <2>6. QED
    BY <1>1, <2>4, <2>5, LineStep
<1>7. QED
  BY <1>5, <1>6

\* A reply to a read that resolves no call of its register: one was sent again or
\* given up, for otherwise a call is left for it.
LEMMA ReplyHasCall ==
    ASSUME TypeInv, QueueInv, BudgetInv, FramesInv, LandedInv, CountInv,
           NEW c \in Conn, NEW f \in Blocks, At(c, f), RegOf[f] \in InputBlocks,
           NEW g, g.cmd = f, Matches(g) = {}
    PROVE  Excused(RegOf[f])
<1>. SUFFICES ASSUME ~Excused(RegOf[f]) PROVE FALSE
  OBVIOUS
<1>. DEFINE b == RegOf[f]
<1>1. /\ f \in Req /\ f \in Reads /\ f \in Of(b)
      /\ caller \in [Req -> {"idle", "wait1", "wait2"} \cup Ended]
      /\ future \in [Req -> {"open", "done", "refused"}] /\ wires \in [Req -> Nat]
      /\ Of(b) \subseteq Req
  BY RequestAssumption DEF Of, TypeInv, TypeOK
<1>2. f \in Flying(b)
  BY <1>1 DEF Flying
<1>3. Out(b) \subseteq Resolved(b)
  <2>. SUFFICES ASSUME NEW r \in Out(b) PROVE future[r] # "open"
    BY DEF Out, Resolved
  <2>1. r \in Req /\ r \in Reads /\ RegOf[r] = b /\ wires[r] > 0
    BY <1>1 DEF Out, Of
  <2>2. ~Holds(pending, r)
    BY <1>1, <2>1 DEF Matches, SameKey, Holds
  <2>3. caller[r] \notin {"timeout", "cancelled"}
    BY <2>1 DEF Excused, Of
  <2>4. caller[r] # "idle"
    <3>1. wires[r] <= Budget(r) /\ wires[r] \in Nat
      BY <1>1, <2>1 DEF BudgetInv
    <3>2. QED
      BY <2>1, <3>1 DEF Budget, BudgetInv
  <2>5. caller[r] \in {"wait1", "wait2"} => future[r] # "open"
    BY <1>1, <2>1, <2>2 DEF QueueInv
  <2>6. QED
    BY <1>1, <2>1, <2>3, <2>4, <2>5 DEF LandedInv, Ended
<1>. HIDE DEF b
<1>4. /\ IsFiniteSet(Out(b)) /\ IsFiniteSet(Resolved(b)) /\ Flying(b) \subseteq Out(b)
      /\ Cardinality(Flying(b)) + Cardinality(Resolved(b)) <= Cardinality(Out(b))
  <2>1. Flying(b) \subseteq Out(b)
    BY <1>1, UnwrittenNowhere DEF Flying, Out
  <2>2. QED
    BY <2>1 DEF CountInv, b
<1>5. IsFiniteSet(Flying(b)) /\ Cardinality(Out(b)) <= Cardinality(Resolved(b))
  BY <1>3, <1>4, FS_Subset
<1>6. Cardinality(Flying(b)) # 0
  BY <1>2, <1>5, FS_EmptySet
<1>7. /\ Cardinality(Flying(b)) \in Nat /\ Cardinality(Out(b)) \in Nat
      /\ Cardinality(Resolved(b)) \in Nat
  BY <1>4, <1>5, FS_CardinalityType
<1>8. QED
  BY <1>4, <1>5, <1>6, <1>7

\* Nothing has been merged at first.
LEMMA TelemetryInit == Init => TelemetryIsInput
  BY DEF Init, TelemetryIsInput

\* What is merged came from a ReadInput reply, or there is an excuse.
LEMMA TelemetryStep ==
    ASSUME TypeInv, QueueInv, BudgetInv, FramesInv, LandedInv, OnceInv, CountInv,
           TelemetryIsInput, [Next]_vars
    PROVE  TelemetryIsInput'
<1>. SUFFICES ASSUME NEW b \in InputBlocks, cached'[b] = "holding" PROVE Excused(b)'
  BY DEF TelemetryIsInput, Excused, Of
<1>1. CASE cached[b] = "holding"
  <2>1. Excused(b)
    BY <1>1 DEF TelemetryIsInput, Excused, Of
  <2>2. QED
    BY <2>1, ExcusedStays
<1>2. CASE cached[b] # "holding"
  <2>1. ASSUME NEW r \in Req, Call(r) PROVE cached' = cached
    BY <2>1 DEF Call, Request, Deliver, Retry, GiveUp, Cancel
  <2>2. ASSUME NEW c \in Conn,
               \/ Top(c) \/ EnterRead(c) \/ Arm(c) \/ ReadChunk(c) \/ ReadIdle(c)
               \/ Resolve(c) \/ Replied(c) \/ After(c) \/ Sent(c) \/ Polled(c)
               \/ Snooze(c) \/ WakeUp(c) \/ Connect(c) \/ Disconnect(c)
               \/ WriteFails(c) \/ Lose(c) \/ Reply(c) \/ Refuse(c)
        PROVE  cached' = cached
    BY <2>2 DEF Top, EnterRead, Arm, ReadChunk, ReadIdle, Resolve, Replied, After, Sent,
       Polled, Snooze, WakeUp, Connect, Disconnect, WriteFails, Close, Lose, Reply, Refuse
  <2>3. PICK c \in Conn : Parse(c)
    <3>1. cached' # cached
      BY <1>2
    <3>2. ~UNCHANGED vars
      BY <3>1 DEF vars
    <3>3. QED
      BY <2>1, <2>2, <3>1, <3>2 DEF Next, Handler
  <2>4. PICK f \in Blocks : f = Head(buf[c]).cmd /\ RegOf[f] = b
    BY <1>2, <2>3 DEF Parse, Taken, TypeInv, TypeOK
  <2>5. Matches(Head(buf[c])) = {} /\ f \in Req
    BY <2>3, <2>4, RequestAssumption DEF Parse
  <2>6. At(c, f)
    BY <2>3, <2>4, <2>5, HeadTaken
  <2>7. Excused(b)
    BY <2>4, <2>5, <2>6, ReplyHasCall
  <2>8. QED
    BY <2>7, ExcusedStays
<1>3. QED
  BY <1>1, <1>2

\* The telemetry is made of ReadInput replies, for any calls and connections and any
\* loss, delay and reordering of replies among them, unless a read of that
\* register was sent again or given up (__resolve_modbus, read_input).
THEOREM TelemetryCorrect == Spec => []TelemetryIsInput
<1>. DEFINE LineInv == BudgetInv /\ FramesInv /\ LandedInv /\ OnceInv /\ CountInv
<1>1. Init => LineInv /\ TelemetryIsInput
  BY WireInit, LandedInit, OnceInit, CountInit, TelemetryInit DEF WireInv
<1>2. TypeInv /\ TypeInv' /\ QueueInv /\ LineInv /\ [Next]_vars => LineInv'
  BY BudgetStep, FramesStep, LandedStep, OnceStep, CountStep
<1>3. TypeInv /\ QueueInv /\ LineInv /\ TelemetryIsInput /\ [Next]_vars => TelemetryIsInput'
  BY TelemetryStep
<1>4. Spec => []QueueInv
  BY QueueInit, QueueStep, TypeCorrect, PTL DEF Spec
<1>. HIDE DEF LineInv
<1>5. QED
  BY <1>1, <1>2, <1>3, <1>4, TypeCorrect, PTL DEF Spec
=============================================================================
