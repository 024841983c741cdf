----------------------- MODULE ModbusController_proofs -----------------------
(***************************************************************************)
(* Safety of ModbusController for any registers, ranges, items and number  *)
(* of concurrent calls, each of which may write any item.                  *)
(*                                                                         *)
(* Then, from "The catalogue" on, the values: safety of RegisterCatalogue  *)
(* for any items that keep out of each other's bits, any display values,   *)
(* pages and contents of the registers, and any longest request.           *)
(***************************************************************************)
EXTENDS ModbusController, RegisterCatalogue, SequenceTheorems, FiniteSetTheorems,
        WellFoundedInduction, TLAPS

USE DEF history

-----------------------------------------------------------------------------
\* What a call works on is there as long as it needs it.
CallInv ==
    \A c \in Client :
        /\ stage[c] \in {"base", "write", "verify"} => item[c] \in May[c]
        /\ stage[c] \in Fetching => key[c] \in Ranges
        /\ stage[c] = "verify" => item[c].verify /\ key[c] = Block[item[c].reg]

\* A payload has the registers the device serves for its key.
CacheShape == \A k \in Ranges : cache[k] = None \/ cache[k] \in [Served[k] -> Raw]

\* Each open call has at most one reply on its way, with what it asked for.
RepliesInv ==
    /\ \A i, j \in DOMAIN replies : replies[i] = replies[j] => i = j
    /\ \A i \in DOMAIN replies :
          /\ stage[replies[i]] # "idle"
          /\ stage[replies[i]] \in Fetching =>
                data[replies[i]] \in [Served[key[replies[i]]] -> Raw]

\* Behind the i-th reply comes the echo of a write of r.
Overtaken(i, r) ==
    \E j \in DOMAIN replies : /\ j > i
                              /\ stage[replies[j]] = "write"
                              /\ item[replies[j]].reg = r

\* A reply shows the inverter as it is, but for the writes whose echoes are
\* behind it and the registers of failed calls.
AnswersInv ==
    \A i \in DOMAIN replies :
        /\ stage[replies[i]] = "write" =>
              \/ raw[replies[i]] = dev[item[replies[i]].reg]
              \/ item[replies[i]].reg \in unsure
              \/ Overtaken(i, item[replies[i]].reg)
        /\ stage[replies[i]] \in Fetching =>
              \A r \in Served[key[replies[i]]] :
                  \/ data[replies[i]][r] = dev[r]
                  \/ r \in unsure
                  \/ Overtaken(i, r)

\* A write that may still come belongs to a failed call.
LateInv == \A w \in late : w.reg \in unsure

\* The part of the invariant that the others rest on.
Base == TypeOK /\ CallInv /\ CacheShape /\ RepliesInv /\ AnswersInv /\ LateInv

\* The payload of a register's own block is renewed by the read that verifies.
MissedInv == \A k \in Ranges : \A r \in missed[k] : k # Block[r]

\* What a masked write waits for, and then sends, has the register's other bits
\* as the inverter holds them.
Merged(c) ==
    LET r == item[c].reg IN
        /\ stage[c] = "base" /\ Contains(replies, c) =>
              (r \in DOMAIN data[c] /\ item[c].mask # Field => data[c][r] = dev[r])
        /\ stage[c] = "write" /\ ~Contains(replies, c) =>
              \A f \in Field \ item[c].mask : raw[c][f] = dev[r][f]

\* So does every write that no other has crossed.
MergedInv ==
    \A c \in Client :
        item[c] # None /\ item[c].reg \notin unsure /\ c \notin crossed => Merged(c)

-----------------------------------------------------------------------------
\* What a write item is.
LEMMA ItemType ==
    ASSUME NEW c \in Client, NEW i \in May[c]
    PROVE  /\ i \in Item /\ i # None /\ i.reg \in Reg /\ i.mask \subseteq Field
           /\ i.verify \in BOOLEAN
           /\ Block[i.reg] \in Ranges
  BY RangeAssumption

\* A call holds the same register, whatever bits it takes over.
LEMMA RawType ==
    ASSUME NEW b \in Bit
    PROVE  /\ All(b) \in Raw
           /\ \A i \in Item : \A v \in Raw : Merge(i, v, b) \in Raw
  BY DEF All, Raw, Merge

\* The sequence without its n-th element.
Removed(q, n, p) ==
    /\ p \in Seq(Client) /\ Len(p) = Len(q) - 1
    /\ \A j \in 1..(Len(q) - 1) : p[j] = IF j < n THEN q[j] ELSE q[j + 1]

\* RemoveAt of the community modules takes out one element.
LEMMA RemoveAtIsRemoved ==
    ASSUME NEW q \in Seq(Client), NEW n \in DOMAIN q
    PROVE  Removed(q, n, RemoveAt(q, n))
<1> DEFINE a == SubSeq(q, 1, n - 1)
           b == SubSeq(q, n + 1, Len(q))
<1>1. n \in 1..Len(q) /\ Len(q) \in Nat
  OBVIOUS
<1>2. /\ a \in Seq(Client) /\ Len(a) = n - 1
      /\ \A j \in 1..(n - 1) : a[j] = q[j]
  BY <1>1
<1>3. /\ b \in Seq(Client) /\ Len(b) = Len(q) - n
      /\ \A j \in 1..(Len(q) - n) : b[j] = q[n + j]
  BY <1>1
<1>4. RemoveAt(q, n) = a \o b
  BY DEF RemoveAt
<1> HIDE DEF a, b
<1>5. a \o b \in Seq(Client) /\ Len(a \o b) = Len(q) - 1
  BY <1>1, <1>2, <1>3
<1>6. ASSUME NEW j \in 1..(Len(q) - 1)
      PROVE  (a \o b)[j] = IF j < n THEN q[j] ELSE q[j + 1]
  <2>1. (a \o b)[j] = IF j <= Len(a) THEN a[j] ELSE b[j - Len(a)]
    BY <1>1, <1>2, <1>3
  <2>2. CASE j < n
    BY <2>1, <2>2, <1>1, <1>2
  <2>3. CASE ~(j < n)
    <3>1. j - (n - 1) \in 1..(Len(q) - n) /\ n + (j - (n - 1)) = j + 1
      BY <1>1, <2>3
    <3>2. b[j - (n - 1)] = q[j + 1]
      BY <1>3, <3>1
    <3> QED
      BY <2>1, <2>3, <3>2, <1>1, <1>2
  <2> QED
    BY <2>2, <2>3
<1> QED
  BY <1>4, <1>5, <1>6 DEF Removed

\* So does Tail, the first one.
LEMMA TailIsRemoved ==
    ASSUME NEW q \in Seq(Client), q # <<>>
    PROVE  1 \in DOMAIN q /\ Head(q) = q[1] /\ Removed(q, 1, Tail(q))
  BY DEF Removed

-----------------------------------------------------------------------------
\* Only the call c moved on.
OthersStay(c) ==
    \A d \in Client : d # c =>
        /\ stage'[d] = stage[d] /\ item'[d] = item[d] /\ key'[d] = key[d]
        /\ raw'[d] = raw[d] /\ data'[d] = data[d]

\* c has no reply on its way any more; a write whose echo was behind others
\* leaves its register in doubt.
Leaves(c) ==
    \/ ~Contains(replies, c) /\ replies' = replies
    \/ \E n \in DOMAIN replies :
          /\ replies[n] = c /\ Removed(replies, n, replies')
          /\ n = 1 \/ (stage[c] = "write" => item[c].reg \in unsure')

\* A call that moves on without a reply keeps what is known of the replies.
LEMMA LeavingKeepsReplies ==
    ASSUME TypeOK, RepliesInv, AnswersInv, NEW c \in Client,
           OthersStay(c), Leaves(c), dev' = dev, unsure \subseteq unsure'
    PROVE  RepliesInv' /\ AnswersInv' /\ ~Contains(replies', c)
<1> USE DEF OthersStay
<1>0. replies \in Seq(Client) /\ DOMAIN replies = 1..Len(replies) /\ Len(replies) \in Nat
  BY LenProperties DEF TypeOK
<1>1. CASE ~Contains(replies, c) /\ replies' = replies
  <2>1. \A i \in DOMAIN replies : replies[i] \in Client /\ replies[i] # c
    BY <1>0, <1>1 DEF Contains
  <2>2. RepliesInv'
    BY <2>1, <1>1 DEF RepliesInv
  <2>3. \A i \in DOMAIN replies : \A r : Overtaken(i, r) => Overtaken(i, r)'
    BY <2>1, <1>1 DEF Overtaken
  <2>4. AnswersInv'
    BY <2>1, <2>3, <1>1 DEF AnswersInv
  <2> QED
    BY <2>2, <2>4, <1>1
<1>2. ASSUME NEW n \in DOMAIN replies, replies[n] = c, Removed(replies, n, replies'),
             n = 1 \/ (stage[c] = "write" => item[c].reg \in unsure')
      PROVE  RepliesInv' /\ AnswersInv' /\ ~Contains(replies', c)
  <2> DEFINE at(j) == IF j < n THEN j ELSE j + 1
  <2>1. /\ replies' \in Seq(Client) /\ DOMAIN replies' = 1..(Len(replies) - 1)
        /\ Len(replies') = Len(replies) - 1
    BY <1>0, <1>2 DEF Removed
  <2>2. ASSUME NEW j \in DOMAIN replies'
        PROVE  /\ at(j) \in DOMAIN replies /\ at(j) # n
               /\ replies'[j] = replies[at(j)]
               /\ replies'[j] \in Client /\ replies'[j] # c
    <3>1. j \in 1..(Len(replies) - 1) /\ n \in 1..Len(replies)
      BY <1>0, <2>1
    <3>2. at(j) \in DOMAIN replies /\ at(j) # n
      BY <1>0, <3>1
    <3>3. replies'[j] = replies[at(j)]
      BY <1>2, <3>1 DEF Removed
    <3>4. replies[at(j)] \in Client
      BY <1>0, <3>2
    <3>5. replies[at(j)] # c
      BY <3>2, <1>2 DEF RepliesInv
    <3> QED
      BY <3>2, <3>3, <3>4, <3>5
  <2>3. RepliesInv'
    <3>1. ASSUME NEW i \in DOMAIN replies', NEW j \in DOMAIN replies',
                 replies'[i] = replies'[j]
          PROVE  i = j
      <4>1. at(i) = at(j)
        BY <2>2, <3>1 DEF RepliesInv
      <4>2. i \in Nat /\ j \in Nat /\ n \in Nat
        BY <1>0, <2>1
      <4> QED
        BY <4>1, <4>2
    <3>2. ASSUME NEW i \in DOMAIN replies'
          PROVE  /\ stage'[replies'[i]] # "idle"
                 /\ stage'[replies'[i]] \in Fetching =>
                       data'[replies'[i]] \in [Served[key'[replies'[i]]] -> Raw]
      <4> HIDE DEF at
      <4> QED
        BY <2>2 DEF RepliesInv
    <3> QED
      BY <3>1, <3>2 DEF RepliesInv
  <2>4. ASSUME NEW i \in DOMAIN replies', NEW r, Overtaken(at(i), r)
        PROVE  Overtaken(i, r)' \/ r \in unsure'
    <3>1. PICK j \in DOMAIN replies : /\ j > at(i) /\ stage[replies[j]] = "write"
                                      /\ item[replies[j]].reg = r
      BY <2>4 DEF Overtaken
    <3>2. CASE j = n
      <4>1. n # 1
        BY <3>1, <3>2, <1>0, <2>1
      <4> QED
        BY <4>1, <3>1, <3>2, <1>2
    <3>3. CASE j # n
      <4> DEFINE m == IF j < n THEN j ELSE j - 1
      <4>1. /\ i \in 1..(Len(replies) - 1) /\ j \in 1..Len(replies)
            /\ n \in 1..Len(replies)
        BY <1>0, <2>1
      <4>2. m \in 1..(Len(replies) - 1) /\ m > i /\ at(m) = j
        BY <1>0, <4>1, <3>1, <3>3
      <4> HIDE DEF m, at
      <4>3. m \in DOMAIN replies' /\ replies'[m] = replies[j] /\ replies[j] \in Client
            /\ replies[j] # c
        BY <4>2, <2>1, <2>2
      <4>4. stage'[replies'[m]] = "write" /\ item'[replies'[m]].reg = r
        BY <4>3, <3>1
      <4> QED
        BY <4>2, <4>3, <4>4 DEF Overtaken
    <3> QED
      BY <3>2, <3>3
  <2>5. AnswersInv'
    <3> HIDE DEF at
    <3> SUFFICES ASSUME NEW i \in DOMAIN replies'
                 PROVE  /\ stage'[replies'[i]] = "write" =>
                              \/ raw'[replies'[i]] = dev'[item'[replies'[i]].reg]
                              \/ item'[replies'[i]].reg \in unsure'
                              \/ Overtaken(i, item[replies[i]].reg)'
                        /\ stage'[replies'[i]] \in Fetching =>
                              \A r \in Served[key'[replies'[i]]] :
                                  \/ data'[replies'[i]][r] = dev'[r]
                                  \/ r \in unsure'
                                  \/ Overtaken(i, r)'
      BY DEF AnswersInv
    <3>1. /\ stage'[replies'[i]] = stage[replies[at(i)]]
          /\ item'[replies'[i]] = item[replies[at(i)]]
          /\ key'[replies'[i]] = key[replies[at(i)]]
          /\ raw'[replies'[i]] = raw[replies[at(i)]]
          /\ data'[replies'[i]] = data[replies[at(i)]]
          /\ at(i) \in DOMAIN replies
      BY <2>2
    <3>2. stage'[replies'[i]] = "write" =>
             \/ raw'[replies'[i]] = dev'[item'[replies'[i]].reg]
             \/ item'[replies'[i]].reg \in unsure'
             \/ Overtaken(at(i), item[replies[at(i)]].reg)
      BY <3>1 DEF AnswersInv
    <3>3. stage'[replies'[i]] \in Fetching =>
             \A r \in Served[key'[replies'[i]]] :
                 \/ data'[replies'[i]][r] = dev'[r]
                 \/ r \in unsure'
                 \/ Overtaken(at(i), r)
      BY <3>1 DEF AnswersInv
    <3>4. Overtaken(at(i), item[replies[at(i)]].reg) =>
             \/ Overtaken(i, item[replies[i]].reg)'
             \/ item'[replies'[i]].reg \in unsure'
      BY <2>4, <3>1
    <3> QED
      BY <3>2, <3>3, <3>4, <2>4
  <2>6. ~Contains(replies', c)
    <3> HIDE DEF at
    <3> QED
      BY <2>1, <2>2 DEF Contains
  <2> QED
    BY <2>3, <2>5, <2>6
<1> QED
  BY <1>1, <1>2 DEF Leaves

-----------------------------------------------------------------------------
\* The payload of a key.
LEMMA PayloadType ==
    ASSUME NEW k \in Ranges, NEW p \in [Served[k] -> Raw]
    PROVE  p \in Payload /\ p # None
  BY RangeAssumption DEF Payload

\* A call that returns.
LEMMA FinishTypes ==
    ASSUME TypeOK, CallInv, NEW c \in Client, Finish(c)
    PROVE  /\ stage' \in [Client -> Fetching \cup {"idle", "write"}]
           /\ item' \in [Client -> Item \cup {None}] /\ bits' \in [Client -> Bit]
           /\ key' \in [Client -> Ranges \cup {None}] /\ raw' \in [Client -> Raw]
           /\ data' \in [Client -> Payload \cup {None}]
           /\ CallInv' /\ OthersStay(c) /\ stage'[c] = "idle" /\ crossed' \subseteq Client
<1>1. 0 \in Bit /\ All(0) \in Raw
  BY RawType DEF Bit
<1>2. /\ stage' \in [Client -> Fetching \cup {"idle", "write"}]
      /\ item' \in [Client -> Item \cup {None}] /\ bits' \in [Client -> Bit]
      /\ key' \in [Client -> Ranges \cup {None}] /\ raw' \in [Client -> Raw]
      /\ data' \in [Client -> Payload \cup {None}]
  BY <1>1 DEF TypeOK, Finish
<1>3. OthersStay(c) /\ stage'[c] = "idle" /\ crossed' \subseteq Client
  BY DEF TypeOK, Finish, OthersStay
<1>4. CallInv'
  BY <1>3 DEF CallInv, OthersStay, Fetching
<1> QED
  BY <1>2, <1>3, <1>4

\* A call that awaits a range.
LEMMA FetchTypes ==
    ASSUME TypeOK, NEW c \in Client, NEW st \in Fetching, NEW k \in Ranges,
           Fetch(c, st, k)
    PROVE  /\ stage' \in [Client -> Fetching \cup {"idle", "write"}]
           /\ key' \in [Client -> Ranges \cup {None}]
           /\ data' \in [Client -> Payload \cup {None}]
           /\ stage' = [stage EXCEPT ![c] = st] /\ key' = [key EXCEPT ![c] = k]
           /\ \A d \in Client : d # c => data'[d] = data[d]
  BY DEF TypeOK, Fetch

\* A call that sends its write.
LEMMA SendWriteTypes ==
    ASSUME TypeOK, NEW c \in Client, NEW v \in Raw, SendWrite(c, v)
    PROVE  /\ stage' \in [Client -> Fetching \cup {"idle", "write"}]
           /\ key' \in [Client -> Ranges \cup {None}]
           /\ raw' \in [Client -> Raw]
           /\ data' \in [Client -> Payload \cup {None}]
           /\ stage'[c] = "write" /\ raw'[c] = v
           /\ \A d \in Client : d # c => /\ stage'[d] = stage[d] /\ raw'[d] = raw[d]
                                         /\ key'[d] = key[d] /\ data'[d] = data[d]
  BY DEF TypeOK, SendWrite

\* The first reply.
LEMMA HeadFacts ==
    ASSUME TypeOK, RepliesInv, NEW c \in Client, replies # <<>>, Head(replies) = c
    PROVE  /\ 1 \in DOMAIN replies /\ replies[1] = c
           /\ Removed(replies, 1, Tail(replies)) /\ Tail(replies) \in Seq(Client)
           /\ stage[c] # "idle"
           /\ stage[c] \in Fetching => data[c] \in [Served[key[c]] -> Raw]
<1>1. replies \in Seq(Client)
  BY DEF TypeOK
<1>2. 1 \in DOMAIN replies /\ replies[1] = c /\ Removed(replies, 1, Tail(replies))
  BY <1>1, TailIsRemoved
<1> QED
  BY <1>2 DEF RepliesInv, Removed

-----------------------------------------------------------------------------
\* The part of the invariant that speaks of no reply.
Shape == TypeOK /\ CallInv /\ CacheShape /\ LateInv

\* ReadRange keeps the types, what calls work on and the payloads.
LEMMA ReadRangeShape ==
    ASSUME Base, NEW c \in Client, NEW k \in Ranges, ReadRange(c, k)
    PROVE  Shape' /\ OthersStay(c)
<1> USE DEF Base
<1>1. /\ stage[c] = "idle" /\ Fetch(c, "read", k)
      /\ UNCHANGED <<dev, cache, item, bits, raw, replies, late, unsure, missed, crossed>>
  BY DEF ReadRange
<1>2. /\ stage' \in [Client -> Fetching \cup {"idle", "write"}]
      /\ key' \in [Client -> Ranges \cup {None}]
      /\ data' \in [Client -> Payload \cup {None}]
      /\ stage' = [stage EXCEPT ![c] = "read"] /\ key' = [key EXCEPT ![c] = k]
      /\ \A d \in Client : d # c => data'[d] = data[d]
  BY <1>1, FetchTypes, "read" \in Fetching DEF Fetching
<1>3. TypeOK'
  BY <1>1, <1>2 DEF TypeOK
<1>4. OthersStay(c) /\ stage'[c] = "read" /\ key'[c] = k
  BY <1>1, <1>2 DEF OthersStay, TypeOK
<1>5. CallInv'
  BY <1>1, <1>4 DEF CallInv, OthersStay
<1> QED
  BY <1>1, <1>3, <1>4, <1>5 DEF Shape, CacheShape, LateInv

\* WriteItem keeps the types, what calls work on and the payloads.
LEMMA WriteItemShape ==
    ASSUME Base, NEW c \in Client, NEW i \in Item, NEW b \in Bit, WriteItem(c, i, b)
    PROVE  Shape' /\ OthersStay(c)
<1> USE DEF Base
<1> DEFINE base == BaseCached(i.reg)
<1> USE DEF BaseCached
<1>1. /\ stage[c] = "idle" /\ i \in May[c]
      /\ item' = [item EXCEPT ![c] = i] /\ bits' = [bits EXCEPT ![c] = b]
      /\ UNCHANGED <<dev, cache, replies, late, unsure, missed>>
      /\ crossed' = crossed \/ crossed' = crossed \cup {c}
  BY DEF WriteItem
<1> SUFFICES TypeOK' /\ CallInv' /\ OthersStay(c)
  BY <1>1 DEF Shape, CacheShape, LateInv
<1>2. i.reg \in Reg /\ Block[i.reg] \in Ranges
  BY <1>1, ItemType
<1>3. /\ dev' \in [Reg -> Raw] /\ cache' \in [Ranges -> Payload \cup {None}]
      /\ item' \in [Client -> Item \cup {None}] /\ bits' \in [Client -> Bit]
      /\ replies' \in Seq(Client) /\ late' \subseteq [reg : Reg, raw : Raw]
      /\ unsure' \subseteq Reg /\ item'[c] = i
      /\ missed' \in [Ranges -> SUBSET Reg] /\ crossed' \subseteq Client
      /\ \A d \in Client : d # c => item'[d] = item[d]
  BY <1>1 DEF TypeOK
<1>4. ASSUME NEW v \in Raw, SendWrite(c, v)
      PROVE  TypeOK' /\ CallInv' /\ OthersStay(c)
  <2>1. /\ stage' \in [Client -> Fetching \cup {"idle", "write"}]
        /\ key' \in [Client -> Ranges \cup {None}]
        /\ raw' \in [Client -> Raw]
        /\ data' \in [Client -> Payload \cup {None}]
        /\ stage'[c] = "write" /\ raw'[c] = v
        /\ \A d \in Client : d # c => /\ stage'[d] = stage[d] /\ raw'[d] = raw[d]
                                      /\ key'[d] = key[d] /\ data'[d] = data[d]
    BY <1>4, SendWriteTypes
  <2>2. TypeOK'
    BY <1>3, <2>1 DEF TypeOK
  <2>3. OthersStay(c)
    BY <1>3, <2>1 DEF OthersStay
  <2>4. CallInv'
    BY <1>1, <1>3, <2>1, <2>3 DEF CallInv, OthersStay, Fetching
  <2> QED
    BY <2>2, <2>3, <2>4
<1>5. CASE i.mask = Field /\ SendWrite(c, All(b))
  BY <1>4, <1>5, RawType
<1>6. CASE base # None /\ i.reg \in DOMAIN base /\ SendWrite(c, Merge(i, base[i.reg], b))
  <2>1. base[i.reg] \in Raw
    BY <1>2, <1>6 DEF CacheShape
  <2>2. Merge(i, base[i.reg], b) \in Raw
    BY <2>1, RawType
  <2> QED
    BY <1>4, <1>6, <2>2
<1>7. CASE Fetch(c, "base", Block[i.reg]) /\ UNCHANGED raw
  <2>1. /\ stage' \in [Client -> Fetching \cup {"idle", "write"}]
        /\ key' \in [Client -> Ranges \cup {None}]
        /\ data' \in [Client -> Payload \cup {None}]
        /\ stage' = [stage EXCEPT ![c] = "base"]
        /\ key' = [key EXCEPT ![c] = Block[i.reg]]
        /\ \A d \in Client : d # c => data'[d] = data[d]
    BY <1>2, <1>7, FetchTypes, "base" \in Fetching DEF Fetching
  <2>2. TypeOK'
    BY <1>3, <1>7, <2>1 DEF TypeOK
  <2>3. OthersStay(c) /\ stage'[c] = "base" /\ key'[c] = Block[i.reg]
    BY <1>3, <1>7, <2>1 DEF OthersStay, TypeOK
  <2>4. CallInv'
    BY <1>1, <1>2, <1>3, <2>3 DEF CallInv, OthersStay
  <2> QED
    BY <2>2, <2>3, <2>4
<1> QED
  BY <1>5, <1>6, <1>7 DEF WriteItem

\* Execute keeps the types, what calls work on and the payloads.
LEMMA ExecuteShape ==
    ASSUME Base, NEW c \in Client, Execute(c)
    PROVE  Shape'
<1> USE DEF Base
<1>1. /\ stage[c] # "idle" /\ replies' = Append(replies, c)
      /\ UNCHANGED <<cache, stage, item, bits, key, raw, late, unsure, missed>>
      /\ crossed' \subseteq crossed \cup Client
  BY DEF Execute, StartedFrom
<1>2. replies' \in Seq(Client)
  BY <1>1 DEF TypeOK
<1>3. dev' \in [Reg -> Raw] /\ data' \in [Client -> Payload \cup {None}]
  <2>1. CASE stage[c] \in Fetching
    <3>1. /\ data' = [data EXCEPT ![c] = [r \in Served[key[c]] |-> dev[r]]]
          /\ UNCHANGED dev
      BY <2>1 DEF Execute
    <3>2. key[c] \in Ranges /\ Served[key[c]] \subseteq Reg
      BY <2>1, RangeAssumption DEF CallInv
    <3>3. [r \in Served[key[c]] |-> dev[r]] \in [Served[key[c]] -> Raw]
      BY <3>2 DEF TypeOK
    <3>4. [r \in Served[key[c]] |-> dev[r]] \in Payload
      BY <3>2, <3>3, PayloadType
    <3> QED
      BY <3>1, <3>4 DEF TypeOK
  <2>2. CASE stage[c] \notin Fetching
    <3>1. stage[c] = "write"
      BY <1>1, <2>2 DEF TypeOK
    <3>2. item[c].reg \in Reg
      BY <3>1, ItemType DEF CallInv
    <3> QED
      BY <2>2, <3>2 DEF Execute, TypeOK
  <2> QED
    BY <2>1, <2>2
<1>4. TypeOK'
  BY <1>1, <1>2, <1>3 DEF TypeOK
<1> QED
  BY <1>1, <1>4 DEF Shape, CallInv, CacheShape, LateInv

\* Fetched keeps the types, what calls work on and the payloads.
LEMMA FetchedShape ==
    ASSUME Base, NEW c \in Client, Fetched(c)
    PROVE  Shape' /\ OthersStay(c)
<1> USE DEF Base
<1>1. /\ replies # <<>> /\ Head(replies) = c /\ stage[c] \in Fetching
      /\ replies' = Tail(replies) /\ cache' = [cache EXCEPT ![key[c]] = data[c]]
      /\ UNCHANGED <<dev, late, unsure>>
  BY DEF Fetched
<1>2. replies' \in Seq(Client) /\ data[c] \in [Served[key[c]] -> Raw]
  BY <1>1, HeadFacts
<1>3. key[c] \in Ranges
  BY <1>1 DEF CallInv
<1>4. data[c] \in Payload
  BY <1>2, <1>3, PayloadType
<1>5. cache' \in [Ranges -> Payload \cup {None}] /\ CacheShape'
  BY <1>1, <1>2, <1>3, <1>4 DEF TypeOK, CacheShape
<1>6. /\ dev' \in [Reg -> Raw] /\ late' \subseteq [reg : Reg, raw : Raw]
      /\ unsure' \subseteq Reg /\ LateInv'
  BY <1>1 DEF TypeOK, LateInv
<1>9. missed' \in [Ranges -> SUBSET Reg]
  <2>1. \A k \in Ranges : LeftBehind(c, k) \subseteq Reg
    <3>1. stage[c] = "verify" => item[c].reg \in Reg
      BY ItemType DEF CallInv
    <3> QED
      BY <3>1 DEF LeftBehind
  <2>2. missed' = [k \in Ranges |-> IF k = key[c] THEN {}
                                   ELSE missed[k] \cup LeftBehind(c, k)]
    BY DEF Fetched
  <2> QED
    BY <2>1, <2>2 DEF TypeOK
<1> SUFFICES TypeOK' /\ CallInv' /\ OthersStay(c)
  BY <1>5, <1>6 DEF Shape
<1>7. CASE Finish(c)
  <2>1. /\ stage' \in [Client -> Fetching \cup {"idle", "write"}]
        /\ item' \in [Client -> Item \cup {None}] /\ bits' \in [Client -> Bit]
        /\ key' \in [Client -> Ranges \cup {None}] /\ raw' \in [Client -> Raw]
        /\ data' \in [Client -> Payload \cup {None}]
        /\ CallInv' /\ OthersStay(c) /\ crossed' \subseteq Client
    BY <1>7, FinishTypes
  <2> QED
    BY <2>1, <1>2, <1>5, <1>6, <1>9 DEF TypeOK
<1>8. CASE /\ stage[c] = "base" /\ item[c].reg \in DOMAIN data[c]
           /\ SendWrite(c, Merge(item[c], data[c][item[c].reg], bits[c]))
           /\ UNCHANGED <<item, bits, crossed>>
  <2> DEFINE v == Merge(item[c], data[c][item[c].reg], bits[c])
  <2>1. item[c] \in May[c] /\ bits[c] \in Bit /\ data[c][item[c].reg] \in Raw
    BY <1>2, <1>8 DEF CallInv, TypeOK
  <2>2. v \in Raw
    BY <2>1, ItemType, RawType
  <2>3. /\ stage' \in [Client -> Fetching \cup {"idle", "write"}]
        /\ key' \in [Client -> Ranges \cup {None}]
        /\ raw' \in [Client -> Raw]
        /\ data' \in [Client -> Payload \cup {None}]
        /\ stage'[c] = "write"
        /\ \A d \in Client : d # c => /\ stage'[d] = stage[d] /\ raw'[d] = raw[d]
                                      /\ key'[d] = key[d] /\ data'[d] = data[d]
    BY <1>8, <2>2, SendWriteTypes
  <2>4. TypeOK'
    BY <1>2, <1>5, <1>6, <1>8, <1>9, <2>3 DEF TypeOK
  <2>5. OthersStay(c)
    BY <1>8, <2>3 DEF OthersStay
  <2>6. CallInv'
    BY <1>8, <2>1, <2>3, <2>5 DEF CallInv, OthersStay, Fetching
  <2> QED
    BY <2>4, <2>5, <2>6
<1> QED
  BY <1>7, <1>8 DEF Fetched

\* What an answered write leaves of the cache.
LEMMA PatchedFacts ==
    ASSUME TypeOK, CacheShape, NEW r \in Reg, NEW v \in Raw
    PROVE  /\ Patched(r, v) \in [Ranges -> Payload \cup {None}]
           /\ \A k \in Ranges :
                 Patched(r, v)[k] # None =>
                     /\ Patched(r, v)[k] \in [Served[k] -> Raw]
                     /\ cache[k] # None
                     /\ r \in Served[k] => Patched(r, v)[k][r] = v
                     /\ \A s \in Served[k] : s # r =>
                           Patched(r, v)[k][s] = cache[k][s]
<1>1. ASSUME NEW k \in Ranges, Patched(r, v)[k] # None
      PROVE  /\ Patched(r, v)[k] \in [Served[k] -> Raw]
             /\ cache[k] # None
             /\ r \in Served[k] => Patched(r, v)[k][r] = v
             /\ \A s \in Served[k] : s # r => Patched(r, v)[k][s] = cache[k][s]
  <2>1. Served[k] \subseteq k
    BY RangeAssumption
  <2>2. CASE cache[k] = None
    BY <1>1, <2>2 DEF Patched
  <2>3. CASE cache[k] # None /\ r \notin k
    <3>1. Patched(r, v)[k] = cache[k]
      BY <2>3 DEF Patched
    <3> QED
      BY <2>1, <2>3, <3>1 DEF CacheShape
  <2>4. CASE cache[k] # None /\ r \in k
    <3>1. cache[k] \in [Served[k] -> Raw]
      BY <2>4 DEF CacheShape
    <3>2. r \in DOMAIN cache[k]
      BY <1>1, <2>4 DEF Patched
    <3>3. Patched(r, v)[k] = [cache[k] EXCEPT ![r] = v]
      BY <2>4, <3>2 DEF Patched
    <3> QED
      BY <2>4, <3>1, <3>2, <3>3
  <2> QED
    BY <2>2, <2>3, <2>4
<1>2. ASSUME NEW k \in Ranges
      PROVE  Patched(r, v)[k] \in Payload \cup {None}
  BY <1>1, PayloadType
<1>3. Patched(r, v) = [k \in Ranges |-> Patched(r, v)[k]]
  BY DEF Patched
<1> QED
  BY <1>1, <1>2, <1>3

\* Echoed keeps the types, what calls work on and the payloads.
LEMMA EchoedShape ==
    ASSUME Base, NEW c \in Client, Echoed(c)
    PROVE  Shape' /\ OthersStay(c)
<1> USE DEF Base
<1>1. /\ replies # <<>> /\ Head(replies) = c /\ stage[c] = "write"
      /\ replies' = Tail(replies) /\ UNCHANGED <<dev, late, unsure>>
  BY DEF Echoed
<1>2. replies' \in Seq(Client)
  BY <1>1, HeadFacts
<1>3. /\ item[c] \in May[c] /\ item[c].reg \in Reg /\ raw[c] \in Raw
      /\ Block[item[c].reg] \in Ranges
  BY <1>1, ItemType DEF CallInv, TypeOK
<1>4. /\ dev' \in [Reg -> Raw] /\ late' \subseteq [reg : Reg, raw : Raw]
      /\ unsure' \subseteq Reg /\ LateInv'
  BY <1>1 DEF TypeOK, LateInv
<1>5. CASE item[c].verify
  <2>1. /\ Fetch(c, "verify", Block[item[c].reg])
        /\ UNCHANGED <<cache, item, bits, raw, missed, crossed>>
    BY <1>5 DEF Echoed
  <2>2. /\ stage' \in [Client -> Fetching \cup {"idle", "write"}]
        /\ key' \in [Client -> Ranges \cup {None}]
        /\ data' \in [Client -> Payload \cup {None}]
        /\ stage' = [stage EXCEPT ![c] = "verify"]
        /\ key' = [key EXCEPT ![c] = Block[item[c].reg]]
        /\ \A d \in Client : d # c => data'[d] = data[d]
    BY <1>3, <2>1, FetchTypes, "verify" \in Fetching DEF Fetching
  <2>3. TypeOK'
    BY <1>2, <1>4, <2>1, <2>2 DEF TypeOK
  <2>4. OthersStay(c) /\ stage'[c] = "verify" /\ key'[c] = Block[item[c].reg]
    BY <2>1, <2>2 DEF OthersStay, TypeOK
  <2>5. CallInv'
    BY <1>3, <1>5, <2>1, <2>4 DEF CallInv, OthersStay
  <2>6. CacheShape'
    BY <2>1 DEF CacheShape
  <2> QED
    BY <1>4, <2>3, <2>4, <2>5, <2>6 DEF Shape
<1>6. CASE ~item[c].verify
  <2>1. /\ cache' = Patched(item[c].reg, raw[c]) /\ Finish(c)
        /\ missed' = [k \in Ranges |-> missed[k] \ {item[c].reg}]
    BY <1>6 DEF Echoed
  <2>2. cache' \in [Ranges -> Payload \cup {None}] /\ CacheShape'
    BY <1>3, <2>1, PatchedFacts DEF CacheShape
  <2>3. /\ stage' \in [Client -> Fetching \cup {"idle", "write"}]
        /\ item' \in [Client -> Item \cup {None}] /\ bits' \in [Client -> Bit]
        /\ key' \in [Client -> Ranges \cup {None}] /\ raw' \in [Client -> Raw]
        /\ data' \in [Client -> Payload \cup {None}]
        /\ CallInv' /\ OthersStay(c) /\ crossed' \subseteq Client
    BY <2>1, FinishTypes
  <2>4. missed' \in [Ranges -> SUBSET Reg]
    BY <2>1 DEF TypeOK
  <2>5. TypeOK'
    BY <1>2, <1>4, <2>2, <2>3, <2>4 DEF TypeOK
  <2> QED
    BY <1>4, <2>2, <2>3, <2>5 DEF Shape
<1> QED
  BY <1>5, <1>6

\* Fail keeps the types, what calls work on and the payloads.
LEMMA FailShape ==
    ASSUME Base, NEW c \in Client, Fail(c)
    PROVE  /\ Shape' /\ OthersStay(c) /\ unsure \subseteq unsure'
           /\ stage[c] \in {"write", "verify"} => item[c].reg \in unsure'
<1> USE DEF Base
<1>1. stage[c] # "idle" /\ Finish(c) /\ UNCHANGED <<dev, cache, missed>>
  BY DEF Fail
<1>2. replies' \in Seq(Client)
  <2>1. replies \in Seq(Client)
    BY DEF TypeOK
  <2>2. ASSUME NEW n \in DOMAIN replies PROVE RemoveAt(replies, n) \in Seq(Client)
    BY <2>1, RemoveAtIsRemoved DEF Removed
  <2> QED
    BY <2>1, <2>2 DEF Fail
<1>3. stage[c] \in {"write", "verify"} => item[c].reg \in Reg
  BY ItemType DEF CallInv
<1>4. /\ unsure' \subseteq Reg /\ unsure \subseteq unsure'
      /\ stage[c] \in {"write", "verify"} => item[c].reg \in unsure'
  BY <1>3 DEF Fail, TypeOK
<1>5. late' \subseteq [reg : Reg, raw : Raw] /\ LateInv'
  <2>1. CASE stage[c] = "write" /\ ~Contains(replies, c)
    <3>1. late' = late \cup {[reg |-> item[c].reg, raw |-> raw[c]]}
      BY <2>1 DEF Fail
    <3>2. raw[c] \in Raw
      BY DEF TypeOK
    <3>3. [reg |-> item[c].reg, raw |-> raw[c]] \in [reg : Reg, raw : Raw]
      BY <1>3, <2>1, <3>2
    <3> QED
      BY <1>4, <2>1, <3>1, <3>3 DEF TypeOK, LateInv
  <2>2. CASE ~(stage[c] = "write" /\ ~Contains(replies, c))
    <3>1. late' = late
      BY <2>2 DEF Fail
    <3> QED
      BY <1>4, <3>1 DEF TypeOK, LateInv
  <2> QED
    BY <2>1, <2>2
<1>6. /\ stage' \in [Client -> Fetching \cup {"idle", "write"}]
      /\ item' \in [Client -> Item \cup {None}] /\ bits' \in [Client -> Bit]
      /\ key' \in [Client -> Ranges \cup {None}] /\ raw' \in [Client -> Raw]
      /\ data' \in [Client -> Payload \cup {None}]
      /\ CallInv' /\ OthersStay(c) /\ crossed' \subseteq Client
  BY <1>1, FinishTypes
<1>7. TypeOK' /\ CacheShape'
  BY <1>1, <1>2, <1>4, <1>5, <1>6 DEF TypeOK, CacheShape
<1> QED
  BY <1>4, <1>5, <1>6, <1>7 DEF Shape

\* LateExecute keeps the types, what calls work on and the payloads.
LEMMA LateExecuteShape ==
    ASSUME Base, NEW w \in late, LateExecute(w)
    PROVE  Shape' /\ w.reg \in unsure
<1> USE DEF Base
<1>1. w.reg \in Reg /\ w.raw \in Raw /\ w.reg \in unsure
  BY DEF TypeOK, LateInv
<1>2. /\ dev' = [dev EXCEPT ![w.reg] = w.raw] /\ late' = late \ {w}
      /\ UNCHANGED <<cache, stage, item, bits, key, raw, data, replies, unsure,
                     missed, crossed>>
  BY DEF LateExecute
<1>3. TypeOK'
  BY <1>1, <1>2 DEF TypeOK
<1> QED
  BY <1>1, <1>2, <1>3 DEF Shape, CallInv, CacheShape, LateInv

\* Expire keeps the types, what calls work on and the payloads.
LEMMA ExpireShape ==
    ASSUME Base, NEW k \in Ranges, Expire(k)
    PROVE  Shape'
<1> USE DEF Base
<1>1. /\ cache' = [cache EXCEPT ![k] = None] /\ missed' = [missed EXCEPT ![k] = {}]
      /\ UNCHANGED <<dev, stage, item, bits, key, raw, data, replies, late, unsure, crossed>>
  BY DEF Expire
<1>2. TypeOK' /\ CacheShape'
  BY <1>1 DEF TypeOK, CacheShape
<1> QED
  BY <1>1, <1>2 DEF Shape, CallInv, LateInv

-----------------------------------------------------------------------------
\* The way a call leaves the replies in each action.
LEMMA IdleLeaves ==
    ASSUME TypeOK, RepliesInv, NEW c \in Client, stage[c] = "idle"
    PROVE  ~Contains(replies, c)
  BY DEF TypeOK, RepliesInv, Contains

\* The first reply leaves the queue when its call takes it.
LEMMA HeadLeaves ==
    ASSUME TypeOK, RepliesInv, NEW c \in Client, replies # <<>>, Head(replies) = c,
           replies' = Tail(replies)
    PROVE  Leaves(c)
  BY HeadFacts DEF Leaves

\* A reply that is dropped with its call leaves the others as they are.
LEMMA FailLeaves ==
    ASSUME Base, NEW c \in Client, Fail(c)
    PROVE  Leaves(c)
<1>1. replies \in Seq(Client)
  BY DEF Base, TypeOK
<1>2. stage[c] = "write" => item[c].reg \in unsure'
  BY FailShape
<1>3. CASE ~Contains(replies, c) /\ UNCHANGED replies
  BY <1>3 DEF Leaves
<1>4. CASE \E n \in DOMAIN replies : replies[n] = c /\ replies' = RemoveAt(replies, n)
  <2>1. PICK n \in DOMAIN replies : replies[n] = c /\ replies' = RemoveAt(replies, n)
    BY <1>4
  <2>2. Removed(replies, n, replies')
    BY <1>1, <2>1, RemoveAtIsRemoved
  <2> QED
    BY <1>2, <2>1, <2>2 DEF Leaves
<1> QED
  BY <1>3, <1>4 DEF Fail

\* An executed call joins the replies as the newest of them.
LEMMA ExecuteReplies ==
    ASSUME Base, NEW c \in Client, Execute(c)
    PROVE  /\ RepliesInv' /\ AnswersInv'
           /\ \A d \in Client : Contains(replies', d) <=> Contains(replies, d) \/ d = c
<1> USE DEF Base
<1> DEFINE n == Len(replies) + 1
           Later(i, r) == \E j \in DOMAIN replies' : /\ j > i
                                                     /\ stage'[replies'[j]] = "write"
                                                     /\ item'[replies'[j]].reg = r
<1>1. /\ stage[c] # "idle" /\ ~Contains(replies, c) /\ replies' = Append(replies, c)
      /\ UNCHANGED <<cache, stage, item, bits, key, raw, late, unsure>>
  BY DEF Execute
<1>2. /\ replies \in Seq(Client) /\ Len(replies) \in Nat
      /\ DOMAIN replies = 1..Len(replies)
  BY DEF TypeOK
<1>3. /\ DOMAIN replies' = 1..n /\ Len(replies') = n /\ replies'[n] = c
      /\ \A i \in DOMAIN replies : replies'[i] = replies[i] /\ replies[i] # c
                                   /\ replies[i] \in Client
      /\ n \in DOMAIN replies'
  BY <1>1, <1>2 DEF Contains
<1>4. \A i \in DOMAIN replies' : i = n \/ i \in DOMAIN replies
  BY <1>2, <1>3
<1>5. /\ stage[c] \in Fetching =>
            /\ data'[c] = [r \in Served[key[c]] |-> dev[r]] /\ dev' = dev
            /\ key[c] \in Ranges
      /\ stage[c] = "write" =>
            /\ dev' = [dev EXCEPT ![item[c].reg] = raw[c]] /\ data' = data
            /\ item[c].reg \in Reg
      /\ \A d \in Client : d # c => data'[d] = data[d]
      /\ stage[c] \in Fetching \/ stage[c] = "write"
  BY <1>1, ItemType DEF Execute, Fetching, TypeOK, CallInv
<1>6. stage[c] = "write" => stage[c] \notin Fetching
  BY DEF Fetching
<1>7. \A r \in Served[key[c]] : stage[c] \in Fetching => dev[r] \in Raw
  BY <1>5, RangeAssumption DEF TypeOK
<1> HIDE DEF n, Later
<1>8. RepliesInv'
  <2>1. ASSUME NEW i \in DOMAIN replies', NEW j \in DOMAIN replies',
               replies'[i] = replies'[j]
        PROVE  i = j
    BY <1>3, <1>4, <2>1 DEF RepliesInv
  <2>2. ASSUME NEW i \in DOMAIN replies', i # n
        PROVE  /\ stage'[replies'[i]] # "idle"
               /\ stage'[replies'[i]] \in Fetching =>
                     data'[replies'[i]] \in [Served[key'[replies'[i]]] -> Raw]
    BY <1>1, <1>3, <1>4, <1>5, <2>2 DEF RepliesInv
  <2>3. stage[c] \in Fetching => data'[c] \in [Served[key[c]] -> Raw]
    BY <1>5, <1>7
  <2> QED
    BY <1>1, <1>3, <2>1, <2>2, <2>3 DEF RepliesInv
<1>9. ASSUME NEW i \in DOMAIN replies, NEW r, Overtaken(i, r)
      PROVE  Later(i, r)
  <2>1. PICK j \in DOMAIN replies : /\ j > i /\ stage[replies[j]] = "write"
                                    /\ item[replies[j]].reg = r
    BY <1>9 DEF Overtaken
  <2>2. j \in DOMAIN replies' /\ replies'[j] = replies[j]
    BY <1>2, <1>3 DEF n
  <2> QED
    BY <1>1, <2>1, <2>2 DEF Later
<1>10. ASSUME NEW i \in DOMAIN replies, stage[c] = "write"
       PROVE  Later(i, item[c].reg)
  <2>1. n > i /\ n \in DOMAIN replies'
    BY <1>2, <1>3 DEF n
  <2> QED
    BY <1>1, <1>3, <1>10, <2>1 DEF Later
<1>11. AnswersInv'
  <2>1. ASSUME NEW i \in DOMAIN replies
        PROVE  /\ stage[replies[i]] = "write" =>
                     \/ raw[replies[i]] = dev'[item[replies[i]].reg]
                     \/ item[replies[i]].reg \in unsure
                     \/ Later(i, item[replies[i]].reg)
               /\ stage[replies[i]] \in Fetching =>
                     \A r \in Served[key[replies[i]]] :
                         \/ data'[replies[i]][r] = dev'[r]
                         \/ r \in unsure
                         \/ Later(i, r)
    <3>1. \A r \in Reg : dev'[r] = dev[r] \/ Later(i, r)
      <4>1. CASE stage[c] = "write"
        <5>1. \A r \in Reg : r # item[c].reg => dev'[r] = dev[r]
          BY <1>5, <4>1 DEF TypeOK
        <5> QED
          BY <1>10, <4>1, <5>1
      <4>2. CASE stage[c] \in Fetching
        BY <1>5, <4>2
      <4> QED
        BY <1>5, <4>1, <4>2
    <3>2. data'[replies[i]] = data[replies[i]]
      BY <1>3, <1>5
    <3>3. stage[replies[i]] = "write" => item[replies[i]].reg \in Reg
      BY <1>3, ItemType DEF CallInv
    <3>4. ASSUME stage[replies[i]] \in Fetching, NEW r \in Served[key[replies[i]]]
          PROVE  r \in Reg
      BY <1>3, <3>4, RangeAssumption DEF CallInv
    <3>5. stage[replies[i]] = "write" =>
             \/ raw[replies[i]] = dev[item[replies[i]].reg]
             \/ item[replies[i]].reg \in unsure
             \/ Overtaken(i, item[replies[i]].reg)
      BY DEF AnswersInv
    <3>6. stage[replies[i]] \in Fetching =>
             \A r \in Served[key[replies[i]]] :
                 data[replies[i]][r] = dev[r] \/ r \in unsure \/ Overtaken(i, r)
      BY DEF AnswersInv
    <3>7. stage[replies[i]] = "write" =>
             \/ raw[replies[i]] = dev'[item[replies[i]].reg]
             \/ item[replies[i]].reg \in unsure
             \/ Later(i, item[replies[i]].reg)
      BY <1>9, <3>1, <3>3, <3>5
    <3> QED
      BY <1>9, <3>1, <3>2, <3>4, <3>6, <3>7
  <2>2. stage[c] = "write" => raw[c] = dev'[item[c].reg]
    BY <1>5 DEF TypeOK
  <2>3. stage[c] \in Fetching => \A r \in Served[key[c]] : data'[c][r] = dev'[r]
    BY <1>5
  <2>4. ASSUME NEW i \in DOMAIN replies'
        PROVE  /\ stage'[replies'[i]] = "write" =>
                     \/ raw'[replies'[i]] = dev'[item'[replies'[i]].reg]
                     \/ item'[replies'[i]].reg \in unsure'
                     \/ Later(i, item'[replies'[i]].reg)
               /\ stage'[replies'[i]] \in Fetching =>
                     \A r \in Served[key'[replies'[i]]] :
                         \/ data'[replies'[i]][r] = dev'[r]
                         \/ r \in unsure'
                         \/ Later(i, r)
    <3>1. CASE i = n
      BY <1>1, <1>3, <2>2, <2>3, <3>1
    <3>2. CASE i \in DOMAIN replies
      <4>1. /\ replies'[i] = replies[i] /\ stage' = stage /\ item' = item
            /\ raw' = raw /\ key' = key /\ unsure' = unsure
        BY <1>1, <1>3, <3>2
      <4> QED
        BY <2>1, <3>2, <4>1
    <3> QED
      BY <1>4, <3>1, <3>2
  <2> QED
    BY <2>4 DEF AnswersInv, Overtaken, Later
<1>12. \A d \in Client : Contains(replies', d) <=> Contains(replies, d) \/ d = c
  <2>1. ASSUME NEW d \in Client, Contains(replies, d) PROVE Contains(replies', d)
    <3>1. PICK i \in 1..Len(replies) : replies[i] = d
      BY <2>1 DEF Contains
    <3>2. i \in 1..Len(replies') /\ replies'[i] = d
      BY <1>2, <1>3, <3>1 DEF n
    <3> QED
      BY <3>2 DEF Contains
  <2>2. ASSUME NEW d \in Client, Contains(replies', d), d # c PROVE Contains(replies, d)
    <3>1. PICK i \in 1..Len(replies') : replies'[i] = d
      BY <2>2 DEF Contains
    <3>2. i \in 1..Len(replies) /\ replies[i] = d
      BY <1>2, <1>3, <1>4, <3>1, <2>2
    <3> QED
      BY <3>2 DEF Contains
  <2>3. Contains(replies', c)
    BY <1>2, <1>3 DEF Contains, n
  <2> QED
    BY <2>1, <2>2, <2>3
<1> QED
  BY <1>8, <1>11, <1>12

-----------------------------------------------------------------------------
\* The initial states.
LEMMA InitBase == Init => Base
<1> SUFFICES ASSUME Init PROVE Base
  OBVIOUS
<1>1. 0 \in Bit /\ All(0) \in Raw
  BY RawType DEF Bit
<1>2. TypeOK
  BY <1>1 DEF Init, TypeOK
<1>3. CallInv /\ CacheShape /\ LateInv
  BY DEF Init, CallInv, CacheShape, LateInv, Fetching
<1>4. RepliesInv /\ AnswersInv
  BY DEF Init, RepliesInv, AnswersInv
<1> QED
  BY <1>2, <1>3, <1>4 DEF Base

\* A step of one call other than the execution of its frame.
LEMMA LeavingStep ==
    ASSUME Base, NEW c \in Client, Shape', OthersStay(c), Leaves(c), dev' = dev,
           unsure \subseteq unsure'
    PROVE  Base' /\ ~Contains(replies', c)
  BY LeavingKeepsReplies DEF Base, Shape

\* ReadRange keeps the invariant, and only its call moves on.
LEMMA ReadRangeStep ==
    ASSUME Base, NEW c \in Client, NEW k \in Ranges, ReadRange(c, k)
    PROVE  Base' /\ ~Contains(replies', c) /\ OthersStay(c) /\ Leaves(c)
<1>1. Shape' /\ OthersStay(c)
  BY ReadRangeShape
<1>2. dev' = dev /\ unsure \subseteq unsure' /\ replies' = replies /\ stage[c] = "idle"
  BY DEF ReadRange
<1>3. Leaves(c)
  BY <1>2, IdleLeaves DEF Leaves, Base
<1> QED
  BY <1>1, <1>2, <1>3, LeavingStep

\* WriteItem keeps the invariant, and only its call moves on.
LEMMA WriteItemStep ==
    ASSUME Base, NEW c \in Client, NEW i \in Item, NEW b \in Bit, WriteItem(c, i, b)
    PROVE  Base' /\ ~Contains(replies', c) /\ OthersStay(c) /\ Leaves(c)
<1>1. Shape' /\ OthersStay(c)
  BY WriteItemShape
<1>2. dev' = dev /\ unsure \subseteq unsure' /\ replies' = replies /\ stage[c] = "idle"
  BY DEF WriteItem
<1>3. Leaves(c)
  BY <1>2, IdleLeaves DEF Leaves, Base
<1> QED
  BY <1>1, <1>2, <1>3, LeavingStep

\* Fetched keeps the invariant, and only its call moves on.
LEMMA FetchedStep ==
    ASSUME Base, NEW c \in Client, Fetched(c)
    PROVE  Base' /\ ~Contains(replies', c) /\ OthersStay(c) /\ Leaves(c)
<1>1. Shape' /\ OthersStay(c)
  BY FetchedShape
<1>2. /\ dev' = dev /\ unsure \subseteq unsure'
      /\ replies # <<>> /\ Head(replies) = c /\ replies' = Tail(replies)
  BY DEF Fetched
<1>3. Leaves(c)
  BY <1>2, HeadLeaves DEF Base
<1> QED
  BY <1>1, <1>2, <1>3, LeavingStep

\* Echoed keeps the invariant, and only its call moves on.
LEMMA EchoedStep ==
    ASSUME Base, NEW c \in Client, Echoed(c)
    PROVE  Base' /\ ~Contains(replies', c) /\ OthersStay(c) /\ Leaves(c)
<1>1. Shape' /\ OthersStay(c)
  BY EchoedShape
<1>2. /\ dev' = dev /\ unsure \subseteq unsure'
      /\ replies # <<>> /\ Head(replies) = c /\ replies' = Tail(replies)
  BY DEF Echoed
<1>3. Leaves(c)
  BY <1>2, HeadLeaves DEF Base
<1> QED
  BY <1>1, <1>2, <1>3, LeavingStep

\* Fail keeps the invariant, and only its call moves on.
LEMMA FailStep ==
    ASSUME Base, NEW c \in Client, Fail(c)
    PROVE  Base' /\ ~Contains(replies', c) /\ OthersStay(c) /\ Leaves(c)
<1>1. Shape' /\ OthersStay(c) /\ unsure \subseteq unsure'
  BY FailShape
<1>2. dev' = dev
  BY DEF Fail
<1>3. Leaves(c)
  BY FailLeaves
<1> QED
  BY <1>1, <1>2, <1>3, LeavingStep

\* Execute keeps the invariant.
LEMMA ExecuteStep == ASSUME Base, NEW c \in Client, Execute(c) PROVE Base'
  BY ExecuteShape, ExecuteReplies DEF Base, Shape

\* LateExecute keeps the invariant.
LEMMA LateExecuteStep == ASSUME Base, NEW w \in late, LateExecute(w) PROVE Base'
<1>1. Shape' /\ w.reg \in unsure
  BY LateExecuteShape
<1>2. /\ dev' = [dev EXCEPT ![w.reg] = w.raw]
      /\ UNCHANGED <<stage, item, key, raw, data, replies, unsure>>
  BY DEF LateExecute
<1>3. RepliesInv'
  BY <1>2 DEF Base, RepliesInv
<1>4. \A r : r \in unsure \/ dev'[r] = dev[r]
  BY <1>1, <1>2 DEF Base, TypeOK
<1>5. \A i, r : Overtaken(i, r) => Overtaken(i, r)'
  BY <1>2 DEF Overtaken
<1>6. AnswersInv'
  BY <1>2, <1>4, <1>5 DEF Base, AnswersInv, Overtaken
<1> QED
  BY <1>1, <1>3, <1>6 DEF Base, Shape

\* Expire keeps the invariant.
LEMMA ExpireStep == ASSUME Base, NEW k \in Ranges, Expire(k) PROVE Base'
<1>1. Shape'
  BY ExpireShape
<1>2. UNCHANGED <<dev, stage, item, key, raw, data, replies, unsure>>
  BY DEF Expire
<1>3. RepliesInv' /\ AnswersInv'
  BY <1>2 DEF Base, RepliesInv, AnswersInv, Overtaken
<1> QED
  BY <1>1, <1>3 DEF Base, Shape

\* Every step keeps the invariant.
LEMMA BaseStep == Base /\ [Next]_vars => Base'
<1> SUFFICES ASSUME Base, [Next]_vars PROVE Base'
  OBVIOUS
<1>1. ASSUME NEW c \in Client, NEW k \in Ranges, ReadRange(c, k) PROVE Base'
  BY <1>1, ReadRangeStep
<1>2. ASSUME NEW c \in Client, NEW i \in Item, NEW b \in Bit, WriteItem(c, i, b)
      PROVE  Base'
  BY <1>2, WriteItemStep
<1>3. ASSUME NEW c \in Client, Execute(c) PROVE Base'
  BY <1>3, ExecuteStep
<1>4. ASSUME NEW c \in Client, Fetched(c) PROVE Base'
  BY <1>4, FetchedStep
<1>5. ASSUME NEW c \in Client, Echoed(c) PROVE Base'
  BY <1>5, EchoedStep
<1>6. ASSUME NEW c \in Client, Fail(c) PROVE Base'
  BY <1>6, FailStep
<1>7. ASSUME NEW w \in late, LateExecute(w) PROVE Base'
  BY <1>7, LateExecuteStep
<1>8. ASSUME NEW k \in Ranges, Expire(k) PROVE Base'
  BY <1>8, ExpireStep
<1>9. CASE UNCHANGED vars
  BY <1>9 DEF vars, Base, TypeOK, CallInv, CacheShape, RepliesInv, AnswersInv,
              LateInv, Overtaken
<1> QED
  BY <1>1, <1>2, <1>3, <1>4, <1>5, <1>6, <1>7, <1>8, <1>9 DEF Next

\* The variables keep their types, for any number of calls and registers
\* (modbus_controller.py).
THEOREM TypeCorrect == Spec => []TypeOK
<1>1. Base => TypeOK
  BY DEF Base
<1> QED
  BY <1>1, InitBase, BaseStep, PTL DEF Spec

-----------------------------------------------------------------------------
\* d holds back what the cache says of r.
SettledBy(d, r) ==
    /\ item[d] # None /\ item[d].reg = r
    /\ \/ stage[d] = "write" /\ Contains(replies, d)
       \/ stage[d] = "verify"

\* When c leaves the replies the others stay.
LEMMA OthersStillAnswered ==
    ASSUME TypeOK, NEW c \in Client, Leaves(c), NEW d \in Client, d # c
    PROVE  Contains(replies', d) <=> Contains(replies, d)
<1>1. replies \in Seq(Client) /\ Len(replies) \in Nat /\ DOMAIN replies = 1..Len(replies)
  BY DEF TypeOK
<1>2. ASSUME NEW n \in DOMAIN replies, replies[n] = c, Removed(replies, n, replies')
      PROVE  Contains(replies', d) <=> Contains(replies, d)
  <2>1. Len(replies') = Len(replies) - 1
    BY <1>2 DEF Removed
  <2>2. ASSUME NEW j \in 1..Len(replies), replies[j] = d PROVE Contains(replies', d)
    <3> DEFINE m == IF j < n THEN j ELSE j - 1
    <3>1. m \in 1..(Len(replies) - 1)
      BY <1>1, <1>2, <2>2
    <3>2. replies'[m] = d
      BY <1>1, <1>2, <2>2, <3>1 DEF Removed
    <3> QED
      BY <2>1, <3>1, <3>2 DEF Contains
  <2>3. ASSUME NEW j \in 1..Len(replies'), replies'[j] = d PROVE Contains(replies, d)
    <3> DEFINE m == IF j < n THEN j ELSE j + 1
    <3>1. m \in 1..Len(replies) /\ j \in 1..(Len(replies) - 1)
      BY <1>1, <2>1
    <3>2. replies[m] = d
      BY <1>2, <2>3, <3>1 DEF Removed
    <3> QED
      BY <3>1, <3>2 DEF Contains
  <2> QED
    BY <2>2, <2>3 DEF Contains
<1> QED
  BY <1>2 DEF Leaves

\* What the others hold back they still hold back.
LEMMA OthersStillSettle ==
    ASSUME TypeOK, NEW c \in Client, OthersStay(c), Leaves(c),
           NEW r \in Reg, NEW d \in Client, d # c, SettledBy(d, r)
    PROVE  Settling(r)'
<1>1. Contains(replies, d) => Contains(replies', d)
  BY OthersStillAnswered
<1>2. stage'[d] = stage[d] /\ item'[d] = item[d]
  BY DEF OthersStay
<1> QED
  BY <1>1, <1>2 DEF SettledBy, Settling

\* A reply at the head shows the inverter, but for settling and unsure registers.
LEMMA HeadIsCurrent ==
    ASSUME Base, NEW c \in Client, replies # <<>>, Head(replies) = c,
           OthersStay(c), Leaves(c)
    PROVE  /\ stage[c] = "write" =>
                 \/ raw[c] = dev[item[c].reg] \/ item[c].reg \in unsure
                 \/ \E d \in Client : d # c /\ SettledBy(d, item[c].reg)
           /\ stage[c] \in Fetching => \A r \in Served[key[c]] :
                 \/ data[c][r] = dev[r] \/ r \in unsure
                 \/ \E d \in Client : d # c /\ stage[d] = "write" /\ SettledBy(d, r)
<1>1. 1 \in DOMAIN replies /\ replies[1] = c /\ replies \in Seq(Client)
  BY HeadFacts DEF Base, TypeOK
<1>2. ASSUME NEW r, Overtaken(1, r)
      PROVE  \E d \in Client : d # c /\ stage[d] = "write" /\ SettledBy(d, r)
  <2>1. PICK j \in DOMAIN replies : /\ j > 1 /\ stage[replies[j]] = "write"
                                    /\ item[replies[j]].reg = r
    BY <1>2 DEF Overtaken
  <2>2. replies[j] \in Client /\ replies[j] # c /\ j \in 1..Len(replies)
    BY <1>1, <2>1 DEF Base, RepliesInv
  <2>3. item[replies[j]] # None
    BY <2>1, <2>2, ItemType DEF Base, CallInv
  <2>4. SettledBy(replies[j], r)
    BY <2>1, <2>2, <2>3 DEF SettledBy, Contains
  <2> QED
    BY <2>1, <2>2, <2>4
<1> QED
  BY <1>1, <1>2 DEF Base, AnswersInv

\* A payload stays as true as it was while the inverter and it do not change.
LEMMA OldPayload ==
    ASSUME Base, NEW c \in Client, OthersStay(c), Leaves(c), dev' = dev,
           unsure \subseteq unsure', NEW r \in Reg, NEW v,
           v = dev[r] \/ Settling(r) \/ r \in unsure,
           SettledBy(c, r) => r \in unsure' \/ Settling(r)'
    PROVE  v = dev'[r] \/ Settling(r)' \/ r \in unsure'
<1>1. Settling(r) => \E d \in Client : SettledBy(d, r)
  BY DEF Settling, SettledBy
<1>2. ASSUME NEW d \in Client, SettledBy(d, r) PROVE r \in unsure' \/ Settling(r)'
  BY <1>2, OthersStillSettle DEF Base
<1> QED
  BY <1>1, <1>2

-----------------------------------------------------------------------------
\* What CacheFollowsWrites says of one register of one payload.
LEMMA CachedRegister ==
    ASSUME Base, CacheFollowsWrites, NEW k \in Ranges, cache[k] # None,
           NEW r \in DOMAIN cache[k]
    PROVE  /\ cache[k][r] = dev[r] \/ Settling(r) \/ r \in unsure \/ r \in missed[k]
           /\ r \in Served[k] /\ r \in Reg
  BY RangeAssumption DEF CacheFollowsWrites, Base, CacheShape

\* A step that leaves the cache alone and settles no write.
LEMMA CacheKept ==
    ASSUME Base, CacheFollowsWrites, NEW c \in Client, OthersStay(c), Leaves(c),
           dev' = dev, cache' = cache, unsure \subseteq unsure', missed' = missed,
           \A r : SettledBy(c, r) => r \in unsure' \/ Settling(r)'
    PROVE  CacheFollowsWrites'
<1> SUFFICES ASSUME NEW k \in Ranges, cache[k] # None, NEW r \in DOMAIN cache[k]
             PROVE  cache[k][r] = dev'[r] \/ Settling(r)' \/ r \in unsure' \/ r \in missed'[k]
  BY DEF CacheFollowsWrites
<1>1. cache[k][r] = dev[r] \/ Settling(r) \/ r \in unsure \/ r \in missed[k]
  BY CachedRegister
<1>2. r \in Reg
  BY CachedRegister
<1> QED
  BY <1>1, <1>2, OldPayload

\* ReadRange keeps the cache as true as the answered writes.
LEMMA ReadRangeCache ==
    ASSUME Base, CacheFollowsWrites, NEW c \in Client, NEW k \in Ranges,
           ReadRange(c, k)
    PROVE  CacheFollowsWrites'
<1>1. /\ stage[c] = "idle" /\ dev' = dev /\ cache' = cache
      /\ unsure \subseteq unsure' /\ missed' = missed
  BY DEF ReadRange
<1>2. \A r : ~SettledBy(c, r)
  BY <1>1 DEF SettledBy
<1> QED
  BY <1>1, <1>2, ReadRangeStep, CacheKept

\* WriteItem keeps the cache as true as the answered writes.
LEMMA WriteItemCache ==
    ASSUME Base, CacheFollowsWrites, NEW c \in Client, NEW i \in Item, NEW b \in Bit,
           WriteItem(c, i, b)
    PROVE  CacheFollowsWrites'
<1>1. /\ stage[c] = "idle" /\ dev' = dev /\ cache' = cache
      /\ unsure \subseteq unsure' /\ missed' = missed
  BY DEF WriteItem
<1>2. \A r : ~SettledBy(c, r)
  BY <1>1 DEF SettledBy
<1> QED
  BY <1>1, <1>2, WriteItemStep, CacheKept

\* Fail keeps the cache as true as the answered writes.
LEMMA FailCache ==
    ASSUME Base, CacheFollowsWrites, NEW c \in Client, Fail(c)
    PROVE  CacheFollowsWrites'
<1>1. dev' = dev /\ cache' = cache /\ missed' = missed
  BY DEF Fail
<1>2. unsure \subseteq unsure' /\ \A r : SettledBy(c, r) => r \in unsure'
  BY FailShape DEF SettledBy
<1> QED
  BY <1>1, <1>2, FailStep, CacheKept

\* Execute keeps the cache as true as the answered writes.
LEMMA ExecuteCache ==
    ASSUME Base, CacheFollowsWrites, NEW c \in Client, Execute(c)
    PROVE  CacheFollowsWrites'
<1>1. stage[c] # "idle" /\ UNCHANGED <<cache, stage, item, unsure, missed>>
  BY DEF Execute
<1>2. \A d \in Client : Contains(replies', d) <=> Contains(replies, d) \/ d = c
  BY ExecuteReplies
<1>3. \A r : Settling(r) => Settling(r)'
  BY <1>1, <1>2 DEF Settling
<1> SUFFICES ASSUME NEW k \in Ranges, cache[k] # None, NEW r \in DOMAIN cache[k]
             PROVE  cache[k][r] = dev'[r] \/ Settling(r)' \/ r \in unsure' \/ r \in missed[k]
  BY <1>1 DEF CacheFollowsWrites
<1>4. /\ cache[k][r] = dev[r] \/ Settling(r) \/ r \in unsure \/ r \in missed[k]
      /\ r \in Reg
  BY CachedRegister
<1>5. CASE stage[c] = "write" /\ r = item[c].reg
  <2>1. item[c] # None
    BY <1>5, ItemType DEF Base, CallInv
  <2>2. Settling(r)'
    BY <1>1, <1>2, <1>5, <2>1 DEF Settling
  <2> QED
    BY <2>2
<1>6. CASE stage[c] # "write" \/ r # item[c].reg
  <2>1. dev'[r] = dev[r]
    <3>1. CASE stage[c] \in Fetching
      BY <3>1 DEF Execute
    <3>2. CASE stage[c] \notin Fetching
      <4>1. stage[c] = "write"
        BY <1>1, <3>2 DEF Base, TypeOK
      <4>2. dev' = [dev EXCEPT ![item[c].reg] = raw[c]]
        BY <3>2 DEF Execute
      <4> QED
        BY <1>4, <1>6, <4>1, <4>2 DEF Base, TypeOK
    <3> QED
      BY <3>1, <3>2
  <2> QED
    BY <1>1, <1>3, <1>4, <2>1
<1> QED
  BY <1>5, <1>6

\* Fetched keeps the cache as true as the answered writes.
LEMMA FetchedCache ==
    ASSUME Base, CacheFollowsWrites, NEW c \in Client, Fetched(c)
    PROVE  CacheFollowsWrites'
<1>1. /\ replies # <<>> /\ Head(replies) = c /\ stage[c] \in Fetching
      /\ cache' = [cache EXCEPT ![key[c]] = data[c]]
      /\ missed' = [k \in Ranges |-> IF k = key[c] THEN {}
                                     ELSE missed[k] \cup LeftBehind(c, k)]
      /\ dev' = dev /\ unsure' = unsure
  BY DEF Fetched
<1>2. OthersStay(c) /\ Leaves(c)
  BY FetchedStep
<1>3. data[c] \in [Served[key[c]] -> Raw] /\ key[c] \in Ranges
  BY <1>1, HeadFacts DEF Base, CallInv
<1> SUFFICES ASSUME NEW k \in Ranges, cache'[k] # None, NEW r \in DOMAIN cache'[k]
             PROVE  cache'[k][r] = dev'[r] \/ Settling(r)' \/ r \in unsure' \/ r \in missed'[k]
  BY DEF CacheFollowsWrites
<1>4. CASE k = key[c]
  <2>1. cache'[k] = data[c]
    BY <1>1, <1>3, <1>4 DEF Base, TypeOK
  <2>2. r \in Served[key[c]] /\ r \in Reg
    BY <1>3, <2>1, RangeAssumption
  <2>3. \/ data[c][r] = dev[r] \/ r \in unsure
        \/ \E d \in Client : d # c /\ stage[d] = "write" /\ SettledBy(d, r)
    BY <1>1, <1>2, <2>2, HeadIsCurrent
  <2>4. ASSUME NEW d \in Client, d # c, SettledBy(d, r) PROVE Settling(r)'
    BY <1>2, <2>2, <2>4, OthersStillSettle DEF Base
  <2> QED
    BY <1>1, <2>1, <2>3, <2>4
<1>5. CASE k # key[c]
  <2>1. cache'[k] = cache[k]
    BY <1>1, <1>5 DEF Base, TypeOK
  <2>2. /\ cache[k][r] = dev[r] \/ Settling(r) \/ r \in unsure \/ r \in missed[k]
        /\ r \in Served[k] /\ r \in Reg
    BY <2>1, CachedRegister
  <2>3. missed'[k] = missed[k] \cup LeftBehind(c, k)
    BY <1>1, <1>5
  <2>4. SettledBy(c, r) => r \in missed'[k]
    <3> SUFFICES ASSUME SettledBy(c, r) PROVE r \in missed'[k]
      OBVIOUS
    <3>1. stage[c] = "verify" /\ item[c].reg = r
      BY <1>1 DEF SettledBy, Fetching
    <3>2. r \in LeftBehind(c, k)
      BY <2>1, <3>1 DEF LeftBehind
    <3> QED
      BY <2>3, <3>2
  <2>5. CASE r \in missed'[k]
    BY <2>5
  <2>6. CASE r \notin missed'[k]
    <3>1. ~SettledBy(c, r) /\ r \notin missed[k]
      BY <2>3, <2>4, <2>6
    <3>2. cache[k][r] = dev'[r] \/ Settling(r)' \/ r \in unsure'
      BY <1>1, <1>2, <2>2, <3>1, OldPayload
    <3> QED
      BY <2>1, <3>2
  <2> QED
    BY <2>5, <2>6
<1> QED
  BY <1>4, <1>5

\* Echoed keeps the cache as true as the answered writes.
LEMMA EchoedCache ==
    ASSUME Base, CacheFollowsWrites, NEW c \in Client, Echoed(c)
    PROVE  CacheFollowsWrites'
<1>1. /\ replies # <<>> /\ Head(replies) = c /\ stage[c] = "write"
      /\ dev' = dev /\ unsure' = unsure
  BY DEF Echoed
<1>2. OthersStay(c) /\ Leaves(c)
  BY EchoedStep
<1>3. item[c] \in Item /\ item[c] # None /\ item[c].reg \in Reg /\ raw[c] \in Raw
  BY <1>1, ItemType DEF Base, CallInv, TypeOK
<1>4. CASE item[c].verify
  <2>1. /\ cache' = cache /\ missed' = missed
        /\ stage'[c] = "verify" /\ item'[c] = item[c]
    BY <1>4 DEF Echoed, Fetch, Base, TypeOK
  <2>2. ASSUME NEW r, SettledBy(c, r) PROVE Settling(r)'
    BY <1>3, <2>1, <2>2 DEF SettledBy, Settling
  <2> QED
    BY <1>1, <1>2, <2>1, <2>2, CacheKept
<1>5. CASE ~item[c].verify
  <2>1. /\ cache' = Patched(item[c].reg, raw[c])
        /\ missed' = [k \in Ranges |-> missed[k] \ {item[c].reg}]
    BY <1>5 DEF Echoed
  <2> SUFFICES ASSUME NEW k \in Ranges, cache'[k] # None, NEW r \in DOMAIN cache'[k]
               PROVE  cache'[k][r] = dev'[r] \/ Settling(r)' \/ r \in unsure' \/ r \in missed'[k]
    BY DEF CacheFollowsWrites
  <2>2. /\ cache'[k] \in [Served[k] -> Raw] /\ cache[k] # None
        /\ item[c].reg \in Served[k] => cache'[k][item[c].reg] = raw[c]
        /\ \A s \in Served[k] : s # item[c].reg => cache'[k][s] = cache[k][s]
    BY <1>3, <2>1, PatchedFacts DEF Base
  <2>3. r \in Served[k] /\ r \in DOMAIN cache[k]
    BY <2>2 DEF Base, CacheShape
  <2>4. /\ cache[k][r] = dev[r] \/ Settling(r) \/ r \in unsure \/ r \in missed[k]
        /\ r \in Reg
    BY <2>2, <2>3, CachedRegister
  <2>5. CASE r = item[c].reg
    <3>1. \/ raw[c] = dev[r] \/ r \in unsure
          \/ \E d \in Client : d # c /\ SettledBy(d, r)
      BY <1>1, <1>2, <2>5, HeadIsCurrent
    <3>2. ASSUME NEW d \in Client, d # c, SettledBy(d, r) PROVE Settling(r)'
      BY <1>2, <2>4, <3>2, OthersStillSettle DEF Base
    <3> QED
      BY <1>1, <2>2, <2>3, <2>5, <3>1, <3>2
  <2>6. CASE r # item[c].reg
    <3>1. ~SettledBy(c, r)
      BY <2>6 DEF SettledBy
    <3>2. r \in missed[k] => r \in missed'[k]
      BY <2>1, <2>6
    <3>3. r \notin missed[k] => cache[k][r] = dev'[r] \/ Settling(r)' \/ r \in unsure'
      BY <1>1, <1>2, <2>4, <3>1, OldPayload
    <3> QED
      BY <2>2, <2>3, <2>6, <3>2, <3>3
  <2> QED
    BY <2>5, <2>6
<1> QED
  BY <1>4, <1>5

\* Every step keeps the cache as true as the answered writes.
LEMMA CacheStep == Base /\ CacheFollowsWrites /\ [Next]_vars => CacheFollowsWrites'
<1> SUFFICES ASSUME Base, CacheFollowsWrites, [Next]_vars PROVE CacheFollowsWrites'
  OBVIOUS
<1>1. ASSUME NEW c \in Client, NEW k \in Ranges, ReadRange(c, k)
      PROVE  CacheFollowsWrites'
  BY <1>1, ReadRangeCache
<1>2. ASSUME NEW c \in Client, NEW i \in Item, NEW b \in Bit, WriteItem(c, i, b)
      PROVE  CacheFollowsWrites'
  BY <1>2, WriteItemCache
<1>3. ASSUME NEW c \in Client, Execute(c) PROVE CacheFollowsWrites'
  BY <1>3, ExecuteCache
<1>4. ASSUME NEW c \in Client, Fetched(c) PROVE CacheFollowsWrites'
  BY <1>4, FetchedCache
<1>5. ASSUME NEW c \in Client, Echoed(c) PROVE CacheFollowsWrites'
  BY <1>5, EchoedCache
<1>6. ASSUME NEW c \in Client, Fail(c) PROVE CacheFollowsWrites'
  BY <1>6, FailCache
<1>7. ASSUME NEW w \in late, LateExecute(w) PROVE CacheFollowsWrites'
  <2>1. w.reg \in unsure
    BY <1>7 DEF Base, LateInv
  <2>2. /\ dev' = [dev EXCEPT ![w.reg] = w.raw]
        /\ UNCHANGED <<cache, stage, item, replies, unsure, missed>>
    BY <1>7 DEF LateExecute
  <2>3. \A r : r \in unsure \/ dev'[r] = dev[r]
    BY <2>1, <2>2 DEF Base, TypeOK
  <2> QED
    BY <2>2, <2>3 DEF CacheFollowsWrites, Settling
<1>8. ASSUME NEW k \in Ranges, Expire(k) PROVE CacheFollowsWrites'
  <2>1. /\ cache' = [cache EXCEPT ![k] = None]
        /\ UNCHANGED <<dev, stage, item, replies, unsure>>
    BY <1>8 DEF Expire
  <2>2. \A m \in Ranges : \/ cache'[m] = None
                          \/ cache'[m] = cache[m] /\ missed'[m] = missed[m]
    BY <1>8, <2>1 DEF Expire, Base, TypeOK
  <2> QED
    BY <2>1, <2>2 DEF CacheFollowsWrites, Settling
<1>9. CASE UNCHANGED vars
  BY <1>9 DEF vars, CacheFollowsWrites, Settling
<1> QED
  BY <1>1, <1>2, <1>3, <1>4, <1>5, <1>6, <1>7, <1>8, <1>9 DEF Next

\* Whatever calls interleave, fail and time out, a cached payload is as true as
\* the answered writes make it (_update_register_cache), but for the two kinds
\* of registers that the invariant names.
THEOREM CacheCorrect == Spec => []CacheFollowsWrites
<1>1. Init => CacheFollowsWrites
  BY DEF Init, CacheFollowsWrites
<1>2. Base /\ CacheFollowsWrites /\ [Next]_vars => CacheFollowsWrites'
  BY CacheStep
<1> QED
  BY <1>1, <1>2, InitBase, BaseStep, PTL DEF Spec

-----------------------------------------------------------------------------
\* The read that verifies leaves no payload behind under the block's own key.
LEMMA MissedStep == Base /\ MissedInv /\ [Next]_vars => MissedInv'
<1> SUFFICES ASSUME Base, MissedInv, [Next]_vars PROVE MissedInv'
  OBVIOUS
<1>1. ASSUME NEW c \in Client, Fetched(c) PROVE MissedInv'
  <2>1. /\ missed' = [k \in Ranges |-> IF k = key[c] THEN {}
                                     ELSE missed[k] \cup LeftBehind(c, k)]
        /\ stage[c] = "verify" => key[c] = Block[item[c].reg]
    BY <1>1 DEF Fetched, Base, CallInv
  <2>2. \A k \in Ranges : \A r \in LeftBehind(c, k) : stage[c] = "verify" /\ r = item[c].reg
    BY DEF LeftBehind
  <2> QED
    BY <2>1, <2>2 DEF MissedInv
<1>2. ASSUME \A k \in Ranges : missed'[k] \subseteq missed[k] PROVE MissedInv'
  BY <1>2 DEF MissedInv
<1>3. ASSUME NEW c \in Client, Echoed(c) PROVE MissedInv'
  BY <1>2, <1>3 DEF Echoed
<1>4. ASSUME NEW k \in Ranges, Expire(k) PROVE MissedInv'
  BY <1>2, <1>4 DEF Expire, Base, TypeOK
<1>5. ASSUME missed' = missed PROVE MissedInv'
  BY <1>2, <1>5
<1> QED
  BY <1>1, <1>3, <1>4, <1>5
     DEF Next, ReadRange, WriteItem, Execute, Fail, LateExecute, vars

-----------------------------------------------------------------------------
\* A call that steps, other than by executing, crosses nobody.
LEMMA OthersUncrossed ==
    ASSUME NEW c \in Client, NEW d \in Client, d # c,
           \/ \E k \in Ranges : ReadRange(c, k)
           \/ \E i \in Item, b \in Bit : WriteItem(c, i, b)
           \/ Fetched(c) \/ Echoed(c) \/ Fail(c)
    PROVE  d \in crossed' <=> d \in crossed
  BY DEF ReadRange, WriteItem, Fetched, Echoed, Fail, Finish

\* What the others start from stays as the inverter has it.
LEMMA MergedElsewhere ==
    ASSUME Base, MergedInv, NEW c \in Client, OthersStay(c), Leaves(c), dev' = dev,
           unsure \subseteq unsure', NEW d \in Client, d # c, d \notin crossed,
           item'[d] # None, item'[d].reg \notin unsure'
    PROVE  Merged(d)'
<1>1. /\ stage'[d] = stage[d] /\ item'[d] = item[d] /\ raw'[d] = raw[d]
      /\ data'[d] = data[d]
  BY DEF OthersStay
<1>2. Contains(replies', d) <=> Contains(replies, d)
  BY OthersStillAnswered DEF Base
<1>3. Merged(d)
  BY <1>1 DEF MergedInv
<1> QED
  BY <1>1, <1>2, <1>3 DEF Merged

\* Every step keeps what an uncrossed write starts from.
LEMMA MergedStep ==
    Base /\ CacheFollowsWrites /\ MissedInv /\ MergedInv /\ [Next]_vars => MergedInv'
<1> SUFFICES ASSUME Base, CacheFollowsWrites, MissedInv, MergedInv, [Next]_vars,
                    NEW d \in Client, item'[d] # None, item'[d].reg \notin unsure',
                    d \notin crossed'
             PROVE  Merged(d)'
  BY DEF MergedInv
<1>1. ASSUME NEW c \in Client, NEW k \in Ranges, ReadRange(c, k)
      PROVE  Merged(d)'
  <2>1. dev' = dev /\ unsure \subseteq unsure' /\ OthersStay(c) /\ Leaves(c)
    BY <1>1, ReadRangeStep DEF ReadRange
  <2>2. stage'[c] = "read"
    BY <1>1 DEF ReadRange, Fetch, Base, TypeOK
  <2>3. CASE d = c
    BY <2>2, <2>3 DEF Merged
  <2>4. CASE d # c
    <3>1. d \notin crossed
      BY <1>1, <2>4, OthersUncrossed
    <3> QED
      BY <2>1, <2>4, <3>1, MergedElsewhere
  <2> QED
    BY <2>3, <2>4
<1>2. ASSUME NEW c \in Client, NEW i \in Item, NEW b \in Bit, WriteItem(c, i, b)
      PROVE  Merged(d)'
  <2>1. /\ dev' = dev /\ unsure' = unsure /\ OthersStay(c) /\ Leaves(c)
        /\ ~Contains(replies', c)
    BY <1>2, WriteItemStep DEF WriteItem
  <2>2. CASE d # c
    <3>1. d \notin crossed
      BY <1>2, <2>2, OthersUncrossed
    <3> QED
      BY <2>1, <2>2, <3>1, MergedElsewhere
  <2>3. CASE d = c
    <3> DEFINE base == BaseCached(i.reg)
    <3>1. stage[c] = "idle" /\ i \in May[c] /\ item'[c] = i
      BY <1>2 DEF WriteItem, Base, TypeOK
    <3>2. CASE i.mask = Field /\ SendWrite(c, All(b))
      <4>1. stage'[c] = "write"
        BY <3>2 DEF SendWrite, Base, TypeOK
      <4> QED
        BY <2>3, <3>1, <3>2, <4>1 DEF Merged
    <3>3. CASE /\ base # None /\ i.reg \in DOMAIN base
               /\ SendWrite(c, Merge(i, base[i.reg], b))
               /\ crossed' = IF Settling(i.reg) THEN crossed \cup {c} ELSE crossed
      <4>1. stage'[c] = "write" /\ raw'[c] = Merge(i, base[i.reg], b)
        BY <3>3 DEF SendWrite, Base, TypeOK
      <4>2. \A f \in Field \ i.mask : raw'[c][f] = base[i.reg][f]
        BY <4>1 DEF Merge
      <4>3. Block[i.reg] \in Ranges /\ i.reg \in Reg
        BY <3>1, ItemType
      <4>4. i.reg \notin missed[Block[i.reg]]
        BY <4>3 DEF MissedInv
      <4>5. ~Settling(i.reg)
        BY <2>3, <3>3
      <4>6. i.reg \notin unsure
        BY <2>1, <2>3, <3>1
      <4>7. base[i.reg] = dev[i.reg]
        BY <3>3, <4>3, <4>4, <4>5, <4>6, CachedRegister DEF BaseCached
      <4> QED
        BY <2>1, <2>3, <3>1, <4>1, <4>2, <4>7 DEF Merged
    <3>4. CASE Fetch(c, "base", Block[i.reg])
      <4>1. stage'[c] = "base"
        BY <3>4 DEF Fetch, Base, TypeOK
      <4> QED
        BY <2>1, <2>3, <4>1 DEF Merged
    <3> QED
      BY <1>2, <3>2, <3>3, <3>4 DEF WriteItem
  <2> QED
    BY <2>2, <2>3
<1>3. ASSUME NEW c \in Client, Execute(c)
      PROVE  Merged(d)'
  <2>1. /\ stage[c] # "idle" /\ UNCHANGED <<cache, stage, item, raw, key, unsure>>
        /\ \A e \in Client : Contains(replies', e) <=> Contains(replies, e) \/ e = c
    BY <1>3, ExecuteReplies DEF Execute
  <2>2. CASE d = c
    <3>1. stage[c] = "base" => data'[c] = [r \in Served[key[c]] |-> dev[r]] /\ dev' = dev
      BY <1>3 DEF Execute, Fetching, Base, TypeOK
    <3> QED
      BY <2>1, <2>2, <3>1 DEF Merged
  <2>3. CASE d # c /\ stage[c] \in Fetching
    <3>1. dev' = dev /\ crossed' = crossed /\ data'[d] = data[d]
      BY <1>3, <2>3 DEF Execute, Base, TypeOK
    <3>2. Merged(d)
      BY <2>1, <3>1 DEF MergedInv
    <3> QED
      BY <2>1, <2>3, <3>1, <3>2 DEF Merged
  <2>4. CASE d # c /\ stage[c] \notin Fetching
    <3>1. stage[c] = "write" /\ item[c].reg \in Reg
      BY <2>1, <2>4, ItemType DEF Base, TypeOK, CallInv
    <3>2. /\ dev' = [dev EXCEPT ![item[c].reg] = raw[c]] /\ data' = data
          /\ crossed' = (crossed \cup StartedFrom(item[c].reg)) \ {c}
      BY <1>3, <2>4 DEF Execute
    <3>3. d \notin crossed /\ d \notin StartedFrom(item[c].reg)
      BY <2>4, <3>2
    <3>4. Merged(d)
      BY <2>1, <3>3 DEF MergedInv
    <3>5. CASE item[d].reg # item[c].reg
      <4>1. dev'[item[d].reg] = dev[item[d].reg]
        BY <3>1, <3>2, <3>5 DEF Base, TypeOK
      <4> QED
        BY <2>1, <2>4, <3>2, <3>4, <4>1 DEF Merged
    <3>6. CASE item[d].reg = item[c].reg
      <4>1. \/ item[d].mask = Field
            \/ /\ ~(stage[d] = "base" /\ Contains(replies, d))
               /\ ~(stage[d] = "write" /\ ~Contains(replies, d))
        BY <2>1, <3>3, <3>6 DEF StartedFrom
      <4> QED
        BY <2>1, <2>4, <4>1 DEF Merged
    <3> QED
      BY <3>5, <3>6
  <2> QED
    BY <2>2, <2>3, <2>4
<1>4. ASSUME NEW c \in Client, Fetched(c)
      PROVE  Merged(d)'
  <2>1. /\ dev' = dev /\ unsure' = unsure /\ OthersStay(c) /\ Leaves(c)
        /\ replies # <<>> /\ Head(replies) = c /\ stage[c] \in Fetching
    BY <1>4, FetchedStep DEF Fetched
  <2>2. CASE d # c
    <3>1. d \notin crossed
      BY <1>4, <2>2, OthersUncrossed
    <3> QED
      BY <2>1, <2>2, <3>1, MergedElsewhere
  <2>3. CASE d = c /\ Finish(c)
    <3>1. stage'[c] = "idle"
      BY <2>3 DEF Finish, Base, TypeOK
    <3> QED
      BY <2>3, <3>1 DEF Merged
  <2>4. CASE d = c /\ ~Finish(c)
    <3> DEFINE r == item[c].reg
    <3>1. /\ stage[c] = "base" /\ r \in DOMAIN data[c] /\ item' = item
          /\ SendWrite(c, Merge(item[c], data[c][r], bits[c])) /\ crossed' = crossed
      BY <1>4, <2>4 DEF Fetched
    <3>2. stage'[c] = "write" /\ raw'[c] = Merge(item[c], data[c][r], bits[c])
      BY <3>1 DEF SendWrite, Base, TypeOK
    <3>3. \A f \in Field \ item[c].mask : raw'[c][f] = data[c][r][f]
      BY <3>2 DEF Merge
    <3>4. 1 \in DOMAIN replies /\ replies[1] = c /\ replies \in Seq(Client)
      BY <2>1, HeadFacts DEF Base, TypeOK
    <3>5. Contains(replies, c)
      BY <3>4 DEF Contains
    <3>6. Merged(c)
      BY <2>1, <2>4, <3>1 DEF MergedInv
    <3>7. item[c].mask # Field => data[c][r] = dev[r]
      BY <3>1, <3>5, <3>6 DEF Merged
    <3>8. \A f \in Field \ item[c].mask : raw'[c][f] = dev[r][f]
      BY <3>3, <3>7
    <3> QED
      BY <2>1, <2>4, <3>1, <3>2, <3>8 DEF Merged
  <2> QED
    BY <2>2, <2>3, <2>4
<1>5. ASSUME NEW c \in Client, Echoed(c)
      PROVE  Merged(d)'
  <2>1. dev' = dev /\ unsure \subseteq unsure' /\ OthersStay(c) /\ Leaves(c)
    BY <1>5, EchoedStep DEF Echoed
  <2>2. stage'[c] \in {"verify", "idle"}
    BY <1>5 DEF Echoed, Fetch, Finish, Base, TypeOK
  <2>3. CASE d = c
    BY <2>2, <2>3 DEF Merged
  <2>4. CASE d # c
    <3>1. d \notin crossed
      BY <1>5, <2>4, OthersUncrossed
    <3> QED
      BY <2>1, <2>4, <3>1, MergedElsewhere
  <2> QED
    BY <2>3, <2>4
<1>6. ASSUME NEW c \in Client, Fail(c)
      PROVE  Merged(d)'
  <2>1. dev' = dev /\ unsure \subseteq unsure' /\ OthersStay(c) /\ Leaves(c)
    BY <1>6, FailStep, FailShape DEF Fail
  <2>2. stage'[c] = "idle"
    BY <1>6 DEF Fail, Finish, Base, TypeOK
  <2>3. CASE d = c
    BY <2>2, <2>3 DEF Merged
  <2>4. CASE d # c
    <3>1. d \notin crossed
      BY <1>6, <2>4, OthersUncrossed
    <3> QED
      BY <2>1, <2>4, <3>1, MergedElsewhere
  <2> QED
    BY <2>3, <2>4
<1>7. ASSUME NEW w \in late, LateExecute(w)
      PROVE  Merged(d)'
  <2>1. w.reg \in unsure
    BY <1>7 DEF Base, LateInv
  <2>2. /\ dev' = [dev EXCEPT ![w.reg] = w.raw]
        /\ UNCHANGED <<stage, item, raw, data, replies, unsure, crossed>>
    BY <1>7 DEF LateExecute
  <2>3. dev'[item[d].reg] = dev[item[d].reg]
    BY <2>1, <2>2 DEF Base, TypeOK
  <2>4. Merged(d)
    BY <2>2 DEF MergedInv
  <2> QED
    BY <2>2, <2>3, <2>4 DEF Merged
<1>8. ASSUME NEW k \in Ranges, Expire(k)
      PROVE  Merged(d)'
  BY <1>8 DEF Expire, MergedInv, Merged
<1>9. CASE UNCHANGED vars
  BY <1>9 DEF vars, MergedInv, Merged
<1> QED
  BY <1>1, <1>2, <1>3, <1>4, <1>5, <1>6, <1>7, <1>8, <1>9 DEF Next

\* The inverter executes a write that takes over the other bits.
LEMMA ExecutedWriteKeeps ==
    Base /\ MergedInv /\ [Next]_vars =>
        \A c \in Client :
            /\ stage[c] = "write" /\ ~Contains(replies, c) /\ Contains(replies', c)
            /\ item[c].reg \notin unsure /\ c \notin crossed
            => \A f \in Field \ item[c].mask :
                  dev'[item[c].reg][f] = dev[item[c].reg][f]
<1> SUFFICES ASSUME Base, MergedInv, [Next]_vars, NEW c \in Client,
                    stage[c] = "write", ~Contains(replies, c), Contains(replies', c),
                    item[c].reg \notin unsure, c \notin crossed,
                    NEW f \in Field \ item[c].mask
             PROVE  dev'[item[c].reg][f] = dev[item[c].reg][f]
  OBVIOUS
<1>1. ASSUME NEW d \in Client, Leaves(d), ~Contains(replies', d) PROVE FALSE
  BY <1>1, OthersStillAnswered DEF Base
<1>2. ASSUME NEW d \in Client, Execute(d)
      PROVE  dev'[item[c].reg][f] = dev[item[c].reg][f]
  <2>1. d = c
    BY <1>2, ExecuteReplies
  <2>2. item[c].reg \in Reg /\ item[c] # None
    BY ItemType DEF Base, CallInv
  <2>3. dev'[item[c].reg] = raw[c]
    BY <1>2, <2>1, <2>2 DEF Execute, Fetching, Base, TypeOK
  <2>4. Merged(c)
    BY <2>2 DEF MergedInv
  <2> QED
    BY <2>3, <2>4 DEF Merged
<1>3. ASSUME NEW d \in Client, NEW k \in Ranges, ReadRange(d, k) PROVE FALSE
  BY <1>1, <1>3, ReadRangeStep
<1>4. ASSUME NEW d \in Client, NEW i \in Item, NEW b \in Bit, WriteItem(d, i, b)
      PROVE  FALSE
  BY <1>1, <1>4, WriteItemStep
<1>5. ASSUME NEW d \in Client, Fetched(d) \/ Echoed(d) \/ Fail(d) PROVE FALSE
  BY <1>1, <1>5, FetchedStep, EchoedStep, FailStep
<1>6. ASSUME UNCHANGED replies PROVE FALSE
  BY <1>6
<1> QED
  BY <1>2, <1>3, <1>4, <1>5, <1>6 DEF Next, vars, LateExecute, Expire

\* Whatever calls write the same registers, a masked write keeps the bits of
\* the other items (merge_raw), from a cached base or a fetched one, unless
\* another call wrote the register after that base was read.
THEOREM OtherBitsKept == Spec => WriteKeepsOtherBits
<1>1. Init => CacheFollowsWrites /\ MissedInv /\ MergedInv
  BY DEF Init, CacheFollowsWrites, MissedInv, MergedInv
<1>2. Base /\ CacheFollowsWrites /\ [Next]_vars => CacheFollowsWrites'
  BY CacheStep
<1>3. Base /\ MissedInv /\ [Next]_vars => MissedInv'
  BY MissedStep
<1>4. Base /\ CacheFollowsWrites /\ MissedInv /\ MergedInv /\ [Next]_vars => MergedInv'
  BY MergedStep
<1> QED
  BY <1>1, <1>2, <1>3, <1>4, InitBase, BaseStep, ExecutedWriteKeeps, PTL
     DEF Spec, WriteKeepsOtherBits

-----------------------------------------------------------------------------
(* The catalogue: arithmetic of a register.  Masks and shifts are          *)
(* divisions, so that the lemmas are about quotients and remainders.       *)

\* A multiple is at least one more b below a larger one.
LEMMA MoreTimes ==
    ASSUME NEW b \in Nat, NEW p \in Int, NEW q \in Int, p < q
    PROVE  p * b + b <= q * b
<1>1. q - p - 1 \in Nat
  OBVIOUS
<1>2. (q - p - 1) * b \in Nat
  BY <1>1
<1>3. (q - p - 1) * b = q * b - p * b - b
  OBVIOUS
<1> QED
  BY <1>2, <1>3

\* A natural number is its quotient times b and the remainder.
LEMMA DivMod ==
    ASSUME NEW a \in Nat, NEW b \in Nat \ {0}
    PROVE  /\ a \div b \in Nat /\ a % b \in 0..(b - 1)
           /\ a = (a \div b) * b + (a % b)
<1>1. a % b \in 0..(b - 1) /\ a \div b \in Int
  OBVIOUS
<1>2. a = (a \div b) * b + (a % b)
  OBVIOUS
<1>3. a \div b \in Nat
  <2>1. SUFFICES ASSUME a \div b < 0 PROVE FALSE
    BY <1>1
  <2>2. (a \div b) * b + b <= 0 * b
    BY <1>1, <2>1, MoreTimes
  <2> QED
    BY <1>1, <1>2, <2>2
<1> QED
  BY <1>1, <1>2, <1>3

\* Quotient and remainder are what they have to be.
LEMMA Quotient ==
    ASSUME NEW b \in Nat \ {0}, NEW q \in Nat, NEW r \in 0..(b - 1)
    PROVE  (q * b + r) \div b = q /\ (q * b + r) % b = r
<1> DEFINE a == q * b + r
           d == a \div b
           m == a % b
<1>1. a \in Nat
  OBVIOUS
<1>2. d \in Nat /\ m \in 0..(b - 1) /\ a = d * b + m
  <2> HIDE DEF a
  <2> QED
    BY <1>1, DivMod
<1> HIDE DEF d, m
<1>3. q * b + r = d * b + m
  BY <1>2
<1>4. ~(d < q)
  <2>1. ASSUME d < q PROVE FALSE
    <3>1. d * b + b <= q * b
      BY <1>2, <2>1, MoreTimes
    <3> QED
      BY <1>2, <1>3, <3>1
  <2> QED
    BY <2>1
<1>5. ~(q < d)
  <2>1. ASSUME q < d PROVE FALSE
    <3>1. q * b + b <= d * b
      BY <1>2, <2>1, MoreTimes
    <3> QED
      BY <1>2, <1>3, <3>1
  <2> QED
    BY <2>1
<1>6. d = q
  BY <1>2, <1>4, <1>5
<1>7. m = r
  BY <1>2, <1>3, <1>6
<1> QED
  BY <1>6, <1>7 DEF d, m

\* A word is the bits above a field, the field, and the bits below it.
Parts(a, u, s, h, f, l) ==
    /\ h \in Nat /\ f \in 0..(s - 1) /\ l \in 0..(u - 1)
    /\ a = h * (u * s) + f * u + l

\* Put together, the parts can be taken out again.
LEMMA PartsRead ==
    ASSUME NEW u \in Nat \ {0}, NEW s \in Nat \ {0}, NEW a, NEW h, NEW f, NEW l,
           Parts(a, u, s, h, f, l)
    PROVE  /\ a \in Nat
           /\ a \div (u * s) = h /\ (a \div u) % s = f /\ a % u = l
<1> DEFINE v == u * s
           r == f * u + l
           t == h * s + f
<1>1. /\ h \in Nat /\ f \in 0..(s - 1) /\ l \in 0..(u - 1)
      /\ a = h * v + f * u + l
  BY DEF Parts
<1>2. v \in Nat \ {0}
  <2>1. 0 * s + s <= u * s
    BY MoreTimes
  <2> QED
    BY <2>1
<1>3. f * u + u <= s * u
  <2>1. f \in Int /\ f < s
    BY <1>1
  <2> QED
    BY <2>1, MoreTimes
<1>4. f * u \in Nat
  BY <1>1
<1>5. r \in 0..(v - 1)
  BY <1>1, <1>3, <1>4
<1>6. t \in Nat /\ t * u = h * v + f * u
  <2>1. h * s \in Nat
    BY <1>1
  <2>2. t * u = (h * s) * u + f * u
    BY <1>1, <2>1
  <2>3. (h * s) * u = h * v
    BY <1>1
  <2> QED
    BY <1>1, <2>1, <2>2, <2>3
<1>7. h * v \in Nat
  BY <1>1, <1>2
<1>8. a = h * v + r /\ a = t * u + l
  BY <1>1, <1>4, <1>6, <1>7
<1> HIDE DEF v, r
<1>9. a \div v = h
  BY <1>1, <1>2, <1>5, <1>8, Quotient
<1> HIDE DEF t
<1>10. a \div u = t /\ a % u = l
  BY <1>1, <1>6, <1>8, Quotient
<1>11. t % s = f
  BY <1>1, Quotient DEF t
<1> QED
  BY <1>1, <1>4, <1>7, <1>9, <1>10, <1>11 DEF v

\* Every number has its parts.
LEMMA PartsOf ==
    ASSUME NEW u \in Nat \ {0}, NEW s \in Nat \ {0}, NEW a \in Nat
    PROVE  /\ Parts(a, u, s, a \div (u * s), (a \div u) % s, a % u)
           /\ a \div (u * s) = (a \div u) \div s
<1> DEFINE d == a \div u
           l == a % u
           h == d \div s
           f == d % s
<1>1. d \in Nat /\ l \in 0..(u - 1) /\ a = d * u + l
  BY DivMod
<1> HIDE DEF d, l
<1>2. h \in Nat /\ f \in 0..(s - 1) /\ d = h * s + f
  BY <1>1, DivMod
<1>6. h = (a \div u) \div s
  BY DEF d
<1> HIDE DEF h, f
<1>3. d * u = h * (u * s) + f * u
  <2>1. (h * s + f) * u = (h * s) * u + f * u
    BY <1>2
  <2>2. (h * s) * u = h * (u * s)
    BY <1>2
  <2> QED
    BY <1>2, <2>1, <2>2
<1>4. Parts(a, u, s, h, f, l)
  BY <1>1, <1>2, <1>3 DEF Parts
<1>5. a \div (u * s) = h /\ (a \div u) % s = f /\ a % u = l
  BY <1>4, PartsRead
<1> QED
  BY <1>4, <1>5, <1>6

\* A field below position p shows in what is left of the word below p.
LEMMA FieldBelow ==
    ASSUME NEW u \in Nat \ {0}, NEW s \in Nat \ {0}, NEW p \in Nat \ {0},
           p % (u * s) = 0, NEW a \in Nat
    PROVE  (a \div u) % s = ((a % p) \div u) % s
<1> DEFINE v == u * s
           n == p \div v
           q == a \div p
           r == a % p
           h == r \div v
           f == (r \div u) % s
           l == r % u
<1>1. v \in Nat \ {0}
  <2>1. 0 * s + s <= u * s
    BY MoreTimes
  <2> QED
    BY <2>1
<1>2. p % v = 0
  OBVIOUS
<1>3. n \in Nat /\ p = n * v
  <2> HIDE DEF v
  <2>1. n \in Nat /\ p = n * v + (p % v)
    BY <1>1, DivMod
  <2> HIDE DEF n
  <2>2. n * v \in Int
    BY <1>1, <2>1
  <2> QED
    BY <1>2, <2>1, <2>2
<1>4. q \in Nat /\ r \in Nat /\ a = q * p + r
  <2>1. q \in Nat /\ r \in 0..(p - 1) /\ a = q * p + r
    BY DivMod
  <2> QED
    BY <2>1
<1> HIDE DEF q, r
<1>5. Parts(r, u, s, h, f, l)
  BY <1>4, PartsOf
<1> HIDE DEF n, h, f, l
<1>6. /\ h \in Nat /\ f \in 0..(s - 1) /\ l \in 0..(u - 1)
      /\ r = h * v + f * u + l
  BY <1>5 DEF Parts
<1>7. a = (q * n + h) * v + f * u + l
  <2> HIDE DEF v
  <2>1. q * p = (q * n) * v
    BY <1>1, <1>3, <1>4
  <2>2. (q * n + h) * v = (q * n) * v + h * v
    BY <1>1, <1>3, <1>4, <1>6
  <2>3. h * v \in Int /\ f * u \in Int /\ (q * n) * v \in Int
    BY <1>1, <1>3, <1>4, <1>6
  <2> QED
    BY <1>4, <1>6, <2>1, <2>2, <2>3
<1>8. q * n + h \in Nat
  BY <1>3, <1>4, <1>6
<1> DEFINE g == q * n + h
<1>9. Parts(a, u, s, g, f, l)
  BY <1>6, <1>7, <1>8 DEF Parts
<1> HIDE DEF g
<1>10. (a \div u) % s = f
  BY <1>9, PartsRead
<1> QED
  BY <1>10 DEF f, r

\* A field from position p on shows in the bits from p on.
LEMMA FieldAbove ==
    ASSUME NEW u \in Nat \ {0}, NEW p \in Nat \ {0}, u % p = 0, NEW a \in Nat
    PROVE  a \div u = (a \div p) \div (u \div p)
<1> DEFINE n == u \div p
<1>1. n \in Nat /\ u = n * p + (u % p)
  BY DivMod
<1> HIDE DEF n
<1>2. n * p \in Int
  BY <1>1
<1>3. u = p * n /\ n # 0
  BY <1>1, <1>2
<1>4. a \div (p * n) = (a \div p) \div n
  BY <1>1, <1>3, PartsOf
<1> QED
  BY <1>3, <1>4 DEF n

-----------------------------------------------------------------------------
(* The bits of an item.                                                    *)

\* What is no more than the largest word is one.
LEMMA WordBound ==
    ASSUME NEW x \in Nat, x <= 65535
    PROVE  x \in Word
<1> DEFINE n == 65535
<1>1. n \in Nat /\ x <= n
  OBVIOUS
<1>2. Word = 0..n
  BY DEF Word
<1> HIDE DEF n
<1>3. x \in 0..n
  BY <1>1
<1> QED
  BY <1>2, <1>3

\* A word with a new part in place of that of a field.
Replaced(cur, u, s, part) == cur + (part - ((cur \div u) % s)) * u

\* A field of s values from the bit of value u on ends within the word.
Fits(u, s) == 65536 % (u * s) = 0

\* A new part changes its field alone, and the word stays one.
LEMMA FieldReplaced ==
    ASSUME NEW u \in Nat \ {0}, NEW s \in Nat \ {0}, Fits(u, s),
           NEW cur \in Word, NEW part \in 0..(s - 1)
    PROVE  LET res == Replaced(cur, u, s, part)
           IN  /\ res \in Word /\ (res \div u) % s = part /\ res % u = cur % u
               /\ res \div (u * s) = cur \div (u * s)
<1> DEFINE v == u * s
           m == 65536 \div v
           h == cur \div v
           f == (cur \div u) % s
           l == cur % u
           res == Replaced(cur, u, s, part)
<1>1. v \in Nat \ {0}
  <2>1. 0 * s + s <= u * s
    BY MoreTimes
  <2> QED
    BY <2>1
<1>2. cur \in Nat /\ cur <= 65535
  BY DEF Word
<1>3. Parts(cur, u, s, h, f, l)
  <2>1. cur \in Nat
    BY <1>2
  <2> QED
    BY <2>1, PartsOf
<1>4. res = cur + (part - f) * u
  BY DEF Replaced
<1>5. m \in Nat /\ 65536 = m * v
  <2>1. 65536 % v = 0
    BY DEF Fits
  <2> DEFINE w == 65536
  <2>4. w \in Nat
    OBVIOUS
  <2> HIDE DEF v, w
  <2>5. w \div v \in Nat /\ w = (w \div v) * v + (w % v)
    BY <1>1, <2>4, DivMod
  <2>2. m \in Nat /\ 65536 = m * v + (65536 % v)
    BY <2>5 DEF w
  <2> HIDE DEF m
  <2>3. m * v \in Int
    BY <1>1, <2>2
  <2> QED
    BY <2>1, <2>2, <2>3
<1>6. /\ cur \div v = h /\ cur % u = l
  OBVIOUS
<1> HIDE DEF m, h, f, l, res
<1>7. /\ h \in Nat /\ f \in 0..(s - 1) /\ l \in 0..(u - 1)
      /\ cur = h * v + f * u + l
  BY <1>3 DEF Parts
<1>8. (part - f) * u = part * u - f * u
  BY <1>7
<1>9. /\ f * u \in Nat /\ part * u \in Nat /\ h * v \in Nat
  BY <1>1, <1>7
<1>10. res = h * v + part * u + l
  <2> HIDE DEF v
  <2> QED
    BY <1>4, <1>7, <1>8, <1>9
<1>11. Parts(res, u, s, h, part, l)
  BY <1>7, <1>10 DEF Parts
<1>12. /\ res \in Nat /\ res \div v = h /\ (res \div u) % s = part /\ res % u = l
  BY <1>11, PartsRead
<1>13. res <= 65535
  <2>1. part * u + u <= v
    <3>1. part \in Int /\ part < s
      OBVIOUS
    <3>2. part * u + u <= s * u
      BY <3>1, MoreTimes
    <3> QED
      BY <3>2
  <2> HIDE DEF v
  <2>2. h < m
    <3>1. SUFFICES ASSUME ~(h < m) PROVE FALSE
      OBVIOUS
    <3>2. h = m \/ m < h
      BY <1>5, <1>7, <3>1
    <3>4. h * v \in Nat /\ h * v <= cur
      <4>1. h * v + f * u + l = cur /\ l \in Nat
        BY <1>7
      <4> QED
        BY <1>2, <1>9, <4>1
    <3>5. CASE m < h
      <4>1. m * v + v <= h * v
        BY <1>1, <1>5, <1>7, <3>5, MoreTimes
      <4> QED
        BY <1>1, <1>2, <1>5, <3>4, <4>1
    <3>6. CASE h = m
      <4>1. h * v = 65536
        BY <1>5, <3>6
      <4> QED
        BY <1>2, <3>4, <4>1
    <3> QED
      BY <3>2, <3>5, <3>6
  <2>3. h * v + v <= m * v
    BY <1>1, <1>5, <1>7, <2>2, MoreTimes
  <2>4. res + u = h * v + part * u + u + l /\ l < u
    <3>1. l \in Nat /\ l < u
      BY <1>7
    <3> QED
      BY <1>9, <1>10, <3>1
  <2>5. h * v + v <= 65536
    BY <1>5, <2>3
  <2> QED
    BY <1>1, <1>7, <1>9, <1>12, <2>1, <2>4, <2>5
<1>14. res \in Word
  <2>1. res \in Nat
    BY <1>12
  <2> QED
    BY <1>13, <2>1, WordBound
<1> QED
  BY <1>6, <1>12, <1>14 DEF v, res

\* An item has the bits the catalogue gives it.
LEMMA ItemBits ==
    ASSUME NEW k \in Keys
    PROVE  /\ WellFormed(Items[k])
           /\ Items[k].unit \in Nat \ {0} /\ Items[k].size \in Nat \ {0}
           /\ Items[k].size # 1
           /\ 65536 % (Items[k].unit * Items[k].size) = 0
BY CatalogueAssumption DEF WellFormed

\* An item of some bits is a toggle or a select.
LEMMA BitsKind ==
    ASSUME NEW k \in Keys, ~IsWhole(Items[k])
    PROVE  Items[k].kind \in {"toggle", "select"}
BY CatalogueAssumption DEF WellFormed

\* The item of a whole register has it for its own.
LEMMA WholeIsAlone ==
    ASSUME NEW j \in Keys, NEW k \in Keys, j # k, Items[j].reg = Items[k].reg
    PROVE  ~IsWhole(Items[j])
<1> DEFINE u == Items[k].unit
           s == Items[k].size
<1>1. SUFFICES ASSUME Items[j].unit = 1, Items[j].size = 65536 PROVE FALSE
  BY DEF IsWhole
<1>2. /\ u \in Nat \ {0} /\ s \in Nat \ {0, 1} /\ 65536 % (u * s) = 0
  BY ItemBits
<1>3. u % (1 * 65536) = 0 \/ 1 % (u * s) = 0
  BY <1>1, CatalogueAssumption DEF Below
<1> HIDE DEF u, s
<1>4. u + u <= u * s
  <2>1. 1 * u + u <= s * u
    BY <1>2, MoreTimes
  <2>2. s * u = u * s
    BY <1>2
  <2> QED
    BY <1>2, <2>1, <2>2
<1> DEFINE v == u * s
<1>5. v \in Int
  BY <1>2
<1> HIDE DEF v
<1>6. v \in Nat /\ v >= 2 /\ u + u <= v
  BY <1>2, <1>4, <1>5 DEF v
<1>7. ASSUME 1 % v = 0 PROVE FALSE
  <2>1. (0 * v + 1) % v = 1
    BY <1>6, Quotient
  <2>2. 0 * v + 1 = 1
    BY <1>5
  <2> QED
    BY <1>7, <2>1, <2>2
<1>8. ASSUME u % 65536 = 0 PROVE FALSE
  <2>1. u >= 65536
    BY <1>2, <1>8
  <2>2. 65536 < v
    BY <1>2, <1>6, <2>1
  <2>3. (0 * v + 65536) % v = 65536
    BY <1>6, <2>2, Quotient
  <2>4. 0 * v + 65536 = 65536
    BY <1>5
  <2> QED
    BY <1>2, <2>3, <2>4 DEF v
<1> QED
  BY <1>3, <1>7, <1>8 DEF v

\* What a write makes of the register of an item.
NewRaw(it, cur, value) ==
    IF IsWhole(it) THEN Encode(it, value) ELSE MergeRaw(it, cur, Encode(it, value))

\* The part of an item of some bits fits in them.
LEMMA PartFits ==
    ASSUME NEW k \in Keys, ~IsWhole(Items[k]), NEW value \in Int, Valid(Items[k], value)
    PROVE  Encode(Items[k], value) \in 0..(Items[k].size - 1)
<1> DEFINE s == Items[k].size
<1>1. Items[k].kind \in {"toggle", "select"} /\ s \in Nat
  BY BitsKind, ItemBits
<1>2. CASE Items[k].kind = "toggle"
  <2>1. s = 2 /\ Encode(Items[k], value) \in {0, 1}
    BY <1>2, ItemBits DEF WellFormed, Encode
  <2> QED
    BY <2>1
<1>3. CASE Items[k].kind = "select"
  <2>1. Encode(Items[k], value) = value
    BY <1>3 DEF Encode
  <2>2. value \in Items[k].options /\ Items[k].options \subseteq 0..(s - 1)
    BY <1>3, ItemBits DEF WellFormed, Valid
  <2> QED
    BY <2>1, <2>2
<1> QED
  BY <1>1, <1>2, <1>3

\* Merging replaces the field of an item.
LEMMA MergeReplaces ==
    ASSUME NEW k \in Keys, ~IsWhole(Items[k]), NEW value \in Int, Valid(Items[k], value),
           NEW cur \in Word
    PROVE  /\ NewRaw(Items[k], cur, value) \in Word
           /\ FieldOf(NewRaw(Items[k], cur, value), Items[k]) = Encode(Items[k], value)
           /\ NewRaw(Items[k], cur, value) % Items[k].unit = cur % Items[k].unit
           /\ NewRaw(Items[k], cur, value) \div (Items[k].unit * Items[k].size)
                 = cur \div (Items[k].unit * Items[k].size)
<1> DEFINE u == Items[k].unit
           s == Items[k].size
           part == Encode(Items[k], value)
           res == NewRaw(Items[k], cur, value)
<1>1. u \in Nat \ {0} /\ s \in Nat \ {0} /\ Fits(u, s)
  BY ItemBits DEF Fits
<1>2. part \in 0..(s - 1)
  BY PartFits
<1>3. res = cur + ((part % s) - ((cur \div u) % s)) * u
  BY DEF NewRaw, MergeRaw, FieldOf
<1>4. FieldOf(res, Items[k]) = (res \div u) % s
  BY DEF FieldOf
<1> HIDE DEF u, s, part, res
<1>5. part % s = part
  <2>1. (0 * s + part) % s = part
    BY <1>1, <1>2, Quotient
  <2>2. 0 * s + part = part
    BY <1>1, <1>2
  <2> QED
    BY <2>1, <2>2
<1>6. res = Replaced(cur, u, s, part)
  BY <1>3, <1>5 DEF Replaced
<1>7. /\ res \in Word /\ (res \div u) % s = part /\ res % u = cur % u
      /\ res \div (u * s) = cur \div (u * s)
  <2> DEFINE new == Replaced(cur, u, s, part)
  <2>1. /\ new \in Word /\ (new \div u) % s = part /\ new % u = cur % u
        /\ new \div (u * s) = cur \div (u * s)
    BY <1>1, <1>2, FieldReplaced
  <2> QED
    BY <1>6, <2>1
<1> QED
  BY <1>4, <1>7 DEF u, s, part, res

-----------------------------------------------------------------------------
(* What is shown of what was written.                                      *)

\* A word is a natural number.
LEMMA WordIsNat ==
    ASSUME NEW x \in Word
    PROVE  x \in Nat /\ x <= 65535
BY DEF Word

\* A larger number has no smaller quotient.
LEMMA DivGrows ==
    ASSUME NEW a \in Nat, NEW b \in Nat, a <= b, NEW c \in Nat \ {0}
    PROVE  a \div c <= b \div c
<1> DEFINE p == a \div c
           q == b \div c
<1>1. p \in Nat /\ a % c \in 0..(c - 1) /\ a = p * c + (a % c)
  BY DivMod
<1>2. q \in Nat /\ b % c \in 0..(c - 1) /\ b = q * c + (b % c)
  BY DivMod
<1> HIDE DEF p, q
<1>3. ASSUME q < p PROVE FALSE
  <2>1. q * c + c <= p * c
    BY <1>1, <1>2, <1>3, MoreTimes
  <2>2. q * c \in Int /\ p * c \in Int
    BY <1>1, <1>2
  <2> QED
    BY <1>1, <1>2, <2>1, <2>2
<1>4. p <= q
  BY <1>1, <1>2, <1>3
<1> QED
  BY <1>4 DEF p, q

\* A whole register is its own field.
LEMMA WholeField ==
    ASSUME NEW it, IsWhole(it), NEW word \in Word
    PROVE  FieldOf(word, it) = word
<1>1. FieldOf(word, it) = (word \div 1) % 65536
  BY DEF FieldOf, IsWhole
<1>2. word \in Nat /\ word <= 65535
  BY WordIsNat
<1>3. (word \div 1) % 65536 = word
  BY <1>2
<1> QED
  BY <1>1, <1>3

\* A number is written and shown without what is less than a step.
LEMMA NumberShown ==
    ASSUME NEW k \in Keys, Items[k].kind = "number", NEW value \in Int,
           Valid(Items[k], value)
    PROVE  /\ Encode(Items[k], value) \in Word
           /\ Extract(Items[k], Encode(Items[k], value)) = value - (value % Items[k].step)
<1> DEFINE step == Items[k].step
           max == Items[k].max
           word == value \div step
           part == Encode(Items[k], value)
<1>1. /\ IsWhole(Items[k]) /\ Items[k].high \in BOOLEAN
      /\ step \in Nat \ {0} /\ Items[k].min \in Nat /\ max \in Nat
      /\ max \div step < IF Items[k].high THEN 256 ELSE 65536
  BY ItemBits DEF WellFormed
<1>2. Items[k].min <= value /\ value <= max
  BY DEF Valid
<1>3. part = IF Items[k].high THEN (word % 256) * 256 ELSE word
  BY DEF Encode
<1>4. Items[k].high => Extract(Items[k], part) = step * (part \div 256)
  BY DEF Extract
<1>5. ~Items[k].high => Extract(Items[k], part) = step * FieldOf(part, Items[k])
  BY DEF Extract
<1> HIDE DEF step, max, part
<1>6. value \in Nat
  BY <1>1, <1>2
<1>13. step \in Nat \ {0} /\ max \in Nat
  BY <1>1
<1>7. word \in Nat /\ value % step \in 0..(step - 1) /\ value = word * step + (value % step)
  BY <1>6, <1>13, DivMod
<1>8. word <= max \div step
  BY <1>2, <1>6, <1>13, DivGrows
<1>9. max \div step \in Nat
  BY <1>13, DivMod
<1> HIDE DEF word
<1>10. step * word = value - (value % step)
  <2>1. step * word = word * step /\ word * step \in Nat
    BY <1>1, <1>7
  <2> QED
    BY <1>1, <1>6, <1>7, <2>1
<1>11. CASE Items[k].high
  <2>1. word < 256
    BY <1>1, <1>7, <1>8, <1>9, <1>11
  <2>2. part = word * 256
    BY <1>3, <1>7, <1>11, <2>1
  <2>3. part \in Nat /\ part <= 65535 /\ part \div 256 = word
    BY <1>7, <2>1, <2>2
  <2>4. part \in Word
    BY <2>3, WordBound
  <2> QED
    BY <1>4, <1>10, <1>11, <2>3, <2>4 DEF part, step
<1>12. CASE ~Items[k].high
  <2>1. word <= 65535
    BY <1>1, <1>7, <1>8, <1>9, <1>12
  <2>2. part = word
    BY <1>3, <1>12
  <2>3. part \in Word
    BY <1>7, <2>1, <2>2, WordBound
  <2>4. FieldOf(part, Items[k]) = part
    BY <1>1, <2>3, WholeField
  <2> QED
    BY <1>5, <1>10, <1>12, <2>2, <2>3, <2>4 DEF part, step
<1> QED
  BY <1>11, <1>12

\* A time of day is shown as it is written.
LEMMA TimeShown ==
    ASSUME NEW k \in Keys, Items[k].kind = "time", NEW value \in Int,
           Valid(Items[k], value)
    PROVE  /\ Encode(Items[k], value) \in Word
           /\ Extract(Items[k], Encode(Items[k], value)) = value - (value % Items[k].step)
<1> DEFINE part == Encode(Items[k], value)
<1>1. /\ Items[k].step = 1 /\ Items[k].min = 0 /\ Items[k].max = 1439
  BY ItemBits DEF WellFormed
<1>2. 0 <= value /\ value <= 1439
  BY <1>1 DEF Valid
<1>3. part = (value % 60) * 256 + (value \div 60)
  BY DEF Encode
<1>4. Extract(Items[k], part) = 60 * (part % 256) + (part \div 256)
  BY DEF Extract
<1> HIDE DEF part
<1>5. part \in Nat /\ part <= 65535
  BY <1>2, <1>3
<1>6. part % 256 = value \div 60 /\ part \div 256 = value % 60
  BY <1>2, <1>3
<1>7. 60 * (part % 256) + (part \div 256) = value - (value % 1)
  BY <1>2, <1>6
<1>8. part \in Word
  BY <1>5, WordBound
<1> QED
  BY <1>1, <1>4, <1>7, <1>8 DEF part

\* A select of a whole register is shown as it is written.
LEMMA WholeSelectShown ==
    ASSUME NEW k \in Keys, Items[k].kind = "select", IsWhole(Items[k]), NEW value \in Int,
           Valid(Items[k], value)
    PROVE  /\ Encode(Items[k], value) \in Word
           /\ Extract(Items[k], Encode(Items[k], value)) = value
<1>1. value \in Items[k].options /\ Items[k].options \subseteq 0..(Items[k].size - 1)
  BY ItemBits DEF WellFormed, Valid
<1>2. Items[k].size = 65536
  BY DEF IsWhole
<1>6. Items[k].size \in Nat \ {0}
  BY ItemBits
<1>7. value \in Nat /\ value <= Items[k].size - 1
  BY <1>1, <1>6
<1>3. value \in Nat /\ value <= 65535
  BY <1>2, <1>7
<1>4. value \in Word
  BY <1>3, WordBound
<1>5. Encode(Items[k], value) = value /\ Extract(Items[k], value) = FieldOf(value, Items[k])
  BY DEF Encode, Extract
<1> QED
  BY <1>4, <1>5, WholeField

\* What is written to an item is shown, and its register still holds a word.
LEMMA WrittenIsShown ==
    ASSUME NEW k \in Keys, NEW value \in Int, Valid(Items[k], value), NEW cur \in Word
    PROVE  /\ NewRaw(Items[k], cur, value) \in Word
           /\ Extract(Items[k], NewRaw(Items[k], cur, value)) = Meant(Items[k], value)
<1> DEFINE res == NewRaw(Items[k], cur, value)
<1>1. CASE ~IsWhole(Items[k])
  <2>1. res \in Word /\ FieldOf(res, Items[k]) = Encode(Items[k], value)
    BY <1>1, MergeReplaces
  <2>2. Items[k].kind \in {"toggle", "select"}
    BY <1>1, BitsKind
  <2> HIDE DEF res
  <2>3. Extract(Items[k], res) = Encode(Items[k], value)
    BY <2>1, <2>2 DEF Extract
  <2>4. Encode(Items[k], value) = Meant(Items[k], value)
    BY <2>2 DEF Encode, Meant
  <2> QED
    BY <2>1, <2>3, <2>4 DEF res
<1>2. CASE IsWhole(Items[k])
  <2>1. res = Encode(Items[k], value)
    BY <1>2 DEF NewRaw
  <2>2. Items[k].kind \in {"select", "number", "time"}
    BY <1>2, ItemBits DEF WellFormed, IsWhole
  <2>3. CASE Items[k].kind = "select"
    <3>1. Meant(Items[k], value) = value
      BY <2>3 DEF Meant
    <3> QED
      BY <1>2, <2>1, <2>3, <3>1, WholeSelectShown
  <2>4. CASE Items[k].kind = "number"
    <3>1. Meant(Items[k], value) = value - (value % Items[k].step)
      BY <2>4 DEF Meant
    <3> QED
      BY <2>1, <2>4, <3>1, NumberShown
  <2>5. CASE Items[k].kind = "time"
    <3>1. Meant(Items[k], value) = value - (value % Items[k].step)
      BY <2>5 DEF Meant
    <3> QED
      BY <2>1, <2>5, <3>1, TimeShown
  <2> QED
    BY <2>2, <2>3, <2>4, <2>5
<1> QED
  BY <1>1, <1>2

\* A write of one item leaves what the others of its register show.
LEMMA OthersInRegister ==
    ASSUME NEW j \in Keys, NEW k \in Keys, j # k, Items[j].reg = Items[k].reg,
           NEW value \in Int, Valid(Items[k], value), NEW cur \in Word
    PROVE  Extract(Items[j], NewRaw(Items[k], cur, value)) = Extract(Items[j], cur)
<1> DEFINE res == NewRaw(Items[k], cur, value)
           u == Items[k].unit
           s == Items[k].size
           v == Items[j].unit
           t == Items[j].size
<1>1. ~IsWhole(Items[j]) /\ ~IsWhole(Items[k])
  BY WholeIsAlone
<1>2. /\ res \in Word /\ res % u = cur % u
      /\ res \div (u * s) = cur \div (u * s)
  BY <1>1, MergeReplaces
<1>3. /\ u \in Nat \ {0} /\ s \in Nat \ {0} /\ v \in Nat \ {0} /\ t \in Nat \ {0}
  BY ItemBits
<1>4. u % (v * t) = 0 \/ v % (u * s) = 0
  BY CatalogueAssumption DEF Below
<1>5. Items[j].kind \in {"toggle", "select"}
  BY <1>1, BitsKind
<1>6. \A word : Extract(Items[j], word) = (word \div v) % t
  BY <1>5 DEF Extract, FieldOf
<1>7. cur \in Nat /\ res \in Nat
  BY <1>2, WordIsNat
<1> HIDE DEF res, u, s, v, t
<1>8. CASE u % (v * t) = 0
  <2>1. (cur \div v) % t = ((cur % u) \div v) % t
    BY <1>3, <1>7, <1>8, FieldBelow
  <2>2. (res \div v) % t = ((res % u) \div v) % t
    BY <1>3, <1>7, <1>8, FieldBelow
  <2> QED
    BY <1>2, <1>6, <2>1, <2>2 DEF res
<1>9. CASE v % (u * s) = 0
  <2> DEFINE p == u * s
  <2>1. p \in Nat \ {0}
    <3>1. 0 * s + s <= u * s
      BY <1>3, MoreTimes
    <3> QED
      BY <1>3, <3>1
  <2>2. v % p = 0 /\ res \div p = cur \div p
    BY <1>2, <1>9
  <2> HIDE DEF p
  <2>3. cur \div v = (cur \div p) \div (v \div p)
    BY <1>3, <1>7, <2>1, <2>2, FieldAbove
  <2>4. res \div v = (res \div p) \div (v \div p)
    BY <1>3, <1>7, <2>1, <2>2, FieldAbove
  <2> QED
    BY <1>6, <2>2, <2>3, <2>4 DEF res
<1> QED
  BY <1>4, <1>8, <1>9

-----------------------------------------------------------------------------
(* Recursion over the natural numbers.                                     *)

\* A set of natural numbers has a least member.
LEMMA LeastNumber ==
    ASSUME NEW T \in SUBSET Nat, T # {}
    PROVE  \E x \in T : \A y \in T : x <= y
<1>1. PICK x \in T : \A y \in T : ~(<<y, x>> \in OpToRel(<, Nat))
  BY NatLessThanWellFounded, WFMin
<1>2. ASSUME NEW y \in T PROVE x <= y
  <2>1. ~(y < x)
    BY <1>1, <1>2 DEF OpToRel
  <2> QED
    BY <1>2, <2>1
<1> QED
  BY <1>2

\* The first n values of a function that begins with base and goes on with step.
Solves(f, n, A, base, step) ==
    /\ f \in [0..n -> A] /\ f[0] = base
    /\ \A i \in 0..(n - 1) : f[i + 1] = step[i][f[i]]

\* There is one for each n.
LEMMA FirstValues ==
    ASSUME NEW A, NEW base \in A, NEW step \in [Nat -> [A -> A]], NEW n \in Nat
    PROVE  \E f : Solves(f, n, A, base, step)
<1> DEFINE Bad == {k \in Nat : ~\E f : Solves(f, k, A, base, step)}
<1>1. SUFFICES ASSUME Bad # {} PROVE FALSE
  OBVIOUS
<1>2. PICK k \in Bad : \A l \in Bad : k <= l
  BY <1>1, LeastNumber
<1>3. k # 0
  <2> DEFINE e == [i \in 0..0 |-> base]
  <2>1. Solves(e, 0, A, base, step)
    BY DEF Solves
  <2> QED
    BY <1>2, <2>1
<1>4. k - 1 \in Nat /\ k - 1 \notin Bad
  <2>1. k \in Nat
    BY <1>2
  <2>2. k - 1 \in Nat /\ ~(k <= k - 1)
    BY <1>3, <2>1
  <2> QED
    BY <1>2, <2>2
<1>5. PICK f : Solves(f, k - 1, A, base, step)
  BY <1>4
<1> DEFINE g == [i \in 0..k |-> IF i = k THEN step[k - 1][f[k - 1]] ELSE f[i]]
<1>6. /\ f \in [0..(k - 1) -> A] /\ f[0] = base
      /\ \A i \in 0..(k - 2) : f[i + 1] = step[i][f[i]]
  <2>1. (k - 1) - 1 = k - 2
    BY <1>4
  <2> QED
    BY <1>5, <2>1 DEF Solves
<1>7. g \in [0..k -> A]
  <2>1. step[k - 1][f[k - 1]] \in A
    BY <1>4, <1>6
  <2>2. ASSUME NEW i \in 0..k, i # k PROVE f[i] \in A
    BY <1>4, <1>6, <2>2
  <2> QED
    BY <2>1, <2>2
<1>8. g[0] = base
  BY <1>3, <1>4, <1>6
<1>9. ASSUME NEW i \in 0..(k - 1) PROVE g[i + 1] = step[i][g[i]]
  <2>1. g[i] = f[i]
    BY <1>4
  <2>2. CASE i = k - 1
    BY <1>4, <2>1, <2>2
  <2>3. CASE i # k - 1
    <3>1. i \in 0..(k - 2) /\ i + 1 \in 0..k /\ i + 1 # k
      BY <1>4, <2>3
    <3> QED
      BY <1>6, <2>1, <3>1
  <2> QED
    BY <2>2, <2>3
<1>10. Solves(g, k, A, base, step)
  <2> HIDE DEF g
  <2> QED
    BY <1>7, <1>8, <1>9 DEF Solves
<1> QED
  BY <1>2, <1>10

\* Two of them agree as far as both go.
LEMMA ValuesAgree ==
    ASSUME NEW A, NEW base \in A, NEW step \in [Nat -> [A -> A]],
           NEW m \in Nat, NEW n \in Nat, NEW f, NEW g,
           Solves(f, m, A, base, step), Solves(g, n, A, base, step),
           NEW x \in Nat, x <= m, x <= n
    PROVE  f[x] = g[x]
<1> DEFINE Bad == {i \in Nat : i <= m /\ i <= n /\ f[i] # g[i]}
<1>1. SUFFICES ASSUME Bad # {} PROVE FALSE
  OBVIOUS
<1>2. PICK k \in Bad : \A l \in Bad : k <= l
  BY <1>1, LeastNumber
<1>3. k \in Nat /\ k <= m /\ k <= n /\ f[k] # g[k]
  BY <1>2
<1>4. k # 0
  BY <1>3 DEF Solves
<1>5. k - 1 \in Nat /\ ~(k <= k - 1) /\ k - 1 <= m /\ k - 1 <= n
  BY <1>3, <1>4
<1>6. f[k - 1] = g[k - 1]
  BY <1>2, <1>5
<1>7. k - 1 \in 0..(m - 1) /\ k - 1 \in 0..(n - 1) /\ (k - 1) + 1 = k
  BY <1>3, <1>5
<1>8. f[k] = step[k - 1][f[k - 1]] /\ g[k] = step[k - 1][g[k - 1]]
  BY <1>7 DEF Solves
<1> QED
  BY <1>3, <1>6, <1>8

\* f begins with base and goes on with step, for every n.
Follows(f, A, base, step) ==
    f \in [Nat -> A] /\ f[0] = base /\ \A n \in Nat : f[n + 1] = step[n][f[n]]

\* Recursion defines a function.
LEMMA Recursion ==
    ASSUME NEW A, NEW base \in A, NEW step \in [Nat -> [A -> A]]
    PROVE  \E f : Follows(f, A, base, step)
<1> DEFINE F(n) == CHOOSE f : Solves(f, n, A, base, step)
           g == [n \in Nat |-> F(n)[n]]
<1>1. ASSUME NEW n \in Nat PROVE Solves(F(n), n, A, base, step)
  BY FirstValues
<1> HIDE DEF F
<1>2. g \in [Nat -> A]
  <2>1. ASSUME NEW n \in Nat PROVE F(n)[n] \in A
    BY <1>1 DEF Solves
  <2> QED
    BY <2>1
<1>3. g[0] = base
  BY <1>1 DEF Solves
<1>4. ASSUME NEW n \in Nat PROVE g[n + 1] = step[n][g[n]]
  <2>1. n + 1 \in Nat /\ n \in 0..((n + 1) - 1) /\ n <= n + 1 /\ n <= n
    OBVIOUS
  <2>2. F(n + 1)[n + 1] = step[n][F(n + 1)[n]]
    BY <1>1, <2>1 DEF Solves
  <2>3. F(n + 1)[n] = F(n)[n]
    <3> DEFINE m == n + 1
               f == F(m)
               h == F(n)
    <3>1. m \in Nat /\ n <= m /\ n <= n
      OBVIOUS
    <3>2. Solves(f, m, A, base, step) /\ Solves(h, n, A, base, step)
      BY <1>1, <3>1
    <3> HIDE DEF m, f, h
    <3>3. f[n] = h[n]
      BY <3>1, <3>2, ValuesAgree
    <3> QED
      BY <3>3 DEF f, h, m
  <2> QED
    BY <2>1, <2>2, <2>3
<1> HIDE DEF g
<1>5. Follows(g, A, base, step)
  BY <1>2, <1>3, <1>4 DEF Follows
<1> QED
  BY <1>5

-----------------------------------------------------------------------------
\* The type of a range.
RangeRec == [start : Nat, count : Nat]

\* Joining a block keeps a sequence of ranges.
LEMMA JoinType ==
    ASSUME NEW q \in Seq(RangeRec), NEW base \in Nat
    PROVE  Join(q, base) \in Seq(RangeRec)
<1> DEFINE last == Len(q)
           one == [start |-> base, count |-> BlockCount]
           longer == [q EXCEPT ![last].count = @ + BlockCount]
<1>1. Append(q, one) \in Seq(RangeRec)
  <2>1. one \in RangeRec
    BY DEF RangeRec, BlockCount
  <2> HIDE DEF one
  <2> QED
    BY <2>1
<1>2. ASSUME q # <<>> PROVE longer \in Seq(RangeRec)
  <2>1. last \in 1..Len(q) /\ q[last] \in RangeRec
    BY <1>2
  <2>2. [q[last] EXCEPT !.count = @ + BlockCount] \in RangeRec
    BY <2>1 DEF RangeRec, BlockCount
  <2> DEFINE x == [q[last] EXCEPT !.count = @ + BlockCount]
  <2>3. longer = [q EXCEPT ![last] = x]
    OBVIOUS
  <2> HIDE DEF x
  <2> QED
    BY <2>1, <2>2, <2>3
<1> HIDE DEF longer, one
<1>3. (Join(q, base) = longer /\ q # <<>>) \/ Join(q, base) = Append(q, one)
  BY DEF Join, longer, one
<1> QED
  BY <1>1, <1>2, <1>3

\* The ranges are what the loop over the blocks makes of them.
LEMMA JoinedIs ==
    ASSUME NEW blocks \in SUBSET Nat
    PROVE  /\ Joined(blocks)[0] = <<>>
           /\ \A n \in Nat : Joined(blocks)[n + 1] =
                 IF n \in blocks THEN Join(Joined(blocks)[n], n * BlockCount)
                 ELSE Joined(blocks)[n]
<1> DEFINE A == Seq(RangeRec)
           Step(n, q) == IF n \in blocks THEN Join(q, n * BlockCount) ELSE q
           step == [n \in Nat |-> [q \in A |-> Step(n, q)]]
<1>1. ASSUME NEW n \in Nat, NEW q \in A PROVE Step(n, q) \in A
  <2>1. n * BlockCount \in Nat
    BY DEF BlockCount
  <2> QED
    BY <2>1, JoinType
<1>2. <<>> \in A
  OBVIOUS
<1> HIDE DEF A, Step
<1>3. step \in [Nat -> [A -> A]]
  BY <1>1
<1>4. PICK f \in [Nat -> A] : /\ f[0] = <<>>
                              /\ \A n \in Nat : f[n + 1] = step[n][f[n]]
  <2> HIDE DEF step
  <2> DEFINE base == <<>>
  <2>1. base \in A
    BY <1>2
  <2> HIDE DEF base
  <2>2. PICK f : Follows(f, A, base, step)
    BY <1>3, <2>1, Recursion
  <2> QED
    BY <2>2 DEF Follows, base
<1>5. ASSUME NEW n \in Nat PROVE f[n + 1] = Step(n, f[n])
  BY <1>4
<1>6. ASSUME NEW n \in Nat PROVE f[n] = IF n = 0 THEN <<>> ELSE Step(n - 1, f[n - 1])
  <2>1. CASE n = 0
    BY <1>4, <2>1
  <2>2. CASE n # 0
    <3>1. n - 1 \in Nat /\ (n - 1) + 1 = n
      BY <2>2
    <3> QED
      BY <1>5, <2>2, <3>1
  <2> QED
    BY <2>1, <2>2
<1>7. f = [n \in Nat |-> IF n = 0 THEN <<>> ELSE Step(n - 1, f[n - 1])]
  BY <1>4, <1>6
<1>8. f = [n \in Nat |->
              IF n = 0 THEN <<>>
              ELSE IF n - 1 \in blocks THEN Join(f[n - 1], (n - 1) * BlockCount)
              ELSE f[n - 1]]
  BY <1>7, Zenon DEF Step
<1> DEFINE j == Joined(blocks)
<1>9. j = [n \in Nat |->
              IF n = 0 THEN <<>>
              ELSE IF n - 1 \in blocks THEN Join(j[n - 1], (n - 1) * BlockCount)
              ELSE j[n - 1]]
  BY <1>8, Zenon DEF Joined
<1>10. j = [n \in Nat |-> IF n = 0 THEN <<>> ELSE Step(n - 1, j[n - 1])]
  BY <1>9 DEF Step
<1> HIDE DEF j
<1>11. j[0] = <<>>
  BY <1>10
<1>12. ASSUME NEW n \in Nat PROVE j[n + 1] = Step(n, j[n])
  <2>1. n + 1 \in Nat /\ n + 1 # 0 /\ (n + 1) - 1 = n
    OBVIOUS
  <2>2. j[n + 1] = IF n + 1 = 0 THEN <<>> ELSE Step((n + 1) - 1, j[(n + 1) - 1])
    BY <1>10, <2>1
  <2> QED
    BY <2>1, <2>2
<1> QED
  BY <1>11, <1>12 DEF j, Step

-----------------------------------------------------------------------------
(* The ranges of read_items: an invariant of the loop.                     *)

\* The block b is in the range.
Has(range, b) == range.start <= b * BlockCount /\ b * BlockCount < range.start + range.count

\* A range of whole blocks below n.
Good(range, n) ==
    /\ range \in RangeRec /\ range.start % BlockCount = 0 /\ range.count % BlockCount = 0
    /\ 0 < range.count /\ range.count <= Longest /\ range.start + range.count <= n * BlockCount

\* The ranges q serve the blocks below n.
Serves(q, blocks, n) ==
    /\ q \in Seq(RangeRec)
    /\ \A i \in DOMAIN q : Good(q[i], n)
    /\ \A i, j \in DOMAIN q : i < j => q[i].start + q[i].count <= q[j].start
    /\ \A b \in Nat : (b \in blocks /\ b < n) <=> \E i \in DOMAIN q : Has(q[i], b)
    /\ \A b \in Nat : (b \in Firsts(blocks) /\ b < n)
                         <=> \E i \in DOMAIN q : q[i].start = b * BlockCount

\* The longest request is one block or more.
LEMMA LongestIs ==
    /\ Longest \in Nat /\ 40 <= Longest
    /\ Longest \div BlockCount \in Nat \ {0}
    /\ \A c \in Nat : c * 40 <= Longest <=> c <= Longest \div BlockCount
<1>1. Longest \in Nat /\ 40 <= Longest
  BY CatalogueAssumption DEF Longest, BlockCount
<1> QED
  BY <1>1 DEF BlockCount

\* A range below n is below n + 1.
LEMMA GoodLater ==
    ASSUME NEW range, NEW n \in Nat, Good(range, n)
    PROVE  Good(range, n + 1)
BY DEF Good, RangeRec, BlockCount

\* A good range is some blocks.
LEMMA GoodBlocks ==
    ASSUME NEW range, NEW n \in Nat, Good(range, n)
    PROVE  /\ range.start \div BlockCount \in Nat
           /\ range.count \div BlockCount \in Nat \ {0}
           /\ range.start = (range.start \div BlockCount) * 40
           /\ range.count = (range.count \div BlockCount) * 40
           /\ (range.start \div BlockCount) + (range.count \div BlockCount) <= n
           /\ range.count \div BlockCount <= Longest \div BlockCount
<1> DEFINE start == range.start
           count == range.count
<1>1. /\ start \in Nat /\ count \in Nat /\ start % 40 = 0 /\ count % 40 = 0
      /\ 0 < count /\ count <= Longest /\ start + count <= n * 40
  BY DEF Good, RangeRec, BlockCount
<1> HIDE DEF start, count
<1> DEFINE a == start \div 40
           c == count \div 40
<1>2. a \in Nat /\ c \in Nat /\ start = a * 40 /\ count = c * 40
  BY <1>1
<1> HIDE DEF a, c
<1>3. c # 0 /\ a + c <= n
  BY <1>1, <1>2
<1>4. c <= Longest \div BlockCount
  BY <1>1, <1>2, LongestIs
<1> QED
  BY <1>2, <1>3, <1>4 DEF a, c, start, count, BlockCount

\* There is nothing to do for a block that is not needed.
LEMMA ServesSkip ==
    ASSUME NEW blocks \in SUBSET Nat, NEW n \in Nat, n \notin blocks, NEW q,
           Serves(q, blocks, n)
    PROVE  Serves(q, blocks, n + 1)
<1>2. \A b \in Nat : (b \in blocks /\ b < n + 1) <=> (b \in blocks /\ b < n)
  OBVIOUS
<1>3. Firsts(blocks) \subseteq blocks
  BY DEF Firsts
<1>4. \A b \in Nat : (b \in Firsts(blocks) /\ b < n + 1) <=> (b \in Firsts(blocks) /\ b < n)
  BY <1>3
<1> HIDE DEF Good
<1>5. /\ q \in Seq(RangeRec)
      /\ \A i \in DOMAIN q : Good(q[i], n + 1)
      /\ \A i, j \in DOMAIN q : i < j => q[i].start + q[i].count <= q[j].start
  BY GoodLater DEF Serves
<1>6. \A b \in Nat : (b \in blocks /\ b < n + 1) <=> \E i \in DOMAIN q : Has(q[i], b)
  BY <1>2 DEF Serves
<1>7. \A b \in Nat : (b \in Firsts(blocks) /\ b < n + 1)
                        <=> \E i \in DOMAIN q : q[i].start = b * BlockCount
  BY <1>4 DEF Serves
<1> QED
  BY <1>5, <1>6, <1>7 DEF Serves

\* A range of its own serves the next block, when one has to start there.
LEMMA ServesAppend ==
    ASSUME NEW blocks \in SUBSET Nat, NEW n \in Nat, n \in Firsts(blocks), NEW q,
           Serves(q, blocks, n)
    PROVE  Serves(Append(q, [start |-> n * BlockCount, count |-> BlockCount]), blocks, n + 1)
<1> DEFINE one == [start |-> n * BlockCount, count |-> BlockCount]
           p == Append(q, one)
           m == Len(q)
<1>1. /\ one \in RangeRec /\ one.start = n * 40 /\ one.count = 40
  BY DEF RangeRec, BlockCount
<1> HIDE DEF one
<1>2. q \in Seq(RangeRec) /\ \A i \in DOMAIN q : Good(q[i], n)
  BY DEF Serves
<1>3. /\ p \in Seq(RangeRec) /\ DOMAIN q = 1..m /\ DOMAIN p = 1..(m + 1) /\ m \in Nat
      /\ p[m + 1] = one /\ \A i \in 1..m : p[i] = q[i]
  BY <1>1, <1>2
<1> HIDE DEF p, m
<1>4. n \in blocks
  BY DEF Firsts
<1>5. ASSUME NEW i \in DOMAIN p PROVE Good(p[i], n + 1)
  <2>1. CASE i = m + 1
    BY <1>1, <1>3, <2>1, LongestIs DEF Good, BlockCount
  <2>2. CASE i # m + 1
    <3>1. i \in DOMAIN q /\ p[i] = q[i]
      BY <1>3, <2>2
    <3>2. Good(q[i], n)
      BY <1>2, <3>1
    <3> QED
      BY <3>1, <3>2, GoodLater
  <2> QED
    BY <2>1, <2>2
<1>6. ASSUME NEW i \in DOMAIN p, NEW j \in DOMAIN p, i < j
      PROVE  p[i].start + p[i].count <= p[j].start
  <2>1. i \in DOMAIN q /\ p[i] = q[i]
    BY <1>3, <1>6
  <2>2. CASE j = m + 1
    <3>1. Good(q[i], n)
      BY <1>2, <2>1
    <3> QED
      BY <1>1, <1>3, <2>1, <2>2, <3>1 DEF Good, BlockCount
  <2>3. CASE j # m + 1
    <3>1. j \in DOMAIN q /\ p[j] = q[j]
      BY <1>3, <2>3
    <3> QED
      BY <1>6, <2>1, <3>1 DEF Serves
  <2> QED
    BY <2>2, <2>3
<1>7. \A b \in Nat : Has(one, b) <=> b = n
  BY <1>1 DEF Has, BlockCount
<1>8. ASSUME NEW b \in Nat
      PROVE  (\E i \in DOMAIN p : Has(p[i], b))
                <=> Has(one, b) \/ \E i \in DOMAIN q : Has(q[i], b)
  <2>1. m + 1 \in DOMAIN p /\ \A i \in DOMAIN q : i \in DOMAIN p
    BY <1>3
  <2>2. \A i \in DOMAIN p : i = m + 1 \/ i \in DOMAIN q
    BY <1>3
  <2> QED
    BY <1>3, <2>1, <2>2
<1>9. ASSUME NEW b \in Nat
      PROVE  (b \in blocks /\ b < n + 1) <=> \E i \in DOMAIN p : Has(p[i], b)
  <2>1. (b \in blocks /\ b < n) <=> \E i \in DOMAIN q : Has(q[i], b)
    BY DEF Serves
  <2>2. (b \in blocks /\ b < n + 1) <=> (b = n \/ (b \in blocks /\ b < n))
    BY <1>4
  <2> QED
    BY <1>7, <1>8, <2>1, <2>2
<1>10. ASSUME NEW b \in Nat
       PROVE  (\E i \in DOMAIN p : p[i].start = b * BlockCount)
                 <=> b = n \/ \E i \in DOMAIN q : q[i].start = b * BlockCount
  <2>1. m + 1 \in DOMAIN p /\ \A i \in DOMAIN q : i \in DOMAIN p
    BY <1>3
  <2>2. \A i \in DOMAIN p : i = m + 1 \/ i \in DOMAIN q
    BY <1>3
  <2>3. one.start = b * BlockCount <=> b = n
    BY <1>1 DEF BlockCount
  <2> QED
    BY <1>3, <2>1, <2>2, <2>3
<1>11. ASSUME NEW b \in Nat
       PROVE  (b \in Firsts(blocks) /\ b < n + 1)
                 <=> \E i \in DOMAIN p : p[i].start = b * BlockCount
  <2>1. (b \in Firsts(blocks) /\ b < n) <=> \E i \in DOMAIN q : q[i].start = b * BlockCount
    BY DEF Serves
  <2>2. (b \in Firsts(blocks) /\ b < n + 1) <=> (b = n \/ (b \in Firsts(blocks) /\ b < n))
    OBVIOUS
  <2> QED
    BY <1>10, <2>1, <2>2
<1>12. Serves(p, blocks, n + 1)
  BY <1>3, <1>5, <1>6, <1>9, <1>11 DEF Serves
<1> QED
  BY <1>12 DEF p, one

\* The last range serves the next block as well, when it ends there.
LEMMA ServesLonger ==
    ASSUME NEW blocks \in SUBSET Nat, NEW n \in blocks, n \notin Firsts(blocks), NEW q,
           Serves(q, blocks, n), q # <<>>,
           q[Len(q)].start + q[Len(q)].count = n * BlockCount,
           q[Len(q)].count + BlockCount <= Longest
    PROVE  Serves([q EXCEPT ![Len(q)].count = @ + BlockCount], blocks, n + 1)
<1> DEFINE m == Len(q)
           last == q[m]
           longer == [q[m] EXCEPT !.count = @ + BlockCount]
           p == [q EXCEPT ![m] = longer]
<1>1. q \in Seq(RangeRec) /\ \A i \in DOMAIN q : Good(q[i], n)
  BY DEF Serves
<1>2. m \in Nat \ {0} /\ DOMAIN q = 1..m /\ \A i \in DOMAIN q : q[i] \in RangeRec
  BY <1>1
<1>3. Good(last, n) /\ last \in RangeRec
  BY <1>1, <1>2
<1>4. last.start + last.count = n * 40 /\ last.count + 40 <= Longest
  BY DEF BlockCount
<1>5. /\ longer \in RangeRec /\ longer.start = last.start /\ longer.count = last.count + 40
  BY <1>3 DEF RangeRec, BlockCount
<1>6. p = [q EXCEPT ![Len(q)].count = @ + BlockCount]
  OBVIOUS
<1> HIDE DEF longer, m
<1>7. /\ p \in Seq(RangeRec) /\ DOMAIN p = DOMAIN q
      /\ p[m] = longer /\ \A i \in DOMAIN q : i # m => p[i] = q[i]
  BY <1>1, <1>2, <1>5
<1> HIDE DEF p, last
<1>8. q[m] = last /\ m \in DOMAIN q /\ n \in Nat
  BY <1>2 DEF last
<1>9. ASSUME NEW i \in DOMAIN p PROVE Good(p[i], n + 1)
  <2>1. CASE i = m
    <3>1. /\ last.start \in Nat /\ last.count \in Nat
          /\ last.start % 40 = 0 /\ last.count % 40 = 0
      BY <1>3 DEF Good, RangeRec, BlockCount
    <3>2. /\ longer.start % 40 = 0 /\ longer.count % 40 = 0 /\ 0 < longer.count
          /\ longer.count <= Longest /\ longer.start + longer.count <= (n + 1) * 40
      BY <1>4, <1>5, <1>8, <3>1, LongestIs
    <3>3. Good(longer, n + 1)
      BY <1>5, <3>2 DEF Good, BlockCount
    <3> QED
      BY <1>7, <2>1, <3>3
  <2>2. CASE i # m
    <3>1. p[i] = q[i] /\ Good(q[i], n)
      BY <1>1, <1>7, <2>2
    <3>2. Good(q[i], n + 1)
      BY <1>8, <3>1, GoodLater
    <3> QED
      BY <3>1, <3>2
  <2> QED
    BY <2>1, <2>2
<1>10. ASSUME NEW i \in DOMAIN p, NEW j \in DOMAIN p, i < j
       PROVE  p[i].start + p[i].count <= p[j].start
  <2>1. i # m /\ p[i] = q[i] /\ p[j].start = q[j].start
    BY <1>2, <1>5, <1>7, <1>8, <1>10
  <2>2. q[i].start + q[i].count <= q[j].start
    BY <1>7, <1>10 DEF Serves
  <2> QED
    BY <2>1, <2>2
<1>11. ASSUME NEW b \in Nat PROVE Has(longer, b) <=> b = n \/ Has(last, b)
  BY <1>3, <1>4, <1>5, <1>8 DEF Has, RangeRec, BlockCount, Good
<1>12. ASSUME NEW b \in Nat
       PROVE  (\E i \in DOMAIN p : Has(p[i], b)) <=> b = n \/ \E i \in DOMAIN q : Has(q[i], b)
  BY <1>7, <1>8, <1>11
<1>13. ASSUME NEW b \in Nat
       PROVE  (b \in blocks /\ b < n + 1) <=> \E i \in DOMAIN p : Has(p[i], b)
  <2>1. (b \in blocks /\ b < n) <=> \E i \in DOMAIN q : Has(q[i], b)
    BY DEF Serves
  <2>2. (b \in blocks /\ b < n + 1) <=> (b = n \/ (b \in blocks /\ b < n))
    BY <1>8
  <2> QED
    BY <1>12, <2>1, <2>2
<1>14. ASSUME NEW b \in Nat
       PROVE  (b \in Firsts(blocks) /\ b < n + 1)
                 <=> \E i \in DOMAIN p : p[i].start = b * BlockCount
  <2>1. (b \in Firsts(blocks) /\ b < n) <=> \E i \in DOMAIN q : q[i].start = b * BlockCount
    BY DEF Serves
  <2>2. (b \in Firsts(blocks) /\ b < n + 1) <=> (b \in Firsts(blocks) /\ b < n)
    BY <1>8
  <2>3. \A i \in DOMAIN q : p[i].start = q[i].start
    BY <1>5, <1>7, <1>8
  <2> QED
    BY <1>7, <2>1, <2>2, <2>3
<1>15. Serves(p, blocks, n + 1)
  BY <1>7, <1>9, <1>10, <1>13, <1>14 DEF Serves
<1> QED
  BY <1>6, <1>15

\* The first block of a run is where a request has to start.
LEMMA RunStarts ==
    ASSUME NEW blocks \in SUBSET Nat, NEW n \in blocks, n - 1 \notin blocks
    PROVE  n \in Firsts(blocks)
<1>1. n <= n /\ n..n \subseteq blocks
  OBVIOUS
<1>2. (n - n) % (Longest \div BlockCount) = 0
  <2> DEFINE m == Longest \div BlockCount
  <2>1. m \in Nat \ {0}
    BY LongestIs
  <2> HIDE DEF m
  <2>2. (0 * m + 0) % m = 0
    BY <2>1, Quotient
  <2>3. 0 * m + 0 = n - n
    BY <2>1
  <2> QED
    BY <2>2, <2>3 DEF m
<1> QED
  BY <1>1, <1>2 DEF Firsts

\* Within a run, the block c blocks after the start of a request that is not full
\* is no start, and the block after a full one is.
LEMMA RunGoesOn ==
    ASSUME NEW blocks \in SUBSET Nat, NEW a \in Firsts(blocks), NEW c \in Nat \ {0},
           a..(a + c) \subseteq blocks, c <= Longest \div BlockCount
    PROVE  (a + c) \in Firsts(blocks) <=> c = Longest \div BlockCount
<1> DEFINE m == Longest \div BlockCount
<1>1. m \in Nat \ {0} /\ c <= m
  BY LongestIs
<1> HIDE DEF m
<1>2. PICK s \in blocks : /\ s <= a /\ s..a \subseteq blocks /\ s - 1 \notin blocks
                          /\ (a - s) % m = 0
  BY DEF Firsts, m
<1>3. a \in Nat /\ s \in Nat /\ a + c \in blocks
  BY <1>2 DEF Firsts
<1>4. s..(a + c) \subseteq blocks
  <2>1. ASSUME NEW x \in s..(a + c) PROVE x \in blocks
    <3>1. x \in s..a \/ x \in a..(a + c)
      BY <1>3
    <3> QED
      BY <1>2, <3>1
  <2> QED
    BY <2>1
<1> DEFINE k == (a - s) \div m
<1>5. k \in Nat /\ a - s = k * m
  <2> DEFINE d == a - s
  <2>1. d \in Nat
    BY <1>2, <1>3
  <2> HIDE DEF d
  <2>2. d \div m \in Nat /\ d = (d \div m) * m + (d % m)
    BY <1>1, <2>1, DivMod
  <2>3. d % m = 0 /\ d \div m = k
    BY <1>2 DEF d
  <2> HIDE DEF k
  <2>4. k * m \in Nat
    BY <1>1, <2>2, <2>3
  <2> QED
    BY <2>2, <2>3, <2>4 DEF d
<1> HIDE DEF k
<1>6. k * m \in Nat
  BY <1>1, <1>5
<1>7. (a + c) - s = k * m + c
  BY <1>2, <1>3, <1>5
<1>8. ASSUME c = m PROVE (a + c) \in Firsts(blocks)
  <2>1. ((k + 1) * m + 0) % m = 0
    BY <1>1, <1>5, Quotient
  <2>2. (k + 1) * m + 0 = k * m + m
    BY <1>1, <1>5
  <2>3. ((a + c) - s) % m = 0
    BY <1>7, <1>8, <2>1, <2>2
  <2>4. s <= a + c
    BY <1>2, <1>3
  <2> QED
    BY <1>2, <1>3, <1>4, <2>3, <2>4 DEF Firsts, m
<1>9. ASSUME c # m, (a + c) \in Firsts(blocks) PROVE FALSE
  <2>1. PICK t \in blocks : /\ t <= a + c /\ t..(a + c) \subseteq blocks
                            /\ t - 1 \notin blocks /\ ((a + c) - t) % m = 0
    BY <1>9 DEF Firsts, m
  <2>2. t \in Nat
    OBVIOUS
  <2>3. ~(t < s)
    <3>1. ASSUME t < s PROVE FALSE
      <4>1. s - 1 \in t..(a + c)
        BY <1>2, <1>3, <2>2, <3>1
      <4> QED
        BY <1>2, <2>1, <4>1
    <3> QED
      BY <3>1
  <2>4. ~(s < t)
    <3>1. ASSUME s < t PROVE FALSE
      <4>1. t - 1 \in s..(a + c)
        BY <1>3, <2>1, <2>2, <3>1
      <4> QED
        BY <1>4, <2>1, <4>1
    <3> QED
      BY <3>1
  <2>5. t = s
    BY <1>3, <2>2, <2>3, <2>4
  <2>6. (k * m + c) % m = 0
    BY <1>7, <2>1, <2>5
  <2>7. c \in 0..(m - 1)
    BY <1>1, <1>9
  <2>8. (k * m + c) % m = c
    BY <1>1, <1>5, <2>7, Quotient
  <2> QED
    BY <2>6, <2>8
<1> QED
  BY <1>8, <1>9 DEF m

\* Joining the next block serves it.
LEMMA ServesJoin ==
    ASSUME NEW blocks \in SUBSET Nat, NEW n \in blocks, NEW q, Serves(q, blocks, n)
    PROVE  Serves(Join(q, n * BlockCount), blocks, n + 1)
<1> DEFINE base == n * BlockCount
           m == Len(q)
           end == q[m].start + q[m].count
           Ends == q # <<>> /\ base = end
           Fits2 == q[m].count + BlockCount <= Longest
<1>0. Join(q, base) = IF q # <<>> /\ base = end /\ Fits2
                      THEN [q EXCEPT ![m].count = @ + BlockCount]
                      ELSE Append(q, [start |-> base, count |-> BlockCount])
  BY DEF Join
<1>1. /\ q \in Seq(RangeRec) /\ \A i \in DOMAIN q : Good(q[i], n)
  BY DEF Serves
<1>9. n \in Nat
  OBVIOUS
<1>2. m \in Nat /\ DOMAIN q = 1..m
  BY <1>1
<1>3. CASE ~Ends
  <2>1. n - 1 \notin blocks
    <3>1. SUFFICES ASSUME n - 1 \in blocks PROVE FALSE
      OBVIOUS
    <3>2. n - 1 \in Nat /\ n - 1 < n
      BY <1>9, <3>1
    <3>3. PICK i \in DOMAIN q : Has(q[i], n - 1)
      BY <3>1, <3>2 DEF Serves
    <3>4. Good(q[i], n)
      BY <1>1
    <3>5. q[i].start + q[i].count = n * 40
      <4> DEFINE a == q[i].start \div BlockCount
                 c == q[i].count \div BlockCount
      <4>1. /\ a \in Nat /\ c \in Nat \ {0} /\ a + c <= n
            /\ q[i].start = a * 40 /\ q[i].count = c * 40
        BY <1>9, <3>4, GoodBlocks
      <4> HIDE DEF a, c
      <4>2. (n - 1) * 40 < a * 40 + c * 40
        BY <3>3, <4>1 DEF Has, BlockCount
      <4> QED
        BY <1>9, <4>1, <4>2
    <3>6. i = m
      <4>1. ASSUME i < m PROVE FALSE
        <5>1. m \in DOMAIN q
          BY <1>2, <4>1
        <5>2. Good(q[m], n) /\ q[i].start + q[i].count <= q[m].start
          BY <1>1, <4>1, <5>1 DEF Serves
        <5> QED
          BY <1>9, <3>5, <5>2 DEF Good, RangeRec, BlockCount
      <4> QED
        BY <1>2, <4>1
    <3>7. q # <<>>
      BY <1>1, <1>2
    <3> QED
      BY <1>3, <3>5, <3>6, <3>7 DEF BlockCount
  <2>2. n \in Firsts(blocks)
    BY <2>1, RunStarts
  <2>3. Join(q, base) = Append(q, [start |-> base, count |-> BlockCount])
    BY <1>0, <1>3
  <2> QED
    BY <1>9, <2>2, <2>3, ServesAppend
<1>4. CASE Ends
  <2> DEFINE a == q[m].start \div BlockCount
             c == q[m].count \div BlockCount
  <2>1. m \in DOMAIN q
    BY <1>1, <1>2, <1>4
  <2>2. Good(q[m], n)
    BY <1>1, <2>1
  <2>3. /\ a \in Nat /\ c \in Nat \ {0} /\ q[m].start = a * 40 /\ q[m].count = c * 40
        /\ a + c = n
    <3>1. /\ a \in Nat /\ c \in Nat \ {0}
          /\ q[m].start = a * 40 /\ q[m].count = c * 40
      BY <1>9, <2>2, GoodBlocks
    <3> HIDE DEF a, c
    <3>2. n * 40 = a * 40 + c * 40
      BY <1>4, <3>1 DEF BlockCount
    <3> QED
      BY <1>9, <3>1, <3>2
  <2>4. c <= Longest \div BlockCount
    BY <1>9, <2>2, GoodBlocks
  <2> HIDE DEF a, c
  <2>5. a \in Firsts(blocks)
    BY <2>1, <2>3 DEF Serves, BlockCount
  <2>6. a..(a + c) \subseteq blocks
    <3>1. ASSUME NEW x \in a..(a + c) PROVE x \in blocks
      <4>1. CASE x = n
        BY <4>1
      <4>2. CASE x # n
        <5>1. x \in Nat /\ a <= x /\ x < a + c
          BY <2>3, <4>2
        <5>2. Has(q[m], x)
          BY <2>3, <5>1 DEF Has, BlockCount
        <5> QED
          BY <2>1, <5>1, <5>2 DEF Serves
      <4> QED
        BY <4>1, <4>2
    <3> QED
      BY <3>1
  <2>7. n \in Firsts(blocks) <=> c = Longest \div BlockCount
    BY <2>3, <2>4, <2>5, <2>6, RunGoesOn
  <2>8. Fits2 <=> c + 1 <= Longest \div BlockCount
    <3>1. c + 1 \in Nat /\ (c + 1) * 40 = q[m].count + BlockCount
      BY <2>3 DEF BlockCount
    <3> QED
      BY <3>1, LongestIs
  <2>9. CASE Fits2
    <3>1. n \notin Firsts(blocks)
      BY <2>3, <2>7, <2>8, <2>9, LongestIs
    <3>2. Join(q, base) = [q EXCEPT ![m].count = @ + BlockCount]
      BY <1>0, <1>4, <2>9
    <3> QED
      BY <1>4, <2>9, <3>1, <3>2, ServesLonger
  <2>10. CASE ~Fits2
    <3>1. n \in Firsts(blocks)
      BY <2>3, <2>4, <2>7, <2>8, <2>10, LongestIs
    <3>2. Join(q, base) = Append(q, [start |-> base, count |-> BlockCount])
      BY <1>0, <2>10
    <3> QED
      BY <1>9, <3>1, <3>2, ServesAppend
  <2> QED
    BY <2>9, <2>10
<1> QED
  BY <1>3, <1>4

-----------------------------------------------------------------------------
\* No ranges serve no blocks.
LEMMA ServesNone ==
    ASSUME NEW blocks \in SUBSET Nat
    PROVE  Serves(<<>>, blocks, 0)
<1>1. <<>> \in Seq(RangeRec) /\ DOMAIN <<>> = {}
  OBVIOUS
<1>2. \A b \in Nat : ~(b < 0)
  OBVIOUS
<1> QED
  BY <1>1, <1>2, Zenon DEF Serves

\* The loop has served the blocks it has looked at.
LEMMA JoinedServes ==
    ASSUME NEW blocks \in SUBSET Nat, NEW n \in Nat
    PROVE  Serves(Joined(blocks)[n], blocks, n)
<1> DEFINE Bad == {k \in Nat : ~Serves(Joined(blocks)[k], blocks, k)}
<1>1. SUFFICES ASSUME Bad # {} PROVE FALSE
  OBVIOUS
<1>2. PICK k \in Bad : \A l \in Bad : k <= l
  BY <1>1, LeastNumber
<1>3. k \in Nat /\ ~Serves(Joined(blocks)[k], blocks, k)
  BY <1>2
<1>4. k # 0
  BY <1>3, ServesNone, JoinedIs
<1> DEFINE p == k - 1
           q == Joined(blocks)[p]
<1>5. p \in Nat /\ ~(k <= p) /\ p + 1 = k
  BY <1>3, <1>4
<1> HIDE DEF p
<1>6. Serves(q, blocks, p)
  BY <1>2, <1>5
<1>7. Joined(blocks)[k] = IF p \in blocks THEN Join(q, p * BlockCount) ELSE q
  BY <1>5, JoinedIs
<1> HIDE DEF q
<1>8. CASE p \in blocks
  <2>1. Serves(Join(q, p * BlockCount), blocks, p + 1)
    BY <1>6, <1>8, ServesJoin
  <2> QED
    BY <1>3, <1>5, <1>7, <1>8, <2>1
<1>9. CASE p \notin blocks
  <2>1. Serves(q, blocks, p + 1)
    BY <1>5, <1>6, <1>9, ServesSkip
  <2> QED
    BY <1>3, <1>5, <1>7, <1>9, <2>1
<1> QED
  BY <1>8, <1>9

\* Numbers with a bound have a maximum.
LEMMA MaxIs ==
    ASSUME NEW S \in SUBSET Nat, S # {}, NEW n \in Nat, \A x \in S : x <= n
    PROVE  Max(S) \in S /\ \A x \in S : x <= Max(S)
<1> DEFINE T == {m \in Nat : \A x \in S : x <= m}
<1>1. PICK m \in T : \A y \in T : m <= y
  <2>1. n \in T
    OBVIOUS
  <2> QED
    BY <2>1, LeastNumber
<1>5. m \in Nat /\ \A x \in S : x <= m
  BY <1>1
<1>2. m \in S
  <2>1. SUFFICES ASSUME m \notin S PROVE FALSE
    OBVIOUS
  <2>2. m # 0
    <3>1. PICK x \in S : TRUE
      OBVIOUS
    <3> QED
      BY <1>5, <2>1
  <2>3. m - 1 \in Nat /\ ~(m <= m - 1)
    BY <1>5, <2>2
  <2>4. ASSUME NEW x \in S PROVE x <= m - 1
    <3>1. x <= m /\ x # m /\ x \in Nat
      BY <1>5, <2>1
    <3> QED
      BY <1>5, <3>1
  <2> QED
    BY <1>1, <2>3, <2>4
<1>3. \A y \in S : m >= y
  BY <1>1
<1>4. Max(S) \in S /\ \A y \in S : Max(S) >= y
  BY <1>2, <1>3 DEF Max
<1> QED
  BY <1>4

\* The ranges of some registers serve their blocks.
LEMMA CoalesceServes ==
    ASSUME NEW regs \in SUBSET Word
    PROVE  /\ BlocksOf(regs) \in SUBSET Nat
           /\ \E n \in Nat : /\ Serves(CoalesceRanges(regs), BlocksOf(regs), n)
                             /\ \A b \in BlocksOf(regs) : b < n
<1> DEFINE S == BlocksOf(regs)
<1>1. ASSUME NEW r \in regs PROVE r \div BlockCount \in Nat /\ r \div BlockCount <= 65535
  BY WordIsNat DEF BlockCount
<1>2. S \in SUBSET Nat
  BY <1>1 DEF BlocksOf
<1>5. PICK n \in Nat : \A b \in S : b <= n
  BY <1>1 DEF BlocksOf
<1>3. CASE regs = {}
  <2>1. S = {} /\ CoalesceRanges(regs) = <<>>
    BY <1>3 DEF BlocksOf, CoalesceRanges
  <2>2. Serves(CoalesceRanges(regs), S, 0)
    BY <1>2, <2>1, ServesNone
  <2> QED
    BY <1>2, <2>1, <2>2
<1>4. CASE regs # {}
  <2>1. S # {} /\ CoalesceRanges(regs) = Joined(S)[Max(S) + 1]
    BY <1>4 DEF BlocksOf, CoalesceRanges
  <2> HIDE DEF S
  <2>2. Max(S) \in S /\ \A b \in S : b <= Max(S)
    BY <1>2, <1>5, <2>1, MaxIs
  <2>3. Max(S) + 1 \in Nat /\ \A b \in S : b < Max(S) + 1
    <3> DEFINE m == Max(S)
    <3>1. m \in Nat /\ \A b \in S : b <= m /\ b \in Nat
      BY <1>2, <2>2
    <3> HIDE DEF m
    <3>2. m + 1 \in Nat /\ \A b \in S : b < m + 1
      BY <3>1
    <3> QED
      BY <3>2 DEF m
  <2>4. Serves(Joined(S)[Max(S) + 1], S, Max(S) + 1)
    <3> DEFINE m == Max(S) + 1
    <3>1. m \in Nat
      BY <2>3
    <3> HIDE DEF m
    <3>2. Serves(Joined(S)[m], S, m)
      BY <1>2, <3>1, JoinedServes
    <3> QED
      BY <3>2 DEF m
  <2> QED
    BY <1>2, <2>1, <2>3, <2>4 DEF S
<1> QED
  BY <1>3, <1>4

-----------------------------------------------------------------------------
\* What RangesServe says of the ranges and the blocks that are needed.
Covers(q, blocks) ==
    /\ \A i \in DOMAIN q :
          /\ q[i].start % BlockCount = 0 /\ q[i].count % BlockCount = 0
          /\ q[i].count <= Longest
    /\ \A i, j \in DOMAIN q : i < j => q[i].start + q[i].count <= q[j].start
    /\ blocks = UNION {BlocksIn(q[i]) : i \in DOMAIN q}
    /\ Len(q) = Cardinality(Firsts(blocks))

\* There are as many ranges as blocks to start with.
LEMMA AsManyAsFirsts ==
    ASSUME NEW blocks \in SUBSET Nat, NEW n \in Nat, NEW q, Serves(q, blocks, n),
           \A b \in blocks : b < n
    PROVE  Len(q) = Cardinality(Firsts(blocks))
<1> DEFINE m == Len(q)
           F == Firsts(blocks)
           f == [i \in 1..m |-> q[i].start \div BlockCount]
<1>1. q \in Seq(RangeRec) /\ (\A i \in DOMAIN q : Good(q[i], n)) /\ F \subseteq blocks
  BY DEF Serves, Firsts
<1>2. m \in Nat /\ DOMAIN q = 1..m
  BY <1>1
<1>3. \A b \in Nat : b \in F <=> \E i \in DOMAIN q : q[i].start = b * BlockCount
  BY <1>1 DEF Serves
<1> HIDE DEF m, F
<1>4. ASSUME NEW i \in 1..m
      PROVE  /\ f[i] \in Nat /\ q[i].start = f[i] * BlockCount /\ f[i] \in F
  <2>1. i \in DOMAIN q /\ Good(q[i], n) /\ f[i] = q[i].start \div BlockCount
    BY <1>1, <1>2
  <2> HIDE DEF f
  <2>2. f[i] \in Nat /\ q[i].start = f[i] * 40
    BY <2>1, GoodBlocks
  <2> QED
    BY <1>3, <2>1, <2>2 DEF BlockCount
<1>5. \A b \in F : \E i \in 1..m : f[i] = b
  <2>1. ASSUME NEW b \in F PROVE \E i \in 1..m : f[i] = b
    <3>1. b \in Nat
      BY <1>1
    <3>2. PICK i \in 1..m : q[i].start = b * BlockCount
      BY <1>2, <1>3, <3>1
    <3>3. f[i] = b
      BY <1>4, <3>1, <3>2 DEF BlockCount
    <3> QED
      BY <3>3
  <2> QED
    BY <2>1
<1>6. ASSUME NEW i \in 1..m, NEW j \in 1..m, i < j PROVE f[i] # f[j]
  <2>1. q[i].start + q[i].count <= q[j].start
    BY <1>2, <1>6 DEF Serves
  <2>2. q[i].count \in Nat /\ 0 < q[i].count
    BY <1>1, <1>2 DEF Good, RangeRec
  <2>3. /\ f[i] \in Nat /\ q[i].start = f[i] * BlockCount
        /\ f[j] \in Nat /\ q[j].start = f[j] * BlockCount
    BY <1>4
  <2> HIDE DEF f
  <2> QED
    BY <2>1, <2>2, <2>3 DEF BlockCount
<1>7. f \in Bijection(1..m, F)
  <2>1. f \in [1..m -> F]
    BY <1>4
  <2>2. \A i, j \in 1..m : f[i] = f[j] => i = j
    BY <1>2, <1>6
  <2> HIDE DEF f
  <2>3. f \in Injection(1..m, F)
    BY <2>1, <2>2 DEF Injection, IsInjective
  <2>4. f \in Surjection(1..m, F)
    BY <1>5, <2>1 DEF Surjection
  <2> QED
    BY <2>3, <2>4 DEF Bijection
<1>8. ExistsBijection(1..m, F)
  BY <1>7 DEF ExistsBijection
<1>9. Cardinality(F) = m
  BY <1>2, <1>8, FS_CountingElements
<1> QED
  BY <1>9 DEF m, F

\* Ranges that serve all the needed blocks cover them.
LEMMA ServesCovers ==
    ASSUME NEW blocks \in SUBSET Nat, NEW n \in Nat, NEW q, Serves(q, blocks, n),
           \A b \in blocks : b < n
    PROVE  Covers(q, blocks)
<1>1. \A i \in DOMAIN q : Good(q[i], n)
  BY DEF Serves
<1>2. ASSUME NEW i \in DOMAIN q
      PROVE  /\ q[i].start % BlockCount = 0 /\ q[i].count % BlockCount = 0
             /\ q[i].count <= Longest
  BY <1>1 DEF Good
<1>3. ASSUME NEW i \in DOMAIN q, NEW b PROVE b \in BlocksIn(q[i]) <=> b \in Nat /\ Has(q[i], b)
  <2> DEFINE a == q[i].start \div BlockCount
             c == q[i].count \div BlockCount
  <2>1. /\ a \in Nat /\ c \in Nat \ {0} /\ q[i].start = a * 40 /\ q[i].count = c * 40
    BY <1>1, GoodBlocks
  <2>2. BlocksIn(q[i]) = a..((q[i].start + q[i].count - 1) \div BlockCount)
    BY DEF BlocksIn
  <2> HIDE DEF a, c
  <2>3. (q[i].start + q[i].count - 1) \div BlockCount = a + c - 1
    BY <2>1 DEF BlockCount
  <2>4. BlocksIn(q[i]) = a..(a + c - 1)
    BY <2>2, <2>3
  <2>5. ASSUME b \in Nat PROVE Has(q[i], b) <=> a <= b /\ b <= a + c - 1
    BY <2>1, <2>5 DEF Has, BlockCount
  <2> QED
    BY <2>1, <2>4, <2>5
<1>4. blocks = UNION {BlocksIn(q[i]) : i \in DOMAIN q}
  <2>1. ASSUME NEW b \in blocks PROVE \E i \in DOMAIN q : b \in BlocksIn(q[i])
    <3>1. b \in Nat /\ b < n
      OBVIOUS
    <3>2. PICK i \in DOMAIN q : Has(q[i], b)
      BY <3>1 DEF Serves
    <3> QED
      BY <1>3, <3>1, <3>2
  <2>2. ASSUME NEW i \in DOMAIN q, NEW b \in BlocksIn(q[i]) PROVE b \in blocks
    BY <1>3 DEF Serves
  <2> QED
    BY <2>1, <2>2
<1>5. Len(q) = Cardinality(Firsts(blocks))
  BY AsManyAsFirsts
<1>6. \A i, j \in DOMAIN q : i < j => q[i].start + q[i].count <= q[j].start
  BY DEF Serves
<1> QED
  BY <1>2, <1>4, <1>5, <1>6 DEF Covers

\* The requests q could read the blocks: each asks for whole blocks, for no more
\* than the longest request holds and for none that is not needed; their order is
\* free and they may overlap.
CouldServe(q, blocks) ==
    /\ q \in Seq(RangeRec)
    /\ \A i \in DOMAIN q :
          /\ q[i].start % BlockCount = 0 /\ q[i].count % BlockCount = 0
          /\ 0 < q[i].count /\ q[i].count <= Longest
    /\ blocks = UNION {BlocksIn(q[i]) : i \in DOMAIN q}

\* The blocks of a good range are an interval, no longer than a request.
LEMMA GoodInterval ==
    ASSUME NEW range, NEW n \in Nat, Good(range, n)
    PROVE  \E a \in Nat, c \in Nat \ {0} :
              BlocksIn(range) = a..(a + c - 1) /\ c <= Longest \div BlockCount
<1> DEFINE a == range.start \div BlockCount
           c == range.count \div BlockCount
<1>1. /\ a \in Nat /\ c \in Nat \ {0} /\ range.start = a * 40 /\ range.count = c * 40
      /\ c <= Longest \div BlockCount
  BY GoodBlocks
<1>2. BlocksIn(range) = a..((range.start + range.count - 1) \div BlockCount)
  BY DEF BlocksIn
<1> HIDE DEF a, c
<1>3. (range.start + range.count - 1) \div BlockCount = a + c - 1
  BY <1>1 DEF BlockCount
<1>4. BlocksIn(range) = a..(a + c - 1)
  BY <1>2, <1>3
<1> QED
  BY <1>1, <1>4

\* No request has two blocks to start with.
LEMMA OneFirst ==
    ASSUME NEW blocks \in SUBSET Nat, NEW range, NEW n \in Nat, Good(range, n),
           BlocksIn(range) \subseteq blocks,
           NEW b \in Firsts(blocks), NEW d \in Firsts(blocks), b < d,
           b \in BlocksIn(range), d \in BlocksIn(range)
    PROVE  FALSE
<1>1. PICK a \in Nat, c \in Nat \ {0} :
         BlocksIn(range) = a..(a + c - 1) /\ c <= Longest \div BlockCount
  BY GoodInterval
<1> DEFINE e == d - b
           m == Longest \div BlockCount
<1>2. m \in Nat
  BY LongestIs
<1> HIDE DEF m
<1>3. b \in Nat /\ d \in Nat /\ b \in a..(a + c - 1) /\ d \in a..(a + c - 1) /\ c <= m
  BY <1>1 DEF m
<1>4. e \in Nat \ {0} /\ e < m /\ b + e = d
  BY <1>2, <1>3
<1>5. b..(b + e) \subseteq blocks
  <2>1. ASSUME NEW x \in b..(b + e) PROVE x \in blocks
    <3>1. x \in a..(a + c - 1)
      BY <1>3, <1>4
    <3> QED
      BY <1>1, <3>1
  <2> QED
    BY <2>1
<1> HIDE DEF e
<1>6. (b + e) \in Firsts(blocks) <=> e = m
  BY <1>2, <1>4, <1>5, RunGoesOn DEF m
<1> QED
  BY <1>2, <1>4, <1>6

\* So there are no fewer requests than blocks to start with.
LEMMA NoFewer ==
    ASSUME NEW blocks \in SUBSET Nat, NEW q, CouldServe(q, blocks)
    PROVE  Cardinality(Firsts(blocks)) <= Len(q)
<1> DEFINE m == Len(q)
           F == Firsts(blocks)
           f == [b \in F |-> CHOOSE i \in 1..m : b \in BlocksIn(q[i])]
<1>1. m \in Nat /\ DOMAIN q = 1..m /\ F \subseteq blocks
  BY DEF CouldServe, Firsts
<1>2. \A i \in 1..m : BlocksIn(q[i]) \subseteq blocks
  BY <1>1 DEF CouldServe
<1>3. ASSUME NEW i \in 1..m PROVE \E n \in Nat : Good(q[i], n)
  <2> DEFINE n == q[i].start + q[i].count
  <2>1. q[i] \in RangeRec /\ i \in DOMAIN q
    BY <1>1 DEF CouldServe
  <2>2. n \in Nat /\ n <= n * BlockCount
    BY <2>1 DEF RangeRec, BlockCount
  <2>3. Good(q[i], n)
    BY <2>1, <2>2 DEF Good, CouldServe
  <2> QED
    BY <2>2, <2>3
<1>4. \A b \in F : \E i \in 1..m : b \in BlocksIn(q[i])
  BY <1>1 DEF CouldServe
<1> HIDE DEF m
<1>5. \A b \in F : f[b] \in 1..m /\ b \in BlocksIn(q[f[b]])
  BY <1>4
<1> HIDE DEF f
<1>6. ASSUME NEW b \in F, NEW d \in F, b < d PROVE f[b] # f[d]
  <2>1. SUFFICES ASSUME f[b] = f[d] PROVE FALSE
    OBVIOUS
  <2>2. /\ f[b] \in 1..m /\ BlocksIn(q[f[b]]) \subseteq blocks
        /\ b \in BlocksIn(q[f[b]]) /\ d \in BlocksIn(q[f[b]])
    BY <1>2, <1>5, <2>1
  <2>3. PICK n \in Nat : Good(q[f[b]], n)
    BY <1>3, <2>2
  <2> QED
    BY <1>6, <2>2, <2>3, OneFirst
<1> HIDE DEF F
<1>7. \A b, d \in F : f[b] = f[d] => b = d
  <2>1. \A b \in F : b \in Nat
    BY <1>1
  <2> QED
    BY <1>6, <2>1
<1>8. f \in Injection(F, 1..m)
  <2>1. f \in [F -> 1..m]
    BY <1>5 DEF f
  <2> QED
    BY <1>7, <2>1 DEF Injection, IsInjective
<1>9. IsFiniteSet(1..m) /\ Cardinality(1..m) = m
  <2>1. Cardinality(1..m) = IF 1 > m THEN 0 ELSE m - 1 + 1
    BY <1>1, FS_Interval
  <2> QED
    BY <1>1, <2>1, FS_Interval
<1>10. Cardinality(F) <= m
  BY <1>8, <1>9, FS_Injection
<1> QED
  BY <1>10 DEF m, F

\* A register is in one of the ranges that cover its block.
LEMMA RegisterIsWithin ==
    ASSUME NEW blocks \in SUBSET Nat, NEW n \in Nat, NEW q, Serves(q, blocks, n),
           \A b \in blocks : b < n, NEW r \in Nat, r \div BlockCount \in blocks
    PROVE  /\ \E i \in DOMAIN q : Within(r, q[i])
           /\ \A i \in DOMAIN q : q[i].start \in Nat /\ q[i].count \in Nat
<1> DEFINE b == r \div BlockCount
<1>1. b \in Nat /\ b < n /\ b \in blocks /\ b * 40 <= r /\ r < b * 40 + 40
  BY DEF BlockCount
<1> HIDE DEF b
<1>2. PICK i \in DOMAIN q : Has(q[i], b)
  BY <1>1 DEF Serves
<1>3. Good(q[i], n) /\ \A j \in DOMAIN q : Good(q[j], n)
  BY DEF Serves
<1> DEFINE a == q[i].start \div BlockCount
           c == q[i].count \div BlockCount
<1>4. /\ a \in Nat /\ c \in Nat \ {0} /\ q[i].start = a * 40 /\ q[i].count = c * 40
  BY <1>3, GoodBlocks
<1> HIDE DEF a, c
<1>5. a <= b /\ b < a + c
  BY <1>1, <1>2, <1>4 DEF Has, BlockCount
<1>6. Within(r, q[i])
  BY <1>1, <1>4, <1>5 DEF Within
<1> QED
  BY <1>3, <1>6 DEF Good, RangeRec

-----------------------------------------------------------------------------
(* The steps.                                                              *)

\* Requests are ranges, and none is empty.
RequestsAreRanges ==
    requests \in Seq(RangeRec) /\ \A i \in DOMAIN requests : 0 < requests[i].count

\* The registers hold words, and what is asked and read are items.
CatalogueTypes ==
    /\ registers \in [Register -> Word] /\ RequestsAreRanges
    /\ DOMAIN asked \subseteq Keys /\ DOMAIN page \subseteq Keys

\* The inductive invariant.
CatalogueInv == CatalogueTypes /\ ShownIsAsked /\ PageIsTrue /\ RangesServe

\* Without a page there are no blocks, which no ranges cover.
LEMMA NothingRead ==
    Covers(<<>>, BlocksOf({Items[k].reg : k \in DOMAIN <<>>}))
<1>1. BlocksOf({Items[k].reg : k \in DOMAIN <<>>}) = {}
  BY DEF BlocksOf
<1>2. Serves(<<>>, {}, 0)
  BY ServesNone
<1>3. Covers(<<>>, {})
  BY <1>2, ServesCovers
<1> QED
  BY <1>1, <1>3

\* The initial states.
LEMMA CatalogueInitInv == CatalogueInit => CatalogueInv
<1> SUFFICES ASSUME CatalogueInit PROVE CatalogueInv
  OBVIOUS
<1>1. registers \in [Register -> Word] /\ DOMAIN asked = {}
  <2>1. registers \in Contents /\ asked = <<>>
    BY Zenon DEF CatalogueInit
  <2> QED
    BY <2>1, CatalogueAssumption
<1>2. ShownIsAsked
  BY <1>1 DEF ShownIsAsked
<1>4. page = <<>> /\ requests = <<>>
  BY Zenon DEF CatalogueInit
<1>5. DOMAIN page = {}
  BY <1>4
<1>6. PageIsTrue
  BY <1>5 DEF PageIsTrue
<1>7. RangesServe
  BY <1>4, NothingRead, Zenon DEF RangesServe, Covers
<1>8. RequestsAreRanges
  BY <1>4 DEF RequestsAreRanges
<1>3. PageIsTrue /\ RangesServe /\ DOMAIN page = {}
  BY <1>5, <1>6, <1>7
<1> QED
  BY <1>1, <1>2, <1>3, <1>8 DEF CatalogueInv, CatalogueTypes

\* A write puts a new value into its register.
LEMMA WriteRegisters ==
    ASSUME registers \in [Register -> Word], NEW k \in Keys, NEW value \in Int,
           NEW confirm, Write(k, value, confirm)
    PROVE  /\ Valid(Items[k], value) /\ Items[k].reg \in Register
           /\ registers[Items[k].reg] \in Word
           /\ registers' = [registers EXCEPT
                 ![Items[k].reg] = NewRaw(Items[k], registers[Items[k].reg], value)]
<1>1. Items[k].reg \in Register
  BY DEF Register
<1> QED
  BY <1>1 DEF Write, NewRaw

\* A write shows in its item and in no other.
LEMMA WriteShows ==
    ASSUME registers \in [Register -> Word], NEW k \in Keys, NEW value \in Int,
           NEW confirm, Write(k, value, confirm)
    PROVE  /\ registers' \in [Register -> Word]
           /\ Shown(k)' = Meant(Items[k], value)
           /\ \A j \in Keys : j # k => Shown(j)' = Shown(j)
<1> DEFINE reg == Items[k].reg
           new == NewRaw(Items[k], registers[reg], value)
<1>1. /\ Valid(Items[k], value) /\ reg \in Register /\ registers[reg] \in Word
      /\ registers' = [registers EXCEPT ![reg] = new]
  BY WriteRegisters
<1>2. new \in Word /\ Extract(Items[k], new) = Meant(Items[k], value)
  BY <1>1, WrittenIsShown
<1>3. ASSUME NEW j \in Keys, j # k, Items[j].reg = reg
      PROVE  Extract(Items[j], new) = Extract(Items[j], registers[reg])
  BY <1>1, <1>3, OthersInRegister
<1> HIDE DEF new
<1>4. registers'[reg] = new /\ \A r \in Register : r # reg => registers'[r] = registers[r]
  BY <1>1
<1>5. registers' \in [Register -> Word]
  BY <1>1, <1>2
<1>6. Shown(k)' = Meant(Items[k], value)
  BY <1>2, <1>4 DEF Shown
<1>7. ASSUME NEW j \in Keys, j # k PROVE Shown(j)' = Shown(j)
  <2>1. CASE Items[j].reg = reg
    BY <1>3, <1>4, <1>7, <2>1 DEF Shown
  <2>2. CASE Items[j].reg # reg
    <3>1. Items[j].reg \in Register
      BY DEF Register
    <3> QED
      BY <1>4, <2>2, <3>1 DEF Shown
  <2> QED
    BY <2>1, <2>2
<1> QED
  BY <1>5, <1>6, <1>7

\* A write keeps the invariant (write_item).
LEMMA WriteStep ==
    ASSUME CatalogueInv, NEW k \in Keys, NEW value \in Int, NEW confirm,
           Write(k, value, confirm)
    PROVE  CatalogueInv'
<1>1. registers \in [Register -> Word] /\ DOMAIN asked \subseteq Keys /\ ShownIsAsked
  BY DEF CatalogueInv, CatalogueTypes
<1>2. /\ registers' \in [Register -> Word]
      /\ Shown(k)' = Meant(Items[k], value)
      /\ \A j \in Keys : j # k => Shown(j)' = Shown(j)
  BY <1>1, WriteShows
<1>3. asked' = [j \in DOMAIN asked \cup {k} |-> IF j = k THEN value ELSE asked[j]]
  BY DEF Write
<1>4. /\ DOMAIN asked' = DOMAIN asked \cup {k} /\ asked'[k] = value
      /\ \A j \in DOMAIN asked : j # k => asked'[j] = asked[j]
  BY <1>3
<1>5. ASSUME NEW j \in DOMAIN asked' PROVE Shown(j)' = Meant(Items[j], asked'[j])
  <2>1. CASE j = k
    BY <1>2, <1>4, <2>1
  <2>2. CASE j # k
    <3>1. j \in DOMAIN asked /\ j \in Keys
      BY <1>1, <1>4, <2>2
    <3>2. Shown(j) = Meant(Items[j], asked[j])
      BY <1>1, <3>1 DEF ShownIsAsked
    <3> QED
      BY <1>2, <1>4, <2>2, <3>1, <3>2
  <2> QED
    BY <2>1, <2>2
<1>6. \A r \in DOMAIN registers' : registers'[r] \in Word
  BY <1>2
<1>7. ShownIsAsked'
  BY <1>5, <1>6 DEF ShownIsAsked
<1>8. page' = <<>> /\ requests' = <<>>
  BY DEF Write
<1>9. PageIsTrue' /\ RangesServe' /\ DOMAIN page' = {}
  <2>1. DOMAIN page' = {}
    BY <1>8
  <2>2. PageIsTrue'
    BY <2>1 DEF PageIsTrue
  <2>3. RangesServe'
    BY <1>8, NothingRead, Zenon DEF RangesServe, Covers
  <2> QED
    BY <2>1, <2>2, <2>3
<1>10. RequestsAreRanges'
  BY <1>8 DEF RequestsAreRanges
<1> QED
  BY <1>1, <1>2, <1>4, <1>7, <1>9, <1>10 DEF CatalogueInv, CatalogueTypes

\* A read keeps the invariant (read_items).
LEMMA ReadStep ==
    ASSUME CatalogueInv, NEW keys \in SUBSET Keys, Read(keys)
    PROVE  CatalogueInv'
<1> DEFINE regs == {Items[k].reg : k \in keys}
           blocks == BlocksOf(regs)
           q == CoalesceRanges(regs)
<1>1. /\ requests' = q /\ registers' = registers /\ asked' = asked
      /\ page' = [k \in keys |-> Extract(Items[k], RegRaw(Items[k].reg, q))]
  BY DEF Read
<1>2. registers \in [Register -> Word] /\ DOMAIN asked \subseteq Keys /\ ShownIsAsked
  BY DEF CatalogueInv, CatalogueTypes
<1>3. regs \in SUBSET Word
  BY ItemBits DEF WellFormed
<1> HIDE DEF regs
<1>4. /\ blocks \in SUBSET Nat
      /\ \E n \in Nat : Serves(q, blocks, n) /\ \A b \in blocks : b < n
  BY <1>3, CoalesceServes
<1>5. PICK n \in Nat : Serves(q, blocks, n) /\ \A b \in blocks : b < n
  BY <1>4
<1> HIDE DEF q
<1>6. Covers(q, blocks)
  BY <1>4, <1>5, ServesCovers
<1>7. RangesServe'
  <2>1. DOMAIN page' = keys
    BY <1>1
  <2>2. Covers(requests', BlocksOf({Items[k].reg : k \in DOMAIN page'}))
    BY <1>1, <1>6, <2>1 DEF regs
  <2> QED
    BY <2>2, Zenon DEF RangesServe, Covers
<1>8. ASSUME NEW k \in keys PROVE RegRaw(Items[k].reg, q) = registers[Items[k].reg]
  <2> DEFINE r == Items[k].reg
             i == CHOOSE m \in DOMAIN q : Within(r, q[m])
  <2>1. r \in regs /\ r \in Register
    BY DEF regs, Register
  <2>2. r \in Nat /\ r \div BlockCount \in blocks
    BY <1>3, <2>1, WordIsNat DEF BlocksOf
  <2> HIDE DEF blocks
  <2>3. /\ \E m \in DOMAIN q : Within(r, q[m])
        /\ \A m \in DOMAIN q : q[m].start \in Nat /\ q[m].count \in Nat
    <3> HIDE DEF r
    <3> QED
      BY <1>4, <1>5, <2>2, RegisterIsWithin
  <2>4. i \in DOMAIN q /\ Within(r, q[i])
    BY <2>3
  <2>5. RegRaw(r, q) = Response(q[i])[r - q[i].start]
    BY DEF RegRaw
  <2> HIDE DEF r, i
  <2> DEFINE start == q[i].start
             count == q[i].count
  <2>6. /\ start \in Nat /\ count \in Nat /\ start <= r /\ r < start + count
    BY <2>3, <2>4 DEF Within
  <2>7. Response(q[i]) =
            [x \in 0..(count - 1) |->
                IF start + x \in DOMAIN registers THEN registers[start + x] ELSE 0]
    BY DEF Response
  <2> HIDE DEF start, count
  <2>8. r - start \in 0..(count - 1) /\ start + (r - start) = r
    BY <2>2, <2>6
  <2>9. Response(q[i])[r - start] = registers[r]
    BY <1>2, <2>1, <2>7, <2>8
  <2> QED
    BY <2>5, <2>9 DEF r, start
<1>9. ASSUME NEW k \in DOMAIN page' PROVE page'[k] = Shown(k)'
  <2>1. k \in keys
    BY <1>1
  <2>2. page'[k] = Extract(Items[k], RegRaw(Items[k].reg, q))
    BY <1>1, <2>1
  <2> QED
    BY <1>1, <1>8, <2>1, <2>2 DEF Shown
<1>10. PageIsTrue'
  BY <1>9 DEF PageIsTrue
<1>11. ShownIsAsked'
  BY <1>1, <1>2 DEF ShownIsAsked, Shown
<1>12. DOMAIN page' = keys
  BY <1>1
<1>13. RequestsAreRanges'
  <2>1. q \in Seq(RangeRec) /\ \A i \in DOMAIN q : 0 < q[i].count
    BY <1>5 DEF Serves, Good
  <2> QED
    BY <1>1, <2>1 DEF RequestsAreRanges
<1> QED
  BY <1>1, <1>2, <1>7, <1>10, <1>11, <1>12, <1>13 DEF CatalogueInv, CatalogueTypes

\* Every step keeps the invariant.
LEMMA CatalogueStep == CatalogueInv /\ [CatalogueNext]_catalogueVars => CatalogueInv'
<1> SUFFICES ASSUME CatalogueInv, [CatalogueNext]_catalogueVars PROVE CatalogueInv'
  OBVIOUS
<1>1. ASSUME NEW k \in Keys, NEW value \in Tried[k], NEW confirm, Write(k, value, confirm)
      PROVE  CatalogueInv'
  <2>1. value \in Int
    BY CatalogueAssumption
  <2> QED
    BY <1>1, <2>1, WriteStep
<1>2. ASSUME NEW keys \in Pages, Read(keys) PROVE CatalogueInv'
  <2>1. keys \in SUBSET Keys
    BY CatalogueAssumption
  <2> QED
    BY <1>2, <2>1, ReadStep
<1>3. CASE UNCHANGED catalogueVars
  BY <1>3 DEF catalogueVars, CatalogueInv, CatalogueTypes, ShownIsAsked, PageIsTrue,
              RangesServe, Shown, RequestsAreRanges
<1> QED
  BY <1>1, <1>2, <1>3 DEF CatalogueNext

\* The invariant holds, for any catalogue.
LEMMA CatalogueIsInv == CatalogueSpec => []CatalogueInv
<1>1. CatalogueInv /\ [CatalogueNext]_catalogueVars => CatalogueInv'
  BY CatalogueStep
<1> QED
  BY <1>1, CatalogueInitInv, PTL DEF CatalogueSpec

\* Every item shows the value last written to it, through encode_value,
\* merge_raw and extract_value, for any catalogue and any sequence of writes.
THEOREM ShownAsAsked == CatalogueSpec => []ShownIsAsked
<1>1. CatalogueInv => ShownIsAsked
  BY DEF CatalogueInv
<1> QED
  BY <1>1, CatalogueIsInv, PTL

\* A page shows what the registers hold, wherever _coalesce_ranges cuts.
THEOREM PagesAreTrue == CatalogueSpec => []PageIsTrue
<1>1. CatalogueInv => PageIsTrue
  BY DEF CatalogueInv
<1> QED
  BY <1>1, CatalogueIsInv, PTL

\* As few requests as possible read each needed block once and no other
\* (_coalesce_ranges), for any registers and any longest request.
THEOREM RangesAlwaysServe == CatalogueSpec => []RangesServe
<1>1. CatalogueInv => RangesServe
  BY DEF CatalogueInv
<1> QED
  BY <1>1, CatalogueIsInv, PTL

\* The requests of a page could read its blocks, and no other choice of requests
\* does so with fewer.
AreFewest ==
    LET blocks == BlocksOf({Items[k].reg : k \in DOMAIN page})
    IN  /\ CouldServe(requests, blocks)
        /\ \A q : CouldServe(q, blocks) => Len(requests) <= Len(q)

\* What _coalesce_ranges promises, "the fewest contiguous read requests", for any
\* registers and any longest request.
THEOREM FewestRequests == CatalogueSpec => []AreFewest
<1>1. CatalogueInv => AreFewest
  <2> SUFFICES ASSUME CatalogueInv PROVE AreFewest
    OBVIOUS
  <2> DEFINE regs == {Items[k].reg : k \in DOMAIN page}
             blocks == BlocksOf(regs)
  <2>1. regs \in SUBSET Word
    BY ItemBits DEF WellFormed, CatalogueInv, CatalogueTypes
  <2>2. Len(requests) = Cardinality(Firsts(blocks))
    BY DEF CatalogueInv, RangesServe
  <2>3. CouldServe(requests, blocks)
    BY DEF CatalogueInv, CatalogueTypes, RequestsAreRanges, RangesServe, CouldServe
  <2> HIDE DEF regs
  <2>4. blocks \in SUBSET Nat
    BY <2>1, CoalesceServes
  <2> HIDE DEF blocks
  <2>5. ASSUME NEW q, CouldServe(q, blocks) PROVE Len(requests) <= Len(q)
    BY <2>2, <2>4, <2>5, NoFewer
  <2> QED
    BY <2>3, <2>5 DEF AreFewest, blocks, regs
<1> QED
  BY <1>1, CatalogueIsInv, PTL

\* A write changes what its own item shows and no other (merge_raw).
THEOREM OthersAreKept == CatalogueSpec => OthersKept
<1>1. ASSUME CatalogueInv, [CatalogueNext]_catalogueVars
      PROVE  [\A k \in Keys : Shown(k)' # Shown(k) => wrote' = k]_catalogueVars
  <2> SUFFICES ASSUME NEW j \in Keys, Shown(j)' # Shown(j), CatalogueNext PROVE wrote' = j
    BY <1>1
  <2>1. registers \in [Register -> Word]
    BY <1>1 DEF CatalogueInv, CatalogueTypes
  <2>2. ASSUME NEW k \in Keys, NEW value \in Tried[k], NEW confirm, Write(k, value, confirm)
        PROVE  wrote' = j
    <3>1. value \in Int
      BY CatalogueAssumption
    <3>2. \A i \in Keys : i # k => Shown(i)' = Shown(i)
      BY <2>1, <2>2, <3>1, WriteShows
    <3>3. j = k
      BY <3>2
    <3> QED
      BY <2>2, <3>3 DEF Write
  <2>3. ASSUME NEW keys \in Pages, Read(keys) PROVE FALSE
    BY <2>3 DEF Read, Shown
  <2> QED
    BY <2>2, <2>3 DEF CatalogueNext
<1> QED
  BY <1>1, CatalogueIsInv, PTL DEF CatalogueSpec, OthersKept
=============================================================================
