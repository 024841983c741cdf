-------------------------- MODULE ModbusController --------------------------
(***************************************************************************)
(* read_items and write_item of modbus_controller.py over the range cache: *)
(* several requests of the web server interleave at their awaits, each     *)
(* waiting for one exchange with the inverter at a time.  Replies come     *)
(* back in the order the inverter executed the commands (one connection).  *)
(*                                                                         *)
(* A register is a function from Field to Bit: the item of a toggle or a   *)
(* bit range owns some fields of its register, a number owns all of them.  *)
(***************************************************************************)
EXTENDS Integers, Sequences, SequencesExt

CONSTANTS Client,   \* concurrent calls of read_items and write_item
          Reg,      \* holding registers
          Field,    \* the parts a register is divided in
          Ranges,   \* the (start, count) keys requests may use, as sets
          Block,    \* the 40-register block of each register (_block_for)
          Served,   \* the registers the device returns for each range
          Item,     \* catalog items: [reg, mask, verify]
          May,      \* the items each call may write
          MayFail,  \* the calls whose exchanges may time out
          None

Bit == {0, 1}
Raw == [Field -> Bit]

ASSUME RangeAssumption ==
    /\ Ranges \subseteq SUBSET Reg
    /\ \A r \in Reg : Block[r] \in Ranges /\ r \in Block[r]
    /\ \A k \in Ranges : Served[k] \subseteq k /\ None \notin [Served[k] -> Raw]
    /\ Item \subseteq [reg : Reg, mask : SUBSET Field, verify : BOOLEAN]
    /\ May \in [Client -> SUBSET Item] /\ MayFail \subseteq Client
    /\ None \notin Ranges /\ None \notin Item

VARIABLES
    dev,        \* the registers of the inverter
    cache,      \* _read_cache: the payload under each key
    stage,      \* where each call is
    item,       \* the item a write is for
    bits,       \* the value it gives the item
    key,        \* the range being fetched
    raw,        \* the register value written and echoed
    data,       \* the payload of an answered fetch
    replies,    \* calls whose exchange was executed, oldest first
    late,       \* writes given up before the inverter executed them
    unsure,     \* history: registers written by a call that then failed
    missed,     \* history: registers of a payload that a verified write left
                \* as they were before it
    crossed     \* history: masked writes whose register another call wrote
                \* after the value they start from was read

history == <<unsure, missed, crossed>>
vars == <<dev, cache, stage, item, bits, key, raw, data, replies, late, history>>

Payload == UNION {[Served[k] -> Raw] : k \in Ranges}
All(b) == [f \in Field |-> b]

\* "read": a range of read_items; "base": the read before a masked write;
\* "write": the 0x06 frame; "verify": the uncached read after it.
Fetching == {"read", "base", "verify"}

Init ==
    /\ dev = [r \in Reg |-> All(0)]
    /\ cache = [k \in Ranges |-> None]
    /\ stage = [c \in Client |-> "idle"]
    /\ item = [c \in Client |-> None]
    /\ bits = [c \in Client |-> 0]
    /\ key = [c \in Client |-> None]
    /\ raw = [c \in Client |-> All(0)]
    /\ data = [c \in Client |-> None]
    /\ replies = <<>>
    /\ late = {}
    /\ unsure = {} /\ missed = [k \in Ranges |-> {}] /\ crossed = {}

\* The call returns or raises.
Finish(c) ==
    /\ stage' = [stage EXCEPT ![c] = "idle"]
    /\ item' = [item EXCEPT ![c] = None]
    /\ bits' = [bits EXCEPT ![c] = 0]
    /\ key' = [key EXCEPT ![c] = None]
    /\ raw' = [raw EXCEPT ![c] = All(0)]
    /\ data' = [data EXCEPT ![c] = None]
    /\ crossed' = crossed \ {c}

\* _fetch_holding_range is awaited.
Fetch(c, st, k) ==
    /\ stage' = [stage EXCEPT ![c] = st]
    /\ key' = [key EXCEPT ![c] = k]
    /\ data' = [data EXCEPT ![c] = None]

\* The write frame is sent; the fetch before it, if any, is over.
SendWrite(c, v) ==
    /\ stage' = [stage EXCEPT ![c] = "write"]
    /\ raw' = [raw EXCEPT ![c] = v]
    /\ key' = [key EXCEPT ![c] = None]
    /\ data' = [data EXCEPT ![c] = None]

\* merge_raw: the item's bits in the register value read.
Merge(i, current, b) == [f \in Field |-> IF f \in i.mask THEN b ELSE current[f]]

\* One range of read_items that is not cached (a hit changes nothing).
ReadRange(c, k) ==
    /\ stage[c] = "idle" /\ cache[k] = None
    /\ Fetch(c, "read", k)
    /\ UNCHANGED <<dev, cache, item, bits, raw, replies, late, history>>

\* A call was told that r changed, or will be, and is not done with it.
Settling(r) == \E c \in Client :
                 /\ item[c] # None /\ item[c].reg = r
                 /\ \/ stage[c] = "write" /\ Contains(replies, c)
                    \/ stage[c] = "verify"

\* The masked writes that go by a value of r read before.
StartedFrom(r) ==
    {c \in Client : /\ item[c] # None /\ item[c].reg = r /\ item[c].mask # Field
                    /\ \/ stage[c] = "base" /\ Contains(replies, c)
                       \/ stage[c] = "write" /\ ~Contains(replies, c)}

\* Fault: the longest cached range with the register serves as well.
AnyCached(r) ==
    LET with == {k \in Ranges : cache[k] # None /\ r \in DOMAIN cache[k]}
    IN  IF with = {} THEN None ELSE cache[CHOOSE k \in with : \A l \in with : l \subseteq k]

\* The payload a masked write takes the register from, if it is cached.
BaseCached(r) == cache[Block[r]]

\* write_item up to its first await: a whole-register item is written at
\* once, a masked one is merged into the block of its register, cached or
\* fetched.  A cached payload too short for the register raises.
WriteItem(c, i, b) ==
    /\ stage[c] = "idle" /\ i \in May[c]
    /\ item' = [item EXCEPT ![c] = i]
    /\ bits' = [bits EXCEPT ![c] = b]
    /\ LET base == BaseCached(i.reg) IN
          \/ i.mask = Field /\ SendWrite(c, All(b)) /\ UNCHANGED crossed
          \/ /\ i.mask # Field /\ base # None /\ i.reg \in DOMAIN base
             /\ SendWrite(c, Merge(i, base[i.reg], b))
             /\ crossed' = IF Settling(i.reg) THEN crossed \cup {c} ELSE crossed
          \/ /\ i.mask # Field /\ base = None
             /\ Fetch(c, "base", Block[i.reg])
             /\ UNCHANGED <<raw, crossed>>
    /\ UNCHANGED <<dev, cache, replies, late, unsure, missed>>

\* The inverter executes the call's frame (external).
Execute(c) ==
    /\ stage[c] # "idle" /\ ~Contains(replies, c)
    /\ IF stage[c] \in Fetching
       THEN /\ data' = [data EXCEPT ![c] = [r \in Served[key[c]] |-> dev[r]]]
            /\ UNCHANGED <<dev, crossed>>
       ELSE /\ dev' = [dev EXCEPT ![item[c].reg] = raw[c]]
            /\ crossed' = (crossed \cup StartedFrom(item[c].reg)) \ {c}
            /\ UNCHANGED data
    /\ replies' = Append(replies, c)
    /\ UNCHANGED <<cache, stage, item, bits, key, raw, late, unsure, missed>>

\* The payloads under another key that show the register of a verified write
\* as it was: the read that verifies it renews the entry of its block only.
LeftBehind(c, k) ==
    IF stage[c] = "verify" /\ cache[k] # None /\ item[c].reg \in DOMAIN cache[k]
    THEN {item[c].reg} ELSE {}

\* The fetch returns and its payload is cached, whatever happened meanwhile;
\* a masked write goes on with it.
Fetched(c) ==
    /\ replies # <<>> /\ Head(replies) = c /\ stage[c] \in Fetching
    /\ replies' = Tail(replies)
    /\ cache' = [cache EXCEPT ![key[c]] = data[c]]
    /\ missed' = [k \in Ranges |-> IF k = key[c] THEN {}
                                   ELSE missed[k] \cup LeftBehind(c, k)]
    /\ IF stage[c] = "base" /\ item[c].reg \in DOMAIN data[c]
       THEN /\ SendWrite(c, Merge(item[c], data[c][item[c].reg], bits[c]))
            /\ UNCHANGED <<item, bits, crossed>>
       ELSE Finish(c)
    /\ UNCHANGED <<dev, late, unsure>>

\* Fault: only the entry of the register's own block is patched.
PatchedOwnBlock(r, v) ==
    [k \in Ranges |-> IF k = Block[r] /\ cache[k] # None /\ r \in DOMAIN cache[k]
                      THEN [cache[k] EXCEPT ![r] = v] ELSE cache[k]]

\* _update_register_cache: every payload with the register is patched, or
\* dropped when it is too short.
Patched(r, v) ==
    [k \in Ranges |-> CASE cache[k] = None \/ r \notin k -> cache[k]
                        [] cache[k] # None /\ r \in k /\ r \in DOMAIN cache[k] ->
                              [cache[k] EXCEPT ![r] = v]
                        [] OTHER -> None]

\* The echo arrives: the cache is patched, or the register is read again.
Echoed(c) ==
    /\ replies # <<>> /\ Head(replies) = c /\ stage[c] = "write"
    /\ replies' = Tail(replies)
    /\ IF item[c].verify
       THEN /\ Fetch(c, "verify", Block[item[c].reg])
            /\ UNCHANGED <<cache, item, bits, raw, missed, crossed>>
       ELSE /\ cache' = Patched(item[c].reg, raw[c])
            /\ missed' = [k \in Ranges |-> missed[k] \ {item[c].reg}]
            /\ Finish(c)
    /\ UNCHANGED <<dev, late, unsure>>

\* The exchange times out; a write may have been executed, or may still be.
Fail(c) ==
    /\ c \in MayFail /\ stage[c] # "idle"
    /\ \/ ~Contains(replies, c) /\ UNCHANGED replies
       \/ \E n \in DOMAIN replies : /\ replies[n] = c
                                    /\ replies' = RemoveAt(replies, n)
    /\ unsure' = IF stage[c] \in {"write", "verify"}
                 THEN unsure \cup {item[c].reg} ELSE unsure
    /\ late' = IF stage[c] = "write" /\ ~Contains(replies, c)
               THEN late \cup {[reg |-> item[c].reg, raw |-> raw[c]]} ELSE late
    /\ Finish(c)
    /\ UNCHANGED <<dev, cache, missed>>

LateExecute(w) ==
    /\ dev' = [dev EXCEPT ![w.reg] = w.raw]
    /\ late' = late \ {w}
    /\ UNCHANGED <<cache, stage, item, bits, key, raw, data, replies, history>>

\* The TTL of an entry ends (_read_cache_get).
Expire(k) ==
    /\ cache[k] # None
    /\ cache' = [cache EXCEPT ![k] = None]
    /\ missed' = [missed EXCEPT ![k] = {}]
    /\ UNCHANGED <<dev, stage, item, bits, key, raw, data, replies, late,
                   unsure, crossed>>

Next ==
    \/ \E c \in Client :
          \/ \E k \in Ranges : ReadRange(c, k)
          \/ \E i \in Item, b \in Bit : WriteItem(c, i, b)
          \/ Execute(c) \/ Fetched(c) \/ Echoed(c) \/ Fail(c)
    \/ \E w \in late : LateExecute(w)
    \/ \E k \in Ranges : Expire(k)

Spec == Init /\ [][Next]_vars

-----------------------------------------------------------------------------
(* Properties.                                                             *)

\* Type invariant.
TypeOK ==
    /\ dev \in [Reg -> Raw]
    /\ cache \in [Ranges -> Payload \cup {None}]
    /\ stage \in [Client -> Fetching \cup {"idle", "write"}]
    /\ item \in [Client -> Item \cup {None}]
    /\ bits \in [Client -> Bit]
    /\ key \in [Client -> Ranges \cup {None}]
    /\ raw \in [Client -> Raw]
    /\ data \in [Client -> Payload \cup {None}]
    /\ replies \in Seq(Client)
    /\ late \subseteq [reg : Reg, raw : Raw]
    /\ unsure \subseteq Reg /\ missed \in [Ranges -> SUBSET Reg]
    /\ crossed \subseteq Client

\* Every cached payload shows what the inverter holds, up to the write that is
\* being answered or verified ("reads see it", tests/test_modbus_controller.py),
\* with two exceptions: a register whose writer failed, and a register that a
\* verified write changed while the payload was cached under another key than
\* its block's, until the payload is fetched again, patched or expires.
CacheFollowsWrites ==
    \A k \in Ranges : cache[k] # None =>
        \A r \in DOMAIN cache[k] :
            cache[k][r] = dev[r] \/ Settling(r) \/ r \in unsure \cup missed[k]

\* Writing an item never changes the bits of its register that belong to
\* other items (merge_raw: "into the current register raw value"), unless a
\* write of the register failed before or another call wrote it between the
\* read this one starts from and its own execution: no lock is held there.
WriteKeepsOtherBits ==
    [][\A c \in Client :
         /\ stage[c] = "write" /\ ~Contains(replies, c) /\ Contains(replies', c)
         /\ item[c].reg \notin unsure /\ c \notin crossed
         => \A f \in Field \ item[c].mask :
               dev'[item[c].reg][f] = dev[item[c].reg][f]]_vars
=============================================================================
