-------------------------- MODULE RegisterCatalogue --------------------------
(***************************************************************************)
(* What the dashboard of modbus_routes.py does with a catalogue of items   *)
(* (modbus_registers.py): write an item, read a page of items in as few    *)
(* requests as possible.                                                   *)
(*                                                                         *)
(* An item is the field of its register that begins at the bit of value    *)
(* unit and takes size values; masks and shifts of bits are written as     *)
(* divisions.  The inverter takes every write here; caches, echoes and     *)
(* races are ModbusController's.                                           *)
(***************************************************************************)
EXTENDS Integers, Sequences, FiniteSets, FiniteSetsExt

CONSTANTS Items,       \* _ITEM_INDEX: a function from keys to items
          Danger,      \* the items that are written after a confirmation only
          Pages,       \* the sets of keys that are read together
          Tried,       \* the display values callers try to give each item
          Contents,    \* what the registers may hold at first
          MaxCount,    \* _HOLDING_MAX_COUNT
          MaxWrites    \* bound: writes

Word == 0..65535
BlockCount == 40       \* _HOLDING_BLOCK_COUNT

Keys == DOMAIN Items
Register == {Items[k].reg : k \in Keys}

\* The mask of the item is 0xFFFF.
IsWhole(item) == item.unit = 1 /\ item.size = 65536

\* An item has a register and bits that are long enough for its values.
WellFormed(item) ==
    /\ item.reg \in Word /\ item.kind \in {"toggle", "select", "number", "time"}
    /\ item.unit \in Nat \ {0} /\ item.size \in Nat \ {0, 1}
    /\ 65536 % (item.unit * item.size) = 0
    /\ item.kind = "toggle" => item.size = 2
    /\ item.kind = "select" => item.options \subseteq 0..(item.size - 1)
    /\ item.kind = "number" =>
          /\ IsWhole(item) /\ item.high \in BOOLEAN
          /\ item.step \in Nat \ {0} /\ item.min \in Nat /\ item.max \in Nat
          /\ item.max \div item.step < IF item.high THEN 256 ELSE 65536
    /\ item.kind = "time" => IsWhole(item) /\ item.step = 1 /\ item.min = 0 /\ item.max = 1439

\* The bits of i are all below those of j.
Below(i, j) == j.unit % (i.unit * i.size) = 0

ASSUME CatalogueAssumption ==
    /\ \A k \in Keys : WellFormed(Items[k])
    /\ \A j, k \in Keys : (j # k /\ Items[j].reg = Items[k].reg) =>
          Below(Items[j], Items[k]) \/ Below(Items[k], Items[j])
    /\ Danger \subseteq Keys /\ Pages \subseteq SUBSET Keys
    /\ Tried \in [Keys -> SUBSET Int] /\ Contents \subseteq [Register -> Word]
    /\ MaxCount \in Nat /\ MaxWrites \in Nat

-----------------------------------------------------------------------------
(* The codecs.                                                             *)

\* Fault: an item of several bits is taken for one of one bit.
OneBit(raw, item) ==
    (raw \div item.unit) % (IF item.size = 65536 THEN 65536 ELSE 2)

\* (raw & mask) >> shift of mask_for.
FieldOf(raw, item) == (raw \div item.unit) % item.size

\* extract_value.
Extract(item, raw) ==
    CASE item.kind = "number" /\ item.high -> item.step * (raw \div 256)
      [] item.kind = "number" /\ ~item.high -> item.step * FieldOf(raw, item)
      [] item.kind = "time" -> 60 * (raw % 256) + (raw \div 256)
      [] OTHER -> FieldOf(raw, item)

\* Whether encode_value accepts the value.
Valid(item, value) ==
    \/ item.kind = "toggle"
    \/ item.kind = "select" /\ value \in item.options
    \/ item.kind \in {"number", "time"} /\ item.min <= value /\ value <= item.max

\* encode_value: the part to write.
Encode(item, value) ==
    CASE item.kind = "toggle" -> IF value # 0 THEN 1 ELSE 0
      [] item.kind = "select" -> value
      [] item.kind = "number" ->
            LET raw == value \div item.step
            IN  IF item.high THEN (raw % 256) * 256 ELSE raw
      [] item.kind = "time" -> (value % 60) * 256 + value \div 60

\* Fault: the bits of the item are not cleared before the new ones are set.
MergeOver(item, current, part) ==
    IF IsWhole(item) THEN part ELSE current + part * item.unit

\* merge_raw.
MergeRaw(item, current, part) ==
    IF IsWhole(item) THEN part
    ELSE current + ((part % item.size) - FieldOf(current, item)) * item.unit

-----------------------------------------------------------------------------
(* Reading: _coalesce_ranges and read_items.                               *)

\* read_items never asks for less than a block.
Longest == IF MaxCount < BlockCount THEN BlockCount ELSE MaxCount

\* Fault: a run of blocks grows past the longest request.
JoinAlways(ranges, base) ==
    LET last == Len(ranges)
    IN  IF ranges # <<>> /\ base = ranges[last].start + ranges[last].count
        THEN [ranges EXCEPT ![last].count = @ + BlockCount]
        ELSE Append(ranges, [start |-> base, count |-> BlockCount])

\* The next block: joined to the last range or a range of its own.
Join(ranges, base) ==
    LET last == Len(ranges)
    IN  IF /\ ranges # <<>>
           /\ base = ranges[last].start + ranges[last].count
           /\ ranges[last].count + BlockCount <= Longest
        THEN [ranges EXCEPT ![last].count = @ + BlockCount]
        ELSE Append(ranges, [start |-> base, count |-> BlockCount])

\* The ranges once the first n of all blocks have been looked at.
Joined(blocks) ==
    LET upTo[n \in Nat] ==
            IF n = 0 THEN <<>>
            ELSE IF n - 1 \in blocks THEN Join(upTo[n - 1], (n - 1) * BlockCount)
            ELSE upTo[n - 1]
    IN  upTo

\* The blocks with one of the registers.
BlocksOf(regs) == {r \div BlockCount : r \in regs}

\* _coalesce_ranges: the blocks in ascending order.
CoalesceRanges(regs) ==
    IF regs = {} THEN <<>> ELSE Joined(BlocksOf(regs))[Max(BlocksOf(regs)) + 1]

-----------------------------------------------------------------------------
VARIABLES
    registers,  \* the holding registers of the inverter
    asked,      \* history: the value last written to each item
    wrote,      \* history: the item of the last write
    page,       \* what the last read returned, <<>> after a write
    requests,   \* the ranges of that read
    writes      \* bound: writes so far

catalogueVars == <<registers, asked, wrote, page, requests, writes>>

CatalogueInit ==
    /\ registers \in Contents
    /\ asked = <<>> /\ wrote = "" /\ page = <<>> /\ requests = <<>> /\ writes = 0

\* write_item: an item of some bits is merged into the register as it is.
Write(k, value, confirm) ==
    LET item == Items[k]
        part == Encode(item, value)
    IN  /\ writes < MaxWrites
        /\ Valid(item, value) /\ (k \in Danger => confirm)
        /\ registers' = [registers EXCEPT ![item.reg] =
                            IF IsWhole(item) THEN part ELSE MergeRaw(item, @, part)]
        /\ asked' = [j \in DOMAIN asked \cup {k} |-> IF j = k THEN value ELSE asked[j]]
        /\ wrote' = k
        /\ page' = <<>> /\ requests' = <<>> /\ writes' = writes + 1

\* Fault: the registers are counted from one.
CountedFromOne(range) ==
    [i \in 0..(range.count - 1) |->
        IF range.start + i - 1 \in DOMAIN registers THEN registers[range.start + i - 1] ELSE 0]

\* What the request of a range returns: its registers, counted from its start.
Response(range) ==
    [i \in 0..(range.count - 1) |->
        IF range.start + i \in DOMAIN registers THEN registers[range.start + i] ELSE 0]

Within(reg, range) == range.start <= reg /\ reg < range.start + range.count

\* The register as one of the requests returned it.
RegRaw(reg, ranges) ==
    LET i == CHOOSE n \in DOMAIN ranges : Within(reg, ranges[n])
    IN  Response(ranges[i])[reg - ranges[i].start]

\* read_items.
Read(keys) ==
    /\ page = <<>>
    /\ requests' = CoalesceRanges({Items[k].reg : k \in keys})
    /\ page' = [k \in keys |-> Extract(Items[k], RegRaw(Items[k].reg, requests'))]
    /\ UNCHANGED <<registers, asked, wrote, writes>>

CatalogueNext ==
    \/ \E k \in Keys : \E value \in Tried[k], confirm \in BOOLEAN : Write(k, value, confirm)
    \/ \E keys \in Pages : Read(keys)

CatalogueSpec == CatalogueInit /\ [][CatalogueNext]_catalogueVars

-----------------------------------------------------------------------------
Shown(k) == Extract(Items[k], registers[Items[k].reg])

\* The display value that stands for the one asked for.
Meant(item, value) == IF item.kind = "toggle" THEN (IF value # 0 THEN 1 ELSE 0)
                      ELSE IF item.kind = "select" THEN value
                      ELSE value - (value % item.step)

\* Every item shows the value last written to it, though it is encoded, merged
\* among the bits of other items, overwritten by writes of those, and decoded;
\* and the registers still hold words: no part reached beyond its bits.
ShownIsAsked ==
    /\ \A r \in DOMAIN registers : registers[r] \in Word
    /\ \A k \in DOMAIN asked : Shown(k) = Meant(Items[k], asked[k])

\* A page shows what the registers hold, wherever the ranges are cut.
PageIsTrue == \A k \in DOMAIN page : page[k] = Shown(k)

\* The blocks of a range.
BlocksIn(range) == (range.start \div BlockCount)..((range.start + range.count - 1) \div BlockCount)

\* The blocks a request has to start with: the first of each run of needed blocks
\* and, within the run, every one that is a full request further on.
Firsts(blocks) ==
    {b \in blocks : \E s \in blocks :
        /\ s <= b /\ s..b \subseteq blocks /\ s - 1 \notin blocks
        /\ (b - s) % (Longest \div BlockCount) = 0}

\* Every block that is needed is read once and as a whole, no other one is, no
\* request is longer than the longest, and there are as few as that allows.
RangesServe ==
    LET blocks == BlocksOf({Items[k].reg : k \in DOMAIN page})
    IN  /\ \A i \in DOMAIN requests :
              /\ requests[i].start % BlockCount = 0 /\ requests[i].count % BlockCount = 0
              /\ requests[i].count <= Longest
        /\ \A i, j \in DOMAIN requests :
              i < j => requests[i].start + requests[i].count <= requests[j].start
        /\ blocks = UNION {BlocksIn(requests[i]) : i \in DOMAIN requests}
        /\ Len(requests) = Cardinality(Firsts(blocks))

\* A write changes what its own item shows and no other: items of one register
\* keep out of each other's bits, so that a dangerous one among them is changed
\* by the confirmed writes alone.
OthersKept ==
    [][\A k \in Keys : Shown(k)' # Shown(k) => wrote' = k]_catalogueVars
=============================================================================
