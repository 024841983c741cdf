---------------------------- MODULE ModbusFrames ----------------------------
(***************************************************************************)
(* The frames of the local LuxPower protocol, byte by byte, as             *)
(* modbus_service.py builds and reads them:                                *)
(*                                                                         *)
(*   A1 1A | protocol | length - 6 | 01 C2 | dongle serial (10) | inner    *)
(*   inner: length | action | function | inverter serial (10) | register   *)
(*          | payload | CRC-16 of the inner frame after its length         *)
(*                                                                         *)
(* Numbers of two bytes are little endian.  A frame is a sequence of bytes *)
(* (position 1 here is offset 0 in the code).                              *)
(***************************************************************************)
EXTENDS Integers, Sequences

CONSTANTS DongleSerial, InverterSerial   \* sequences of bytes

MaxByte == 255
MaxWord == 65535
Byte == 0..MaxByte
Words == 0..MaxWord

ASSUME SerialAssumption ==
    DongleSerial \in Seq(Byte) /\ InverterSerial \in Seq(Byte)

ReadHolding == 3
ReadInput == 4
WriteSingle == 6
Exception == 128          \* set in the function of an exception reply

HeaderLen == 18
LengthAdjust == 6
Protocol == 1

-----------------------------------------------------------------------------
(* Building.                                                               *)

Word(n) == <<n % 256, n \div 256>>

\* Of the slices of two bytes that are read.
to_int(bytes) == bytes[1] + 256 * bytes[2]

Zeros(n) == [i \in 1..n |-> 0]

\* Cut or padded to ten bytes.
serial_bytes(serial) ==
    SubSeq(serial \o Zeros(10), 1, 10)

\* Two numbers, added bit by bit without a carry.
xor[a \in Nat] ==
    [b \in Nat |-> IF a = 0 \/ b = 0 THEN a + b
                   ELSE ((a + b) % 2) + 2 * xor[a \div 2][b \div 2]]

\* The loop over one byte, and the loop over the bytes.
Bit == [crc \in Words |->
          IF crc % 2 = 1 THEN xor[crc \div 2][40961] ELSE crc \div 2]
EightBits(crc) == Bit[Bit[Bit[Bit[Bit[Bit[Bit[Bit[crc]]]]]]]]

crc16_modbus(bytes) ==
    LET crc[n \in 0..Len(bytes)] ==
          IF n = 0 THEN MaxWord ELSE EightBits(xor[crc[n - 1]][bytes[n]])
    IN  crc[Len(bytes)]

\* Fault: the CRC covers the length of the inner frame too.
CrcOfAll(fn, payload) ==
    LET body == <<0, fn>> \o serial_bytes(InverterSerial) \o payload
        whole == Word(Len(body) + 2) \o body
    IN  whole \o Word(crc16_modbus(whole))

build_inner_frame(fn, payload) ==
    LET body == <<0, fn>> \o serial_bytes(InverterSerial) \o payload
    IN  Word(Len(body) + 2) \o body \o Word(crc16_modbus(body))

build_frame(fn, payload) ==
    LET inner == build_inner_frame(fn, payload)
    IN  <<161, 26>> \o Word(Protocol)
          \o Word(HeaderLen + Len(inner) - LengthAdjust)
          \o <<1, 194>> \o serial_bytes(DongleSerial) \o inner

build_response_frame(fn, register, payload) ==
    build_frame(fn, Word(register) \o payload)

build_read_holding_request(register, count) ==
    build_frame(ReadHolding, Word(register) \o Word(count))

build_write_single_request(register, value) ==
    build_frame(WriteSingle, Word(register) \o Word(value))

-----------------------------------------------------------------------------
(* Reading.                                                                *)

\* The length a frame gives for itself.
frame_length_expected(bytes) == to_int(SubSeq(bytes, 5, 6)) + LengthAdjust

\* The inner frame without its CRC.
Subject(frame) == SubSeq(frame, HeaderLen + 1, Len(frame) - 2)

HasFunction(frame) == Len(frame) >= HeaderLen + 4
HasRegister(frame) == Len(frame) >= HeaderLen + 4 /\ Len(Subject(frame)) >= 16
response_function(frame) == Subject(frame)[4]
response_register(frame) == to_int(SubSeq(Subject(frame), 15, 16))

\* A request is read without cutting its CRC off.
request_register(frame) == to_int(SubSeq(frame, HeaderLen + 15, HeaderLen + 16))

\* What validated_subject raises.
Fault(frame, fn) ==
    CASE Len(frame) < HeaderLen \/ Len(Subject(frame)) < 4 -> "truncated"
      [] Len(Subject(frame)) >= 4 /\ Subject(frame)[4] >= Exception -> "exception"
      [] ~HasRegister(frame) -> "truncated"
      [] Subject(frame)[4] # fn -> "wrong function"
      [] OTHER -> "none"

\* The first byte after the register counts the bytes after it: it is taken
\* for the length of the values, otherwise for the first value.
HasLengthByte(subject) ==
    Len(subject) > 16 /\ subject[17] = Len(subject) - 17

read_response_values(frame, fn) ==
    LET subject == Subject(frame)
        values == SubSeq(subject, 17, Len(subject))
    IN  IF fn = ReadHolding
        THEN IF HasLengthByte(subject) THEN Tail(values) ELSE values
        ELSE IF Len(values) >= 2 THEN SubSeq(values, 1, 2) ELSE <<>>

\* parse_response wants the two bytes of an echo; a read is taken as it is.
Readable(frame, fn) ==
    /\ Fault(frame, fn) = "none"
    /\ fn # ReadHolding => Len(read_response_values(frame, fn)) >= 2

\* The registers of the payload, each where its offset says; what is left of
\* one at the end is none.
RegistersOf(payload) ==
    [k \in 1..(Len(payload) \div 2) |-> to_int(SubSeq(payload, 2 * k - 1, 2 * k))]

-----------------------------------------------------------------------------
(* The receiver of a request, the dongle, takes a frame whose length and   *)
(* CRC are right: over the inner frame with its CRC the remainder is 0.    *)

Intact(frame) ==
    LET inner == SubSeq(frame, HeaderLen + 1, Len(frame))
    IN  /\ SubSeq(frame, 1, 2) = <<161, 26>>
        /\ frame_length_expected(frame) = Len(frame)
        /\ SubSeq(frame, 9, HeaderLen) = serial_bytes(DongleSerial)
        /\ SubSeq(inner, 5, 14) = serial_bytes(InverterSerial)
        /\ to_int(SubSeq(inner, 1, 2)) = Len(inner) - 2
        /\ crc16_modbus(SubSeq(inner, 3, Len(inner))) = 0
=============================================================================
