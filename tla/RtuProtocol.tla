---------------------------- MODULE RtuProtocol ----------------------------
(***************************************************************************)
(* The MODBUS RTU framing state machine, modbus::internal::RtuProtocol     *)
(* (src/src/modbus/rtu_protocol_internal.h) behind its public wrapper      *)
(* modbus::RtuProtocol (src/src/modbus/rtu_protocol.h).                    *)
(*                                                                         *)
(* The machine is driven by two callers: the serial driver's interrupt     *)
(* handlers report BusIdle, RxByte and TxDone, the main loop calls         *)
(* ReadFrame and WriteFrame.  Every event is one process_event() call and  *)
(* one step here; an event with no row in the transition table for the     *)
(* current state is dropped.  The events are operators on the machine's    *)
(* record, so that a handler that reports several of them in a row can     *)
(* compose them (see SensorNode).                                          *)
(***************************************************************************)
EXTENDS Naturals, Sequences

CONSTANTS
  Byte,      \* values of a received or transmitted byte
  Capacity,  \* capacity of modbus::Buffer in bytes (256 in modbus.h)
  Crc(_)     \* crc16_modbus of a byte sequence, as the pair <<low, high>>

ASSUME CapacityAssumption == Capacity \in Nat /\ Capacity > 2

ASSUME CrcAssumption ==
  \A n \in 0 .. Capacity : \A s \in [1 .. n -> Byte] : Crc(s) \in Byte \X Byte

VARIABLES
  rtu,       \* [state, buf]: current state and the receive buffer rx_buffer_
  serial     \* the frame last handed to SerialInterface::Send, <<>> if none

rtuVars == <<rtu, serial>>

States == {"Init", "Idle", "Receiving", "Available", "Ignoring", "Sending"}

-----------------------------------------------------------------------------
(* Slips the runs must notice, each put in the place of the definition it  *)
(* resembles.                                                              *)

\* The CRC compared high byte first.
SwappedCrcOk(b) ==
  Len(b) > 2 /\ Crc(SubSeq(b, 1, Len(b) - 2)) = <<b[Len(b)], b[Len(b) - 1]>>

\* clear_buffer forgotten.
UnclearedReceive(r, byte) ==
  [state |-> "Receiving", buf |-> Append(r.buf, byte)]

\* One byte too late.
LateBufferFull(b) == Len(b) > Capacity

\* A bus idle that returns to Idle from every state.
ResettingBusIdleEvent(r) == [r EXCEPT !.state = "Idle"]

-----------------------------------------------------------------------------
(* The transition table.                                                   *)

(***************************************************************************)
(* The guard crc_ok.  It is not a pure test: whatever its verdict, it cuts *)
(* the two CRC bytes off the buffer it looks at.                           *)
(***************************************************************************)
CutCrc(b) == IF Len(b) <= 2 THEN b ELSE SubSeq(b, 1, Len(b) - 2)

CrcOk(b) == Len(b) > 2 /\ Crc(CutCrc(b)) = <<b[Len(b) - 1], b[Len(b)]>>

(***************************************************************************)
(* BusIdle in Receiving.  The rows guarded by crc_ok and by !crc_ok are    *)
(* tried in order and each evaluates crc_ok: when the first one fails, the *)
(* second one checks the buffer the first one has already cut, and the     *)
(* event is dropped when that check succeeds.                              *)
(***************************************************************************)
EndOfFrame(b) ==
  LET once  == CutCrc(b)
      twice == CutCrc(once)
  IN  IF CrcOk(b) THEN [state |-> "Available", buf |-> once]
      ELSE IF CrcOk(once) THEN [state |-> "Receiving", buf |-> twice]
      ELSE [state |-> "Idle", buf |-> twice]

BusIdleEvent(r) ==
  IF r.state = "Receiving" THEN EndOfFrame(r.buf)
  ELSE IF r.state \in {"Init", "Ignoring"} THEN [r EXCEPT !.state = "Idle"]
  ELSE r

\* The buffer after one more byte: clear_buffer comes first in Idle.
Receive(r, byte) ==
  [state |-> "Receiving",
   buf   |-> IF r.state = "Idle" THEN <<byte>> ELSE Append(r.buf, byte)]

BufferFull(b) == Len(b) >= Capacity

RxByteEvent(r, byte, parity_ok) ==
  IF r.state \notin {"Idle", "Receiving"} THEN r
  ELSE IF parity_ok /\ (r.state = "Idle" \/ ~BufferFull(r.buf))
    THEN Receive(r, byte)
    ELSE [r EXCEPT !.state = "Ignoring"]

FrameReadEvent(r) ==
  IF r.state = "Available" THEN [r EXCEPT !.state = "Idle"] ELSE r

TxStartEvent(r) ==
  IF r.state = "Idle" THEN [r EXCEPT !.state = "Sending"] ELSE r

TxDoneEvent(r) ==
  IF r.state = "Sending" THEN [r EXCEPT !.state = "Idle"] ELSE r

\* send_frame appends the CRC, low byte first, to the caller's buffer.
Framed(buf) == buf \o Crc(buf)

-----------------------------------------------------------------------------
(* The public operations.                                                  *)

RtuInit == rtu = [state |-> "Init", buf |-> <<>>] /\ serial = <<>>

BusIdle == rtu' = BusIdleEvent(rtu) /\ UNCHANGED serial

RxByte(byte, parity_ok) ==
  rtu' = RxByteEvent(rtu, byte, parity_ok) /\ UNCHANGED serial

TxDone == rtu' = TxDoneEvent(rtu) /\ UNCHANGED serial

\* Returns the receive buffer; outside Available it returns nullptr and does
\* nothing.
ReadFrame ==
  /\ rtu.state = "Available"
  /\ rtu' = FrameReadEvent(rtu)
  /\ UNCHANGED serial

\* The caller leaves room for the CRC (the assert in send_frame).
WriteFrame(buf) ==
  /\ Len(buf) + 2 <= Capacity
  /\ rtu' = TxStartEvent(rtu)
  /\ serial' = IF rtu.state = "Idle" THEN Framed(buf) ELSE serial

=============================================================================
