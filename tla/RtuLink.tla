------------------------------ MODULE RtuLink ------------------------------
(***************************************************************************)
(* The framing state machine of RtuProtocol on a bus that delivers any     *)
(* bytes at any time, between callers that may call any operation in any   *)
(* order.  An observer follows the bytes of the current run, the bytes the *)
(* bus carried since it was last idle, and so says what the machine should *)
(* have made of them.                                                      *)
(***************************************************************************)
EXTENDS RtuProtocol

CONSTANT Response   \* the buffers the application passes to WriteFrame

ASSUME ResponseAssumption ==
  \A buf \in Response : buf \in Seq(Byte) /\ Len(buf) + 2 <= Capacity

VARIABLES
  run,       \* bytes since the bus was last reported idle
  listened,  \* was the machine following the run from its first byte?
  intact,    \* have all bytes of the run arrived with good parity?
  missed     \* did a byte of the run arrive while Available or Sending?

observer == <<run, listened, intact, missed>>
vars == <<rtu, serial, run, listened, intact, missed>>

Init ==
  /\ RtuInit
  /\ run = <<>> /\ listened = TRUE /\ intact = TRUE /\ missed = FALSE

IdleEnds ==
  /\ BusIdle
  /\ run' = <<>> /\ listened' = TRUE /\ intact' = TRUE /\ missed' = FALSE

ByteArrives(byte, parity_ok) ==
  /\ RxByte(byte, parity_ok)
  /\ run' = Append(run, byte)
  /\ intact' = (intact /\ parity_ok)
  /\ listened' = (listened /\ IF run = <<>> THEN rtu.state = "Idle"
                              ELSE rtu.state \in {"Receiving", "Ignoring"})
  /\ missed' = (missed \/ rtu.state \in {"Available", "Sending"})

FrameRead == ReadFrame /\ UNCHANGED observer

FrameWritten(buf) == WriteFrame(buf) /\ UNCHANGED observer

Transmitted == TxDone /\ UNCHANGED observer

Next ==
  \/ IdleEnds
  \/ \E byte \in Byte, parity_ok \in BOOLEAN : ByteArrives(byte, parity_ok)
  \/ FrameRead
  \/ \E buf \in Response : FrameWritten(buf)
  \/ Transmitted

Spec == Init /\ [][Next]_vars

-----------------------------------------------------------------------------
(* What a run of bytes is as a MODBUS RTU frame: the payload and its CRC.  *)

Payload(s) == SubSeq(s, 1, Len(s) - 2)

ValidFrame(s) ==
  /\ Len(s) > 2 /\ Len(s) <= Capacity
  /\ Crc(Payload(s)) = <<s[Len(s) - 1], s[Len(s)]>>

RunEnds == run # <<>> /\ run' = <<>>

-----------------------------------------------------------------------------
(* Properties.                                                             *)

(***************************************************************************)
(* The machine and the observer stay within their types, and the receive   *)
(* buffer within its capacity: push_back is never called on a full buffer, *)
(* also after a bus idle that did not end the reception.  A frame handed   *)
(* out has at least one byte and left room for its CRC.                    *)
(***************************************************************************)
TypeOK ==
  /\ rtu \in [state : States, buf : Seq(Byte)]
  /\ Len(rtu.buf) <= Capacity
  /\ rtu.state = "Receiving" => Len(rtu.buf) > 0
  /\ rtu.state = "Available" => Len(rtu.buf) > 0 /\ Len(rtu.buf) + 2 <= Capacity
  /\ serial \in Seq(Byte) /\ Len(serial) <= Capacity
  /\ run \in Seq(Byte)
  /\ {listened, intact, missed} \subseteq BOOLEAN

(***************************************************************************)
(* While the machine follows a run, the receive buffer is the run itself;  *)
(* from its first bad byte, or the first byte too many, it is ignored.     *)
(***************************************************************************)
FollowsRun ==
  listened /\ run # <<>> =>
    IF intact /\ Len(run) <= Capacity
      THEN rtu.state = "Receiving" /\ rtu.buf = run
      ELSE rtu.state = "Ignoring"

(***************************************************************************)
(* A run the machine followed from its first byte is handed to the         *)
(* application exactly when it is an intact, valid frame, and what is      *)
(* handed over is its payload: no valid frame is lost, no damaged, short,  *)
(* over-long or corrupt one gets through, no byte is dropped or added.     *)
(***************************************************************************)
FrameDelivery ==
  [][RunEnds /\ listened =>
       /\ rtu'.state = "Available" <=> intact /\ ValidFrame(run)
       /\ rtu'.state = "Available" => rtu'.buf = Payload(run)]_vars

(***************************************************************************)
(* A frame that is available stays untouched, whatever the bus carries,    *)
(* until it is read; a transmission once started goes on until TxDone.     *)
(* (ReadDuringReceive and ReceiveDuringSend in rtu_protocol_test.cc.)      *)
(***************************************************************************)
HeldUntilDone ==
  [][/\ rtu.state = "Available" => FrameRead \/ rtu' = rtu
     /\ rtu.state = "Sending" =>
          /\ rtu'.buf = rtu.buf /\ serial' = serial
          /\ Transmitted \/ rtu' = rtu]_vars

(***************************************************************************)
(* The transition table ends every reception at a bus idle, in Available   *)
(* when crc_ok holds and in Idle when it does not                          *)
(* (rtu_protocol_internal.h:77-78).  The code violates it.                 *)
(***************************************************************************)
IdleEndsReception == [][RunEnds => rtu'.state # "Receiving"]_vars

(***************************************************************************)
(* A frame that comes in while an earlier one is unread, or while the unit *)
(* transmits, is ignored (rtu_protocol_test.cc:160, :179): no part of it   *)
(* becomes a frame of its own.  The code violates it.                      *)
(***************************************************************************)
MissedFrameIgnored ==
  [][RunEnds /\ missed /\ rtu.state # "Available" => rtu'.state # "Available"]_vars

=============================================================================
