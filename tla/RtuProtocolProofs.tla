-------------------------- MODULE RtuProtocolProofs --------------------------
(***************************************************************************)
(* Lemmas on the operators of RtuProtocol, for RtuLink and SensorNode.     *)
(***************************************************************************)
EXTENDS RtuProtocol, SequenceTheorems, TLAPS

Machine == [state : States, buf : Seq(Byte)]

(* The checksum of a sequence that fits the buffer is two bytes.           *)
LEMMA CrcIsTwoBytes ==
  ASSUME NEW s \in Seq(Byte), Len(s) <= Capacity
  PROVE  Crc(s) \in Byte \X Byte
<1>1. Len(s) \in 0 .. Capacity /\ s \in [1 .. Len(s) -> Byte]
  BY CapacityAssumption
<1> QED
  BY <1>1, CrcAssumption

(* A frame handed to the serial interface fits the buffer.                 *)
LEMMA FramedFits ==
  ASSUME NEW buf \in Seq(Byte), Len(buf) + 2 <= Capacity
  PROVE  /\ Framed(buf) \in Seq(Byte) /\ Len(Framed(buf)) <= Capacity
         /\ Len(Framed(buf)) = Len(buf) + 2
<1>1. Len(buf) \in Nat /\ Len(buf) <= Capacity
  BY CapacityAssumption
<1>2. PICK lo \in Byte, hi \in Byte : Crc(buf) = <<lo, hi>>
  BY <1>1, CrcIsTwoBytes
<1>3. <<lo, hi>> \in Seq(Byte) /\ Len(<<lo, hi>>) = 2
  OBVIOUS
<1>4. /\ buf \o <<lo, hi>> \in Seq(Byte)
      /\ Len(buf \o <<lo, hi>>) = Len(buf) + 2
  BY <1>3, ConcatProperties
<1> QED
  BY <1>2, <1>4 DEF Framed

(* crc_ok only shortens the buffer.                                        *)
LEMMA CutCrcShortens ==
  ASSUME NEW b \in Seq(Byte)
  PROVE  CutCrc(b) \in Seq(Byte) /\ Len(CutCrc(b)) <= Len(b)
<1>1. CASE Len(b) <= 2
  BY <1>1 DEF CutCrc
<1>2. CASE Len(b) > 2
  <2>1. /\ SubSeq(b, 1, Len(b) - 2) \in Seq(Byte)
        /\ Len(SubSeq(b, 1, Len(b) - 2)) = Len(b) - 2
    BY <1>2, SubSeqProperties
  <2> QED
    BY <1>2, <2>1 DEF CutCrc
<1> QED
  BY <1>1, <1>2

(* A bus idle keeps the buffer within its capacity, changes nothing while  *)
(* a frame is available or sent, and is no end of a transmission.          *)
LEMMA BusIdleOutcome ==
  ASSUME NEW r \in Machine, Len(r.buf) <= Capacity
  PROVE  /\ BusIdleEvent(r) \in Machine /\ Len(BusIdleEvent(r).buf) <= Capacity
         /\ r.state \in {"Idle", "Available", "Sending"} => BusIdleEvent(r) = r
         /\ r.state = "Receiving" =>
              BusIdleEvent(r).state \in {"Available", "Receiving", "Idle"}
         /\ r.state \in {"Init", "Ignoring"} => BusIdleEvent(r).state = "Idle"
<1> USE CapacityAssumption DEF Machine
<1>1. CASE r.state = "Receiving"
  <2> DEFINE once  == CutCrc(r.buf)
             twice == CutCrc(once)
  <2>1. once \in Seq(Byte) /\ Len(once) <= Capacity
    BY CutCrcShortens
  <2>2. twice \in Seq(Byte) /\ Len(twice) <= Capacity
    BY <2>1, CutCrcShortens
  <2>3. BusIdleEvent(r) \in {[state |-> "Available", buf |-> once],
                            [state |-> "Receiving", buf |-> twice],
                            [state |-> "Idle", buf |-> twice]}
    BY <1>1 DEF BusIdleEvent, EndOfFrame
  <2> HIDE DEF once, twice
  <2> QED
    BY <1>1, <2>1, <2>2, <2>3 DEF States
<1>2. CASE r.state # "Receiving"
  BY <1>2 DEF BusIdleEvent, States
<1> QED
  BY <1>1, <1>2

(* A byte received keeps the buffer within its capacity; it matters only   *)
(* in Idle and Receiving.                                                  *)
LEMMA RxByteOutcome ==
  ASSUME NEW r \in Machine, Len(r.buf) <= Capacity,
         NEW byte \in Byte, NEW ok \in BOOLEAN
  PROVE  /\ RxByteEvent(r, byte, ok) \in Machine
         /\ Len(RxByteEvent(r, byte, ok).buf) <= Capacity
         /\ r.state \notin {"Idle", "Receiving"} => RxByteEvent(r, byte, ok) = r
         /\ r.state \in {"Idle", "Receiving"} =>
              RxByteEvent(r, byte, ok).state \in {"Receiving", "Ignoring"}
<1> USE CapacityAssumption DEF Machine, RxByteEvent, States
<1>1. CASE r.state = "Idle" /\ ok
  <2>1. <<byte>> \in Seq(Byte) /\ Len(<<byte>>) = 1
    OBVIOUS
  <2> QED
    BY <1>1, <2>1 DEF Receive
<1>2. CASE r.state = "Receiving" /\ ok /\ ~BufferFull(r.buf)
  <2>1. Append(r.buf, byte) \in Seq(Byte) /\ Len(Append(r.buf, byte)) = Len(r.buf) + 1
    BY AppendProperties
  <2> QED
    BY <1>2, <2>1 DEF Receive, BufferFull
<1>3. CASE /\ ~(r.state = "Idle" /\ ok)
           /\ ~(r.state = "Receiving" /\ ok /\ ~BufferFull(r.buf))
  BY <1>3
<1> QED
  BY <1>1, <1>2, <1>3

=============================================================================
