--------------------------- MODULE RtuLinkProofs ---------------------------
(***************************************************************************)
(* Proofs about RtuLink, for every set of bytes, buffer capacity, checksum *)
(* and application.  Safe is the inductive invariant: what the observer    *)
(* knows of a run that has not begun has to be added to FollowsRun, since  *)
(* the first byte of a run decides whether the machine follows it.         *)
(***************************************************************************)
EXTENDS RtuLink, RtuProtocolProofs

Fresh == run = <<>> => listened /\ intact /\ ~missed

Safe == TypeOK /\ Fresh /\ FollowsRun

-----------------------------------------------------------------------------
(* Lemmas on the guard crc_ok and the end of a reception.                  *)

(* crc_ok cuts a payload of two bytes less out of a buffer of more than    *)
(* two bytes, and succeeds on valid frames only.                           *)
LEMMA CrcOkCuts ==
  ASSUME NEW b \in Seq(Byte), Len(b) <= Capacity
  PROVE  /\ CrcOk(b) <=> ValidFrame(b)
         /\ CutCrc(b) \in Seq(Byte)
         /\ Len(b) > 2 => /\ CutCrc(b) = Payload(b)
                          /\ Len(CutCrc(b)) = Len(b) - 2
         /\ Len(b) <= 2 => CutCrc(b) = b
<1>1. CASE Len(b) <= 2
  BY <1>1 DEF CutCrc, CrcOk, ValidFrame
<1>2. CASE Len(b) > 2
  <2>1. Payload(b) \in Seq(Byte) /\ Len(Payload(b)) = Len(b) - 2
    BY <1>2, SubSeqProperties DEF Payload
  <2>2. CutCrc(b) = Payload(b)
    BY <1>2 DEF CutCrc, Payload
  <2> QED
    BY <1>2, <2>1, <2>2 DEF CrcOk, ValidFrame
<1> QED
  BY <1>1, <1>2

(* A reception that a bus idle ends is available exactly when the buffer   *)
(* is a valid frame.  Where it does not end (Receiving again) two checks   *)
(* have cut four bytes and left one at least.                              *)
LEMMA EndOfFrameOutcome ==
  ASSUME NEW b \in Seq(Byte), Len(b) <= Capacity
  PROVE  /\ EndOfFrame(b) \in [state : {"Available", "Idle", "Receiving"},
                               buf : Seq(Byte)]
         /\ Len(EndOfFrame(b).buf) <= Len(b)
         /\ EndOfFrame(b).state = "Available" <=> ValidFrame(b)
         /\ EndOfFrame(b).state = "Available" =>
              /\ EndOfFrame(b).buf = Payload(b)
              /\ Len(b) > 2 /\ Len(Payload(b)) = Len(b) - 2
         /\ EndOfFrame(b).state = "Receiving" => Len(EndOfFrame(b).buf) > 0
<1> DEFINE once  == CutCrc(b)
           twice == CutCrc(once)
<1>1. /\ CrcOk(b) <=> ValidFrame(b)
      /\ once \in Seq(Byte) /\ Len(once) <= Len(b)
      /\ CrcOk(b) => once = Payload(b) /\ Len(once) = Len(b) - 2 /\ Len(b) > 2
  BY CrcOkCuts, CapacityAssumption DEF CrcOk
<1>2. /\ twice \in Seq(Byte) /\ Len(twice) <= Len(once)
      /\ CrcOk(once) => Len(twice) > 0
  <2>1. once \in Seq(Byte) /\ Len(once) <= Capacity
    BY <1>1, CapacityAssumption
  <2>2. /\ twice \in Seq(Byte)
        /\ Len(once) > 2 => Len(twice) = Len(once) - 2
        /\ Len(once) <= 2 => twice = once
    BY <2>1, CrcOkCuts
  <2> QED
    BY <2>1, <2>2 DEF CrcOk
<1>3. EndOfFrame(b) = IF CrcOk(b) THEN [state |-> "Available", buf |-> once]
                      ELSE IF CrcOk(once)
                        THEN [state |-> "Receiving", buf |-> twice]
                        ELSE [state |-> "Idle", buf |-> twice]
  BY DEF EndOfFrame
<1> HIDE DEF once, twice
<1>4. CASE CrcOk(b)
  BY <1>1, <1>3, <1>4
<1>5. CASE ~CrcOk(b) /\ CrcOk(once)
  BY <1>1, <1>2, <1>3, <1>5
<1>6. CASE ~CrcOk(b) /\ ~CrcOk(once)
  BY <1>1, <1>2, <1>3, <1>6
<1> QED
  BY <1>4, <1>5, <1>6

-----------------------------------------------------------------------------
(* The inductive invariant.                                                *)

LEMMA InitSafe == Init => Safe
<1> SUFFICES ASSUME Init PROVE Safe
  OBVIOUS
<1>1. rtu = [state |-> "Init", buf |-> <<>>] /\ serial = <<>> /\ run = <<>>
  BY DEF Init, RtuInit
<1>2. listened /\ intact /\ ~missed /\ {listened, intact, missed} \subseteq BOOLEAN
  BY DEF Init
<1>3. /\ rtu \in [state : States, buf : Seq(Byte)] /\ rtu.state = "Init"
      /\ Len(rtu.buf) = 0 /\ Len(serial) = 0 /\ {serial, run} \subseteq Seq(Byte)
  BY <1>1 DEF States
<1>4. TypeOK
  BY <1>2, <1>3, CapacityAssumption DEF TypeOK
<1> QED
  BY <1>1, <1>2, <1>4 DEF Safe, Fresh, FollowsRun

LEMMA NextSafe == Safe /\ [Next]_vars => Safe'
<1> SUFFICES ASSUME Safe, [Next]_vars PROVE Safe'
  OBVIOUS
<1> USE CapacityAssumption
<1>t. TypeOK /\ Fresh /\ FollowsRun
  BY DEF Safe
<1>1. CASE IdleEnds
  <2>1. /\ run' = <<>> /\ serial' = serial
        /\ listened' /\ intact' /\ ~missed'
        /\ {listened', intact', missed'} \subseteq BOOLEAN
    BY <1>1 DEF IdleEnds, BusIdle
  <2>2. /\ rtu' \in [state : States, buf : Seq(Byte)]
        /\ Len(rtu'.buf) <= Capacity
        /\ rtu'.state = "Receiving" => Len(rtu'.buf) > 0
        /\ rtu'.state = "Available" =>
             Len(rtu'.buf) > 0 /\ Len(rtu'.buf) + 2 <= Capacity
    <3>1. rtu' = BusIdleEvent(rtu)
      BY <1>1 DEF IdleEnds, BusIdle
    <3>2. CASE rtu.state = "Receiving"
      <4>1. rtu' = EndOfFrame(rtu.buf)
        BY <3>1, <3>2 DEF BusIdleEvent
      <4> QED
        BY <1>t, <4>1, EndOfFrameOutcome DEF TypeOK, States
    <3>3. CASE rtu.state # "Receiving"
      BY <1>t, <3>1, <3>3 DEF BusIdleEvent, TypeOK, States
    <3> QED
      BY <3>2, <3>3
  <2>3. TypeOK'
    <3>1. run' \in Seq(Byte)
      BY <2>1
    <3> QED
      BY <1>t, <2>1, <2>2, <3>1 DEF TypeOK
  <2> QED
    BY <2>1, <2>3 DEF Safe, Fresh, FollowsRun
<1>2. ASSUME NEW byte \in Byte, NEW parity_ok \in BOOLEAN,
             ByteArrives(byte, parity_ok)
      PROVE  Safe'
  <2>1. /\ rtu' = RxByteEvent(rtu, byte, parity_ok) /\ serial' = serial
        /\ run' = Append(run, byte)
        /\ run' \in Seq(Byte) /\ Len(run') = Len(run) + 1 /\ run' # <<>>
    BY <1>2, <1>t, AppendProperties DEF ByteArrives, RxByte, TypeOK
  <2>2. /\ intact' \in BOOLEAN /\ listened' \in BOOLEAN /\ missed' \in BOOLEAN
    BY <1>2, <1>t DEF ByteArrives, TypeOK
  <2>3. CASE rtu.state \notin {"Idle", "Receiving"}
    <3>1. rtu' = rtu
      BY <2>1, <2>3 DEF RxByteEvent
    <3>2. TypeOK'
      BY <1>t, <2>1, <2>2, <3>1 DEF TypeOK
    <3>3. listened' => listened /\ run # <<>> /\ rtu.state = "Ignoring"
      BY <1>2, <1>t, <2>3 DEF ByteArrives
    <3>4. FollowsRun'
      BY <1>2, <1>t, <2>1, <3>1, <3>3 DEF FollowsRun, ByteArrives, TypeOK
    <3> QED
      BY <2>1, <3>2, <3>4 DEF Safe, Fresh
  <2>4. CASE rtu.state = "Idle"
    <3>1. rtu' = IF parity_ok THEN [state |-> "Receiving", buf |-> <<byte>>]
                 ELSE [rtu EXCEPT !.state = "Ignoring"]
      BY <2>1, <2>4 DEF RxByteEvent, Receive
    <3>2. TypeOK'
      BY <1>t, <2>1, <2>2, <2>4, <3>1 DEF TypeOK, States
    <3>3. listened' => run = <<>> /\ intact
      BY <1>2, <1>t, <2>4 DEF ByteArrives, FollowsRun, Fresh
    <3>4. run = <<>> => run' = <<byte>> /\ Len(run') = 1
      BY <2>1
    <3>5. intact' <=> intact /\ parity_ok
      BY <1>2 DEF ByteArrives
    <3>6. FollowsRun'
      <4>1. CASE parity_ok
        <5>1. rtu'.state = "Receiving" /\ rtu'.buf = <<byte>>
          BY <3>1, <4>1
        <5>2. run = <<>> => rtu'.buf = run' /\ Len(run') <= Capacity
          <6>1. run = <<>> => rtu'.buf = run'
            BY <3>4, <5>1
          <6>2. run = <<>> => Len(run') <= Capacity
            BY <3>4
          <6> QED
            BY <6>1, <6>2
        <5>3. listened' => run = <<>> /\ intact'
          BY <3>3, <3>5, <4>1
        <5> QED
          BY <5>1, <5>2, <5>3 DEF FollowsRun
      <4>2. CASE ~parity_ok
        <5>1. rtu'.state = "Ignoring" /\ ~intact'
          BY <1>t, <3>1, <3>5, <4>2 DEF TypeOK
        <5> QED
          BY <5>1 DEF FollowsRun
      <4> QED
        BY <4>1, <4>2
    <3> QED
      BY <2>1, <3>2, <3>6 DEF Safe, Fresh
  <2>5. CASE rtu.state = "Receiving"
    <3>1. rtu' = IF parity_ok /\ Len(rtu.buf) < Capacity
                   THEN [state |-> "Receiving", buf |-> Append(rtu.buf, byte)]
                   ELSE [rtu EXCEPT !.state = "Ignoring"]
      BY <1>t, <2>1, <2>5 DEF RxByteEvent, Receive, BufferFull, TypeOK
    <3>2. /\ Append(rtu.buf, byte) \in Seq(Byte)
          /\ Len(Append(rtu.buf, byte)) = Len(rtu.buf) + 1
      BY <1>t, AppendProperties DEF TypeOK
    <3>3. TypeOK'
      <4>1. CASE parity_ok /\ Len(rtu.buf) < Capacity
        <5>1. rtu' = [state |-> "Receiving", buf |-> Append(rtu.buf, byte)]
          BY <3>1, <4>1
        <5>2. Len(rtu'.buf) <= Capacity /\ Len(rtu'.buf) > 0
          BY <1>t, <3>2, <4>1, <5>1 DEF TypeOK
        <5> QED
          BY <1>t, <2>1, <2>2, <3>2, <5>1, <5>2 DEF TypeOK, States
      <4>2. CASE ~(parity_ok /\ Len(rtu.buf) < Capacity)
        <5>1. rtu' = [rtu EXCEPT !.state = "Ignoring"]
          BY <3>1, <4>2
        <5> QED
          BY <1>t, <2>1, <2>2, <5>1 DEF TypeOK, States
      <4> QED
        BY <4>1, <4>2
    <3>4. listened' => listened /\ run # <<>>
      BY <1>2, <1>t, <2>5 DEF ByteArrives
    <3>5. intact' <=> intact /\ parity_ok
      BY <1>2 DEF ByteArrives
    <3>6. listened' => intact /\ Len(run) <= Capacity /\ rtu.buf = run
      BY <1>t, <2>5, <3>4 DEF FollowsRun
    <3>7. FollowsRun'
      BY <1>t, <2>1, <3>1, <3>5, <3>6 DEF FollowsRun, TypeOK
    <3> QED
      BY <2>1, <3>3, <3>7 DEF Safe, Fresh
  <2> QED
    BY <2>3, <2>4, <2>5
<1>3. CASE FrameRead
  <2>1. /\ rtu.state = "Available" /\ rtu' = [rtu EXCEPT !.state = "Idle"]
        /\ serial' = serial /\ UNCHANGED observer
    BY <1>3 DEF FrameRead, ReadFrame, FrameReadEvent
  <2>2. TypeOK'
    BY <1>t, <2>1 DEF TypeOK, States, observer
  <2> QED
    BY <1>t, <2>1, <2>2 DEF Safe, Fresh, FollowsRun, observer
<1>4. ASSUME NEW buf \in Response, FrameWritten(buf)
      PROVE  Safe'
  <2>1. UNCHANGED observer
    BY <1>4 DEF FrameWritten
  <2>2. CASE rtu.state = "Idle"
    <3>1. rtu' = [rtu EXCEPT !.state = "Sending"] /\ serial' = Framed(buf)
      BY <1>4, <2>2 DEF FrameWritten, WriteFrame, TxStartEvent
    <3>2. TypeOK'
      BY <1>t, <2>1, <2>2, <3>1, FramedFits, ResponseAssumption
         DEF TypeOK, States, observer
    <3> QED
      BY <1>t, <2>1, <2>2, <3>1, <3>2 DEF Safe, Fresh, FollowsRun, observer
  <2>3. CASE rtu.state # "Idle"
    <3>1. rtu' = rtu /\ serial' = serial
      BY <1>4, <2>3 DEF FrameWritten, WriteFrame, TxStartEvent
    <3> QED
      BY <1>t, <2>1, <3>1 DEF Safe, TypeOK, Fresh, FollowsRun, observer
  <2> QED
    BY <2>2, <2>3
<1>5. CASE Transmitted
  <2>1. /\ rtu' = TxDoneEvent(rtu) /\ serial' = serial /\ UNCHANGED observer
    BY <1>5 DEF Transmitted, TxDone
  <2>2. TypeOK'
    BY <1>t, <2>1 DEF TypeOK, States, observer, TxDoneEvent
  <2> QED
    BY <1>t, <2>1, <2>2 DEF Safe, Fresh, FollowsRun, observer, TxDoneEvent
<1>6. CASE UNCHANGED vars
  BY <1>t, <1>6 DEF Safe, TypeOK, Fresh, FollowsRun, vars
<1> QED
  BY <1>1, <1>2, <1>3, <1>4, <1>5, <1>6 DEF Next

(***************************************************************************)
(* The machine keeps its types and its buffer within the capacity.         *)
(***************************************************************************)
THEOREM TypeCorrect == Spec => []TypeOK
<1>1. Safe => TypeOK
  BY DEF Safe
<1> QED
  BY <1>1, InitSafe, NextSafe, PTL DEF Spec

(***************************************************************************)
(* While the machine follows a run, its buffer is the run; a run it gave   *)
(* up it ignores.                                                          *)
(***************************************************************************)
THEOREM Following == Spec => []FollowsRun
<1>1. Safe => FollowsRun
  BY DEF Safe
<1> QED
  BY <1>1, InitSafe, NextSafe, PTL DEF Spec

-----------------------------------------------------------------------------
(* Action properties.                                                      *)

LEMMA NotEmptyAfterByte ==
  ASSUME TypeOK, NEW byte \in Byte, NEW parity_ok \in BOOLEAN,
         ByteArrives(byte, parity_ok)
  PROVE  run' # <<>>
BY AppendProperties DEF TypeOK, ByteArrives

(***************************************************************************)
(* A run the machine followed is handed over exactly when it is an intact  *)
(* valid frame, as the payload of that frame.  Only a bus idle ends a run, *)
(* and it finds the run in the buffer (FollowsRun).                        *)
(***************************************************************************)
THEOREM Delivery == Spec => FrameDelivery
<1>1. ASSUME Safe, [Next]_vars, RunEnds, listened
      PROVE  /\ rtu'.state = "Available" <=> intact /\ ValidFrame(run)
             /\ rtu'.state = "Available" => rtu'.buf = Payload(run)
  <2>1. TypeOK /\ FollowsRun /\ run # <<>> /\ run' = <<>>
    BY <1>1 DEF Safe, RunEnds
  <2>2. IdleEnds
    BY <1>1, <2>1, NotEmptyAfterByte
       DEF Next, FrameRead, FrameWritten, Transmitted, observer, vars
  <2>3. rtu' = BusIdleEvent(rtu)
    BY <2>2 DEF IdleEnds, BusIdle
  <2>4. CASE intact /\ Len(run) <= Capacity
    <3>1. rtu.state = "Receiving" /\ rtu.buf = run
      BY <1>1, <2>1, <2>4 DEF FollowsRun
    <3>2. rtu' = EndOfFrame(run)
      BY <2>3, <3>1 DEF BusIdleEvent
    <3>3. run \in Seq(Byte)
      BY <2>1 DEF TypeOK
    <3> QED
      BY <2>4, <3>2, <3>3, EndOfFrameOutcome
  <2>5. CASE ~(intact /\ Len(run) <= Capacity)
    <3>1. rtu.state = "Ignoring"
      BY <1>1, <2>1, <2>5 DEF FollowsRun
    <3>2. rtu'.state = "Idle"
      BY <2>1, <2>3, <3>1 DEF BusIdleEvent, TypeOK
    <3>3. ~(intact /\ ValidFrame(run))
      BY <2>5 DEF ValidFrame
    <3> QED
      BY <3>2, <3>3
  <2> QED
    BY <2>4, <2>5
<1>2. Safe /\ [Next]_vars =>
        [RunEnds /\ listened =>
           /\ rtu'.state = "Available" <=> intact /\ ValidFrame(run)
           /\ rtu'.state = "Available" => rtu'.buf = Payload(run)]_vars
  BY <1>1
<1> QED
  BY <1>2, InitSafe, NextSafe, PTL DEF Spec, FrameDelivery

(***************************************************************************)
(* An available frame stays as it is until it is read, a transmission goes *)
(* on until TxDone.                                                        *)
(***************************************************************************)
THEOREM Holding == Spec => HeldUntilDone
<1> DEFINE Held ==
      /\ rtu.state = "Available" => FrameRead \/ rtu' = rtu
      /\ rtu.state = "Sending" =>
           /\ rtu'.buf = rtu.buf /\ serial' = serial
           /\ Transmitted \/ rtu' = rtu
<1>1. ASSUME Safe, Next PROVE Held
  <2>1. CASE IdleEnds
    BY <2>1 DEF IdleEnds, BusIdle, BusIdleEvent
  <2>2. ASSUME NEW byte \in Byte, NEW parity_ok \in BOOLEAN,
               ByteArrives(byte, parity_ok)
        PROVE  Held
    BY <2>2 DEF ByteArrives, RxByte, RxByteEvent
  <2>3. CASE FrameRead
    BY <2>3 DEF FrameRead, ReadFrame
  <2>4. ASSUME NEW buf \in Response, FrameWritten(buf)
        PROVE  Held
    BY <2>4 DEF FrameWritten, WriteFrame, TxStartEvent
  <2>5. CASE Transmitted
    <3>1. rtu' = TxDoneEvent(rtu) /\ serial' = serial
      BY <2>5 DEF Transmitted, TxDone
    <3>2. rtu.state = "Sending" => rtu'.buf = rtu.buf
      BY <1>1, <3>1 DEF TxDoneEvent, Safe, TypeOK
    <3> QED
      BY <2>5, <3>1, <3>2 DEF TxDoneEvent
  <2> QED
    BY <1>1, <2>1, <2>2, <2>3, <2>4, <2>5 DEF Next
<1>2. Safe /\ [Next]_vars => [Held]_vars
  BY <1>1
<1> QED
  BY <1>2, InitSafe, NextSafe, PTL DEF Spec, HeldUntilDone

=============================================================================
