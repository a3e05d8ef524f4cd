-------------------------- MODULE SensorNodeProofs --------------------------
(***************************************************************************)
(* Proofs about SensorNode, for every set of bytes, buffer capacity,       *)
(* checksum and set of responses.  Steady is the inductive invariant.  The *)
(* safety of the unit rests on time: that the timer has not been restarted *)
(* when a frame is taken, that no second character is complete before the  *)
(* main loop has taken it.  What makes this true is said by TimerTiming    *)
(* and RestartTiming, in terms of the activities that are still young.     *)
(***************************************************************************)
EXTENDS SensorNode, RtuProtocolProofs

\* Between main()'s begin and Enable nothing happens.
Booting == pc = "boot" => /\ uart = UartOff /\ mrt = MrtOff
                          /\ rtu.state = "Init"

Listening == pc # "boot" => uart.on /\ {"RXRDY", "START"} \subseteq uart.inten

\* The character on the bus is not complete before the next rest.
CharYoung == line = "char" => "rx" \in young

(***************************************************************************)
(* While the timer runs, a character begun since then has its start bit    *)
(* unserved, and a byte received is unserved only since the last rest:     *)
(* either will be served before the timer expires, or is just about to be. *)
(* So the silence was broken by no more than that start bit, no byte is to *)
(* come while the expiry is served, the timer does not run then, and it    *)
(* finds the main loop where it goes on to take the frame.                 *)
(***************************************************************************)
TimerTiming ==
  /\ mrt.running =>
       /\ ~Executing
       /\ uart.rxrdy => "mrt" \in young
       /\ ~spans => CharYoung /\ (line = "char" => uart.start)
       /\ ~spans /\ ~uart.rxrdy => gap # "none"
       /\ gap = "short" => line = "char"
  /\ mrt.flag =>
       ~Executing /\ ~mrt.running /\ ~uart.rxrdy /\ CharYoung /\ gap # "none"
  /\ rtu.state = "Receiving" =>
       /\ mrt.running /\ "mrt" \notin young => pc = "asleep"
       /\ mrt.flag => pc \in {"asleep", "update"}
  /\ rtu.state = "Available" =>
       pc = "update" /\ ~mrt.running /\ ~mrt.flag /\ ~uart.rxrdy /\ CharYoung

\* From the last byte written to the end of the transmission, the
\* transmitter is busy until the main loop has come to rest.
LastByte ==
  /\ "tx" \in young => uart.shift
  /\ tx.active /\ (uart.start \/ uart.rxrdy) /\ line = "char" /\ "rx" \notin young =>
       tx.left > 0 /\ ~uart.shift /\ ~uart.hold
  /\ tx.active /\ tx.left = 0 /\ ~uart.hold /\ "tx" \notin young /\ pc # "asleep" =>
       CharYoung

(***************************************************************************)
(* Once a reset was asked for and the response has left, no frame comes to *)
(* an end: where the main loop has missed the end of the response, and is  *)
(* about to sleep, it wakes up and finds the reset before it does.         *)
(***************************************************************************)
RestartTiming ==
  reset =>
    /\ rtu.state \in {"Idle", "Sending", "Receiving", "Ignoring"}
    /\ rtu.state \in {"Receiving", "Ignoring"} =>
         /\ pc \in {"update", "check"}
         /\ ~mrt.flag /\ (mrt.running => "mrt" \in young)
    /\ rtu.state = "Idle" /\ pc = "sleep" => ~uart.rxrdy /\ CharYoung

Steady ==
  /\ TypeOK /\ ReadyToReply /\ TxAgrees
  /\ Booting /\ Listening
  /\ TimerTiming /\ LastByte /\ RestartTiming

-----------------------------------------------------------------------------
(* Lemmas.                                                                 *)

(* Once the driver is enabled, INTSTAT shows a received byte and a start   *)
(* bit, and what of the transmitter's flags is enabled.                    *)
LEMMA Interrupts ==
  ASSUME TypeOK, Listening, pc # "boot"
  PROVE  /\ "RXRDY" \in IntStatus <=> uart.rxrdy
         /\ "START" \in IntStatus <=> uart.start
         /\ "TXRDY" \in IntStatus <=> "TXRDY" \in uart.inten /\ ~uart.hold
         /\ "TXIDLE" \in IntStatus <=>
              "TXIDLE" \in uart.inten /\ ~uart.hold /\ ~uart.shift
         /\ uart.rxrdy \/ uart.start => Pending
<1>1. {"RXRDY", "START"} \subseteq uart.inten
  BY DEF Listening
<1>2. /\ "RXRDY" \in IntStatus <=> uart.rxrdy
      /\ "START" \in IntStatus <=> uart.start
  BY <1>1 DEF IntStatus, Status
<1>3. /\ "TXRDY" \in IntStatus <=> "TXRDY" \in uart.inten /\ ~uart.hold
      /\ "TXIDLE" \in IntStatus <=>
           "TXIDLE" \in uart.inten /\ ~uart.hold /\ ~uart.shift
  BY DEF IntStatus, Status
<1> QED
  BY <1>2, <1>3 DEF Pending, UartPending

(* The unit boots with the USART and the timer off.                        *)
LEMMA OffTypes ==
  /\ UartOff \in [on : BOOLEAN,
                  inten : SUBSET {"RXRDY", "START", "TXRDY", "TXIDLE"},
                  start : BOOLEAN, rxrdy : BOOLEAN, parity : BOOLEAN,
                  data : Byte, hold : BOOLEAN, shift : BOOLEAN]
  /\ ~UartOff.on /\ UartOff.inten = {} /\ ~UartOff.start /\ ~UartOff.rxrdy
  /\ ~UartOff.hold /\ ~UartOff.shift
  /\ MrtOff \in [running : BOOLEAN, flag : BOOLEAN]
  /\ ~MrtOff.running /\ ~MrtOff.flag
<1> DEFINE none == [i \in 1 .. 0 |-> i]
<1>1. none \in [1 .. 0 -> Byte] /\ 0 \in 0 .. Capacity
  BY CapacityAssumption
<1> HIDE DEF none
<1>2. Crc(none) \in Byte \X Byte
  BY <1>1, CrcAssumption
<1>3. (CHOOSE b \in Byte : TRUE) \in Byte
  BY <1>2
<1> QED
  BY <1>3 DEF UartOff, MrtOff

-----------------------------------------------------------------------------
(* The invariant is inductive.                                             *)

LEMMA InitSteady == Init => Steady
<1> SUFFICES ASSUME Init PROVE Steady
  OBVIOUS
<1> USE OffTypes DEF Init, RtuInit
<1>1. /\ rtu.state = "Init" /\ rtu.buf = <<>> /\ serial = <<>> /\ pc = "boot"
      /\ ~reset /\ ~tx.active /\ tx.left = 0 /\ wire.sent = 0
      /\ Len(<<>>) = 0 /\ <<>> \in Seq(Byte)
  OBVIOUS
<1>2. TypeOK
  <2>1. rtu \in [state : States, buf : Seq(Byte)] /\ Len(rtu.buf) <= Capacity
    BY <1>1, CapacityAssumption DEF States
  <2>2. /\ tx \in [active : BOOLEAN, left : 0 .. Capacity]
        /\ wire \in [sent : 0 .. Capacity, asFramed : BOOLEAN]
        /\ serial \in Seq(Byte) /\ Len(serial) <= Capacity
    BY <1>1, CapacityAssumption
  <2> QED
    BY <2>1, <2>2 DEF TypeOK
<1>3. TxAgrees
  BY <1>1 DEF TxAgrees
<1>4. Booting /\ Listening /\ ReadyToReply
  BY <1>1 DEF Booting, Listening, ReadyToReply, Executing
<1>5. TimerTiming /\ LastByte /\ RestartTiming
  BY <1>1 DEF TimerTiming, LastByte, RestartTiming
<1> QED
  BY <1>2, <1>3, <1>4, <1>5 DEF Steady

(* The UART interrupt: received bytes, start bits, bytes to be sent.       *)
LEMMA UartIsrSteady ==
  ASSUME Steady, UartIsr PROVE Steady'
<1> USE CapacityAssumption
<1> DEFINE ints == IntStatus
<1>1. /\ TypeOK /\ ReadyToReply /\ TxAgrees /\ Booting /\ Listening
      /\ TimerTiming /\ LastByte /\ RestartTiming
  BY DEF Steady
<1>2. pc # "boot" /\ ~Executing
  BY <1>1, OffTypes DEF Booting, UartIsr, UartPending, IntStatus, Masked
<1>3. /\ "RXRDY" \in ints <=> uart.rxrdy
      /\ "START" \in ints <=> uart.start
      /\ "TXRDY" \in ints <=> "TXRDY" \in uart.inten /\ ~uart.hold
      /\ "TXIDLE" \in ints <=> "TXIDLE" \in uart.inten /\ ~uart.hold /\ ~uart.shift
  BY <1>1, <1>2, Interrupts
<1>4. /\ ~("TXRDY" \in ints /\ "TXIDLE" \in ints)
      /\ "TXRDY" \in ints => tx.active /\ tx.left > 0
      /\ "TXIDLE" \in ints => tx.active /\ tx.left = 0
  BY <1>1, <1>3 DEF TxAgrees
<1>5. /\ pc' \in {"update", "check", "sleep"}
      /\ pc' = IF pc = "asleep" THEN "update" ELSE pc
      /\ pc' # "boot" /\ ~Executing'
  BY <1>1, <1>2 DEF UartIsr, Wake, TypeOK, Executing
<1>6. /\ uart' \in [on : BOOLEAN,
                    inten : SUBSET {"RXRDY", "START", "TXRDY", "TXIDLE"},
                    start : BOOLEAN, rxrdy : BOOLEAN, parity : BOOLEAN,
                    data : Byte, hold : BOOLEAN, shift : BOOLEAN]
      /\ uart'.on = uart.on /\ uart'.inten = IntEnAfter(ints)
      /\ ~uart'.start /\ ~uart'.rxrdy
      /\ uart'.hold = (uart.hold \/ ("TXRDY" \in ints /\ uart.shift))
      /\ uart'.shift = (uart.shift \/ "TXRDY" \in ints)
  <2>1. IntEnAfter(ints) \in SUBSET {"RXRDY", "START", "TXRDY", "TXIDLE"}
    BY <1>1 DEF IntEnAfter, TypeOK
  <2>2. uart' = UartAfter(ints)
    BY DEF UartIsr
  <2>3. /\ uart \in [on : BOOLEAN,
                     inten : SUBSET {"RXRDY", "START", "TXRDY", "TXIDLE"},
                     start : BOOLEAN, rxrdy : BOOLEAN, parity : BOOLEAN,
                     data : Byte, hold : BOOLEAN, shift : BOOLEAN]
    BY <1>1 DEF TypeOK
  <2> HIDE DEF ints
  <2>4. uart' = [on |-> uart.on, inten |-> IntEnAfter(ints),
                 start |-> uart.start /\ "START" \notin ints,
                 rxrdy |-> uart.rxrdy /\ "RXRDY" \notin ints,
                 parity |-> uart.parity /\ "RXRDY" \notin ints,
                 data |-> uart.data,
                 hold |-> uart.hold \/ ("TXRDY" \in ints /\ uart.shift),
                 shift |-> uart.shift \/ "TXRDY" \in ints]
    BY <2>2, <2>3 DEF UartAfter
  <2> QED
    BY <1>3, <2>1, <2>3, <2>4
<1>7. /\ tx' = TxAfter(ints)
      /\ tx'.active = (tx.active /\ "TXIDLE" \notin ints)
      /\ tx'.left = IF "TXRDY" \in ints THEN tx.left - 1 ELSE tx.left
      /\ tx' \in [active : BOOLEAN, left : 0 .. Capacity]
  BY <1>1, <1>4 DEF UartIsr, TxAfter, TypeOK
<1>8. /\ mrt' \in [running : BOOLEAN, flag : BOOLEAN]
      /\ mrt'.flag = mrt.flag
      /\ mrt'.running = (uart.rxrdy \/ (mrt.running /\ ~uart.start))
  BY <1>1, <1>3 DEF UartIsr, TimerRuns, TypeOK
<1>9. /\ rtu' \in [state : States, buf : Seq(Byte)] /\ Len(rtu'.buf) <= Capacity
      /\ rtu.state \notin {"Idle", "Receiving", "Sending"} => rtu'.state = rtu.state
      /\ rtu.state = "Sending" =>
           rtu'.state = IF "TXIDLE" \in ints THEN "Idle" ELSE "Sending"
      /\ rtu.state \in {"Idle", "Receiving"} =>
           IF uart.rxrdy THEN rtu'.state \in {"Receiving", "Ignoring"}
                         ELSE rtu'.state = rtu.state
  <2> DEFINE received == IF "RXRDY" \in ints
                           THEN RxByteEvent(rtu, uart.data, "PARITYERR" \notin ints)
                           ELSE rtu
  <2>1. /\ received \in Machine /\ Len(received.buf) <= Capacity
        /\ rtu.state \notin {"Idle", "Receiving"} => received = rtu
        /\ rtu.state \in {"Idle", "Receiving"} =>
             IF uart.rxrdy THEN received.state \in {"Receiving", "Ignoring"}
                           ELSE received = rtu
    BY <1>1, <1>3, RxByteOutcome DEF TypeOK, Machine
  <2>2. rtu' = IF "TXIDLE" \in ints THEN TxDoneEvent(received) ELSE received
    BY DEF UartIsr, RtuAfter
  <2>3. "TXIDLE" \in ints => rtu.state = "Sending"
    BY <1>1, <1>4 DEF TxAgrees
  <2> HIDE DEF received, ints
  <2> QED
    BY <2>1, <2>2, <2>3 DEF TxDoneEvent, Machine, States
<1>10. /\ serial' = serial /\ reset' = reset /\ line' = line
       /\ gap' = IF uart.rxrdy THEN SilenceBegun ELSE gap
       /\ gap' \in {"full", "short", "none"}
       /\ wire'.sent = wire.sent /\ wire' \in [sent : 0 .. Capacity, asFramed : BOOLEAN]
  BY <1>1, <1>3 DEF UartIsr, TypeOK, SilenceBegun
<1>11. /\ young' \subseteq {"rx", "mrt", "tx"} /\ spans' \in BOOLEAN
       /\ "rx" \in young' <=> "rx" \in young
       /\ uart.rxrdy => "mrt" \in young' /\ spans' = (line = "char")
       /\ ~uart.rxrdy => spans' = spans
       /\ ~uart.rxrdy /\ mrt'.running => ("mrt" \in young' <=> "mrt" \in young)
       /\ "tx" \in young' <=> "tx" \in young \/ (uart'.shift /\ ~uart.shift)
  BY <1>1, <1>3, <1>8 DEF UartIsr, TypeOK, TimerRuns
<1> HIDE DEF ints
<1>12. TypeOK'
  BY <1>1, <1>5, <1>6, <1>7, <1>8, <1>9, <1>10, <1>11 DEF TypeOK
<1>13. ReadyToReply' /\ Booting' /\ Listening'
  <2>1. {"RXRDY", "START"} \subseteq IntEnAfter(ints)
    BY <1>1, <1>2 DEF Listening, IntEnAfter
  <2> QED
    BY <1>1, <1>2, <1>5, <1>6, <2>1 DEF ReadyToReply, Booting, Listening
<1>14. TxAgrees'
  <2>1. /\ tx.active <=> rtu.state = "Sending"
        /\ tx.left \in 0 .. Capacity /\ wire.sent \in 0 .. Capacity
        /\ {uart.hold, uart.shift, tx.active} \subseteq BOOLEAN
    BY <1>1 DEF TxAgrees, TypeOK
  <2>2. tx'.active <=> rtu'.state = "Sending"
    BY <2>1, <1>4, <1>7, <1>9 DEF States
  <2>3. CASE "TXRDY" \in ints
    <3>1. IntEnAfter(ints) = IF tx.left <= 1
                               THEN (uart.inten \ {"TXRDY"}) \cup {"TXIDLE"}
                               ELSE uart.inten
      BY <2>3, <1>4 DEF IntEnAfter
    <3>2. /\ ~uart.hold /\ tx.left > 0 /\ tx.active /\ tx'.active
          /\ tx'.left = tx.left - 1 /\ uart'.shift /\ uart'.hold = uart.shift
          /\ wire'.sent = wire.sent /\ serial' = serial
          /\ tx.left + (IF uart.shift THEN 1 ELSE 0) + wire.sent = Len(serial)
      BY <2>1, <2>3, <1>1, <1>3, <1>4, <1>6, <1>7, <1>10 DEF TxAgrees
    <3>3. /\ "TXRDY" \in uart'.inten <=> tx'.left > 0
          /\ "TXIDLE" \in uart'.inten <=> tx'.left = 0
      BY <2>1, <3>1, <3>2, <1>1, <1>6 DEF TxAgrees
    <3> QED
      BY <2>1, <2>2, <3>2, <3>3 DEF TxAgrees
  <2>4. CASE "TXIDLE" \in ints
    <3>1. IntEnAfter(ints) = uart.inten \ {"TXIDLE"}
      BY <2>4 DEF IntEnAfter
    <3> QED
      BY <2>1, <2>2, <2>4, <3>1, <1>1, <1>3, <1>4, <1>6, <1>7, <1>10 DEF TxAgrees
  <2>5. CASE "TXRDY" \notin ints /\ "TXIDLE" \notin ints
    <3>1. IntEnAfter(ints) = uart.inten
      BY <2>5 DEF IntEnAfter
    <3> QED
      BY <2>1, <2>2, <2>5, <3>1, <1>1, <1>6, <1>7, <1>10 DEF TxAgrees
  <2> QED
    BY <2>3, <2>4, <2>5
<1>15. TimerTiming'
  <2>1. mrt'.running =>
          /\ ~Executing' /\ (uart'.rxrdy => "mrt" \in young')
          /\ ~spans' => CharYoung' /\ (line' = "char" => uart'.start)
          /\ ~spans' /\ ~uart'.rxrdy => gap' # "none"
          /\ gap' = "short" => line' = "char"
    BY <1>1, <1>5, <1>6, <1>8, <1>10, <1>11
       DEF TimerTiming, CharYoung, SilenceBegun, TypeOK
  <2>2. mrt'.flag =>
          ~Executing' /\ ~mrt'.running /\ ~uart'.rxrdy /\ CharYoung' /\ gap' # "none"
    BY <1>1, <1>5, <1>6, <1>8, <1>10, <1>11 DEF TimerTiming, CharYoung
  <2>3. ASSUME rtu'.state = "Receiving"
        PROVE  /\ mrt'.running /\ "mrt" \notin young' => pc' = "asleep"
               /\ mrt'.flag => pc' \in {"asleep", "update"}
    <3>1. ~uart.rxrdy => rtu.state = "Receiving" /\ ints = {"START"}
      <4>1. ~uart.rxrdy => rtu.state = "Receiving"
        BY <2>3, <1>9, <1>1 DEF TypeOK, States
      <4>2. ints \subseteq {"RXRDY", "START", "PARITYERR", "TXRDY", "TXIDLE"} /\ ints # {}
        BY DEF ints, IntStatus, Status, UartIsr, UartPending
      <4>3. "PARITYERR" \notin ints
        BY <1>1 DEF ints, IntStatus, TypeOK
      <4> QED
        BY <4>1, <4>2, <4>3, <1>1, <1>3, <1>4 DEF TxAgrees
    <3>2. uart.rxrdy => ~mrt.flag /\ "mrt" \in young'
      BY <1>1, <1>11 DEF TimerTiming
    <3>3. ~uart.rxrdy => ~mrt'.running
      BY <3>1, <1>3, <1>8
    <3> QED
      BY <3>1, <3>2, <3>3, <1>1, <1>5, <1>8 DEF TimerTiming
  <2>4. ASSUME rtu'.state = "Available"
        PROVE  /\ pc' = "update" /\ ~mrt'.running /\ ~mrt'.flag
               /\ ~uart'.rxrdy /\ CharYoung'
    <3>1. rtu.state = "Available"
      BY <2>4, <1>9, <1>1 DEF TypeOK, States
    <3> QED
      BY <3>1, <1>1, <1>5, <1>6, <1>8, <1>10, <1>11 DEF TimerTiming, CharYoung
  <2> QED
    BY <2>1, <2>2, <2>3, <2>4 DEF TimerTiming
<1>16. LastByte'
  <2>1. "tx" \in young' => uart'.shift
    BY <1>1, <1>6, <1>11 DEF LastByte
  <2>2. ASSUME tx'.active, tx'.left = 0, ~uart'.hold, "tx" \notin young'
        PROVE  CharYoung'
    <3>1. "TXRDY" \notin ints /\ tx.active /\ tx.left = 0 /\ ~uart.hold /\ "tx" \notin young
      BY <2>2, <1>6, <1>7, <1>11
    <3>2. CASE pc # "asleep"
      BY <3>1, <3>2, <1>1, <1>10, <1>11 DEF LastByte, CharYoung
    <3>3. CASE pc = "asleep"
      <4>1. "TXIDLE" \notin ints
        BY <2>2, <1>7
      <4>2. ints \subseteq {"RXRDY", "START", "PARITYERR", "TXRDY", "TXIDLE"} /\ ints # {}
        BY DEF ints, IntStatus, Status, UartIsr, UartPending
      <4>3. "PARITYERR" \notin ints
        BY <1>1 DEF ints, IntStatus, TypeOK
      <4>4. uart.start \/ uart.rxrdy
        BY <4>1, <4>2, <4>3, <3>1, <1>3
      <4> QED
        BY <4>4, <3>1, <1>1, <1>10, <1>11 DEF LastByte, CharYoung
    <3> QED
      BY <3>2, <3>3
  <2>3. ~uart'.start /\ ~uart'.rxrdy
    BY <1>6
  <2> QED
    BY <2>1, <2>2, <2>3 DEF LastByte
<1>17. RestartTiming'
  BY <1>1, <1>2, <1>3, <1>4, <1>5, <1>6, <1>7, <1>8, <1>9, <1>10, <1>11
     DEF RestartTiming, LastByte, TimerTiming, TxAgrees, CharYoung, TypeOK
<1> QED
  BY <1>12, <1>13, <1>14, <1>15, <1>16, <1>17 DEF Steady

(* The timer interrupt: a bus idle.                                        *)
LEMMA TimerIsrSteady ==
  ASSUME Steady, TimerIsr PROVE Steady'
<1>1. /\ TypeOK /\ ReadyToReply /\ TxAgrees /\ Booting /\ Listening
      /\ TimerTiming /\ LastByte /\ RestartTiming
  BY DEF Steady
<1>2. pc # "boot" /\ ~Executing
  BY <1>1, OffTypes DEF Booting, TimerIsr, Masked
<1>3. /\ mrt.flag /\ ~mrt.running /\ ~uart.rxrdy /\ CharYoung
      /\ mrt' \in [running : BOOLEAN, flag : BOOLEAN]
      /\ ~mrt'.flag /\ ~mrt'.running
  BY <1>1 DEF TimerTiming, TimerIsr, TimerServed, TypeOK
<1>4. /\ pc' \in {"update", "check", "sleep"}
      /\ pc' = IF pc = "asleep" THEN "update" ELSE pc
      /\ pc' # "boot" /\ ~Executing'
  BY <1>1, <1>2 DEF TimerIsr, Wake, TypeOK, Executing
<1>5. /\ rtu' \in [state : States, buf : Seq(Byte)] /\ Len(rtu'.buf) <= Capacity
      /\ rtu.state \in {"Idle", "Available", "Sending"} => rtu' = rtu
      /\ rtu.state = "Receiving" => rtu'.state \in {"Available", "Receiving", "Idle"}
      /\ rtu.state \in {"Init", "Ignoring"} => rtu'.state = "Idle"
  BY <1>1, BusIdleOutcome DEF TypeOK, Machine, TimerIsr
<1>6. UNCHANGED <<serial, reset, tx, uart, line, young, spans, wire, gap>>
  BY DEF TimerIsr, observer
<1>7. TypeOK'
  BY <1>1, <1>3, <1>4, <1>5, <1>6 DEF TypeOK
<1>8. ReadyToReply' /\ Booting' /\ Listening'
  BY <1>1, <1>2, <1>4, <1>6 DEF ReadyToReply, Booting, Listening
<1>9. TxAgrees'
  BY <1>1, <1>5, <1>6 DEF TxAgrees, TypeOK, States
<1>10. TimerTiming'
  <2>1. rtu'.state = "Available" => pc' = "update"
    BY <1>1, <1>3, <1>4, <1>5 DEF TimerTiming, TypeOK, States
  <2> QED
    BY <2>1, <1>3, <1>6 DEF TimerTiming, CharYoung
<1>11. LastByte'
  BY <1>1, <1>3, <1>6 DEF LastByte, CharYoung
<1>12. RestartTiming'
  BY <1>1, <1>3, <1>4, <1>5, <1>6 DEF RestartTiming, CharYoung, TypeOK, States
<1> QED
  BY <1>7, <1>8, <1>9, <1>10, <1>11, <1>12 DEF Steady

(* main() up to the request: Enable, and UpdateModbus's ReadFrame.         *)
LEMMA BootSteady ==
  ASSUME Steady, Boot PROVE Steady'
<1>1. /\ TypeOK /\ ReadyToReply /\ TxAgrees /\ Booting /\ Listening
      /\ TimerTiming /\ LastByte /\ RestartTiming
  BY DEF Steady
<1>2. /\ uart = UartOff /\ mrt = MrtOff /\ rtu.state = "Init"
      /\ ~uart.hold /\ ~uart.shift /\ ~tx.active /\ "tx" \notin young /\ ~reset
      /\ pc' = "update"
  BY <1>1, OffTypes DEF Booting, Boot, TxAgrees, LastByte, RestartTiming
<1>3. /\ uart' \in [on : BOOLEAN,
                    inten : SUBSET {"RXRDY", "START", "TXRDY", "TXIDLE"},
                    start : BOOLEAN, rxrdy : BOOLEAN, parity : BOOLEAN,
                    data : Byte, hold : BOOLEAN, shift : BOOLEAN]
      /\ uart'.on /\ uart'.inten = {"RXRDY", "START"} /\ ~uart'.start
      /\ ~uart'.rxrdy /\ ~uart'.hold /\ ~uart'.shift
  BY OffTypes DEF Boot, Enable, UartConfigured
<1>4. mrt' = [running |-> TRUE, flag |-> FALSE]
  BY <1>1, <1>2, OffTypes DEF Boot, Enable, TypeOK
<1>5. /\ UNCHANGED <<rtu, serial, reset, tx, line, wire>>
      /\ gap' = SilenceBegun
      /\ young' = young \cup {"mrt"} /\ spans' = (line = "char")
  BY DEF Boot, Enable
<1>6. TypeOK'
  BY <1>1, <1>2, <1>3, <1>4, <1>5 DEF TypeOK, SilenceBegun
<1>7. TxAgrees'
  BY <1>1, <1>2, <1>3, <1>5 DEF TxAgrees
<1>8. ReadyToReply' /\ Booting' /\ Listening'
  BY <1>2, <1>3 DEF ReadyToReply, Booting, Listening, Executing
<1>9. TimerTiming' /\ LastByte' /\ RestartTiming'
  BY <1>1, <1>2, <1>3, <1>4, <1>5
     DEF TimerTiming, LastByte, RestartTiming, CharYoung, Executing, SilenceBegun, TypeOK
<1> QED
  BY <1>6, <1>7, <1>8, <1>9 DEF Steady

LEMMA TakeRequestSteady ==
  ASSUME Steady, TakeRequest PROVE Steady'
<1>1. /\ TypeOK /\ ReadyToReply /\ TxAgrees /\ Booting /\ Listening
      /\ TimerTiming /\ LastByte /\ RestartTiming
  BY DEF Steady
<1>2. /\ rtu.state = "Available" /\ rtu' = [rtu EXCEPT !.state = "Idle"]
      /\ pc = "update" /\ pc' = "execute"
      /\ UNCHANGED <<serial, reset, tx, uart, mrt, line, young, spans, wire, gap>>
  BY DEF TakeRequest, ReadFrame, FrameReadEvent, driver, observer
<1>3. /\ rtu' \in [state : States, buf : Seq(Byte)] /\ rtu'.state = "Idle"
      /\ rtu'.buf = rtu.buf
  BY <1>1, <1>2 DEF TypeOK, States
<1>4. TypeOK'
  BY <1>1, <1>2, <1>3 DEF TypeOK
<1>5. /\ ~mrt.running /\ ~mrt.flag /\ ~uart.rxrdy /\ CharYoung /\ ~reset
  BY <1>1, <1>2 DEF TimerTiming, RestartTiming
<1>6. TxAgrees'
  BY <1>1, <1>2, <1>3 DEF TxAgrees
<1>7. ReadyToReply' /\ Booting' /\ Listening'
  BY <1>1, <1>2, <1>3 DEF ReadyToReply, Booting, Listening
<1>8. TimerTiming' /\ LastByte' /\ RestartTiming'
  BY <1>1, <1>2, <1>3, <1>5 DEF TimerTiming, LastByte, RestartTiming, CharYoung
<1> QED
  BY <1>4, <1>6, <1>7, <1>8 DEF Steady

(* The rest of the main loop changes nothing but its place, except that    *)
(* Slave::Execute may ask for a reset.                                     *)
LEMMA LoopSteady ==
  ASSUME Steady,
         NoRequest \/ StartMeasurement \/ EndMeasurement \/ NoReply
         \/ KeepRunning \/ Sleep
  PROVE  Steady'
<1>1. /\ TypeOK /\ ReadyToReply /\ TxAgrees /\ Booting /\ Listening
      /\ TimerTiming /\ LastByte /\ RestartTiming
  BY DEF Steady
<1>2. UNCHANGED <<rtu, serial, tx, uart, mrt, line, young, spans, wire, gap>>
  BY DEF NoRequest, StartMeasurement, EndMeasurement, NoReply, KeepRunning, Sleep,
         driver, observer
<1>3. /\ pc' \in {"measure", "measured", "check", "sleep", "asleep"}
      /\ reset' \in BOOLEAN /\ pc # "boot"
      /\ Executing' => Executing
  BY <1>1 DEF NoRequest, StartMeasurement, EndMeasurement, NoReply, KeepRunning,
              Sleep, Executing, Executed, TypeOK
<1>4. /\ rtu.state = "Available" => FALSE
      /\ pc' \in {"check", "sleep", "asleep"} /\ ~Executing => ~Pending
  BY <1>1 DEF NoRequest, StartMeasurement, EndMeasurement, NoReply, KeepRunning,
              Sleep, Executing, Executed, TimerTiming
<1>5. TypeOK' /\ TxAgrees'
  <2>1. TypeOK'
    BY <1>1, <1>2, <1>3 DEF TypeOK
  <2>2. TxAgrees'
    BY <1>1, <1>2 DEF TxAgrees
  <2> QED
    BY <2>1, <2>2
<1>6. ReadyToReply' /\ Booting' /\ Listening'
  BY <1>1, <1>2, <1>3 DEF ReadyToReply, Booting, Listening
<1>7. TimerTiming'
  <2>1. mrt.flag => FALSE
    BY <1>1, <1>4, <1>3 DEF TimerTiming, Pending, Executing, NoRequest,
         StartMeasurement, EndMeasurement, NoReply, KeepRunning, Sleep, Executed
  <2>2. rtu.state = "Receiving" /\ mrt.running /\ "mrt" \notin young => FALSE
    BY <1>1 DEF TimerTiming, ReadyToReply, Executing, NoRequest,
         StartMeasurement, EndMeasurement, NoReply, KeepRunning, Sleep, Executed
  <2> QED
    BY <1>1, <1>2, <1>3, <1>4, <2>1, <2>2 DEF TimerTiming, CharYoung
<1>8. LastByte'
  <2>1. pc # "asleep"
    BY DEF NoRequest, StartMeasurement, EndMeasurement, NoReply, KeepRunning,
           Sleep, Executed
  <2> QED
    BY <1>1, <1>2, <2>1 DEF LastByte, CharYoung
<1>9. RestartTiming'
  <2>1. CASE Executing
    <3>1. rtu.state = "Idle" /\ pc' # "sleep"
      BY <1>1, <2>1 DEF ReadyToReply, Executing, NoRequest,
         StartMeasurement, EndMeasurement, NoReply, KeepRunning, Sleep, Executed
    <3> QED
      BY <3>1, <1>2 DEF RestartTiming
  <2>2. CASE NoRequest
    BY <2>2, <1>1, <1>2 DEF NoRequest, RestartTiming
  <2>3. CASE KeepRunning
    <3>1. reset' => tx.active /\ rtu'.state = "Sending"
      BY <2>3, <1>1, <1>2 DEF KeepRunning, MayReset, TxAgrees
    <3> QED
      BY <3>1 DEF RestartTiming
  <2>4. CASE Sleep
    BY <2>4, <1>1, <1>2 DEF Sleep, RestartTiming
  <2> QED
    BY <2>1, <2>2, <2>3, <2>4 DEF StartMeasurement, EndMeasurement, NoReply,
                                  Executed, Executing
<1> QED
  BY <1>5, <1>6, <1>7, <1>8, <1>9 DEF Steady

(* A response: the transmission begins, since the machine is Idle.         *)
LEMMA ReplySteady ==
  ASSUME Steady, NEW buf \in Response, Reply(buf) PROVE Steady'
<1>1. /\ TypeOK /\ ReadyToReply /\ TxAgrees /\ Booting /\ Listening
      /\ TimerTiming /\ LastByte /\ RestartTiming
  BY DEF Steady
<1>2. Executing /\ rtu.state = "Idle" /\ pc # "boot" /\ pc' = "check" /\ reset' \in BOOLEAN
  BY <1>1 DEF ReadyToReply, Reply, Executed, Executing
<1>3. /\ serial' = Framed(buf) /\ serial' \in Seq(Byte) /\ Len(serial') <= Capacity
      /\ Len(serial') = Len(buf) + 2 /\ Len(serial') \in Nat /\ Len(serial') > 0
  <2>1. buf \in Seq(Byte) /\ Len(buf) + 2 <= Capacity /\ Len(buf) \in Nat
    BY ResponseAssumption
  <2> QED
    BY <1>2, <2>1, FramedFits DEF Reply, WriteFrame
<1>4. /\ rtu' = [rtu EXCEPT !.state = "Sending"]
      /\ rtu' \in [state : States, buf : Seq(Byte)] /\ rtu'.state = "Sending"
      /\ rtu'.buf = rtu.buf
  BY <1>1, <1>2 DEF Reply, WriteFrame, TxStartEvent, TypeOK, States
<1>5. /\ tx' = [active |-> TRUE, left |-> Len(serial')]
      /\ uart' = [uart EXCEPT !.inten = @ \cup {"TXRDY"}]
      /\ wire' = [sent |-> 0, asFramed |-> TRUE]
      /\ UNCHANGED <<mrt, line, young, spans, gap>>
  BY <1>2, <1>3 DEF Reply, Send
<1>6. /\ uart' \in [on : BOOLEAN,
                    inten : SUBSET {"RXRDY", "START", "TXRDY", "TXIDLE"},
                    start : BOOLEAN, rxrdy : BOOLEAN, parity : BOOLEAN,
                    data : Byte, hold : BOOLEAN, shift : BOOLEAN]
      /\ uart'.inten = uart.inten \cup {"TXRDY"} /\ uart'.on = uart.on
      /\ uart'.start = uart.start /\ uart'.rxrdy = uart.rxrdy
      /\ uart'.hold = uart.hold /\ uart'.shift = uart.shift
  BY <1>1, <1>5 DEF TypeOK
<1>7. ~tx.active /\ ~uart.hold /\ ~uart.shift /\ "TXIDLE" \notin uart.inten
  <2>1. ~tx.active
    BY <1>1, <1>2 DEF TxAgrees
  <2> QED
    BY <1>1, <2>1 DEF TxAgrees
<1>8. TypeOK'
  BY <1>1, <1>2, <1>3, <1>4, <1>5, <1>6, CapacityAssumption DEF TypeOK
<1>9. TxAgrees'
  BY <1>3, <1>4, <1>5, <1>6, <1>7 DEF TxAgrees
<1>10. ReadyToReply' /\ Booting' /\ Listening'
  BY <1>1, <1>2, <1>6 DEF ReadyToReply, Booting, Listening, Executing
<1>11. TimerTiming'
  BY <1>1, <1>2, <1>4, <1>5 DEF TimerTiming
<1>12. LastByte' /\ RestartTiming'
  BY <1>1, <1>3, <1>4, <1>5, <1>6, <1>7 DEF LastByte, RestartTiming
<1> QED
  BY <1>8, <1>9, <1>10, <1>11, <1>12 DEF Steady

LEMMA ResetSteady ==
  ASSUME Steady, Reset PROVE Steady'
<1>1. TypeOK /\ TxAgrees /\ LastByte
  BY DEF Steady
<1>2. /\ ~tx.active /\ "tx" \notin young
  BY <1>1 DEF Reset, MayReset, TxAgrees, LastByte
<1>3. /\ rtu' = [state |-> "Init", buf |-> <<>>] /\ serial' = <<>>
      /\ pc' = "boot" /\ ~reset' /\ reset' \in BOOLEAN
      /\ tx' = [active |-> FALSE, left |-> 0]
      /\ uart' = UartOff /\ mrt' = MrtOff
      /\ wire' = [sent |-> 0, asFramed |-> TRUE]
      /\ UNCHANGED <<line, young, spans, gap>>
  BY DEF Reset
<1>4. /\ rtu' \in [state : States, buf : Seq(Byte)] /\ Len(rtu'.buf) <= Capacity
      /\ serial' \in Seq(Byte) /\ Len(serial') = 0
      /\ rtu'.state = "Init"
  BY <1>3, CapacityAssumption DEF States
<1>5. TypeOK'
  <2>1. /\ tx' \in [active : BOOLEAN, left : 0 .. Capacity]
        /\ wire' \in [sent : 0 .. Capacity, asFramed : BOOLEAN]
    BY <1>3, CapacityAssumption
  <2> QED
    BY <1>1, <1>3, <1>4, <2>1, OffTypes, CapacityAssumption DEF TypeOK
<1>6. TxAgrees'
  BY <1>3, <1>4, OffTypes DEF TxAgrees
<1>7. ReadyToReply' /\ Booting' /\ Listening'
  BY <1>3, <1>4 DEF ReadyToReply, Booting, Listening, Executing
<1>8. TimerTiming' /\ LastByte' /\ RestartTiming'
  BY <1>2, <1>3, <1>4, OffTypes DEF TimerTiming, LastByte, RestartTiming
<1> QED
  BY <1>5, <1>6, <1>7, <1>8 DEF Steady

(* The hardware and the bus.                                               *)

LEMMA CharStartSteady ==
  ASSUME Steady, CharStart PROVE Steady'
<1>1. /\ TypeOK /\ ReadyToReply /\ TxAgrees /\ Booting /\ Listening
      /\ TimerTiming /\ LastByte /\ RestartTiming
  BY DEF Steady
<1>2. /\ line' = "char" /\ uart' = [uart EXCEPT !.start = uart.on]
      /\ young' = young \cup {"rx"}
      /\ gap' = IF mrt.running /\ gap = "full" THEN "short" ELSE gap
      /\ UNCHANGED <<rtu, serial, pc, reset, tx, mrt, spans, wire>>
  BY DEF CharStart
<1>3. /\ uart' \in [on : BOOLEAN,
                    inten : SUBSET {"RXRDY", "START", "TXRDY", "TXIDLE"},
                    start : BOOLEAN, rxrdy : BOOLEAN, parity : BOOLEAN,
                    data : Byte, hold : BOOLEAN, shift : BOOLEAN]
      /\ uart'.inten = uart.inten /\ uart'.on = uart.on
      /\ uart'.start = uart.on /\ uart'.rxrdy = uart.rxrdy
      /\ uart'.hold = uart.hold /\ uart'.shift = uart.shift
  BY <1>1, <1>2 DEF TypeOK
<1>4. TypeOK'
  BY <1>1, <1>2, <1>3 DEF TypeOK
<1>5. TxAgrees'
  BY <1>1, <1>2, <1>3 DEF TxAgrees
<1>6. Executing' = Executing /\ CharYoung'
  BY <1>2 DEF Executing, CharYoung
<1>7. ReadyToReply' /\ Listening'
  BY <1>1, <1>2, <1>3, <1>6 DEF ReadyToReply, Listening
<1>8. Booting'
  <2> SUFFICES ASSUME pc = "boot" PROVE uart' = uart
    BY <1>1, <1>2 DEF Booting
  <2>1. ~uart.on /\ ~uart.start
    BY <1>1, OffTypes DEF Booting
  <2> QED
    BY <1>1, <1>2, <2>1 DEF TypeOK
<1>9. TimerTiming'
  <2>1. mrt.running => uart.on
    BY <1>1, OffTypes DEF Booting, Listening
  <2> QED
    BY <1>1, <1>2, <1>3, <1>6, <2>1 DEF TimerTiming
<1>10. LastByte' /\ RestartTiming'
  BY <1>1, <1>2, <1>3, <1>6 DEF LastByte, RestartTiming
<1> QED
  BY <1>4, <1>5, <1>7, <1>8, <1>9, <1>10 DEF Steady

LEMMA CharEndSteady ==
  ASSUME Steady, NEW byte \in Byte, NEW damaged \in BOOLEAN, CharEnd(byte, damaged)
  PROVE  Steady'
<1>1. /\ TypeOK /\ ReadyToReply /\ TxAgrees /\ Booting /\ Listening
      /\ TimerTiming /\ LastByte /\ RestartTiming
  BY DEF Steady
<1>2. /\ line' = "idle" /\ line = "char" /\ "rx" \notin young /\ gap' = "none"
      /\ spans' = FALSE /\ young' = IF spans THEN young \cup {"mrt"} ELSE young
      /\ UNCHANGED <<rtu, serial, pc, reset, tx, mrt, wire>>
  BY DEF CharEnd
<1>3. /\ uart' \in [on : BOOLEAN,
                    inten : SUBSET {"RXRDY", "START", "TXRDY", "TXIDLE"},
                    start : BOOLEAN, rxrdy : BOOLEAN, parity : BOOLEAN,
                    data : Byte, hold : BOOLEAN, shift : BOOLEAN]
      /\ uart'.inten = uart.inten /\ uart'.on = uart.on
      /\ uart'.start = uart.start
      /\ uart'.hold = uart.hold /\ uart'.shift = uart.shift
      /\ IF uart.on THEN uart'.rxrdy ELSE uart' = uart
  BY <1>1 DEF TypeOK, CharEnd
<1>4. TypeOK'
  BY <1>1, <1>2, <1>3 DEF TypeOK
<1>5. TxAgrees'
  BY <1>1, <1>2, <1>3 DEF TxAgrees
<1>6. Executing' = Executing /\ CharYoung' /\ ~CharYoung
  BY <1>2 DEF Executing, CharYoung
<1>7. ReadyToReply' /\ Listening' /\ Booting'
  BY <1>1, <1>2, <1>3, <1>6, OffTypes DEF ReadyToReply, Listening, Booting
<1>8. TimerTiming'
  <2>1. mrt.running => uart.on
    BY <1>1, OffTypes DEF Booting, Listening
  <2> QED
    BY <1>1, <1>2, <1>3, <1>6, <2>1 DEF TimerTiming
<1>9. LastByte' /\ RestartTiming'
  BY <1>1, <1>2, <1>3, <1>6 DEF LastByte, RestartTiming
<1> QED
  BY <1>4, <1>5, <1>7, <1>8, <1>9 DEF Steady

LEMMA TimerExpiresSteady ==
  ASSUME Steady, TimerExpires PROVE Steady'
<1>1. /\ TypeOK /\ ReadyToReply /\ TxAgrees /\ Booting /\ Listening
      /\ TimerTiming /\ LastByte /\ RestartTiming
  BY DEF Steady
<1>2. /\ mrt.running /\ mrt' = [running |-> FALSE, flag |-> TRUE]
      /\ gap' = IF gap = "short" /\ ~JustBegun THEN "none" ELSE gap
      /\ UNCHANGED <<rtu, serial, pc, reset, tx, uart, line, young, spans, wire>>
  BY DEF TimerExpires
<1>3. ~Executing /\ "mrt" \notin young /\ ~spans
  BY <1>1, <1>2 DEF TimerExpires, TimerTiming, FastClock, Executing
<1>4. ~uart.rxrdy /\ CharYoung /\ gap' # "none"
  BY <1>1, <1>2, <1>3 DEF TimerTiming, CharYoung, JustBegun, TypeOK
<1>5. TypeOK' /\ ReadyToReply' /\ TxAgrees'
  <2>1. TypeOK'
    BY <1>1, <1>2 DEF TypeOK
  <2>2. TxAgrees'
    BY <1>1, <1>2 DEF TxAgrees
  <2> QED
    BY <2>1, <2>2, <1>1, <1>2 DEF ReadyToReply, Executing
<1>6. Booting' /\ Listening'
  BY <1>1, <1>2, OffTypes DEF Booting, Listening
<1>7. TimerTiming'
  BY <1>1, <1>2, <1>3, <1>4 DEF TimerTiming, CharYoung, Executing
<1>8. LastByte' /\ RestartTiming'
  BY <1>1, <1>2, <1>3 DEF LastByte, RestartTiming, CharYoung
<1> QED
  BY <1>5, <1>6, <1>7, <1>8 DEF Steady

LEMMA TxShiftedSteady ==
  ASSUME Steady, TxShifted PROVE Steady'
<1>1. /\ TypeOK /\ ReadyToReply /\ TxAgrees /\ Booting /\ Listening
      /\ TimerTiming /\ LastByte /\ RestartTiming
  BY DEF Steady
<1>2. /\ uart.shift /\ "tx" \notin young
      /\ young' = IF uart.hold THEN young \cup {"tx"} ELSE young
      /\ UNCHANGED <<rtu, serial, pc, reset, tx, mrt, line, spans, gap>>
  BY DEF TxShifted
<1>3. /\ uart' \in [on : BOOLEAN,
                    inten : SUBSET {"RXRDY", "START", "TXRDY", "TXIDLE"},
                    start : BOOLEAN, rxrdy : BOOLEAN, parity : BOOLEAN,
                    data : Byte, hold : BOOLEAN, shift : BOOLEAN]
      /\ uart'.inten = uart.inten /\ uart'.on = uart.on
      /\ uart'.start = uart.start /\ uart'.rxrdy = uart.rxrdy
      /\ ~uart'.hold /\ uart'.shift = uart.hold
  BY <1>1 DEF TypeOK, TxShifted
<1>4. /\ wire'.sent = wire.sent + 1 /\ wire'.asFramed = wire.asFramed
      /\ wire' = [sent |-> wire.sent + 1, asFramed |-> wire.asFramed]
  BY <1>1 DEF TypeOK, TxShifted
<1>5. TxAgrees' /\ wire'.sent <= Capacity
  BY <1>1, <1>2, <1>3, <1>4, CapacityAssumption DEF TxAgrees, TypeOK
<1>6. TypeOK'
  <2>1. wire' \in [sent : 0 .. Capacity, asFramed : BOOLEAN]
    BY <1>1, <1>4, <1>5, CapacityAssumption DEF TypeOK
  <2> QED
    BY <1>1, <1>2, <1>3, <2>1 DEF TypeOK
<1>7. ReadyToReply' /\ Listening' /\ Booting'
  BY <1>1, <1>2, <1>3, OffTypes DEF ReadyToReply, Listening, Booting, Executing
<1>8. TimerTiming'
  BY <1>1, <1>2, <1>3 DEF TimerTiming, CharYoung, Executing
<1>9. LastByte' /\ RestartTiming'
  BY <1>1, <1>2, <1>3 DEF LastByte, RestartTiming, CharYoung
<1> QED
  BY <1>5, <1>6, <1>7, <1>8, <1>9 DEF Steady

LEMMA TimePassesSteady ==
  ASSUME Steady, TimePasses PROVE Steady'
<1>1. /\ TypeOK /\ ReadyToReply /\ TxAgrees /\ Booting /\ Listening
      /\ TimerTiming /\ LastByte /\ RestartTiming
  BY DEF Steady
<1>2. /\ AtRest /\ young' = {}
      /\ UNCHANGED <<rtu, serial, pc, reset, tx, uart, mrt, line, spans, wire, gap>>
  BY DEF TimePasses, driver
<1>3. CASE Executing
  <2>1. /\ rtu.state = "Idle" /\ ~mrt.running /\ ~mrt.flag /\ ~tx.active /\ pc # "sleep"
    BY <1>1, <1>3 DEF ReadyToReply, TimerTiming, TxAgrees, Executing
  <2>2. TypeOK' /\ ReadyToReply'
    BY <1>1, <1>2 DEF TypeOK, ReadyToReply, Executing
  <2>3. TxAgrees'
    BY <1>1, <1>2 DEF TxAgrees
  <2>4. Booting' /\ Listening'
    BY <1>1, <1>2 DEF Booting, Listening
  <2>5. TimerTiming' /\ LastByte' /\ RestartTiming'
    BY <2>1, <1>2 DEF TimerTiming, LastByte, RestartTiming
  <2> QED
    BY <2>2, <2>3, <2>4, <2>5 DEF Steady
<1>4. CASE pc = "asleep" /\ ~Pending
  <2>1. ~uart.start /\ ~uart.rxrdy /\ ~mrt.flag /\ rtu.state # "Available"
    BY <1>1, <1>4, Interrupts DEF Pending, TimerTiming
  <2>2. mrt.running /\ ~spans => line # "char"
    BY <1>1, <2>1 DEF TimerTiming
  <2>3. TypeOK' /\ ReadyToReply'
    BY <1>1, <1>2 DEF TypeOK, ReadyToReply, Executing
  <2>4. TxAgrees'
    BY <1>1, <1>2 DEF TxAgrees
  <2>5. Booting' /\ Listening'
    BY <1>1, <1>2 DEF Booting, Listening
  <2>6. TimerTiming'
    BY <1>1, <1>2, <1>4, <2>1, <2>2 DEF TimerTiming, CharYoung, Executing
  <2>7. LastByte' /\ RestartTiming'
    BY <1>1, <1>2, <1>4, <2>1 DEF LastByte, RestartTiming
  <2> QED
    BY <2>3, <2>4, <2>5, <2>6, <2>7 DEF Steady
<1> QED
  BY <1>2, <1>3, <1>4 DEF AtRest

LEMMA NextSteady == Steady /\ [Next]_vars => Steady'
<1> SUFFICES ASSUME Steady, [Next]_vars PROVE Steady'
  OBVIOUS
<1>1. CASE UartIsr
  BY <1>1, UartIsrSteady
<1>2. CASE TimerIsr
  BY <1>2, TimerIsrSteady
<1>3. CASE Main
  BY <1>3, BootSteady, TakeRequestSteady, LoopSteady, ReplySteady, ResetSteady DEF Main
<1>4. CASE CharStart
  BY <1>4, CharStartSteady
<1>5. CASE SomeCharEnds
  BY <1>5, CharEndSteady DEF SomeCharEnds
<1>6. CASE TimerExpires
  BY <1>6, TimerExpiresSteady
<1>7. CASE TxShifted
  BY <1>7, TxShiftedSteady
<1>8. CASE TimePasses
  BY <1>8, TimePassesSteady
<1>9. CASE UNCHANGED vars
  <2>1. UNCHANGED <<rtu, serial, pc, reset, tx, uart, mrt, line, young, spans, wire, gap>>
    BY <1>9 DEF vars, driver, observer
  <2>2. TypeOK' /\ ReadyToReply'
    BY <2>1 DEF Steady, TypeOK, ReadyToReply, Executing
  <2>3. TxAgrees'
    BY <2>1 DEF Steady, TxAgrees
  <2>4. Booting' /\ Listening' /\ TimerTiming' /\ LastByte' /\ RestartTiming'
    BY <2>1 DEF Steady, Booting, Listening, TimerTiming, LastByte, RestartTiming,
                CharYoung, Executing
  <2> QED
    BY <2>2, <2>3, <2>4 DEF Steady
<1> QED
  BY <1>1, <1>2, <1>3, <1>4, <1>5, <1>6, <1>7, <1>8, <1>9 DEF Next

-----------------------------------------------------------------------------
(* What the unit promises: every step of it is one of RequestResponse, or  *)
(* changes nothing that RequestResponse speaks of.                         *)

Phase == IF Executing THEN "executing"
         ELSE IF rtu.state = "Available" THEN "request"
         ELSE IF tx.active THEN "replying" ELSE "listening"

Left == IF tx.active THEN Len(serial) - wire.sent ELSE 0

Same == Phase' = Phase /\ Left' = Left /\ reset' = reset

LEMMA SamePromise == Same => UNCHANGED Promise!vars
  BY DEF Same, Promise!vars, Phase, Left

LEMMA UartIsrPromise ==
  ASSUME Steady, UartIsr PROVE Promise!Finish \/ Same
<1>1. /\ TypeOK /\ TxAgrees /\ Booting /\ Listening
  BY DEF Steady
<1>2. pc # "boot" /\ ~Executing /\ ~Executing'
  BY <1>1, OffTypes
     DEF Booting, UartIsr, UartPending, IntStatus, Masked, Wake, Executing, TypeOK
<1>3. /\ rtu' = RtuAfter(IntStatus) /\ serial' = serial /\ reset' = reset
      /\ tx'.active = (tx.active /\ "TXIDLE" \notin IntStatus)
      /\ wire'.sent = wire.sent
  BY <1>1 DEF UartIsr, TxAfter, TypeOK
<1>4. rtu'.state = "Available" <=> rtu.state = "Available"
  <2> DEFINE received == IF "RXRDY" \in IntStatus
                           THEN RxByteEvent(rtu, uart.data, "PARITYERR" \notin IntStatus)
                           ELSE rtu
  <2>1. received.state = "Available" <=> rtu.state = "Available"
    BY <1>1, RxByteOutcome DEF TypeOK, Machine
  <2>2. rtu' = IF "TXIDLE" \in IntStatus THEN TxDoneEvent(received) ELSE received
    BY <1>3 DEF RtuAfter
  <2>3. received \in Machine
    BY <1>1, RxByteOutcome DEF TypeOK, Machine
  <2> HIDE DEF received
  <2> QED
    BY <2>1, <2>2, <2>3 DEF TxDoneEvent, Machine
<1>5. CASE "TXIDLE" \in IntStatus
  <2>1. tx.active /\ tx.left = 0 /\ ~uart.hold /\ ~uart.shift /\ rtu.state = "Sending"
    BY <1>1, <1>2, <1>5, Interrupts DEF TxAgrees
  <2>2. Len(serial) - wire.sent = 0 /\ ~tx'.active
    BY <1>1, <1>3, <1>5, <2>1 DEF TxAgrees, TypeOK
  <2>3. Phase = "replying" /\ Left = 0 /\ Phase' = "listening" /\ Left' = 0
    BY <1>2, <1>4, <2>1, <2>2 DEF Phase, Left
  <2> QED
    BY <1>3, <2>3 DEF Promise!Finish, Phase, Left
<1>6. CASE "TXIDLE" \notin IntStatus
  BY <1>1, <1>2, <1>3, <1>4, <1>6 DEF Same, Phase, Left, TypeOK
<1> QED
  BY <1>5, <1>6

LEMMA TimerIsrPromise ==
  ASSUME Steady, TimerIsr PROVE Promise!Arrive \/ Same
<1>1. /\ TypeOK /\ TxAgrees /\ Booting
  BY DEF Steady
<1>2. /\ ~Executing /\ ~Executing' /\ UNCHANGED <<serial, reset, tx, wire>>
  BY <1>1, OffTypes DEF Booting, TimerIsr, Masked, Wake, Executing, TypeOK, observer
<1>3. /\ rtu.state \in {"Idle", "Available", "Sending"} => rtu' = rtu
      /\ rtu.state \in {"Init", "Ignoring"} => rtu'.state = "Idle"
  BY <1>1, BusIdleOutcome DEF TypeOK, Machine, TimerIsr
<1>4. CASE rtu.state = "Receiving" /\ rtu'.state = "Available"
  <2>1. ~tx.active
    BY <1>1, <1>4 DEF TxAgrees
  <2>2. Phase = "listening" /\ Phase' = "request" /\ Left' = Left
    BY <1>2, <1>4, <2>1 DEF Phase, Left
  <2> QED
    BY <1>2, <2>2 DEF Promise!Arrive, Phase, Left
<1>5. CASE ~(rtu.state = "Receiving" /\ rtu'.state = "Available")
  BY <1>1, <1>2, <1>3, <1>5 DEF Same, Phase, Left, TypeOK, States
<1> QED
  BY <1>4, <1>5

LEMMA MainPromise ==
  ASSUME Steady, Main PROVE Promise!Next \/ Same
<1>1. /\ TypeOK /\ ReadyToReply /\ TxAgrees /\ Booting /\ TimerTiming /\ RestartTiming
  BY DEF Steady
<1>2. CASE Boot
  BY <1>2 DEF Boot, Same, Phase, Left, Executing
<1>3. CASE NoRequest \/ StartMeasurement \/ EndMeasurement \/ KeepRunning \/ Sleep
  <2>1. UNCHANGED <<rtu, serial, reset, tx, wire>> /\ (Executing' <=> Executing)
    BY <1>3 DEF NoRequest, StartMeasurement, EndMeasurement, KeepRunning, Sleep,
                driver, observer, Executing
  <2> QED
    BY <2>1 DEF Same, Phase, Left
<1>4. CASE TakeRequest
  <2>1. /\ rtu.state = "Available" /\ ~Executing /\ Executing'
        /\ UNCHANGED <<serial, reset, tx, wire>> /\ ~reset
    BY <1>1, <1>4 DEF TakeRequest, ReadFrame, Executing, driver, observer, RestartTiming
  <2>2. Phase = "request" /\ Phase' = "executing" /\ Left' = Left
    BY <2>1 DEF Phase, Left
  <2>3. Promise!Execute
    BY <2>1, <2>2 DEF Promise!Execute, Phase, Left
  <2> QED
    BY <2>3 DEF Promise!Next
<1>5. ASSUME NEW buf \in Response, Reply(buf) PROVE Promise!Next
  <2>1. Executing /\ ~Executing' /\ rtu.state = "Idle" /\ reset' \in BOOLEAN
    BY <1>1, <1>5 DEF Reply, Executed, Executing, ReadyToReply
  <2>2. /\ rtu'.state = "Sending" /\ tx'.active /\ wire'.sent = 0
    BY <1>1, <1>5, <2>1 DEF Reply, Send, WriteFrame, TxStartEvent, TypeOK
  <2>3. Len(serial') \in 1 .. Capacity
    <3>1. buf \in Seq(Byte) /\ Len(buf) + 2 <= Capacity /\ Len(buf) \in Nat
      BY ResponseAssumption
    <3> QED
      BY <1>5, <2>1, <3>1, FramedFits, CapacityAssumption DEF Reply, WriteFrame
  <2>4. Phase = "executing" /\ Phase' = "replying" /\ Left' \in 1 .. Capacity
    BY <2>1, <2>2, <2>3 DEF Phase, Left
  <2>5. Promise!Answer
    BY <2>1, <2>4 DEF Promise!Answer, Phase, Left
  <2> QED
    BY <2>5 DEF Promise!Next
<1>6. CASE NoReply
  <2>1. /\ Executing /\ ~Executing' /\ rtu.state = "Idle" /\ ~tx.active
        /\ reset' \in BOOLEAN /\ UNCHANGED <<rtu, serial, tx, wire>>
    BY <1>1, <1>6 DEF NoReply, Executed, Executing, ReadyToReply, TxAgrees, driver, observer
  <2>2. Phase = "executing" /\ Phase' = "listening" /\ Left' = Left
    BY <2>1 DEF Phase, Left
  <2>3. Promise!Refuse
    BY <2>1, <2>2 DEF Promise!Refuse, Phase, Left
  <2> QED
    BY <2>3 DEF Promise!Next
<1>7. CASE Reset
  <2>1. /\ ~Executing /\ ~Executing' /\ reset /\ reset' = FALSE
        /\ ~tx.active /\ ~tx'.active /\ rtu'.state # "Available"
        /\ rtu.state # "Available"
    BY <1>1, <1>7 DEF Reset, MayReset, Executing, TimerTiming
  <2>2. Phase = "listening" /\ Phase' = "listening" /\ Left = 0 /\ Left' = 0
    BY <2>1 DEF Phase, Left
  <2>3. Promise!Restart
    BY <2>1, <2>2 DEF Promise!Restart, Phase, Left
  <2> QED
    BY <2>3 DEF Promise!Next
<1> QED
  BY <1>2, <1>3, <1>4, <1>5, <1>6, <1>7 DEF Main

LEMMA HardwarePromise ==
  ASSUME Steady, CharStart \/ SomeCharEnds \/ TimerExpires \/ TxShifted \/ TimePasses
  PROVE  Promise!SendByte \/ Same
<1>1. TypeOK /\ TxAgrees /\ ReadyToReply
  BY DEF Steady
<1>2. CASE TxShifted
  <2>1. /\ UNCHANGED <<rtu, serial, reset, tx, pc>> /\ uart.shift
        /\ wire'.sent = wire.sent + 1
    BY <1>1, <1>2 DEF TxShifted, TypeOK
  <2>2. tx.active /\ Len(serial) - wire.sent > 0
    BY <1>1, <2>1 DEF TxAgrees, TypeOK
  <2>3. rtu.state = "Sending" /\ ~Executing /\ ~Executing'
    BY <1>1, <2>1, <2>2 DEF TxAgrees, ReadyToReply, Executing
  <2>4. Phase = "replying" /\ Phase' = Phase /\ Left > 0 /\ Left' = Left - 1
    BY <1>1, <2>1, <2>2, <2>3 DEF Phase, Left, TypeOK
  <2> QED
    BY <2>1, <2>4 DEF Promise!SendByte, Phase, Left
<1>3. CASE CharStart \/ SomeCharEnds \/ TimerExpires \/ TimePasses
  <2>1. UNCHANGED <<rtu, serial, reset, tx, pc, wire>>
    BY <1>3 DEF CharStart, SomeCharEnds, CharEnd, TimerExpires, TimePasses, driver
  <2> QED
    BY <2>1 DEF Same, Phase, Left, Executing
<1> QED
  BY <1>2, <1>3

LEMMA StepPromise ==
  Steady /\ [Next]_vars => [Promise!Next]_(Promise!vars)
<1> SUFFICES ASSUME Steady, [Next]_vars PROVE [Promise!Next]_(Promise!vars)
  OBVIOUS
<1>1. CASE Next
  BY <1>1, UartIsrPromise, TimerIsrPromise, MainPromise, HardwarePromise, SamePromise
     DEF Next, Promise!Next
<1>2. CASE UNCHANGED vars
  <2>1. Same
    BY <1>2 DEF vars, driver, observer, Same, Phase, Left, Executing
  <2> QED
    BY <2>1, SamePromise
<1> QED
  BY <1>1, <1>2

-----------------------------------------------------------------------------
(* The theorems.                                                           *)

LEMMA AlwaysSteady == Spec => []Steady
<1>1. Init => Steady
  BY InitSteady
<1>2. Steady /\ [Next]_vars => Steady'
  BY NextSteady
<1> QED
  BY <1>1, <1>2, PTL DEF Spec

(* The state of main loop, driver, USART and timer stays within its types: *)
(* the receive buffer and the response within their capacity, and the      *)
(* number of bytes left to be sent never below zero.                       *)
THEOREM NodeTypes == Spec => []TypeOK
<1>1. Steady => TypeOK
  BY DEF Steady
<1> QED
  BY <1>1, AlwaysSteady, PTL

(* WriteFrame, called at the end of UpdateModbus, finds the framing        *)
(* machine Idle: no response is dropped.                                   *)
THEOREM Ready == Spec => []ReadyToReply
<1>1. Steady => ReadyToReply
  BY DEF Steady
<1> QED
  BY <1>1, AlwaysSteady, PTL

(* BspMeasureRaw changes the clock only while no character is sent and no  *)
(* inter-frame delay runs.                                                 *)
THEOREM MeasuresInSilence == Spec => []ClockSafe
<1>1. Steady => ClockSafe
  <2> SUFFICES ASSUME Steady, Executing PROVE ~mrt.running /\ ~uart.hold /\ ~uart.shift
    BY DEF ClockSafe
  <2>1. ~mrt.running
    BY DEF Steady, TimerTiming
  <2>2. ~tx.active
    BY DEF Steady, ReadyToReply, TxAgrees
  <2>3. ~uart.hold /\ ~uart.shift
    BY <2>2 DEF Steady, TxAgrees
  <2> QED
    BY <2>1, <2>3
<1> QED
  BY <1>1, AlwaysSteady, PTL

(* ModbusSerial, RtuProtocol and the transmitter agree on the bytes of a   *)
(* response that are still to be sent.                                     *)
THEOREM Transmits == Spec => []TxAgrees
<1>1. Steady => TxAgrees
  BY DEF Steady
<1> QED
  BY <1>1, AlwaysSteady, PTL

(* TimerIsr reports a bus idle only after a silence of the inter-frame     *)
(* delay less the latency of an interrupt: the bus was idle when the timer *)
(* was started, no character has been completed since, and one that had    *)
(* begun when it expired had its start bit still unserved.                 *)
THEOREM GapBeforeIdle == Spec => IdleMeansGap
<1>1. Steady /\ [Next]_vars => [TimerIsr => gap # "none"]_vars
  BY DEF Steady, TimerTiming, TimerIsr
<1> QED
  BY <1>1, AlwaysSteady, PTL DEF IdleMeansGap, Spec

(* The safety of KeepsPromise: the unit implements RequestResponse, whose  *)
(* initial states and steps are all that a master sees of it.              *)
THEOREM KeepsPromiseSafely == Spec => Promise!Init /\ [][Promise!Next]_(Promise!vars)
<1>1. Init => Promise!Init
  BY DEF Init, RtuInit, Promise!Init, Executing
<1>2. Steady /\ [Next]_vars => [Promise!Next]_(Promise!vars)
  BY StepPromise
<1> QED
  BY <1>1, <1>2, AlwaysSteady, PTL DEF Spec

=============================================================================
