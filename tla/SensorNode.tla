----------------------------- MODULE SensorNode -----------------------------
(***************************************************************************)
(* The running unit: the main loop (src/src/main.cc), the serial driver    *)
(* with its two interrupt handlers (src/src/bsp/modbus_serial.cc), the     *)
(* framing state machine they share (RtuProtocol) and, as the environment, *)
(* the USART, the multi-rate timer, the interrupt controller and a bus on  *)
(* which other stations may send a character at any moment.                *)
(*                                                                         *)
(* An interrupt handler is one step: both have the same priority and never *)
(* nest.  The main loop yields to pending interrupts between its steps,    *)
(* except in the part of UpdateModbus that runs with interrupts disabled   *)
(* (BspInterruptFree) and may take milliseconds while the hardware goes    *)
(* on.  What a request does to the registers is left open: it may take one *)
(* measurement (ModbusSlave shows that it takes no second one), have any   *)
(* response, or none, and set the reset flag.                              *)
(*                                                                         *)
(* Time.  A character takes 573 us at 19200 baud, an inter-frame delay     *)
(* 1750 us, a handler or a turn of the main loop without a request a few   *)
(* microseconds.  The model assumes no more than this: what takes at least *)
(* a character time does not end before the processor has come to rest,    *)
(* asleep or in a request, after it began (young, TimePasses), and a       *)
(* character under way when the timer is started ends more than a          *)
(* character time before the timer does (spans).  A character may begin at *)
(* any moment.  A measurement changes the clock of USART and timer: while  *)
(* it lasts, nothing of this holds of a delay that is running.             *)
(***************************************************************************)
EXTENDS RtuProtocol

CONSTANT Response   \* the responses Slave::Execute can make

ASSUME ResponseAssumption ==
  \A buf \in Response : buf \in Seq(Byte) /\ Len(buf) + 2 <= Capacity

VARIABLES
  pc,     \* next step of main()
  reset,  \* ModbusData::reset_
  tx,     \* driver: tx_active_ and the number of bytes from tx_data_ to the end
  uart,   \* USART: enabled interrupts, status flags, data registers
  mrt,    \* timer channel: is it running, is its interrupt flag set
  line,   \* "char" while another station's character is on the bus
  young,  \* activities begun since the processor was last at rest
  spans,  \* is a character under way that began before the timer?
  wire,   \* bytes of the last response sent, were all as framed
  gap     \* the silence of the delay: "full", cut "short" by a start bit, "none"

driver   == <<tx, uart, mrt>>
observer == <<line, young, spans, wire, gap>>
vars     == <<rtu, serial, pc, reset, driver, observer>>

UartOff ==
  [on |-> FALSE, inten |-> {}, start |-> FALSE, rxrdy |-> FALSE,
   parity |-> FALSE, data |-> CHOOSE b \in Byte : TRUE,
   hold |-> FALSE, shift |-> FALSE]

MrtOff == [running |-> FALSE, flag |-> FALSE]

Init ==
  /\ RtuInit
  /\ pc = "boot" /\ reset = FALSE
  /\ tx = [active |-> FALSE, left |-> 0]
  /\ uart = UartOff /\ mrt = MrtOff
  /\ line = "idle" /\ young = {} /\ spans = FALSE
  /\ wire = [sent |-> 0, asFramed |-> TRUE] /\ gap = "none"

-----------------------------------------------------------------------------
(* Slips the runs must notice, each put in the place of the definition it  *)
(* resembles.                                                              *)

\* UpdateModbus without the interrupt lock.
NeverMasked == FALSE

\* The start bit does not stop the timer.
TimerIgnoresStart(ints) == "RXRDY" \in ints \/ mrt.running

\* TxDone is taken for granted once the last byte is written.
EarlyTxAfter(ints) ==
  [active |-> tx.active /\ ("TXRDY" \in ints => tx.left > 1),
   left   |-> IF "TXRDY" \in ints THEN tx.left - 1 ELSE tx.left]

\* The TXRDY interrupt stays enabled for one byte too many.
LateIntEnAfter(ints) ==
  IF "TXIDLE" \in ints THEN uart.inten \ {"TXIDLE"}
  ELSE IF "TXRDY" \in ints /\ tx.left <= 0
    THEN (uart.inten \ {"TXRDY"}) \cup {"TXIDLE"}
    ELSE uart.inten

\* The reset does not wait for the response.
HastyMayReset == reset

\* The timer repeats: Init forgets to make it a one-shot timer.
RepeatingTimer == [running |-> TRUE, flag |-> FALSE]

\* Nothing to do without a frame: back to sleep at once.
SleepyNoRequest ==
  /\ pc = "update" /\ rtu.state # "Available"
  /\ pc' = "sleep"
  /\ UNCHANGED <<rtu, serial, reset, driver, observer>>

-----------------------------------------------------------------------------
(* Interrupts.  INTSTAT shows the status flags of enabled interrupts only. *)

Status ==
  (IF uart.rxrdy THEN {"RXRDY"} ELSE {}) \cup
  (IF uart.start THEN {"START"} ELSE {}) \cup
  (IF uart.parity THEN {"PARITYERR"} ELSE {}) \cup
  (IF ~uart.hold THEN {"TXRDY"} ELSE {}) \cup
  (IF ~uart.hold /\ ~uart.shift THEN {"TXIDLE"} ELSE {})

IntStatus == Status \cap uart.inten

UartPending == IntStatus # {}
Pending == UartPending \/ mrt.flag

\* A request is being executed: before, in and after its measurement.
Executing == pc \in {"execute", "measure", "measured"}

\* UpdateModbus holds off interrupts.
Masked == Executing

\* The main clock is the PLL's 60 MHz instead of 12.
FastClock == pc = "measure"

\* The processor has nothing to do, or is busy with a request.
AtRest == Executing \/ (pc = "asleep" /\ ~Pending)

-----------------------------------------------------------------------------
(* ModbusSerial::UartIsr, by what it reads in INTSTAT.                     *)

\* A start bit stops the timer, a received byte (re)starts it.
TimerRuns(ints) == "RXRDY" \in ints \/ (mrt.running /\ "START" \notin ints)

RtuAfter(ints) ==
  LET received == IF "RXRDY" \in ints
                    THEN RxByteEvent(rtu, uart.data, "PARITYERR" \notin ints)
                    ELSE rtu
  IN  IF "TXIDLE" \in ints THEN TxDoneEvent(received) ELSE received

TxAfter(ints) ==
  [active |-> tx.active /\ "TXIDLE" \notin ints,
   left   |-> IF "TXRDY" \in ints THEN tx.left - 1 ELSE tx.left]

\* The last byte exchanges the TXRDY for the TXIDLE interrupt.
IntEnAfter(ints) ==
  IF "TXIDLE" \in ints THEN uart.inten \ {"TXIDLE"}
  ELSE IF "TXRDY" \in ints /\ tx.left <= 1
    THEN (uart.inten \ {"TXRDY"}) \cup {"TXIDLE"}
    ELSE uart.inten

\* A byte written goes to the shift register, or waits while that is busy.
UartAfter(ints) ==
  [uart EXCEPT !.start  = @ /\ "START" \notin ints,
               !.rxrdy  = @ /\ "RXRDY" \notin ints,
               !.parity = @ /\ "RXRDY" \notin ints,
               !.hold   = @ \/ ("TXRDY" \in ints /\ uart.shift),
               !.shift  = @ \/ "TXRDY" \in ints,
               !.inten  = IntEnAfter(ints)]

\* The silence of a delay that begins now.
SilenceBegun == IF line = "idle" THEN "full" ELSE "none"

\* An interrupt ends the sleep.
Wake == pc' = IF pc = "asleep" THEN "update" ELSE pc

(***************************************************************************)
(* The bytes sent are read through tx_data_, which points into the local   *)
(* variable resp of an UpdateModbus call that has returned: whether they   *)
(* are still those of the frame is undefined.                              *)
(***************************************************************************)
UartIsr ==
  /\ UartPending /\ ~Masked
  /\ rtu' = RtuAfter(IntStatus)
  /\ tx' = TxAfter(IntStatus)
  /\ uart' = UartAfter(IntStatus)
  /\ mrt' = [mrt EXCEPT !.running = TimerRuns(IntStatus)]
  /\ young' = (IF "RXRDY" \in IntStatus THEN young \cup {"mrt"}
               ELSE IF TimerRuns(IntStatus) THEN young ELSE young \ {"mrt"})
              \cup (IF uart'.shift /\ ~uart.shift THEN {"tx"} ELSE {})
  /\ spans' = IF "RXRDY" \in IntStatus THEN line = "char" ELSE spans
  /\ \E kept \in BOOLEAN :
       wire' = IF "TXRDY" \in IntStatus
                 THEN [wire EXCEPT !.asFramed = @ /\ kept] ELSE wire
  /\ gap' = IF "RXRDY" \in IntStatus THEN SilenceBegun ELSE gap
  /\ Wake
  /\ UNCHANGED <<serial, reset, line>>

\* Clearing the flag of the one-shot timer.
TimerServed == [mrt EXCEPT !.flag = FALSE]

(***************************************************************************)
(* ModbusSerial::TimerIsr.  The UART interrupt has the lower number and is *)
(* served first.                                                           *)
(***************************************************************************)
TimerIsr ==
  /\ mrt.flag /\ ~UartPending /\ ~Masked
  /\ mrt' = TimerServed
  /\ rtu' = BusIdleEvent(rtu)
  /\ Wake
  /\ UNCHANGED <<serial, reset, tx, uart, observer>>

-----------------------------------------------------------------------------
(* main().                                                                 *)

\* ModbusSerial::Init.
UartConfigured == [UartOff EXCEPT !.inten = {"RXRDY", "START"}]

\* ModbusSerial::Enable: the first inter-frame delay begins.
Enable ==
  /\ uart' = [UartConfigured EXCEPT !.on = TRUE]
  /\ mrt' = [mrt EXCEPT !.running = TRUE]
  /\ young' = young \cup {"mrt"} /\ spans' = (line = "char")
  /\ gap' = SilenceBegun

Boot ==
  /\ pc = "boot" /\ pc' = "update"
  /\ Enable
  /\ UNCHANGED <<rtu, serial, reset, tx, line, wire>>

\* UpdateModbus without a frame.
NoRequest ==
  /\ pc = "update" /\ ~Pending /\ rtu.state # "Available"
  /\ pc' = "check"
  /\ UNCHANGED <<rtu, serial, reset, driver, observer>>

TakeRequest ==
  /\ pc = "update" /\ ~Pending
  /\ ReadFrame
  /\ pc' = "execute"
  /\ UNCHANGED <<reset, driver, observer>>

\* BspMeasureRaw, from UsePll to UseIrc.
StartMeasurement ==
  /\ pc = "execute" /\ pc' = "measure"
  /\ UNCHANGED <<rtu, serial, reset, driver, observer>>

EndMeasurement ==
  /\ pc = "measure" /\ pc' = "measured"
  /\ UNCHANGED <<rtu, serial, reset, driver, observer>>

\* Slave::Execute is done.
Executed == pc \in {"execute", "measured"} /\ pc' = "check"

\* ModbusSerial::Send, called by WriteFrame in Idle.
Send(length) ==
  /\ tx' = [active |-> TRUE, left |-> length]
  /\ uart' = [uart EXCEPT !.inten = @ \cup {"TXRDY"}]
  /\ wire' = [sent |-> 0, asFramed |-> TRUE]

Reply(buf) ==
  /\ Executed
  /\ reset' \in BOOLEAN
  /\ WriteFrame(buf)
  /\ IF rtu.state = "Idle" THEN Send(Len(buf) + 2)
                           ELSE UNCHANGED <<tx, uart, wire>>
  /\ UNCHANGED <<mrt, line, young, spans, gap>>

\* Execute failed, possibly after it wrote some registers.
NoReply ==
  /\ Executed
  /\ reset' \in BOOLEAN
  /\ UNCHANGED <<rtu, serial, driver, observer>>

MayReset == reset /\ ~tx.active

KeepRunning ==
  /\ pc = "check" /\ ~Pending /\ ~MayReset
  /\ pc' = "sleep"
  /\ UNCHANGED <<rtu, serial, reset, driver, observer>>

Reset ==
  /\ pc = "check" /\ ~Pending /\ MayReset
  /\ pc' = "boot"
  /\ rtu' = [state |-> "Init", buf |-> <<>>] /\ serial' = <<>>
  /\ reset' = FALSE
  /\ tx' = [active |-> FALSE, left |-> 0]
  /\ uart' = UartOff /\ mrt' = MrtOff
  /\ wire' = [sent |-> 0, asFramed |-> TRUE]
  /\ UNCHANGED <<line, young, spans, gap>>

Sleep ==
  /\ pc = "sleep" /\ ~Pending
  /\ pc' = "asleep"
  /\ UNCHANGED <<rtu, serial, reset, driver, observer>>

Main ==
  \/ Boot \/ NoRequest \/ TakeRequest \/ StartMeasurement \/ EndMeasurement
  \/ \E buf \in Response : Reply(buf)
  \/ NoReply \/ KeepRunning \/ Reset \/ Sleep

-----------------------------------------------------------------------------
(* The hardware and the bus.                                               *)

CharStart ==
  /\ line = "idle" /\ line' = "char"
  /\ uart' = [uart EXCEPT !.start = uart.on]
  /\ young' = young \cup {"rx"}
  /\ gap' = IF mrt.running /\ gap = "full" THEN "short" ELSE gap
  /\ UNCHANGED <<rtu, serial, pc, reset, tx, mrt, spans, wire>>

\* A character that finds the receive register taken is lost (overrun).
CharEnd(byte, damaged) ==
  /\ line = "char" /\ "rx" \notin young
  /\ line' = "idle"
  /\ uart' = IF ~uart.on THEN uart
             ELSE IF uart.rxrdy THEN [uart EXCEPT !.parity = @ \/ damaged]
             ELSE [uart EXCEPT !.rxrdy = TRUE, !.data = byte, !.parity = damaged]
  /\ gap' = "none"
  /\ spans' = FALSE /\ young' = IF spans THEN young \cup {"mrt"} ELSE young
  /\ UNCHANGED <<rtu, serial, pc, reset, tx, mrt, wire>>

\* The character under way began less than an interrupt latency ago: its
\* start bit is not served yet.
JustBegun == "rx" \in young /\ uart.start

TimerExpires ==
  /\ mrt.running /\ (FastClock \/ ("mrt" \notin young /\ ~spans))
  /\ mrt' = [running |-> FALSE, flag |-> TRUE]
  /\ gap' = IF gap = "short" /\ ~JustBegun THEN "none" ELSE gap
  /\ UNCHANGED <<rtu, serial, pc, reset, tx, uart, line, young, spans, wire>>

TxShifted ==
  /\ uart.shift /\ "tx" \notin young
  /\ uart' = [uart EXCEPT !.shift = uart.hold, !.hold = FALSE]
  /\ young' = IF uart.hold THEN young \cup {"tx"} ELSE young
  /\ wire' = [wire EXCEPT !.sent = @ + 1]
  /\ UNCHANGED <<rtu, serial, pc, reset, tx, mrt, line, spans, gap>>

TimePasses ==
  /\ AtRest /\ young # {}
  /\ young' = {}
  /\ UNCHANGED <<rtu, serial, pc, reset, driver, line, spans, wire, gap>>

SomeCharEnds == \E byte \in Byte, damaged \in BOOLEAN : CharEnd(byte, damaged)

Next ==
  \/ UartIsr \/ TimerIsr \/ Main
  \/ CharStart \/ SomeCharEnds \/ TimerExpires \/ TxShifted \/ TimePasses

(***************************************************************************)
(* Fairness: interrupts are taken, the main loop runs when none is         *)
(* pending, timer and transmitter do what they were started for, a         *)
(* character begun ends.  Other stations need not send any.                *)
(***************************************************************************)
Fairness ==
  /\ WF_vars(UartIsr) /\ WF_vars(TimerIsr) /\ WF_vars(Main)
  /\ WF_vars(TimerExpires) /\ WF_vars(TxShifted) /\ WF_vars(SomeCharEnds)
  /\ WF_vars(TimePasses)

Spec == Init /\ [][Next]_vars /\ Fairness

-----------------------------------------------------------------------------
(* Properties.                                                             *)

(***************************************************************************)
(* Types.                                                                  *)
(***************************************************************************)
TypeOK ==
  /\ rtu \in [state : States, buf : Seq(Byte)] /\ Len(rtu.buf) <= Capacity
  /\ serial \in Seq(Byte) /\ Len(serial) <= Capacity
  /\ pc \in {"boot", "update", "execute", "measure", "measured", "check", "sleep", "asleep"}
  /\ reset \in BOOLEAN /\ spans \in BOOLEAN /\ gap \in {"full", "short", "none"}
  /\ tx \in [active : BOOLEAN, left : 0 .. Capacity]
  /\ uart \in [on : BOOLEAN,
               inten : SUBSET {"RXRDY", "START", "TXRDY", "TXIDLE"},
               start : BOOLEAN, rxrdy : BOOLEAN, parity : BOOLEAN,
               data : Byte, hold : BOOLEAN, shift : BOOLEAN]
  /\ mrt \in [running : BOOLEAN, flag : BOOLEAN]
  /\ line \in {"idle", "char"}
  /\ young \subseteq {"rx", "mrt", "tx"}
  /\ wire \in [sent : 0 .. Capacity, asFramed : BOOLEAN]

(***************************************************************************)
(* While a request is executed the framing machine stays idle, so that     *)
(* WriteFrame, which drops a response in any other state, sends it.        *)
(***************************************************************************)
ReadyToReply == Executing => rtu.state = "Idle"

(***************************************************************************)
(* A measurement, with its other clock, never comes while the unit is      *)
(* sending or an inter-frame delay is running, whose lengths are computed  *)
(* for the normal one.  No interlock sees to this, only that a request is  *)
(* taken up before another character can be complete.                      *)
(***************************************************************************)
ClockSafe == Executing => ~mrt.running /\ ~uart.hold /\ ~uart.shift

(***************************************************************************)
(* Driver, framing machine and transmitter agree on the transmission: the  *)
(* machine is Sending exactly while tx_active_ is set, every byte of the   *)
(* frame is either yet to be written, in the transmitter or on the wire,   *)
(* and the interrupt enabled is the one that will go on.  So tx_data_      *)
(* never runs past tx_data_end_, and TxDone comes after the last byte has  *)
(* left, once.                                                             *)
(***************************************************************************)
TxAgrees ==
  LET held == (IF uart.hold THEN 1 ELSE 0) + (IF uart.shift THEN 1 ELSE 0)
  IN  /\ tx.active <=> rtu.state = "Sending"
      /\ tx.left + held + wire.sent = Len(serial)
      /\ ~tx.active => tx.left = 0 /\ held = 0
      /\ "TXRDY" \in uart.inten <=> tx.active /\ tx.left > 0
      /\ "TXIDLE" \in uart.inten <=> tx.active /\ tx.left = 0

(***************************************************************************)
(* A bus idle is reported only after a silence of the whole inter-frame    *)
(* delay, less at most the latency of an interrupt: no character was under *)
(* way when the timer was started, none has been completed since, and one  *)
(* that had begun when it expired had its start bit still unserved.        *)
(***************************************************************************)
IdleMeansGap == [][TimerIsr => gap # "none"]_vars

(***************************************************************************)
(* The unit keeps its promise to the bus.                                  *)
(***************************************************************************)
Promise ==
  INSTANCE RequestResponse WITH
    MaxLength <- Capacity,
    phase <- IF Executing THEN "executing"
             ELSE IF rtu.state = "Available" THEN "request"
             ELSE IF tx.active THEN "replying" ELSE "listening",
    left <- IF tx.active THEN Len(serial) - wire.sent ELSE 0,
    restart <- reset

KeepsPromise == Promise!Spec

(***************************************************************************)
(* A reset that was asked for is carried out, if characters keep coming.   *)
(* Without them it may wait for ever: where another interrupt wakes the    *)
(* main loop just before the last byte has left, TxDone falls between the  *)
(* test of tx_active() and BspSleep(), which then finds nothing pending.   *)
(***************************************************************************)
RestartHappens == []<><<CharStart>>_vars => (reset ~> pc = "boot")

(***************************************************************************)
(* The data passed to Send is not changed before TxDone                    *)
(* (serial_interface.h:24-25).  The code violates it.                      *)
(***************************************************************************)
SentAsFramed == [][rtu.state = "Sending" /\ rtu'.state = "Idle" => wire.asFramed]_vars

(***************************************************************************)
(* Parity errors are checked when a received byte is read                  *)
(* (modbus_serial.cc:19-21): a damaged byte is never taken into a frame.   *)
(* The code violates it.                                                   *)
(***************************************************************************)
DamagedByteIgnored ==
  [][UartIsr /\ "RXRDY" \in IntStatus /\ uart.parity => rtu'.state # "Receiving"]_vars

=============================================================================
