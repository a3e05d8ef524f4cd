--------------------------- MODULE MeasuringSlave ---------------------------
(***************************************************************************)
(* The slave on its board: ModbusSlave takes its measurements through      *)
(* Board, whose clock change must be over before the next register is      *)
(* accessed, and whose SystemCoreClock the flash commands of the update    *)
(* rely on.  The unit starts in the bootloader, and a reset asked for      *)
(* through the reset register leads back to it.                            *)
(***************************************************************************)
EXTENDS ModbusSlave

VARIABLES program, todo, core, clock, meter, reading, iap

board == <<program, todo, core, clock, meter, reading, iap>>

B == INSTANCE Board

UnitInit == Init /\ B!Init

\* The board works by itself: it starts, or a measurement goes on.
BoardStep ==
  /\ B!StartFirmware \/ B!MakeCall \/ B!Hardware
  /\ UNCHANGED vars

\* MCUboot swaps the images, or does not.
SwapImages == program = "boot" /\ B!IapCommand /\ UNCHANGED vars

\* ModbusData::ReadRegister calls BspMeasureRaw and waits for it.
CallMeasurement == NeedsMeasurement /\ B!StartMeasurement /\ UNCHANGED vars

MeasurementReturns(raw) == B!ReturnMeasurement /\ Measure(raw)

\* A word for the update may fill its buffer, a command erases or writes.
Write(refused) ==
  /\ B!Ready /\ WriteRegister(refused)
  /\ \/ UNCHANGED board
     \/ Address >= FwBase /\ B!IapCommand

SlaveStep ==
  /\ B!Ready
  /\ \/ TakeRequest(Request)
     \/ Ignore \/ Begin \/ ReadRegister(Version) \/ Complete \/ Return
  /\ UNCHANGED board

\* main() finds the reset flag set.
Restart ==
  /\ B!Ready /\ pc = "listening" /\ data.reset
  /\ B!Reset
  /\ data' \in [reset : {FALSE}, measurement : {data.measurement}, available : {FALSE}]
  /\ before' = FALSE
  /\ UNCHANGED <<pc, request, exception, values, writes, samples, response>>

UnitNext ==
  \/ BoardStep \/ SwapImages \/ CallMeasurement
  \/ \E raw \in Raw : MeasurementReturns(raw)
  \/ \E refused \in BOOLEAN : Write(refused)
  \/ SlaveStep \/ Restart

UnitSpec == UnitInit /\ [][UnitNext]_<<vars, board>>

-----------------------------------------------------------------------------
(* Properties.                                                             *)

(***************************************************************************)
(* The properties of the board hold of the unit (see Board): no access to  *)
(* flash at a clock it is not set for,                                     *)
(***************************************************************************)
ClockFits == B!ClockFits

(***************************************************************************)
(* the normal clock, the right SystemCoreClock and the right baud rate     *)
(* whenever a register is accessed or a response sent,                     *)
(***************************************************************************)
ClockRestored == B!ClockRestored

(***************************************************************************)
(* and no measurement register read from a capacitor not charged.          *)
(***************************************************************************)
SampledWhenCharged == B!SampledWhenCharged

(***************************************************************************)
(* SystemCoreClock is the clock frequency when a flash command uses it     *)
(* (bsp.cc:38, "Update CMSIS clock frequency variable which is used in     *)
(* iap.c").  The bootloader, which has an own one, violates it.            *)
(***************************************************************************)
IapClockRight == B!IapClockRight

=============================================================================
