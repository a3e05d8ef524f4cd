------------------------------- MODULE Board -------------------------------
(***************************************************************************)
(* Clocks and measurement: what src/src/bsp/bsp.cc does to the clock tree, *)
(* the flash timing, the PWM output, the wake-up timer and the ADC, through *)
(* the functions of the chip library.                                      *)
(*                                                                         *)
(* The code is straight-line: a part of it is the sequence of the calls it *)
(* makes, and every call is a step, a wait for the hardware among them.    *)
(* Flash is read by every instruction, so that what must hold of the clock *)
(* tree must hold between any two calls.  Two programs run one after the   *)
(* other, the bootloader and the firmware, each with its own               *)
(* SystemCoreClock; a jump leaves the hardware as it is.                   *)
(***************************************************************************)
EXTENDS Integers, Sequences

VARIABLES
  program,  \* "boot" or "firmware"
  todo,     \* calls still to be made
  core,     \* SystemCoreClock of the running program, in Hz
  clock,    \* clock tree, flash timing, power profile, dividers of the USART
  meter,    \* PWM output, wake-up timer, ADC
  reading,  \* what BspMeasureRaw returned: "none", "good", "bad"
  iap       \* was the clock rate given to a flash command right?

vars == <<program, todo, core, clock, meter, reading, iap>>

IrcRate == 12000000
Baudrate == 19200
MHz(n) == n * 1000000

ClockAfterReset ==
  [main |-> "irc", div |-> 1, pll |-> "down", source |-> "irc", msel |-> 0,
   flash |-> 30, profile |-> "default", uartDiv |-> 0, brg |-> 0]

\* charged: has the capacitor been charged when the timer expires?
\* good: was it, when the results were converted?
MeterAfterReset ==
  [pwm |-> FALSE, wkt |-> "stopped", wktFlag |-> FALSE, charged |-> FALSE,
   adc |-> "idle", adcFlag |-> FALSE, good |-> FALSE]

Init ==
  /\ program = "boot" /\ todo = <<>> /\ core = 0
  /\ clock = ClockAfterReset /\ meter = MeterAfterReset
  /\ reading = "none" /\ iap = "none"

-----------------------------------------------------------------------------
(* The clock rates, as the chip library computes them from the registers.  *)

GetSystemPLLInClockRate == IF clock.source = "irc" THEN IrcRate ELSE 0

GetSystemPLLOutClockRate == GetSystemPLLInClockRate * (clock.msel + 1)

GetMainClockRate ==
  IF clock.main = "irc" THEN IrcRate ELSE GetSystemPLLOutClockRate

GetSystemClockRate == GetMainClockRate \div clock.div

GetUSARTNBaseClockRate ==
  IF clock.uartDiv = 0 THEN 0 ELSE GetMainClockRate \div clock.uartDiv

-----------------------------------------------------------------------------
(* Slips the runs must notice, each put in the place of the definition it  *)
(* resembles.                                                              *)

\* The PLL selected before the divider is set.
HastyPll ==
  << <<"SetPower", "default">>, <<"PowerUpPll">>, <<"AwaitPllLock">>,
     <<"SetFLASHAccess", 30>>, <<"SetMainClockSource", "pllout">>,
     <<"SetSysClockDiv", 2>>, <<"SetSystemCoreClock", MHz(30)>> >>

\* SystemCoreClock left as it was.
ForgetfulIrc ==
  << <<"SetMainClockSource", "irc">>, <<"SetSysClockDiv", 1>>,
     <<"SetFLASHAccess", 20>>, <<"PowerDownPll">>, <<"SetPower", "lowCurrent">> >>

\* The wake-up timer's flag is not cleared before it is started.
ClearNothing == meter.wktFlag

-----------------------------------------------------------------------------
(* The code.                                                               *)

UseIrc ==
  << <<"SetMainClockSource", "irc">>, <<"SetSysClockDiv", 1>>,
     <<"SetFLASHAccess", 20>>, <<"PowerDownPll">>,
     <<"SetSystemCoreClock", MHz(12)>>, <<"SetPower", "lowCurrent">> >>

UsePll ==
  << <<"SetPower", "default">>, <<"PowerUpPll">>, <<"AwaitPllLock">>,
     <<"SetFLASHAccess", 30>>, <<"SetSysClockDiv", 2>>,
     <<"SetMainClockSource", "pllout">>, <<"SetSystemCoreClock", MHz(30)>> >>

SetupClock == UseIrc \o << <<"SetSystemPLLSource", "irc">>, <<"SetupSystemPLL", 4>> >>

\* BspSetup with SetupAdc, whose calibration may leave the flag set, and
\* the clocks of ModbusSerial::Init; pins and interrupts are left out.
Setup ==
  SetupClock \o << <<"CalibrateAdc">>, <<"SetUARTClockDiv">>, <<"SetBaud">> >>

BspMeasureRaw ==
  UsePll
  \o << <<"StartPwm">>, <<"ClearWkt">>, <<"StartWkt">>, <<"AwaitWkt">>,
        <<"ClearAdcFlags">>, <<"StartSequencer">>, <<"AwaitAdc">>, <<"StopPwm">> >>
  \o UseIrc
  \o << <<"GetDataReg">> >>

-----------------------------------------------------------------------------
(* The calls.                                                              *)

Call(f) == todo # <<>> /\ Head(todo) = f /\ todo' = Tail(todo)

ClockCall(f, c) ==
  Call(f) /\ clock' = c /\ UNCHANGED <<program, core, meter, reading, iap>>

MeterCall(f, m) ==
  Call(f) /\ meter' = m /\ UNCHANGED <<program, core, clock, reading, iap>>

SetMainClockSource(source) ==
  ClockCall(<<"SetMainClockSource", source>>, [clock EXCEPT !.main = source])

SetSysClockDiv(div) == ClockCall(<<"SetSysClockDiv", div>>, [clock EXCEPT !.div = div])

SetFLASHAccess(mhz) == ClockCall(<<"SetFLASHAccess", mhz>>, [clock EXCEPT !.flash = mhz])

SetSystemPLLSource(source) ==
  ClockCall(<<"SetSystemPLLSource", source>>, [clock EXCEPT !.source = source])

SetupSystemPLL(msel) == ClockCall(<<"SetupSystemPLL", msel>>, [clock EXCEPT !.msel = msel])

PowerDownPll == ClockCall(<<"PowerDownPll">>, [clock EXCEPT !.pll = "down"])

PowerUpPll == ClockCall(<<"PowerUpPll">>, [clock EXCEPT !.pll = "starting"])

\* The ROM's power profile.
SetPower(mode) == ClockCall(<<"SetPower", mode>>, [clock EXCEPT !.profile = mode])

SetUARTClockDiv ==
  ClockCall(<<"SetUARTClockDiv">>,
            [clock EXCEPT !.uartDiv = GetMainClockRate \div (16 * Baudrate)])

SetBaud ==
  ClockCall(<<"SetBaud">>,
            [clock EXCEPT !.brg = GetUSARTNBaseClockRate \div (16 * Baudrate) - 1])

SetSystemCoreClock(rate) ==
  /\ Call(<<"SetSystemCoreClock", rate>>) /\ core' = rate
  /\ UNCHANGED <<program, clock, meter, reading, iap>>

CalibrateAdc ==
  \E flag \in BOOLEAN : MeterCall(<<"CalibrateAdc">>, [meter EXCEPT !.adcFlag = flag])

StartPwm == MeterCall(<<"StartPwm">>, [meter EXCEPT !.pwm = TRUE])

StopPwm == MeterCall(<<"StopPwm">>, [meter EXCEPT !.pwm = FALSE])

FlagCleared == FALSE

ClearWkt == MeterCall(<<"ClearWkt">>, [meter EXCEPT !.wktFlag = FlagCleared])

Excited == meter.pwm /\ clock.main = "pllout"

StartWkt ==
  MeterCall(<<"StartWkt">>, [meter EXCEPT !.wkt = IF Excited THEN "charging" ELSE "running",
                                          !.charged = FALSE])

ClearAdcFlags == MeterCall(<<"ClearAdcFlags">>, [meter EXCEPT !.adcFlag = FALSE])

StartSequencer ==
  MeterCall(<<"StartSequencer">>, [meter EXCEPT !.adc = "converting", !.good = FALSE])

\* The loops that wait for the hardware.
Wait ==
  \/ clock.pll = "locked" /\ ClockCall(<<"AwaitPllLock">>, clock)
  \/ meter.wktFlag /\ MeterCall(<<"AwaitWkt">>, meter)
  \/ meter.adcFlag /\ MeterCall(<<"AwaitAdc">>, meter)

GetDataReg ==
  /\ Call(<<"GetDataReg">>)
  /\ reading' = IF meter.good THEN "good" ELSE "bad"
  /\ UNCHANGED <<program, core, clock, meter, iap>>

MakeCall ==
  \/ \E source \in {"irc", "pllout"} : SetMainClockSource(source)
  \/ \E div \in {1, 2} : SetSysClockDiv(div)
  \/ \E mhz \in {20, 30} : SetFLASHAccess(mhz)
  \/ SetSystemPLLSource("irc") \/ SetupSystemPLL(4) \/ PowerDownPll \/ PowerUpPll
  \/ \E mode \in {"default", "lowCurrent"} : SetPower(mode)
  \/ \E rate \in {MHz(12), MHz(30)} : SetSystemCoreClock(rate)
  \/ SetUARTClockDiv \/ SetBaud
  \/ CalibrateAdc \/ StartPwm \/ StopPwm \/ ClearWkt \/ StartWkt
  \/ ClearAdcFlags \/ StartSequencer \/ Wait \/ GetDataReg

-----------------------------------------------------------------------------
(* The hardware.                                                           *)

PllLocks ==
  /\ clock.pll = "starting"
  /\ clock' = [clock EXCEPT !.pll = "locked"]
  /\ UNCHANGED <<program, todo, core, meter, reading, iap>>

WktExpires ==
  /\ meter.wkt # "stopped"
  /\ meter' = [meter EXCEPT !.wkt = "stopped", !.wktFlag = TRUE,
                            !.charged = Excited /\ meter.wkt = "charging"]
  /\ UNCHANGED <<program, todo, core, clock, reading, iap>>

AdcDone ==
  /\ meter.adc = "converting"
  /\ meter' = [meter EXCEPT !.adc = "idle", !.adcFlag = TRUE,
                            !.good = Excited /\ meter.charged]
  /\ UNCHANGED <<program, todo, core, clock, reading, iap>>

Hardware == PllLocks \/ WktExpires \/ AdcDone

-----------------------------------------------------------------------------
(* What the programs around it do.                                         *)

\* The main loop of the firmware is running.
Ready == program = "firmware" /\ todo = <<>>

\* The bootloader jumps to the firmware, which zeroes its own variables.
StartFirmware ==
  /\ program = "boot"
  /\ program' = "firmware" /\ todo' = Setup /\ core' = 0 /\ iap' = "none"
  /\ UNCHANGED <<clock, meter, reading>>

\* Programming or erasing flash: MCUboot swapping images, or the update.
IapCommand ==
  /\ program = "boot" \/ Ready
  /\ iap' = IF core \div 1000 = GetSystemClockRate \div 1000 THEN "right" ELSE "wrong"
  /\ UNCHANGED <<program, todo, core, clock, meter, reading>>

StartMeasurement ==
  /\ Ready /\ reading = "none"
  /\ todo' = BspMeasureRaw
  /\ UNCHANGED <<program, core, clock, meter, reading, iap>>

ReturnMeasurement ==
  /\ Ready /\ reading # "none"
  /\ reading' = "none"
  /\ UNCHANGED <<program, todo, core, clock, meter, iap>>

\* NVIC_SystemReset, or power.
Reset ==
  /\ program' = "boot" /\ todo' = <<>> /\ core' = 0
  /\ clock' = ClockAfterReset /\ meter' = MeterAfterReset
  /\ reading' = "none" /\ iap' = "none"

-----------------------------------------------------------------------------
(* Properties.                                                             *)

(***************************************************************************)
(* Between any two calls the flash timing suits the system clock, the PLL  *)
(* drives it only while it is locked, and the low-current profile is in    *)
(* force only at 12 MHz.                                                   *)
(***************************************************************************)
ClockFits ==
  /\ GetSystemClockRate <= MHz(clock.flash)
  /\ clock.main = "pllout" => clock.pll = "locked"
  /\ clock.profile = "lowCurrent" => GetSystemClockRate = IrcRate

(***************************************************************************)
(* Whenever the main loop runs, also after a measurement, the unit is back *)
(* at its normal clock with the PLL and the excitation off, SystemCoreClock *)
(* tells the truth, and the USART is within 2 % of its baud rate.          *)
(***************************************************************************)
BaudError == LET rate == GetUSARTNBaseClockRate \div (16 * (clock.brg + 1))
             IN  IF rate > Baudrate THEN rate - Baudrate ELSE Baudrate - rate

ClockRestored ==
  Ready => /\ core = GetSystemClockRate /\ core = IrcRate
           /\ clock.pll = "down" /\ clock.flash = 20 /\ ~meter.pwm
           /\ 50 * BaudError <= Baudrate
           /\ iap # "wrong"

(***************************************************************************)
(* The results read were converted after the capacitor had been charged by *)
(* the excitation for the full delay: no flag left from an earlier         *)
(* measurement, or from the calibration, cuts a wait short.                *)
(***************************************************************************)
SampledWhenCharged == reading # "bad"

(***************************************************************************)
(* SystemCoreClock is the clock frequency when a flash command uses it     *)
(* (bsp.cc:38, "Update CMSIS clock frequency variable which is used in     *)
(* iap.c").  The bootloader violates it.                                   *)
(***************************************************************************)
IapClockRight == iap # "wrong"

=============================================================================
