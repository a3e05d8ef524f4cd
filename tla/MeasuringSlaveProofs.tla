------------------------ MODULE MeasuringSlaveProofs ------------------------
(***************************************************************************)
(* The slave keeps its promises on its board: the invariant of             *)
(* ModbusSlaveProofs is one of the whole unit, which measures with the     *)
(* board and restarts.  And the board keeps its own: OnCourse says for     *)
(* every point of the two straight-line parts of bsp.cc what the hardware  *)
(* looks like there, and is inductive, which ClockFits and                 *)
(* SampledWhenCharged are not.                                             *)
(***************************************************************************)
EXTENDS MeasuringSlave, ModbusSlaveProofs

(* RAM after a restart, with the reset flag the unit restarted for.        *)
LEMMA RestartSound == ASSUME Sound, Restart PROVE Sound'
<1>1. TypeOK /\ Control /\ Accesses
  BY DEF Sound
<1>2. /\ pc = "listening" /\ ~before'
      /\ UNCHANGED <<pc, request, exception, values, writes, samples, response>>
      /\ data' \in [reset : {FALSE}, measurement : {data.measurement}, available : {FALSE}]
  BY DEF Restart
<1>3. /\ exception = "ok" /\ request = NoRequest /\ response = NoResponse
      /\ values = <<>> /\ writes = <<>> /\ samples = <<>>
  BY <1>1, <1>2 DEF Control
<1>4. /\ data' \in [reset : BOOLEAN, measurement : Raw, available : BOOLEAN]
      /\ ~data'.reset /\ ~data'.available /\ before' = FALSE
  <2>1. data.measurement \in Raw
    BY <1>1 DEF TypeOK
  <2>2. before' = FALSE
    BY DEF Restart
  <2> QED
    BY <1>2, <2>1, <2>2
<1>5. TypeOK'
  BY <1>1, <1>2, <1>4 DEF TypeOK
<1>6. Control'
  BY <1>2, <1>3, <1>4 DEF Control
<1>7. Accesses' /\ Measuring' /\ Exceptions'
  BY <1>1, <1>2, <1>3, <1>4 DEF Accesses, Measuring, Exceptions
<1>8. ReadingsBelongTogether'
  BY <1>2, <1>3 DEF ReadingsBelongTogether
<1>9. WritesInOrder'
  <2>1. Intended(request)' = <<>>
    BY <1>2, <1>3, NothingRequested DEF Intended
  <2> QED
    BY <1>2, <1>3, <2>1 DEF WritesInOrder, NoResponse
<1>10. AnswersExact' /\ ResponseFits'
  BY <1>2, <1>3, LengthAssumption
     DEF AnswersExact, ResponseFits, ResponseLength, NoResponse
<1>11. ResetFollowsWrites'
  <2>1. 1 .. Len(writes') = {}
    BY <1>2, <1>3
  <2> QED
    BY <1>4, <2>1 DEF ResetFollowsWrites
<1> QED
  BY <1>5, <1>6, <1>7, <1>8, <1>9, <1>10, <1>11 DEF Sound

(* Whatever the board does leaves the slave alone or is a step of it.      *)
LEMMA UnitSound == Sound /\ [UnitNext]_<<vars, board>> => Sound'
<1> SUFFICES ASSUME Sound, [UnitNext]_<<vars, board>> PROVE Sound'
  OBVIOUS
<1>1. CASE [Next]_vars
  BY <1>1, NextSound
<1>2. CASE BoardStep \/ SwapImages \/ CallMeasurement
  BY <1>1, <1>2 DEF BoardStep, SwapImages, CallMeasurement
<1>3. ASSUME NEW raw \in Raw, MeasurementReturns(raw) PROVE Sound'
  BY <1>1, <1>3 DEF MeasurementReturns, Next
<1>4. ASSUME NEW refused \in BOOLEAN, Write(refused) PROVE Sound'
  BY <1>1, <1>4 DEF Write, Next
<1>5. CASE SlaveStep
  BY <1>1, <1>5 DEF SlaveStep, Next
<1>6. CASE Restart
  BY <1>6, RestartSound
<1>7. CASE UNCHANGED <<vars, board>>
  BY <1>1, <1>7
<1> QED
  BY <1>2, <1>3, <1>4, <1>5, <1>6, <1>7 DEF UnitNext

LEMMA UnitAlwaysSound == UnitSpec => []Sound
<1>1. UnitInit => Sound
  BY InitSound DEF UnitInit
<1> QED
  BY <1>1, UnitSound, PTL DEF UnitSpec

-----------------------------------------------------------------------------

(* The types of the slave's state, on the board.                           *)
THEOREM UnitTypes == UnitSpec => []TypeOK
<1>1. Sound => TypeOK
  BY DEF Sound
<1> QED
  BY <1>1, UnitAlwaysSound, PTL

(* One measurement for one read, although its steps are the board's.       *)
THEOREM UnitMeasuresOnce == UnitSpec => []ReadingsBelongTogether
<1>1. Sound => ReadingsBelongTogether
  BY DEF Sound
<1> QED
  BY <1>1, UnitAlwaysSound, PTL

(* Writes in order, exact answers, responses that fit and a reset only     *)
(* when it was asked for, across measurements, flash commands and restarts.*)
THEOREM UnitAnswers ==
  UnitSpec => [](WritesInOrder /\ AnswersExact /\ ResponseFits /\ ResetFollowsWrites)
<1>1. Sound => WritesInOrder /\ AnswersExact /\ ResponseFits /\ ResetFollowsWrites
  BY DEF Sound
<1> QED
  BY <1>1, UnitAlwaysSound, PTL

-----------------------------------------------------------------------------
(* The course of the board: where its two programs are, and what the clocks *)
(* and the measuring hardware look like there.                             *)

\* What is left of a part of the program after its first n calls.
Rest(part, n) == SubSeq(part, n + 1, Len(part))

(* The clock tree, after n calls of Setup and of BspMeasureRaw.            *)
ClockInSetup(n) ==
  [main    |-> "irc", div |-> 1, pll |-> "down", source |-> "irc",
   msel    |-> IF n < 8 THEN 0 ELSE 4,
   flash   |-> IF n < 3 THEN 30 ELSE 20,
   profile |-> IF n < 6 THEN "default" ELSE "lowCurrent",
   uartDiv |-> IF n < 10 THEN 0 ELSE 39, brg |-> 0]

ClockInMeasurement(n, pll) ==
  [main    |-> IF n \in 6 .. 15 THEN "pllout" ELSE "irc",
   div     |-> IF n \in 5 .. 16 THEN 2 ELSE 1,
   pll     |-> pll, source |-> "irc", msel |-> 4,
   flash   |-> IF n \in 4 .. 17 THEN 30 ELSE 20,
   profile |-> IF n \in 1 .. 20 THEN "default" ELSE "lowCurrent",
   uartDiv |-> 39, brg |-> 0]

\* The PLL takes its time after it was powered up, until it is awaited.
Pll(n) ==
  IF n = 2 THEN {"starting", "locked"} ELSE IF n \in 3 .. 18 THEN {"locked"} ELSE {"down"}

MeterType ==
  [pwm : BOOLEAN, wkt : {"stopped", "charging", "running"}, wktFlag : BOOLEAN,
   charged : BOOLEAN, adc : {"idle", "converting"}, adcFlag : BOOLEAN, good : BOOLEAN]

(* Where the unit is: the bootloader leaves the hardware as the reset did.  *)
InBootloader ==
  /\ program = "boot" /\ todo = <<>> /\ core = 0 /\ reading = "none"
  /\ clock = B!ClockAfterReset /\ meter = B!MeterAfterReset

\* After n calls of Setup; after all of them the main loop runs.
InSetup(n) ==
  /\ todo = Rest(B!Setup, n)
  /\ clock = ClockInSetup(n)
  /\ core = IF n < 5 THEN 0 ELSE B!IrcRate
  /\ meter.wkt = "stopped" /\ meter.adc = "idle" /\ meter.pwm = FALSE
  /\ reading = "none"

(* A measurement: the timer is started with its flag cleared and runs while *)
(* the excitation is on, so that the flag that ends the wait says that the *)
(* capacitor is charged;                                                   *)
Charges(n) ==
  /\ n = 9 => meter.wktFlag = FALSE
  /\ meter.wkt = "stopped" \/ (n = 10 /\ meter.wkt = "charging")
  /\ n = 10 /\ meter.wktFlag = TRUE => meter.wkt = "stopped" /\ meter.charged = TRUE
  /\ n \in 11 .. 13 => meter.charged = TRUE

(* and the flag of the ADC, that the results were converted from it.       *)
Converts(n) ==
  /\ n = 12 => meter.adcFlag = FALSE
  /\ meter.adc = "idle" \/ (n = 13 /\ meter.adc = "converting")
  /\ n = 13 /\ meter.adcFlag = TRUE => meter.adc = "idle" /\ meter.good = TRUE
  /\ n \in 14 .. 21 => meter.good = TRUE

\* After n calls of BspMeasureRaw; after all of them it has its reading.
InMeasurement(n) ==
  /\ todo = Rest(B!BspMeasureRaw, n)
  /\ \E pll \in Pll(n) : clock = ClockInMeasurement(n, pll)
  /\ core = IF n \in 7 .. 19 THEN B!MHz(30) ELSE B!IrcRate
  /\ meter.pwm = TRUE <=> n \in 8 .. 14
  /\ Charges(n) /\ Converts(n)
  /\ reading = IF n < 22 THEN "none" ELSE "good"

InFirmware ==
  /\ program = "firmware" /\ iap # "wrong"
  /\ (\E n \in 0 .. 11 : InSetup(n)) \/ (\E n \in 0 .. 22 : InMeasurement(n))

OnCourse == meter \in MeterType /\ (InBootloader \/ InFirmware)

-----------------------------------------------------------------------------
(* The two parts, call by call.                                            *)

LEMMA RestOfPart ==
  ASSUME NEW S, NEW part \in Seq(S), NEW n \in 0 .. Len(part)
  PROVE  /\ n = Len(part) => Rest(part, n) = <<>>
         /\ n < Len(part) => /\ Rest(part, n) # <<>>
                             /\ Head(Rest(part, n)) = part[n + 1]
                             /\ Tail(Rest(part, n)) = Rest(part, n + 1)
<1>1. CASE n = Len(part)
  <2>1. n + 1 \in Int /\ Len(part) \in Int /\ Len(part) < n + 1
    BY <1>1
  <2> QED
    BY <1>1, <2>1, SubSeqEmpty DEF Rest
<1>2. CASE n < Len(part)
  <2>1. n + 1 \in 1 .. Len(part) /\ Len(part) \in n + 1 .. Len(part)
    BY <1>2
  <2>2. Rest(part, n) # <<>>
    <3>1. \A i \in n + 1 .. Len(part) : part[i] \in S
      OBVIOUS
    <3>2. Len(SubSeq(part, n + 1, Len(part))) = Len(part) - (n + 1) + 1
      BY <2>1, <3>1, SubSeqProperties
    <3>3. Len(Rest(part, n)) # 0
      BY <1>2, <3>2 DEF Rest
    <3> QED
      BY <3>3
  <2>3. /\ Head(SubSeq(part, n + 1, Len(part))) = part[n + 1]
        /\ Tail(SubSeq(part, n + 1, Len(part))) = SubSeq(part, n + 1 + 1, Len(part))
    BY <2>1, HeadTailOfSubSeq
  <2> QED
    BY <1>2, <2>2, <2>3 DEF Rest
<1> QED
  BY <1>1, <1>2

(* A sequence joined from two others, place by place.                      *)
LEMMA Joined ==
  ASSUME NEW S, NEW s \in Seq(S), NEW t \in Seq(S)
  PROVE  /\ s \o t \in Seq(S) /\ Len(s \o t) = Len(s) + Len(t)
         /\ \A i \in 1 .. Len(s) : (s \o t)[i] = s[i]
         /\ \A i \in 1 .. Len(t) : (s \o t)[Len(s) + i] = t[i]
<1>1. /\ s \o t \in Seq(S) /\ Len(s \o t) = Len(s) + Len(t)
      /\ \A i \in 1 .. Len(s) + Len(t) :
           (s \o t)[i] = IF i <= Len(s) THEN s[i] ELSE t[i - Len(s)]
  BY ConcatProperties
<1>2. Len(s) \in Nat /\ Len(t) \in Nat
  OBVIOUS
<1>3. ASSUME NEW i \in 1 .. Len(t) PROVE (s \o t)[Len(s) + i] = t[i]
  <2>1. Len(s) + i \in 1 .. Len(s) + Len(t) /\ ~(Len(s) + i <= Len(s)) /\ (Len(s) + i) - Len(s) = i
    BY <1>2
  <2> QED
    BY <1>1, <2>1
<1>4. ASSUME NEW i \in 1 .. Len(s) PROVE (s \o t)[i] = s[i]
  <2>1. i \in 1 .. Len(s) + Len(t) /\ i <= Len(s)
    BY <1>2
  <2> QED
    BY <1>1, <2>1
<1> QED
  BY <1>1, <1>3, <1>4

(* The calls of the two parts, with their places: SetupHas(n, f) says that  *)
(* f is the call that follows n calls of Setup.                            *)
Calls ==
  {<<"SetMainClockSource", "irc">>, <<"SetMainClockSource", "pllout">>,
   <<"SetSysClockDiv", 1>>, <<"SetSysClockDiv", 2>>,
   <<"SetFLASHAccess", 20>>, <<"SetFLASHAccess", 30>>,
   <<"SetPower", "default">>, <<"SetPower", "lowCurrent">>,
   <<"SetSystemCoreClock", B!MHz(12)>>, <<"SetSystemCoreClock", B!MHz(30)>>,
   <<"PowerUpPll">>, <<"AwaitPllLock">>, <<"PowerDownPll">>,
   <<"SetSystemPLLSource", "irc">>, <<"SetupSystemPLL", 4>>,
   <<"CalibrateAdc">>, <<"SetUARTClockDiv">>, <<"SetBaud">>,
   <<"StartPwm">>, <<"ClearWkt">>, <<"StartWkt">>, <<"AwaitWkt">>,
   <<"ClearAdcFlags">>, <<"StartSequencer">>, <<"AwaitAdc">>, <<"StopPwm">>,
   <<"GetDataReg">>}

UseIrcHas(n, f) ==
  \/ n = 0 /\ f = <<"SetMainClockSource", "irc">>
  \/ n = 1 /\ f = <<"SetSysClockDiv", 1>>
  \/ n = 2 /\ f = <<"SetFLASHAccess", 20>>
  \/ n = 3 /\ f = <<"PowerDownPll">>
  \/ n = 4 /\ f = <<"SetSystemCoreClock", B!MHz(12)>>
  \/ n = 5 /\ f = <<"SetPower", "lowCurrent">>

UsePllHas(n, f) ==
  \/ n = 0 /\ f = <<"SetPower", "default">>
  \/ n = 1 /\ f = <<"PowerUpPll">>
  \/ n = 2 /\ f = <<"AwaitPllLock">>
  \/ n = 3 /\ f = <<"SetFLASHAccess", 30>>
  \/ n = 4 /\ f = <<"SetSysClockDiv", 2>>
  \/ n = 5 /\ f = <<"SetMainClockSource", "pllout">>
  \/ n = 6 /\ f = <<"SetSystemCoreClock", B!MHz(30)>>

SetupHas(n, f) ==
  \/ UseIrcHas(n, f)
  \/ n = 6 /\ f = <<"SetSystemPLLSource", "irc">>
  \/ n = 7 /\ f = <<"SetupSystemPLL", 4>>
  \/ n = 8 /\ f = <<"CalibrateAdc">>
  \/ n = 9 /\ f = <<"SetUARTClockDiv">>
  \/ n = 10 /\ f = <<"SetBaud">>

MeasurementHas(n, f) ==
  \/ UsePllHas(n, f)
  \/ n = 7 /\ f = <<"StartPwm">>
  \/ n = 8 /\ f = <<"ClearWkt">>
  \/ n = 9 /\ f = <<"StartWkt">>
  \/ n = 10 /\ f = <<"AwaitWkt">>
  \/ n = 11 /\ f = <<"ClearAdcFlags">>
  \/ n = 12 /\ f = <<"StartSequencer">>
  \/ n = 13 /\ f = <<"AwaitAdc">>
  \/ n = 14 /\ f = <<"StopPwm">>
  \/ UseIrcHas(n - 15, f)
  \/ n = 21 /\ f = <<"GetDataReg">>

LEMMA UseIrcCalls == \A n \in 0 .. 5 : UseIrcHas(n, B!UseIrc[n + 1])
<1> SUFFICES ASSUME NEW n \in 0 .. 5, NEW f, f = B!UseIrc[n + 1] PROVE UseIrcHas(n, f)
  OBVIOUS
<1>1. n = 0 \/ n = 1 \/ n = 2 \/ n = 3 \/ n = 4 \/ n = 5
  OBVIOUS
<1> QED
  BY <1>1 DEF B!UseIrc, UseIrcHas

LEMMA UsePllCalls == \A n \in 0 .. 6 : UsePllHas(n, B!UsePll[n + 1])
<1> SUFFICES ASSUME NEW n \in 0 .. 6, NEW f, f = B!UsePll[n + 1] PROVE UsePllHas(n, f)
  OBVIOUS
<1>1. n = 0 \/ n = 1 \/ n = 2 \/ n = 3 \/ n = 4 \/ n = 5 \/ n = 6
  OBVIOUS
<1> QED
  BY <1>1 DEF B!UsePll, UsePllHas

(* The parts, put together from their pieces.                              *)
LEMMA SetupPart ==
  /\ B!Setup \in Seq(Calls) /\ Len(B!Setup) = 11
  /\ \A i \in 1 .. 6 : B!Setup[i] = B!UseIrc[i]
  /\ B!Setup[7] = <<"SetSystemPLLSource", "irc">>
  /\ B!Setup[8] = <<"SetupSystemPLL", 4>>
  /\ B!Setup[9] = <<"CalibrateAdc">>
  /\ B!Setup[10] = <<"SetUARTClockDiv">>
  /\ B!Setup[11] = <<"SetBaud">>
<1> DEFINE a == B!UseIrc
           b == << <<"SetSystemPLLSource", "irc">>, <<"SetupSystemPLL", 4>> >>
           c == << <<"CalibrateAdc">>, <<"SetUARTClockDiv">>, <<"SetBaud">> >>
           ab == a \o b
<1>1. a \in Seq(Calls)
  BY DEF B!UseIrc, Calls
<1>2. b \in Seq(Calls) /\ c \in Seq(Calls)
  BY DEF Calls
<1>3. Len(a) = 6 /\ Len(b) = 2 /\ Len(c) = 3
  BY DEF B!UseIrc
<1>4. B!Setup = ab \o c
  BY DEF B!Setup, B!SetupClock
<1>5. /\ b[1] = <<"SetSystemPLLSource", "irc">> /\ b[2] = <<"SetupSystemPLL", 4>>
      /\ c[1] = <<"CalibrateAdc">> /\ c[2] = <<"SetUARTClockDiv">> /\ c[3] = <<"SetBaud">>
  OBVIOUS
<1> HIDE DEF a, b, c
<1>6. /\ ab \in Seq(Calls) /\ Len(ab) = Len(a) + Len(b)
      /\ \A i \in 1 .. Len(a) : ab[i] = a[i]
      /\ \A i \in 1 .. Len(b) : ab[Len(a) + i] = b[i]
  BY <1>1, <1>2, Joined
<1> HIDE DEF ab
<1>7. /\ B!Setup \in Seq(Calls) /\ Len(B!Setup) = Len(ab) + Len(c)
      /\ \A i \in 1 .. Len(ab) : B!Setup[i] = ab[i]
      /\ \A i \in 1 .. Len(c) : B!Setup[Len(ab) + i] = c[i]
  <2>1. ab \in Seq(Calls)
    BY <1>6
  <2> QED
    BY <1>2, <1>4, <2>1, Joined
<1>8. /\ B!Setup \in Seq(Calls) /\ Len(B!Setup) = 11
      /\ \A i \in 1 .. 6 : B!Setup[i] = a[i]
      /\ B!Setup[7] = b[1] /\ B!Setup[8] = b[2]
      /\ B!Setup[9] = c[1] /\ B!Setup[10] = c[2] /\ B!Setup[11] = c[3]
  BY <1>3, <1>6, <1>7
<1> QED
  BY <1>5, <1>8 DEF a

LEMMA MeasurementPart ==
  /\ B!BspMeasureRaw \in Seq(Calls) /\ Len(B!BspMeasureRaw) = 22
  /\ \A i \in 1 .. 7 : B!BspMeasureRaw[i] = B!UsePll[i]
  /\ B!BspMeasureRaw[8] = <<"StartPwm">>
  /\ B!BspMeasureRaw[9] = <<"ClearWkt">>
  /\ B!BspMeasureRaw[10] = <<"StartWkt">>
  /\ B!BspMeasureRaw[11] = <<"AwaitWkt">>
  /\ B!BspMeasureRaw[12] = <<"ClearAdcFlags">>
  /\ B!BspMeasureRaw[13] = <<"StartSequencer">>
  /\ B!BspMeasureRaw[14] = <<"AwaitAdc">>
  /\ B!BspMeasureRaw[15] = <<"StopPwm">>
  /\ \A i \in 1 .. 6 : B!BspMeasureRaw[15 + i] = B!UseIrc[i]
  /\ B!BspMeasureRaw[22] = <<"GetDataReg">>
<1> DEFINE a == B!UsePll
           b == << <<"StartPwm">>, <<"ClearWkt">>, <<"StartWkt">>, <<"AwaitWkt">>,
                   <<"ClearAdcFlags">>, <<"StartSequencer">>, <<"AwaitAdc">>, <<"StopPwm">> >>
           c == B!UseIrc
           d == << <<"GetDataReg">> >>
           ab == a \o b
           abc == ab \o c
<1>1. a \in Seq(Calls) /\ b \in Seq(Calls) /\ c \in Seq(Calls) /\ d \in Seq(Calls)
  <2>1. a \in Seq(Calls)
    BY DEF B!UsePll, Calls
  <2>2. b \in Seq(Calls)
    BY DEF Calls
  <2>3. c \in Seq(Calls)
    BY DEF B!UseIrc, Calls
  <2>4. d \in Seq(Calls)
    BY DEF Calls
  <2> QED
    BY <2>1, <2>2, <2>3, <2>4
<1>2. Len(a) = 7 /\ Len(b) = 8 /\ Len(c) = 6 /\ Len(d) = 1
  BY DEF B!UsePll, B!UseIrc
<1>3. B!BspMeasureRaw = abc \o d
  BY DEF B!BspMeasureRaw
<1>4. /\ b[1] = <<"StartPwm">> /\ b[2] = <<"ClearWkt">> /\ b[3] = <<"StartWkt">>
      /\ b[4] = <<"AwaitWkt">> /\ b[5] = <<"ClearAdcFlags">> /\ b[6] = <<"StartSequencer">>
      /\ b[7] = <<"AwaitAdc">> /\ b[8] = <<"StopPwm">> /\ d[1] = <<"GetDataReg">>
  OBVIOUS
<1> HIDE DEF a, b, c, d
<1>5. /\ ab \in Seq(Calls) /\ Len(ab) = Len(a) + Len(b)
      /\ \A i \in 1 .. Len(a) : ab[i] = a[i]
      /\ \A i \in 1 .. Len(b) : ab[Len(a) + i] = b[i]
  BY <1>1, Joined
<1> HIDE DEF ab
<1>6. /\ abc \in Seq(Calls) /\ Len(abc) = Len(ab) + Len(c)
      /\ \A i \in 1 .. Len(ab) : abc[i] = ab[i]
      /\ \A i \in 1 .. Len(c) : abc[Len(ab) + i] = c[i]
  <2>1. ab \in Seq(Calls)
    BY <1>5
  <2> QED
    BY <1>1, <2>1, Joined
<1> HIDE DEF abc
<1>7. /\ B!BspMeasureRaw \in Seq(Calls) /\ Len(B!BspMeasureRaw) = Len(abc) + Len(d)
      /\ \A i \in 1 .. Len(abc) : B!BspMeasureRaw[i] = abc[i]
      /\ \A i \in 1 .. Len(d) : B!BspMeasureRaw[Len(abc) + i] = d[i]
  <2>1. abc \in Seq(Calls)
    BY <1>6
  <2> QED
    BY <1>1, <1>3, <2>1, Joined
<1>8. /\ Len(B!BspMeasureRaw) = 22
      /\ \A i \in 1 .. 7 : B!BspMeasureRaw[i] = a[i]
      /\ \A i \in 1 .. 8 : B!BspMeasureRaw[7 + i] = b[i]
      /\ \A i \in 1 .. 6 : B!BspMeasureRaw[15 + i] = c[i]
      /\ B!BspMeasureRaw[22] = d[1]
  BY <1>2, <1>5, <1>6, <1>7
<1>9. /\ B!BspMeasureRaw[8] = b[1] /\ B!BspMeasureRaw[9] = b[2] /\ B!BspMeasureRaw[10] = b[3]
      /\ B!BspMeasureRaw[11] = b[4] /\ B!BspMeasureRaw[12] = b[5] /\ B!BspMeasureRaw[13] = b[6]
      /\ B!BspMeasureRaw[14] = b[7] /\ B!BspMeasureRaw[15] = b[8]
  BY <1>8
<1>10. /\ \A i \in 1 .. 7 : B!BspMeasureRaw[i] = B!UsePll[i]
       /\ \A i \in 1 .. 6 : B!BspMeasureRaw[15 + i] = B!UseIrc[i]
  BY <1>8 DEF a, c
<1> QED
  BY <1>4, <1>7, <1>8, <1>9, <1>10

LEMMA SetupCall ==
  ASSUME NEW n \in 0 .. 11, InSetup(n), NEW f, B!Call(f)
  PROVE  n < 11 /\ SetupHas(n, f) /\ todo' = Rest(B!Setup, n + 1)
<1>1. todo = Rest(B!Setup, n) /\ todo # <<>> /\ Head(todo) = f /\ todo' = Tail(todo)
  BY DEF InSetup, B!Call
<1>2. B!Setup \in Seq(Calls) /\ Len(B!Setup) = 11 /\ n \in 0 .. Len(B!Setup)
  BY SetupPart
<1>3. /\ n = Len(B!Setup) => Rest(B!Setup, n) = <<>>
      /\ n < Len(B!Setup) => /\ Rest(B!Setup, n) # <<>>
                           /\ Head(Rest(B!Setup, n)) = B!Setup[n + 1]
                           /\ Tail(Rest(B!Setup, n)) = Rest(B!Setup, n + 1)
  BY <1>2, RestOfPart
<1>4. n < 11 /\ f = B!Setup[n + 1] /\ todo' = Rest(B!Setup, n + 1)
  BY <1>1, <1>2, <1>3
<1>5. CASE n \in 0 .. 5
  <2>1. f = B!UseIrc[n + 1]
    BY <1>4, <1>5, SetupPart
  <2> QED
    BY <1>4, <1>5, <2>1, UseIrcCalls DEF SetupHas
<1>6. CASE n \in 6 .. 10
  <2>1. n = 6 \/ n = 7 \/ n = 8 \/ n = 9 \/ n = 10
    BY <1>6
  <2> QED
    BY <1>4, <2>1, SetupPart DEF SetupHas
<1> QED
  BY <1>4, <1>5, <1>6

LEMMA MeasurementCall ==
  ASSUME NEW n \in 0 .. 22, InMeasurement(n), NEW f, B!Call(f)
  PROVE  n < 22 /\ MeasurementHas(n, f) /\ todo' = Rest(B!BspMeasureRaw, n + 1)
<1>1. todo = Rest(B!BspMeasureRaw, n) /\ todo # <<>> /\ Head(todo) = f /\ todo' = Tail(todo)
  BY DEF InMeasurement, B!Call
<1>2. B!BspMeasureRaw \in Seq(Calls) /\ Len(B!BspMeasureRaw) = 22 /\ n \in 0 .. Len(B!BspMeasureRaw)
  BY MeasurementPart
<1>3. /\ n = Len(B!BspMeasureRaw) => Rest(B!BspMeasureRaw, n) = <<>>
      /\ n < Len(B!BspMeasureRaw) => /\ Rest(B!BspMeasureRaw, n) # <<>>
                           /\ Head(Rest(B!BspMeasureRaw, n)) = B!BspMeasureRaw[n + 1]
                           /\ Tail(Rest(B!BspMeasureRaw, n)) = Rest(B!BspMeasureRaw, n + 1)
  BY <1>2, RestOfPart
<1>4. n < 22 /\ f = B!BspMeasureRaw[n + 1] /\ todo' = Rest(B!BspMeasureRaw, n + 1)
  BY <1>1, <1>2, <1>3
<1>5. CASE n \in 0 .. 6
  <2>1. f = B!UsePll[n + 1]
    BY <1>4, <1>5, MeasurementPart
  <2> QED
    BY <1>4, <1>5, <2>1, UsePllCalls DEF MeasurementHas
<1>6. CASE n \in 7 .. 14 \cup {21}
  <2>1. \/ n = 7 \/ n = 8 \/ n = 9 \/ n = 10 \/ n = 11 \/ n = 12 \/ n = 13 \/ n = 14
        \/ n = 21
    BY <1>6
  <2>2. /\ B!BspMeasureRaw[8] = <<"StartPwm">> /\ B!BspMeasureRaw[9] = <<"ClearWkt">>
        /\ B!BspMeasureRaw[10] = <<"StartWkt">> /\ B!BspMeasureRaw[11] = <<"AwaitWkt">>
        /\ B!BspMeasureRaw[12] = <<"ClearAdcFlags">>
        /\ B!BspMeasureRaw[13] = <<"StartSequencer">>
        /\ B!BspMeasureRaw[14] = <<"AwaitAdc">> /\ B!BspMeasureRaw[15] = <<"StopPwm">>
        /\ B!BspMeasureRaw[22] = <<"GetDataReg">>
    BY MeasurementPart
  <2> QED
    BY <1>4, <2>1, <2>2 DEF MeasurementHas
<1>7. CASE n \in 15 .. 20
  <2> DEFINE k == n - 15
  <2>1. k \in 0 .. 5 /\ n + 1 = 15 + (k + 1) /\ k + 1 \in 1 .. 6
    BY <1>7
  <2>2. B!BspMeasureRaw[15 + (k + 1)] = B!UseIrc[k + 1]
    <3> HIDE DEF k
    <3> QED
      BY <2>1, MeasurementPart
  <2>3. UseIrcHas(k, f)
    <3>1. f = B!UseIrc[k + 1]
      BY <1>4, <2>1, <2>2
    <3> HIDE DEF k
    <3> QED
      BY <2>1, <3>1, UseIrcCalls
  <2> QED
    BY <1>4, <2>3 DEF MeasurementHas
<1> QED
  BY <1>4, <1>5, <1>6, <1>7

(* A call made in the setup is the one that follows.                       *)
LEMMA SetupMakesCall ==
  ASSUME meter \in MeterType, NEW n \in 0 .. 11, InSetup(n), B!MakeCall
  PROVE  /\ UNCHANGED <<program, iap>> /\ meter' \in MeterType
         /\ n < 11 /\ InSetup(n + 1)'
<1> DEFINE Onwards == /\ UNCHANGED <<program, iap>> /\ meter' \in MeterType
                      /\ n < 11 /\ InSetup(n + 1)'
<1>1. /\ clock = ClockInSetup(n) /\ core = IF n < 5 THEN 0 ELSE B!IrcRate
      /\ meter.wkt = "stopped" /\ meter.adc = "idle" /\ meter.pwm = FALSE
      /\ reading = "none"
  BY DEF InSetup
<1>2. ASSUME NEW source \in {"irc", "pllout"}, B!SetMainClockSource(source) PROVE Onwards
  <2>1. SetupHas(n, <<"SetMainClockSource", source>>) /\ todo' = Rest(B!Setup, n + 1)
    BY <1>2, SetupCall DEF B!SetMainClockSource, B!ClockCall
  <2>2. n = 0 /\ source = "irc"
    BY <2>1 DEF SetupHas, UseIrcHas
  <2>3. clock' = ClockInSetup(1)
    BY <1>1, <1>2, <2>2 DEF B!SetMainClockSource, B!ClockCall, ClockInSetup
  <2> QED
    BY <1>1, <1>2, <2>1, <2>2, <2>3 DEF B!SetMainClockSource, B!ClockCall, InSetup
<1>3. ASSUME NEW div \in {1, 2}, B!SetSysClockDiv(div) PROVE Onwards
  <2>1. SetupHas(n, <<"SetSysClockDiv", div>>) /\ todo' = Rest(B!Setup, n + 1)
    BY <1>3, SetupCall DEF B!SetSysClockDiv, B!ClockCall
  <2>2. n = 1 /\ div = 1
    BY <2>1 DEF SetupHas, UseIrcHas
  <2>3. clock' = ClockInSetup(2)
    BY <1>1, <1>3, <2>2 DEF B!SetSysClockDiv, B!ClockCall, ClockInSetup
  <2> QED
    BY <1>1, <1>3, <2>1, <2>2, <2>3 DEF B!SetSysClockDiv, B!ClockCall, InSetup
<1>4. ASSUME NEW mhz \in {20, 30}, B!SetFLASHAccess(mhz) PROVE Onwards
  <2>1. SetupHas(n, <<"SetFLASHAccess", mhz>>) /\ todo' = Rest(B!Setup, n + 1)
    BY <1>4, SetupCall DEF B!SetFLASHAccess, B!ClockCall
  <2>2. n = 2 /\ mhz = 20
    BY <2>1 DEF SetupHas, UseIrcHas
  <2>3. clock' = ClockInSetup(3)
    BY <1>1, <1>4, <2>2 DEF B!SetFLASHAccess, B!ClockCall, ClockInSetup
  <2> QED
    BY <1>1, <1>4, <2>1, <2>2, <2>3 DEF B!SetFLASHAccess, B!ClockCall, InSetup
<1>5. ASSUME B!PowerDownPll PROVE Onwards
  <2>1. SetupHas(n, <<"PowerDownPll">>) /\ todo' = Rest(B!Setup, n + 1)
    BY <1>5, SetupCall DEF B!PowerDownPll, B!ClockCall
  <2>2. n = 3
    BY <2>1 DEF SetupHas, UseIrcHas
  <2>3. clock' = ClockInSetup(4)
    BY <1>1, <1>5, <2>2 DEF B!PowerDownPll, B!ClockCall, ClockInSetup
  <2> QED
    BY <1>1, <1>5, <2>1, <2>2, <2>3 DEF B!PowerDownPll, B!ClockCall, InSetup
<1>6. ASSUME NEW rate \in {B!MHz(12), B!MHz(30)}, B!SetSystemCoreClock(rate) PROVE Onwards
  <2>1. SetupHas(n, <<"SetSystemCoreClock", rate>>) /\ todo' = Rest(B!Setup, n + 1)
    BY <1>6, SetupCall DEF B!SetSystemCoreClock
  <2>2. n = 4 /\ rate = B!MHz(12)
    BY <2>1 DEF SetupHas, UseIrcHas
  <2>3. ClockInSetup(4) = ClockInSetup(5)
    BY DEF ClockInSetup
  <2> QED
    BY <1>1, <1>6, <2>1, <2>2, <2>3 DEF B!SetSystemCoreClock, InSetup, B!IrcRate, B!MHz
<1>7. ASSUME NEW mode \in {"default", "lowCurrent"}, B!SetPower(mode) PROVE Onwards
  <2>1. SetupHas(n, <<"SetPower", mode>>) /\ todo' = Rest(B!Setup, n + 1)
    BY <1>7, SetupCall DEF B!SetPower, B!ClockCall
  <2>2. n = 5 /\ mode = "lowCurrent"
    BY <2>1 DEF SetupHas, UseIrcHas
  <2>3. clock' = ClockInSetup(6)
    BY <1>1, <1>7, <2>2 DEF B!SetPower, B!ClockCall, ClockInSetup
  <2> QED
    BY <1>1, <1>7, <2>1, <2>2, <2>3 DEF B!SetPower, B!ClockCall, InSetup
<1>8. ASSUME B!SetSystemPLLSource("irc") PROVE Onwards
  <2>1. SetupHas(n, <<"SetSystemPLLSource", "irc">>) /\ todo' = Rest(B!Setup, n + 1)
    BY <1>8, SetupCall DEF B!SetSystemPLLSource, B!ClockCall
  <2>2. n = 6
    BY <2>1 DEF SetupHas, UseIrcHas
  <2>3. clock' = ClockInSetup(7)
    BY <1>1, <1>8, <2>2 DEF B!SetSystemPLLSource, B!ClockCall, ClockInSetup
  <2> QED
    BY <1>1, <1>8, <2>1, <2>2, <2>3 DEF B!SetSystemPLLSource, B!ClockCall, InSetup
<1>9. ASSUME B!SetupSystemPLL(4) PROVE Onwards
  <2>1. SetupHas(n, <<"SetupSystemPLL", 4>>) /\ todo' = Rest(B!Setup, n + 1)
    BY <1>9, SetupCall DEF B!SetupSystemPLL, B!ClockCall
  <2>2. n = 7
    BY <2>1 DEF SetupHas, UseIrcHas
  <2>3. clock' = ClockInSetup(8)
    BY <1>1, <1>9, <2>2 DEF B!SetupSystemPLL, B!ClockCall, ClockInSetup
  <2> QED
    BY <1>1, <1>9, <2>1, <2>2, <2>3 DEF B!SetupSystemPLL, B!ClockCall, InSetup
<1>10. ASSUME B!CalibrateAdc PROVE Onwards
  <2>1. SetupHas(n, <<"CalibrateAdc">>) /\ todo' = Rest(B!Setup, n + 1)
    BY <1>10, SetupCall DEF B!CalibrateAdc, B!MeterCall
  <2>2. n = 8
    BY <2>1 DEF SetupHas, UseIrcHas
  <2>3. ClockInSetup(8) = ClockInSetup(9)
    BY DEF ClockInSetup
  <2> QED
    BY <1>1, <1>10, <2>1, <2>2, <2>3 DEF B!CalibrateAdc, InSetup, B!MeterCall, MeterType
<1>11. ASSUME B!SetUARTClockDiv PROVE Onwards
  <2>1. SetupHas(n, <<"SetUARTClockDiv">>) /\ todo' = Rest(B!Setup, n + 1)
    BY <1>11, SetupCall DEF B!SetUARTClockDiv, B!ClockCall
  <2>2. n = 9
    BY <2>1 DEF SetupHas, UseIrcHas
  <2>3. clock' = ClockInSetup(10)
    BY <1>1, <1>11, <2>2 DEF B!SetUARTClockDiv, B!ClockCall, ClockInSetup, B!GetMainClockRate,
       B!IrcRate, B!Baudrate
  <2> QED
    BY <1>1, <1>11, <2>1, <2>2, <2>3 DEF B!SetUARTClockDiv, B!ClockCall, InSetup
<1>12. ASSUME B!SetBaud PROVE Onwards
  <2>1. SetupHas(n, <<"SetBaud">>) /\ todo' = Rest(B!Setup, n + 1)
    BY <1>12, SetupCall DEF B!SetBaud, B!ClockCall
  <2>2. n = 10
    BY <2>1 DEF SetupHas, UseIrcHas
  <2>3. clock' = ClockInSetup(11)
    BY <1>1, <1>12, <2>2 DEF B!SetBaud, B!ClockCall, ClockInSetup,
       B!GetUSARTNBaseClockRate, B!GetMainClockRate, B!IrcRate, B!Baudrate
  <2> QED
    BY <1>1, <1>12, <2>1, <2>2, <2>3 DEF B!SetBaud, B!ClockCall, InSetup
<1>13. ~B!PowerUpPll
  <2>1. B!PowerUpPll => SetupHas(n, <<"PowerUpPll">>)
    BY SetupCall DEF B!PowerUpPll, B!ClockCall
  <2> QED
    BY <2>1 DEF SetupHas, UseIrcHas
<1>14. ~B!StartPwm
  <2>1. B!StartPwm => SetupHas(n, <<"StartPwm">>)
    BY SetupCall DEF B!StartPwm, B!MeterCall
  <2> QED
    BY <2>1 DEF SetupHas, UseIrcHas
<1>15. ~B!StopPwm
  <2>1. B!StopPwm => SetupHas(n, <<"StopPwm">>)
    BY SetupCall DEF B!StopPwm, B!MeterCall
  <2> QED
    BY <2>1 DEF SetupHas, UseIrcHas
<1>16. ~B!ClearWkt
  <2>1. B!ClearWkt => SetupHas(n, <<"ClearWkt">>)
    BY SetupCall DEF B!ClearWkt, B!MeterCall
  <2> QED
    BY <2>1 DEF SetupHas, UseIrcHas
<1>17. ~B!StartWkt
  <2>1. B!StartWkt => SetupHas(n, <<"StartWkt">>)
    BY SetupCall DEF B!StartWkt, B!MeterCall
  <2> QED
    BY <2>1 DEF SetupHas, UseIrcHas
<1>18. ~B!ClearAdcFlags
  <2>1. B!ClearAdcFlags => SetupHas(n, <<"ClearAdcFlags">>)
    BY SetupCall DEF B!ClearAdcFlags, B!MeterCall
  <2> QED
    BY <2>1 DEF SetupHas, UseIrcHas
<1>19. ~B!StartSequencer
  <2>1. B!StartSequencer => SetupHas(n, <<"StartSequencer">>)
    BY SetupCall DEF B!StartSequencer, B!MeterCall
  <2> QED
    BY <2>1 DEF SetupHas, UseIrcHas
<1>20. ~B!GetDataReg
  <2>1. B!GetDataReg => SetupHas(n, <<"GetDataReg">>)
    BY SetupCall DEF B!GetDataReg
  <2> QED
    BY <2>1 DEF SetupHas, UseIrcHas
<1>21. ~B!Wait
  <2>1. B!Wait => \E call \in {"AwaitPllLock", "AwaitWkt", "AwaitAdc"} : SetupHas(n, <<call>>)
    BY SetupCall DEF B!Wait, B!ClockCall, B!MeterCall
  <2> QED
    BY <2>1 DEF SetupHas, UseIrcHas
<1> QED
  BY <1>2, <1>3, <1>4, <1>5, <1>6, <1>7, <1>8, <1>9, <1>10, <1>11, <1>12, <1>13, <1>14,
     <1>15, <1>16, <1>17, <1>18, <1>19, <1>20, <1>21 DEF B!MakeCall

(* So is a call made in a measurement.  The PLL is locked by the time it is *)
(* awaited, and the flags of the timer and of the ADC are set by this       *)
(* measurement when they are awaited.                                      *)
LEMMA MeasurementMakesCall ==
  ASSUME meter \in MeterType, NEW n \in 0 .. 22, InMeasurement(n), B!MakeCall
  PROVE  /\ UNCHANGED <<program, iap>> /\ meter' \in MeterType
         /\ n < 22 /\ InMeasurement(n + 1)'
<1> DEFINE Onwards == /\ UNCHANGED <<program, iap>> /\ meter' \in MeterType
                      /\ n < 22 /\ InMeasurement(n + 1)'
<1>1. /\ core = IF n \in 7 .. 19 THEN B!MHz(30) ELSE B!IrcRate
      /\ meter.pwm = TRUE <=> n \in 8 .. 14
      /\ Charges(n) /\ Converts(n)
      /\ reading = IF n < 22 THEN "none" ELSE "good"
  BY DEF InMeasurement
<1>2. PICK pll \in Pll(n) : clock = ClockInMeasurement(n, pll)
  BY DEF InMeasurement
<1>3. ASSUME NEW source \in {"irc", "pllout"}, B!SetMainClockSource(source) PROVE Onwards
  <2>1. MeasurementHas(n, <<"SetMainClockSource", source>>) /\ todo' = Rest(B!BspMeasureRaw, n + 1)
    BY <1>3, MeasurementCall DEF B!SetMainClockSource, B!ClockCall
  <2>2. (n = 5 /\ source = "pllout") \/ (n = 15 /\ source = "irc")
    BY <2>1 DEF MeasurementHas, UsePllHas, UseIrcHas
  <2>3. \E p \in Pll(n + 1) : clock' = ClockInMeasurement(n + 1, p)
    BY <1>2, <1>3, <2>2 DEF B!SetMainClockSource, B!ClockCall, ClockInMeasurement, Pll
  <2> QED
    BY <1>1, <1>3, <2>1, <2>2, <2>3
    DEF B!SetMainClockSource, B!ClockCall, InMeasurement, Charges, Converts
<1>4. ASSUME NEW div \in {1, 2}, B!SetSysClockDiv(div) PROVE Onwards
  <2>1. MeasurementHas(n, <<"SetSysClockDiv", div>>) /\ todo' = Rest(B!BspMeasureRaw, n + 1)
    BY <1>4, MeasurementCall DEF B!SetSysClockDiv, B!ClockCall
  <2>2. (n = 4 /\ div = 2) \/ (n = 16 /\ div = 1)
    BY <2>1 DEF MeasurementHas, UsePllHas, UseIrcHas
  <2>3. \E p \in Pll(n + 1) : clock' = ClockInMeasurement(n + 1, p)
    BY <1>2, <1>4, <2>2 DEF B!SetSysClockDiv, B!ClockCall, ClockInMeasurement, Pll
  <2> QED
    BY <1>1, <1>4, <2>1, <2>2, <2>3
    DEF B!SetSysClockDiv, B!ClockCall, InMeasurement, Charges, Converts
<1>5. ASSUME NEW mhz \in {20, 30}, B!SetFLASHAccess(mhz) PROVE Onwards
  <2>1. MeasurementHas(n, <<"SetFLASHAccess", mhz>>) /\ todo' = Rest(B!BspMeasureRaw, n + 1)
    BY <1>5, MeasurementCall DEF B!SetFLASHAccess, B!ClockCall
  <2>2. (n = 3 /\ mhz = 30) \/ (n = 17 /\ mhz = 20)
    BY <2>1 DEF MeasurementHas, UsePllHas, UseIrcHas
  <2>3. \E p \in Pll(n + 1) : clock' = ClockInMeasurement(n + 1, p)
    BY <1>2, <1>5, <2>2 DEF B!SetFLASHAccess, B!ClockCall, ClockInMeasurement, Pll
  <2> QED
    BY <1>1, <1>5, <2>1, <2>2, <2>3
    DEF B!SetFLASHAccess, B!ClockCall, InMeasurement, Charges, Converts
<1>6. ASSUME NEW rate \in {B!MHz(12), B!MHz(30)}, B!SetSystemCoreClock(rate) PROVE Onwards
  <2>1. MeasurementHas(n, <<"SetSystemCoreClock", rate>>) /\ todo' = Rest(B!BspMeasureRaw, n + 1)
    BY <1>6, MeasurementCall DEF B!SetSystemCoreClock
  <2>2. (n = 6 /\ rate = B!MHz(30)) \/ (n = 19 /\ rate = B!MHz(12))
    BY <2>1 DEF MeasurementHas, UsePllHas, UseIrcHas
  <2>3. \E p \in Pll(n + 1) : clock' = ClockInMeasurement(n + 1, p)
    BY <1>2, <1>6, <2>2 DEF B!SetSystemCoreClock, ClockInMeasurement, Pll
  <2> QED
    BY <1>1, <1>6, <2>1, <2>2, <2>3
    DEF B!SetSystemCoreClock, InMeasurement, Charges, Converts, B!IrcRate, B!MHz
<1>7. ASSUME NEW mode \in {"default", "lowCurrent"}, B!SetPower(mode) PROVE Onwards
  <2>1. MeasurementHas(n, <<"SetPower", mode>>) /\ todo' = Rest(B!BspMeasureRaw, n + 1)
    BY <1>7, MeasurementCall DEF B!SetPower, B!ClockCall
  <2>2. (n = 0 /\ mode = "default") \/ (n = 20 /\ mode = "lowCurrent")
    BY <2>1 DEF MeasurementHas, UsePllHas, UseIrcHas
  <2>3. \E p \in Pll(n + 1) : clock' = ClockInMeasurement(n + 1, p)
    BY <1>2, <1>7, <2>2 DEF B!SetPower, B!ClockCall, ClockInMeasurement, Pll
  <2> QED
    BY <1>1, <1>7, <2>1, <2>2, <2>3
    DEF B!SetPower, B!ClockCall, InMeasurement, Charges, Converts
<1>8. ASSUME B!PowerUpPll PROVE Onwards
  <2>1. MeasurementHas(n, <<"PowerUpPll">>) /\ todo' = Rest(B!BspMeasureRaw, n + 1)
    BY <1>8, MeasurementCall DEF B!PowerUpPll, B!ClockCall
  <2>2. n = 1
    BY <2>1 DEF MeasurementHas, UsePllHas, UseIrcHas
  <2>3. \E p \in Pll(n + 1) : clock' = ClockInMeasurement(n + 1, p)
    BY <1>2, <1>8, <2>2 DEF B!PowerUpPll, B!ClockCall, ClockInMeasurement, Pll
  <2> QED
    BY <1>1, <1>8, <2>1, <2>2, <2>3
    DEF B!PowerUpPll, B!ClockCall, InMeasurement, Charges, Converts
<1>9. ASSUME B!PowerDownPll PROVE Onwards
  <2>1. MeasurementHas(n, <<"PowerDownPll">>) /\ todo' = Rest(B!BspMeasureRaw, n + 1)
    BY <1>9, MeasurementCall DEF B!PowerDownPll, B!ClockCall
  <2>2. n = 18
    BY <2>1 DEF MeasurementHas, UsePllHas, UseIrcHas
  <2>3. \E p \in Pll(n + 1) : clock' = ClockInMeasurement(n + 1, p)
    BY <1>2, <1>9, <2>2 DEF B!PowerDownPll, B!ClockCall, ClockInMeasurement, Pll
  <2> QED
    BY <1>1, <1>9, <2>1, <2>2, <2>3
    DEF B!PowerDownPll, B!ClockCall, InMeasurement, Charges, Converts
<1>10. ASSUME B!StartPwm PROVE Onwards
  <2>1. MeasurementHas(n, <<"StartPwm">>) /\ todo' = Rest(B!BspMeasureRaw, n + 1)
    BY <1>10, MeasurementCall DEF B!StartPwm, B!MeterCall
  <2>2. n = 7
    BY <2>1 DEF MeasurementHas, UsePllHas, UseIrcHas
  <2>3. \E p \in Pll(n + 1) : clock' = ClockInMeasurement(n + 1, p)
    BY <1>2, <1>10, <2>2 DEF B!StartPwm, B!MeterCall, ClockInMeasurement, Pll
  <2>4. meter' \in MeterType
    BY <1>10 DEF B!StartPwm, B!MeterCall, MeterType
  <2>5. meter'.pwm = TRUE <=> n + 1 \in 8 .. 14
    BY <1>1, <1>10, <2>2 DEF B!StartPwm, B!MeterCall, MeterType
  <2>6. Charges(n + 1)'
    BY <1>1, <1>10, <2>2 DEF B!StartPwm, B!MeterCall, Charges, MeterType
  <2>7. Converts(n + 1)'
    BY <1>1, <1>10, <2>2 DEF B!StartPwm, B!MeterCall, Converts, MeterType
  <2> QED
    BY <1>1, <1>10, <2>1, <2>2, <2>3, <2>4, <2>5, <2>6, <2>7
    DEF B!StartPwm, B!MeterCall, InMeasurement
<1>11. ASSUME B!StopPwm PROVE Onwards
  <2>1. MeasurementHas(n, <<"StopPwm">>) /\ todo' = Rest(B!BspMeasureRaw, n + 1)
    BY <1>11, MeasurementCall DEF B!StopPwm, B!MeterCall
  <2>2. n = 14
    BY <2>1 DEF MeasurementHas, UsePllHas, UseIrcHas
  <2>3. \E p \in Pll(n + 1) : clock' = ClockInMeasurement(n + 1, p)
    BY <1>2, <1>11, <2>2 DEF B!StopPwm, B!MeterCall, ClockInMeasurement, Pll
  <2>4. meter' \in MeterType
    BY <1>11 DEF B!StopPwm, B!MeterCall, MeterType
  <2>5. meter'.pwm = TRUE <=> n + 1 \in 8 .. 14
    BY <1>1, <1>11, <2>2 DEF B!StopPwm, B!MeterCall, MeterType
  <2>6. Charges(n + 1)'
    BY <1>1, <1>11, <2>2 DEF B!StopPwm, B!MeterCall, Charges, MeterType
  <2>7. Converts(n + 1)'
    BY <1>1, <1>11, <2>2 DEF B!StopPwm, B!MeterCall, Converts, MeterType
  <2> QED
    BY <1>1, <1>11, <2>1, <2>2, <2>3, <2>4, <2>5, <2>6, <2>7
    DEF B!StopPwm, B!MeterCall, InMeasurement
<1>12. ASSUME B!ClearWkt PROVE Onwards
  <2>1. MeasurementHas(n, <<"ClearWkt">>) /\ todo' = Rest(B!BspMeasureRaw, n + 1)
    BY <1>12, MeasurementCall DEF B!ClearWkt, B!MeterCall
  <2>2. n = 8
    BY <2>1 DEF MeasurementHas, UsePllHas, UseIrcHas
  <2>3. \E p \in Pll(n + 1) : clock' = ClockInMeasurement(n + 1, p)
    BY <1>2, <1>12, <2>2 DEF B!ClearWkt, B!MeterCall, ClockInMeasurement, Pll
  <2>4. meter' \in MeterType
    BY <1>12 DEF B!ClearWkt, B!MeterCall, MeterType, B!FlagCleared
  <2>5. meter'.pwm = TRUE <=> n + 1 \in 8 .. 14
    BY <1>1, <1>12, <2>2 DEF B!ClearWkt, B!MeterCall, MeterType
  <2>6. Charges(n + 1)'
    BY <1>1, <1>12, <2>2 DEF B!ClearWkt, B!MeterCall, Charges, MeterType, B!FlagCleared
  <2>7. Converts(n + 1)'
    BY <1>1, <1>12, <2>2 DEF B!ClearWkt, B!MeterCall, Converts, MeterType
  <2> QED
    BY <1>1, <1>12, <2>1, <2>2, <2>3, <2>4, <2>5, <2>6, <2>7
    DEF B!ClearWkt, B!MeterCall, InMeasurement
<1>13. ASSUME B!StartWkt PROVE Onwards
  <2>1. MeasurementHas(n, <<"StartWkt">>) /\ todo' = Rest(B!BspMeasureRaw, n + 1)
    BY <1>13, MeasurementCall DEF B!StartWkt, B!MeterCall
  <2>2. n = 9
    BY <2>1 DEF MeasurementHas, UsePllHas, UseIrcHas
  <2>3. \E p \in Pll(n + 1) : clock' = ClockInMeasurement(n + 1, p)
    BY <1>2, <1>13, <2>2 DEF B!StartWkt, B!MeterCall, ClockInMeasurement, Pll
  <2>4. meter' \in MeterType
    BY <1>13 DEF B!StartWkt, B!MeterCall, MeterType
  <2>5. meter'.pwm = TRUE <=> n + 1 \in 8 .. 14
    BY <1>1, <1>13, <2>2 DEF B!StartWkt, B!MeterCall, MeterType
  <2>6. Charges(n + 1)'
    BY <1>1, <1>2, <1>13, <2>2 DEF B!StartWkt, B!MeterCall, Charges, MeterType,
       B!Excited, ClockInMeasurement
  <2>7. Converts(n + 1)'
    BY <1>1, <1>13, <2>2 DEF B!StartWkt, B!MeterCall, Converts, MeterType
  <2> QED
    BY <1>1, <1>13, <2>1, <2>2, <2>3, <2>4, <2>5, <2>6, <2>7
    DEF B!StartWkt, B!MeterCall, InMeasurement
<1>14. ASSUME B!ClearAdcFlags PROVE Onwards
  <2>1. MeasurementHas(n, <<"ClearAdcFlags">>) /\ todo' = Rest(B!BspMeasureRaw, n + 1)
    BY <1>14, MeasurementCall DEF B!ClearAdcFlags, B!MeterCall
  <2>2. n = 11
    BY <2>1 DEF MeasurementHas, UsePllHas, UseIrcHas
  <2>3. \E p \in Pll(n + 1) : clock' = ClockInMeasurement(n + 1, p)
    BY <1>2, <1>14, <2>2 DEF B!ClearAdcFlags, B!MeterCall, ClockInMeasurement, Pll
  <2>4. meter' \in MeterType
    BY <1>14 DEF B!ClearAdcFlags, B!MeterCall, MeterType
  <2>5. meter'.pwm = TRUE <=> n + 1 \in 8 .. 14
    BY <1>1, <1>14, <2>2 DEF B!ClearAdcFlags, B!MeterCall, MeterType
  <2>6. Charges(n + 1)'
    BY <1>1, <1>14, <2>2 DEF B!ClearAdcFlags, B!MeterCall, Charges, MeterType
  <2>7. Converts(n + 1)'
    BY <1>1, <1>14, <2>2 DEF B!ClearAdcFlags, B!MeterCall, Converts, MeterType
  <2> QED
    BY <1>1, <1>14, <2>1, <2>2, <2>3, <2>4, <2>5, <2>6, <2>7
    DEF B!ClearAdcFlags, B!MeterCall, InMeasurement
<1>15. ASSUME B!StartSequencer PROVE Onwards
  <2>1. MeasurementHas(n, <<"StartSequencer">>) /\ todo' = Rest(B!BspMeasureRaw, n + 1)
    BY <1>15, MeasurementCall DEF B!StartSequencer, B!MeterCall
  <2>2. n = 12
    BY <2>1 DEF MeasurementHas, UsePllHas, UseIrcHas
  <2>3. \E p \in Pll(n + 1) : clock' = ClockInMeasurement(n + 1, p)
    BY <1>2, <1>15, <2>2 DEF B!StartSequencer, B!MeterCall, ClockInMeasurement, Pll
  <2>4. meter' \in MeterType
    BY <1>15 DEF B!StartSequencer, B!MeterCall, MeterType
  <2>5. meter'.pwm = TRUE <=> n + 1 \in 8 .. 14
    BY <1>1, <1>15, <2>2 DEF B!StartSequencer, B!MeterCall, MeterType
  <2>6. Charges(n + 1)'
    BY <1>1, <1>15, <2>2 DEF B!StartSequencer, B!MeterCall, Charges, MeterType
  <2>7. Converts(n + 1)'
    BY <1>1, <1>15, <2>2 DEF B!StartSequencer, B!MeterCall, Converts, MeterType
  <2> QED
    BY <1>1, <1>15, <2>1, <2>2, <2>3, <2>4, <2>5, <2>6, <2>7
    DEF B!StartSequencer, B!MeterCall, InMeasurement
<1>16. ASSUME clock.pll = "locked", B!ClockCall(<<"AwaitPllLock">>, clock) PROVE Onwards
  <2>1. MeasurementHas(n, <<"AwaitPllLock">>) /\ todo' = Rest(B!BspMeasureRaw, n + 1)
    BY <1>16, MeasurementCall DEF B!ClockCall
  <2>2. n = 2
    BY <2>1 DEF MeasurementHas, UsePllHas, UseIrcHas
  <2>3. \E p \in Pll(n + 1) : clock' = ClockInMeasurement(n + 1, p)
    BY <1>2, <1>16, <2>2 DEF B!ClockCall, ClockInMeasurement, Pll
  <2>4. meter' = meter /\ Charges(n + 1)' /\ Converts(n + 1)'
    BY <1>1, <1>16, <2>2 DEF B!ClockCall, Charges, Converts, MeterType
  <2> QED
    BY <1>1, <1>16, <2>1, <2>2, <2>3, <2>4 DEF B!ClockCall, InMeasurement
<1>17. ASSUME meter.wktFlag, B!MeterCall(<<"AwaitWkt">>, meter) PROVE Onwards
  <2>1. MeasurementHas(n, <<"AwaitWkt">>) /\ todo' = Rest(B!BspMeasureRaw, n + 1)
    BY <1>17, MeasurementCall DEF B!MeterCall
  <2>2. n = 10
    BY <2>1 DEF MeasurementHas, UsePllHas, UseIrcHas
  <2>3. \E p \in Pll(n + 1) : clock' = ClockInMeasurement(n + 1, p)
    BY <1>2, <1>17, <2>2 DEF B!MeterCall, ClockInMeasurement, Pll
  <2>4. meter' = meter /\ Charges(n + 1)' /\ Converts(n + 1)'
    BY <1>1, <1>17, <2>2 DEF B!MeterCall, Charges, Converts, MeterType
  <2> QED
    BY <1>1, <1>17, <2>1, <2>2, <2>3, <2>4 DEF B!MeterCall, InMeasurement
<1>18. ASSUME meter.adcFlag, B!MeterCall(<<"AwaitAdc">>, meter) PROVE Onwards
  <2>1. MeasurementHas(n, <<"AwaitAdc">>) /\ todo' = Rest(B!BspMeasureRaw, n + 1)
    BY <1>18, MeasurementCall DEF B!MeterCall
  <2>2. n = 13
    BY <2>1 DEF MeasurementHas, UsePllHas, UseIrcHas
  <2>3. \E p \in Pll(n + 1) : clock' = ClockInMeasurement(n + 1, p)
    BY <1>2, <1>18, <2>2 DEF B!MeterCall, ClockInMeasurement, Pll
  <2>4. meter' = meter /\ Charges(n + 1)' /\ Converts(n + 1)'
    BY <1>1, <1>18, <2>2 DEF B!MeterCall, Charges, Converts, MeterType
  <2> QED
    BY <1>1, <1>18, <2>1, <2>2, <2>3, <2>4 DEF B!MeterCall, InMeasurement
<1>19. ASSUME B!GetDataReg PROVE Onwards
  <2>1. MeasurementHas(n, <<"GetDataReg">>) /\ todo' = Rest(B!BspMeasureRaw, n + 1)
    BY <1>19, MeasurementCall DEF B!GetDataReg
  <2>2. n = 21
    BY <2>1 DEF MeasurementHas, UsePllHas, UseIrcHas
  <2>3. \E p \in Pll(n + 1) : clock' = ClockInMeasurement(n + 1, p)
    BY <1>2, <1>19, <2>2 DEF B!GetDataReg, ClockInMeasurement, Pll
  <2>4. meter.good = TRUE
    BY <1>1, <2>2 DEF Converts
  <2> QED
    BY <1>1, <1>19, <2>1, <2>2, <2>3, <2>4 DEF B!GetDataReg, InMeasurement, Charges, Converts
<1>20. ~B!SetSystemPLLSource("irc")
  <2>1. B!SetSystemPLLSource("irc") => MeasurementHas(n, <<"SetSystemPLLSource", "irc">>)
    BY MeasurementCall DEF B!SetSystemPLLSource, B!ClockCall
  <2> QED
    BY <2>1 DEF MeasurementHas, UsePllHas, UseIrcHas
<1>21. ~B!SetupSystemPLL(4)
  <2>1. B!SetupSystemPLL(4) => MeasurementHas(n, <<"SetupSystemPLL", 4>>)
    BY MeasurementCall DEF B!SetupSystemPLL, B!ClockCall
  <2> QED
    BY <2>1 DEF MeasurementHas, UsePllHas, UseIrcHas
<1>22. ~B!CalibrateAdc
  <2>1. B!CalibrateAdc => MeasurementHas(n, <<"CalibrateAdc">>)
    BY MeasurementCall DEF B!CalibrateAdc, B!MeterCall
  <2> QED
    BY <2>1 DEF MeasurementHas, UsePllHas, UseIrcHas
<1>23. ~B!SetUARTClockDiv
  <2>1. B!SetUARTClockDiv => MeasurementHas(n, <<"SetUARTClockDiv">>)
    BY MeasurementCall DEF B!SetUARTClockDiv, B!ClockCall
  <2> QED
    BY <2>1 DEF MeasurementHas, UsePllHas, UseIrcHas
<1>24. ~B!SetBaud
  <2>1. B!SetBaud => MeasurementHas(n, <<"SetBaud">>)
    BY MeasurementCall DEF B!SetBaud, B!ClockCall
  <2> QED
    BY <2>1 DEF MeasurementHas, UsePllHas, UseIrcHas
<1> QED
  BY <1>3, <1>4, <1>5, <1>6, <1>7, <1>8, <1>9, <1>10, <1>11, <1>12, <1>13,
     <1>14, <1>15, <1>16, <1>17, <1>18, <1>19, <1>20, <1>21, <1>22, <1>23,
     <1>24 DEF B!MakeCall, B!Wait

-----------------------------------------------------------------------------
(* The steps around the calls.                                             *)

LEMMA PartsBeginAndEnd ==
  /\ Rest(B!Setup, 0) = B!Setup /\ Rest(B!BspMeasureRaw, 0) = B!BspMeasureRaw
  /\ Rest(B!Setup, 11) = <<>> /\ Rest(B!BspMeasureRaw, 22) = <<>>
  /\ \A n \in 0 .. 10 : Rest(B!Setup, n) # <<>>
  /\ \A n \in 0 .. 21 : Rest(B!BspMeasureRaw, n) # <<>>
<1>1. B!Setup \in Seq(Calls) /\ Len(B!Setup) = 11
  BY SetupPart
<1>2. B!BspMeasureRaw \in Seq(Calls) /\ Len(B!BspMeasureRaw) = 22
  BY MeasurementPart
<1>3. Rest(B!Setup, 0) = B!Setup /\ Rest(B!BspMeasureRaw, 0) = B!BspMeasureRaw
  BY <1>1, <1>2, SubSeqFull DEF Rest
<1>4. /\ Rest(B!Setup, 11) = <<>>
      /\ \A n \in 0 .. 10 : Rest(B!Setup, n) # <<>>
  <2>1. ASSUME NEW n \in 0 .. 11
        PROVE  /\ n = Len(B!Setup) => Rest(B!Setup, n) = <<>>
               /\ n < Len(B!Setup) => Rest(B!Setup, n) # <<>>
    <3>1. n \in 0 .. Len(B!Setup)
      BY <1>1
    <3> QED
      BY <1>1, <3>1, RestOfPart
  <2> QED
    BY <1>1, <2>1
<1>5. /\ Rest(B!BspMeasureRaw, 22) = <<>>
      /\ \A n \in 0 .. 21 : Rest(B!BspMeasureRaw, n) # <<>>
  <2>1. ASSUME NEW n \in 0 .. 22
        PROVE  /\ n = Len(B!BspMeasureRaw) => Rest(B!BspMeasureRaw, n) = <<>>
               /\ n < Len(B!BspMeasureRaw) => Rest(B!BspMeasureRaw, n) # <<>>
    <3>1. n \in 0 .. Len(B!BspMeasureRaw)
      BY <1>2
    <3> QED
      BY <1>2, <3>1, RestOfPart
  <2> QED
    BY <1>2, <2>1
<1> QED
  BY <1>3, <1>4, <1>5

(* The main loop runs after the setup and after a measurement.             *)
LEMMA ReadyAtRest ==
  ASSUME OnCourse, B!Ready
  PROVE  /\ clock = ClockInSetup(11) /\ core = B!IrcRate /\ iap # "wrong"
         /\ InSetup(11) \/ InMeasurement(22)
<1>1. InFirmware /\ todo = <<>>
  BY DEF OnCourse, InBootloader, B!Ready
<1>2. ASSUME NEW n \in 0 .. 11, InSetup(n) PROVE n = 11
  <2>1. Rest(B!Setup, n) = <<>>
    BY <1>1, <1>2 DEF InSetup
  <2>2. n \notin 0 .. 10
    BY <2>1, PartsBeginAndEnd
  <2> QED
    BY <2>2
<1>3. ASSUME NEW n \in 0 .. 22, InMeasurement(n) PROVE n = 22
  <2>1. Rest(B!BspMeasureRaw, n) = <<>>
    BY <1>1, <1>3 DEF InMeasurement
  <2>2. n \notin 0 .. 21
    BY <2>1, PartsBeginAndEnd
  <2> QED
    BY <2>2
<1>4. InSetup(11) \/ InMeasurement(22)
  BY <1>1, <1>2, <1>3 DEF InFirmware
<1>5. CASE InSetup(11)
  BY <1>1, <1>5 DEF InSetup, InFirmware
<1>6. CASE InMeasurement(22)
  <2>1. PICK pll \in Pll(22) : clock = ClockInMeasurement(22, pll)
    BY <1>6 DEF InMeasurement
  <2>2. pll = "down"
    BY DEF Pll
  <2>3. ClockInMeasurement(22, "down") = ClockInSetup(11)
    BY DEF ClockInMeasurement, ClockInSetup
  <2>4. core = B!IrcRate
    BY <1>6 DEF InMeasurement
  <2> QED
    BY <1>1, <1>6, <2>1, <2>2, <2>3, <2>4 DEF InFirmware
<1> QED
  BY <1>4, <1>5, <1>6

LEMMA StartsOnCourse == B!Init => OnCourse
<1> SUFFICES ASSUME B!Init PROVE OnCourse
  OBVIOUS
<1>1. meter \in MeterType
  BY DEF B!Init, B!MeterAfterReset, MeterType
<1> QED
  BY <1>1 DEF B!Init, OnCourse, InBootloader

LEMMA ResetOnCourse == ASSUME B!Reset PROVE OnCourse'
<1>1. B!MeterAfterReset \in MeterType
  BY DEF B!MeterAfterReset, MeterType
<1> QED
  BY <1>1 DEF B!Reset, OnCourse, InBootloader

(* A call is made in the firmware only.                                    *)
LEMMA CallOnCourse == ASSUME OnCourse, B!MakeCall PROVE OnCourse'
<1>1. meter \in MeterType /\ InFirmware
  <2>1. todo # <<>>
    BY DEF B!MakeCall, B!SetMainClockSource, B!SetSysClockDiv, B!SetFLASHAccess,
       B!SetSystemPLLSource, B!SetupSystemPLL, B!PowerDownPll, B!PowerUpPll, B!SetPower,
       B!SetSystemCoreClock, B!SetUARTClockDiv, B!SetBaud, B!CalibrateAdc, B!StartPwm,
       B!StopPwm, B!ClearWkt, B!StartWkt, B!ClearAdcFlags, B!StartSequencer, B!Wait,
       B!GetDataReg, B!ClockCall, B!MeterCall, B!Call
  <2> QED
    BY <2>1 DEF OnCourse, InBootloader
<1>2. ASSUME NEW n \in 0 .. 11, InSetup(n) PROVE OnCourse'
  <2>1. /\ UNCHANGED <<program, iap>> /\ meter' \in MeterType
        /\ n + 1 \in 0 .. 11 /\ InSetup(n + 1)'
    BY <1>1, <1>2, SetupMakesCall
  <2> QED
    BY <1>1, <2>1 DEF OnCourse, InFirmware
<1>3. ASSUME NEW n \in 0 .. 22, InMeasurement(n) PROVE OnCourse'
  <2>1. /\ UNCHANGED <<program, iap>> /\ meter' \in MeterType
        /\ n + 1 \in 0 .. 22 /\ InMeasurement(n + 1)'
    BY <1>1, <1>3, MeasurementMakesCall
  <2> QED
    BY <1>1, <2>1 DEF OnCourse, InFirmware
<1> QED
  BY <1>1, <1>2, <1>3 DEF InFirmware

(* The hardware works in a measurement only, and for the wait that awaits  *)
(* it.                                                                     *)
LEMMA WorkInMeasurement ==
  ASSUME OnCourse, clock.pll = "starting" \/ meter.wkt # "stopped" \/ meter.adc = "converting"
  PROVE  /\ program = "firmware" /\ iap # "wrong"
         /\ \E n \in 0 .. 22 : InMeasurement(n)
<1>1. ~InBootloader
  BY DEF InBootloader, B!ClockAfterReset, B!MeterAfterReset
<1>2. ASSUME NEW n \in 0 .. 11 PROVE ~InSetup(n)
  BY DEF InSetup, ClockInSetup
<1> QED
  BY <1>1, <1>2 DEF OnCourse, InFirmware

LEMMA HardwareOnCourse == ASSUME OnCourse, B!Hardware PROVE OnCourse'
<1>1. /\ meter \in MeterType /\ program = "firmware" /\ iap # "wrong"
      /\ \E n \in 0 .. 22 : InMeasurement(n)
  BY WorkInMeasurement
     DEF OnCourse, B!Hardware, B!PllLocks, B!WktExpires, B!AdcDone
<1>2. PICK n \in 0 .. 22 : InMeasurement(n)
  BY <1>1
<1>3. PICK pll \in Pll(n) : clock = ClockInMeasurement(n, pll)
  BY <1>2 DEF InMeasurement
<1>4. /\ meter.pwm = TRUE <=> n \in 8 .. 14
      /\ Charges(n) /\ Converts(n)
  BY <1>2 DEF InMeasurement
<1>5. CASE B!PllLocks
  <2>1. n = 2
    BY <1>3, <1>5 DEF B!PllLocks, ClockInMeasurement, Pll
  <2>2. clock' = ClockInMeasurement(2, "locked") /\ "locked" \in Pll(2)
    BY <1>3, <1>5, <2>1 DEF B!PllLocks, ClockInMeasurement, Pll
  <2>3. InMeasurement(n)'
    BY <1>2, <1>5, <2>1, <2>2 DEF B!PllLocks, InMeasurement, Charges, Converts
  <2> QED
    BY <1>1, <1>5, <2>3 DEF B!PllLocks, OnCourse, InFirmware
<1>6. CASE B!WktExpires
  <2>1. n = 10 /\ meter.wkt = "charging"
    BY <1>4, <1>6 DEF B!WktExpires, Charges
  <2>2. meter.pwm = TRUE /\ clock.main = "pllout"
    BY <1>3, <1>4, <2>1 DEF ClockInMeasurement
  <2>3. meter' = [meter EXCEPT !.wkt = "stopped", !.wktFlag = TRUE, !.charged = TRUE]
    BY <1>6, <2>1, <2>2 DEF B!WktExpires, B!Excited
  <2>4. meter' \in MeterType /\ meter'.pwm = meter.pwm
    BY <1>1, <2>3 DEF MeterType
  <2>5. Charges(n)' /\ Converts(n)'
    BY <1>1, <1>4, <2>1, <2>3 DEF Charges, Converts, MeterType
  <2>6. InMeasurement(n)'
    BY <1>2, <1>6, <2>4, <2>5 DEF B!WktExpires, InMeasurement
  <2> QED
    BY <1>1, <1>6, <2>4, <2>6 DEF B!WktExpires, OnCourse, InFirmware
<1>7. CASE B!AdcDone
  <2>1. n = 13 /\ meter.charged = TRUE
    BY <1>4, <1>7 DEF B!AdcDone, Charges, Converts
  <2>2. meter.pwm = TRUE /\ clock.main = "pllout"
    BY <1>3, <1>4, <2>1 DEF ClockInMeasurement
  <2>3. meter' = [meter EXCEPT !.adc = "idle", !.adcFlag = TRUE, !.good = TRUE]
    BY <1>7, <2>1, <2>2 DEF B!AdcDone, B!Excited
  <2>4. meter' \in MeterType /\ meter'.pwm = meter.pwm
    BY <1>1, <2>3 DEF MeterType
  <2>5. Charges(n)' /\ Converts(n)'
    BY <1>1, <1>4, <2>1, <2>3 DEF Charges, Converts, MeterType
  <2>6. InMeasurement(n)'
    BY <1>2, <1>7, <2>4, <2>5 DEF B!AdcDone, InMeasurement
  <2> QED
    BY <1>1, <1>7, <2>4, <2>6 DEF B!AdcDone, OnCourse, InFirmware
<1> QED
  BY <1>5, <1>6, <1>7 DEF B!Hardware

(* The bootloader starts the firmware at its setup.                        *)
LEMMA StartOnCourse == ASSUME OnCourse, B!StartFirmware PROVE OnCourse'
<1>1. meter \in MeterType /\ InBootloader
  BY DEF OnCourse, InFirmware, B!StartFirmware
<1>2. ClockInSetup(0) = B!ClockAfterReset
  BY DEF ClockInSetup, B!ClockAfterReset
<1>3. InSetup(0)'
  BY <1>1, <1>2, PartsBeginAndEnd
     DEF B!StartFirmware, InBootloader, InSetup, B!MeterAfterReset
<1> QED
  BY <1>1, <1>3 DEF B!StartFirmware, OnCourse, InFirmware

(* A flash command of the firmware is given the rate of its clock.         *)
LEMMA IapOnCourse == ASSUME OnCourse, B!IapCommand PROVE OnCourse'
<1>1. UNCHANGED <<program, todo, core, clock, meter, reading>>
  BY DEF B!IapCommand
<1>2. CASE InBootloader
  BY <1>1, <1>2 DEF OnCourse, InBootloader
<1>3. CASE InFirmware
  <2>1. B!Ready
    BY <1>3 DEF B!IapCommand, InFirmware
  <2>2. clock = ClockInSetup(11) /\ core = B!IrcRate
    BY <2>1, ReadyAtRest
  <2>3. B!GetSystemClockRate = core
    BY <2>2 DEF B!GetSystemClockRate, B!GetMainClockRate, ClockInSetup, B!IrcRate
  <2>4. iap' = "right"
    BY <2>3 DEF B!IapCommand
  <2>5. ASSUME NEW n \in 0 .. 11, InSetup(n) PROVE InSetup(n)'
    BY <1>1, <2>5 DEF InSetup
  <2>6. ASSUME NEW n \in 0 .. 22, InMeasurement(n) PROVE InMeasurement(n)'
    BY <1>1, <2>6 DEF InMeasurement, Charges, Converts
  <2> QED
    BY <1>1, <1>3, <2>4, <2>5, <2>6 DEF OnCourse, InFirmware
<1> QED
  BY <1>2, <1>3 DEF OnCourse

LEMMA MeasurementStarts == ASSUME OnCourse, B!StartMeasurement PROVE OnCourse'
<1>1. clock = ClockInSetup(11) /\ iap # "wrong" /\ InSetup(11)
  BY ReadyAtRest DEF B!StartMeasurement, InMeasurement
<1>2. ClockInMeasurement(0, "down") = ClockInSetup(11) /\ "down" \in Pll(0)
  BY DEF ClockInMeasurement, ClockInSetup, Pll
<1>3. InMeasurement(0)'
  BY <1>1, <1>2, PartsBeginAndEnd
     DEF B!StartMeasurement, InSetup, InMeasurement, Charges, Converts
<1> QED
  BY <1>1, <1>3 DEF B!StartMeasurement, B!Ready, OnCourse, InFirmware

LEMMA MeasurementEnds == ASSUME OnCourse, B!ReturnMeasurement PROVE OnCourse'
<1>1. clock = ClockInSetup(11) /\ iap # "wrong" /\ InMeasurement(22) /\ core = B!IrcRate
  BY ReadyAtRest DEF B!ReturnMeasurement, InSetup
<1>2. meter \in MeterType /\ meter.wkt = "stopped" /\ meter.adc = "idle" /\ meter.pwm = FALSE
  BY <1>1 DEF OnCourse, MeterType, InMeasurement, Charges, Converts
<1>3. InSetup(11)'
  BY <1>1, <1>2, PartsBeginAndEnd DEF B!ReturnMeasurement, B!Ready, InSetup
<1> QED
  BY <1>1, <1>2, <1>3 DEF B!ReturnMeasurement, B!Ready, OnCourse, InFirmware

LEMMA UnitOnCourse == OnCourse /\ [UnitNext]_<<vars, board>> => OnCourse'
<1> SUFFICES ASSUME OnCourse, [UnitNext]_<<vars, board>> PROVE OnCourse'
  OBVIOUS
<1>1. CASE UNCHANGED board
  BY <1>1 DEF board, OnCourse, InBootloader, InFirmware, InSetup, InMeasurement,
     Charges, Converts
<1>2. CASE BoardStep
  BY <1>2, StartOnCourse, CallOnCourse, HardwareOnCourse DEF BoardStep
<1>3. CASE SwapImages
  BY <1>3, IapOnCourse DEF SwapImages
<1>4. CASE CallMeasurement
  BY <1>4, MeasurementStarts DEF CallMeasurement
<1>5. ASSUME NEW raw \in Raw, MeasurementReturns(raw) PROVE OnCourse'
  BY <1>5, MeasurementEnds DEF MeasurementReturns
<1>6. ASSUME NEW refused \in BOOLEAN, Write(refused) PROVE OnCourse'
  BY <1>1, <1>6, IapOnCourse DEF Write
<1>7. CASE SlaveStep
  BY <1>1, <1>7 DEF SlaveStep
<1>8. CASE Restart
  BY <1>8, ResetOnCourse DEF Restart
<1> QED
  BY <1>1, <1>2, <1>3, <1>4, <1>5, <1>6, <1>7, <1>8 DEF UnitNext

LEMMA UnitAlwaysOnCourse == UnitSpec => []OnCourse
<1>1. UnitInit => OnCourse
  BY StartsOnCourse DEF UnitInit
<1> QED
  BY <1>1, UnitOnCourse, PTL DEF UnitSpec

-----------------------------------------------------------------------------

(* No instruction is fetched at a clock the flash is not set for: at every *)
(* call of the setup and of a measurement the flash timing, the PLL and    *)
(* the power profile suit the system clock.                                *)
THEOREM UnitFlashInTime == UnitSpec => []ClockFits
<1>1. OnCourse => ClockFits
  <2>1. CASE InBootloader
    BY <2>1 DEF InBootloader, B!ClockAfterReset, ClockFits, B!ClockFits,
       B!GetSystemClockRate, B!GetMainClockRate, B!MHz, B!IrcRate
  <2>2. ASSUME NEW n \in 0 .. 11, InSetup(n) PROVE ClockFits
    BY <2>2 DEF InSetup, ClockInSetup, ClockFits, B!ClockFits,
       B!GetSystemClockRate, B!GetMainClockRate, B!MHz, B!IrcRate
  <2>3. ASSUME NEW n \in 0 .. 22, InMeasurement(n) PROVE ClockFits
    <3>1. PICK pll \in Pll(n) : clock = ClockInMeasurement(n, pll)
      BY <2>3 DEF InMeasurement
    <3> QED
      BY <3>1 DEF Pll, ClockInMeasurement, ClockFits, B!ClockFits, B!GetSystemClockRate,
         B!GetMainClockRate, B!GetSystemPLLOutClockRate, B!GetSystemPLLInClockRate,
         B!MHz, B!IrcRate
  <2> QED
    BY <2>1, <2>2, <2>3 DEF OnCourse, InFirmware
<1> QED
  BY <1>1, UnitAlwaysOnCourse, PTL

(* Whenever a register is accessed or a response is sent, the clocks are   *)
(* the normal ones, SystemCoreClock and the baud rate are right, and no    *)
(* flash command was given a wrong rate.                                   *)
THEOREM UnitClocksRestored == UnitSpec => []ClockRestored
<1>1. OnCourse => ClockRestored
  <2> SUFFICES ASSUME OnCourse, B!Ready
               PROVE  /\ core = B!GetSystemClockRate /\ core = B!IrcRate
                      /\ clock.pll = "down" /\ clock.flash = 20 /\ ~meter.pwm
                      /\ 50 * B!BaudError <= B!Baudrate
                      /\ iap # "wrong"
    BY DEF ClockRestored, B!ClockRestored
  <2>1. /\ clock = ClockInSetup(11) /\ core = B!IrcRate /\ iap # "wrong"
        /\ InSetup(11) \/ InMeasurement(22)
    BY ReadyAtRest
  <2>2. ~meter.pwm
    BY <2>1 DEF OnCourse, MeterType, InSetup, InMeasurement
  <2>3. B!GetSystemClockRate = B!IrcRate /\ clock.pll = "down" /\ clock.flash = 20
    BY <2>1 DEF B!GetSystemClockRate, B!GetMainClockRate, ClockInSetup, B!IrcRate
  <2>4. 50 * B!BaudError <= B!Baudrate
    BY <2>1 DEF B!BaudError, B!GetUSARTNBaseClockRate, B!GetMainClockRate, ClockInSetup,
       B!IrcRate, B!Baudrate
  <2> QED
    BY <2>1, <2>2, <2>3, <2>4
<1> QED
  BY <1>1, UnitAlwaysOnCourse, PTL

(* Every reading was converted from a capacitor charged for the full delay *)
(* of its own measurement, whatever flags were left before.                *)
THEOREM UnitSamplesCharged == UnitSpec => []SampledWhenCharged
<1>1. OnCourse => SampledWhenCharged
  BY DEF OnCourse, InBootloader, InFirmware, InSetup, InMeasurement,
     SampledWhenCharged, B!SampledWhenCharged
<1> QED
  BY <1>1, UnitAlwaysOnCourse, PTL

=============================================================================
