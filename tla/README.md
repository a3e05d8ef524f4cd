# Soil sensor unit: a TLA+ model of the firmware

The unit is a MODBUS RTU slave on an NXP LPC824: it measures soil moisture when
asked, and takes firmware updates over the bus, which MCUboot installs at the
next reset. This directory models its control: the framing state machine, the
serial driver's interrupts against the main loop, the execution of requests on
the register map, the clock changes of a measurement, and the firmware update
from the master's requests down to flash pages and power failures. Paths below are relative to the repository; its own code is in `src/`.

## 1. Inventory

| Component | State | Operations | Called by |
|---|---|---|---|
| Framing, `modbus/rtu_protocol*.h` | SML state, `rx_buffer_` | BusIdle, RxByte, TxDone, ReadFrame, WriteFrame | interrupt handlers; main loop |
| Serial driver, `bsp/modbus_serial.*` | `tx_active_`, `tx_data_`, `tx_data_end_`; USART and timer registers | Init, Enable, Send, UartIsr, TimerIsr (Disable is never called) | main, framing, NVIC |
| Main loop, `main.cc` | program counter, local `resp` | UpdateModbus, reset check, sleep | - |
| Slave, `modbus/slave.*` | address | Execute: read input registers, write one, write many | main loop |
| Register map, `modbus_data.*` | `measurement_`, `measurement_available_`, `reset_` | ReadRegister, WriteRegister, Complete | slave |
| Update registers, `modbus_data_fw_update.*` | `write_buffer_`, `write_offset_` | data words, kPrepare, kSetPending, kConfirm | register map |
| Bootloader adapter, `bsp/bootloader.*` | - | PrepareUpdate, WriteImageData, SetUpdatePending, SetUpdateConfirmed | update registers |
| Flash map, `boot/flash_map_backend.cc` | flash | flash_area_write, _erase, _read | adapter, MCUboot |
| Bootloader program, `boot/main.c` and MCUboot (submodule, absent) | image slots, trailers | boot_go | reset |
| Board, `bsp/bsp.cc` | clock tree, flash timing, `SystemCoreClock`, PWM, wake-up timer, ADC, NVIC | BspSetup, BspMeasureRaw, BspSleep, BspReset, BspInterruptFree | main loop, register map |
| Start-up, `bsp/startup.cc` | `.data`, `.bss` of the program that starts | Reset_Handler | reset, bootloader |
| Chip library, `lib/lpc_chip_82x` (vendored) | - | register access, IAP commands | driver, board, flash map |
| Logging, `bsp/log_rtt.cc` (never called) | - | LogFormat | - |

How they interact. The USART and the timer interrupt the main loop and report to
the framing machine (shared state, both handlers at one priority, never nested).
The main loop polls it with interrupts disabled, executes the request in the
same critical section, and hands the response back; the driver then sends it
byte by byte from interrupts, through a pointer. The reset flag in the register
map and `tx_active_` in the driver meet in the main loop. An update's words go
through RAM to flash in pages; what survives a reset is flash alone. A
measurement raises the clock of processor, USART and timer and lowers it again
inside the critical section; the flash commands of firmware and bootloader are
told the clock rate through a variable each program keeps for itself.

What is hard: the order of interrupts and main loop steps, an inter-frame timer
that races the next character, a critical section of several milliseconds in
which the hardware goes on, WFI after a test, a frame that begins while another
is unread, requests that fail half-way, lost requests and answers and power
failures during an update, and a clock that is changed under the programs' feet.
`PROJECT.json` lists each hazard at its line, with the properties on it.

What makes each component correct:

- framing: exactly the intact, valid frames are delivered, and a frame or a
  transmission is not disturbed until it is done with;
- driver and main loop: one unbroken response per request, a bus idle only after
  a silence of the inter-frame delay less at most an interrupt's latency, no lost
  response, a reset after the response;
- slave and registers: only exact requests are answered, an answer is true,
  registers read together belong to one measurement, responses fit;
- board: between any two writes to the clock tree the processor can go on, no
  flag of an earlier measurement is taken for the current one, and the normal
  clock is back before anything relies on it;
- update: every word reaches flash once and in order, all of it before the image
  is marked, a marked image runs; and what the master was answered is true.

## 2. Modules

| Module | Models | Composed of |
|---|---|---|
| `RtuProtocol` | the transition table and the public operations | - |
| `RtuLink` | the machine between an arbitrary bus and arbitrary callers, with an observer | `RtuProtocol` |
| `RequestResponse` | abstract: what the unit promises the master of the bus | - |
| `SensorNode` | main loop, both handlers, USART, timer, NVIC, bus | `RtuProtocol`; implements `RequestResponse` |
| `ModbusSlave` | Slave on ModbusData, register by register | - |
| `Board` | clock tree, measurement and start-up, call by call | - |
| `MeasuringSlave` | the slave on its board, from bootloader to restart | `ModbusSlave`, `Board` |
| `FlashMap` | flash_area_write, flash_area_erase on pages | - |
| `FwUpdate` | update registers, bootloader adapter, MCUboot, resets and power failures | `FlashMap`; `UpdateSession` implements it |
| `UpdatePromise` | abstract: what an update promises whoever starts it | - |
| `UpdateSession` | an update end to end: master, lossy bus, slave, update, power | `ModbusSlave`, `FwUpdate`; implements `UpdatePromise` |
| `RtuProtocolProofs`, `RtuLinkProofs`, `SensorNodeProofs`, `ModbusSlaveProofs`, `MeasuringSlaveProofs`, `FwUpdateProofs`, `UpdateSessionProofs` | theorems | the module of that name |
| `UpdateOutcomeProofs` | theorems on what the master may conclude | `UpdateSessionProofs`, `FwUpdateProofs` |
| `MC...` | instances for TLC | the module of that name |

### Correspondence

**RtuProtocol.** `rtu` is the SML state and `rx_buffer_`, `serial` what Send was
last given. The events are operators on `rtu`, because `UartIsr` may report two
in one go. The guard `crc_ok` is written as what it is, a test (`CrcOk`) and a
cut (`CutCrc`), and `EndOfFrame` tries the two rows of BusIdle in order, each
with an evaluation of its own. `Crc` is a parameter: nothing depends on which
function it is.

**RtuLink.** The observer keeps the bytes since the last bus idle (`run`), and
whether the machine could follow them (`listened`), they were sound (`intact`)
and some came at a bad time (`missed`).

**SensorNode.** Each `pc` is a place in `main()` where interrupts may come in;
`execute`, `measure` and `measured` are the critical section of UpdateModbus. `UartIsr` is one handler run,
split into what it does to the timer (`TimerRuns`), the machine (`RtuAfter`),
the driver (`TxAfter`), the enabled interrupts (`IntEnAfter`) and the rest of the
USART (`UartAfter`). INTSTAT is the status flags of enabled interrupts only.
The USART's transmitter is the holding and the shift register, its receiver one
data register with overrun. A byte sent is read from the dead local `resp`: if
it is still the one framed is undefined, and chosen freely.
What a request does to the registers is left open, except that it may take a
measurement (`measure`), during which the timer, clocked from the same main
clock, may expire at any moment.
The observer `gap` follows the silence of a delay: "full" if the bus was idle when
the timer was started, "short" from a start bit before the expiry, "none" once a
character has ended since. At the expiry a start bit counts as too late to matter
only if its interrupt is still unserved (`JustBegun`). Such a start and the timer's
flag may be pending together: `UartIsr` then comes first, stops the channel and
leaves the flag, and `TimerIsr` reports a bus idle amid the new character. The
delay of `rtu_protocol.h:22-26`, from a stop bit to the next start bit, is then short
by less than an interrupt's latency; `IdleMeansGap` says that it is never by more.

**ModbusSlave.** A request is the 16-bit fields found in a frame and whether a
lone byte is left. For `writeMultiple` the third field is the byte count. `pc`
follows UpdateModbus: `Begin` is all a handler checks before it touches a
register, `ReadRegister` and `WriteRegister` are one turn of its loop (`Done` is
`i`), `Measure` the call of BspMeasureRaw within one, `Complete` the end of
Slave::Execute, and `Return` the end of UpdateModbus with its locals. `values`,
`writes` and `samples` record what the handler did: the first is what a response
carries, the other two are for the properties.

**Board.** The code is straight-line, so a part of it (`UseIrc`, `UsePll`, `Setup`,
`BspMeasureRaw`) is the sequence of its calls, and `todo` what is left of it; each
call is an action on `clock` or `meter`, and a busy-wait one that needs its flag.
The rates are computed as the chip library does. Whether the capacitor is
charged is remembered from the start of the wake-up timer to its expiry
(`charged`), and whether it was when the ADC converted (`good`). `program` and
`core` tell bootloader and firmware apart: each has a SystemCoreClock of its own,
zeroed by Reset_Handler, and the jump leaves the hardware as it is. `iap` records
whether the clock rate given to the last flash command was right. The wake-up timer's peripheral clock (`bsp.cc:243, 249`) and the rate
handed to SetPower are left out: no property depends on them.

**MeasuringSlave.** ModbusSlave with `Measure` taken when BspMeasureRaw returns, and
every other step of the slave only while the board is at rest. A write to the
update registers may come with a flash command. `Restart` is main()'s reset.

**FlashMap, FwUpdate.** Offsets count 16-bit words. A cell programmed without
being erased is `Garbled`; 0xFFFF leaves it as it is. The assertions are inert
(NDEBUG) and left out. The mark that boot_set_pending writes into the trailer at the end of slot 1 is `pending`,
apart from the slot's contents. `fresh` and `received` observe a session that
began with kPrepare, padding included: `SlotHoldsSession` and `UpdateTakesEffect`
say nothing of data sent without kPrepare. kSetPending flushes the buffer and then
marks the slot (`SetPending`), and power may fail between the two
(`FlushedNotMarked`). `Boot` is MCUboot: a marked valid image
is swapped in on trial, an unconfirmed one swapped back, anything else leaves
the slots alone.

**UpdateSession.** `RegisterWritten` joins a register write of the slave with what
it does in FwUpdate, and `Commands` ties the answer of a command to its effect:
boot_set_pending and boot_set_confirmed may fail, before or after they wrote. The
version register reads the version of the image in slot 0. The master is not in
this repository; it follows the sequence of `modbus_data_fw_update_test.cc`
(kPrepare, data, kSetPending), resets, reads the version, confirms and reads it
once more. It must not repeat a data request whose answer it missed: the words
carry no number, and `AnsweredIsReceived` would be violated. Nor may it take the
answer to kConfirm for the end: after a power failure the old image answers it.

**UpdatePromise.** Four variables: which of the two images runs (`slot0`), is it on
trial, is the other one marked (`pending`), and what the master has come to
(`Phase`, from its step and from whether it sent kSetPending since kPrepare was
answered). The image changes only at a restart, by a mark or by the end of a
trial; a mark needs phase "asked", a confirmation "seen", which the master enters
by reading the new version; and "done" is entered with the new image confirmed and
nothing marked, so that no action but a restart without effect is left.

## 3. What is checked

| Run | Instance | Shows |
|---|---|---|
| `rtu_link` | one-bit bytes, buffer of 5, runs of at most 7 bytes (`MaxRun`) | types and bound of the buffer, `FollowsRun`, `FrameDelivery`, `HeldUntilDone` |
| `sensor_node` | one-bit bytes, buffer of 4, two responses | types, `ReadyToReply`, `ClockSafe`, `TxAgrees`, `IdleMeansGap`, `KeepsPromise` (refinement, with liveness), `RestartHappens` |
| `measuring_slave` | 3-bit registers and byte counts, 3 registers to a read, 2 to a write; the real clock rates | slave: `ReadingsBelongTogether`, `WritesInOrder`, `AnswersExact`, `ResponseFits`, `ResetFollowsWrites`; board: `ClockFits`, `ClockRestored`, `SampledWhenCharged` |
| `fw_update` | two pages of two words, images of three words, at most 6 words between resets (`MaxWords`) | `WholePages`, `SlotHoldsSession`, `MarkedWhenComplete`, `UpdateTakesEffect` |
| `update_session` | three pages of two words, images of five and six words in requests of three, 4 faults (`MaxFaults`) | `AnsweredIsReceived`, `AnsweredIsMarked`, `NotBeforeAsked`, `DoneIsDurable`, `KeepsPromise` (refinement of `UpdatePromise`), `UpdateSucceeds` (liveness) |

The bounds. A buffer of 5 holds a frame, a frame with two bytes behind it and
one that is too long, and 7 bytes go past it by two. The driver treats all bytes
of a response alike but the last; responses of three and four bytes have first,
middle and last ones. Eight register addresses hold each kind of register and
the wrap-around at the end, and the limits on quantities are at, below and above
what is asked. Six words are one page more than the slot; a three-word image
needs padding in its last page. A request of three words crosses a page, and one
of the images of `update_session` fills the slot while the other needs padding;
they share words, but each has one of its own (`HashAssumption`).
Four faults are a refused or lost command, a second one while the master
recovers, and a power failure after each. The
safety properties of all these runs are also proved for every size.

### Disagreements

Each of these runs checks a statement of the repository that the code does not
keep, and ends in a counterexample.

| Run | Statement | Code |
|---|---|---|
| `rtu_idle_ends_reception` | transition table, `rtu_protocol_internal.h:77-78`: a bus idle ends a reception | crc_ok cuts the buffer and is evaluated twice; a valid frame with two more bytes keeps the machine in Receiving |
| `rtu_missed_frame` | `rtu_protocol_test.cc:160, 179`: a frame that comes at a bad time is ignored | its rest is received once the machine is Idle again |
| `sensor_node_sent_as_framed` | `serial_interface.h:24-25`: data to send stays valid until TxDone | it is a local variable of a function that returns |
| `sensor_node_damaged_byte` | `modbus_serial.cc:19-21`: parity is checked when a byte is read | INTSTAT does not show it |
| `iap_clock` | `chip.h:209-212`, `bsp.cc:38`, `chip_8xx.c:53`: SystemCoreClock is the clock rate, for iap.c | in the bootloader nothing sets it; MCUboot erases and programs at "0 kHz" |
| `fw_update_reported_written` | `bootloader_interface.h:17`: true when successful | also true behind the end of the slot |
| `fw_update_reverts` | `bootloader_interface.h:25-26`: an unconfirmed image is reverted | kPrepare on trial erases the one to return to |

### Time and fairness

`SensorNode` has no clock. A character takes 573 us at 19200 baud, an inter-frame
delay 1750 us, a handler or an idle turn of the main loop a few microseconds.
Assumed is only that what takes at least a character time does not end before
the processor has come to rest after it began (`young`, cleared by `TimePasses`),
and that a character under way when the timer is started ends a character time
before the timer does (`spans`). Characters begin at any time, and a request may
be executed for as long as the hardware likes.

Fairness: weak, for handlers (the NVIC takes a pending interrupt), for the main
loop (nothing else runs), for timer and transmitter (started hardware ends) and
for the end of a character. Other stations are not obliged to send. That is why
`RestartHappens` presumes that characters keep coming: without them the unit may
sleep with a reset outstanding, as `main.cc:57-61` tests before it sleeps and an
interrupt in between is not noticed by WFI.

A measurement breaks the assumption on time, as it speeds up the timer's clock:
`TimerExpires` is free while one lasts. That no delay is running then is
`ClockSafe`, which nothing in the code sees to but the order of events.

`UpdateSession` assumes weak fairness of what the master and the unit do (`Work`):
the master has nothing else to do, the main loop runs. Faults are not fair, and
finitely many. `RtuLink`, `FwUpdate`, `ModbusSlave` and `MeasuringSlave` are safety
specifications without fairness: their callers need not do anything. What
`MeasuringSlave` waits for in busy-wait loops is hardware that was started, and
TLC finds no state in which it waits for ever.

## 4. What is proved

For every value of the constants, under the assumptions the modules name:

- `RtuLinkProofs` (`TypeCorrect`, `Following`, `Delivery`, `Holding`): the two
  invariants and two action properties of `RtuLink`, for any set of bytes, any
  capacity above 2 and any CRC function into pairs of bytes. `FollowsRun` says
  nothing of a machine that is not following, so the inductive invariant adds
  that an empty run finds the machine listening, undamaged and not amid an
  ignored run. `Delivery` follows from it at the bus idle: a followed run *is*
  the buffer, so the first evaluation of `CrcOk` decides on the run.
- `SensorNodeProofs` (`NodeTypes`, `Ready`, `MeasuresInSilence`, `Transmits`,
  `GapBeforeIdle`, `KeepsPromiseSafely`): the invariants and the action property
  of `SensorNode`, and its step simulation of `RequestResponse`. They rest on time,
  so the inductive invariant `Steady` says what the assumptions on time mean in
  each state: `TimerTiming` (while the timer runs, a character begun since has its
  start bit unserved and will stop it, and the silence was whole up to that start; after it expired, the main loop is at a
  point from which it takes the frame first), `LastByte` (the transmitter is busy
  until the processor was at rest) and `RestartTiming` (with a reset outstanding
  and the response gone, no frame comes to an end before the reset). `GapBeforeIdle`
  allows the one start bit still unserved at the expiry, and no more; without that
  allowance it is false, since the code does not exclude that start.
- `ModbusSlaveProofs` (`SlaveTypes`, `OneMeasurement`, `OrderedWrites`,
  `ExactAnswers`, `RoomForResponse`, `ResetOnRequest`): for any register map with
  `RegisterAssumption`, any limits with `LengthAssumption` and any requests. The
  invariant `Sound` joins the properties with what is true amid a request:
  `Control` (where `pc` is and what has been checked), `Accesses`, `Measuring` (the
  cache is valid exactly from the measurement to the end of the request it was
  made for) and `Exceptions` (what each code says of the registers written).
- `MeasuringSlaveProofs`, slave (`UnitTypes`, `UnitMeasuresOnce`, `UnitAnswers`):
  `Sound` is an invariant of the composition as well. The board's steps leave the
  slave alone, and a restart finds it between two requests.
- `MeasuringSlaveProofs`, board (`UnitFlashInTime`, `UnitClocksRestored`,
  `UnitSamplesCharged`): `ClockFits`, `ClockRestored` and `SampledWhenCharged`, for any
  number of measurements, restarts and flash commands, for any requests and any
  order in which the hardware sets its flags. None of the three is inductive: that
  the next write to the clock tree is safe depends on all the writes before it.
  The invariant `OnCourse` therefore says of each of the 12 points of BspSetup and
  the 23 of BspMeasureRaw (`InSetup`, `InMeasurement`: `todo` is what is left of the
  part after n calls) what clock tree, PLL and measuring hardware look like there;
  `Charges` and `Converts` leave open which flags are set, also from the measurement
  before, except where the code relies on one: cleared before the timer or the ADC
  is started, a flag found set at the end of a wait is one of this measurement.
- `FwUpdateProofs` (`UpdateTypes`, `PagesAligned`, `SlotFilled`, `MarkedComplete`,
  `UpdateRuns`): for any page size above 1, any number of pages and any set of
  images none of which begins another (`PrefixAssumption`: an image header tells
  its length). The inductive invariant `Consistent` joins the types, the page
  alignment and `SlotHoldsSession`: only because what lies behind the offset is
  erased does the next page take its data unchanged, and only because the offset
  is aligned does that page hold nothing received before.
- `UpdateSessionProofs` (`SessionImplementsUpdate`, `ReceivedAsAnswered`): every
  behaviour of the composition is one of `FwUpdate` (`Spec => U!Spec`), so that the
  results of `FwUpdateProofs` hold of the update behind slave and bus; and
  `AnsweredIsReceived`, for any image, chunk and number of faults. Its invariant
  adds to the types of what is sent (`Words`) whose turn it is (`Turn`: the request
  under way is the one the master's step asks for) and, amid a request, how far
  the unit has got (`Transfer`: `sent` plus the words written so far).
- `UpdateOutcomeProofs` (`SessionTypes`, `MarkedAsAnswered`, `StartedWhenAsked`,
  `DoneForGood`):
  `AnsweredIsMarked`, `NotBeforeAsked` and `DoneIsDurable` of `UpdateSession`, under
  `HashAssumption`: each image has a word no other has, which stands for the hash
  MCUboot checks. The assumption makes `FoundFrom` true: an image that is found in
  a slot is one that words in the slot come from. The invariants follow those
  words. `Contents`: nothing in flash is from a third image. `Marks`: from an
  answered kPrepare on nothing in slot 1 is from the old image, and only then is it
  marked, so that a mark can start none but the new one. `Complete`: what was
  answered is the whole image, which kSetPending has put into the slot (by
  `SetPendingCompletes` of `FwUpdateProofs`). `Confirmation`: how the last answers
  tie `pending`, `trial` and the version read to each other, up to "done".
  `Outcome` says when an answer is an exception. `SessionTypes` adds the types that
  the other invariants do not mention (`Types`); it rests on a version being a word
  (`SessionAssumption`), as the register it is read from is 16 bits wide.
- `UpdateOutcomeProofs`, refinement (`UpdateKeepsPromise`, `DoneIsFinal`):
  `UpdateSession` implements `UpdatePromise`, step by step (`AnswerPromised`,
  `WritePromised`, `RestartPromised`; everything else is a stutter or `Ask`). The
  steps rest on the invariants above: an answered kPrepare leaves no mark, a
  version that was read is that of the image that runs (`SeenRunning`), a restart
  swaps only by a mark or a trial (`AfterBoot`). One more invariant is needed
  (`Asked`: from the reset on the master has asked in this transfer). From the abstract
  invariant `Settled` follows that nothing changes once the master is done.

`ResponseAssumption` of `RtuLink` and `SensorNode`, that a response leaves room for
its CRC, is what `ResponseFits` checks and `RoomForResponse` proves of the slave.

Only model-checked is liveness: `RestartHappens`, `UpdateSucceeds` and the fairness
in the `KeepsPromise` of `SensorNode`. It is out of reach of the proof system, as are
ENABLED and induction over data. The rates of `Board` are not parameters but the
ones of the hardware, for TLC and for the proofs alike.

## 5. Not modelled

- MCUboot's inside: trailer, scratch area, a power failure during the swap. It
  is a submodule that is not part of the tree. Data words sent after kSetPending
  on the page with the trailer are treated as if the trailer were not there.
- ModbusSerial::Disable, which nothing calls.
- The analogue side of a measurement: which values come back is open. Pins, the
  switch matrix and the registers of PWM and ADC are constants written once.
- The assertions: NDEBUG is defined for the whole build. One of them, in
  flash_area_erase (`flash_map_backend.cc:86`, one page at a time), contradicts its
  caller `bootloader.cc:16`, which erases the slot: a build with assertions would
  stop in kPrepare.
- Logging: `log_rtt.cc` and SEGGER RTT are linked, but nothing calls LogFormat.
- Nearly all of the vendored code, which is nine tenths of the lines in the tree:
  Boost SML, CMSIS, SEGGER RTT and the drivers of the chip library for
  peripherals the firmware does not use. The functions of the chip library that
  clocks, measurement, baud rate and flash commands go through are in `Board`. Of
  the repository's own C++ nearly all control is modelled; the share of all lines
  in the tree stays small for that reason alone.
- The bytes of a frame that is overrun while a measurement lasts: its CRC decides.

## 6. Plan

Done, in this order: `RtuProtocol`/`RtuLink` (everything rests on it),
`SensorNode` with `RequestResponse` (the concurrency), `FlashMap`/`FwUpdate` (what
can cost the unit its life), `ModbusSlave`, then the clock change in `SensorNode`,
`Board` and `MeasuringSlave`, the end-to-end `UpdateSession` with `UpdatePromise`, and
proofs of each.

What could be added:

1. MCUboot's trailer in slot 1 and the swap in steps, with power failures, once
   its sources are part of the tree.
2. `SensorNode` and `ModbusSlave` in one module: bytes lost to an overrun during a
   measurement, followed into the next frame.
