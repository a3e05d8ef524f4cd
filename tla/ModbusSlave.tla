---------------------------- MODULE ModbusSlave ----------------------------
(***************************************************************************)
(* The execution of a request: Slave (src/src/modbus/slave.cc) on the      *)
(* registers of ModbusData (src/src/modbus_data.cc).                       *)
(*                                                                         *)
(* A request is what the slave reads out of a frame: is it addressed to    *)
(* the unit, its function code, the fields after it that are there in      *)
(* full, and whether a lone byte is left behind them.  Registers and their *)
(* contents are 16-bit words.  Every access to a register is a step.  What *)
(* the firmware update does with a register write is in FwUpdate; here it  *)
(* may refuse a command.                                                   *)
(***************************************************************************)
EXTENDS Integers, Sequences

CONSTANTS
  WordMod,     \* number of words, 2^16
  ByteMod,     \* number of bytes, 2^8
  Capacity,    \* capacity of modbus::Buffer in bytes
  MaxRead,     \* most registers of a read, 0x7D
  MaxWrite,    \* most registers of a write, 0x7B
  VersionReg,  \* 0x80
  ResetReg,    \* 0x100
  FwBase,      \* 0x8000
  FwCommand,   \* kCommandRegister, counted from FwBase
  Version,     \* the version word
  Raw,         \* what BspMeasureRaw may return
  Request      \* the requests that may arrive

Word == 0 .. WordMod - 1

Function == {"read", "write", "writeMultiple", "other", "missing"}

AnyRequest == [mine : BOOLEAN, fn : Function, fields : Seq(Word), rest : BOOLEAN]

ASSUME RegisterAssumption ==
  /\ WordMod \in Nat \ {0} /\ FwBase \in Word /\ FwBase + FwCommand \in Word
  /\ {VersionReg, ResetReg} \subseteq 4 .. FwBase - 1 /\ VersionReg # ResetReg
  /\ FwCommand \in Nat /\ Version \in Word
  /\ Raw \subseteq [high : Word, low : Word, diodes : Word]

ASSUME LengthAssumption ==
  /\ {MaxRead, MaxWrite, Capacity, ByteMod} \subseteq Nat
  /\ 2 * MaxRead < ByteMod /\ 2 * MaxRead + 5 <= Capacity /\ 8 <= Capacity

ASSUME RequestAssumption ==
  Request \subseteq AnyRequest

VARIABLES
  pc,         \* where UpdateModbus is
  data,       \* ModbusData: reset_, measurement_, measurement_available_
  request,    \* the request to be executed
  exception,  \* what its handler returns
  values,     \* the registers it read
  writes,     \* the registers it wrote, with their contents, in order
  samples,    \* the measurements it took
  response,   \* what Execute made of it
  before      \* ModbusData::reset_ when the request came

vars == <<pc, data, request, exception, values, writes, samples, response, before>>

NoRequest  == [mine |-> FALSE, fn |-> "missing", fields |-> <<>>, rest |-> FALSE]
NoResponse == [kind |-> "none"]

Init ==
  /\ pc = "listening"
  /\ data \in [reset : {FALSE}, measurement : Raw, available : {FALSE}]
  /\ request = NoRequest /\ exception = "ok" /\ response = NoResponse
  /\ values = <<>> /\ writes = <<>> /\ samples = <<>>
  /\ before = FALSE

-----------------------------------------------------------------------------
\* Registers read or written so far: i in the handlers.
Done == IF request.fn = "read" THEN Len(values) ELSE Len(writes)

-----------------------------------------------------------------------------
(* Slips the runs must notice, each put in the place of the definition it  *)
(* resembles.                                                              *)

\* The measurement is kept for the next request.
ForgetfulCompleted(d) == d

\* Wider than the register.
WideReadings(raw) == <<raw.high + raw.diodes - raw.low, raw.high, raw.low, raw.diodes>>

\* The index is not added to the starting address.
StuckAddress == request.fields[1]

\* Any write to the reset register asks for a reset.
ResetWritten(word) == TRUE

\* One register too many.
LongReadOk(quantity) == quantity >= 1 /\ quantity <= MaxRead + 1

\* The byte count is taken for the first word.
EarlyField == Done + IF request.fn = "write" THEN 2 ELSE 3

\* A lone byte at the end is overlooked.
LaxAtEnd(req) ==
  Len(req.fields) = IF req.fn = "writeMultiple" THEN 3 + req.fields[2] ELSE 2

-----------------------------------------------------------------------------
(* Slave::Execute, up to the first register: address, function code, and   *)
(* what a handler checks before it touches a register.                     *)

Header(fn) == IF fn = "writeMultiple" THEN 3 ELSE 2

ReadQuantityOk(quantity) == quantity >= 1 /\ quantity <= MaxRead

WriteQuantityOk(quantity, count) ==
  quantity >= 1 /\ quantity <= MaxWrite /\ count = 2 * quantity

QuantityOk(req) ==
  CASE req.fn = "read" -> ReadQuantityOk(req.fields[2])
    [] req.fn = "writeMultiple" -> WriteQuantityOk(req.fields[2], req.fields[3])
    [] OTHER -> TRUE

Checked(req) ==
  IF req.fn = "other" THEN "illegal function"
  ELSE IF Len(req.fields) < Header(req.fn) THEN "invalid frame"
  ELSE IF ~QuantityOk(req) THEN "illegal data value" ELSE "ok"

\* For another unit, or without a function code: Complete() is not called.
Ignore ==
  /\ pc = "execute" /\ pc' = "answer"
  /\ ~request.mine \/ request.fn = "missing"
  /\ UNCHANGED <<data, request, exception, values, writes, samples, response, before>>

Begin ==
  /\ pc = "execute"
  /\ request.mine /\ request.fn # "missing"
  /\ exception' = Checked(request)
  /\ pc' = IF Checked(request) = "ok" THEN "registers" ELSE "complete"
  /\ UNCHANGED <<data, request, values, writes, samples, response, before>>

-----------------------------------------------------------------------------
(* The loops over the registers, and ModbusData behind them.               *)

Quantity(req) == IF req.fn = "write" THEN 1 ELSE req.fields[2]

InLoop(fns) == pc = "registers" /\ request.fn \in fns /\ Done < Quantity(request)

Address == (request.fields[1] + Done) % WordMod

\* The handler returns an exception.
Fail(code) == pc' = "complete" /\ exception' = code

\* The measurement registers: the 16-bit sum and the three ADC results.
Readings(raw) ==
  <<(raw.high - raw.low + raw.diodes) % WordMod, raw.high, raw.low, raw.diodes>>

NeedsMeasurement == InLoop({"read"}) /\ Address < 4 /\ ~data.available

\* raw is what BspMeasureRaw returns.
Measure(raw) ==
  /\ NeedsMeasurement
  /\ data' = [data EXCEPT !.measurement = raw, !.available = TRUE]
  /\ samples' = Append(samples, raw)
  /\ UNCHANGED <<pc, request, exception, values, writes, response, before>>

Readable == 0 .. 3 \cup {VersionReg, ResetReg}

\* version is the version word of the program that runs.
Contents(reg, version) ==
  IF reg < 4 THEN Readings(data.measurement)[reg + 1]
  ELSE IF reg = VersionReg THEN version
  ELSE IF data.reset THEN 1 ELSE 0

ReadRegister(version) ==
  /\ InLoop({"read"}) /\ ~NeedsMeasurement
  /\ IF Address \in Readable
       THEN /\ values' = Append(values, Contents(Address, version))
            /\ UNCHANGED <<pc, exception>>
       ELSE Fail("illegal data address") /\ UNCHANGED values
  /\ UNCHANGED <<data, request, writes, samples, response, before>>

\* reset_ = data
ResetAsked(word) == word # 0

Writable == {ResetReg} \cup FwBase .. WordMod - 1

\* The word to be written next is this field, if the frame has it.
NextField == Done + IF request.fn = "write" THEN 2 ELSE 4

NextWord == request.fields[NextField]

\* A command of the firmware update may be refused after it took effect.
WriteRegister(refused) ==
  /\ InLoop({"write", "writeMultiple"})
  /\ IF Len(request.fields) < NextField
       THEN Fail("invalid frame") /\ UNCHANGED <<data, writes>>
     ELSE IF Address \notin Writable
       THEN Fail("illegal data address") /\ UNCHANGED <<data, writes>>
     ELSE /\ writes' = Append(writes, <<Address, NextWord>>)
          /\ data' = IF Address = ResetReg
                       THEN [data EXCEPT !.reset = ResetAsked(NextWord)] ELSE data
          /\ IF refused /\ Address = FwBase + FwCommand
               THEN Fail("illegal data address") ELSE UNCHANGED <<pc, exception>>
  /\ UNCHANGED <<request, values, samples, response, before>>

-----------------------------------------------------------------------------
(* The end of Slave::Execute.                                              *)

\* ModbusData::Complete.
Completed(d) == [d EXCEPT !.available = FALSE]

\* The fields a handler that succeeds has consumed.
Consumed(req) == IF req.fn = "writeMultiple" THEN 3 + req.fields[2] ELSE 2

AtEnd(req) == Len(req.fields) = Consumed(req) /\ ~req.rest

Answer(req) ==
  IF exception = "invalid frame" THEN NoResponse
  ELSE IF exception # "ok" THEN [kind |-> "exception", code |-> exception]
  ELSE IF ~AtEnd(req) THEN NoResponse   \* although it has been executed
  ELSE IF req.fn = "read" THEN [kind |-> "values", count |-> (2 * req.fields[2]) % ByteMod]
  ELSE [kind |-> "written", first |-> req.fields[1], second |-> req.fields[2]]

Complete ==
  /\ pc = "complete" \/ (pc = "registers" /\ Done = Quantity(request))
  /\ pc' = "answer"
  /\ data' = Completed(data)
  /\ response' = Answer(request)
  /\ UNCHANGED <<request, exception, values, writes, samples, before>>

-----------------------------------------------------------------------------
(* UpdateModbus in main.cc, whose request and response are gone when it    *)
(* returns.                                                                *)

TakeRequest(arriving) ==
  /\ pc = "listening" /\ pc' = "execute"
  /\ request' \in arriving
  /\ UNCHANGED <<data, exception, values, writes, samples, response, before>>

Return ==
  /\ pc = "answer" /\ pc' = "listening"
  /\ request' = NoRequest /\ exception' = "ok" /\ response' = NoResponse
  /\ values' = <<>> /\ writes' = <<>> /\ samples' = <<>>
  /\ before' = data.reset
  /\ UNCHANGED data

Next ==
  \/ TakeRequest(Request)
  \/ Ignore \/ Begin
  \/ \E raw \in Raw : Measure(raw)
  \/ ReadRegister(Version)
  \/ \E refused \in BOOLEAN : WriteRegister(refused)
  \/ Complete \/ Return

Spec == Init /\ [][Next]_vars

-----------------------------------------------------------------------------
(* Properties.                                                             *)

(***************************************************************************)
(* Types.  The sum in register 0 wraps around at 16 bits.                  *)
(***************************************************************************)
TypeOK ==
  /\ pc \in {"listening", "execute", "registers", "complete", "answer"}
  /\ data \in [reset : BOOLEAN, measurement : Raw, available : BOOLEAN]
  /\ request \in AnyRequest
  /\ exception \in {"ok", "invalid frame", "illegal function",
                    "illegal data value", "illegal data address"}
  /\ values \in Seq(Word) /\ writes \in Seq(Word \X Word) /\ samples \in Seq(Raw)
  /\ response.kind \in {"none", "values", "written", "exception"}
  /\ before \in BOOLEAN

(***************************************************************************)
(* The measurement registers read in one request show one measurement,     *)
(* taken for that request: never an old one, never parts of two.           *)
(***************************************************************************)
ReadingsBelongTogether ==
  /\ Len(samples) <= 1
  /\ \A i \in 1 .. Len(values) :
       LET reg == (request.fields[1] + i - 1) % WordMod
       IN  reg < 4 => samples # <<>> /\ values[i] = Readings(samples[1])[reg + 1]

\* What a write request asks for.
Intended(req) ==
  IF req.fn = "write" /\ Len(req.fields) >= 2 THEN <<<<req.fields[1], req.fields[2]>>>>
  ELSE IF req.fn = "writeMultiple" /\ Len(req.fields) >= 3
    THEN [i \in 1 .. Len(req.fields) - 3 |->
            <<(req.fields[1] + i - 1) % WordMod, req.fields[3 + i]>>]
  ELSE <<>>

(***************************************************************************)
(* A request writes registers in order, from the first one on and across   *)
(* the end of the address range, and what is said of it is true: all are   *)
(* written when it is answered normally, none when its function or its     *)
(* quantity is refused; else the first one that is refused is the last one *)
(* tried, and only a command of the update may have had an effect.         *)
(***************************************************************************)
WritesInOrder ==
  /\ Len(writes) <= Len(Intended(request))
  /\ \A i \in 1 .. Len(writes) : writes[i] = Intended(request)[i]
  /\ response.kind = "written" => Len(writes) = Len(Intended(request))
  /\ response.kind = "exception" =>
       IF response.code = "illegal data address" /\ request.fn # "read"
         THEN \/ /\ Len(writes) < Len(Intended(request))
                 /\ Intended(request)[Len(writes) + 1][1] \notin {ResetReg} \cup FwBase .. WordMod
              \/ writes # <<>> /\ writes[Len(writes)][1] = FwBase + FwCommand
         ELSE writes = <<>>

\* Neither a byte is missing nor one left over.
Exact(req) ==
  /\ ~req.rest
  /\ IF req.fn = "writeMultiple"
       THEN Len(req.fields) >= 3 /\ Len(req.fields) = 3 + req.fields[2]
       ELSE Len(req.fields) = 2

(***************************************************************************)
(* Every request of a known function and the right length is answered, and *)
(* only those are answered normally.                                       *)
(***************************************************************************)
AnswersExact ==
  /\ /\ pc = "answer" /\ request.mine /\ Exact(request)
     /\ request.fn \in {"read", "write", "writeMultiple"}
     => response.kind # "none"
  /\ response.kind \in {"values", "written"} => request.mine /\ Exact(request)

\* Bytes of a response: address, function code and what follows.
ResponseLength ==
  IF response.kind = "values" THEN 3 + 2 * Len(values)
  ELSE IF response.kind = "written" THEN 6
  ELSE IF response.kind = "exception" THEN 3 ELSE 0

(***************************************************************************)
(* A response leaves room for its CRC in the buffer, as WriteFrame needs   *)
(* it to, and its byte count says how long it is.                          *)
(***************************************************************************)
ResponseFits ==
  /\ ResponseLength + 2 <= Capacity
  /\ response.kind = "values" => response.count = 2 * Len(values)

(***************************************************************************)
(* The reset flag is what the last write to the reset register made it,    *)
(* whatever comes of the request that write is in, and nothing else        *)
(* touches it.                                                             *)
(***************************************************************************)
ResetFollowsWrites ==
  LET asked == {i \in 1 .. Len(writes) : writes[i][1] = ResetReg}
  IN  IF asked = {} THEN data.reset = before
      ELSE \E i \in asked : /\ \A j \in asked : j <= i
                            /\ data.reset = (writes[i][2] # 0)

=============================================================================
