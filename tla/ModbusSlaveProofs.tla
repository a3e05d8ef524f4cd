------------------------- MODULE ModbusSlaveProofs -------------------------
(***************************************************************************)
(* Proofs about ModbusSlave, for every register map, every limit on a      *)
(* request, every measurement and every request that may arrive.  Sound is *)
(* the inductive invariant: the properties, with what they need to know of *)
(* the request that is being executed (Control), of the registers touched  *)
(* (Accesses), of the measurement in ModbusData (Measuring) and of the     *)
(* reasons for an exception (Exceptions).                                  *)
(***************************************************************************)
EXTENDS ModbusSlave, SequenceTheorems, TLAPS

Control ==
  /\ pc # "answer" => response = NoResponse
  /\ pc = "listening" => request = NoRequest
  /\ pc \in {"listening", "execute"} =>
       /\ exception = "ok" /\ before = data.reset
       /\ values = <<>> /\ writes = <<>> /\ samples = <<>>
  /\ pc \in {"registers", "complete"} => request.mine /\ request.fn # "missing"
  /\ pc = "registers" =>
       exception = "ok" /\ Checked(request) = "ok" /\ Done <= Quantity(request)
  /\ pc = "complete" => exception # "ok"

Accesses ==
  /\ request.fn # "read" => values = <<>> /\ samples = <<>>
  /\ request.fn \notin {"write", "writeMultiple"} => writes = <<>>

Measuring ==
  /\ data.available <=> pc \in {"registers", "complete"} /\ samples # <<>>
  /\ data.available => samples[1] = data.measurement

\* The first register refused, or a command of the update that was.
Refused ==
  \/ /\ Len(writes) < Len(Intended(request))
     /\ Intended(request)[Len(writes) + 1][1] \notin {ResetReg} \cup FwBase .. WordMod
  \/ writes # <<>> /\ writes[Len(writes)][1] = FwBase + FwCommand

Exceptions ==
  /\ exception = "invalid frame" => ~Exact(request)
  /\ exception \in {"illegal function", "illegal data value"} => writes = <<>>
  /\ exception = "illegal data address" /\ request.fn # "read" => Refused

Sound ==
  /\ TypeOK /\ Control /\ Accesses /\ Measuring /\ Exceptions
  /\ ReadingsBelongTogether /\ WritesInOrder /\ AnswersExact
  /\ ResponseFits /\ ResetFollowsWrites

-----------------------------------------------------------------------------
(* Lemmas.                                                                 *)

(* A number within the modulus is its own remainder.                       *)
LEMMA Within ==
  ASSUME NEW n \in Nat \ {0}, NEW x \in 0 .. n - 1
  PROVE  x % n = x
  OBVIOUS

LEMMA WordModBig == WordMod \in Nat /\ WordMod > 5 /\ 0 \in Word /\ 1 \in Word
  BY RegisterAssumption DEF Word

(* A sequence one element longer.                                          *)
LEMMA Appended ==
  ASSUME NEW S, NEW s \in Seq(S), NEW x \in S
  PROVE  /\ Append(s, x) \in Seq(S) /\ Len(Append(s, x)) = Len(s) + 1
         /\ Append(s, x)[Len(s) + 1] = x
         /\ \A i \in 1 .. Len(s) : Append(s, x)[i] = s[i]
  OBVIOUS

(* What a request asks to be written, register by register.                *)
LEMMA IntendedWords ==
  ASSUME NEW req \in AnyRequest
  PROVE  /\ Intended(req) \in Seq(Word \X Word)
         /\ req.fn \notin {"write", "writeMultiple"} => Intended(req) = <<>>
         /\ req.fn = "write" /\ Len(req.fields) >= 2 =>
              /\ Len(Intended(req)) = 1
              /\ Intended(req)[1] = <<req.fields[1], req.fields[2]>>
         /\ req.fn = "writeMultiple" /\ Len(req.fields) >= 3 =>
              /\ Len(Intended(req)) = Len(req.fields) - 3
              /\ \A i \in 1 .. Len(req.fields) - 3 :
                   Intended(req)[i] =
                     <<(req.fields[1] + i - 1) % WordMod, req.fields[3 + i]>>
<1>1. req.fields \in Seq(Word) /\ Len(req.fields) \in Nat
  BY DEF AnyRequest
<1>2. CASE req.fn = "write" /\ Len(req.fields) >= 2
  <2>1. req.fields[1] \in Word /\ req.fields[2] \in Word
    BY <1>1, <1>2
  <2>2. Intended(req) = <<<<req.fields[1], req.fields[2]>>>>
    BY <1>2 DEF Intended
  <2> QED
    BY <1>2, <2>1, <2>2
<1>3. CASE req.fn = "writeMultiple" /\ Len(req.fields) >= 3
  <2> DEFINE n == Len(req.fields) - 3
             word(i) == <<(req.fields[1] + i - 1) % WordMod, req.fields[3 + i]>>
  <2>1. n \in Nat
    BY <1>1, <1>3
  <2>2. ASSUME NEW i \in 1 .. n PROVE word(i) \in Word \X Word
    <3>1. req.fields[1] \in Word /\ req.fields[3 + i] \in Word
      BY <1>1, <1>3
    <3>2. (req.fields[1] + i - 1) % WordMod \in Word
      BY <3>1, WordModBig DEF Word
    <3> QED
      BY <3>1, <3>2
  <2>3. Intended(req) = [i \in 1 .. n |-> word(i)]
    BY <1>3 DEF Intended
  <2> HIDE DEF n, word
  <2>4. /\ Intended(req) \in Seq(Word \X Word) /\ Len(Intended(req)) = n
        /\ \A i \in 1 .. n : Intended(req)[i] = word(i)
    BY <2>1, <2>2, <2>3
  <2> QED
    BY <1>3, <2>4 DEF n, word
<1>4. CASE /\ ~(req.fn = "write" /\ Len(req.fields) >= 2)
           /\ ~(req.fn = "writeMultiple" /\ Len(req.fields) >= 3)
  <2>1. Intended(req) = <<>>
    BY <1>4 DEF Intended
  <2> QED
    BY <1>4, <2>1
<1> QED
  BY <1>2, <1>3, <1>4

(* What the checks before the first register leave.                        *)
LEMMA CheckedRequest ==
  ASSUME NEW req \in AnyRequest, Checked(req) = "ok"
  PROVE  /\ req.fn # "other"
         /\ req.fn # "missing" => Len(req.fields) >= 2
         /\ req.fn = "writeMultiple" => Len(req.fields) >= 3
         /\ req.fn = "read" => req.fields[2] \in 1 .. MaxRead
         /\ req.fn = "writeMultiple" => req.fields[2] \in 1 .. MaxWrite
<1>1. req.fields \in Seq(Word) /\ Len(req.fields) \in Nat /\ req.fn \in Function
  BY DEF AnyRequest
<1>2. req.fn # "other" /\ ~(Len(req.fields) < Header(req.fn)) /\ QuantityOk(req)
  BY DEF Checked
<1>3. Len(req.fields) >= 2 /\ (req.fn = "writeMultiple" => Len(req.fields) >= 3)
  BY <1>1, <1>2 DEF Header
<1>4. req.fields[2] \in Nat
  <2>1. req.fields[2] \in Word
    BY <1>1, <1>3
  <2> QED
    BY <2>1, WordModBig DEF Word
<1> QED
  BY <1>2, <1>3, <1>4, LengthAssumption
     DEF QuantityOk, ReadQuantityOk, WriteQuantityOk

(* A request of the right length is not refused for its length.            *)
LEMMA InvalidRequest ==
  ASSUME NEW req \in AnyRequest
  PROVE  Checked(req) = "invalid frame" => ~Exact(req)
<1>1. req.fields \in Seq(Word) /\ Len(req.fields) \in Nat
  BY DEF AnyRequest
<1>2. Header(req.fn) = IF req.fn = "writeMultiple" THEN 3 ELSE 2
  BY DEF Header
<1>3. Exact(req) => ~(Len(req.fields) < Header(req.fn))
  <2> SUFFICES ASSUME Exact(req) PROVE ~(Len(req.fields) < Header(req.fn))
    OBVIOUS
  <2>1. CASE req.fn = "writeMultiple"
    <3>1. Len(req.fields) >= 3 /\ Header(req.fn) = 3
      BY <1>2, <2>1 DEF Exact
    <3> QED
      BY <1>1, <3>1
  <2>2. CASE req.fn # "writeMultiple"
    <3>1. Len(req.fields) = 2 /\ Header(req.fn) = 2
      BY <1>2, <2>2 DEF Exact
    <3> QED
      BY <3>1
  <2> QED
    BY <2>1, <2>2
<1>4. Checked(req) = "invalid frame" => Len(req.fields) < Header(req.fn)
  BY DEF Checked
<1> QED
  BY <1>3, <1>4

-----------------------------------------------------------------------------
(* The invariant is inductive.                                             *)

LEMMA NothingRequested ==
  /\ NoRequest \in AnyRequest /\ ~NoRequest.mine /\ NoRequest.fn = "missing"
  /\ Intended(NoRequest) = <<>>
<1>1. NoRequest \in AnyRequest
  BY DEF NoRequest, AnyRequest, Function
<1> QED
  BY <1>1, IntendedWords DEF NoRequest

LEMMA InitSound == Init => Sound
<1> SUFFICES ASSUME Init PROVE Sound
  OBVIOUS
<1> USE DEF Init
<1>1. /\ data \in [reset : BOOLEAN, measurement : Raw, available : BOOLEAN]
      /\ ~data.reset /\ ~data.available
  OBVIOUS
<1>2. TypeOK
  <2>1. /\ values \in Seq(Word) /\ writes \in Seq(Word \X Word) /\ samples \in Seq(Raw)
        /\ response.kind = "none"
    BY DEF NoResponse
  <2> QED
    BY <1>1, <2>1, NothingRequested DEF TypeOK
<1>3. Control /\ Accesses /\ Measuring /\ Exceptions
  BY <1>1 DEF Control, Accesses, Measuring, Exceptions, NoRequest
<1>4. ReadingsBelongTogether
  BY DEF ReadingsBelongTogether
<1>5. WritesInOrder
  BY NothingRequested DEF WritesInOrder, NoResponse
<1>6. AnswersExact /\ ResponseFits
  BY LengthAssumption DEF AnswersExact, ResponseFits, ResponseLength, NoResponse
<1>7. ResetFollowsWrites
  <2>1. 1 .. Len(writes) = {}
    OBVIOUS
  <2> QED
    BY <1>1, <2>1 DEF ResetFollowsWrites
<1> QED
  BY <1>2, <1>3, <1>4, <1>5, <1>6, <1>7 DEF Sound

LEMMA TakeRequestSound ==
  ASSUME Sound, TakeRequest(Request) PROVE Sound'
<1>1. /\ TypeOK /\ Control /\ Measuring
      /\ pc = "listening" /\ pc' = "execute" /\ request' \in AnyRequest
      /\ UNCHANGED <<data, exception, values, writes, samples, response, before>>
  BY RequestAssumption DEF Sound, TakeRequest
<1>2. /\ exception = "ok" /\ before = data.reset /\ response = NoResponse
      /\ values = <<>> /\ writes = <<>> /\ samples = <<>> /\ ~data.available
  BY <1>1 DEF Control, Measuring
<1>3. TypeOK'
  BY <1>1 DEF TypeOK
<1>4. Control' /\ Accesses' /\ Measuring' /\ Exceptions'
  BY <1>1, <1>2 DEF Control, Accesses, Measuring, Exceptions
<1>5. ReadingsBelongTogether'
  BY <1>1, <1>2 DEF ReadingsBelongTogether
<1>6. WritesInOrder'
  <2>1. Intended(request)' = Intended(request') /\ Intended(request') \in Seq(Word \X Word)
    BY <1>1, IntendedWords DEF Intended
  <2> QED
    BY <1>1, <1>2, <2>1 DEF WritesInOrder, NoResponse
<1>7. AnswersExact' /\ ResponseFits'
  BY <1>1, <1>2, LengthAssumption
     DEF AnswersExact, ResponseFits, ResponseLength, NoResponse
<1>8. ResetFollowsWrites'
  BY <1>1, <1>2 DEF ResetFollowsWrites
<1> QED
  BY <1>3, <1>4, <1>5, <1>6, <1>7, <1>8 DEF Sound

(* A request for another unit, or one to be executed: no register has been *)
(* touched yet.                                                            *)
LEMMA BeginSound ==
  ASSUME Sound, Ignore \/ Begin PROVE Sound'
<1>1. /\ TypeOK /\ Control /\ Accesses /\ Measuring /\ Exceptions
      /\ ReadingsBelongTogether /\ WritesInOrder /\ AnswersExact
      /\ ResponseFits /\ ResetFollowsWrites
  BY DEF Sound
<1>2. /\ pc = "execute" /\ pc' \in {"answer", "registers", "complete"}
      /\ UNCHANGED <<data, request, values, writes, samples, response, before>>
      /\ request \in AnyRequest
  BY <1>1 DEF Ignore, Begin, TypeOK
<1>3. /\ exception = "ok" /\ before = data.reset /\ response = NoResponse
      /\ values = <<>> /\ writes = <<>> /\ samples = <<>> /\ ~data.available
  BY <1>1, <1>2 DEF Control, Measuring
<1>4. Checked(request) \in {"ok", "illegal function", "invalid frame", "illegal data value"}
  BY DEF Checked
<1>5. TypeOK'
  BY <1>1, <1>2, <1>4 DEF TypeOK, Ignore, Begin
<1>6. Control'
  <2>1. CASE Ignore
    BY <2>1, <1>2, <1>3 DEF Ignore, Control
  <2>2. CASE Begin
    <3>1. Checked(request) = "ok" => Quantity(request) \in Nat
      <4> SUFFICES ASSUME Checked(request) = "ok" PROVE Quantity(request) \in Nat
        OBVIOUS
      <4>1. request.fn \in {"read", "write", "writeMultiple"}
        BY <1>2, <2>2, CheckedRequest DEF Begin, AnyRequest, Function
      <4> QED
        BY <1>2, <4>1, CheckedRequest, LengthAssumption DEF Quantity
    <3>2. Done' = 0
      BY <1>2, <1>3 DEF Done
    <3> QED
      BY <2>2, <1>2, <1>3, <3>1, <3>2 DEF Begin, Control, Quantity
  <2> QED
    BY <2>1, <2>2
<1>7. Accesses' /\ Measuring'
  BY <1>1, <1>2, <1>3 DEF Accesses, Measuring
<1>8. Exceptions'
  <2>1. CASE Ignore
    BY <2>1, <1>3 DEF Ignore, Exceptions
  <2>2. CASE Begin
    <3>1. Checked(request) = "invalid frame" => ~Exact(request)
      BY <1>2, InvalidRequest
    <3> QED
      BY <2>2, <1>2, <1>3, <1>4, <3>1 DEF Begin, Exceptions, Exact
  <2> QED
    BY <2>1, <2>2
<1>9. ReadingsBelongTogether'
  BY <1>2, <1>3 DEF ReadingsBelongTogether
<1>10. WritesInOrder'
  <2>1. Intended(request)' = Intended(request) /\ Intended(request) \in Seq(Word \X Word)
    BY <1>2, IntendedWords DEF Intended
  <2> QED
    BY <1>2, <1>3, <2>1 DEF WritesInOrder, NoResponse
<1>11. AnswersExact'
  BY <1>2, <1>3 DEF AnswersExact, Ignore, Begin, NoResponse
<1>12. ResponseFits' /\ ResetFollowsWrites'
  BY <1>2, <1>3, LengthAssumption
     DEF ResponseFits, ResponseLength, NoResponse, ResetFollowsWrites
<1> QED
  BY <1>5, <1>6, <1>7, <1>8, <1>9, <1>10, <1>11, <1>12 DEF Sound

LEMMA MeasureSound ==
  ASSUME Sound, NEW raw \in Raw, Measure(raw) PROVE Sound'
<1>1. /\ TypeOK /\ Control /\ Accesses /\ Measuring /\ Exceptions
      /\ ReadingsBelongTogether /\ WritesInOrder /\ AnswersExact
      /\ ResponseFits /\ ResetFollowsWrites
  BY DEF Sound
<1>2. /\ pc = "registers" /\ request.fn = "read" /\ ~data.available
      /\ Done < Quantity(request)
      /\ data' = [data EXCEPT !.measurement = raw, !.available = TRUE]
      /\ samples' = Append(samples, raw)
      /\ UNCHANGED <<pc, request, exception, values, writes, response, before>>
  BY DEF Measure, NeedsMeasurement, InLoop
<1>3. samples = <<>> /\ samples' = <<raw>>
  <2>1. samples = <<>>
    BY <1>1, <1>2 DEF Measuring
  <2> QED
    BY <1>2, <2>1
<1>4. /\ data' \in [reset : BOOLEAN, measurement : Raw, available : BOOLEAN]
      /\ data'.available /\ data'.measurement = raw /\ data'.reset = data.reset
  BY <1>1, <1>2 DEF TypeOK
<1>5. Len(samples') = 1 /\ samples' \in Seq(Raw) /\ samples'[1] = raw /\ samples' # <<>>
  BY <1>3
<1>6. TypeOK'
  BY <1>1, <1>2, <1>4, <1>5 DEF TypeOK
<1>7. Control'
  <2>1. Done' = Done
    BY <1>2 DEF Done
  <2> QED
    BY <1>1, <1>2, <2>1 DEF Control
<1>8. Accesses' /\ Measuring'
  BY <1>1, <1>2, <1>4, <1>5 DEF Accesses, Measuring
<1>9. Exceptions' /\ AnswersExact'
  BY <1>1, <1>2 DEF Exceptions, Control, AnswersExact, Exact
<1>10. ReadingsBelongTogether'
  BY <1>1, <1>2, <1>3, <1>5 DEF ReadingsBelongTogether
<1>11. WritesInOrder'
  BY <1>1, <1>2 DEF WritesInOrder, Intended
<1>12. ResponseFits' /\ ResetFollowsWrites'
  BY <1>1, <1>2, <1>4 DEF ResponseFits, ResponseLength, ResetFollowsWrites
<1> QED
  BY <1>6, <1>7, <1>8, <1>9, <1>10, <1>11, <1>12 DEF Sound

(* A register is read, or refused.                                         *)
LEMMA ReadRegisterSound ==
  ASSUME Sound, ReadRegister(Version) PROVE Sound'
<1>1. /\ TypeOK /\ Control /\ Accesses /\ Measuring /\ Exceptions
      /\ ReadingsBelongTogether /\ WritesInOrder /\ AnswersExact
      /\ ResponseFits /\ ResetFollowsWrites
  BY DEF Sound
<1>2. /\ pc = "registers" /\ request.fn = "read" /\ Done < Quantity(request)
      /\ ~(Address < 4) \/ data.available
      /\ UNCHANGED <<data, request, writes, samples, response, before>>
      /\ values \in Seq(Word) /\ Len(values) \in Nat
  <2>1. values \in Seq(Word)
    BY <1>1 DEF TypeOK
  <2>2. Len(values) \in Nat
    BY <2>1
  <2>3. ~(Address < 4) \/ data.available
    BY DEF ReadRegister, NeedsMeasurement
  <2> QED
    BY <2>1, <2>2, <2>3 DEF ReadRegister, InLoop
<1>3. /\ exception = "ok" /\ Checked(request) = "ok" /\ response = NoResponse
      /\ request.mine /\ request \in AnyRequest /\ writes = <<>>
  BY <1>1, <1>2 DEF Control, TypeOK, Accesses
<1>4. Quantity(request) \in Nat /\ Done = Len(values)
  BY <1>2, <1>3, CheckedRequest, LengthAssumption DEF Quantity, Done
<1>5. CASE Address \in Readable
  <2> DEFINE word == Contents(Address, Version)
  <2>1. values' = Append(values, word) /\ UNCHANGED <<pc, exception>>
    BY <1>5 DEF ReadRegister
  <2>2. Address \in 0 .. 3 \/ Address = VersionReg \/ Address = ResetReg
    BY <1>5 DEF Readable
  <2>3. ~(VersionReg < 4) /\ ~(ResetReg < 4)
    BY RegisterAssumption
  <2>4. Address < 4 => /\ Address \in 0 .. 3 /\ word = Readings(samples[1])[Address + 1]
                       /\ samples # <<>> /\ samples[1] \in Raw
    <3> SUFFICES ASSUME Address < 4
                 PROVE  /\ Address \in 0 .. 3 /\ word = Readings(samples[1])[Address + 1]
                        /\ samples # <<>> /\ samples[1] \in Raw
      OBVIOUS
    <3>1. Address \in 0 .. 3
      BY <2>2, <2>3
    <3>2. samples # <<>> /\ samples[1] = data.measurement /\ data.measurement \in Raw
      <4>1. data.available
        BY <1>2, <3>1
      <4>2. data.measurement \in Raw
        BY <1>1 DEF TypeOK
      <4> QED
        BY <1>1, <4>1, <4>2 DEF Measuring
    <3> QED
      BY <3>1, <3>2 DEF Contents
  <2>5. word \in Word
    <3>1. CASE Address < 4
      <4>1. PICK raw \in Raw : raw = samples[1]
        BY <2>4, <3>1
      <4>2. raw.high \in Word /\ raw.low \in Word /\ raw.diodes \in Word
        BY RegisterAssumption
      <4>3. (raw.high - raw.low + raw.diodes) % WordMod \in Word
        BY <4>2, WordModBig DEF Word
      <4> QED
        BY <2>4, <3>1, <4>1, <4>2, <4>3 DEF Readings
    <3>2. CASE ~(Address < 4)
      BY <3>2, WordModBig, RegisterAssumption DEF Contents
    <3> QED
      BY <3>1, <3>2
  <2> HIDE DEF word
  <2>6. /\ values' \in Seq(Word) /\ Len(values') = Len(values) + 1
        /\ values'[Len(values) + 1] = word
        /\ \A i \in 1 .. Len(values) : values'[i] = values[i]
    BY <1>2, <2>1, <2>5, AppendProperties
  <2>7. Done' = Done + 1
    BY <1>2, <1>4, <2>6 DEF Done
  <2>8. TypeOK'
    BY <1>1, <1>2, <2>1, <2>6 DEF TypeOK
  <2>9. Control'
    BY <1>1, <1>2, <1>4, <2>1, <2>7 DEF Control
  <2>10. Accesses' /\ Measuring' /\ Exceptions' /\ AnswersExact'
    BY <1>1, <1>2, <1>3, <2>1
       DEF Accesses, Measuring, Exceptions, AnswersExact, Exact, NoResponse
  <2>11. ReadingsBelongTogether'
    <3> DEFINE reg(i) == (request.fields[1] + i - 1) % WordMod
    <3>1. Len(samples) <= 1
      BY <1>1 DEF ReadingsBelongTogether
    <3>2. ASSUME NEW i \in 1 .. Len(values)
          PROVE  reg(i) < 4 => /\ samples # <<>>
                               /\ values[i] = Readings(samples[1])[reg(i) + 1]
      BY <1>1 DEF ReadingsBelongTogether
    <3>3. reg(Len(values) + 1) = Address
      <4>1. request.fields[1] \in Int
        <5>1. request.fields \in Seq(Word) /\ Len(request.fields) >= 2
          BY <1>2, <1>3, CheckedRequest DEF AnyRequest
        <5> QED
          BY <5>1, WordModBig DEF Word
      <4>2. request.fields[1] + (Len(values) + 1) - 1 = request.fields[1] + Done
        BY <1>2, <1>4, <4>1
      <4> QED
        BY <4>2 DEF Address
    <3> HIDE DEF reg
    <3>4. ASSUME NEW i \in 1 .. Len(values')
          PROVE  reg(i) < 4 => /\ samples # <<>>
                               /\ values'[i] = Readings(samples[1])[reg(i) + 1]
      <4>1. i \in 1 .. Len(values) \/ i = Len(values) + 1
        BY <1>2, <2>6
      <4> QED
        BY <4>1, <2>4, <2>6, <3>2, <3>3
    <3> QED
      BY <1>2, <3>1, <3>4 DEF ReadingsBelongTogether, reg
  <2>12. WritesInOrder' /\ ResponseFits' /\ ResetFollowsWrites'
    <3>1. Intended(request)' = Intended(request)
      BY <1>2 DEF Intended
    <3>2. WritesInOrder'
      BY <1>1, <1>2, <1>3, <3>1 DEF WritesInOrder, NoResponse
    <3>3. ResponseFits'
      BY <1>2, <1>3, LengthAssumption DEF ResponseFits, ResponseLength, NoResponse
    <3>4. ResetFollowsWrites'
      BY <1>1, <1>2 DEF ResetFollowsWrites
    <3> QED
      BY <3>2, <3>3, <3>4
  <2> QED
    BY <2>8, <2>9, <2>10, <2>11, <2>12 DEF Sound
<1>6. CASE Address \notin Readable
  <2>1. pc' = "complete" /\ exception' = "illegal data address" /\ values' = values
    BY <1>6 DEF ReadRegister, Fail
  <2>2. TypeOK' /\ Control' /\ Accesses' /\ Measuring' /\ Exceptions'
    BY <1>1, <1>2, <1>3, <2>1 DEF TypeOK, Control, Accesses, Measuring, Exceptions
  <2>3. ReadingsBelongTogether' /\ WritesInOrder' /\ AnswersExact'
    BY <1>1, <1>2, <1>3, <2>1
       DEF ReadingsBelongTogether, WritesInOrder, Intended, AnswersExact, NoResponse
  <2>4. ResponseFits' /\ ResetFollowsWrites'
    BY <1>1, <1>2, <2>1 DEF ResponseFits, ResponseLength, ResetFollowsWrites
  <2> QED
    BY <2>2, <2>3, <2>4 DEF Sound
<1> QED
  BY <1>5, <1>6

(* The register to be written next is the next one intended.               *)
LEMMA NextIntended ==
  ASSUME request \in AnyRequest, Checked(request) = "ok",
         request.fn \in {"write", "writeMultiple"},
         Len(writes) \in Nat, Done < Quantity(request)
  PROVE  /\ Done = Len(writes) /\ Address \in Word
         /\ Len(request.fields) < NextField => ~Exact(request)
         /\ Len(request.fields) >= NextField =>
              /\ Len(writes) < Len(Intended(request))
              /\ Intended(request)[Len(writes) + 1] = <<Address, NextWord>>
              /\ NextWord \in Word
<1>1. request.fields \in Seq(Word) /\ Len(request.fields) \in Nat
  BY DEF AnyRequest
<1>2. /\ Len(request.fields) >= 2
      /\ request.fn = "writeMultiple" => /\ Len(request.fields) >= 3
                                         /\ request.fields[2] \in 1 .. MaxWrite
  BY CheckedRequest
<1>3. Done = Len(writes)
  BY DEF Done
<1>4. request.fields[1] \in Nat /\ request.fields[1] \in Word
  <2>1. request.fields[1] \in Word
    BY <1>1, <1>2
  <2> QED
    BY <2>1, WordModBig DEF Word
<1>5. Address \in Word
  BY <1>3, <1>4, WordModBig DEF Address, Word
<1>6. CASE request.fn = "write"
  <2>1. Len(writes) = 0 /\ NextField = 2
    BY <1>3, <1>6 DEF Quantity, NextField
  <2>2. Address = request.fields[1]
    <3>1. request.fields[1] % WordMod = request.fields[1]
      BY <1>4, WordModBig, Within DEF Word
    <3>2. request.fields[1] + Done = request.fields[1]
      BY <1>3, <1>4, <2>1
    <3> QED
      BY <3>1, <3>2 DEF Address
  <2>3. request.fields[2] \in Word
    BY <1>1, <1>2
  <2>4. Len(Intended(request)) = 1 /\ Intended(request)[1] = <<Address, NextWord>>
    BY <1>2, <1>6, <2>1, <2>2, IntendedWords DEF NextWord
  <2> QED
    BY <1>1, <1>2, <1>3, <1>5, <2>1, <2>3, <2>4 DEF NextWord
<1>7. CASE request.fn = "writeMultiple"
  <2>1. NextField = Len(writes) + 4 /\ Len(writes) < request.fields[2]
    BY <1>3, <1>7 DEF Quantity, NextField
  <2>2. request.fields[2] \in Nat
    BY <1>2, <1>7, LengthAssumption
  <2>3. ASSUME Len(request.fields) < NextField PROVE ~Exact(request)
    BY <1>1, <1>7, <2>1, <2>2, <2>3 DEF Exact
  <2>4. ASSUME Len(request.fields) >= NextField
        PROVE  /\ Len(writes) < Len(Intended(request))
               /\ Intended(request)[Len(writes) + 1] = <<Address, NextWord>>
               /\ NextWord \in Word
    <3>1. /\ Len(Intended(request)) = Len(request.fields) - 3
          /\ \A i \in 1 .. Len(request.fields) - 3 :
               Intended(request)[i] = <<(request.fields[1] + i - 1) % WordMod,
                                        request.fields[3 + i]>>
      BY <1>2, <1>7, IntendedWords
    <3> DEFINE n == Len(writes) + 1
    <3>2. /\ n \in 1 .. Len(request.fields) - 3
          /\ 3 + n = NextField /\ request.fields[1] + n - 1 = request.fields[1] + Done
          /\ NextField \in 1 .. Len(request.fields)
      BY <1>1, <1>3, <1>4, <2>1, <2>4
    <3> HIDE DEF n
    <3>3. Intended(request)[n] = <<Address, NextWord>>
      BY <3>1, <3>2 DEF Address, NextWord
    <3>4. NextWord \in Word
      BY <1>1, <3>2 DEF NextWord
    <3>5. Len(writes) < Len(Intended(request))
      BY <1>1, <2>1, <2>4, <3>1
    <3> QED
      BY <3>3, <3>4, <3>5 DEF n
  <2> QED
    BY <1>3, <1>5, <2>3, <2>4
<1> QED
  BY <1>6, <1>7

(* A register is written, or refused, or missing in the frame.             *)
LEMMA WriteRegisterSound ==
  ASSUME Sound, NEW refused \in BOOLEAN, WriteRegister(refused) PROVE Sound'
<1>1. /\ TypeOK /\ Control /\ Accesses /\ Measuring /\ Exceptions
      /\ ReadingsBelongTogether /\ WritesInOrder /\ AnswersExact
      /\ ResponseFits /\ ResetFollowsWrites
  BY DEF Sound
<1>2. /\ pc = "registers" /\ request.fn \in {"write", "writeMultiple"}
      /\ Done < Quantity(request)
      /\ UNCHANGED <<request, values, samples, response, before>>
  BY DEF WriteRegister, InLoop
<1>3. /\ exception = "ok" /\ Checked(request) = "ok" /\ response = NoResponse
      /\ request.mine /\ request \in AnyRequest /\ values = <<>> /\ samples = <<>>
      /\ ~data.available
  BY <1>1, <1>2 DEF Control, TypeOK, Accesses, Measuring
<1>4. writes \in Seq(Word \X Word) /\ Len(writes) \in Nat
  <2>1. writes \in Seq(Word \X Word)
    BY <1>1 DEF TypeOK
  <2> QED
    BY <2>1
<1>5. /\ Done = Len(writes) /\ Address \in Word
      /\ Len(request.fields) < NextField => ~Exact(request)
      /\ Len(request.fields) >= NextField =>
           /\ Len(writes) < Len(Intended(request))
           /\ Intended(request)[Len(writes) + 1] = <<Address, NextWord>>
           /\ NextWord \in Word
  BY <1>2, <1>3, <1>4, NextIntended
<1>6. Len(request.fields) \in Nat /\ NextField \in Nat /\ Quantity(request) \in Nat
  <2>1. Len(request.fields) \in Nat
    BY <1>3 DEF AnyRequest
  <2>2. Quantity(request) \in Nat
    BY <1>2, <1>3, CheckedRequest, LengthAssumption DEF Quantity
  <2> QED
    BY <1>4, <1>5, <2>1, <2>2 DEF NextField
<1>7. Intended(request)' = Intended(request)
  BY <1>2 DEF Intended
<1>8. Intended(request) \in Seq(Word \X Word) /\ Len(Intended(request)) \in Nat
  <2>1. Intended(request) \in Seq(Word \X Word)
    BY <1>3, IntendedWords
  <2> QED
    BY <2>1
<1>9. ReadingsBelongTogether' /\ ResponseFits' /\ Accesses' /\ AnswersExact'
  <2>1. ReadingsBelongTogether'
    BY <1>2, <1>3 DEF ReadingsBelongTogether
  <2>2. ResponseFits'
    BY <1>2, <1>3, LengthAssumption DEF ResponseFits, ResponseLength, NoResponse
  <2>3. Accesses'
    BY <1>2, <1>3 DEF Accesses
  <2>4. pc' # "answer"
    BY <1>2 DEF WriteRegister, Fail
  <2>5. AnswersExact'
    BY <1>2, <1>3, <2>4 DEF AnswersExact, NoResponse
  <2> QED
    BY <2>1, <2>2, <2>3, <2>5
\* Nothing is written.
<1>10. CASE \/ Len(request.fields) < NextField
            \/ Address \notin Writable
  <2>1. /\ pc' = "complete" /\ UNCHANGED <<data, writes>>
        /\ \/ exception' = "invalid frame" /\ Len(request.fields) < NextField
           \/ /\ exception' = "illegal data address"
              /\ Len(request.fields) >= NextField /\ Address \notin Writable
    <3>1. CASE Len(request.fields) < NextField
      BY <3>1 DEF WriteRegister, Fail
    <3>2. CASE ~(Len(request.fields) < NextField) /\ Address \notin Writable
      <4>1. Len(request.fields) >= NextField
        BY <1>6, <3>2
      <4> QED
        BY <3>2, <4>1 DEF WriteRegister, Fail
    <3> QED
      BY <1>10, <3>1, <3>2
  <2>2. TypeOK' /\ Control' /\ Measuring'
    BY <1>1, <1>2, <1>3, <2>1 DEF TypeOK, Control, Measuring
  <2>3. Exceptions'
    <3>1. CASE exception' = "invalid frame"
      <4>1. ~Exact(request)
        BY <1>5, <2>1, <3>1
      <4> QED
        BY <1>2, <3>1, <4>1 DEF Exceptions, Exact
    <3>2. CASE exception' = "illegal data address"
      <4>1. Len(request.fields) >= NextField /\ Address \notin Writable
        BY <2>1, <3>2
      <4>2. Address \notin {ResetReg} \cup FwBase .. WordMod
        BY <1>5, <4>1, RegisterAssumption, WordModBig DEF Writable, Word
      <4>3. Intended(request)[Len(writes) + 1][1] = Address
        BY <1>5, <4>1
      <4>4. Refused'
        BY <1>5, <1>7, <2>1, <4>1, <4>2, <4>3 DEF Refused
      <4> QED
        BY <3>2, <4>4 DEF Exceptions
    <3> QED
      BY <2>1, <3>1, <3>2
  <2>4. WritesInOrder' /\ ResetFollowsWrites'
    <3>1. WritesInOrder'
      BY <1>1, <1>2, <1>3, <1>7, <2>1 DEF WritesInOrder, NoResponse
    <3>2. ResetFollowsWrites'
      BY <1>1, <1>2, <2>1 DEF ResetFollowsWrites
    <3> QED
      BY <3>1, <3>2
  <2> QED
    BY <1>9, <2>2, <2>3, <2>4 DEF Sound
\* The word is written; a command may be refused afterwards.
<1>11. CASE Len(request.fields) >= NextField /\ Address \in Writable
  <2> DEFINE word == <<Address, NextWord>>
  <2>0. ~(Len(request.fields) < NextField)
    BY <1>6, <1>11
  <2>1. word \in Word \X Word
    BY <1>5, <1>11
  <2>2. /\ writes' = Append(writes, word)
        /\ data' = IF Address = ResetReg
                     THEN [data EXCEPT !.reset = ResetAsked(NextWord)] ELSE data
        /\ \/ UNCHANGED <<pc, exception>>
           \/ /\ pc' = "complete" /\ exception' = "illegal data address"
              /\ Address = FwBase + FwCommand
    BY <2>0, <1>11 DEF WriteRegister, Fail
  <2>3. word[1] = Address /\ word[2] = NextWord
    OBVIOUS
  <2> HIDE DEF word
  <2>4. /\ writes' \in Seq(Word \X Word) /\ Len(writes') = Len(writes) + 1
        /\ writes'[Len(writes) + 1] = word
        /\ \A i \in 1 .. Len(writes) : writes'[i] = writes[i]
    <3> DEFINE S == Word \X Word
    <3>1. writes \in Seq(S) /\ word \in S /\ writes' = Append(writes, word)
      BY <1>4, <2>1, <2>2
    <3> HIDE DEF S
    <3>2. /\ writes' \in Seq(S) /\ Len(writes') = Len(writes) + 1
          /\ writes'[Len(writes) + 1] = word
          /\ \A i \in 1 .. Len(writes) : writes'[i] = writes[i]
      BY <3>1, Appended
    <3> QED
      BY <3>2 DEF S
  <2>5. /\ data' \in [reset : BOOLEAN, measurement : Raw, available : BOOLEAN]
        /\ data'.available = data.available
        /\ data'.reset = IF Address = ResetReg THEN NextWord # 0 ELSE data.reset
    <3>1. data \in [reset : BOOLEAN, measurement : Raw, available : BOOLEAN]
      BY <1>1 DEF TypeOK
    <3> QED
      BY <2>2, <3>1 DEF ResetAsked
  <2>6. TypeOK'
    BY <1>1, <1>2, <2>2, <2>4, <2>5 DEF TypeOK
  <2>7. Control'
    <3>1. Done' = Done + 1
      BY <1>2, <1>5, <2>4 DEF Done
    <3>2. pc' = "registers" => Done' <= Quantity(request)
      BY <1>2, <1>4, <1>5, <1>6, <3>1
    <3>3. pc' \in {"registers", "complete"} /\ (pc' = "registers" => exception' = "ok")
          /\ (pc' = "complete" => exception' # "ok")
      BY <1>2, <1>3, <2>2
    <3>4. request.fn # "missing" /\ Quantity(request)' = Quantity(request)
          /\ Checked(request)' = Checked(request)
      BY <1>2 DEF Quantity, Checked, QuantityOk
    <3> QED
      BY <1>2, <1>3, <3>2, <3>3, <3>4 DEF Control
  <2>8. Measuring'
    BY <1>2, <1>3, <2>5 DEF Measuring
  <2>9. Exceptions'
    <3>1. CASE exception' = "ok"
      BY <3>1 DEF Exceptions
    <3>2. CASE exception' = "illegal data address"
      <4>1. Address = FwBase + FwCommand
        BY <1>3, <2>2, <3>2
      <4>2. writes' # <<>> /\ writes'[Len(writes')][1] = FwBase + FwCommand
        BY <1>4, <2>3, <2>4, <4>1
      <4> QED
        BY <3>2, <4>2 DEF Exceptions, Refused
    <3> QED
      BY <1>3, <2>2, <3>1, <3>2
  <2>10. WritesInOrder'
    <3>1. Len(writes') <= Len(Intended(request))
      BY <1>4, <1>5, <1>8, <1>11, <2>4
    <3>2. ASSUME NEW i \in 1 .. Len(writes') PROVE writes'[i] = Intended(request)[i]
      <4>1. i \in 1 .. Len(writes) \/ i = Len(writes) + 1
        BY <1>4, <2>4
      <4>2. \A j \in 1 .. Len(writes) : writes[j] = Intended(request)[j]
        BY <1>1 DEF WritesInOrder
      <4>3. Intended(request)[Len(writes) + 1] = word
        BY <1>5, <1>11 DEF word
      <4> QED
        BY <2>4, <4>1, <4>2, <4>3
    <3>3. response'.kind = "none"
      BY <1>2, <1>3 DEF NoResponse
    <3> QED
      BY <1>7, <3>1, <3>2, <3>3 DEF WritesInOrder
  <2>11. ResetFollowsWrites'
    <3> DEFINE asked == {i \in 1 .. Len(writes) : writes[i][1] = ResetReg}
               new == {i \in 1 .. Len(writes') : writes'[i][1] = ResetReg}
    <3>1. IF asked = {} THEN data.reset = before
          ELSE \E i \in asked : /\ \A j \in asked : j <= i
                                /\ data.reset = (writes[i][2] # 0)
      BY <1>1 DEF ResetFollowsWrites
    <3>2. CASE Address = ResetReg
      <4> DEFINE last == Len(writes) + 1
      <4>1. last \in new /\ \A j \in new : j <= last
        BY <1>4, <2>3, <2>4, <3>2
      <4>2. data'.reset = (writes'[last][2] # 0)
        BY <2>3, <2>4, <2>5, <3>2
      <4>3. \E i \in new : /\ \A j \in new : j <= i
                           /\ data'.reset = (writes'[i][2] # 0)
        BY <4>1, <4>2
      <4> QED
        BY <4>1, <4>3 DEF ResetFollowsWrites
    <3>3. CASE Address # ResetReg
      <4>1. new = asked /\ \A i \in asked : writes'[i] = writes[i]
        BY <1>4, <2>3, <2>4, <3>3
      <4>2. data'.reset = data.reset /\ before' = before
        BY <1>2, <2>5, <3>3
      <4> HIDE DEF asked
      <4>3. IF new = {} THEN data'.reset = before'
            ELSE \E i \in new : /\ \A j \in new : j <= i
                                /\ data'.reset = (writes'[i][2] # 0)
        BY <3>1, <4>1, <4>2
      <4> QED
        BY <4>3 DEF ResetFollowsWrites
    <3> QED
      BY <3>2, <3>3
  <2> QED
    BY <1>9, <2>6, <2>7, <2>8, <2>9, <2>10, <2>11 DEF Sound
<1> QED
  BY <1>6, <1>10, <1>11

(* A request that passed the checks is exact when nothing is left over.    *)
LEMMA ExactAtEnd ==
  ASSUME NEW req \in AnyRequest, Checked(req) = "ok"
  PROVE  AtEnd(req) <=> Exact(req)
<1>1. req.fields \in Seq(Word) /\ Len(req.fields) \in Nat
  BY DEF AnyRequest
<1>2. CASE req.fn = "writeMultiple"
  <2>1. Len(req.fields) >= 3
    <3>1. req.fn # "missing"
      BY <1>2
    <3> QED
      BY <1>2, <3>1, CheckedRequest
  <2> QED
    BY <1>2, <2>1 DEF AtEnd, Exact, Consumed
<1>3. CASE req.fn # "writeMultiple"
  BY <1>3 DEF AtEnd, Exact, Consumed
<1> QED
  BY <1>2, <1>3

(* What the end of Execute makes of the request.                           *)
LEMMA CompleteSound == ASSUME Sound, Complete PROVE Sound'
<1>1. /\ TypeOK /\ Control /\ Accesses /\ Measuring /\ Exceptions
      /\ ReadingsBelongTogether /\ WritesInOrder /\ AnswersExact
      /\ ResponseFits /\ ResetFollowsWrites
  BY DEF Sound
<1>2. /\ pc' = "answer" /\ data' = Completed(data) /\ response' = Answer(request)
      /\ UNCHANGED <<request, exception, values, writes, samples, before>>
      /\ \/ pc = "complete" /\ exception # "ok"
         \/ /\ pc = "registers" /\ exception = "ok" /\ Checked(request) = "ok"
            /\ Done = Quantity(request)
  BY <1>1 DEF Complete, Control
<1>3. request.mine /\ request.fn # "missing" /\ request \in AnyRequest
  BY <1>1, <1>2 DEF Control, TypeOK
<1>4. /\ data' \in [reset : BOOLEAN, measurement : Raw, available : BOOLEAN]
      /\ data'.reset = data.reset /\ ~data'.available
  BY <1>1, <1>2 DEF TypeOK, Completed
<1>5. Control' /\ Accesses' /\ Measuring' /\ Exceptions'
  <2>1. Control' /\ Accesses' /\ Measuring'
    BY <1>1, <1>2, <1>3, <1>4 DEF Control, Accesses, Measuring
  <2>2. Exceptions'
    BY <1>1, <1>2 DEF Exceptions, Exact, Refused, Intended
  <2> QED
    BY <2>1, <2>2
<1>6. ReadingsBelongTogether' /\ ResetFollowsWrites'
  BY <1>1, <1>2, <1>4 DEF ReadingsBelongTogether, ResetFollowsWrites
<1>7. /\ Intended(request)' = Intended(request)
      /\ Len(writes) <= Len(Intended(request))
      /\ \A k \in 1 .. Len(writes) : writes[k] = Intended(request)[k]
  BY <1>1, <1>2 DEF Intended, WritesInOrder
<1>8. CASE pc = "complete"
  <2>1. exception # "ok"
    BY <1>2, <1>8
  <2>2. CASE exception = "invalid frame"
    <3>1. response' = NoResponse /\ ~Exact(request)
      BY <1>1, <1>2, <2>2 DEF Answer, Exceptions
    <3>2. TypeOK'
      <4>1. response'.kind = "none"
        BY <3>1 DEF NoResponse
      <4> QED
        BY <1>1, <1>2, <1>4, <4>1 DEF TypeOK
    <3>3. WritesInOrder' /\ AnswersExact'
      BY <1>2, <1>7, <3>1 DEF WritesInOrder, AnswersExact, Exact, NoResponse
    <3>4. ResponseFits'
      BY <3>1, LengthAssumption DEF ResponseFits, ResponseLength, NoResponse
    <3> QED
      BY <1>5, <1>6, <3>2, <3>3, <3>4 DEF Sound
  <2>3. CASE exception # "invalid frame"
    <3>1. response' = [kind |-> "exception", code |-> exception]
      BY <1>2, <2>1, <2>3 DEF Answer
    <3>2. response'.kind = "exception" /\ response'.code = exception
      BY <3>1
    <3>3. TypeOK'
      BY <1>1, <1>2, <1>4, <3>2 DEF TypeOK
    <3>4. WritesInOrder'
      <4>1. exception = "illegal data address" /\ request.fn # "read" => Refused
        BY <1>1 DEF Exceptions
      <4>2. ~(exception = "illegal data address" /\ request.fn # "read") => writes = <<>>
        <5>1. request.fn = "read" => writes = <<>>
          BY <1>1 DEF Accesses
        <5>2. exception \in {"illegal function", "illegal data value",
                             "illegal data address"}
          BY <1>1, <2>1, <2>3 DEF TypeOK
        <5> QED
          BY <1>1, <5>1, <5>2 DEF Exceptions
      <4> QED
        BY <1>2, <1>7, <3>2, <4>1, <4>2 DEF WritesInOrder, Refused
    <3>5. AnswersExact'
      BY <3>2 DEF AnswersExact
    <3>6. ResponseFits'
      BY <3>2, LengthAssumption DEF ResponseFits, ResponseLength
    <3> QED
      BY <1>5, <1>6, <3>3, <3>4, <3>5, <3>6 DEF Sound
  <2> QED
    BY <2>2, <2>3
<1>9. CASE pc = "registers"
  <2>1. exception = "ok" /\ Checked(request) = "ok" /\ Done = Quantity(request)
    BY <1>2, <1>9
  <2>2. AtEnd(request) <=> Exact(request)
    BY <1>3, <2>1, ExactAtEnd
  <2>3. Exact(request)' = Exact(request)
    BY <1>2 DEF Exact
  <2>4. CASE ~AtEnd(request)
    <3>1. response' = NoResponse
      BY <1>2, <2>1, <2>4 DEF Answer
    <3>2. TypeOK' /\ WritesInOrder'
      <4>1. response'.kind = "none"
        BY <3>1 DEF NoResponse
      <4>2. TypeOK'
        BY <1>1, <1>2, <1>4, <4>1 DEF TypeOK
      <4> QED
        BY <1>2, <1>7, <4>1, <4>2 DEF WritesInOrder
    <3>3. AnswersExact'
      BY <2>2, <2>3, <2>4, <3>1 DEF AnswersExact, NoResponse
    <3>4. ResponseFits'
      BY <3>1, LengthAssumption DEF ResponseFits, ResponseLength, NoResponse
    <3> QED
      BY <1>5, <1>6, <3>2, <3>3, <3>4 DEF Sound
  <2>5. CASE AtEnd(request) /\ request.fn = "read"
    <3> DEFINE n == request.fields[2]
    <3>1. n \in 1 .. MaxRead /\ Len(values) = n
      BY <1>3, <2>1, <2>5, CheckedRequest DEF Done, Quantity
    <3>2. response' = [kind |-> "values", count |-> (2 * n) % ByteMod]
      BY <1>2, <2>1, <2>5 DEF Answer
    <3> HIDE DEF n
    <3>3. (2 * n) % ByteMod = 2 * n
      <4>1. ByteMod \in Nat \ {0} /\ 2 * n \in 0 .. ByteMod - 1
        BY <3>1, LengthAssumption
      <4> QED
        BY <4>1, Within
    <3>4. response'.kind = "values" /\ response'.count = 2 * n
      BY <3>2, <3>3
    <3>5. TypeOK' /\ WritesInOrder'
      BY <1>1, <1>2, <1>4, <1>7, <3>4 DEF TypeOK, WritesInOrder
    <3>6. AnswersExact'
      BY <1>2, <1>3, <2>2, <2>3, <2>5, <3>4 DEF AnswersExact
    <3>7. ResponseFits'
      <4>1. MaxRead \in Nat /\ Capacity \in Nat /\ 2 * MaxRead + 5 <= Capacity
        BY LengthAssumption
      <4>2. 3 + 2 * n + 2 <= Capacity
        BY <3>1, <4>1
      <4> QED
        BY <1>2, <3>1, <3>4, <4>2 DEF ResponseFits, ResponseLength
    <3> QED
      BY <1>5, <1>6, <3>5, <3>6, <3>7 DEF Sound
  <2>6. CASE AtEnd(request) /\ request.fn # "read"
    <3>1. request.fn \in {"write", "writeMultiple"}
      BY <1>3, <2>1, <2>6, CheckedRequest DEF AnyRequest, Function
    <3>2. response' = [kind |-> "written", first |-> request.fields[1],
                       second |-> request.fields[2]]
      BY <1>2, <2>1, <2>6 DEF Answer
    <3>3. response'.kind = "written"
      BY <3>2
    <3>4. Len(writes) = Len(Intended(request))
      <4>1. Len(writes) = IF request.fn = "write" THEN 1 ELSE request.fields[2]
        BY <2>1, <2>6 DEF Done, Quantity
      <4>2. CASE request.fn = "write"
        <5>1. Len(request.fields) >= 2
          BY <1>3, <2>1, CheckedRequest
        <5> QED
          BY <1>3, <4>1, <4>2, <5>1, IntendedWords
      <4>3. CASE request.fn = "writeMultiple"
        <5>1. /\ Len(request.fields) >= 3 /\ request.fields[2] \in 1 .. MaxWrite
              /\ Len(request.fields) = 3 + request.fields[2]
          BY <1>3, <2>1, <2>6, <4>3, CheckedRequest DEF AtEnd, Consumed
        <5>2. Len(Intended(request)) = Len(request.fields) - 3
          BY <1>3, <4>3, <5>1, IntendedWords
        <5> QED
          BY <4>1, <4>3, <5>1, <5>2, LengthAssumption
      <4> QED
        BY <3>1, <4>2, <4>3
    <3>5. TypeOK' /\ WritesInOrder'
      BY <1>1, <1>2, <1>4, <1>7, <3>3, <3>4 DEF TypeOK, WritesInOrder
    <3>6. AnswersExact'
      BY <1>2, <1>3, <2>2, <2>3, <2>6, <3>3 DEF AnswersExact
    <3>7. ResponseFits'
      BY <3>3, LengthAssumption DEF ResponseFits, ResponseLength
    <3> QED
      BY <1>5, <1>6, <3>5, <3>6, <3>7 DEF Sound
  <2> QED
    BY <2>4, <2>5, <2>6
<1> QED
  BY <1>2, <1>8, <1>9

(* The next request starts afresh, but for the reset flag.                 *)
LEMMA ReturnSound == ASSUME Sound, Return PROVE Sound'
<1>1. TypeOK /\ Measuring
  BY DEF Sound
<1>2. /\ pc = "answer" /\ pc' = "listening" /\ data' = data
      /\ request' = NoRequest /\ exception' = "ok" /\ response' = NoResponse
      /\ values' = <<>> /\ writes' = <<>> /\ samples' = <<>>
      /\ before' = data.reset
  BY DEF Return
<1>3. ~data.available /\ data.reset \in BOOLEAN
  BY <1>1, <1>2 DEF Measuring, TypeOK
<1>4. TypeOK'
  <2>1. /\ data' \in [reset : BOOLEAN, measurement : Raw, available : BOOLEAN]
        /\ values' \in Seq(Word) /\ writes' \in Seq(Word \X Word) /\ samples' \in Seq(Raw)
    <3>1. data' \in [reset : BOOLEAN, measurement : Raw, available : BOOLEAN]
      BY <1>1, <1>2 DEF TypeOK
    <3>2. values' \in Seq(Word) /\ writes' \in Seq(Word \X Word) /\ samples' \in Seq(Raw)
      BY <1>2
    <3> QED
      BY <3>1, <3>2
  <2>2. response'.kind = "none"
    BY <1>2 DEF NoResponse
  <2> QED
    BY <1>2, <1>3, <2>1, <2>2, NothingRequested DEF TypeOK
<1>5. Control' /\ Accesses' /\ Measuring' /\ Exceptions'
  BY <1>2, <1>3 DEF Control, Accesses, Measuring, Exceptions
<1>6. ReadingsBelongTogether'
  BY <1>2 DEF ReadingsBelongTogether
<1>7. WritesInOrder'
  <2>1. Intended(request)' = <<>>
    BY <1>2, NothingRequested DEF Intended
  <2> QED
    BY <1>2, <2>1 DEF WritesInOrder, NoResponse
<1>8. AnswersExact' /\ ResponseFits'
  BY <1>2, LengthAssumption
     DEF AnswersExact, ResponseFits, ResponseLength, NoResponse
<1>9. ResetFollowsWrites'
  <2>1. 1 .. Len(writes') = {}
    BY <1>2
  <2> QED
    BY <1>2, <2>1 DEF ResetFollowsWrites
<1> QED
  BY <1>4, <1>5, <1>6, <1>7, <1>8, <1>9 DEF Sound

LEMMA NextSound == Sound /\ [Next]_vars => Sound'
<1> SUFFICES ASSUME Sound, [Next]_vars PROVE Sound'
  OBVIOUS
<1>1. CASE TakeRequest(Request)
  BY <1>1, TakeRequestSound
<1>2. CASE Ignore \/ Begin
  BY <1>2, BeginSound
<1>3. ASSUME NEW raw \in Raw, Measure(raw) PROVE Sound'
  BY <1>3, MeasureSound
<1>4. CASE ReadRegister(Version)
  BY <1>4, ReadRegisterSound
<1>5. ASSUME NEW refused \in BOOLEAN, WriteRegister(refused) PROVE Sound'
  BY <1>5, WriteRegisterSound
<1>6. CASE Complete
  BY <1>6, CompleteSound
<1>7. CASE Return
  BY <1>7, ReturnSound
<1>8. CASE UNCHANGED vars
  <2>1. /\ TypeOK /\ Control /\ Accesses /\ Measuring /\ Exceptions
        /\ ReadingsBelongTogether /\ WritesInOrder /\ AnswersExact
        /\ ResponseFits /\ ResetFollowsWrites
    BY DEF Sound
  <2>2. TypeOK' /\ Accesses' /\ Measuring'
    BY <1>8, <2>1 DEF vars, TypeOK, Accesses, Measuring
  <2>3. Control'
    BY <1>8, <2>1 DEF vars, Control, Done, Quantity, Checked, QuantityOk
  <2>4. Exceptions'
    BY <1>8, <2>1 DEF vars, Exceptions, Refused, Intended, Exact
  <2>5. ReadingsBelongTogether' /\ ResetFollowsWrites'
    BY <1>8, <2>1 DEF vars, ReadingsBelongTogether, ResetFollowsWrites
  <2>6. WritesInOrder' /\ AnswersExact'
    BY <1>8, <2>1 DEF vars, WritesInOrder, Intended, AnswersExact, Exact
  <2>7. ResponseFits'
    BY <1>8, <2>1 DEF vars, ResponseFits, ResponseLength
  <2> QED
    BY <2>2, <2>3, <2>4, <2>5, <2>6, <2>7 DEF Sound
<1> QED
  BY <1>1, <1>2, <1>3, <1>4, <1>5, <1>6, <1>7, <1>8 DEF Next

LEMMA AlwaysSound == Spec => []Sound
  BY InitSound, NextSound, PTL DEF Spec

-----------------------------------------------------------------------------

(* The slave's state has its type: the sum in register 0, the addresses    *)
(* and the words that are written stay 16 bits wide.                       *)
THEOREM SlaveTypes == Spec => []TypeOK
<1>1. Sound => TypeOK
  BY DEF Sound
<1> QED
  BY <1>1, AlwaysSound, PTL

(* The measurement registers of one read show one measurement, which is    *)
(* taken for that read.                                                    *)
THEOREM OneMeasurement == Spec => []ReadingsBelongTogether
<1>1. Sound => ReadingsBelongTogether
  BY DEF Sound
<1> QED
  BY <1>1, AlwaysSound, PTL

(* The registers a request writes are a prefix of the ones it names, and   *)
(* the answer says how that ended.                                         *)
THEOREM OrderedWrites == Spec => []WritesInOrder
<1>1. Sound => WritesInOrder
  BY DEF Sound
<1> QED
  BY <1>1, AlwaysSound, PTL

(* A request is answered normally only when it is as long as it says it    *)
(* is, and every request of a known function that is gets an answer.       *)
THEOREM ExactAnswers == Spec => []AnswersExact
<1>1. Sound => AnswersExact
  BY DEF Sound
<1> QED
  BY <1>1, AlwaysSound, PTL

(* No response outgrows the buffer it shares with its CRC.                 *)
THEOREM RoomForResponse == Spec => []ResponseFits
<1>1. Sound => ResponseFits
  BY DEF Sound
<1> QED
  BY <1>1, AlwaysSound, PTL

(* The unit resets when, and only when, the last write to the reset        *)
(* register asked for it.                                                  *)
THEOREM ResetOnRequest == Spec => []ResetFollowsWrites
<1>1. Sound => ResetFollowsWrites
  BY DEF Sound
<1> QED
  BY <1>1, AlwaysSound, PTL

=============================================================================
