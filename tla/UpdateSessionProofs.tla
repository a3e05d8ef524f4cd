------------------------ MODULE UpdateSessionProofs ------------------------
(***************************************************************************)
(* A firmware update over the bus is one of FwUpdate: whatever the master  *)
(* sends, is lost, or is interrupted, what happens to the write buffer,    *)
(* the slots and MCUboot's marks are steps of FwUpdate, so that what is    *)
(* proved of every use of the registers (FwUpdateProofs) holds here.       *)
(* Because a data word is one only if it is 16 bits wide, the proof needs  *)
(* an invariant of the requests (Words).  What the master may conclude     *)
(* from the answers it gets needs two more: that it has one request under  *)
(* way and the slave executes that one (Turn), and what the unit has       *)
(* received at every register write of it (Transfer).                      *)
(***************************************************************************)
EXTENDS UpdateSession, SequenceTheorems, TLAPS

Word == 0 .. WordMod - 1

Words ==
  /\ request \in S!AnyRequest
  /\ writes \in Seq(Word \X Word)
  /\ new \in Image /\ sent \in 0 .. Len(new)

Turn ==
  /\ pc \in {"listening", "execute", "registers", "complete", "answer"}
  /\ waiting <=> pc # "listening"
  /\ waiting => request = NextRequest
  /\ pc \in {"listening", "execute"} => exception = "ok" /\ writes = <<>>
  /\ pc = "registers" => exception = "ok"
  /\ pc = "complete" => exception # "ok"
  /\ pc = "answer" /\ response.kind \notin {"none", "exception"} =>
       S!Done = S!Quantity(request)

Transfer ==
  fresh =>
    /\ step = "data" => /\ sent + Len(writes) <= Len(new)
                        /\ received = SubSeq(new, 1, sent + Len(writes))
    /\ step = "pending" /\ writes = <<>> => received = SubSeq(new, 1, sent)
    /\ step = "prepare" /\ writes # <<>> => received = <<>>

-----------------------------------------------------------------------------
(* Requests.                                                               *)

LEMMA Zero == WordMod \in Nat /\ {0, 1, 2} \subseteq Word
  BY WordAssumption DEF Word

LEMMA RequestType ==
  ASSUME NEW fn \in S!Function, NEW fields \in Seq(Word)
  PROVE  [mine |-> TRUE, fn |-> fn, fields |-> fields, rest |-> FALSE] \in S!AnyRequest
  BY DEF S!AnyRequest, S!Word, Word

LEMMA TwoWords ==
  ASSUME NEW x \in Word, NEW y \in Word PROVE <<x, y>> \in Seq(Word)
  OBVIOUS

(* The next part of the image is one, and ends within it.                  *)
LEMMA ChunkWords ==
  ASSUME NEW im \in Seq(Word), new = im, sent \in 0 .. Len(im)
  PROVE  /\ NextChunk \in Seq(Word)
         /\ Len(NextChunk) \in 0 .. MaxWrite /\ Len(NextChunk) <= Chunk
         /\ sent + Len(NextChunk) \in 0 .. Len(im)
         /\ \A i \in 1 .. Len(NextChunk) : NextChunk[i] = im[sent + i]
<1> DEFINE last == IF sent + Chunk < Len(im) THEN sent + Chunk ELSE Len(im)
<1>1. Chunk \in 1 .. MaxWrite /\ MaxWrite \in Nat /\ Len(im) \in Nat
  BY SessionAssumption, WordAssumption
<1>2. last \in sent .. Len(im) /\ last - sent \in 0 .. MaxWrite /\ last - sent <= Chunk
  BY <1>1
<1>3. NextChunk = SubSeq(im, sent + 1, last)
  BY DEF NextChunk
<1> HIDE DEF last
<1>4. /\ SubSeq(im, sent + 1, last) \in Seq(Word)
      /\ Len(SubSeq(im, sent + 1, last)) = last - sent
      /\ \A i \in 1 .. last - sent : SubSeq(im, sent + 1, last)[i] = im[sent + i]
  <2> DEFINE first == sent + 1
  <2>1. /\ first \in 1 .. Len(im) + 1 /\ last \in first - 1 .. Len(im)
        /\ last - first + 1 = last - sent
        /\ \A i \in 1 .. last - sent : first + i - 1 = sent + i
        /\ \A i \in first .. last : im[i] \in Word
    BY <1>1, <1>2
  <2> HIDE DEF first
  <2>2. /\ SubSeq(im, first, last) \in Seq(Word)
        /\ Len(SubSeq(im, first, last)) = last - first + 1
        /\ \A i \in 1 .. last - first + 1 : SubSeq(im, first, last)[i] = im[first + i - 1]
    BY <2>1, <1>1, SubSeqProperties
  <2> QED
    BY <2>1, <2>2 DEF first
<1> QED
  BY <1>1, <1>2, <1>3, <1>4

LEMMA NextRequestType == Words => NextRequest \in S!AnyRequest
<1> SUFFICES ASSUME Words PROVE NextRequest \in S!AnyRequest
  OBVIOUS
<1>1. "write" \in S!Function /\ "read" \in S!Function /\ "writeMultiple" \in S!Function
  BY DEF S!Function
<1>2. FwBase + FwCommand \in Word /\ ResetReg \in Word /\ VersionReg \in Word /\ FwBase \in Word
  BY WordAssumption DEF Word
<1>3. ASSUME NEW reg \in Word, NEW word \in Word PROVE Write(reg, word) \in S!AnyRequest
  BY <1>1, RequestType, TwoWords DEF Write
<1>4. /\ Command(kPrepare) \in S!AnyRequest /\ Command(kSetPending) \in S!AnyRequest
      /\ Command(kConfirm) \in S!AnyRequest /\ Write(ResetReg, 1) \in S!AnyRequest
  BY <1>2, <1>3, Zero DEF Command, kPrepare, kSetPending, kConfirm
<1>5. ReadVersion \in S!AnyRequest
  BY <1>1, <1>2, Zero, RequestType, TwoWords DEF ReadVersion
<1>6. DataWords(NextChunk) \in S!AnyRequest
  <2> DEFINE words == NextChunk
  <2>1. words \in Seq(Word) /\ Len(words) \in 0 .. MaxWrite
    BY WordAssumption, ChunkWords DEF Words, Word
  <2> HIDE DEF words
  <2>2. Len(words) \in Word /\ 2 * Len(words) \in Word
    BY <2>1, WordAssumption DEF Word
  <2>3. <<FwBase, Len(words), 2 * Len(words)>> \in Seq(Word)
    BY <1>2, <2>2
  <2>4. <<FwBase, Len(words), 2 * Len(words)>> \o words \in Seq(Word)
    BY <2>1, <2>3, ConcatProperties
  <2> QED
    BY <1>1, <2>4, RequestType DEF DataWords, words
<1> QED
  BY <1>4, <1>5, <1>6 DEF NextRequest

LEMMA NothingRequested == S!NoRequest \in S!AnyRequest
  BY DEF S!NoRequest, S!AnyRequest, S!Function

(* The register that is written, and its contents.                         *)
LEMMA WrittenWord ==
  ASSUME Words, NEW refused \in BOOLEAN, S!WriteRegister(refused), writes' # writes
  PROVE  /\ S!NextWord \in Word /\ writes' \in Seq(Word \X Word)
<1>1. /\ request.fields \in Seq(Word) /\ Len(request.fields) \in Nat
      /\ request.fn \in {"write", "writeMultiple"}
      /\ Len(writes) \in Nat
  <2>1. request.fields \in Seq(Word)
    BY DEF Words, S!AnyRequest, S!Word, Word
  <2>2. writes \in Seq(Word \X Word)
    BY DEF Words
  <2>3. request.fn \in {"write", "writeMultiple"}
    BY DEF S!WriteRegister, S!InLoop
  <2> QED
    BY <2>1, <2>2, <2>3
<1>2. ~(Len(request.fields) < S!NextField) /\ writes' = Append(writes, <<S!Address, S!NextWord>>)
  BY DEF S!WriteRegister
<1>3. S!Done = Len(writes)
  BY <1>1 DEF S!Done
<1>4. S!NextField \in 1 .. Len(request.fields)
  BY <1>1, <1>2, <1>3 DEF S!NextField
<1>5. S!NextWord \in Word
  BY <1>1, <1>4 DEF S!NextWord
<1>6. S!Address \in Word
  <2>1. request.fields[1] \in Word
    BY <1>1, <1>4
  <2> QED
    <3>1. WordMod \in Nat /\ WordMod > 2
      BY WordAssumption
    <3>2. S!Done \in Nat
      BY <1>1, <1>3
    <3>3. request.fields[1] \in Int
      BY <2>1, <3>1 DEF Word
    <3> DEFINE sum == request.fields[1] + S!Done
    <3>4. sum \in Int
      BY <3>2, <3>3
    <3>5. S!Address = sum % WordMod
      BY DEF S!Address
    <3> HIDE DEF sum
    <3> QED
      BY <3>1, <3>4, <3>5 DEF Word
<1>7. writes' \in Seq(Word \X Word)
  <2> DEFINE pair == <<S!Address, S!NextWord>>
             P == Word \X Word
  <2>1. pair \in P /\ writes \in Seq(P) /\ writes' = Append(writes, pair)
    BY <1>2, <1>5, <1>6 DEF Words
  <2> HIDE DEF pair, P
  <2>2. writes' \in Seq(P)
    BY <2>1
  <2> QED
    BY <2>2 DEF P
<1> QED
  BY <1>5, <1>7

-----------------------------------------------------------------------------
(* Words is inductive.                                                     *)

LEMMA InitWords == Init => Words
<1> SUFFICES ASSUME Init PROVE Words
  OBVIOUS
<1>1. request = S!NoRequest /\ writes = <<>> /\ new \in Image /\ sent = 0
  BY DEF Init, S!Init
<1>2. Len(new) \in Nat
  BY <1>1, WordAssumption
<1>3. writes \in Seq(Word \X Word)
  BY <1>1
<1> QED
  BY <1>1, <1>2, <1>3, NothingRequested DEF Words

LEMMA NextWords == Words /\ [Next]_vars => Words'
<1> SUFFICES ASSUME Words, [Next]_vars PROVE Words'
  OBVIOUS
<1>1. /\ request \in S!AnyRequest /\ writes \in Seq(Word \X Word)
      /\ new \in Image /\ sent \in 0 .. Len(new)
  BY DEF Words
<1>2. <<>> \in Seq(Word \X Word)
  OBVIOUS
<1>3. CASE Send
  <2>1. request' = NextRequest /\ UNCHANGED <<writes, new, sent>>
    BY <1>3 DEF Send, S!TakeRequest
  <2> QED
    BY <1>1, <2>1, NextRequestType DEF Words
<1>4. CASE LoseRequest
  BY <1>1, <1>4 DEF LoseRequest, slave, Words
<1>5. CASE Deliver \/ LoseResponse
  <2>1. request' = S!NoRequest /\ writes' = <<>> /\ new' = new
    BY <1>5 DEF Deliver, LoseResponse, S!Return, Answered, TimesOut, master
  <2>2. sent' \in {0, sent, sent + Len(NextChunk)}
    BY <1>5 DEF Deliver, LoseResponse, Answered, TimesOut, master
  <2>3. sent' \in 0 .. Len(new)
    <3>1. new \in Seq(Word) /\ Len(new) \in Nat
      <4>1. new \in Seq(Word)
        BY <1>1, WordAssumption DEF Word
      <4> QED
        BY <4>1
    <3>2. sent + Len(NextChunk) \in 0 .. Len(new)
      BY <1>1, <3>1, ChunkWords
    <3> QED
      BY <1>1, <2>2, <3>1, <3>2
  <2> QED
    BY <1>1, <1>2, <2>1, <2>3, NothingRequested DEF Words
<1>6. CASE WriteRegister
  <2>1. PICK refused \in BOOLEAN : S!WriteRegister(refused) /\ UNCHANGED master
    BY <1>6 DEF WriteRegister
  <2>2. UNCHANGED <<request, new, sent>>
    BY <2>1 DEF S!WriteRegister, master
  <2>3. writes' \in Seq(Word \X Word)
    BY <1>1, <2>1, WrittenWord
  <2> QED
    BY <1>1, <2>2, <2>3 DEF Words
<1>7. CASE Execute
  <2>1. UNCHANGED <<request, writes, new, sent>>
    BY <1>7 DEF Execute, S!Begin, S!ReadRegister, S!Complete, master
  <2> QED
    BY <1>1, <2>1 DEF Words
<1>8. CASE Reset \/ PowerFails
  <2>1. request' = S!NoRequest /\ writes' = <<>> /\ new' = new /\ sent' = sent
    BY <1>8 DEF Reset, PowerFails, SlaveStarts, TimesOut, master
  <2> QED
    BY <1>1, <1>2, <2>1, NothingRequested DEF Words
<1>9. CASE UNCHANGED vars
  BY <1>1, <1>9 DEF vars, slave, master, Words
<1> QED
  BY <1>3, <1>4, <1>5, <1>6, <1>7, <1>8, <1>9 DEF Next, Work, Finished

-----------------------------------------------------------------------------
(* What the session does to the update.                                    *)

LEMMA UpdateStep == Words /\ [Next]_vars => [U!Next]_U!vars
<1> SUFFICES ASSUME Words, [Next]_vars PROVE U!Next \/ UNCHANGED update
  BY DEF update, U!vars
<1>1. CASE Send \/ LoseRequest \/ Deliver \/ LoseResponse \/ Execute \/ UNCHANGED vars
  BY <1>1 DEF Send, LoseRequest, Deliver, LoseResponse, Execute, vars
<1>2. CASE WriteRegister
  <2>1. PICK refused \in BOOLEAN : S!WriteRegister(refused) /\ RegisterWritten(refused)
    BY <1>2 DEF WriteRegister
  <2>2. CASE writes' = writes \/ S!Address < FwBase
    BY <2>1, <2>2 DEF RegisterWritten
  <2>3. CASE ~(writes' = writes \/ S!Address < FwBase)
    <3>1. U!Prepare \/ U!SetPending \/ U!Confirm \/ U!WriteData(S!NextWord)
      BY <2>1, <2>3 DEF RegisterWritten, Commands
    <3>2. S!NextWord \in Word
      BY <2>1, <2>3, WrittenWord
    <3> QED
      BY <3>1, <3>2 DEF U!Next, Word
  <2> QED
    BY <2>2, <2>3
<1>3. CASE Reset \/ PowerFails
  BY <1>3 DEF Reset, PowerFails, U!Next
<1> QED
  BY <1>1, <1>2, <1>3 DEF Next, Work, Finished

(* An update over a bus that loses messages, with a power supply that      *)
(* fails, implements FwUpdate.                                             *)
THEOREM SessionImplementsUpdate == Spec => U!Spec
<1>1. Init => U!Init
  BY DEF Init
<1>2. Init => Words
  BY InitWords
<1> QED
  BY <1>1, <1>2, NextWords, UpdateStep, PTL DEF Spec, U!Spec

-----------------------------------------------------------------------------
(* One request at a time.                                                  *)

LEMMA InitTurn == Init => Turn /\ Transfer
  BY DEF Init, S!Init, U!Init, Turn, Transfer

LEMMA NextTurn == Words /\ Turn /\ [Next]_vars => Turn'
<1> SUFFICES ASSUME Words, Turn, [Next]_vars PROVE Turn'
  OBVIOUS
<1>1. CASE Send
  <2>1. /\ pc = "listening" /\ pc' = "execute" /\ waiting' = TRUE
        /\ request' = NextRequest
        /\ UNCHANGED <<exception, writes, new, step, sent>>
    BY <1>1 DEF Send, S!TakeRequest
  <2>2. NextRequest' = NextRequest
    BY <2>1 DEF NextRequest, NextChunk
  <2> QED
    BY <2>1, <2>2 DEF Turn
<1>2. CASE LoseRequest
  <2>1. ~waiting /\ waiting' = waiting /\ UNCHANGED slave
    BY <1>2 DEF LoseRequest, Sending
  <2>2. pc = "listening"
    BY <2>1 DEF Turn
  <2> QED
    BY <2>1, <2>2 DEF Turn, slave
<1>3. CASE Deliver \/ LoseResponse
  <2>1. pc = "answer" /\ waiting /\ S!Return
    BY <1>3 DEF Deliver, LoseResponse, S!Return, Turn
  <2>2. waiting' = FALSE
    BY <1>3, <2>1 DEF Deliver, LoseResponse, Answered, TimesOut
  <2> QED
    BY <2>1, <2>2 DEF Turn, S!Return
<1>4. CASE WriteRegister
  <2>1. PICK refused \in BOOLEAN : S!WriteRegister(refused) /\ UNCHANGED master
    BY <1>4 DEF WriteRegister
  <2>2. /\ pc = "registers" /\ UNCHANGED <<request, response, waiting, new, step, sent>>
        /\ \/ pc' = "registers" /\ exception' = exception
           \/ pc' = "complete" /\ exception' # "ok"
    BY <2>1 DEF S!WriteRegister, S!InLoop, S!Fail, master
  <2>3. NextRequest' = NextRequest
    BY <2>2 DEF NextRequest, NextChunk
  <2> QED
    BY <2>2, <2>3 DEF Turn
<1>5. CASE Execute
  <2>1. /\ UNCHANGED <<request, waiting, new, step, sent>>
        /\ pc # "listening"
    BY <1>5 DEF Execute, S!Begin, S!ReadRegister, S!InLoop, S!Complete, master
  <2>2. NextRequest' = NextRequest
    BY <2>1 DEF NextRequest, NextChunk
  <2>3. CASE S!Begin
    BY <2>1, <2>2, <2>3 DEF S!Begin, Turn
  <2>4. CASE S!ReadRegister(VersionOf[slot0])
    BY <2>1, <2>2, <2>4 DEF S!ReadRegister, S!InLoop, S!Fail, Turn
  <2>5. CASE S!Complete
    <3>1. /\ pc' = "answer" /\ response' = S!Answer(request)
          /\ UNCHANGED <<exception, values, writes>>
          /\ \/ pc = "complete" /\ exception # "ok"
             \/ pc = "registers" /\ S!Done = S!Quantity(request)
      BY <2>5 DEF S!Complete, Turn
    <3>2. exception # "ok" => response'.kind \in {"none", "exception"}
      BY <3>1 DEF S!Answer, S!NoResponse
    <3>3. S!Done' = S!Done /\ S!Quantity(request)' = S!Quantity(request)
      BY <2>1, <3>1 DEF S!Done, S!Quantity
    <3> QED
      BY <2>1, <2>2, <3>1, <3>2, <3>3 DEF Turn
  <2> QED
    BY <1>5, <2>3, <2>4, <2>5 DEF Execute
<1>6. CASE Reset
  <2>1. pc = "listening" /\ SlaveStarts /\ waiting' = waiting
    BY <1>6 DEF Reset, master
  <2> QED
    BY <2>1 DEF SlaveStarts, Turn
<1>7. CASE PowerFails
  <2>1. SlaveStarts /\ waiting' = FALSE
    <3>1. SlaveStarts /\ IF waiting THEN TimesOut ELSE UNCHANGED master
      BY <1>7 DEF PowerFails
    <3>2. CASE waiting
      BY <3>1, <3>2 DEF TimesOut
    <3>3. CASE ~waiting
      <4>1. waiting' = waiting
        BY <3>1, <3>3 DEF master
      <4>2. waiting = FALSE
        BY <3>3 DEF Turn
      <4> QED
        BY <3>1, <4>1, <4>2
    <3> QED
      BY <3>2, <3>3
  <2> QED
    BY <2>1 DEF SlaveStarts, Turn
<1>8. CASE UNCHANGED vars
  BY <1>8 DEF vars, slave, master, Turn, S!Done, S!Quantity, NextRequest, NextChunk
<1> QED
  BY <1>1, <1>2, <1>3, <1>4, <1>5, <1>6, <1>7, <1>8 DEF Next, Work, Finished

-----------------------------------------------------------------------------
(* Every word answered is received, and once.                              *)

(* The image is the words up to one, and the next.                         *)
LEMMA OneMore ==
  ASSUME NEW im \in Seq(Word), NEW n \in Nat, n < Len(im)
  PROVE  SubSeq(im, 1, n + 1) = SubSeq(im, 1, n) \o <<im[n + 1]>>
<1> DEFINE m == n + 1
<1>1. m \in 1 .. Len(im) /\ m \in 1 .. m /\ m - 1 = n /\ 1 \in 1 .. Len(im)
  OBVIOUS
<1> HIDE DEF m
<1>2. SubSeq(im, 1, m) = SubSeq(im, 1, m - 1) \o <<im[m]>>
  BY <1>1, SubSeqRecursiveSecond
<1> QED
  BY <1>1, <1>2 DEF m

(* A data word is the next word of the image, written to a register of the *)
(* update that is not the command register.                                *)
LEMMA DataWord ==
  ASSUME Words, Turn, waiting, step = "data",
         NEW refused \in BOOLEAN, S!WriteRegister(refused), writes' # writes
  PROVE  /\ ~(S!Address < FwBase) /\ S!Address # FwBase + FwCommand
         /\ sent + Len(writes) < Len(new)
         /\ S!NextWord = new[sent + Len(writes) + 1]
         /\ Len(writes') = Len(writes) + 1
<1> DEFINE words == NextChunk
<1>1. /\ new \in Seq(Word) /\ sent \in Nat /\ Len(new) \in Nat /\ Len(writes) \in Nat
      /\ writes \in Seq(Word \X Word)
  <2>1. new \in Seq(Word) /\ writes \in Seq(Word \X Word)
    BY WordAssumption DEF Words, Word
  <2>2. Len(new) \in Nat /\ Len(writes) \in Nat
    BY <2>1
  <2> QED
    BY <2>1, <2>2 DEF Words
<1>2. /\ words \in Seq(Word) /\ Len(words) \in Nat
      /\ sent + Len(words) <= Len(new)
      /\ \A i \in 1 .. Len(words) : words[i] = new[sent + i]
      /\ Len(words) <= FwCommand
  <2>1. sent \in 0 .. Len(new)
    BY DEF Words
  <2>2. /\ words \in Seq(Word) /\ Len(words) \in 0 .. MaxWrite
        /\ sent + Len(words) \in 0 .. Len(new)
        /\ \A i \in 1 .. Len(words) : words[i] = new[sent + i]
        /\ Len(words) <= Chunk
    BY <1>1, <2>1, ChunkWords
  <2>3. Len(words) <= FwCommand
    BY <2>2, SessionAssumption, WordAssumption
  <2> QED
    BY <1>1, <2>2, <2>3, WordAssumption
<1>3. request = DataWords(words)
  BY DEF Turn, NextRequest
<1> HIDE DEF words
<1> DEFINE header == <<FwBase, Len(words), 2 * Len(words)>>
<1>4. request.fn = "writeMultiple" /\ request.fields = header \o words
  BY <1>3 DEF DataWords
<1>5. S!Done = Len(writes) /\ S!NextField = Len(writes) + 4
  BY <1>4 DEF S!Done, S!NextField
<1>6. /\ Len(header) = 3 /\ header[1] = FwBase /\ header[2] = Len(words)
      /\ header \in Seq(Int)
  BY <1>2, WordAssumption
<1>7. /\ request.fields[1] = FwBase /\ request.fields[2] = Len(words)
      /\ \A i \in 1 .. Len(words) : request.fields[3 + i] = words[i]
  <2> DEFINE h == header
  <2>1. words \in Seq(Int) /\ h \in Seq(Int) /\ Len(h) = 3
        /\ h[1] = FwBase /\ h[2] = Len(words)
    <3>1. words \in Seq(Int)
      BY <1>2, Zero, SeqMonotonic DEF Word
    <3> QED
      BY <1>6, <3>1
  <2> HIDE DEF h
  <2>2. \A i \in 1 .. 3 + Len(words) :
          (h \o words)[i] = IF i <= 3 THEN h[i] ELSE words[i - 3]
    <3>1. \A i \in 1 .. Len(h) + Len(words) :
            (h \o words)[i] = IF i <= Len(h) THEN h[i] ELSE words[i - Len(h)]
      BY <2>1, ConcatProperties
    <3> QED
      BY <2>1, <3>1
  <2>3. (h \o words)[1] = h[1] /\ (h \o words)[2] = h[2]
    <3>1. 1 \in 1 .. 3 + Len(words) /\ 2 \in 1 .. 3 + Len(words)
      BY <1>2
    <3>2. (h \o words)[1] = IF 1 <= 3 THEN h[1] ELSE words[1 - 3]
      BY <2>2, <3>1
    <3>3. (h \o words)[2] = IF 2 <= 3 THEN h[2] ELSE words[2 - 3]
      BY <2>2, <3>1
    <3> QED
      BY <3>2, <3>3
  <2>4. ASSUME NEW i \in 1 .. Len(words) PROVE (h \o words)[3 + i] = words[i]
    <3>1. 3 + i \in 1 .. 3 + Len(words) /\ ~(3 + i <= 3) /\ (3 + i) - 3 = i
      BY <1>2
    <3> QED
      BY <2>2, <3>1
  <2> QED
    BY <1>4, <2>1, <2>3, <2>4 DEF h
<1>8. Len(writes) < Len(words)
  BY <1>4, <1>5, <1>7 DEF S!WriteRegister, S!InLoop, S!Quantity
<1>9. S!Address = FwBase + Len(writes)
  <2>1. /\ FwBase + Len(writes) \in 0 .. WordMod - 1 /\ WordMod \in Nat \ {0}
    BY <1>1, <1>2, <1>8, WordAssumption
  <2>2. \A n \in Nat \ {0} : \A x \in 0 .. n - 1 : x % n = x
    OBVIOUS
  <2> QED
    BY <1>5, <1>7, <2>1, <2>2 DEF S!Address
<1>10. ~(S!Address < FwBase) /\ S!Address # FwBase + FwCommand
  BY <1>1, <1>2, <1>8, <1>9, WordAssumption
<1>11. S!NextWord = new[sent + Len(writes) + 1] /\ sent + Len(writes) < Len(new)
  <2> DEFINE i == Len(writes) + 1
  <2>1. i \in 1 .. Len(words) /\ S!NextField = 3 + i
        /\ sent + i = sent + Len(writes) + 1
    BY <1>1, <1>2, <1>5, <1>8
  <2> HIDE DEF i
  <2>2. S!NextWord = new[sent + i]
    BY <1>2, <1>7, <2>1 DEF S!NextWord
  <2>3. sent + Len(writes) < Len(new)
    BY <1>1, <1>2, <1>8
  <2> QED
    BY <2>1, <2>2, <2>3
<1>12. Len(writes') = Len(writes) + 1
  <2> DEFINE pair == <<S!Address, S!NextWord>>
  <2>1. writes' = Append(writes, pair)
    BY DEF S!WriteRegister
  <2> QED
    BY <1>1, <2>1
<1> QED
  BY <1>10, <1>11, <1>12

(* A command is written once, to the command register.                     *)
LEMMA CommandWord ==
  ASSUME Words, NEW command \in {kPrepare, kSetPending, kConfirm}, request = Command(command),
         NEW refused \in BOOLEAN, S!WriteRegister(refused)
  PROVE  /\ writes = <<>> /\ writes' # writes
         /\ S!Address = FwBase + FwCommand /\ S!NextWord = command /\ ~(S!Address < FwBase)
         /\ pc' = IF refused THEN "complete" ELSE pc
         /\ exception' = IF refused THEN "illegal data address" ELSE exception
<1>1. writes \in Seq(Word \X Word) /\ Len(writes) \in Nat
  <2>1. writes \in Seq(Word \X Word)
    BY DEF Words
  <2> QED
    BY <2>1
<1>2. /\ request.fn = "write" /\ request.fields = <<FwBase + FwCommand, command>>
  BY DEF Command, Write
<1>3. S!Done = Len(writes) /\ Len(writes) < 1
  BY <1>2 DEF S!Done, S!WriteRegister, S!InLoop, S!Quantity
<1>4. Len(writes) = 0 /\ writes = <<>>
  BY <1>1, <1>3
<1>5. S!NextWord = command
  BY <1>2, <1>3, <1>4 DEF S!NextWord, S!NextField
<1>6. S!Address = FwBase + FwCommand
  <2>1. FwBase + FwCommand \in 0 .. WordMod - 1 /\ WordMod \in Nat \ {0}
    BY WordAssumption
  <2>2. \A n \in Nat \ {0} : \A x \in 0 .. n - 1 : x % n = x
    OBVIOUS
  <2>3. (FwBase + FwCommand) % WordMod = FwBase + FwCommand
    BY <2>1, <2>2
  <2>4. request.fields[1] + S!Done = FwBase + FwCommand
    BY <1>2, <1>3, <1>4, <2>1
  <2> QED
    BY <2>3, <2>4 DEF S!Address
<1>7. ~(S!Address < FwBase) /\ S!Address \in S!Writable
  BY <1>6, WordAssumption DEF S!Writable
<1>8. ~(Len(request.fields) < S!NextField)
  BY <1>2, <1>3, <1>4 DEF S!NextField
<1>9. /\ writes' = Append(writes, <<S!Address, S!NextWord>>)
      /\ pc' = IF refused THEN "complete" ELSE pc
      /\ exception' = IF refused THEN "illegal data address" ELSE exception
  BY <1>6, <1>7, <1>8 DEF S!WriteRegister, S!Fail
<1>10. writes' # writes
  <2> DEFINE pair == <<S!Address, S!NextWord>>
  <2>1. writes' = Append(<<>>, pair)
    BY <1>4, <1>9
  <2> HIDE DEF pair
  <2>2. Append(<<>>, pair) # <<>>
    OBVIOUS
  <2> QED
    BY <1>4, <2>1, <2>2
<1> QED
  BY <1>4, <1>5, <1>6, <1>7, <1>9, <1>10

(* Only kPrepare starts what has been received afresh; a reset forgets it. *)
LEMMA NextTransfer == Words /\ Turn /\ Transfer /\ [Next]_vars => Transfer'
<1> SUFFICES ASSUME Words, Turn, Transfer, [Next]_vars PROVE Transfer'
  OBVIOUS
<1>1. /\ new \in Seq(Word) /\ Len(new) \in Nat /\ sent \in 0 .. Len(new)
      /\ Len(writes) \in Nat /\ Len(<<>>) = 0
  <2>1. new \in Seq(Word) /\ writes \in Seq(Word \X Word)
    BY WordAssumption DEF Words, Word
  <2>2. Len(new) \in Nat /\ Len(writes) \in Nat /\ Len(<<>>) = 0
    BY <2>1
  <2> QED
    BY <2>1, <2>2 DEF Words
<1>2. CASE Send
  <2>1. writes' = writes /\ UNCHANGED <<new, step, sent, fresh, received>>
    BY <1>2 DEF Send, S!TakeRequest, update
  <2> QED
    BY <2>1 DEF Transfer
<1>3. CASE LoseRequest
  <2>1. /\ pc = "listening" /\ UNCHANGED <<writes, new, sent, fresh, received>>
        /\ step' = StepAfterTimeout
    BY <1>3 DEF LoseRequest, Sending, Turn, slave, update
  <2>2. writes = <<>> /\ step' # "data" /\ step' # "pending"
    BY <2>1 DEF Turn, StepAfterTimeout
  <2> QED
    BY <2>1, <2>2 DEF Transfer
<1>4. CASE LoseResponse
  <2>1. /\ writes' = <<>> /\ step' = StepAfterTimeout
    BY <1>4 DEF LoseResponse, S!Return, TimesOut
  <2>2. step' # "data" /\ step' # "pending"
    BY <2>1 DEF StepAfterTimeout
  <2> QED
    BY <2>1, <2>2 DEF Transfer
<1>5. CASE Deliver
  <2>1. /\ pc = "answer" /\ waiting /\ writes' = <<>> /\ UNCHANGED <<fresh, received>>
        /\ response.kind # "none" /\ Answered /\ request = NextRequest
    BY <1>5 DEF Deliver, S!Return, Turn, update
  <2>2. CASE response.kind = "exception"
    <3>1. step' = "prepare"
      BY <2>1, <2>2 DEF Answered, StepAfterAnswer
    <3> QED
      BY <2>1, <3>1 DEF Transfer
  <2>3. CASE response.kind # "exception"
    <3>1. S!Done = S!Quantity(request)
      BY <2>1, <2>3 DEF Turn
    <3>2. CASE step = "prepare"
      <4>1. step' = "data" /\ sent' = 0 /\ new' = new
        BY <2>1, <2>3, <3>2 DEF Answered, StepAfterAnswer
      <4>2. request = Command(kPrepare)
        BY <2>1, <3>2 DEF NextRequest
      <4>3. request.fn = "write"
        BY <4>2 DEF Command, Write
      <4>4. Len(writes) = 1 /\ writes # <<>>
        BY <1>1, <3>1, <4>3 DEF S!Done, S!Quantity
      <4>5. fresh => received = <<>>
        BY <3>2, <4>4 DEF Transfer
      <4>6. SubSeq(new, 1, 0) = <<>>
        BY SubSeqEmpty
      <4>7. sent' + Len(writes') = 0 /\ 0 <= Len(new)
        BY <1>1, <2>1, <4>1
      <4> QED
        BY <2>1, <4>1, <4>5, <4>6, <4>7 DEF Transfer
    <3>3. CASE step = "data"
      <4> DEFINE words == NextChunk
      <4>1. /\ sent' = sent + Len(words) /\ new' = new /\ step' \in {"data", "pending"}
        BY <2>1, <2>3, <3>3 DEF Answered, StepAfterAnswer
      <4>2. /\ words \in Seq(Word) /\ Len(words) \in Nat /\ sent + Len(words) \in 0 .. Len(new)
        BY <1>1, ChunkWords, WordAssumption
      <4>3. request = DataWords(words)
        BY <2>1, <3>3 DEF NextRequest
      <4> HIDE DEF words
      <4>4. request.fn = "writeMultiple"
            /\ request.fields = <<FwBase, Len(words), 2 * Len(words)>> \o words
        BY <4>3 DEF DataWords
      <4>5. request.fields[2] = Len(words)
        <5>1. words \in Seq(Int) /\ <<FwBase, Len(words), 2 * Len(words)>> \in Seq(Int)
          <6>1. words \in Seq(Int)
            BY <4>2, Zero, SeqMonotonic DEF Word
          <6>2. FwBase \in Int
            BY WordAssumption
          <6> QED
            BY <4>2, <6>1, <6>2
        <5> QED
          BY <4>2, <4>4, <5>1
      <4>6. Len(writes) = Len(words)
        BY <3>1, <4>4, <4>5 DEF S!Done, S!Quantity
      <4>7. fresh => received = SubSeq(new, 1, sent + Len(words))
        BY <3>3, <4>6 DEF Transfer
      <4>8. sent' + Len(writes') = sent' /\ sent' <= Len(new)
        BY <1>1, <2>1, <4>1, <4>2
      <4> QED
        BY <2>1, <4>1, <4>7, <4>8 DEF Transfer
    <3>4. CASE step \notin {"prepare", "data"}
      <4>1. step' \notin {"data", "pending"}
        BY <2>1, <2>3, <3>4 DEF Answered, StepAfterAnswer
      <4> QED
        BY <2>1, <4>1 DEF Transfer
    <3> QED
      BY <3>2, <3>3, <3>4
  <2> QED
    BY <2>2, <2>3
<1>6. CASE WriteRegister
  <2>1. PICK refused \in BOOLEAN :
          S!WriteRegister(refused) /\ RegisterWritten(refused) /\ UNCHANGED master
    BY <1>6 DEF WriteRegister
  <2>2. waiting /\ request = NextRequest /\ UNCHANGED <<new, step, sent>>
    BY <2>1 DEF S!WriteRegister, S!InLoop, Turn, master
  <2>3. CASE writes' = writes
    <3>1. UNCHANGED <<fresh, received>>
      BY <2>1, <2>3 DEF RegisterWritten, update
    <3> QED
      BY <2>2, <2>3, <3>1 DEF Transfer
  <2>4. CASE writes' # writes /\ step = "data"
    <3>1. /\ ~(S!Address < FwBase) /\ S!Address # FwBase + FwCommand
          /\ sent + Len(writes) < Len(new)
          /\ S!NextWord = new[sent + Len(writes) + 1]
          /\ Len(writes') = Len(writes) + 1
      BY <2>1, <2>2, <2>4, DataWord
    <3>2. U!WriteData(S!NextWord)
      BY <2>1, <2>4, <3>1 DEF RegisterWritten
    <3>3. fresh' = fresh /\ (fresh => received' = received \o <<S!NextWord>>)
      BY <3>2 DEF U!WriteData, U!Receive
    <3> DEFINE n == sent + Len(writes)
    <3>4. n \in Nat /\ n < Len(new) /\ sent + Len(writes') = n + 1 /\ n + 1 <= Len(new)
      BY <1>1, <3>1
    <3>5. fresh => received = SubSeq(new, 1, n)
      BY <2>4 DEF Transfer
    <3>6. S!NextWord = new[n + 1]
      BY <3>1
    <3> HIDE DEF n
    <3>7. SubSeq(new, 1, n + 1) = SubSeq(new, 1, n) \o <<new[n + 1]>>
      BY <1>1, <3>4, OneMore
    <3>8. fresh' => received' = SubSeq(new, 1, n + 1)
      BY <3>3, <3>5, <3>6, <3>7
    <3> QED
      BY <2>2, <2>4, <3>4, <3>8 DEF Transfer
  <2>5. CASE writes' # writes /\ step = "prepare"
    <3>1. request = Command(kPrepare)
      BY <2>2, <2>5 DEF NextRequest
    <3>2. S!Address = FwBase + FwCommand /\ S!NextWord = kPrepare /\ ~(S!Address < FwBase)
      BY <2>1, <2>5, <3>1, CommandWord
    <3>3. U!Prepare
      BY <2>1, <2>5, <3>2 DEF RegisterWritten, Commands, kPrepare, kSetPending, kConfirm
    <3>4. received' = <<>>
      BY <3>3 DEF U!Prepare
    <3> QED
      BY <2>2, <2>5, <3>4 DEF Transfer
  <2>6. CASE writes' # writes /\ step = "pending"
    <3>1. request = Command(kSetPending)
      BY <2>2, <2>6 DEF NextRequest
    <3>2. writes = <<>>
      BY <2>1, <3>1, CommandWord
    <3>3. writes' # <<>>
      BY <2>6, <3>2
    <3> QED
      BY <2>2, <2>6, <3>3 DEF Transfer
  <2>7. CASE step \notin {"prepare", "data", "pending"}
    BY <2>2, <2>7 DEF Transfer
  <2> QED
    BY <2>3, <2>4, <2>5, <2>6, <2>7
<1>7. CASE Execute
  <2>1. UNCHANGED <<writes, new, step, sent, fresh, received>>
    BY <1>7 DEF Execute, S!Begin, S!ReadRegister, S!Complete, update, master
  <2> QED
    BY <2>1 DEF Transfer
<1>8. CASE Reset \/ PowerFails
  <2>1. fresh' = FALSE
    BY <1>8 DEF Reset, PowerFails, U!Reset, U!TornPrepare, U!TornWrite,
                 U!FlushedNotMarked, U!Boot
  <2> QED
    BY <2>1 DEF Transfer
<1>9. CASE UNCHANGED vars
  BY <1>9 DEF vars, slave, update, master, Transfer
<1> QED
  BY <1>2, <1>3, <1>4, <1>5, <1>6, <1>7, <1>8, <1>9 DEF Next, Work, Finished

(* Between two requests of a transfer the unit has received exactly the    *)
(* words that were answered, for any image, any number of words in a       *)
(* request and any number of faults; unless it was reset in between.       *)
THEOREM ReceivedAsAnswered == Spec => []AnsweredIsReceived
<1>1. Words /\ Turn /\ Transfer => AnsweredIsReceived
  <2> SUFFICES ASSUME Words, Turn, Transfer, step \in {"data", "pending"}, ~waiting, fresh
               PROVE  received = SubSeq(new, 1, sent)
    BY DEF AnsweredIsReceived
  <2>1. writes = <<>>
    BY DEF Turn
  <2>2. sent + Len(writes) = sent
    <3>1. Len(new) \in Nat
      BY WordAssumption DEF Words
    <3>2. sent \in Nat
      BY <3>1 DEF Words
    <3> QED
      BY <2>1, <3>2
  <2> QED
    BY <2>1, <2>2 DEF Transfer
<1> QED
  BY <1>1, InitWords, InitTurn, NextWords, NextTurn, NextTransfer, PTL DEF Spec

=============================================================================
