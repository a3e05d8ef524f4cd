---------------------------- MODULE UpdateSession ----------------------------
(***************************************************************************)
(* A firmware update from end to end: a master that sends an image with    *)
(* the requests of the MODBUS protocol, a bus that loses some of them and  *)
(* of their responses, the slave that executes them (ModbusSlave), the     *)
(* update behind its registers (FwUpdate) and a power supply that fails.   *)
(*                                                                         *)
(* The master is not in this repository.  It does what the update needs of *)
(* it: data words have no sequence numbers, so that it never repeats a     *)
(* request whose response it missed but starts over with kPrepare; and as  *)
(* kConfirm is answered by whatever image runs, it asks for the version    *)
(* once more after it.  The protocol of commands is the one of             *)
(* src/test/modbus_data_fw_update_test.cc.                                 *)
(***************************************************************************)
EXTENDS Integers, Sequences

CONSTANTS
  WordMod, ByteMod, Capacity, MaxRead, MaxWrite,    \* see ModbusSlave
  VersionReg, ResetReg, FwBase, FwCommand, Raw,
  PageSize, SlotPages, Erased, Garbled, BufferSize, \* see FlashMap, FwUpdate
  Image, Factory,
  VersionOf,  \* the version word of an image
  Chunk,      \* data words in a request
  MaxFaults   \* bound on lost messages, power failures and refused commands

ASSUME WordAssumption ==
  /\ WordMod \in Nat /\ WordMod > 2 /\ MaxWrite \in Nat /\ 2 * MaxWrite < WordMod
  /\ {FwBase, FwBase + FwCommand} \subseteq 0 .. WordMod - 1
  /\ {VersionReg, ResetReg} \subseteq 4 .. FwBase - 1
  /\ FwCommand \in Nat /\ \A im \in Image : im \in Seq(0 .. WordMod - 1)

ASSUME SessionAssumption ==
  /\ \A im \in Image : VersionOf[im] \in 0 .. WordMod - 1
  /\ \A im \in Image \ {Factory} : VersionOf[im] # VersionOf[Factory]
  /\ Chunk \in 1 .. MaxWrite /\ Chunk <= FwCommand /\ MaxFaults \in Nat

VARIABLES
  pc, data, request, exception, values, writes, samples, response, before,
  buffer, offset, slot1, slot0, pending, trial, fallback, fresh, received,
  new,      \* the master: the image it sends
  step,     \*   what it does next
  sent,     \*   words of the image answered since kPrepare
  waiting,  \*   is it waiting for a response?
  asked,    \*   has it sent kSetPending since kPrepare was answered?
  faults    \* faults still to come

slave  == <<pc, data, request, exception, values, writes, samples, response, before>>
update == <<buffer, offset, slot1, slot0, pending, trial, fallback, fresh, received>>
master == <<new, step, sent, waiting, asked>>
vars   == <<slave, update, master, faults>>

S == INSTANCE ModbusSlave WITH Version <- VersionOf[Factory], Request <- {}

U == INSTANCE FwUpdate WITH Word <- 0 .. WordMod - 1

ASSUME UpdateAssumption ==
  U!PageAssumption /\ U!BufferAssumption /\ U!ImageAssumption /\ U!PrefixAssumption

\* MCUboot checks a hash over the image: none is made up of words of others.
ASSUME HashAssumption ==
  \A im \in Image : \E i \in 1 .. Len(im) :
    /\ im[i] # Erased
    /\ \A other \in Image \ {im} : \A j \in 1 .. Len(other) : other[j] # im[i]

Init ==
  /\ S!Init /\ U!Init
  /\ new \in Image \ {Factory}
  /\ step = "prepare" /\ sent = 0 /\ waiting = FALSE /\ asked = FALSE
  /\ faults = MaxFaults

-----------------------------------------------------------------------------
(* The requests of the master.                                             *)

kPrepare == 0
kSetPending == 1
kConfirm == 2

Write(reg, word) == [mine |-> TRUE, fn |-> "write", fields |-> <<reg, word>>, rest |-> FALSE]

Command(command) == Write(FwBase + FwCommand, command)

NextChunk == SubSeq(new, sent + 1, IF sent + Chunk < Len(new) THEN sent + Chunk ELSE Len(new))

DataWords(words) ==
  [mine |-> TRUE, fn |-> "writeMultiple", rest |-> FALSE,
   fields |-> <<FwBase, Len(words), 2 * Len(words)>> \o words]

ReadVersion ==
  [mine |-> TRUE, fn |-> "read", fields |-> <<VersionReg, 1>>, rest |-> FALSE]

NextRequest ==
  CASE step = "prepare" -> Command(kPrepare)
    [] step = "data"    -> DataWords(NextChunk)
    [] step = "pending" -> Command(kSetPending)
    [] step = "reset"   -> Write(ResetReg, 1)
    [] step = "confirm" -> Command(kConfirm)
    [] OTHER            -> ReadVersion        \* "version", "check"

-----------------------------------------------------------------------------
(* What the master makes of an answer, or of none.                         *)

StepAfterTimeout ==
  IF step \in {"prepare", "data", "pending"} THEN "prepare" ELSE step

RunsNew == values = <<VersionOf[new]>>

StepAfterAnswer ==
  IF response.kind = "exception" THEN "prepare"
  ELSE CASE step = "prepare" -> "data"
         [] step = "data"    -> IF sent + Len(NextChunk) = Len(new) THEN "pending" ELSE "data"
         [] step = "pending" -> "reset"
         [] step = "reset"   -> "version"
         [] step = "version" -> IF RunsNew THEN "confirm" ELSE "prepare"
         [] step = "confirm" -> "check"
         [] OTHER            -> IF RunsNew THEN "done" ELSE "prepare"

\* A slip the runs must notice, in the place of Answered: the last request of
\* an image is counted as a full one.
RoundedAnswered ==
  /\ waiting' = FALSE /\ step' = StepAfterAnswer
  /\ sent' = IF step = "data" THEN sent + Chunk ELSE 0
  /\ asked' = (asked /\ step # "prepare")
  /\ UNCHANGED new

Answered ==
  /\ waiting' = FALSE /\ step' = StepAfterAnswer
  /\ sent' = IF step = "data" THEN sent + Len(NextChunk) ELSE 0
  /\ asked' = (asked /\ step # "prepare")
  /\ UNCHANGED new

TimesOut ==
  /\ waiting' = FALSE /\ step' = StepAfterTimeout
  /\ UNCHANGED <<new, sent, asked>>

-----------------------------------------------------------------------------
(* Messages.  The unit takes no request before it has carried out a reset  *)
(* it was asked for (RequestResponse).                                     *)

Sending ==
  /\ ~waiting /\ step # "done" /\ ~data.reset
  /\ asked' = (asked \/ step = "pending")

Send ==
  /\ Sending /\ waiting' = TRUE
  /\ S!TakeRequest({NextRequest})
  /\ UNCHANGED <<update, new, step, sent, faults>>

Fault == faults > 0 /\ faults' = faults - 1

LoseRequest ==
  /\ Sending /\ Fault
  /\ step' = StepAfterTimeout
  /\ UNCHANGED <<slave, update, new, sent, waiting>>

Deliver ==
  /\ S!Return /\ response.kind # "none"
  /\ IF waiting THEN Answered ELSE UNCHANGED master
  /\ UNCHANGED <<update, faults>>

LoseResponse ==
  /\ S!Return /\ waiting /\ TimesOut
  /\ Fault
  /\ UNCHANGED update

-----------------------------------------------------------------------------
(* The unit.                                                               *)

\* A slip the runs must notice, in the place of Commands: what the bootloader
\* returns is ignored.
DeafCommands(word, refused) ==
  ~refused /\ \/ word = kPrepare /\ U!Prepare
              \/ word = kSetPending /\ U!SetPending
              \/ word = kConfirm /\ U!Confirm

\* One more: the switch of WriteRegister falls through from kSetPending.
FallingCommands(word, refused) ==
  \/ word = kPrepare /\ ~refused /\ U!Prepare
  \/ /\ word = kSetPending /\ U!Flush /\ U!SetUpdatePending /\ U!SetUpdateConfirmed
     /\ UNCHANGED <<slot0, fallback, fresh>> /\ (~refused => pending')
  \/ word = kConfirm /\ U!Confirm /\ (~refused => ~trial')

\* ModbusData hands the registers from FwBase on to the update.
Commands(word, refused) ==
  \/ word = kPrepare /\ ~refused /\ U!Prepare
  \/ word = kSetPending /\ U!SetPending /\ (~refused => pending')
  \/ word = kConfirm /\ U!Confirm /\ (~refused => ~trial')

RegisterWritten(refused) ==
  IF writes' = writes \/ S!Address < FwBase THEN ~refused /\ UNCHANGED update
  ELSE IF S!Address = FwBase + FwCommand THEN Commands(S!NextWord, refused)
  ELSE ~refused /\ U!WriteData(S!NextWord)

WriteRegister ==
  \E refused \in BOOLEAN :
    /\ S!WriteRegister(refused) /\ RegisterWritten(refused)
    /\ IF refused THEN Fault ELSE UNCHANGED faults
    /\ UNCHANGED master

Execute ==
  /\ S!Begin \/ S!ReadRegister(VersionOf[slot0]) \/ S!Complete
  /\ UNCHANGED <<update, master, faults>>

\* RAM after a reset.
SlaveStarts ==
  /\ pc' = "listening" /\ request' = S!NoRequest /\ exception' = "ok"
  /\ data' = [data EXCEPT !.reset = FALSE, !.available = FALSE]
  /\ values' = <<>> /\ writes' = <<>> /\ samples' = <<>>
  /\ response' = S!NoResponse /\ before' = FALSE

\* main() finds the reset flag set.
Reset ==
  /\ pc = "listening" /\ data.reset
  /\ SlaveStarts /\ U!Reset
  /\ UNCHANGED <<master, faults>>

\* The register write that is under way erases or programs flash.
ErasesSlot == writes = <<>> /\ request = Command(kPrepare)

ProgramsPage ==
  \/ request = Command(kSetPending)
  \/ request.fn = "writeMultiple" /\ Len(buffer) + 1 = BufferSize

PowerFails ==
  /\ Fault /\ SlaveStarts
  /\ \/ U!Reset
     \/ pc = "registers" /\ ErasesSlot /\ U!TornPrepare
     \/ pc = "registers" /\ ProgramsPage /\ U!TornWrite
     \/ pc = "registers" /\ request = Command(kSetPending) /\ U!FlushedNotMarked
  /\ IF waiting THEN TimesOut ELSE UNCHANGED master

\* Nothing is left to do.
Finished == step = "done" /\ pc = "listening" /\ ~data.reset /\ UNCHANGED vars

Work == Send \/ Deliver \/ WriteRegister \/ Execute \/ Reset

Next == Work \/ LoseRequest \/ LoseResponse \/ PowerFails \/ Finished

(***************************************************************************)
(* Fairness: the master goes on, and the unit answers; faults need not     *)
(* happen, and there are finitely many.                                    *)
(***************************************************************************)
Spec == Init /\ [][Next]_vars /\ WF_vars(Work)

-----------------------------------------------------------------------------
(* Properties.                                                             *)

(***************************************************************************)
(* Types.                                                                  *)
(***************************************************************************)
TypeOK ==
  /\ S!TypeOK /\ U!TypeOK /\ new \in Image
  /\ step \in {"prepare", "data", "pending", "reset", "version", "confirm",
               "check", "done"}
  /\ sent \in 0 .. Len(new)
  /\ waiting \in BOOLEAN /\ asked \in BOOLEAN
  /\ faults \in 0 .. MaxFaults

(***************************************************************************)
(* Between two requests of a transfer the unit has received the words that *)
(* were answered, every one of them once and nothing else; unless it was   *)
(* reset in between, which the master cannot know.                         *)
(***************************************************************************)
AnsweredIsReceived ==
  step \in {"data", "pending"} /\ ~waiting /\ fresh =>
    received = SubSeq(new, 1, sent)

(***************************************************************************)
(* A positive answer to kSetPending, in a transfer the unit was not reset  *)
(* in, means that the whole image is in the slot, marked, and that the     *)
(* next reset runs it.                                                     *)
(***************************************************************************)
AnsweredIsMarked ==
  [][step = "pending" /\ step' = "reset" /\ fresh =>
       pending /\ \A i \in 1 .. Len(new) : slot1[i - 1] = new[i]]_vars

(***************************************************************************)
(* The unit starts the new image only after the master asked for it with   *)
(* kSetPending in the transfer that brought it, whatever was lost and      *)
(* whenever the power failed.                                              *)
(***************************************************************************)
NotBeforeAsked == [][slot0 # new /\ slot0' = new => asked]_vars

(***************************************************************************)
(* Once the master is done the new image is confirmed: no reset brings the *)
(* old one back.                                                           *)
(***************************************************************************)
DoneIsDurable == step = "done" => slot0 = new /\ ~trial

(***************************************************************************)
(* The update, seen from outside: whatever is lost, refused or interrupted *)
(* the unit changes its image only as UpdatePromise says.                  *)
(***************************************************************************)
Phase ==
  IF step = "done" THEN "done"
  ELSE IF step \in {"confirm", "check"} THEN "seen"
  ELSE IF asked THEN "asked" ELSE "sending"

Promise ==
  INSTANCE UpdatePromise WITH
    runs <- IF slot0 = new THEN "new" ELSE "old",
    marked <- pending,
    phase <- Phase

KeepsPromise == Promise!Spec

(***************************************************************************)
(* When no more faults happen, the update succeeds: nothing that was lost  *)
(* or interrupted leaves the unit in a state that a new kPrepare does not  *)
(* repair.                                                                 *)
(***************************************************************************)
UpdateSucceeds == <>(step = "done")

=============================================================================
