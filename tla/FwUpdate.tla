------------------------------ MODULE FwUpdate ------------------------------
(***************************************************************************)
(* The firmware update: the registers of ModbusDataFwUpdate                *)
(* (src/src/modbus_data_fw_update.cc), the Bootloader behind them          *)
(* (src/src/bsp/bootloader.cc), the flash map, and MCUboot, whose effect   *)
(* on the two image slots at a reset is external and follows the comments  *)
(* of src/src/bootloader_interface.h.                                      *)
(*                                                                         *)
(* The master writes any registers in any order and may repeat a write     *)
(* whose response it lost.  Power may fail at any moment, also while pages *)
(* are erased or programmed.  What a write answers is left out: the answer *)
(* to a data word is always the same.                                      *)
(***************************************************************************)
EXTENDS FlashMap

CONSTANTS
  BufferSize,  \* capacity of write_buffer_ in words (512; kBufferSize is 1024)
  Image,       \* the images MCUboot takes for valid
  Factory      \* the image the unit is delivered with

ASSUME BufferAssumption == BufferSize = PageSize /\ BufferSize > 1

ASSUME ImageAssumption ==
  Factory \in Image /\ \A im \in Image : im \in Seq(Word) /\ Len(im) <= SlotSize

\* The header of an image says how long it is: none is the beginning of another.
ASSUME PrefixAssumption ==
  \A x, y \in Image :
    Len(x) <= Len(y) /\ (\A i \in 1 .. Len(x) : x[i] = y[i]) => x = y

VARIABLES
  buffer,    \* write_buffer_
  offset,    \* write_offset_
  slot1,     \* flash contents of image slot 1
  slot0,     \* the image that runs
  pending,   \* slot 1 is marked for the next reset
  trial,     \* slot 0 is not confirmed yet
  fallback,  \* the image slot 0 replaced
  fresh,     \* has there been a kPrepare since the last reset?
  received   \* words received since that kPrepare, with their padding

ram      == <<buffer, offset>>
boot     == <<slot0, trial, fallback>>
session  == <<fresh, received>>
vars     == <<buffer, offset, slot1, slot0, pending, trial, fallback,
              fresh, received>>

Blank == [i \in Slot |-> Erased]

Init ==
  /\ buffer = <<>> /\ offset = 0
  /\ slot1 = Blank /\ slot0 = Factory
  /\ pending = FALSE /\ trial = FALSE /\ fallback = Factory
  /\ fresh = FALSE /\ received = <<>>

-----------------------------------------------------------------------------
(* Slips the runs must notice, each put in the place of the definition it  *)
(* resembles.                                                              *)

\* resize() forgotten.
NoPadding == <<>>

\* The remaining bytes stay in the buffer.
NoFlush == UNCHANGED <<ram, slot1, received>>

\* clear() forgotten.
PrepareWithoutClear ==
  /\ slot1' = FlashAreaErase(slot1, 0, SlotSize).area
  /\ pending' = FALSE
  /\ offset' = 0 /\ UNCHANGED buffer
  /\ fresh' = TRUE /\ received' = <<>>
  /\ UNCHANGED boot

\* The end of the slot, where the mark is, is not erased.
PrepareWithoutMark ==
  /\ slot1' = FlashAreaErase(slot1, 0, SlotSize).area
  /\ UNCHANGED pending

\* The buffer written one word too late.
LateWriteData(w) ==
  /\ IF Len(buffer) = BufferSize
       THEN /\ slot1' = FlashAreaWrite(slot1, offset, buffer).area
            /\ offset' = offset + Len(buffer)
            /\ buffer' = <<w>>
       ELSE buffer' = Append(buffer, w) /\ UNCHANGED <<offset, slot1>>
  /\ received' = IF fresh THEN Append(received, w) ELSE received
  /\ UNCHANGED <<boot, pending, fresh>>

-----------------------------------------------------------------------------
(* The Bootloader, as far as it changes anything: boot_set_pending and      *)
(* boot_set_confirmed may fail.                                            *)

PrepareUpdate ==
  /\ slot1' = FlashAreaErase(slot1, 0, SlotSize).area
  /\ pending' = FALSE     \* the mark is in slot 1

WriteImageData(off, data) == slot1' = FlashAreaWrite(slot1, off, data).area

SetUpdatePending == pending' \in {pending, TRUE}

SetUpdateConfirmed == trial' \in {trial, FALSE}

-----------------------------------------------------------------------------
(* Register writes.                                                        *)

\* ModbusDataFwUpdate::WriteBuffer, which ignores what WriteImageData returns.
WriteBuffer(data) ==
  /\ WriteImageData(offset, data)
  /\ offset' = offset + Len(data)
  /\ buffer' = <<>>

Receive(words) == received' = IF fresh THEN received \o words ELSE received

Padding == [i \in 1 .. BufferSize - Len(buffer) |-> Erased]

Prepare ==
  /\ PrepareUpdate
  /\ buffer' = <<>> /\ offset' = 0
  /\ fresh' = TRUE /\ received' = <<>>
  /\ UNCHANGED boot

WriteData(w) ==
  LET data == Append(buffer, w)
  IN  /\ IF Len(data) = BufferSize
           THEN WriteBuffer(data)
           ELSE buffer' = data /\ UNCHANGED <<offset, slot1>>
      /\ Receive(<<w>>)
      /\ UNCHANGED <<boot, pending, fresh>>

Flush ==
  IF buffer = <<>>
    THEN UNCHANGED <<ram, slot1, received>>
    ELSE WriteBuffer(buffer \o Padding) /\ Receive(Padding)

SetPending ==
  /\ Flush
  /\ SetUpdatePending
  /\ UNCHANGED <<boot, fresh>>

Confirm ==
  /\ SetUpdateConfirmed
  /\ UNCHANGED <<ram, slot1, slot0, pending, fallback, session>>

-----------------------------------------------------------------------------
(* A reset: RAM is lost and MCUboot decides which image to run.            *)

Holds(area, im) == \A i \in 1 .. Len(im) : area[i - 1] = im[i]

\* A slot that holds an image, and whatever was behind it.
Stored(im, area) ==
  [i \in Slot |-> IF i < Len(im) THEN im[i + 1] ELSE area[i]]

Swap(area, im) ==
  /\ Holds(area, im)
  /\ slot0' = im
  /\ \E rest \in {Blank, area} : slot1' = Stored(slot0, rest)

RunNew(area, im) == Swap(area, im) /\ trial' = TRUE /\ fallback' = slot0

Revert(area, im) == Swap(area, im) /\ trial' = FALSE /\ UNCHANGED fallback

KeepImage(area) == slot1' = area /\ UNCHANGED boot

Boot(area, marked) ==
  LET found == {im \in Image : Holds(area, im)}
  IN  /\ IF found = {} \/ ~(marked \/ trial) THEN KeepImage(area)
         ELSE \E im \in found : IF marked THEN RunNew(area, im) ELSE Revert(area, im)
      /\ pending' = FALSE
      /\ buffer' = <<>> /\ offset' = 0
      /\ fresh' = FALSE /\ received' = <<>>

Reset == Boot(slot1, pending)

\* Power fails while Prepare erases the slot: some pages are erased, or half so.
TornPrepare ==
  \E pages \in SUBSET (0 .. SlotPages - 1), cell \in {Erased, Garbled} :
    \E marked \in {FALSE, pending} :
      Boot([i \in Slot |-> IF PageOf(i) \in pages THEN cell ELSE slot1[i]], marked)

\* Power fails while a page is programmed.
TornWrite ==
  /\ buffer # <<>> /\ PageOf(offset) < SlotPages
  /\ Boot([i \in Slot |-> IF PageOf(i) = PageOf(offset) THEN Garbled ELSE slot1[i]],
          pending)

\* Power fails when kSetPending has flushed the buffer and not yet marked the image.
FlushedNotMarked ==
  /\ buffer # <<>>
  /\ Boot(FlashAreaWrite(slot1, offset, buffer \o Padding).area, pending)

Next ==
  \/ Prepare \/ (\E w \in Word : WriteData(w)) \/ SetPending \/ Confirm
  \/ Reset \/ TornPrepare \/ TornWrite \/ FlushedNotMarked

Spec == Init /\ [][Next]_vars

-----------------------------------------------------------------------------
(* Properties.                                                             *)

(***************************************************************************)
(* Types.  The write buffer always has room for one more word.             *)
(***************************************************************************)
TypeOK ==
  /\ buffer \in Seq(Word) /\ Len(buffer) < BufferSize
  /\ offset \in Nat
  /\ slot1 \in [Slot -> Cell]
  /\ {slot0, fallback} \subseteq Image
  /\ {pending, trial, fresh} \subseteq BOOLEAN
  /\ received \in Seq(Word)

(***************************************************************************)
(* The buffer is written to whole pages: flash_area_write never refuses it *)
(* for crossing a page, a refusal WriteBuffer would not notice.            *)
(***************************************************************************)
WholePages == offset % PageSize = 0

(***************************************************************************)
(* In a session that began with kPrepare, what was received is in slot 1   *)
(* and, from write_offset_ on, in the buffer: every word once, in order.   *)
(* What lies behind is erased, so that the next page will take its data.   *)
(***************************************************************************)
SlotHoldsSession ==
  fresh =>
    /\ Len(received) = offset + Len(buffer)
    /\ \A i \in 1 .. Len(buffer) : buffer[i] = received[offset + i]
    /\ \A i \in Slot : slot1[i] = IF i < offset THEN received[i + 1] ELSE Erased

(***************************************************************************)
(* Nothing received stays behind in RAM when the image is marked: the      *)
(* buffer is flushed first, and all of it is in the slot.                  *)
(***************************************************************************)
MarkedWhenComplete ==
  [][fresh /\ ~pending /\ pending' =>
       buffer' = <<>> /\ \A i \in Slot : i < Len(received) => slot1'[i] = received[i + 1]]_vars

(***************************************************************************)
(* A reset after a whole image was sent and marked, in a session that      *)
(* began with kPrepare, runs the image that was sent, and keeps the one    *)
(* that ran in slot 1, to return to.                                       *)
(***************************************************************************)
IsReceived(im) ==
  Len(im) <= offset /\ \A i \in 1 .. Len(im) : im[i] = received[i]

UpdateTakesEffect ==
  [][/\ Reset /\ fresh /\ pending /\ offset <= SlotSize
     /\ \E im \in Image : IsReceived(im)
     => IsReceived(slot0') /\ fallback' = slot0 /\ Holds(slot1', slot0)]_vars

(***************************************************************************)
(* WriteImageData returns true when the data was written                   *)
(* (bootloader_interface.h:15-17), which flash_map_backend.cc:78 relies on *)
(* an assertion for: data it returned true for is in the slot.  The code   *)
(* violates it.                                                            *)
(***************************************************************************)
ReportedWritten ==
  fresh => \A i \in 1 .. offset : i - 1 \in Slot /\ slot1[i - 1] = received[i]

(***************************************************************************)
(* A reset of an image that was not confirmed brings the previous image    *)
(* back (bootloader_interface.h:24-26).  The code violates it.             *)
(***************************************************************************)
RevertsToPrevious == [][Reset /\ trial /\ ~pending => slot0' = fallback]_vars

=============================================================================
