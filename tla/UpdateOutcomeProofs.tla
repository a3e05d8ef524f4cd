------------------------- MODULE UpdateOutcomeProofs -------------------------
(***************************************************************************)
(* What an update over the bus comes to: a master that has its answers can *)
(* rely on them (AnsweredIsMarked, DoneIsDurable), and the unit does not   *)
(* run the new image before it was asked to (NotBeforeAsked).  The results *)
(* of FwUpdateProofs are those of the update behind the slave, and are     *)
(* used here as UP.                                                        *)
(*                                                                         *)
(* The argument on NotBeforeAsked and DoneIsDurable is one on where words  *)
(* in flash come from: slot 1 never holds a word that is in no image but   *)
(* the old and the new one, and from an answered kPrepare to the reset     *)
(* none that is not in the new one (Marks), however a transfer was torn    *)
(* or continued at a wrong offset.  With HashAssumption the only image     *)
(* that can be found there is the new one.                                 *)
(***************************************************************************)
EXTENDS UpdateSessionProofs

UP == INSTANCE FwUpdateProofs WITH Word <- 0 .. WordMod - 1

WordsOf(im) == {im[i] : i \in 1 .. Len(im)}

\* The contents of a cell come from one of these images, or from none.
From(cell, images) ==
  cell \in {Erased, Garbled} \/ \E im \in images : cell \in WordsOf(im)

OnlyFrom(area, images) == \A i \in U!Slot : From(area[i], images)

(* What can be in flash, and which image runs.                             *)
Contents ==
  /\ new # Factory
  /\ buffer \in Seq(WordsOf(new)) /\ offset \in Nat
  /\ pending \in BOOLEAN /\ trial \in BOOLEAN
  /\ OnlyFrom(slot1, {new, Factory})
  /\ slot0 \in {new, Factory}

(* What comes of a request.                                                *)
Outcome ==
  /\ data \in [reset : BOOLEAN, measurement : Raw, available : BOOLEAN]
  /\ pc \in {"listening", "execute"} => values = <<>>
  /\ pc = "answer" /\ response.kind = "exception" => exception # "ok"
  /\ pc = "answer" /\ response.kind \notin {"none", "exception"} => exception = "ok"
  /\ step = "prepare" /\ pc # "listening" => exception = "ok"

(* When slot 1 may be marked, and what is in it then.                      *)
Marks ==
  /\ trial => slot0 = new
  /\ pending => asked /\ OnlyFrom(slot1, {new})
  /\ step \in {"data", "pending"} => OnlyFrom(slot1, {new})
  /\ step = "data" \/ (step = "pending" /\ ~waiting) => ~asked
  /\ step = "pending" /\ waiting => asked
  /\ step = "prepare" /\ writes # <<>> => ~pending /\ OnlyFrom(slot1, {new})

(* What kSetPending leaves.                                                *)
Complete ==
  /\ step = "pending" => sent = Len(new)
  /\ step = "pending" /\ writes # <<>> =>
       /\ fresh => U!Holds(slot1, new)
       /\ exception = "ok" => pending

(* From the reset on.                                                      *)
Confirmation ==
  /\ step \in {"prepare", "data", "pending", "reset", "version", "confirm", "check", "done"}
  /\ step = "reset" /\ writes # <<>> => data.reset
  /\ step = "version" => data.reset \/ ~pending
  /\ step = "version" /\ waiting => ~data.reset
  /\ step \in {"confirm", "check", "done"} => ~pending
  /\ step = "confirm" /\ writes # <<>> /\ exception = "ok" => ~trial
  /\ step \in {"check", "done"} => ~trial
  /\ step = "done" => slot0 = new
  /\ step \in {"version", "check"} => values \in {<<>>, <<VersionOf[slot0]>>}

(* What the master has sent since kPrepare was answered.                   *)
Asked ==
  /\ step \in {"reset", "version", "confirm", "check", "done"} => asked
  /\ step = "done" => ~waiting

(* What else TypeOK says.                                                  *)
Types ==
  /\ exception \in {"ok", "invalid frame", "illegal function",
                    "illegal data value", "illegal data address"}
  /\ values \in Seq(Word) /\ samples \in Seq(Raw)
  /\ response.kind \in {"none", "values", "written", "exception"}
  /\ {before, waiting, asked} \subseteq BOOLEAN
  /\ faults \in 0 .. MaxFaults

-----------------------------------------------------------------------------
(* The update behind the slave, as FwUpdateProofs has it.                  *)

LEMMA UpdateConstants ==
  /\ UP!PageAssumption /\ UP!BufferAssumption /\ UP!ImageAssumption /\ UP!PrefixAssumption
BY UpdateAssumption
   DEF U!PageAssumption, U!BufferAssumption, U!ImageAssumption, U!PrefixAssumption,
       U!SlotSize, UP!PageAssumption, UP!BufferAssumption, UP!ImageAssumption,
       UP!PrefixAssumption, UP!SlotSize

LEMMA SameSetPending == U!SetPending => UP!SetPending
BY DEF U!SetPending, U!Flush, U!SetUpdatePending, U!WriteBuffer, U!WriteImageData,
       U!Padding, U!Receive, U!boot, U!ram, U!FlashAreaWrite, U!CopyRamToFlash, U!Merged,
       U!PageOf, U!Programmed, U!Slot, U!SlotSize,
       UP!SetPending, UP!Flush, UP!SetUpdatePending, UP!WriteBuffer, UP!WriteImageData,
       UP!Padding, UP!Receive, UP!boot, UP!ram, UP!FlashAreaWrite, UP!CopyRamToFlash,
       UP!Merged, UP!PageOf, UP!Programmed, UP!Slot, UP!SlotSize

LEMMA SamePrepare == U!Prepare => UP!Prepare
BY DEF U!Prepare, U!PrepareUpdate, U!FlashAreaErase, U!EraseSectors, U!PageOf, U!Slot,
       U!SlotSize, U!boot, UP!Prepare, UP!PrepareUpdate, UP!FlashAreaErase,
       UP!EraseSectors, UP!PageOf, UP!Slot, UP!SlotSize, UP!boot

LEMMA SameBoot ==
  ASSUME NEW area, NEW marked PROVE U!Boot(area, marked) => UP!Boot(area, marked)
BY DEF U!Boot, U!Holds, U!KeepImage, U!RunNew, U!Revert, U!Swap, U!Stored, U!Blank,
       U!boot, U!Slot, U!SlotSize,
       UP!Boot, UP!Holds, UP!KeepImage, UP!RunNew, UP!Revert, UP!Swap, UP!Stored, UP!Blank,
       UP!boot, UP!Slot, UP!SlotSize

LEMMA SameNext == [U!Next]_U!vars => [UP!Next]_UP!vars
<1> SUFFICES ASSUME [U!Next]_U!vars PROVE UP!Next \/ UNCHANGED UP!vars
  OBVIOUS
<1>1. CASE U!Prepare
  BY <1>1, SamePrepare DEF UP!Next
<1>2. ASSUME NEW w \in 0 .. WordMod - 1, U!WriteData(w) PROVE UP!Next
  <2>1. UP!WriteData(w)
    BY <1>2 DEF U!WriteData, U!WriteBuffer, U!WriteImageData, U!Receive, U!boot,
         U!FlashAreaWrite, U!CopyRamToFlash, U!Merged, U!PageOf, U!Programmed, U!Slot,
         U!SlotSize, UP!WriteData, UP!WriteBuffer, UP!WriteImageData, UP!Receive, UP!boot,
         UP!FlashAreaWrite, UP!CopyRamToFlash, UP!Merged, UP!PageOf, UP!Programmed,
         UP!Slot, UP!SlotSize
  <2> QED
    BY <2>1 DEF UP!Next
<1>3. CASE U!SetPending
  BY <1>3, SameSetPending DEF UP!Next
<1>4. CASE U!Confirm
  BY <1>4 DEF U!Confirm, U!SetUpdateConfirmed, U!ram, U!session,
       UP!Next, UP!Confirm, UP!SetUpdateConfirmed, UP!ram, UP!session
<1>5. CASE U!Reset
  BY <1>5, SameBoot DEF U!Reset, UP!Reset, UP!Next
<1>6. CASE U!TornPrepare
  <2>1. UP!TornPrepare
    BY <1>6, SameBoot DEF U!TornPrepare, U!Slot, U!SlotSize, U!PageOf,
         UP!TornPrepare, UP!Slot, UP!SlotSize, UP!PageOf
  <2> QED
    BY <2>1 DEF UP!Next
<1>7. CASE U!TornWrite
  <2>1. UP!TornWrite
    BY <1>7, SameBoot DEF U!TornWrite, U!Slot, U!SlotSize, U!PageOf,
         UP!TornWrite, UP!Slot, UP!SlotSize, UP!PageOf
  <2> QED
    BY <2>1 DEF UP!Next
<1>8. CASE U!FlushedNotMarked
  <2>1. UP!FlushedNotMarked
    BY <1>8, SameBoot DEF U!FlushedNotMarked, U!Padding, U!FlashAreaWrite,
         U!CopyRamToFlash, U!Merged, U!PageOf, U!Programmed, U!Slot, U!SlotSize,
         UP!FlushedNotMarked, UP!Padding, UP!FlashAreaWrite, UP!CopyRamToFlash,
         UP!Merged, UP!PageOf, UP!Programmed, UP!Slot, UP!SlotSize
  <2> QED
    BY <2>1 DEF UP!Next
<1>9. CASE UNCHANGED U!vars
  BY <1>9 DEF U!vars, UP!vars
<1> QED
  BY <1>1, <1>2, <1>3, <1>4, <1>5, <1>6, <1>7, <1>8, <1>9 DEF U!Next

LEMMA InitUpdate == Init => UP!Consistent
<1>1. Init => UP!Init
  BY DEF Init, U!Init, U!Blank, U!Slot, U!SlotSize, UP!Init, UP!Blank, UP!Slot, UP!SlotSize
<1> QED
  BY <1>1, UpdateConstants, UP!InitConsistent

LEMMA NextUpdate == Words /\ UP!Consistent /\ [Next]_vars => UP!Consistent'
BY UpdateStep, SameNext, UpdateConstants, UP!NextConsistent

-----------------------------------------------------------------------------
(* Where the words in flash come from.                                     *)

LEMMA MoreImages ==
  ASSUME NEW area, NEW images, NEW more, images \subseteq more, OnlyFrom(area, images)
  PROVE  OnlyFrom(area, more)
BY DEF OnlyFrom, From

LEMMA BlankFrom == \A images : OnlyFrom(U!Blank, images)
BY DEF OnlyFrom, From, U!Blank

(* flash_area_write leaves cells as they were, writes words, or spoils a cell. *)
LEMMA WrittenFrom ==
  ASSUME NEW area, NEW images, OnlyFrom(area, images), NEW off \in Nat,
         NEW words \in Seq(Int), \A k \in 1 .. Len(words) : From(words[k], images)
  PROVE  OnlyFrom(U!FlashAreaWrite(area, off, words).area, images)
<1> DEFINE page == U!PageOf(off)
           merged == U!Merged(area, off, words)
<1>1. PageSize \in Nat \ {0} /\ U!Slot \subseteq Nat
  BY UpdateAssumption DEF U!PageAssumption, U!Slot
<1>2. ASSUME NEW k \in 1 .. PageSize PROVE From(merged[k], images)
  <2> DEFINE i == PageSize * page + k - 1
  <2>1. merged[k] = IF i \in off .. off + Len(words) - 1 THEN words[i - off + 1]
                    ELSE IF i \in U!Slot THEN area[i] ELSE Garbled
    BY <1>2 DEF U!Merged
  <2>2. CASE i \in off .. off + Len(words) - 1
    <3>1. i - off + 1 \in 1 .. Len(words)
      BY <2>2
    <3> QED
      BY <2>1, <2>2, <3>1
  <2>3. CASE i \notin off .. off + Len(words) - 1
    BY <2>1, <2>3 DEF OnlyFrom, From
  <2> QED
    BY <2>2, <2>3
<1>3. ASSUME NEW i \in U!Slot PROVE From(U!CopyRamToFlash(area, page, merged)[i], images)
  <2> DEFINE k == (i % PageSize) + 1
  <2>1. k \in 1 .. PageSize
    BY <1>1
  <2> HIDE DEF k, merged
  <2>2. From(merged[k], images)
    BY <1>2, <2>1
  <2>3. From(area[i], images)
    BY DEF OnlyFrom
  <2>4. U!Programmed(area[i], merged[k]) \in {area[i], merged[k], Garbled}
    BY DEF U!Programmed
  <2>5. From(U!Programmed(area[i], merged[k]), images)
    BY <2>2, <2>3, <2>4 DEF From
  <2>6. U!CopyRamToFlash(area, page, merged)[i]
          = IF U!PageOf(i) = page THEN U!Programmed(area[i], merged[k]) ELSE area[i]
    BY DEF U!CopyRamToFlash, k
  <2> QED
    BY <2>3, <2>5, <2>6
<1>4. U!FlashAreaWrite(area, off, words).area \in
        {area, U!CopyRamToFlash(area, page, merged)}
  BY DEF U!FlashAreaWrite
<1> HIDE DEF page, merged
<1> QED
  BY <1>3, <1>4 DEF OnlyFrom

(* The writes of the update, for words of the new image.                   *)
LEMMA BufferFrom ==
  ASSUME Words, Contents, NEW words \in Seq(Int), NEW images, new \in images,
         \A k \in 1 .. Len(words) : words[k] = Erased \/ words[k] \in WordsOf(new),
         OnlyFrom(slot1, images), U!WriteBuffer(words)
  PROVE  buffer' = <<>> /\ offset' \in Nat /\ OnlyFrom(slot1', images)
<1>1. /\ buffer' = <<>> /\ offset' = offset + Len(words)
      /\ slot1' = U!FlashAreaWrite(slot1, offset, words).area
  BY DEF U!WriteBuffer, U!WriteImageData
<1>2. \A k \in 1 .. Len(words) : From(words[k], images)
  BY DEF From
<1>3. offset \in Nat /\ Len(words) \in Nat
  BY DEF Contents
<1> QED
  BY <1>1, <1>2, <1>3, WrittenFrom

LEMMA DataFrom ==
  ASSUME Words, Contents, NEW images, new \in images, OnlyFrom(slot1, images),
         NEW w \in WordsOf(new), U!WriteData(w)
  PROVE  /\ buffer' \in Seq(WordsOf(new)) /\ offset' \in Nat /\ OnlyFrom(slot1', images)
         /\ UNCHANGED <<slot0, trial, pending, fresh>>
<1> DEFINE W == WordsOf(new)
<1>1. W \subseteq Int /\ buffer \in Seq(W) /\ w \in W /\ offset \in Nat
  <2>1. new \in Seq(Word)
    BY WordAssumption DEF Words, Word
  <2>2. \A i \in 1 .. Len(new) : new[i] \in Word
    BY <2>1
  <2> QED
    BY <2>2, Zero DEF Contents, WordsOf, Word
<1> HIDE DEF W
<1> DEFINE words == Append(buffer, w)
<1>2. words \in Seq(W)
  BY <1>1
<1>3. words \in Seq(Int) /\ \A k \in 1 .. Len(words) : words[k] \in W
  <2> HIDE DEF words
  <2>1. words \in Seq(Int)
    BY <1>1, <1>2, SeqMonotonic
  <2>2. \A k \in 1 .. Len(words) : words[k] \in W
    BY <1>2
  <2> QED
    BY <2>1, <2>2
<1> HIDE DEF words
<1>4. /\ U!WriteBuffer(words) \/ (buffer' = words /\ UNCHANGED <<offset, slot1>>)
      /\ UNCHANGED <<slot0, trial, pending, fresh>>
  BY DEF U!WriteData, U!boot, words
<1>5. CASE U!WriteBuffer(words)
  <2>1. buffer' = <<>> /\ offset' \in Nat /\ OnlyFrom(slot1', images)
    BY <1>3, <1>5, BufferFrom DEF W
  <2>2. <<>> \in Seq(W)
    OBVIOUS
  <2> QED
    BY <1>4, <2>1, <2>2 DEF W
<1>6. CASE buffer' = words /\ UNCHANGED <<offset, slot1>>
  BY <1>1, <1>2, <1>4, <1>6 DEF W
<1> QED
  BY <1>4, <1>5, <1>6

(* The buffer filled up holds words of the new image and erased ones.      *)
LEMMA FilledFrom ==
  ASSUME Words, Contents
  PROVE  /\ buffer \o U!Padding \in Seq(Int)
         /\ \A k \in 1 .. Len(buffer \o U!Padding) :
              \/ (buffer \o U!Padding)[k] = Erased
              \/ (buffer \o U!Padding)[k] \in WordsOf(new)
<1> DEFINE W == WordsOf(new)
           V == W \cup {Erased}
           words == buffer \o U!Padding
<1>1. W \subseteq Int /\ buffer \in Seq(W)
  <2>1. new \in Seq(Word)
    BY WordAssumption DEF Words, Word
  <2>2. \A i \in 1 .. Len(new) : new[i] \in Word
    BY <2>1
  <2> QED
    BY <2>2, Zero DEF Contents, WordsOf, Word
<1> HIDE DEF W
<1>2. BufferSize \in Nat /\ Erased \in Int
  BY UpdateAssumption, Zero DEF U!PageAssumption, U!BufferAssumption, Word
<1>3. V \subseteq Int /\ buffer \in Seq(V)
  BY <1>1, <1>2, SeqMonotonic
<1>4. U!Padding \in Seq(V)
  <2> DEFINE n == BufferSize - Len(buffer)
  <2>1. n \in Int /\ Erased \in V
    BY <1>1, <1>2
  <2>2. CASE n \in Nat
    <3> HIDE DEF V
    <3> QED
      BY <2>1, <2>2 DEF U!Padding
  <2>3. CASE n \notin Nat
    <3>1. 1 .. n = 1 .. 0
      BY <2>1, <2>3
    <3>2. [i \in 1 .. 0 |-> Erased] \in Seq(V)
      BY <2>1 DEF V
    <3> QED
      BY <3>1, <3>2 DEF U!Padding
  <2> QED
    BY <2>2, <2>3
<1>5. words \in Seq(V)
  <2> HIDE DEF V
  <2> QED
    BY <1>3, <1>4, ConcatProperties
<1> HIDE DEF words, V
<1>6. words \in Seq(Int)
  BY <1>3, <1>5, SeqMonotonic
<1>7. \A k \in 1 .. Len(words) : words[k] \in V
  BY <1>5
<1> QED
  BY <1>6, <1>7 DEF V, W, words

LEMMA MarkFrom ==
  ASSUME Words, Contents, U!SetPending,
         NEW images, new \in images, OnlyFrom(slot1, images)
  PROVE  /\ buffer' \in Seq(WordsOf(new)) /\ offset' \in Nat /\ OnlyFrom(slot1', images)
         /\ UNCHANGED <<slot0, trial, fresh>> /\ pending' \in BOOLEAN
<1> DEFINE W == WordsOf(new)
           words == buffer \o U!Padding
<1>1. U!Flush /\ UNCHANGED <<slot0, trial, fresh>> /\ pending' \in {pending, TRUE}
  BY DEF U!SetPending, U!SetUpdatePending, U!boot
<1>2. pending' \in BOOLEAN
  BY <1>1 DEF Contents
<1>3. CASE buffer = <<>>
  <2>1. UNCHANGED <<buffer, offset, slot1>>
    BY <1>1, <1>3 DEF U!Flush, U!ram
  <2> QED
    BY <1>1, <1>2, <2>1 DEF Contents
<1>4. CASE buffer # <<>>
  <2>1. U!WriteBuffer(words)
    BY <1>1, <1>4 DEF U!Flush
  <2>2. /\ words \in Seq(Int)
        /\ \A k \in 1 .. Len(words) : words[k] = Erased \/ words[k] \in W
    BY FilledFrom
  <2>3. buffer' = <<>> /\ offset' \in Nat /\ OnlyFrom(slot1', images)
    <3> HIDE DEF words
    <3> QED
      BY <2>1, <2>2, BufferFrom
  <2>4. <<>> \in Seq(W)
    OBVIOUS
  <2> QED
    BY <1>1, <1>2, <2>3, <2>4
<1> QED
  BY <1>3, <1>4

LEMMA PreparedFrom ==
  ASSUME UP!Consistent, U!Prepare
  PROVE  /\ buffer' = <<>> /\ offset' = 0 /\ pending' = FALSE
         /\ UNCHANGED <<slot0, trial>>
         /\ \A images : OnlyFrom(slot1', images)
<1>1. /\ buffer' = <<>> /\ offset' = 0 /\ pending' = FALSE /\ UNCHANGED <<slot0, trial>>
      /\ slot1' = U!FlashAreaErase(slot1, 0, U!SlotSize).area
  BY DEF U!Prepare, U!PrepareUpdate, U!boot
<1>2. UP!FlashAreaErase(slot1, 0, UP!SlotSize).area = UP!Blank
  BY UpdateConstants, UP!SlotErased DEF UP!Consistent, UP!TypeOK
<1>3. U!FlashAreaErase(slot1, 0, U!SlotSize) = UP!FlashAreaErase(slot1, 0, UP!SlotSize)
  BY DEF U!FlashAreaErase, U!EraseSectors, U!PageOf, U!Slot, U!SlotSize,
         UP!FlashAreaErase, UP!EraseSectors, UP!PageOf, UP!Slot, UP!SlotSize
<1>4. slot1' = U!Blank
  BY <1>1, <1>2, <1>3 DEF U!Blank, UP!Blank, U!Slot, U!SlotSize, UP!Slot, UP!SlotSize
<1> QED
  BY <1>1, <1>4, BlankFrom

(* The only images that can be found are those the words come from.        *)
LEMMA FoundFrom ==
  ASSUME NEW area, NEW images \in SUBSET Image, OnlyFrom(area, images),
         NEW im \in Image, U!Holds(area, im)
  PROVE  im \in images
<1>1. PICK i \in 1 .. Len(im) :
        /\ im[i] # Erased
        /\ \A other \in Image \ {im} : \A j \in 1 .. Len(other) : other[j] # im[i]
  BY HashAssumption
<1>2. /\ im \in Seq(0 .. WordMod - 1) /\ Len(im) \in Nat
      /\ Len(im) <= U!SlotSize /\ Garbled \notin 0 .. WordMod - 1
      /\ U!SlotSize \in Nat
  <2>1. /\ im \in Seq(0 .. WordMod - 1) /\ Len(im) <= U!SlotSize
        /\ Garbled \notin 0 .. WordMod - 1 /\ U!SlotSize \in Nat
    BY UpdateAssumption DEF U!ImageAssumption, U!PageAssumption, U!SlotSize
  <2> QED
    BY <2>1
<1>3. i - 1 \in U!Slot /\ area[i - 1] = im[i] /\ im[i] \in 0 .. WordMod - 1
  <2>1. i \in 1 .. Len(im) /\ i - 1 \in 0 .. U!SlotSize - 1
    BY <1>2
  <2>2. area[i - 1] = im[i]
    BY DEF U!Holds
  <2>3. im[i] \in 0 .. WordMod - 1
    <3> DEFINE W == 0 .. WordMod - 1
    <3>1. im \in Seq(W)
      BY <1>2
    <3> HIDE DEF W
    <3>2. im[i] \in W
      BY <2>1, <3>1
    <3> QED
      BY <3>2 DEF W
  <2> QED
    BY <2>1, <2>2, <2>3 DEF U!Slot
<1>4. From(im[i], images)
  BY <1>3 DEF OnlyFrom
<1>5. PICK other \in images : im[i] \in WordsOf(other)
  BY <1>1, <1>2, <1>3, <1>4 DEF From
<1>6. PICK j \in 1 .. Len(other) : im[i] = other[j]
  BY <1>5 DEF WordsOf
<1> QED
  BY <1>1, <1>6

(* A slot that an image was swapped into.                                  *)
LEMMA StoredFrom ==
  ASSUME NEW area, NEW images, OnlyFrom(area, images), NEW im \in Image, im \in images
  PROVE  OnlyFrom(U!Stored(im, area), images)
<1>1. im \in Seq(0 .. WordMod - 1)
  BY UpdateAssumption DEF U!ImageAssumption
<1>2. ASSUME NEW i \in U!Slot PROVE From(U!Stored(im, area)[i], images)
  <2>1. U!Stored(im, area)[i] = IF i < Len(im) THEN im[i + 1] ELSE area[i]
    BY DEF U!Stored
  <2>2. CASE i < Len(im)
    <3>1. Len(im) \in Nat /\ i \in Nat
      BY <1>1 DEF U!Slot
    <3>2. i + 1 \in 1 .. Len(im)
      BY <2>2, <3>1
    <3> QED
      BY <2>1, <2>2, <3>2 DEF From, WordsOf
  <2>3. CASE ~(i < Len(im))
    BY <2>1, <2>3 DEF OnlyFrom
  <2> QED
    BY <2>2, <2>3
<1> QED
  BY <1>2 DEF OnlyFrom

(* What a reset makes of a slot: only a mark, or a trial, changes anything, *)
(* and a mark starts the new image because no other can be found.          *)
LEMMA AfterBoot ==
  ASSUME Words, Contents, trial => slot0 = new,
         NEW area, OnlyFrom(area, {new, Factory}),
         NEW marked \in BOOLEAN, marked => OnlyFrom(area, {new}),
         U!Boot(area, marked)
  PROVE  /\ pending' = FALSE /\ buffer' = <<>> /\ offset' = 0 /\ fresh' = FALSE
         /\ trial' \in BOOLEAN /\ (trial' => slot0' = new)
         /\ slot0' \in {new, Factory} /\ OnlyFrom(slot1', {new, Factory})
         /\ ~marked => slot0' = slot0 \/ trial
         /\ ~marked => ~trial' \/ trial
         /\ ~marked /\ OnlyFrom(area, {new}) => OnlyFrom(slot1', {new})
         /\ \/ slot0' = slot0 /\ trial' = trial
            \/ marked /\ slot0' = new /\ trial' = TRUE
            \/ trial /\ trial' = FALSE
<1>1. pending' = FALSE /\ buffer' = <<>> /\ offset' = 0 /\ fresh' = FALSE
  BY DEF U!Boot
<1>2. new \in Image /\ Factory \in Image
  BY UpdateAssumption DEF Words, U!ImageAssumption
<1>3. CASE U!KeepImage(area)
  <2>1. slot1' = area /\ slot0' = slot0 /\ trial' = trial
    BY <1>3 DEF U!KeepImage, U!boot
  <2> QED
    BY <1>1, <2>1 DEF Contents
<1>4. CASE ~U!KeepImage(area)
  <2>1. PICK im \in Image : /\ U!Holds(area, im) /\ (marked \/ trial)
                            /\ IF marked THEN U!RunNew(area, im) ELSE U!Revert(area, im)
    BY <1>4 DEF U!Boot
  <2>2. U!Swap(area, im) /\ trial' = marked
    BY <2>1 DEF U!RunNew, U!Revert
  <2>3. im \in {new, Factory} /\ (marked => im = new)
    <3>1. im \in {new, Factory}
      BY <1>2, <2>1, FoundFrom
    <3>2. marked => im \in {new}
      BY <1>2, <2>1, FoundFrom
    <3> QED
      BY <3>1, <3>2
  <2>4. PICK rest \in {U!Blank, area} : slot0' = im /\ slot1' = U!Stored(slot0, rest)
    BY <2>2 DEF U!Swap
  <2>5. OnlyFrom(slot1', {new, Factory})
    <3>1. OnlyFrom(rest, {new, Factory}) /\ slot0 \in Image /\ slot0 \in {new, Factory}
      BY <1>2, BlankFrom DEF Contents
    <3> QED
      BY <2>4, <3>1, StoredFrom
  <2>6. ASSUME ~marked, OnlyFrom(area, {new}) PROVE OnlyFrom(slot1', {new})
    <3>1. OnlyFrom(rest, {new}) /\ slot0 \in Image /\ slot0 \in {new}
      BY <1>2, <2>1, <2>6, BlankFrom DEF Contents
    <3> QED
      BY <2>4, <3>1, StoredFrom
  <2>7. ~marked => trial /\ trial' = FALSE
    <3>1. marked = TRUE \/ marked = FALSE
      OBVIOUS
    <3> QED
      BY <2>1, <2>2, <3>1
  <2>8. marked => slot0' = new /\ trial' = TRUE
    BY <2>1, <2>3, <2>4 DEF U!RunNew
  <2> QED
    BY <1>1, <2>2, <2>3, <2>4, <2>5, <2>6, <2>7, <2>8
<1> QED
  BY <1>3, <1>4

-----------------------------------------------------------------------------
(* The steps that change something, in terms of the master's step.         *)

(* The reset register is written once.                                     *)
LEMMA ResetWord ==
  ASSUME Words, request = Write(ResetReg, 1),
         NEW refused \in BOOLEAN, S!WriteRegister(refused)
  PROVE  /\ S!Address < FwBase
         /\ data' = [data EXCEPT !.reset = TRUE]
         /\ UNCHANGED exception
<1>1. writes \in Seq(Word \X Word) /\ Len(writes) \in Nat
  <2>1. writes \in Seq(Word \X Word)
    BY DEF Words
  <2> QED
    BY <2>1
<1>2. request.fn = "write" /\ request.fields = <<ResetReg, 1>>
  BY DEF Write
<1>3. S!Done = Len(writes) /\ Len(writes) = 0
  <2>1. S!Done = Len(writes) /\ Len(writes) < 1
    BY <1>2 DEF S!Done, S!WriteRegister, S!InLoop, S!Quantity
  <2> QED
    BY <1>1, <2>1
<1>4. S!NextField = 2 /\ S!NextWord = 1 /\ Len(request.fields) = 2
  <2>1. S!NextField = 2
    BY <1>2, <1>3 DEF S!NextField
  <2>2. S!NextWord = 1 /\ Len(request.fields) = 2
    BY <1>2, <2>1 DEF S!NextWord
  <2> QED
    BY <2>1, <2>2
<1>5. /\ WordMod \in Nat \ {0} /\ FwBase \in 0 .. WordMod - 1 /\ FwCommand \in Nat
      /\ ResetReg \in 4 .. FwBase - 1
  BY WordAssumption
<1>6. S!Address = ResetReg
  <2>1. ResetReg \in 0 .. WordMod - 1
    BY <1>5
  <2>2. \A n \in Nat \ {0} : \A x \in 0 .. n - 1 : x % n = x
    OBVIOUS
  <2>3. ResetReg % WordMod = ResetReg
    BY <1>5, <2>1, <2>2
  <2>4. request.fields[1] + S!Done = ResetReg
    BY <1>2, <1>3, <1>5
  <2> QED
    BY <2>3, <2>4 DEF S!Address
<1>7. S!Address \in S!Writable /\ S!Address # FwBase + FwCommand /\ S!Address < FwBase
  BY <1>5, <1>6 DEF S!Writable
<1>8. data' = [data EXCEPT !.reset = S!ResetAsked(1)] /\ UNCHANGED exception
  <2>1. ~(Len(request.fields) < S!NextField)
    BY <1>4
  <2>2. data' = [data EXCEPT !.reset = S!ResetAsked(S!NextWord)] /\ UNCHANGED exception
    BY <1>6, <1>7, <2>1 DEF S!WriteRegister
  <2> QED
    BY <1>4, <2>2
<1>9. S!ResetAsked(1) = TRUE
  BY DEF S!ResetAsked
<1> QED
  BY <1>7, <1>8, <1>9

(* A register write, for each request of the master.                       *)
LEMMA Written ==
  ASSUME Words, Turn, WriteRegister
  PROVE  /\ pc = "registers" /\ waiting /\ pc' \in {"registers", "complete"}
         /\ UNCHANGED <<master, request, response, values>>
         /\ \/ step = "prepare" /\ U!Prepare /\ UNCHANGED <<exception, data>>
            \/ /\ step = "data" /\ UNCHANGED data
               /\ UNCHANGED update \/ \E w \in WordsOf(new) : U!WriteData(w)
            \/ /\ step = "pending" /\ U!SetPending /\ UNCHANGED data
               /\ writes = <<>> /\ (exception' = "ok" => pending')
            \/ step = "reset" /\ UNCHANGED update /\ data' = [data EXCEPT !.reset = TRUE]
            \/ /\ step = "confirm" /\ U!Confirm /\ UNCHANGED data
               /\ exception' = "ok" => ~trial'
<1>0. kPrepare # kSetPending /\ kPrepare # kConfirm /\ kSetPending # kConfirm
  BY DEF kPrepare, kSetPending, kConfirm
<1>1. PICK refused \in BOOLEAN :
        S!WriteRegister(refused) /\ RegisterWritten(refused) /\ UNCHANGED master
  BY DEF WriteRegister
<1>2. /\ pc = "registers" /\ pc' \in {"registers", "complete"}
      /\ UNCHANGED <<master, request, response, values>>
      /\ request.fn \in {"write", "writeMultiple"}
  BY <1>1 DEF S!WriteRegister, S!InLoop, S!Fail
<1>3. waiting /\ request = NextRequest
  BY <1>2 DEF Turn
<1>4. step \in {"prepare", "data", "pending", "reset", "confirm"}
  BY <1>2, <1>3 DEF NextRequest, ReadVersion
<1>5. ASSUME ~(S!Address < FwBase) PROVE UNCHANGED data
  <2>1. S!Address # ResetReg
    BY <1>5, WordAssumption
  <2> QED
    BY <1>1, <2>1 DEF S!WriteRegister
<1>6. ASSUME NEW command \in {kPrepare, kSetPending, kConfirm}, request = Command(command)
      PROVE  /\ writes = <<>> /\ Commands(command, refused) /\ UNCHANGED data
             /\ exception' = IF refused THEN "illegal data address" ELSE exception
  <2>1. /\ writes = <<>> /\ writes' # writes /\ ~(S!Address < FwBase)
        /\ S!Address = FwBase + FwCommand /\ S!NextWord = command
        /\ exception' = IF refused THEN "illegal data address" ELSE exception
    BY <1>1, <1>6, CommandWord
  <2> QED
    BY <1>1, <1>5, <2>1 DEF RegisterWritten
<1>7. CASE step = "prepare"
  <2>1. request = Command(kPrepare)
    BY <1>3, <1>7 DEF NextRequest
  <2>2. /\ Commands(kPrepare, refused) /\ UNCHANGED data
        /\ exception' = IF refused THEN "illegal data address" ELSE exception
    BY <1>6, <2>1
  <2>3. U!Prepare /\ ~refused
    BY <1>0, <2>2 DEF Commands
  <2> QED
    BY <1>2, <1>3, <1>7, <2>2, <2>3
<1>8. CASE step = "data"
  <2>1. CASE writes' = writes
    <3>1. UNCHANGED update
      BY <1>1, <2>1 DEF RegisterWritten
    <3>2. UNCHANGED data
      <4> DEFINE pair == <<S!Address, S!NextWord>>
                 P == Word \X Word
      <4>1. writes \in Seq(P) /\ (writes' = Append(writes, pair) \/ UNCHANGED data)
        BY <1>1 DEF Words, S!WriteRegister
      <4> HIDE DEF pair, P
      <4>2. Append(writes, pair) # writes
        <5>1. Len(Append(writes, pair)) = Len(writes) + 1 /\ Len(writes) \in Nat
          BY <4>1
        <5> QED
          BY <5>1
      <4> QED
        BY <2>1, <4>1, <4>2
    <3> QED
      BY <1>2, <1>3, <1>8, <3>1, <3>2
  <2>2. CASE writes' # writes
    <3>1. /\ ~(S!Address < FwBase) /\ S!Address # FwBase + FwCommand
          /\ sent + Len(writes) < Len(new)
          /\ S!NextWord = new[sent + Len(writes) + 1]
      BY <1>1, <1>3, <1>8, <2>2, DataWord
    <3>2. U!WriteData(S!NextWord)
      BY <1>1, <2>2, <3>1 DEF RegisterWritten
    <3>3. S!NextWord \in WordsOf(new)
      <4>1. writes \in Seq(Word \X Word) /\ new \in Seq(Word)
        BY WordAssumption DEF Words, Word
      <4>2. Len(writes) \in Nat /\ Len(new) \in Nat /\ sent \in Nat
        BY <4>1 DEF Words
      <4>3. sent + Len(writes) + 1 \in 1 .. Len(new)
        BY <3>1, <4>2
      <4> QED
        BY <3>1, <4>3 DEF WordsOf
    <3> QED
      BY <1>2, <1>3, <1>5, <1>8, <3>1, <3>2, <3>3
  <2> QED
    BY <2>1, <2>2
<1>9. CASE step = "pending"
  <2>1. request = Command(kSetPending)
    BY <1>3, <1>9 DEF NextRequest
  <2>2. /\ Commands(kSetPending, refused) /\ UNCHANGED data /\ writes = <<>>
        /\ exception' = IF refused THEN "illegal data address" ELSE exception
    BY <1>6, <2>1
  <2>3. U!SetPending /\ (~refused => pending')
    BY <1>0, <2>2 DEF Commands
  <2> QED
    BY <1>2, <1>3, <1>9, <2>2, <2>3
<1>10. CASE step = "confirm"
  <2>1. request = Command(kConfirm)
    BY <1>3, <1>10 DEF NextRequest
  <2>2. /\ Commands(kConfirm, refused) /\ UNCHANGED data
        /\ exception' = IF refused THEN "illegal data address" ELSE exception
    BY <1>6, <2>1
  <2>3. U!Confirm /\ (~refused => ~trial')
    BY <1>0, <2>2 DEF Commands
  <2> QED
    BY <1>2, <1>3, <1>10, <2>2, <2>3
<1>11. CASE step = "reset"
  <2>1. request = Write(ResetReg, 1)
    BY <1>3, <1>11 DEF NextRequest
  <2>2. S!Address < FwBase /\ data' = [data EXCEPT !.reset = TRUE]
    BY <1>1, <2>1, ResetWord
  <2>3. UNCHANGED update
    BY <1>1, <2>2 DEF RegisterWritten
  <2> QED
    BY <1>2, <1>3, <1>11, <2>2, <2>3
<1> QED
  BY <1>4, <1>7, <1>8, <1>9, <1>10, <1>11

(* An answer: an exception, or what the whole request came to.             *)
LEMMA AnswerCame ==
  ASSUME Words, Turn, Outcome, Deliver
  PROVE  /\ pc = "answer" /\ waiting /\ pc' = "listening" /\ waiting' = FALSE
         /\ writes' = <<>> /\ values' = <<>> /\ exception' = "ok" /\ UNCHANGED <<data, update>>
         /\ Answered
         /\ \/ exception # "ok" /\ step # "prepare" /\ step' = "prepare"
            \/ /\ exception = "ok" /\ response.kind # "exception"
               /\ step \in {"prepare", "pending", "reset", "confirm"} => writes # <<>>
<1>1. /\ pc = "answer" /\ waiting /\ pc' = "listening" /\ waiting' = FALSE
      /\ writes' = <<>> /\ values' = <<>> /\ exception' = "ok" /\ UNCHANGED <<data, update>>
      /\ Answered /\ response.kind # "none" /\ request = NextRequest
  BY DEF Deliver, S!Return, Answered, Turn
<1>2. CASE response.kind = "exception"
  BY <1>1, <1>2 DEF Outcome, Answered, StepAfterAnswer
<1>3. CASE response.kind # "exception"
  <2>1. exception = "ok" /\ S!Done = S!Quantity(request)
    BY <1>1, <1>3 DEF Outcome, Turn
  <2>2. ASSUME step \in {"prepare", "pending", "reset", "confirm"} PROVE writes # <<>>
    <3>1. request.fn = "write"
      BY <1>1, <2>2 DEF NextRequest, Command, Write
    <3>2. Len(writes) = 1
      BY <2>1, <3>1 DEF S!Done, S!Quantity
    <3>3. Len(<<>>) = 0
      OBVIOUS
    <3> QED
      BY <3>2, <3>3
  <2> QED
    BY <1>1, <1>3, <2>1, <2>2
<1> QED
  BY <1>2, <1>3

(* A restart, by request or by a power failure.                            *)
LEMMA Restarted ==
  ASSUME Words, Turn, Contents, Marks, Reset \/ PowerFails
  PROVE  /\ SlaveStarts
         /\ \/ waiting /\ TimesOut
            \/ ~waiting /\ UNCHANGED master
         /\ pending' = FALSE /\ buffer' = <<>> /\ offset' = 0 /\ fresh' = FALSE
         /\ trial' \in BOOLEAN /\ (trial' => slot0' = new)
         /\ slot0' \in {new, Factory} /\ OnlyFrom(slot1', {new, Factory})
         /\ ~pending => slot0' = slot0 \/ trial
         /\ ~pending => ~trial' \/ trial
         /\ ~pending /\ OnlyFrom(slot1, {new}) => OnlyFrom(slot1', {new})
         /\ \/ slot0' = slot0 /\ trial' = trial
            \/ pending /\ slot0' = new /\ trial' = TRUE
            \/ trial /\ trial' = FALSE
<1>1. SlaveStarts /\ ((waiting /\ TimesOut) \/ (~waiting /\ UNCHANGED master))
  <2>1. CASE Reset
    <3>1. pc = "listening" /\ SlaveStarts /\ UNCHANGED master
      BY <2>1 DEF Reset
    <3>2. ~waiting
      BY <3>1 DEF Turn
    <3> QED
      BY <3>1, <3>2
  <2>2. CASE PowerFails
    <3>1. SlaveStarts /\ (waiting => TimesOut) /\ (~waiting => UNCHANGED master)
      BY <2>2 DEF PowerFails
    <3>2. CASE waiting
      BY <3>1, <3>2
    <3>3. CASE ~waiting
      BY <3>1, <3>3
    <3> QED
      BY <3>2, <3>3
  <2> QED
    BY <2>1, <2>2
<1>2. PICK marked \in {FALSE, pending} : \E area :
        /\ U!Boot(area, marked)
        /\ \A images : new \in images /\ OnlyFrom(slot1, images) => OnlyFrom(area, images)
  <2>1. CASE U!Reset
    BY <2>1 DEF U!Reset
  <2>2. CASE U!TornPrepare
    <3>1. PICK pages \in SUBSET (0 .. SlotPages - 1), cell \in {Erased, Garbled},
               marked \in {FALSE, pending} :
            U!Boot([i \in U!Slot |-> IF U!PageOf(i) \in pages THEN cell ELSE slot1[i]], marked)
      BY <2>2 DEF U!TornPrepare
    <3>2. ASSUME NEW images, OnlyFrom(slot1, images)
          PROVE  OnlyFrom([i \in U!Slot |-> IF U!PageOf(i) \in pages THEN cell ELSE slot1[i]],
                          images)
      BY <3>2 DEF OnlyFrom, From
    <3> QED
      BY <3>1, <3>2
  <2>3. CASE U!TornWrite
    <3>1. U!Boot([i \in U!Slot |-> IF U!PageOf(i) = U!PageOf(offset) THEN Garbled ELSE slot1[i]],
                 pending)
      BY <2>3 DEF U!TornWrite
    <3>2. ASSUME NEW images, OnlyFrom(slot1, images)
          PROVE  OnlyFrom([i \in U!Slot |-> IF U!PageOf(i) = U!PageOf(offset) THEN Garbled
                                            ELSE slot1[i]], images)
      BY <3>2 DEF OnlyFrom, From
    <3> QED
      BY <3>1, <3>2
  <2>4. CASE U!FlushedNotMarked
    <3> DEFINE words == buffer \o U!Padding
    <3>1. U!Boot(U!FlashAreaWrite(slot1, offset, words).area, pending)
      BY <2>4 DEF U!FlushedNotMarked
    <3>2. ASSUME NEW images, new \in images, OnlyFrom(slot1, images)
          PROVE  OnlyFrom(U!FlashAreaWrite(slot1, offset, words).area, images)
      <4>1. words \in Seq(Int) /\ offset \in Nat
        BY FilledFrom DEF Contents
      <4>2. \A k \in 1 .. Len(words) : From(words[k], images)
        BY <3>2, FilledFrom DEF From
      <4> HIDE DEF words
      <4> QED
        BY <3>2, <4>1, <4>2, WrittenFrom
    <3> HIDE DEF words
    <3> QED
      BY <3>1, <3>2
  <2> QED
    BY <2>1, <2>2, <2>3, <2>4 DEF Reset, PowerFails
<1> PICK area : /\ U!Boot(area, marked)
                /\ \A images : new \in images /\ OnlyFrom(slot1, images)
                                => OnlyFrom(area, images)
  BY <1>2
<1>3. /\ marked \in BOOLEAN /\ (marked => OnlyFrom(area, {new}))
      /\ OnlyFrom(area, {new, Factory}) /\ (trial => slot0 = new)
      /\ ~pending => ~marked
  <2>1. OnlyFrom(slot1, {new, Factory}) => OnlyFrom(area, {new, Factory})
    OBVIOUS
  <2>2. OnlyFrom(slot1, {new}) => OnlyFrom(area, {new})
    OBVIOUS
  <2>3. marked \in BOOLEAN /\ (~pending => ~marked) /\ (marked => pending)
    <3>1. pending \in BOOLEAN /\ (marked = FALSE \/ marked = pending)
      BY DEF Contents
    <3>2. CASE pending = TRUE
      BY <3>1, <3>2
    <3>3. CASE pending = FALSE
      BY <3>1, <3>3
    <3> QED
      BY <3>1, <3>2, <3>3
  <2>4. /\ OnlyFrom(slot1, {new, Factory}) /\ (trial => slot0 = new)
        /\ pending => OnlyFrom(slot1, {new})
    BY DEF Contents, Marks
  <2> QED
    BY <2>1, <2>2, <2>3, <2>4
<1>4. /\ pending' = FALSE /\ buffer' = <<>> /\ offset' = 0 /\ fresh' = FALSE
      /\ trial' \in BOOLEAN /\ (trial' => slot0' = new)
      /\ slot0' \in {new, Factory} /\ OnlyFrom(slot1', {new, Factory})
      /\ ~marked => slot0' = slot0 \/ trial
      /\ ~marked => ~trial' \/ trial
      /\ ~marked /\ OnlyFrom(area, {new}) => OnlyFrom(slot1', {new})
      /\ \/ slot0' = slot0 /\ trial' = trial
         \/ marked /\ slot0' = new /\ trial' = TRUE
         \/ trial /\ trial' = FALSE
  BY <1>3, AfterBoot
<1>5. ~pending /\ OnlyFrom(slot1, {new}) => OnlyFrom(area, {new})
  OBVIOUS
<1> QED
  BY <1>1, <1>3, <1>4, <1>5

-----------------------------------------------------------------------------
(* The invariants.                                                         *)

LEMMA InitOutcome == Init => Contents /\ Outcome /\ Marks /\ Complete /\ Confirmation
<1> SUFFICES ASSUME Init PROVE Contents /\ Outcome /\ Marks /\ Complete /\ Confirmation
  OBVIOUS
<1>1. /\ new # Factory /\ step = "prepare" /\ pc = "listening" /\ exception = "ok"
      /\ data \in [reset : {FALSE}, measurement : Raw, available : {FALSE}]
      /\ values = <<>> /\ writes = <<>> /\ buffer = <<>> /\ offset = 0
      /\ pending = FALSE /\ trial = FALSE /\ slot1 = U!Blank /\ slot0 = Factory
  BY DEF Init, S!Init, U!Init
<1>2. OnlyFrom(slot1, {new, Factory})
  BY <1>1, BlankFrom
<1>3. Contents
  <2>1. buffer \in Seq(WordsOf(new)) /\ offset \in Nat
    BY <1>1
  <2>2. pending \in BOOLEAN /\ trial \in BOOLEAN /\ slot0 \in {new, Factory}
    BY <1>1
  <2> QED
    BY <1>1, <1>2, <2>1, <2>2 DEF Contents
<1>4. Outcome
  <2>1. data \in [reset : BOOLEAN, measurement : Raw, available : BOOLEAN]
    BY <1>1
  <2> QED
    BY <1>1, <2>1 DEF Outcome
<1> QED
  BY <1>1, <1>3, <1>4 DEF Marks, Complete, Confirmation

LEMMA NextContents ==
  Words /\ Turn /\ Outcome /\ Contents /\ Marks /\ UP!Consistent /\ [Next]_vars => Contents'
<1> SUFFICES ASSUME Words, Turn, Outcome, Contents, Marks, UP!Consistent, [Next]_vars
             PROVE  Contents'
  OBVIOUS
<1>1. /\ new # Factory /\ buffer \in Seq(WordsOf(new)) /\ offset \in Nat
      /\ pending \in BOOLEAN /\ trial \in BOOLEAN
      /\ OnlyFrom(slot1, {new, Factory}) /\ slot0 \in {new, Factory}
  BY DEF Contents
<1>2. <<>> \in Seq(WordsOf(new))
  OBVIOUS
<1>3. ASSUME new' = new, buffer' \in Seq(WordsOf(new)), offset' \in Nat,
             pending' \in BOOLEAN, trial' \in BOOLEAN,
             OnlyFrom(slot1', {new, Factory}), slot0' \in {new, Factory}
      PROVE  Contents'
  BY <1>1, <1>3 DEF Contents, OnlyFrom, From, WordsOf
<1>4. ASSUME new' = new, UNCHANGED update PROVE Contents'
  BY <1>1, <1>3, <1>4 DEF update
<1>5. CASE Send \/ LoseRequest \/ Deliver \/ LoseResponse \/ Execute \/ UNCHANGED vars
  BY <1>4, <1>5 DEF Send, LoseRequest, Deliver, LoseResponse, Execute, Answered, TimesOut,
                    master, vars
<1>6. CASE WriteRegister
  <2>1. new' = new
    BY <1>6, Written DEF master
  <2>2. CASE U!Prepare
    BY <1>1, <1>2, <1>3, <2>1, <2>2, PreparedFrom
  <2>3. CASE \E w \in WordsOf(new) : U!WriteData(w)
    <3>1. PICK w \in WordsOf(new) : U!WriteData(w)
      BY <2>3
    <3>2. /\ buffer' \in Seq(WordsOf(new)) /\ offset' \in Nat
          /\ OnlyFrom(slot1', {new, Factory}) /\ UNCHANGED <<slot0, trial, pending>>
      BY <1>1, <3>1, DataFrom
    <3> QED
      BY <1>1, <1>3, <2>1, <3>2
  <2>4. CASE U!SetPending
    <3>1. /\ buffer' \in Seq(WordsOf(new)) /\ offset' \in Nat /\ pending' \in BOOLEAN
          /\ OnlyFrom(slot1', {new, Factory}) /\ UNCHANGED <<slot0, trial>>
      BY <1>1, <2>4, MarkFrom
    <3> QED
      BY <1>1, <1>3, <2>1, <3>1
  <2>5. CASE U!Confirm
    <3>1. UNCHANGED <<buffer, offset, slot1, slot0, pending>> /\ trial' \in {trial, FALSE}
      BY <2>5 DEF U!Confirm, U!SetUpdateConfirmed, U!ram
    <3>2. trial' \in BOOLEAN
      BY <1>1, <3>1
    <3> QED
      BY <1>1, <1>3, <2>1, <3>1, <3>2
  <2>6. CASE UNCHANGED update
    BY <1>4, <2>1, <2>6
  <2> QED
    BY <1>6, <2>2, <2>3, <2>4, <2>5, <2>6, Written
<1>7. CASE Reset \/ PowerFails
  <2>1. /\ (waiting /\ TimesOut) \/ (~waiting /\ UNCHANGED master)
        /\ pending' = FALSE /\ buffer' = <<>> /\ offset' = 0 /\ trial' \in BOOLEAN
        /\ slot0' \in {new, Factory} /\ OnlyFrom(slot1', {new, Factory})
    BY <1>7, Restarted
  <2>2. new' = new
    BY <2>1 DEF TimesOut, master
  <2> QED
    BY <1>2, <1>3, <2>1, <2>2
<1> QED
  BY <1>5, <1>6, <1>7 DEF Next, Work, Finished

LEMMA NextOutcome ==
  Words /\ Turn /\ Outcome /\ Contents /\ Marks /\ [Next]_vars => Outcome'
<1> SUFFICES ASSUME Words, Turn, Outcome, Contents, Marks, [Next]_vars PROVE Outcome'
  OBVIOUS
<1> DEFINE Data == [reset : BOOLEAN, measurement : Raw, available : BOOLEAN]
<1>1. /\ data \in Data
      /\ pc \in {"listening", "execute"} => values = <<>>
      /\ pc = "answer" /\ response.kind = "exception" => exception # "ok"
      /\ pc = "answer" /\ response.kind \notin {"none", "exception"} => exception = "ok"
      /\ step = "prepare" /\ pc # "listening" => exception = "ok"
  BY DEF Outcome
<1>2. CASE Send
  <2>1. /\ pc = "listening" /\ pc' = "execute" /\ exception = "ok"
        /\ UNCHANGED <<data, exception, values>>
    BY <1>2 DEF Send, S!TakeRequest, Turn
  <2> QED
    BY <1>1, <2>1 DEF Outcome
<1>3. CASE LoseRequest
  <2>1. pc = "listening" /\ UNCHANGED slave
    BY <1>3 DEF LoseRequest, Sending, Turn
  <2> QED
    BY <1>1, <2>1 DEF Outcome, slave
<1>4. CASE Deliver \/ LoseResponse
  <2>1. pc' = "listening" /\ values' = <<>> /\ UNCHANGED data
    BY <1>4 DEF Deliver, LoseResponse, S!Return
  <2> QED
    BY <1>1, <2>1 DEF Outcome
<1>5. CASE WriteRegister
  <2>1. /\ pc = "registers" /\ pc' \in {"registers", "complete"} /\ UNCHANGED step
        /\ UNCHANGED data \/ data' = [data EXCEPT !.reset = TRUE]
        /\ step = "prepare" => UNCHANGED exception
    BY <1>5, Written DEF master
  <2>2. data' \in Data
    BY <1>1, <2>1
  <2> QED
    BY <1>1, <2>1, <2>2 DEF Outcome
<1>6. CASE Execute
  <2>1. UNCHANGED step
    BY <1>6 DEF Execute, master
  <2>2. ASSUME pc # "listening", step = "prepare"
        PROVE  request.mine /\ request.fn = "write" /\ Len(request.fields) = 2
    BY <2>2 DEF Turn, NextRequest, Command, Write
  <2>3. CASE S!Begin
    <3>1. /\ pc = "execute" /\ pc' \in {"registers", "complete"}
          /\ exception' = S!Checked(request) /\ UNCHANGED data
      BY <2>3 DEF S!Begin
    <3>2. ASSUME step = "prepare" PROVE S!Checked(request) = "ok"
      <4>1. pc # "listening"
        BY <3>1
      <4>2. request.fn = "write" /\ Len(request.fields) = 2
        BY <2>2, <3>2, <4>1
      <4>3. ~(Len(request.fields) < 2)
        BY <4>2
      <4>4. S!QuantityOk(request) /\ S!Header(request.fn) = 2
        BY <4>2 DEF S!QuantityOk, S!Header
      <4> QED
        BY <4>2, <4>3, <4>4 DEF S!Checked
    <3> QED
      BY <1>1, <2>1, <3>1, <3>2 DEF Outcome
  <2>4. CASE S!ReadRegister(VersionOf[slot0])
    <3>1. /\ pc = "registers" /\ pc' \in {"registers", "complete"} /\ UNCHANGED data
          /\ request.fn = "read"
      BY <2>4 DEF S!ReadRegister, S!InLoop, S!Fail
    <3>2. step # "prepare"
      BY <2>2, <3>1
    <3> QED
      BY <1>1, <2>1, <3>1, <3>2 DEF Outcome
  <2>5. CASE S!Complete
    <3>1. /\ pc # "listening" /\ pc' = "answer" /\ UNCHANGED exception
          /\ data' = [data EXCEPT !.available = FALSE] /\ response' = S!Answer(request)
      BY <2>5 DEF S!Complete, S!Completed
    <3>2. data' \in Data
      BY <1>1, <3>1
    <3>3. CASE exception = "ok"
      <4>1. response'.kind # "exception"
        BY <3>1, <3>3 DEF S!Answer, S!NoResponse
      <4> QED
        BY <1>1, <3>1, <3>2, <3>3, <4>1 DEF Outcome
    <3>4. CASE exception # "ok"
      <4>1. response'.kind \in {"none", "exception"}
        BY <3>1, <3>4 DEF S!Answer, S!NoResponse
      <4> QED
        BY <1>1, <2>1, <3>1, <3>2, <3>4, <4>1 DEF Outcome
    <3> QED
      BY <3>3, <3>4
  <2> QED
    BY <1>6, <2>3, <2>4, <2>5 DEF Execute
<1>7. CASE Reset \/ PowerFails
  <2>1. /\ pc' = "listening" /\ values' = <<>>
        /\ data' = [data EXCEPT !.reset = FALSE, !.available = FALSE]
    BY <1>7 DEF Reset, PowerFails, SlaveStarts
  <2>2. data' \in Data
    BY <1>1, <2>1
  <2> QED
    BY <2>1, <2>2 DEF Outcome
<1>8. CASE UNCHANGED vars
  BY <1>1, <1>8 DEF Outcome, vars, slave, master
<1> QED
  BY <1>2, <1>3, <1>4, <1>5, <1>6, <1>7, <1>8 DEF Next, Work, Finished

LEMMA NextMarks ==
  Words /\ Turn /\ Outcome /\ Contents /\ Marks /\ UP!Consistent /\ [Next]_vars => Marks'
<1> SUFFICES ASSUME Words, Turn, Outcome, Contents, Marks, UP!Consistent, [Next]_vars
             PROVE  Marks'
  OBVIOUS
<1> DEFINE Mine == OnlyFrom(slot1, {new})
<1>1. /\ trial => slot0 = new
      /\ pending => asked /\ Mine
      /\ step \in {"data", "pending"} => Mine
      /\ step = "data" \/ (step = "pending" /\ ~waiting) => ~asked
      /\ step = "pending" /\ waiting => asked
      /\ step = "prepare" /\ writes # <<>> => ~pending /\ Mine
  BY DEF Marks
<1>2. ASSUME new' = new, slot1' = slot1 PROVE Mine' = Mine
  BY <1>2 DEF OnlyFrom, From, WordsOf
<1>3. ASSUME new' = new, OnlyFrom(slot1', {new}) PROVE Mine'
  BY <1>3 DEF OnlyFrom, From, WordsOf
<1>4. Marks' = /\ trial' => slot0' = new'
               /\ pending' => asked' /\ Mine'
               /\ step' \in {"data", "pending"} => Mine'
               /\ step' = "data" \/ (step' = "pending" /\ ~waiting') => ~asked'
               /\ step' = "pending" /\ waiting' => asked'
               /\ step' = "prepare" /\ writes' # <<>> => ~pending' /\ Mine'
  BY DEF Marks
<1> HIDE DEF Mine
<1>5. CASE Send
  <2>1. /\ UNCHANGED <<new, step, writes, slot1, slot0, pending, trial>>
        /\ waiting' = TRUE /\ asked' = (asked \/ step = "pending")
    BY <1>5 DEF Send, Sending, S!TakeRequest, update
  <2> QED
    BY <1>1, <1>2, <1>4, <2>1
<1>6. CASE LoseRequest
  <2>1. /\ UNCHANGED <<new, slot1, slot0, pending, trial>> /\ writes' = <<>>
        /\ asked' = (asked \/ step = "pending") /\ step' \notin {"data", "pending"}
    BY <1>6 DEF LoseRequest, Sending, StepAfterTimeout, Turn, slave, update
  <2> QED
    BY <1>1, <1>2, <1>4, <2>1
<1>7. CASE Deliver
  <2>1. /\ UNCHANGED <<new, slot1, slot0, pending, trial>> /\ writes' = <<>>
        /\ waiting /\ waiting' = FALSE /\ step' = StepAfterAnswer
        /\ asked' = (asked /\ step # "prepare")
    BY <1>7, AnswerCame DEF Answered, update
  <2>2. CASE step # "prepare" /\ step' = "prepare"
    BY <1>1, <1>2, <1>4, <2>1, <2>2
  <2>3. CASE /\ response.kind # "exception"
             /\ step \in {"prepare", "pending", "reset", "confirm"} => writes # <<>>
    <3>1. CASE step = "prepare"
      <4>1. step' = "data" /\ asked' = FALSE /\ ~pending /\ Mine
        BY <1>1, <2>1, <2>3, <3>1 DEF StepAfterAnswer
      <4> QED
        BY <1>1, <1>2, <1>4, <2>1, <4>1
    <3>2. CASE step = "data"
      <4>1. step' \in {"data", "pending"} /\ asked' = FALSE /\ ~pending /\ Mine
        BY <1>1, <2>1, <2>3, <3>2 DEF StepAfterAnswer
      <4> QED
        BY <1>1, <1>2, <1>4, <2>1, <4>1
    <3>3. CASE step \notin {"prepare", "data"}
      <4>1. step' \notin {"data", "pending"} /\ (asked => asked')
        BY <2>1, <2>3, <3>3 DEF StepAfterAnswer
      <4> QED
        BY <1>1, <1>2, <1>4, <2>1, <4>1
    <3> QED
      BY <3>1, <3>2, <3>3
  <2> QED
    BY <1>7, <2>2, <2>3, AnswerCame
<1>8. CASE LoseResponse
  <2>1. /\ UNCHANGED <<new, slot1, slot0, pending, trial, asked>> /\ writes' = <<>>
        /\ step' \notin {"data", "pending"}
    BY <1>8 DEF LoseResponse, S!Return, TimesOut, StepAfterTimeout, update
  <2> QED
    BY <1>1, <1>2, <1>4, <2>1
<1>9. CASE Execute \/ UNCHANGED vars
  <2>1. UNCHANGED <<new, step, waiting, asked, writes, slot1, slot0, pending, trial>>
    BY <1>9 DEF Execute, S!Begin, S!ReadRegister, S!Complete, update, master, vars, slave
  <2> QED
    BY <1>1, <1>2, <1>4, <2>1
<1>10. CASE WriteRegister
  <2>1. UNCHANGED <<new, step, waiting, asked>> /\ waiting
    BY <1>10, Written DEF master
  <2>2. CASE step = "prepare" /\ U!Prepare
    <3>1. pending' = FALSE /\ UNCHANGED <<slot0, trial>> /\ OnlyFrom(slot1', {new})
      BY <2>2, PreparedFrom
    <3> QED
      BY <1>1, <1>3, <1>4, <2>1, <2>2, <3>1
  <2>3. CASE step = "data" /\ \E w \in WordsOf(new) : U!WriteData(w)
    <3>1. PICK w \in WordsOf(new) : U!WriteData(w)
      BY <2>3
    <3>2. OnlyFrom(slot1, {new})
      BY <1>1, <2>3 DEF Mine
    <3>3. OnlyFrom(slot1', {new}) /\ UNCHANGED <<slot0, trial, pending>>
      BY <3>1, <3>2, DataFrom
    <3> QED
      BY <1>1, <1>3, <1>4, <2>1, <2>3, <3>3
  <2>4. CASE step = "pending" /\ U!SetPending
    <3>1. OnlyFrom(slot1, {new})
      BY <1>1, <2>4 DEF Mine
    <3>2. OnlyFrom(slot1', {new}) /\ UNCHANGED <<slot0, trial>>
      BY <2>4, <3>1, MarkFrom
    <3> QED
      BY <1>1, <1>3, <1>4, <2>1, <2>4, <3>2
  <2>5. CASE step # "prepare" /\ UNCHANGED update
    <3>1. UNCHANGED <<slot1, slot0, pending, trial>>
      BY <2>5 DEF update
    <3> QED
      BY <1>1, <1>2, <1>4, <2>1, <2>5, <3>1
  <2>6. CASE step = "confirm" /\ U!Confirm
    <3>1. UNCHANGED <<slot1, slot0, pending>> /\ trial' \in {trial, FALSE}
      BY <2>6 DEF U!Confirm, U!SetUpdateConfirmed
    <3>2. trial' => slot0' = new'
      BY <1>1, <2>1, <3>1
    <3> QED
      BY <1>1, <1>2, <1>4, <2>1, <2>6, <3>1, <3>2
  <2> QED
    BY <1>10, <2>2, <2>3, <2>4, <2>5, <2>6, Written
<1>11. CASE Reset \/ PowerFails
  <2>1. /\ (waiting /\ TimesOut) \/ (~waiting /\ UNCHANGED master)
        /\ SlaveStarts /\ pending' = FALSE /\ (trial' => slot0' = new)
        /\ ~pending /\ OnlyFrom(slot1, {new}) => OnlyFrom(slot1', {new})
    BY <1>11, Restarted
  <2>2. new' = new /\ writes' = <<>>
    BY <2>1 DEF TimesOut, SlaveStarts, master
  <2>3. CASE waiting /\ TimesOut
    <3>1. step' \notin {"data", "pending"}
      BY <2>3 DEF TimesOut, StepAfterTimeout
    <3> QED
      BY <1>4, <2>1, <2>2, <3>1
  <2>4. CASE ~waiting /\ UNCHANGED master
    <3>1. UNCHANGED <<step, waiting, asked>>
      BY <2>4 DEF master
    <3>2. step \in {"data", "pending"} => ~asked /\ ~pending /\ Mine
      BY <1>1, <2>4
    <3>3. step \in {"data", "pending"} => Mine'
      BY <1>3, <2>1, <2>2, <3>2 DEF Mine
    <3> QED
      BY <1>4, <2>1, <2>2, <2>4, <3>1, <3>2, <3>3
  <2> QED
    BY <2>1, <2>3, <2>4
<1> QED
  BY <1>5, <1>6, <1>7, <1>8, <1>9, <1>10, <1>11 DEF Next, Work, Finished

(* kSetPending, in a transfer the unit was not reset in: the words answered *)
(* are those of the whole image, and they are in the slot.                  *)
LEMMA WholeImage ==
  ASSUME Words, Turn, Transfer, Complete, UP!Consistent,
         step = "pending", writes = <<>>, fresh, U!SetPending
  PROVE  \A i \in 1 .. Len(new) : slot1'[i - 1] = new[i]
<1>1. /\ new \in Seq(Word) /\ Len(new) \in Nat /\ Len(new) <= U!SlotSize
      /\ U!SlotSize \in Nat
  <2>1. new \in Seq(Word) /\ Len(new) <= U!SlotSize /\ U!SlotSize \in Nat
    BY UpdateAssumption DEF Words, Word, U!ImageAssumption, U!PageAssumption, U!SlotSize
  <2> QED
    BY <2>1
<1>2. received = SubSeq(new, 1, Len(new))
  BY DEF Transfer, Complete
<1>3. Len(received) = Len(new) /\ \A i \in 1 .. Len(new) : received[i] = new[i]
  BY <1>1, <1>2
<1>4. \A i \in UP!Slot : i < Len(received) => slot1'[i] = received[i + 1]
  BY SameSetPending, UpdateConstants, UP!SetPendingCompletes
<1>5. UP!Slot = 0 .. U!SlotSize - 1
  BY DEF UP!Slot, UP!SlotSize, U!SlotSize
<1> SUFFICES ASSUME NEW i \in 1 .. Len(new) PROVE slot1'[i - 1] = new[i]
  OBVIOUS
<1> DEFINE j == i - 1
<1>6. j \in UP!Slot /\ j < Len(received) /\ j + 1 = i
  BY <1>1, <1>3, <1>5
<1> HIDE DEF j
<1>7. slot1'[j] = received[j + 1]
  BY <1>4, <1>6
<1> QED
  BY <1>3, <1>6, <1>7 DEF j

LEMMA NextComplete ==
  /\ Words /\ Turn /\ Transfer /\ Outcome /\ Contents /\ Marks /\ Complete /\ UP!Consistent
  /\ [Next]_vars
  => Complete'
<1> SUFFICES ASSUME Words, Turn, Transfer, Outcome, Contents, Marks, Complete, UP!Consistent,
                    [Next]_vars
             PROVE  Complete'
  OBVIOUS
<1> DEFINE Whole == U!Holds(slot1, new)
<1>1. /\ step = "pending" => sent = Len(new)
      /\ step = "pending" /\ writes # <<>> => (fresh => Whole) /\ (exception = "ok" => pending)
  BY DEF Complete
<1>2. ASSUME new' = new, slot1' = slot1 PROVE Whole' = Whole
  BY <1>2 DEF U!Holds
<1>3. Complete' =
        /\ step' = "pending" => sent' = Len(new')
        /\ step' = "pending" /\ writes' # <<>> =>
             (fresh' => Whole') /\ (exception' = "ok" => pending')
  BY DEF Complete
<1> HIDE DEF Whole
<1>4. CASE Send
  <2>1. UNCHANGED <<new, step, sent, writes, exception, slot1, pending, fresh>>
    BY <1>4 DEF Send, S!TakeRequest, update
  <2> QED
    BY <1>1, <1>2, <1>3, <2>1
<1>5. CASE LoseRequest \/ LoseResponse
  <2>1. step' # "pending"
    BY <1>5 DEF LoseRequest, LoseResponse, TimesOut, StepAfterTimeout
  <2> QED
    BY <1>3, <2>1
<1>6. CASE Deliver
  <2>1. /\ writes' = <<>> /\ new' = new /\ step' = StepAfterAnswer
        /\ sent' = IF step = "data" THEN sent + Len(NextChunk) ELSE 0
    BY <1>6, AnswerCame DEF Answered
  <2>2. step' = "pending" => step = "data" /\ sent + Len(NextChunk) = Len(new)
    BY <2>1 DEF StepAfterAnswer
  <2> QED
    BY <1>3, <2>1, <2>2
<1>7. CASE Execute
  <2>1. UNCHANGED <<new, step, sent, waiting, writes, slot1, pending, fresh>>
    BY <1>7 DEF Execute, S!Begin, S!ReadRegister, S!Complete, update, master
  <2>2. ASSUME step = "pending", writes # <<>> PROVE UNCHANGED exception
    <3>1. ~S!Begin
      BY <2>2 DEF S!Begin, Turn
    <3>2. ~S!ReadRegister(VersionOf[slot0])
      <4>1. pc = "registers" => request.fn = "write"
        BY <2>2 DEF Turn, NextRequest, Command, Write
      <4> QED
        BY <4>1 DEF S!ReadRegister, S!InLoop
    <3> QED
      BY <1>7, <3>1, <3>2 DEF Execute, S!Complete
  <2> QED
    BY <1>1, <1>2, <1>3, <2>1, <2>2
<1>8. CASE WriteRegister
  <2>1. UNCHANGED <<new, step, sent>>
    BY <1>8, Written DEF master
  <2>2. CASE step = "pending"
    <3>1. U!SetPending /\ writes = <<>> /\ (exception' = "ok" => pending')
      BY <1>8, <2>2, Written
    <3>2. fresh' = fresh
      BY <3>1 DEF U!SetPending
    <3>3. fresh => \A i \in 1 .. Len(new) : slot1'[i - 1] = new[i]
      BY <2>2, <3>1, WholeImage
    <3>4. fresh' => Whole'
      BY <2>1, <3>2, <3>3 DEF Whole, U!Holds
    <3> QED
      BY <1>1, <1>3, <2>1, <3>1, <3>4
  <2>3. CASE step # "pending"
    BY <1>3, <2>1, <2>3
  <2> QED
    BY <2>2, <2>3
<1>9. CASE Reset \/ PowerFails
  <2>1. SlaveStarts /\ ((waiting /\ TimesOut) \/ (~waiting /\ UNCHANGED master))
    BY <1>9, Restarted
  <2>2. writes' = <<>>
    BY <2>1 DEF SlaveStarts
  <2>3. step' = "pending" => step = "pending" /\ UNCHANGED <<new, sent>>
    BY <2>1 DEF TimesOut, StepAfterTimeout, master
  <2> QED
    BY <1>1, <1>3, <2>2, <2>3
<1>10. CASE UNCHANGED vars
  <2>1. UNCHANGED <<new, step, sent, writes, exception, slot1, pending, fresh>>
    BY <1>10 DEF vars, slave, update, master
  <2> QED
    BY <1>1, <1>2, <1>3, <2>1
<1> QED
  BY <1>4, <1>5, <1>6, <1>7, <1>8, <1>9, <1>10 DEF Next, Work, Finished

(* The version that is read is that of the image that runs.                *)
LEMMA VersionRead ==
  ASSUME Words, request = ReadVersion, values \in {<<>>, <<VersionOf[slot0]>>},
         S!ReadRegister(VersionOf[slot0])
  PROVE  values' \in {<<>>, <<VersionOf[slot0]>>}
<1>1. request.fn = "read" /\ request.fields = <<VersionReg, 1>>
  BY DEF ReadVersion
<1>2. S!Done = Len(values) /\ Len(values) < 1
  <2>1. S!Done = Len(values) /\ S!Quantity(request) = request.fields[2]
    BY <1>1 DEF S!Done, S!Quantity
  <2>2. S!Done < S!Quantity(request)
    BY DEF S!ReadRegister, S!InLoop
  <2>3. request.fields[2] = 1
    BY <1>1
  <2> QED
    BY <2>1, <2>2, <2>3
<1>3. values = <<>> /\ S!Done = 0
  <2>1. Len(<<>>) = 0 /\ Len(<<VersionOf[slot0]>>) = 1
    OBVIOUS
  <2> QED
    BY <1>2, <2>1
<1>4. S!Address = VersionReg /\ ~(VersionReg < 4)
  <2>1. /\ WordMod \in Nat \ {0} /\ VersionReg \in 4 .. FwBase - 1
        /\ FwBase \in 0 .. WordMod - 1
    BY WordAssumption
  <2>2. VersionReg \in 0 .. WordMod - 1
    BY <2>1
  <2>3. \A n \in Nat \ {0} : \A x \in 0 .. n - 1 : x % n = x
    OBVIOUS
  <2>4. VersionReg % WordMod = VersionReg
    BY <2>1, <2>2, <2>3
  <2>5. request.fields[1] + S!Done = VersionReg
    BY <1>1, <1>3, <2>1
  <2> QED
    BY <2>1, <2>4, <2>5 DEF S!Address
<1>5. S!Contents(S!Address, VersionOf[slot0]) = VersionOf[slot0]
  BY <1>4 DEF S!Contents
<1>6. values' = values \/ values' = Append(values, S!Contents(S!Address, VersionOf[slot0]))
  BY DEF S!ReadRegister
<1> DEFINE v == VersionOf[slot0]
<1>7. values' = <<>> \/ values' = Append(<<>>, v)
  BY <1>3, <1>5, <1>6
<1> HIDE DEF v
<1>8. Append(<<>>, v) = <<v>>
  OBVIOUS
<1> QED
  BY <1>7, <1>8 DEF v

(* A version that was read as the new one is that of the new image.        *)
LEMMA SeenRunning ==
  ASSUME Words, Contents, RunsNew, values \in {<<>>, <<VersionOf[slot0]>>}
  PROVE  slot0 = new
<1>1. VersionOf[slot0] = VersionOf[new]
  <2>1. <<VersionOf[new]>> = <<VersionOf[slot0]>> \/ <<VersionOf[new]>> = <<>>
    BY DEF RunsNew
  <2> QED
    BY <2>1
<1>2. VersionOf[new] # VersionOf[Factory]
  BY SessionAssumption DEF Words, Contents
<1> QED
  BY <1>1, <1>2 DEF Contents

LEMMA NextConfirmation ==
  /\ Words /\ Turn /\ Outcome /\ Contents /\ Marks /\ Confirmation
  /\ [Next]_vars
  => Confirmation'
<1> SUFFICES ASSUME Words, Turn, Outcome, Contents, Marks, Confirmation, [Next]_vars
             PROVE  Confirmation'
  OBVIOUS
<1> DEFINE Version == <<VersionOf[slot0]>>
           Steps == {"prepare", "data", "pending", "reset", "version", "confirm",
                     "check", "done"}
<1>1. /\ step \in Steps
      /\ step = "reset" /\ writes # <<>> => data.reset
      /\ step = "version" => data.reset \/ ~pending
      /\ step = "version" /\ waiting => ~data.reset
      /\ step \in {"confirm", "check", "done"} => ~pending
      /\ step = "confirm" /\ writes # <<>> /\ exception = "ok" => ~trial
      /\ step \in {"check", "done"} => ~trial
      /\ step = "done" => slot0 = new
      /\ step \in {"version", "check"} => values \in {<<>>, Version}
  BY DEF Confirmation
<1>2. Confirmation' =
        /\ step' \in Steps
        /\ step' = "reset" /\ writes' # <<>> => data'.reset
        /\ step' = "version" => data'.reset \/ ~pending'
        /\ step' = "version" /\ waiting' => ~data'.reset
        /\ step' \in {"confirm", "check", "done"} => ~pending'
        /\ step' = "confirm" /\ writes' # <<>> /\ exception' = "ok" => ~trial'
        /\ step' \in {"check", "done"} => ~trial'
        /\ step' = "done" => slot0' = new'
        /\ step' \in {"version", "check"} => values' \in {<<>>, Version'}
  BY DEF Confirmation
<1>3. slot0' = slot0 => Version' = Version
  OBVIOUS
<1> HIDE DEF Version
<1>4. CASE Send
  <2>1. /\ UNCHANGED <<new, step, data, exception, values, writes, slot0, pending, trial>>
        /\ ~data.reset
    BY <1>4 DEF Send, Sending, S!TakeRequest, update
  <2> QED
    BY <1>1, <1>2, <1>3, <2>1
<1>5. CASE LoseRequest
  <2>1. /\ UNCHANGED <<new, waiting, data, exception, values, writes, slot0, pending, trial>>
        /\ step' = step \/ step' = "prepare"
    BY <1>5 DEF LoseRequest, StepAfterTimeout, slave, update
  <2> QED
    BY <1>1, <1>2, <1>3, <2>1
<1>6. CASE LoseResponse
  <2>1. /\ UNCHANGED <<new, data, slot0, pending, trial>> /\ waiting' = FALSE
        /\ writes' = <<>> /\ values' = <<>> /\ (step' = step \/ step' = "prepare")
    BY <1>6 DEF LoseResponse, S!Return, TimesOut, StepAfterTimeout, update
  <2> QED
    BY <1>1, <1>2, <2>1
<1>7. CASE Deliver
  <2>1. /\ UNCHANGED <<new, data, slot0, pending, trial>> /\ waiting /\ waiting' = FALSE
        /\ writes' = <<>> /\ values' = <<>> /\ step' = StepAfterAnswer
    BY <1>7, AnswerCame DEF Answered, update
  <2>2. CASE step' = "prepare"
    BY <1>2, <2>2
  <2>3. CASE /\ exception = "ok" /\ response.kind # "exception"
             /\ step \in {"prepare", "pending", "reset", "confirm"} => writes # <<>>
    <3>1. CASE step = "reset"
      <4>1. step' = "version" /\ data.reset
        BY <1>1, <2>1, <2>3, <3>1 DEF StepAfterAnswer
      <4> QED
        BY <1>2, <2>1, <4>1
    <3>2. CASE step = "version"
      <4>1. step' \in {"confirm", "prepare"} /\ ~pending
        BY <1>1, <2>1, <2>3, <3>2 DEF StepAfterAnswer
      <4> QED
        BY <1>2, <2>1, <4>1
    <3>3. CASE step = "confirm"
      <4>1. step' = "check" /\ ~pending /\ ~trial
        BY <1>1, <2>1, <2>3, <3>3 DEF StepAfterAnswer
      <4> QED
        BY <1>2, <2>1, <4>1
    <3>4. CASE step = "check" /\ RunsNew
      <4>1. step' = "done" /\ ~pending /\ ~trial
        BY <1>1, <2>1, <2>3, <3>4 DEF StepAfterAnswer
      <4>2. slot0 = new
        BY <1>1, <3>4, SeenRunning DEF Version
      <4> QED
        BY <1>2, <2>1, <4>1, <4>2
    <3>5. CASE step = "done"
      <4>1. step' \in {"done", "prepare"}
        BY <2>1, <2>3, <3>5 DEF StepAfterAnswer
      <4> QED
        BY <1>1, <1>2, <2>1, <3>5, <4>1
    <3>6. CASE step \in {"prepare", "data", "pending"}
      <4>1. step' \in {"data", "pending"} \/ (step' = "reset")
        BY <2>1, <2>3, <3>6 DEF StepAfterAnswer
      <4> QED
        BY <1>2, <2>1, <4>1
    <3>7. CASE step = "check" /\ ~RunsNew
      <4>1. step' = "prepare"
        BY <2>1, <2>3, <3>7 DEF StepAfterAnswer
      <4> QED
        BY <1>2, <4>1
    <3> QED
      BY <1>1, <3>1, <3>2, <3>3, <3>4, <3>5, <3>6, <3>7
  <2> QED
    BY <1>7, <2>2, <2>3, AnswerCame
<1>8. CASE Execute
  <2>1. UNCHANGED <<new, step, waiting, writes, slot0, pending, trial>>
    BY <1>8 DEF Execute, S!Begin, S!ReadRegister, S!Complete, update, master
  <2>2. data'.reset = data.reset
    <3>1. data \in [reset : BOOLEAN, measurement : Raw, available : BOOLEAN]
      BY DEF Outcome
    <3>2. UNCHANGED data \/ data' = [data EXCEPT !.available = FALSE]
      BY <1>8 DEF Execute, S!Begin, S!ReadRegister, S!Complete, S!Completed
    <3> QED
      BY <3>1, <3>2
  <2>3. ASSUME step = "confirm", writes # <<>> PROVE UNCHANGED exception
    <3>1. ~S!Begin
      BY <2>3 DEF S!Begin, Turn
    <3>2. ~S!ReadRegister(VersionOf[slot0])
      <4>1. pc = "registers" => request.fn = "write"
        BY <2>3 DEF Turn, NextRequest, Command, Write
      <4> QED
        BY <4>1 DEF S!ReadRegister, S!InLoop
    <3> QED
      BY <1>8, <3>1, <3>2 DEF Execute, S!Complete
  <2>4. ASSUME step \in {"version", "check"} PROVE values' \in {<<>>, Version}
    <3>1. CASE S!ReadRegister(VersionOf[slot0])
      <4>1. request = ReadVersion
        BY <2>4, <3>1 DEF S!ReadRegister, S!InLoop, Turn, NextRequest
      <4> QED
        BY <1>1, <2>4, <3>1, <4>1, VersionRead DEF Version
    <3>2. CASE S!Begin \/ S!Complete
      BY <1>1, <2>4, <3>2 DEF S!Begin, S!Complete
    <3> QED
      BY <1>8, <3>1, <3>2 DEF Execute
  <2> QED
    BY <1>1, <1>2, <1>3, <2>1, <2>2, <2>3, <2>4
<1>9. CASE WriteRegister
  <2>1. UNCHANGED <<new, step, waiting>>
    BY <1>9, Written DEF master
  <2>2. CASE step \in {"prepare", "data", "pending"}
    BY <1>1, <1>2, <2>1, <2>2
  <2>3. CASE step = "reset"
    <3>1. data' = [data EXCEPT !.reset = TRUE]
      BY <1>9, <2>3, Written
    <3>2. data'.reset = TRUE
      BY <3>1 DEF Outcome
    <3> QED
      BY <1>1, <1>2, <2>1, <2>3, <3>2
  <2>4. CASE step = "confirm"
    <3>1. U!Confirm /\ (exception' = "ok" => ~trial')
      BY <1>9, <2>4, Written
    <3>2. pending' = pending
      BY <3>1 DEF U!Confirm
    <3> QED
      BY <1>1, <1>2, <2>1, <2>4, <3>1, <3>2
  <2> QED
    BY <1>9, <2>2, <2>3, <2>4, Written
<1>10. CASE Reset \/ PowerFails
  <2>1. /\ SlaveStarts /\ ((waiting /\ TimesOut) \/ (~waiting /\ UNCHANGED master))
        /\ pending' = FALSE
        /\ ~pending => slot0' = slot0 \/ trial
        /\ ~pending => ~trial' \/ trial
    BY <1>10, Restarted
  <2>2. /\ writes' = <<>> /\ values' = <<>> /\ new' = new /\ ~waiting'
        /\ step' = step \/ step' = "prepare"
    <3>1. writes' = <<>> /\ values' = <<>>
      BY <2>1 DEF SlaveStarts
    <3>2. CASE waiting /\ TimesOut
      BY <3>1, <3>2 DEF TimesOut, StepAfterTimeout
    <3>3. CASE ~waiting /\ UNCHANGED master
      BY <3>1, <3>3 DEF master
    <3> QED
      BY <2>1, <3>2, <3>3
  <2>3. step \in {"check", "done"} => ~trial' /\ slot0' = slot0
    BY <1>1, <2>1
  <2> QED
    BY <1>1, <1>2, <2>1, <2>2, <2>3
<1>11. CASE UNCHANGED vars
  <2>1. UNCHANGED <<new, step, waiting, data, exception, values, writes, slot0, pending,
                    trial>>
    BY <1>11 DEF vars, slave, update, master
  <2> QED
    BY <1>1, <1>2, <1>3, <2>1
<1> QED
  BY <1>4, <1>5, <1>6, <1>7, <1>8, <1>9, <1>10, <1>11 DEF Next, Work, Finished

LEMMA InitTypes == Init => Types
<1> SUFFICES ASSUME Init PROVE Types
  OBVIOUS
<1>1. /\ exception = "ok" /\ values = <<>> /\ samples = <<>> /\ response = S!NoResponse
      /\ before = FALSE /\ waiting = FALSE /\ asked = FALSE /\ faults = MaxFaults
  BY DEF Init, S!Init
<1>2. values \in Seq(Word) /\ samples \in Seq(Raw)
  BY <1>1
<1>3. faults \in 0 .. MaxFaults
  BY <1>1, SessionAssumption
<1> QED
  BY <1>1, <1>2, <1>3 DEF Types, S!NoResponse

(* The only register that is read is the version.                          *)
LEMMA ReadWord ==
  ASSUME Words, Turn, values \in Seq(Word), slot0 \in Image,
         S!ReadRegister(VersionOf[slot0])
  PROVE  values' \in Seq(Word)
<1>1. request = NextRequest /\ request.fn = "read"
  BY DEF S!ReadRegister, S!InLoop, Turn
<1>2. request = ReadVersion
  BY <1>1 DEF NextRequest, Command, Write, DataWords
<1>3. values = <<>>
  <2>1. S!Done = Len(values) /\ S!Quantity(request) = request.fields[2]
    BY <1>1 DEF S!Done, S!Quantity
  <2>2. S!Done < S!Quantity(request)
    BY DEF S!ReadRegister, S!InLoop
  <2>3. request.fields[2] = 1
    BY <1>2 DEF ReadVersion
  <2>4. Len(values) < 1
    BY <2>1, <2>2, <2>3
  <2> QED
    BY <2>4, EmptySeq
<1>4. values' \in {<<>>, <<VersionOf[slot0]>>}
  BY <1>2, <1>3, VersionRead
<1>5. VersionOf[slot0] \in Word
  BY SessionAssumption DEF Word
<1> DEFINE v == VersionOf[slot0]
<1> HIDE DEF v
<1>6. v \in Word => <<>> \in Seq(Word) /\ <<v>> \in Seq(Word)
  OBVIOUS
<1> QED
  BY <1>4, <1>5, <1>6 DEF v

LEMMA NextTypes ==
  Words /\ Turn /\ Outcome /\ Contents /\ UP!Consistent /\ Types /\ [Next]_vars => Types'
<1> SUFFICES ASSUME Words, Turn, Outcome, Contents, UP!Consistent, Types, [Next]_vars
             PROVE  Types'
  OBVIOUS
<1> DEFINE Exceptions == {"ok", "invalid frame", "illegal function",
                          "illegal data value", "illegal data address"}
           Kinds == {"none", "values", "written", "exception"}
           SV == Seq(Word)
           SR == Seq(Raw)
<1>1. /\ exception \in Exceptions /\ values \in SV /\ samples \in SR /\ response.kind \in Kinds
      /\ {before, waiting, asked} \subseteq BOOLEAN /\ faults \in 0 .. MaxFaults
  BY DEF Types
<1>2. Types' = /\ exception' \in Exceptions /\ values' \in SV /\ samples' \in SR
               /\ response'.kind \in Kinds
               /\ {before', waiting', asked'} \subseteq BOOLEAN /\ faults' \in 0 .. MaxFaults
  BY DEF Types
<1>3. <<>> \in SV /\ <<>> \in SR
  OBVIOUS
<1>4. data.reset \in BOOLEAN
  BY DEF Outcome
<1>5. slot0 \in Image
  BY DEF UP!Consistent, UP!TypeOK
<1>6. Fault => faults' \in 0 .. MaxFaults
  <2>1. faults \in 0 .. MaxFaults /\ MaxFaults \in Nat
    BY SessionAssumption DEF Types
  <2> HIDE DEF Exceptions
  <2> QED
    BY <2>1 DEF Fault
<1>7. ASSUME NEW w \in BOOLEAN, NEW a \in BOOLEAN PROVE (w \/ a) \in BOOLEAN /\ (w /\ a) \in BOOLEAN
  OBVIOUS
<1> HIDE DEF SV, SR, Kinds
<1>8. S!NoResponse.kind \in Kinds
  BY DEF S!NoResponse, Kinds
<1>9. Sending => asked' \in BOOLEAN
  BY DEF Sending
<1>10. CASE Send
  <2>1. /\ UNCHANGED <<exception, values, samples, response, before, faults>>
        /\ waiting' = TRUE /\ Sending
    BY <1>10 DEF Send, S!TakeRequest
  <2> QED
    BY <1>1, <1>2, <1>9, <2>1
<1>11. CASE LoseRequest
  <2>1. /\ UNCHANGED <<exception, values, samples, response, before, waiting>>
        /\ Sending /\ Fault
    BY <1>11 DEF LoseRequest, slave
  <2> QED
    BY <1>1, <1>2, <1>6, <1>9, <2>1
<1>12. CASE Deliver \/ LoseResponse
  <2>1. /\ exception' = "ok" /\ values' = <<>> /\ samples' = <<>> /\ response' = S!NoResponse
        /\ before' = data.reset
    BY <1>12 DEF Deliver, LoseResponse, S!Return
  <2>2. waiting' \in BOOLEAN /\ asked' \in BOOLEAN
    BY <1>1, <1>12 DEF Deliver, LoseResponse, Answered, TimesOut, master
  <2>3. faults' \in 0 .. MaxFaults
    BY <1>1, <1>6, <1>12 DEF Deliver, LoseResponse
  <2> QED
    BY <1>2, <1>3, <1>4, <1>8, <2>1, <2>2, <2>3
<1>13. CASE WriteRegister
  <2>1. PICK refused \in BOOLEAN :
          S!WriteRegister(refused) /\ (IF refused THEN Fault ELSE UNCHANGED faults)
    BY <1>13 DEF WriteRegister
  <2>2. UNCHANGED <<values, samples, response, before>> /\ exception' \in Exceptions
    BY <1>1, <2>1 DEF S!WriteRegister, S!Fail
  <2>3. UNCHANGED <<waiting, asked>>
    BY <1>13 DEF WriteRegister, master
  <2>4. faults' \in 0 .. MaxFaults
    BY <1>1, <1>6, <2>1
  <2> QED
    BY <1>1, <1>2, <2>2, <2>3, <2>4
<1>14. CASE Execute
  <2>1. UNCHANGED <<samples, before, waiting, asked, faults>>
    BY <1>14 DEF Execute, S!Begin, S!ReadRegister, S!Complete, master
  <2>2. CASE S!Begin
    <3>1. UNCHANGED <<values, response>> /\ exception' \in Exceptions
      BY <2>2 DEF S!Begin, S!Checked
    <3> QED
      BY <1>1, <1>2, <2>1, <3>1
  <2>3. CASE S!ReadRegister(VersionOf[slot0])
    <3>1. UNCHANGED response /\ exception' \in Exceptions
      BY <1>1, <2>3 DEF S!ReadRegister, S!Fail
    <3>2. values' \in SV
      BY <1>1, <1>5, <2>3, ReadWord DEF SV
    <3> QED
      BY <1>1, <1>2, <2>1, <3>1, <3>2
  <2>4. CASE S!Complete
    <3>1. UNCHANGED <<values, exception>> /\ response' = S!Answer(request)
      BY <2>4 DEF S!Complete
    <3>2. S!Answer(request).kind \in Kinds
      BY DEF S!Answer, S!NoResponse, Kinds
    <3> QED
      BY <1>1, <1>2, <2>1, <3>1, <3>2
  <2> QED
    BY <1>14, <2>2, <2>3, <2>4 DEF Execute
<1>15. CASE Reset \/ PowerFails
  <2>1. SlaveStarts /\ faults' \in 0 .. MaxFaults
    BY <1>1, <1>6, <1>15 DEF Reset, PowerFails
  <2>2. /\ exception' = "ok" /\ values' = <<>> /\ samples' = <<>> /\ response' = S!NoResponse
        /\ before' = FALSE
    BY <2>1 DEF SlaveStarts
  <2>3. waiting' \in BOOLEAN /\ asked' = asked
    BY <1>1, <1>15 DEF Reset, PowerFails, TimesOut, master
  <2> QED
    BY <1>1, <1>2, <1>3, <1>8, <2>1, <2>2, <2>3
<1>16. CASE UNCHANGED vars
  <2>1. UNCHANGED <<exception, values, samples, response, before, waiting, asked, faults>>
    BY <1>16 DEF vars, slave, master
  <2> QED
    BY <1>1, <1>2, <2>1
<1> QED
  BY <1>10, <1>11, <1>12, <1>13, <1>14, <1>15, <1>16 DEF Next, Work, Finished

LEMMA InitAsked == Init => Asked
  BY DEF Init, Asked

LEMMA NextAsked ==
  Words /\ Turn /\ Outcome /\ Contents /\ Marks /\ Confirmation /\ Asked /\ [Next]_vars
  => Asked'
<1> SUFFICES ASSUME Words, Turn, Outcome, Contents, Marks, Confirmation, Asked, [Next]_vars
             PROVE  Asked'
  OBVIOUS
<1> DEFINE Later == {"reset", "version", "confirm", "check", "done"}
<1>1. (step \in Later => asked) /\ (step = "done" => ~waiting)
  BY DEF Asked
<1>2. Asked' = ((step' \in Later => asked') /\ (step' = "done" => ~waiting'))
  BY DEF Asked
<1>3. CASE Send \/ LoseRequest
  <2>1. /\ step # "done" /\ (asked => asked') /\ (step' = step \/ step' = "prepare")
    BY <1>3 DEF Send, LoseRequest, Sending, StepAfterTimeout
  <2> QED
    BY <1>1, <1>2, <2>1
<1>4. CASE LoseResponse
  <2>1. ~waiting' /\ asked' = asked /\ (step' = step \/ step' = "prepare")
    BY <1>4 DEF LoseResponse, TimesOut, StepAfterTimeout
  <2> QED
    BY <1>1, <1>2, <2>1
<1>5. CASE Deliver
  <2>1. waiting /\ waiting' = FALSE /\ step' = StepAfterAnswer /\ asked' = (asked /\ step # "prepare")
    BY <1>5, AnswerCame DEF Answered
  <2>2. step' \in Later => step = "pending" \/ step \in Later
    BY <2>1 DEF StepAfterAnswer, Confirmation
  <2>3. step = "pending" => asked
    BY <2>1 DEF Marks
  <2> QED
    BY <1>1, <1>2, <2>1, <2>2, <2>3
<1>6. CASE WriteRegister
  <2>1. UNCHANGED <<step, asked, waiting>>
    BY <1>6 DEF WriteRegister, master
  <2> QED
    BY <1>1, <1>2, <2>1
<1>7. CASE Execute \/ UNCHANGED vars
  <2>1. UNCHANGED <<step, asked, waiting>>
    BY <1>7 DEF Execute, vars, master
  <2> QED
    BY <1>1, <1>2, <2>1
<1>8. CASE Reset \/ PowerFails
  <2>1. (waiting /\ TimesOut) \/ (~waiting /\ UNCHANGED master)
    BY <1>8, Restarted
  <2>2. asked' = asked /\ ~waiting' /\ (step' = step \/ step' = "prepare")
    BY <2>1 DEF TimesOut, StepAfterTimeout, master
  <2> QED
    BY <1>1, <1>2, <2>2
<1> QED
  BY <1>3, <1>4, <1>5, <1>6, <1>7, <1>8 DEF Next, Work, Finished

-----------------------------------------------------------------------------
(* What the steps are to one who sees no more than UpdatePromise.          *)

(* The master's side: an answer, or what it does without one.              *)
LEMMA SamePhase ==
  ASSUME asked' = asked,
         step' = step \/ (step \in {"prepare", "data", "pending"} /\ step' = "prepare")
  PROVE  Phase' = Phase
BY DEF Phase

LEMMA AnswerPromised ==
  ASSUME Words, Turn, Outcome, Contents, Marks, Confirmation, Asked, Deliver
  PROVE  [Promise!Next]_(Promise!vars)
<1>1. /\ waiting /\ UNCHANGED <<slot0, new, pending, trial>>
      /\ step' = StepAfterAnswer /\ asked' = (asked /\ step # "prepare")
      /\ \/ exception # "ok" /\ step # "prepare" /\ step' = "prepare"
         \/ /\ exception = "ok" /\ response.kind # "exception"
            /\ step \in {"prepare", "pending", "reset", "confirm"} => writes # <<>>
  BY AnswerCame DEF Answered, update
<1>2. /\ step \in {"prepare", "data", "pending", "reset", "version", "confirm", "check"}
      /\ step \in {"reset", "version", "confirm", "check"} => asked
      /\ step = "pending" => asked
  BY <1>1 DEF Confirmation, Asked, Marks
<1>3. ASSUME Phase' = Phase PROVE UNCHANGED Promise!vars
  BY <1>1, <1>3 DEF Promise!vars
<1>4. CASE step = "prepare"
  <2>1. Phase' = "sending" /\ (Phase = "sending" \/ Phase = "asked") /\ ~pending
    <3>1. step' = "data" /\ ~asked' /\ ~pending
      BY <1>1, <1>4 DEF StepAfterAnswer, Marks
    <3> QED
      BY <1>4, <3>1 DEF Phase
  <2> QED
    BY <1>1, <1>3, <2>1 DEF Promise!Next, Promise!Withdraw
<1>5. CASE step \in {"data", "pending", "reset"}
  <2>1. asked' = asked /\ step' \in {"prepare", "data", "pending", "reset", "version"}
    <3>1. asked' = asked
      <4>1. asked' = (asked /\ TRUE)
        BY <1>1, <1>5
      <4>2. asked = TRUE \/ asked = FALSE
        BY <1>2, <1>5 DEF Marks
      <4> QED
        BY <4>1, <4>2
    <3> QED
      BY <1>1, <1>5, <3>1 DEF StepAfterAnswer
  <2>2. Phase' = Phase
    BY <1>5, <2>1 DEF Phase
  <2> QED
    BY <1>3, <2>2
<1>6. CASE step = "version"
  <2>1. asked /\ asked' /\ Phase = "asked" /\ step' \in {"prepare", "confirm"} /\ ~pending
    BY <1>1, <1>2, <1>6 DEF StepAfterAnswer, Phase, Confirmation
  <2>2. CASE step' = "prepare"
    BY <1>3, <2>1, <2>2 DEF Phase
  <2>3. CASE step' = "confirm"
    <3>1. RunsNew /\ values \in {<<>>, <<VersionOf[slot0]>>}
      BY <1>1, <1>6, <2>3 DEF StepAfterAnswer, Confirmation
    <3>2. slot0 = new /\ Phase' = "seen"
      BY <2>3, <3>1, SeenRunning DEF Phase
    <3> QED
      BY <1>1, <2>1, <3>2 DEF Promise!Next, Promise!See
  <2> QED
    BY <2>1, <2>2, <2>3
<1>7. CASE step \in {"confirm", "check"}
  <2>1. asked /\ asked' /\ Phase = "seen" /\ step' \in {"prepare", "check", "done"}
    BY <1>1, <1>2, <1>7 DEF StepAfterAnswer, Phase
  <2>2. CASE step' = "prepare"
    <3>1. Phase' = "asked"
      BY <2>1, <2>2 DEF Phase
    <3> QED
      BY <1>1, <2>1, <3>1 DEF Promise!Next, Promise!Despair
  <2>3. CASE step' = "check"
    BY <1>3, <2>1, <2>3 DEF Phase
  <2>4. CASE step' = "done"
    <3>1. step = "check" /\ RunsNew /\ values \in {<<>>, <<VersionOf[slot0]>>}
      BY <1>1, <1>7, <2>4 DEF StepAfterAnswer, Confirmation
    <3>2. slot0 = new /\ Phase' = "done" /\ ~trial /\ ~pending
      BY <2>4, <3>1, SeenRunning DEF Phase, Confirmation
    <3> QED
      BY <1>1, <2>1, <3>2 DEF Promise!Next, Promise!Finish
  <2> QED
    BY <2>1, <2>2, <2>3, <2>4
<1> QED
  BY <1>2, <1>4, <1>5, <1>6, <1>7

(* The unit's side: a register write, and a restart.                       *)
LEMMA WritePromised ==
  ASSUME Words, Turn, Contents, Marks, WriteRegister
  PROVE  [Promise!Next]_(Promise!vars)
<1>1. UNCHANGED <<master, slot0>> /\ waiting
  <2>1. UNCHANGED slot0
    BY Written DEF U!Prepare, U!WriteData, U!SetPending, U!Confirm, U!boot, update
  <2> QED
    BY <2>1, Written
<1>2. Phase' = Phase /\ new' = new
  BY <1>1 DEF Phase, master
<1>3. CASE step = "prepare"
  <2>1. pending' = FALSE /\ trial' = trial
    BY <1>3, Written DEF U!Prepare, U!PrepareUpdate, U!boot
  <2>2. Phase \in {"sending", "asked"}
    BY <1>3 DEF Phase
  <2> QED
    BY <1>1, <1>2, <2>1, <2>2 DEF Promise!Next, Promise!Erase
<1>4. CASE step \in {"data", "reset"}
  <2>1. pending' = pending /\ trial' = trial
    BY <1>4, Written DEF U!WriteData, U!boot, update
  <2> QED
    BY <1>1, <1>2, <2>1 DEF Promise!vars
<1>5. CASE step = "pending"
  <2>1. pending' \in {pending, TRUE} /\ trial' = trial
    BY <1>5, Written DEF U!SetPending, U!SetUpdatePending, U!boot
  <2>2. Phase = "asked"
    BY <1>1, <1>5 DEF Phase, Marks
  <2> QED
    BY <1>1, <1>2, <2>1, <2>2 DEF Promise!Next, Promise!Mark, Promise!vars
<1>6. CASE step = "confirm"
  <2>1. trial' \in {trial, FALSE} /\ pending' = pending
    BY <1>6, Written DEF U!Confirm, U!SetUpdateConfirmed
  <2>2. Phase = "seen"
    BY <1>6 DEF Phase
  <2> QED
    BY <1>1, <1>2, <2>1, <2>2 DEF Promise!Next, Promise!Confirm, Promise!vars
<1> QED
  BY <1>3, <1>4, <1>5, <1>6, Written

LEMMA RestartPromised ==
  ASSUME Words, Turn, Contents, Marks, Reset \/ PowerFails
  PROVE  [Promise!Next]_(Promise!vars)
<1>1. /\ (waiting /\ TimesOut) \/ (~waiting /\ UNCHANGED master)
      /\ pending' = FALSE
      /\ \/ slot0' = slot0 /\ trial' = trial
         \/ pending /\ slot0' = new /\ trial' = TRUE
         \/ trial /\ trial' = FALSE
  BY Restarted
<1>2. Phase' = Phase /\ new' = new
  <2>1. /\ asked' = asked /\ new' = new
        /\ step' = step \/ (step \in {"prepare", "data", "pending"} /\ step' = "prepare")
    BY <1>1 DEF TimesOut, StepAfterTimeout, master
  <2> QED
    BY <2>1, SamePhase
<1> QED
  BY <1>1, <1>2 DEF Promise!Next, Promise!Restart

LEMMA StepPromised ==
  ASSUME Words, Turn, Outcome, Contents, Marks, Confirmation, Asked, [Next]_vars
  PROVE  [Promise!Next]_(Promise!vars)
<1>1. ASSUME Phase' = Phase, UNCHANGED <<slot0, new, pending, trial>>
      PROVE  UNCHANGED Promise!vars
  BY <1>1 DEF Promise!vars
<1>2. CASE Send \/ LoseRequest
  <2>1. /\ UNCHANGED <<slot0, new, pending, trial>> /\ asked' = (asked \/ step = "pending")
        /\ step' = step \/ (step \in {"prepare", "data", "pending"} /\ step' = "prepare")
    BY <1>2 DEF Send, LoseRequest, Sending, StepAfterTimeout, update
  <2>2. CASE step # "pending" \/ asked
    <3>1. asked' <=> asked
      BY <2>1, <2>2
    <3>2. Phase' = Phase
      BY <2>1, <3>1 DEF Phase
    <3> QED
      BY <1>1, <2>1, <3>2
  <2>3. CASE step = "pending" /\ ~asked
    <3>1. Phase = "sending" /\ Phase' = "asked"
      BY <2>1, <2>3 DEF Phase
    <3> QED
      BY <2>1, <3>1 DEF Promise!Next, Promise!Ask
  <2> QED
    BY <2>2, <2>3
<1>3. CASE LoseResponse
  <2>1. UNCHANGED <<slot0, new, pending, trial>> /\ TimesOut
    BY <1>3 DEF LoseResponse, TimesOut, update
  <2>2. Phase' = Phase
    BY <2>1, SamePhase DEF TimesOut, StepAfterTimeout
  <2> QED
    BY <1>1, <2>1, <2>2
<1>4. CASE Execute \/ UNCHANGED vars
  <2>1. UNCHANGED <<slot0, new, pending, trial, step, asked>>
    BY <1>4 DEF Execute, vars, update, master
  <2> QED
    BY <1>1, <2>1, SamePhase
<1> QED
  BY <1>2, <1>3, <1>4, AnswerPromised, WritePromised, RestartPromised DEF Next, Work, Finished

-----------------------------------------------------------------------------
(* Theorems.                                                               *)

Session == Words /\ Turn /\ Transfer /\ UP!Consistent
Outcomes == Contents /\ Outcome /\ Marks /\ Complete /\ Confirmation

LEMMA InitSession == Init => Session /\ Outcomes
BY InitWords, InitTurn, InitUpdate, InitOutcome DEF Session, Outcomes

LEMMA NextSession == Session /\ Outcomes /\ [Next]_vars => Session' /\ Outcomes'
BY NextWords, NextTurn, NextTransfer, NextUpdate, NextContents, NextOutcome, NextMarks,
   NextComplete, NextConfirmation
   DEF Session, Outcomes

(***************************************************************************)
(* The types: the slave's, which takes only requests the master makes, the *)
(* update's, of which UP speaks, and the master's own.  Every word that is *)
(* read or written is 16 bits wide, and the master never counts more words *)
(* than the image has.                                                     *)
(***************************************************************************)
THEOREM SessionTypes == Spec => []TypeOK
<1>1. ASSUME Session, Outcomes, Types PROVE TypeOK
  <2>1. Words /\ Turn /\ UP!Consistent /\ Outcome /\ Confirmation
    BY <1>1 DEF Session, Outcomes
  <2>2. S!TypeOK
    <3>1. /\ pc \in {"listening", "execute", "registers", "complete", "answer"}
          /\ data \in [reset : BOOLEAN, measurement : Raw, available : BOOLEAN]
          /\ request \in S!AnyRequest
      BY <2>1 DEF Turn, Outcome, Words
    <3>2. values \in Seq(S!Word) /\ writes \in Seq(S!Word \X S!Word)
      BY <1>1, <2>1 DEF Types, Words, Word, S!Word
    <3>3. before \in BOOLEAN
      BY <1>1 DEF Types
    <3> QED
      BY <1>1, <3>1, <3>2, <3>3 DEF S!TypeOK, Types
  <2>3. U!TypeOK
    BY <2>1 DEF UP!Consistent, UP!TypeOK, UP!Slot, UP!SlotSize, UP!Cell,
                U!TypeOK, U!Slot, U!SlotSize, U!Cell
  <2>4. new \in Image /\ sent \in 0 .. Len(new)
    BY <2>1 DEF Words
  <2>5. step \in {"prepare", "data", "pending", "reset", "version", "confirm", "check", "done"}
    BY <2>1 DEF Confirmation
  <2>6. waiting \in BOOLEAN /\ asked \in BOOLEAN /\ faults \in 0 .. MaxFaults
    BY <1>1 DEF Types
  <2> QED
    BY <2>2, <2>3, <2>4, <2>5, <2>6 DEF TypeOK
<1>2. Session /\ Outcomes /\ Types /\ [Next]_vars => Types'
  BY NextTypes DEF Session, Outcomes
<1> QED
  BY <1>1, <1>2, InitSession, NextSession, InitTypes, PTL DEF Spec

(***************************************************************************)
(* A positive answer to kSetPending means that the whole image is in the   *)
(* slot and marked, for any image, any number of words in a request, and   *)
(* any requests lost and commands refused before.                          *)
(***************************************************************************)
THEOREM MarkedAsAnswered == Spec => AnsweredIsMarked
<1>1. ASSUME Session, Outcomes, [Next]_vars, step = "pending", step' = "reset", fresh
      PROVE  pending /\ \A i \in 1 .. Len(new) : slot1[i - 1] = new[i]
  <2>1. Words /\ Turn /\ Outcome /\ Contents /\ Marks /\ Complete
    BY <1>1 DEF Session, Outcomes
  <2>2. Deliver
    <3>1. ~(Send \/ LoseRequest \/ LoseResponse \/ Execute \/ UNCHANGED vars)
      BY <1>1 DEF Send, LoseRequest, LoseResponse, TimesOut, StepAfterTimeout, Execute,
                  master, vars
    <3>2. ~WriteRegister
      BY <1>1, <2>1, Written DEF master
    <3>3. ~(Reset \/ PowerFails)
      BY <1>1, <2>1, Restarted DEF TimesOut, StepAfterTimeout, master
    <3> QED
      BY <1>1, <3>1, <3>2, <3>3 DEF Next, Work, Finished
  <2>3. exception = "ok" /\ writes # <<>>
    BY <1>1, <2>1, <2>2, AnswerCame
  <2>4. pending /\ U!Holds(slot1, new)
    BY <1>1, <2>1, <2>3 DEF Complete
  <2> QED
    BY <2>4 DEF U!Holds
<1>2. Session /\ Outcomes /\ [Next]_vars =>
        [step = "pending" /\ step' = "reset" /\ fresh =>
           pending /\ \A i \in 1 .. Len(new) : slot1[i - 1] = new[i]]_vars
  BY <1>1
<1> QED
  BY <1>2, InitSession, NextSession, PTL DEF Spec, AnsweredIsMarked

(***************************************************************************)
(* The unit never starts the new image unless it was asked to, with        *)
(* kSetPending and in the transfer that brought it: neither what a torn    *)
(* erasure or a torn page leaves nor words at a wrong place make one up.   *)
(***************************************************************************)
THEOREM StartedWhenAsked == Spec => NotBeforeAsked
<1>1. ASSUME Session, Outcomes, [Next]_vars, slot0 # new, slot0' = new PROVE asked
  <2>1. Words /\ Turn /\ Outcome /\ Contents /\ Marks
    BY <1>1 DEF Session, Outcomes
  <2>2. slot0' # slot0
    BY <1>1
  <2>3. ~(Send \/ LoseRequest \/ Deliver \/ LoseResponse \/ Execute \/ UNCHANGED vars)
    BY <2>2 DEF Send, LoseRequest, Deliver, LoseResponse, Execute, update, vars
  <2>4. ~WriteRegister
    BY <2>1, <2>2, Written DEF U!Prepare, U!WriteData, U!SetPending, U!Confirm, U!boot, update
  <2>5. Reset \/ PowerFails
    BY <1>1, <2>3, <2>4 DEF Next, Work, Finished
  <2>6. ~pending => slot0' = slot0 \/ trial
    BY <2>1, <2>5, Restarted
  <2>7. trial => slot0 = new
    BY <2>1 DEF Marks
  <2>8. pending
    BY <1>1, <2>2, <2>6, <2>7
  <2> QED
    BY <2>1, <2>8 DEF Marks
<1>2. Session /\ Outcomes /\ [Next]_vars => [slot0 # new /\ slot0' = new => asked]_vars
  BY <1>1
<1> QED
  BY <1>2, InitSession, NextSession, PTL DEF Spec, NotBeforeAsked

(***************************************************************************)
(* A master that is done can go: the new image runs and is confirmed, and  *)
(* stays so, because nothing is marked that a reset could start instead.   *)
(***************************************************************************)
THEOREM DoneForGood == Spec => []DoneIsDurable
<1>1. Session /\ Outcomes => DoneIsDurable
  BY DEF Session, Outcomes, Confirmation, DoneIsDurable
<1> QED
  BY <1>1, InitSession, NextSession, PTL DEF Spec

(***************************************************************************)
(* The update keeps its promise: a composition of master, bus, slave,      *)
(* flash and MCUboot, with everything that can be lost, refused or         *)
(* interrupted, implements the state machine of UpdatePromise.             *)
(***************************************************************************)
THEOREM UpdateKeepsPromise == Spec => KeepsPromise
<1>1. Init => Promise!Init
  BY DEF Init, U!Init, Promise!Init, Phase
<1>2. Session /\ Outcomes /\ Asked /\ [Next]_vars => [Promise!Next]_(Promise!vars)
  BY StepPromised DEF Session, Outcomes
<1>3. Session /\ Outcomes /\ Asked /\ [Next]_vars => Asked'
  BY NextAsked DEF Session, Outcomes
<1> QED
  BY <1>1, <1>2, <1>3, InitSession, NextSession, InitAsked, PTL
     DEF Spec, KeepsPromise, Promise!Spec

(***************************************************************************)
(* What UpdatePromise says at its end is then true of the unit: when the   *)
(* master is done neither a restart nor a power failure changes the image  *)
(* that runs, starts a trial or finds a mark.                              *)
(***************************************************************************)
THEOREM DoneIsFinal == Spec => Promise!Final
<1>1. Promise!Init => Promise!Settled
  BY DEF Promise!Init, Promise!Settled
<1>2. Promise!Settled /\ [Promise!Next]_(Promise!vars) => Promise!Settled'
  <2> SUFFICES ASSUME Promise!Settled, Promise!Next \/ UNCHANGED Promise!vars
               PROVE  Promise!Settled'
    OBVIOUS
  <2>1. CASE Promise!Ask \/ Promise!Withdraw \/ Promise!See \/ Promise!Despair
    BY <2>1 DEF Promise!Settled, Promise!Ask, Promise!Withdraw, Promise!See, Promise!Despair
  <2>2. CASE Promise!Finish
    BY <2>2 DEF Promise!Settled, Promise!Finish
  <2>3. CASE Promise!Erase
    BY <2>3 DEF Promise!Settled, Promise!Erase
  <2>4. CASE Promise!Mark
    BY <2>4 DEF Promise!Settled, Promise!Mark
  <2>5. CASE Promise!Confirm
    BY <2>5 DEF Promise!Settled, Promise!Confirm
  <2>6. CASE Promise!Restart
    <3>1. CASE trial' = trial
      BY <2>6, <3>1 DEF Promise!Settled, Promise!Restart
    <3>2. CASE trial' # trial
      BY <2>6, <3>2 DEF Promise!Settled, Promise!Restart
    <3> QED
      BY <3>1, <3>2
  <2>7. CASE UNCHANGED Promise!vars
    BY <2>7 DEF Promise!Settled, Promise!vars
  <2> QED
    BY <2>1, <2>2, <2>3, <2>4, <2>5, <2>6, <2>7 DEF Promise!Next
<1>3. Promise!Settled /\ [Promise!Next]_(Promise!vars) => [Phase # "done"]_(Promise!vars)
  <2> SUFFICES ASSUME Promise!Settled, Promise!Next, Phase = "done"
               PROVE  UNCHANGED Promise!vars
    OBVIOUS
  <2>1. Promise!Restart
    BY DEF Promise!Next, Promise!Ask, Promise!Withdraw, Promise!See, Promise!Despair,
           Promise!Finish, Promise!Erase, Promise!Mark, Promise!Confirm
  <2> QED
    BY <2>1 DEF Promise!Restart, Promise!Settled, Promise!vars
<1> QED
  BY <1>1, <1>2, <1>3, UpdateKeepsPromise, PTL DEF KeepsPromise, Promise!Spec, Promise!Final

=============================================================================
