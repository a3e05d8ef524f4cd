--------------------------- MODULE FwUpdateProofs ---------------------------
(***************************************************************************)
(* Proofs about FwUpdate, for every page size, slot size, set of images    *)
(* and sequence of register writes, resets and power failures.  The three  *)
(* invariants are inductive together: WholePages makes flash_area_write    *)
(* accept the buffer, TypeOK says that it is a whole page by then, and     *)
(* SlotHoldsSession that the page it goes to is erased.                    *)
(***************************************************************************)
EXTENDS FwUpdate, SequenceTheorems, TLAPS

Consistent == TypeOK /\ WholePages /\ SlotHoldsSession

-----------------------------------------------------------------------------
(* Lemmas on pages.                                                        *)

(* Multiples of a page size.                                               *)
LEMMA Multiples ==
  ASSUME NEW m \in Nat, NEW n \in Nat
  PROVE  /\ PageSize * m \in Nat
         /\ m < n => PageSize * m + PageSize <= PageSize * n
<1>1. PageSize \in Nat
  BY PageAssumption
<1>2. PageSize * m \in Nat
  BY <1>1
<1>3. ASSUME m < n PROVE PageSize * m + PageSize <= PageSize * n
  <2> DEFINE k == n - m - 1
  <2>1. k \in Nat /\ n = m + (k + 1)
    BY <1>3
  <2>2. PageSize * n = PageSize * m + PageSize * k + PageSize
    BY <1>1, <2>1
  <2>3. PageSize * k \in Nat
    BY <1>1, <2>1
  <2> QED
    BY <1>1, <1>2, <2>2, <2>3
<1> QED
  BY <1>2, <1>3

(* The word off is the offset of its page and its place in that page.      *)
LEMMA PageAndPlace ==
  ASSUME NEW off \in Nat
  PROVE  /\ PageOf(off) \in Nat /\ off % PageSize \in 0 .. PageSize - 1
         /\ off = PageSize * PageOf(off) + (off % PageSize)
BY PageAssumption DEF PageOf

(* The words of the page that starts at off.                               *)
LEMMA WordsOfPage ==
  ASSUME NEW off \in Nat, off % PageSize = 0, NEW i \in Nat
  PROVE  /\ PageOf(i) = PageOf(off) <=> off <= i /\ i < off + PageSize
         /\ PageOf(i) = PageOf(off) => i % PageSize = i - off
<1> DEFINE p == PageOf(i)
           q == PageOf(off)
<1>1. /\ p \in Nat /\ i % PageSize \in 0 .. PageSize - 1
      /\ i = PageSize * p + (i % PageSize)
  BY PageAndPlace
<1>2. q \in Nat /\ off = PageSize * q + 0
  BY PageAndPlace
<1> HIDE DEF p, q
<1>. PageSize \in Nat /\ PageSize * p \in Nat /\ PageSize * q \in Nat
  BY <1>1, <1>2, PageAssumption, Multiples
<1>3. ASSUME p = q
      PROVE  off <= i /\ i < off + PageSize /\ i % PageSize = i - off
  BY <1>1, <1>2, <1>3
<1>4. ASSUME p < q PROVE i < off
  <2>1. PageSize * p + PageSize <= PageSize * q
    BY <1>1, <1>2, <1>4, Multiples
  <2> QED
    BY <1>1, <1>2, <1>4, <2>1
<1>5. ASSUME q < p PROVE off + PageSize <= i
  <2>1. PageSize * q + PageSize <= PageSize * p
    BY <1>1, <1>2, <1>5, Multiples
  <2> QED
    BY <1>1, <1>2, <1>5, <2>1
<1> QED
  BY <1>1, <1>2, <1>3, <1>4, <1>5 DEF p, q

(* The offset of a page is followed by that of the next one.               *)
LEMMA NextPage ==
  ASSUME NEW off \in Nat, off % PageSize = 0
  PROVE  (off + PageSize) % PageSize = 0
<1> DEFINE q    == PageOf(off)
           next == off + PageSize
           p    == PageOf(next)
<1>1. PageSize \in Nat \ {0} /\ next \in Nat
  BY PageAssumption
<1>2. q \in Nat /\ off = PageSize * q + 0
  BY PageAndPlace
<1>3. /\ p \in Nat /\ next % PageSize \in 0 .. PageSize - 1
      /\ next = PageSize * p + (next % PageSize)
  BY <1>1, PageAndPlace
<1> HIDE DEF q, p
<1>4. next = PageSize * (q + 1) /\ PageSize * (q + 1) \in Nat
  BY <1>1, <1>2, Multiples
<1> HIDE DEF next
<1>5. PageSize * p \in Nat
  BY <1>3, Multiples
<1>6. ~(p < q + 1)
  <2>1. p < q + 1 => PageSize * p + PageSize <= PageSize * (q + 1)
    BY <1>2, <1>3, Multiples
  <2> QED
    BY <1>1, <1>3, <1>4, <1>5, <2>1
<1>7. ~(q + 1 < p)
  <2>1. q + 1 < p => PageSize * (q + 1) + PageSize <= PageSize * p
    BY <1>2, <1>3, Multiples
  <2> QED
    BY <1>1, <1>3, <1>4, <1>5, <2>1
<1>8. p = q + 1
  BY <1>2, <1>3, <1>6, <1>7
<1>9. next % PageSize = 0
  <2> DEFINE r == next % PageSize
  <2>1. r \in Nat /\ next = PageSize * p + r
    BY <1>1, <1>3
  <2>2. next = PageSize * p
    BY <1>4, <1>8
  <2> HIDE DEF r
  <2>3. r = 0
    BY <1>1, <1>5, <2>1, <2>2
  <2> QED
    BY <2>3 DEF r
<1> QED
  BY <1>9 DEF next

-----------------------------------------------------------------------------
(* Lemmas on the operators of FlashMap.                                    *)

(* A whole page written where a page starts goes through, and changes that *)
(* page only; behind the slot it changes nothing.                          *)
LEMMA PageWritten ==
  ASSUME NEW area \in [Slot -> Cell], NEW off \in Nat, off % PageSize = 0,
         NEW data \in Seq(Word), Len(data) = PageSize
  PROVE  FlashAreaWrite(area, off, data).area =
           [i \in Slot |-> IF off <= i /\ i < off + PageSize
                             THEN Programmed(area[i], data[i - off + 1])
                             ELSE area[i]]
<1> DEFINE merged == Merged(area, off, data)
<1>1. PageSize \in Nat \ {0}
  BY PageAssumption
<1>2. FlashAreaWrite(area, off, data).area = CopyRamToFlash(area, PageOf(off), merged)
  BY <1>1 DEF FlashAreaWrite
<1>3. off = PageSize * PageOf(off)
  <2>1. PageOf(off) \in Nat /\ off = PageSize * PageOf(off) + 0
    BY PageAndPlace
  <2>2. PageSize * PageOf(off) \in Nat
    BY <2>1, Multiples
  <2> QED
    BY <2>1, <2>2
<1>4. merged = [k \in 1 .. PageSize |->
                  LET i == off + k - 1
                  IN  IF i \in off .. off + PageSize - 1 THEN data[i - off + 1]
                      ELSE IF i \in Slot THEN area[i] ELSE Garbled]
  BY <1>3 DEF Merged
<1>5. ASSUME NEW i \in Slot, PageOf(i) = PageOf(off)
      PROVE  /\ off <= i /\ i < off + PageSize
             /\ merged[(i % PageSize) + 1] = data[i - off + 1]
  <2>1. i \in Nat
    BY DEF Slot
  <2>2. off <= i /\ i < off + PageSize /\ i % PageSize = i - off
    BY <1>5, <2>1, WordsOfPage
  <2>3. i - off + 1 \in 1 .. PageSize
    BY <1>1, <2>1, <2>2
  <2>4. off + (i - off + 1) - 1 = i
    BY <2>1
  <2>5. merged[i - off + 1] = data[i - off + 1]
    BY <1>1, <1>4, <2>1, <2>2, <2>3, <2>4
  <2> QED
    BY <2>2, <2>5
<1>6. ASSUME NEW i \in Slot, PageOf(i) # PageOf(off)
      PROVE  ~(off <= i /\ i < off + PageSize)
  BY <1>6, WordsOfPage DEF Slot
<1> QED
  BY <1>2, <1>5, <1>6 DEF CopyRamToFlash

(* Programming a word keeps a cell a cell.                                 *)
LEMMA ProgrammedCell ==
  ASSUME NEW old \in Cell, NEW new \in Word
  PROVE  /\ Programmed(old, new) \in Cell
         /\ old = Erased => Programmed(old, new) = new
BY DEF Programmed, Cell

(* Prepare erases the whole slot, although it asks for more than one page. *)
LEMMA SlotErased ==
  ASSUME NEW area \in [Slot -> Cell]
  PROVE  FlashAreaErase(area, 0, SlotSize).area = Blank
<1>1. PageSize \in Nat \ {0} /\ SlotPages \in Nat \ {0}
  BY PageAssumption
<1>2. ASSUME NEW i \in Slot PROVE PageOf(i) < SlotPages
  <2>1. i \in Nat /\ i < PageSize * SlotPages
    BY <1>1, Multiples DEF Slot, SlotSize
  <2>2. /\ PageOf(i) \in Nat /\ i % PageSize \in 0 .. PageSize - 1
        /\ i = PageSize * PageOf(i) + (i % PageSize)
    BY <2>1, PageAndPlace
  <2>3. PageSize * PageOf(i) \in Nat /\ PageSize * SlotPages \in Nat
    BY <1>1, <2>2, Multiples
  <2>4. SlotPages < PageOf(i) =>
          PageSize * SlotPages + PageSize <= PageSize * PageOf(i)
    BY <1>1, <2>2, Multiples
  <2> DEFINE m == PageOf(i)
             r == i % PageSize
             x == PageSize * m
             y == PageSize * SlotPages
  <2>5. m = SlotPages => x = y
    OBVIOUS
  <2> HIDE DEF m, r, x, y
  <2>6. m \in Nat /\ r \in Nat /\ x \in Nat /\ y \in Nat
    BY <1>1, <2>2, <2>3 DEF m, r, x, y
  <2>7. i = x + r /\ i < y /\ (SlotPages < m => y + PageSize <= x)
    BY <2>1, <2>2, <2>4 DEF m, r, x, y
  <2> QED
    BY <1>1, <2>1, <2>5, <2>6, <2>7 DEF m
<1>3. PageOf(0) = 0 /\ SlotSize \div PageSize = SlotPages
  BY <1>1, Multiples, PageAndPlace DEF SlotSize, PageOf
<1>4. ASSUME NEW i \in Slot PROVE PageOf(i) \in 0 .. 0 + SlotPages - 1
  <2>1. PageOf(i) \in Nat
    BY PageAndPlace DEF Slot
  <2>2. PageOf(i) < SlotPages
    BY <1>2
  <2> QED
    BY <1>1, <2>1, <2>2
<1>5. FlashAreaErase(area, 0, SlotSize).area = EraseSectors(area, 0, 0 + SlotPages - 1)
  BY <1>3 DEF FlashAreaErase
<1> QED
  BY <1>4, <1>5 DEF EraseSectors, Blank

-----------------------------------------------------------------------------
(* The inductive invariant.                                                *)

(* It holds when the unit is delivered.                                    *)
LEMMA InitConsistent == Init => Consistent
<1> SUFFICES ASSUME Init PROVE Consistent
  OBVIOUS
<1>1. PageSize \in Nat \ {0} /\ BufferSize = PageSize /\ Factory \in Image
  BY PageAssumption, BufferAssumption, ImageAssumption
<1>2. TypeOK
  <2>1. buffer = <<>> /\ received = <<>> /\ offset = 0
    BY DEF Init
  <2>2. buffer \in Seq(Word) /\ Len(buffer) < BufferSize /\ received \in Seq(Word)
    BY <1>1, <2>1
  <2>3. slot1 \in [Slot -> Cell]
    BY PageAssumption DEF Init, Blank, Cell
  <2>4. {slot0, fallback} \subseteq Image /\ {pending, trial, fresh} \subseteq BOOLEAN
    BY <1>1 DEF Init
  <2> QED
    BY <2>1, <2>2, <2>3, <2>4 DEF TypeOK
<1>3. WholePages
  BY <1>1 DEF Init, WholePages
<1>4. SlotHoldsSession
  BY DEF Init, SlotHoldsSession
<1> QED
  BY <1>2, <1>3, <1>4 DEF Consistent

(* After WriteBuffer the page that was in the buffer is in the slot, as    *)
(* far as the slot goes.                                                   *)
LEMMA BufferWritten ==
  ASSUME Consistent, NEW data \in Seq(Word), Len(data) = BufferSize, WriteBuffer(data)
  PROVE  /\ buffer' = <<>> /\ offset' \in Nat /\ offset' = offset + PageSize
         /\ offset' % PageSize = 0
         /\ slot1' \in [Slot -> Cell]
         /\ fresh => \A i \in Slot :
              slot1'[i] = IF i < offset THEN received[i + 1]
                          ELSE IF i < offset' THEN data[i - offset + 1] ELSE Erased
<1>1. /\ PageSize \in Nat \ {0} /\ Len(data) = PageSize /\ offset \in Nat
      /\ offset % PageSize = 0 /\ slot1 \in [Slot -> Cell]
  BY PageAssumption, BufferAssumption DEF Consistent, TypeOK, WholePages
<1>2. /\ buffer' = <<>> /\ offset' = offset + PageSize
      /\ slot1' = [i \in Slot |-> IF offset <= i /\ i < offset + PageSize
                                    THEN Programmed(slot1[i], data[i - offset + 1])
                                    ELSE slot1[i]]
  BY <1>1, PageWritten DEF WriteBuffer, WriteImageData
<1>3. offset' \in Nat /\ offset' % PageSize = 0
  BY <1>1, <1>2, NextPage
<1>4. ASSUME NEW i \in Slot, offset <= i, i < offset + PageSize
      PROVE  data[i - offset + 1] \in Word
  <2>1. i - offset + 1 \in 1 .. Len(data)
    BY <1>1, <1>4 DEF Slot
  <2> QED
    BY <2>1
<1>5. slot1' \in [Slot -> Cell]
  BY <1>1, <1>2, <1>4, ProgrammedCell
<1>6. ASSUME fresh, NEW i \in Slot
      PROVE  slot1'[i] = IF i < offset THEN received[i + 1]
                         ELSE IF i < offset' THEN data[i - offset + 1] ELSE Erased
  <2>1. slot1[i] = IF i < offset THEN received[i + 1] ELSE Erased
    BY <1>6 DEF Consistent, SlotHoldsSession
  <2>2. i \in Nat
    BY DEF Slot
  <2>3. CASE i < offset
    BY <1>1, <1>2, <2>1, <2>2, <2>3
  <2>4. CASE offset <= i /\ i < offset + PageSize
    <3>1. slot1[i] = Erased /\ slot1[i] \in Cell
      BY <1>1, <2>1, <2>2, <2>4
    <3>2. slot1'[i] = data[i - offset + 1]
      BY <1>2, <1>4, <2>4, <3>1, ProgrammedCell
    <3> QED
      BY <1>1, <1>2, <2>2, <2>4, <3>2
  <2>5. CASE offset + PageSize <= i
    BY <1>1, <1>2, <2>1, <2>2, <2>5
  <2> QED
    BY <1>1, <2>2, <2>3, <2>4, <2>5
<1> QED
  BY <1>2, <1>3, <1>5, <1>6

(* resize() fills the buffer up with erased words.                         *)
LEMMA FilledBuffer ==
  ASSUME Consistent
  PROVE  /\ Padding \in Seq(Word) /\ Len(Padding) = BufferSize - Len(buffer)
         /\ buffer \o Padding \in Seq(Word) /\ Len(buffer \o Padding) = BufferSize
         /\ \A k \in 1 .. Len(buffer) : (buffer \o Padding)[k] = buffer[k]
         /\ \A k \in 1 .. Len(Padding) : (buffer \o Padding)[Len(buffer) + k] = Padding[k]
<1>1. buffer \in Seq(Word) /\ BufferSize - Len(buffer) \in Nat
  BY PageAssumption, BufferAssumption DEF Consistent, TypeOK
<1>2. Padding \in Seq(Word) /\ Len(Padding) = BufferSize - Len(buffer)
  BY <1>1, PageAssumption DEF Padding
<1> HIDE DEF Padding
<1> QED
  BY <1>1, <1>2, PageAssumption, BufferAssumption, ConcatProperties

(* What a reset leaves is consistent, whatever it finds in the slot.       *)
LEMMA BootConsistent ==
  ASSUME Consistent, NEW area \in [Slot -> Cell], NEW marked \in BOOLEAN,
         Boot(area, marked)
  PROVE  Consistent'
<1>1. /\ PageSize \in Nat \ {0} /\ BufferSize = PageSize
      /\ buffer' = <<>> /\ offset' = 0 /\ fresh' = FALSE /\ received' = <<>>
      /\ pending' = FALSE
  BY PageAssumption, BufferAssumption DEF Boot
<1>2. slot0 \in Image /\ fallback \in Image /\ trial \in BOOLEAN
  BY DEF Consistent, TypeOK
<1>3. ASSUME NEW rest \in {Blank, area} PROVE Stored(slot0, rest) \in [Slot -> Cell]
  <2>1. rest \in [Slot -> Cell]
    BY PageAssumption DEF Blank, Cell
  <2>2. ASSUME NEW i \in Slot, i < Len(slot0) PROVE slot0[i + 1] \in Cell
    BY <1>2, <2>2, ImageAssumption DEF Slot, Cell
  <2> QED
    BY <2>1, <2>2 DEF Stored
<1>4. ASSUME NEW im \in Image, Swap(area, im)
      PROVE  slot0' \in Image /\ slot1' \in [Slot -> Cell]
  BY <1>3, <1>4 DEF Swap
<1>5. slot0' \in Image /\ fallback' \in Image /\ trial' \in BOOLEAN /\ slot1' \in [Slot -> Cell]
  BY <1>2, <1>4 DEF Boot, RunNew, Revert, KeepImage, boot
<1>6. TypeOK'
  <2>1. buffer' \in Seq(Word) /\ Len(buffer') < BufferSize /\ received' \in Seq(Word)
    BY <1>1
  <2> QED
    BY <1>1, <1>5, <2>1 DEF TypeOK
<1>7. WholePages' /\ SlotHoldsSession'
  BY <1>1 DEF WholePages, SlotHoldsSession
<1> QED
  BY <1>6, <1>7 DEF Consistent

(* A page that was received goes from the buffer to the slot, where it is  *)
(* expected.                                                               *)
LEMMA PageReceived ==
  ASSUME Consistent, NEW data \in Seq(Word), Len(data) = BufferSize, WriteBuffer(data),
         {slot0', fallback'} \subseteq Image, {pending', trial'} \subseteq BOOLEAN,
         fresh' = fresh, received' \in Seq(Word),
         fresh => /\ Len(received') = offset + Len(data)
                  /\ \A i \in 1 .. offset : received'[i] = received[i]
                  /\ \A k \in 1 .. Len(data) : received'[offset + k] = data[k]
  PROVE  Consistent' /\ buffer' = <<>>
<1>1. /\ PageSize \in Nat \ {0} /\ BufferSize = PageSize
      /\ offset \in Nat /\ fresh \in BOOLEAN
  BY PageAssumption, BufferAssumption DEF Consistent, TypeOK
<1>2. /\ buffer' = <<>> /\ offset' \in Nat /\ offset' = offset + PageSize
      /\ offset' % PageSize = 0 /\ slot1' \in [Slot -> Cell]
  BY BufferWritten
<1>3. buffer' \in Seq(Word) /\ Len(buffer') < BufferSize
  BY <1>1, <1>2
<1>4. TypeOK' /\ WholePages'
  BY <1>1, <1>2, <1>3 DEF TypeOK, WholePages
<1>5. ASSUME fresh, NEW i \in Slot
      PROVE  slot1'[i] = IF i < offset' THEN received'[i + 1] ELSE Erased
  <2>1. slot1'[i] = IF i < offset THEN received[i + 1]
                    ELSE IF i < offset' THEN data[i - offset + 1] ELSE Erased
    BY <1>5, BufferWritten
  <2>2. i \in Nat
    BY DEF Slot
  <2>3. CASE i < offset
    <3>1. i < offset' /\ received[i + 1] = received'[i + 1]
      BY <1>1, <1>2, <1>5, <2>2, <2>3
    <3> QED
      BY <2>1, <2>3, <3>1
  <2>4. CASE ~(i < offset)
    <3>1. i < offset' => i - offset + 1 \in 1 .. Len(data) /\ offset + (i - offset + 1) = i + 1
      BY <1>1, <1>2, <2>2, <2>4
    <3>2. i < offset' => data[i - offset + 1] = received'[i + 1]
      BY <1>5, <3>1
    <3> QED
      BY <2>1, <2>4, <3>2
  <2> QED
    BY <2>3, <2>4
<1>6. fresh => Len(received') = offset' + Len(buffer')
  BY <1>1, <1>2
<1>7. \A k \in 1 .. Len(buffer') : buffer'[k] = received'[offset' + k]
  BY <1>2
<1>8. SlotHoldsSession'
  BY <1>5, <1>6, <1>7 DEF SlotHoldsSession
<1> QED
  BY <1>2, <1>4, <1>8 DEF Consistent

(* A buffer that fills up is written, as the last page received.           *)
LEMMA WriteDataConsistent ==
  ASSUME Consistent, NEW w \in Word, WriteData(w)
  PROVE  Consistent'
<1> DEFINE data == Append(buffer, w)
<1>1. /\ PageSize \in Nat \ {0} /\ BufferSize = PageSize
      /\ buffer \in Seq(Word) /\ Len(buffer) < BufferSize /\ offset \in Nat
      /\ slot1 \in [Slot -> Cell] /\ received \in Seq(Word)
      /\ {slot0, fallback} \subseteq Image /\ {pending, trial, fresh} \subseteq BOOLEAN
      /\ offset % PageSize = 0
  BY PageAssumption, BufferAssumption DEF Consistent, TypeOK, WholePages
<1>2. /\ data \in Seq(Word) /\ Len(data) = Len(buffer) + 1
      /\ \A k \in 1 .. Len(buffer) : data[k] = buffer[k]
      /\ data[Len(buffer) + 1] = w
  BY <1>1, AppendProperties
<1>3. /\ UNCHANGED <<slot0, trial, fallback, pending, fresh>>
      /\ received' = IF fresh THEN received \o <<w>> ELSE received
  BY DEF WriteData, boot, Receive
<1>4. received' \in Seq(Word)
  BY <1>1, <1>3
<1>5. ASSUME fresh
      PROVE  /\ Len(received') = offset + Len(data)
             /\ \A i \in 1 .. offset : received'[i] = received[i]
             /\ \A k \in 1 .. Len(data) : received'[offset + k] = data[k]
  <2>1. /\ Len(received) = offset + Len(buffer)
        /\ \A k \in 1 .. Len(buffer) : buffer[k] = received[offset + k]
    BY <1>5 DEF Consistent, SlotHoldsSession
  <2>2. received' = Append(received, w)
    BY <1>1, <1>3, <1>5
  <2>3. /\ Len(received') = Len(received) + 1
        /\ \A i \in 1 .. Len(received) : received'[i] = received[i]
        /\ received'[Len(received) + 1] = w
    BY <1>1, <2>2, AppendProperties
  <2>4. \A i \in 1 .. offset : i \in 1 .. Len(received)
    BY <1>1, <2>1
  <2>5. ASSUME NEW k \in 1 .. Len(buffer) PROVE offset + k \in 1 .. Len(received)
    BY <1>1, <2>1
  <2>6. \A k \in 1 .. Len(buffer) : received'[offset + k] = data[k]
    BY <1>2, <2>1, <2>3, <2>5
  <2>7. received'[offset + Len(buffer) + 1] = data[Len(buffer) + 1]
    BY <1>2, <2>1, <2>3
  <2>8. ASSUME NEW k \in 1 .. Len(data) PROVE received'[offset + k] = data[k]
    <3>1. CASE k = Len(buffer) + 1
      BY <1>1, <2>7, <3>1
    <3>2. CASE k # Len(buffer) + 1
      BY <1>1, <1>2, <2>6, <3>2
    <3> QED
      BY <3>1, <3>2
  <2> QED
    BY <1>1, <1>2, <2>1, <2>3, <2>4, <2>8
<1>6. CASE Len(data) = BufferSize
  <2>1. WriteBuffer(data)
    BY <1>6 DEF WriteData
  <2> QED
    BY <1>1, <1>2, <1>3, <1>4, <1>5, <1>6, <2>1, PageReceived
<1>7. CASE Len(data) # BufferSize
  <2>1. buffer' = data /\ offset' = offset /\ slot1' = slot1
    BY <1>7 DEF WriteData
  <2>2. Len(data) < BufferSize
    BY <1>1, <1>2, <1>7
  <2>3. TypeOK' /\ WholePages'
    BY <1>1, <1>2, <1>3, <1>4, <2>1, <2>2 DEF TypeOK, WholePages
  <2>4. ASSUME fresh, NEW i \in Slot
        PROVE  slot1'[i] = IF i < offset' THEN received'[i + 1] ELSE Erased
    <3>1. slot1[i] = IF i < offset THEN received[i + 1] ELSE Erased
      BY <2>4 DEF Consistent, SlotHoldsSession
    <3>2. i < offset => received[i + 1] = received'[i + 1]
      BY <1>1, <1>5, <2>4 DEF Slot
    <3>3. CASE i < offset
      BY <2>1, <3>1, <3>2, <3>3
    <3>4. CASE ~(i < offset)
      BY <2>1, <3>1, <3>4
    <3> QED
      BY <3>3, <3>4
  <2>5. ASSUME fresh
        PROVE  /\ Len(received') = offset' + Len(buffer')
               /\ \A k \in 1 .. Len(buffer') : buffer'[k] = received'[offset' + k]
    BY <1>5, <2>1, <2>5
  <2>6. SlotHoldsSession'
    BY <1>3, <2>4, <2>5 DEF SlotHoldsSession
  <2> QED
    BY <2>3, <2>6 DEF Consistent
<1> QED
  BY <1>6, <1>7

(* What is left in the buffer is padded to a page and received as such.    *)
LEMMA SetPendingConsistent ==
  ASSUME Consistent, SetPending
  PROVE  /\ Consistent' /\ buffer' = <<>> /\ UNCHANGED fresh
         /\ fresh => \A i \in 1 .. Len(received) :
              i \in 1 .. Len(received') /\ received'[i] = received[i]
<1>1. /\ PageSize \in Nat \ {0} /\ BufferSize = PageSize
      /\ buffer \in Seq(Word) /\ Len(buffer) < BufferSize /\ offset \in Nat
      /\ received \in Seq(Word) /\ slot1 \in [Slot -> Cell]
      /\ {slot0, fallback} \subseteq Image /\ {pending, trial, fresh} \subseteq BOOLEAN
  BY PageAssumption, BufferAssumption DEF Consistent, TypeOK
<1>2. /\ Flush /\ pending' \in BOOLEAN
      /\ slot0' = slot0 /\ trial' = trial /\ fallback' = fallback /\ fresh' = fresh
  BY <1>1 DEF SetPending, SetUpdatePending, boot
<1>3. CASE buffer = <<>>
  <2>1. buffer' = buffer /\ offset' = offset /\ slot1' = slot1 /\ received' = received
    BY <1>2, <1>3 DEF Flush, ram
  <2>2. TypeOK' /\ WholePages' /\ SlotHoldsSession'
    BY <1>2, <2>1 DEF Consistent, TypeOK, WholePages, SlotHoldsSession
  <2> QED
    BY <1>2, <1>3, <2>1, <2>2 DEF Consistent
<1>4. CASE buffer # <<>>
  <2> DEFINE data == buffer \o Padding
  <2>1. WriteBuffer(data) /\ received' = IF fresh THEN received \o Padding ELSE received
    BY <1>2, <1>4 DEF Flush, Receive
  <2>3. Padding \in Seq(Word) /\ Len(Padding) = BufferSize - Len(buffer)
    BY FilledBuffer
  <2>4. /\ data \in Seq(Word) /\ Len(data) = BufferSize
        /\ \A k \in 1 .. Len(buffer) : data[k] = buffer[k]
        /\ \A k \in 1 .. Len(Padding) : data[Len(buffer) + k] = Padding[k]
    BY FilledBuffer
  <2>5. received' \in Seq(Word)
    BY <1>1, <2>1, <2>3
  <2>6. ASSUME fresh
        PROVE  /\ Len(received') = offset + Len(data)
               /\ \A i \in 1 .. offset : received'[i] = received[i]
               /\ \A k \in 1 .. Len(data) : received'[offset + k] = data[k]
               /\ \A i \in 1 .. Len(received) :
                    i \in 1 .. Len(received') /\ received'[i] = received[i]
    <3>1. /\ Len(received) = offset + Len(buffer)
          /\ \A k \in 1 .. Len(buffer) : buffer[k] = received[offset + k]
      BY <2>6 DEF Consistent, SlotHoldsSession
    <3>2. received' = received \o Padding
      BY <2>1, <2>6
    <3>3. /\ Len(received') = Len(received) + Len(Padding)
          /\ \A i \in 1 .. Len(received) : received'[i] = received[i]
          /\ \A k \in 1 .. Len(Padding) : received'[Len(received) + k] = Padding[k]
      <4> DEFINE all == received \o Padding
      <4>1. Len(all) = Len(received) + Len(Padding)
        <5>1. received \in Seq(Word) /\ Padding \in Seq(Word)
          BY <1>1, <2>3
        <5> QED
          BY <5>1, ConcatProperties
      <4>2. \A i \in 1 .. Len(received) : all[i] = received[i]
        BY <1>1, <2>3
      <4>3. \A k \in 1 .. Len(Padding) : all[Len(received) + k] = Padding[k]
        BY <1>1, <2>3
      <4> QED
        BY <3>2, <4>1, <4>2, <4>3
    <3>4. Len(received') = offset + Len(data)
      BY <1>1, <2>3, <2>4, <3>1, <3>3
    <3>5. ASSUME NEW k \in 1 .. Len(data) PROVE received'[offset + k] = data[k]
      <4>1. CASE k <= Len(buffer)
        <5>1. k \in 1 .. Len(buffer) /\ offset + k \in 1 .. Len(received)
          BY <1>1, <3>1, <4>1
        <5> QED
          BY <2>4, <3>1, <3>3, <5>1
      <4>2. CASE ~(k <= Len(buffer))
        <5> DEFINE j == k - Len(buffer)
        <5>1. /\ j \in 1 .. Len(Padding) /\ Len(buffer) + j = k
              /\ Len(received) + j = offset + k
          BY <1>1, <2>3, <2>4, <3>1, <4>2
        <5> HIDE DEF j
        <5> QED
          BY <2>4, <3>3, <5>1
      <4> QED
        BY <4>1, <4>2
    <3>6. \A i \in 1 .. offset : i \in 1 .. Len(received)
      BY <1>1, <3>1
    <3>7. \A i \in 1 .. Len(received) : i \in 1 .. Len(received')
      BY <1>1, <2>3, <3>3
    <3> QED
      BY <3>3, <3>4, <3>5, <3>6, <3>7
  <2> HIDE DEF data
  <2>7. {slot0', fallback'} \subseteq Image /\ {pending', trial'} \subseteq BOOLEAN
    BY <1>1, <1>2
  <2>8. Consistent' /\ buffer' = <<>>
    BY <1>2, <2>1, <2>4, <2>5, <2>6, <2>7, PageReceived
  <2> QED
    BY <1>2, <2>6, <2>8
<1> QED
  BY <1>3, <1>4

(* kPrepare leaves an erased slot and nothing received.                    *)
LEMMA PrepareConsistent ==
  ASSUME Consistent, Prepare
  PROVE  Consistent'
<1>1. /\ PageSize \in Nat \ {0} /\ BufferSize = PageSize
      /\ slot1 \in [Slot -> Cell]
      /\ {slot0, fallback} \subseteq Image /\ trial \in BOOLEAN
  BY PageAssumption, BufferAssumption DEF Consistent, TypeOK
<1>2. /\ slot1' = Blank /\ pending' = FALSE /\ buffer' = <<>> /\ offset' = 0
      /\ fresh' = TRUE /\ received' = <<>>
      /\ slot0' = slot0 /\ trial' = trial /\ fallback' = fallback
  BY <1>1, SlotErased DEF Prepare, PrepareUpdate, boot
<1>3. slot1' \in [Slot -> Cell] /\ \A i \in Slot : slot1'[i] = Erased /\ ~(i < 0)
  BY <1>2, PageAssumption DEF Blank, Cell, Slot
<1>4. buffer' \in Seq(Word) /\ Len(buffer') < BufferSize /\ received' \in Seq(Word)
  BY <1>1, <1>2
<1>5. TypeOK'
  BY <1>1, <1>2, <1>3, <1>4 DEF TypeOK
<1>6. WholePages' /\ SlotHoldsSession'
  BY <1>1, <1>2, <1>3 DEF WholePages, SlotHoldsSession
<1> QED
  BY <1>5, <1>6 DEF Consistent

(* Every step, power failures included, keeps the invariant.               *)
LEMMA NextConsistent == Consistent /\ [Next]_vars => Consistent'
<1> SUFFICES ASSUME Consistent, [Next]_vars PROVE Consistent'
  OBVIOUS
<1>1. slot1 \in [Slot -> Cell] /\ pending \in BOOLEAN
  BY DEF Consistent, TypeOK
<1>2. CASE Prepare
  BY <1>2, PrepareConsistent
<1>3. ASSUME NEW w \in Word, WriteData(w) PROVE Consistent'
  BY <1>3, WriteDataConsistent
<1>4. CASE SetPending
  BY <1>4, SetPendingConsistent
<1>5. CASE Confirm
  BY <1>5 DEF Confirm, SetUpdateConfirmed, ram, session, Consistent, TypeOK, WholePages, SlotHoldsSession
<1>6. CASE Reset
  BY <1>1, <1>6, BootConsistent DEF Reset
<1>7. CASE TornPrepare
  <2>1. PICK pages \in SUBSET (0 .. SlotPages - 1), cell \in {Erased, Garbled},
             marked \in {FALSE, pending} :
          Boot([i \in Slot |-> IF PageOf(i) \in pages THEN cell ELSE slot1[i]], marked)
    BY <1>7 DEF TornPrepare
  <2>2. [i \in Slot |-> IF PageOf(i) \in pages THEN cell ELSE slot1[i]] \in [Slot -> Cell]
    BY <1>1, PageAssumption DEF Cell
  <2> QED
    BY <1>1, <2>1, <2>2, BootConsistent
<1>8. CASE TornWrite
  <2>1. [i \in Slot |-> IF PageOf(i) = PageOf(offset) THEN Garbled ELSE slot1[i]]
          \in [Slot -> Cell]
    BY <1>1 DEF Cell
  <2> QED
    BY <1>1, <1>8, <2>1, BootConsistent DEF TornWrite
<1>9. CASE FlushedNotMarked
  <2> DEFINE data == buffer \o Padding
  <2>1. data \in Seq(Word) /\ Len(data) = PageSize
    BY FilledBuffer, BufferAssumption
  <2>2. PageSize \in Nat \ {0} /\ offset \in Nat /\ offset % PageSize = 0
    BY PageAssumption DEF Consistent, TypeOK, WholePages
  <2> HIDE DEF data
  <2>3. FlashAreaWrite(slot1, offset, data).area =
          [i \in Slot |-> IF offset <= i /\ i < offset + PageSize
                            THEN Programmed(slot1[i], data[i - offset + 1])
                            ELSE slot1[i]]
    BY <1>1, <2>1, <2>2, PageWritten
  <2>4. ASSUME NEW i \in Slot, offset <= i, i < offset + PageSize
        PROVE  data[i - offset + 1] \in Word
    <3>1. i - offset + 1 \in 1 .. Len(data)
      BY <2>1, <2>2, <2>4 DEF Slot
    <3> QED
      BY <2>1, <3>1
  <2>5. FlashAreaWrite(slot1, offset, data).area \in [Slot -> Cell]
    BY <1>1, <2>3, <2>4, ProgrammedCell
  <2>6. Boot(FlashAreaWrite(slot1, offset, data).area, pending)
    BY <1>9 DEF FlushedNotMarked, data
  <2> QED
    BY <1>1, <2>5, <2>6, BootConsistent
<1>10. CASE UNCHANGED vars
  BY <1>10 DEF vars, Consistent, TypeOK, WholePages, SlotHoldsSession
<1> QED
  BY <1>2, <1>3, <1>4, <1>5, <1>6, <1>7, <1>8, <1>9, <1>10 DEF Next

(***************************************************************************)
(* Types; the write buffer always has room for one more word.              *)
(***************************************************************************)
THEOREM UpdateTypes == Spec => []TypeOK
<1>1. Consistent => TypeOK
  BY DEF Consistent
<1> QED
  BY <1>1, InitConsistent, NextConsistent, PTL DEF Spec

(***************************************************************************)
(* The offset of the next write is that of a page: flash_area_write never  *)
(* refuses the buffer.                                                     *)
(***************************************************************************)
THEOREM PagesAligned == Spec => []WholePages
<1>1. Consistent => WholePages
  BY DEF Consistent
<1> QED
  BY <1>1, InitConsistent, NextConsistent, PTL DEF Spec

(***************************************************************************)
(* What was received since kPrepare is in slot 1 and the buffer, in order. *)
(***************************************************************************)
THEOREM SlotFilled == Spec => []SlotHoldsSession
<1>1. Consistent => SlotHoldsSession
  BY DEF Consistent
<1> QED
  BY <1>1, InitConsistent, NextConsistent, PTL DEF Spec

-----------------------------------------------------------------------------
(* Action properties.                                                      *)

(* After kSetPending the whole session is in the slot, as far as that goes. *)
LEMMA SetPendingCompletes ==
  ASSUME Consistent, SetPending, fresh
  PROVE  buffer' = <<>> /\ \A i \in Slot : i < Len(received) => slot1'[i] = received[i + 1]
<1>1. /\ Consistent' /\ buffer' = <<>> /\ fresh'
      /\ \A i \in 1 .. Len(received) : i \in 1 .. Len(received') /\ received'[i] = received[i]
  BY SetPendingConsistent
<1>2. /\ Len(received') = offset' + Len(buffer')
      /\ \A i \in Slot : slot1'[i] = IF i < offset' THEN received'[i + 1] ELSE Erased
  BY <1>1 DEF Consistent, SlotHoldsSession
<1>3. received \in Seq(Word) /\ received' \in Seq(Word) /\ offset' \in Nat
  BY <1>1 DEF Consistent, TypeOK
<1>4. Len(received') = offset'
  <2>1. \A x \in Nat : x + Len(<<>>) = x
    OBVIOUS
  <2> QED
    BY <1>1, <1>2, <1>3, <2>1, Zenon
<1>5. ASSUME NEW i \in Slot, i < Len(received) PROVE slot1'[i] = received[i + 1]
  <2>1. i \in Nat /\ i + 1 \in 1 .. Len(received)
    BY <1>3, <1>5 DEF Slot
  <2>2. i + 1 \in 1 .. Len(received') /\ received'[i + 1] = received[i + 1]
    BY <1>1, <2>1
  <2>3. i < offset'
    BY <1>3, <1>4, <2>1, <2>2
  <2> QED
    BY <1>2, <2>2, <2>3
<1> QED
  BY <1>1, <1>5

(***************************************************************************)
(* Marking an image leaves nothing of it in RAM: only kSetPending sets the *)
(* mark.                                                                   *)
(***************************************************************************)
THEOREM MarkedComplete == Spec => MarkedWhenComplete
<1>1. ASSUME Consistent, [Next]_vars, fresh, ~pending, pending'
      PROVE  buffer' = <<>> /\ \A i \in Slot : i < Len(received) => slot1'[i] = received[i + 1]
  <2>1. SetPending
    BY <1>1 DEF Next, Prepare, PrepareUpdate, WriteData, Confirm, SetUpdateConfirmed, Reset,
               TornPrepare, TornWrite, FlushedNotMarked, Boot, vars
  <2> QED
    BY <1>1, <2>1, SetPendingCompletes
<1>2. Consistent /\ [Next]_vars =>
        [fresh /\ ~pending /\ pending' =>
           buffer' = <<>> /\ \A i \in Slot : i < Len(received) => slot1'[i] = received[i + 1]]_vars
  BY <1>1
<1> QED
  BY <1>2, InitConsistent, NextConsistent, PTL DEF Spec, MarkedWhenComplete

(***************************************************************************)
(* A complete image that was marked runs after a reset, and the one it     *)
(* replaces is kept.  Nothing else can be in the slot: an image found      *)
(* there agrees with the one received as far as both go, so that the       *)
(* shorter of them would be the beginning of the other.                    *)
(***************************************************************************)
THEOREM UpdateRuns == Spec => UpdateTakesEffect
<1>1. ASSUME Consistent, Reset, fresh, pending, offset <= SlotSize,
             NEW im \in Image, IsReceived(im)
      PROVE  IsReceived(slot0') /\ fallback' = slot0 /\ Holds(slot1', slot0)
  <2>1. /\ offset \in Nat /\ slot0 \in Image /\ SlotSize \in Nat
        /\ \A i \in Slot : i < offset => slot1[i] = received[i + 1]
    BY <1>1, PageAssumption DEF Consistent, TypeOK, SlotHoldsSession, SlotSize
  <2>2. \A x \in Image : x \in Seq(Word) /\ Len(x) \in Nat /\ Len(x) <= SlotSize
    BY ImageAssumption
  <2>3. ASSUME NEW i \in 1 .. Len(im) PROVE slot1[i - 1] = im[i]
    <3>1. i - 1 \in Slot /\ i - 1 < offset /\ (i - 1) + 1 = i
      BY <1>1, <2>1, <2>2 DEF IsReceived, Slot
    <3>2. im[i] = received[i]
      BY <1>1 DEF IsReceived
    <3> QED
      BY <2>1, <3>1, <3>2
  <2>4. Holds(slot1, im)
    BY <2>3 DEF Holds
  <2>5. ASSUME NEW x \in Image, Holds(slot1, x) PROVE x = im
    <3>1. \A i \in 1 .. Len(x) : slot1[i - 1] = x[i]
      BY <2>5 DEF Holds
    <3>2. CASE Len(x) <= Len(im)
      BY <2>2, <2>3, <3>1, <3>2, PrefixAssumption
    <3>3. CASE Len(im) <= Len(x)
      BY <2>2, <2>3, <3>1, <3>3, PrefixAssumption
    <3> QED
      BY <2>2, <3>2, <3>3
  <2>6. RunNew(slot1, im)
    BY <1>1, <2>4, <2>5 DEF Reset, Boot
  <2>7. slot0' = im /\ fallback' = slot0
    BY <2>6 DEF RunNew, Swap
  <2>8. IsReceived(slot0')
    BY <1>1, <2>7 DEF IsReceived
  <2>9. PICK rest \in {Blank, slot1} : slot1' = Stored(slot0, rest)
    BY <2>6 DEF RunNew, Swap
  <2>10. ASSUME NEW i \in 1 .. Len(slot0) PROVE slot1'[i - 1] = slot0[i]
    <3>1. i - 1 \in Slot /\ i - 1 < Len(slot0) /\ (i - 1) + 1 = i
      BY <2>1, <2>2 DEF Slot
    <3> QED
      BY <2>9, <3>1 DEF Stored
  <2> QED
    BY <2>7, <2>8, <2>10 DEF Holds
<1>2. Consistent /\ [Next]_vars =>
        [/\ Reset /\ fresh /\ pending /\ offset <= SlotSize
         /\ \E im \in Image : IsReceived(im)
         => IsReceived(slot0') /\ fallback' = slot0 /\ Holds(slot1', slot0)]_vars
  BY <1>1
<1> QED
  BY <1>2, InitConsistent, NextConsistent, PTL DEF Spec, UpdateTakesEffect

=============================================================================
