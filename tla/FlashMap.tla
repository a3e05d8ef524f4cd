------------------------------ MODULE FlashMap ------------------------------
(***************************************************************************)
(* The flash map of the bootloader and the firmware                        *)
(* (src/src/boot/flash_map_backend.cc), for the area of image slot 1.      *)
(*                                                                         *)
(* A flash area is a function from words to cells.  The registers of the   *)
(* update carry 16-bit words, so lengths and offsets count words here, and *)
(* a page has PageSize of them (512; kPageSize is 1024 bytes).             *)
(***************************************************************************)
EXTENDS Naturals, Sequences

CONSTANTS
  Word,      \* values of a word
  Erased,    \* the erased word, 0xFFFF
  Garbled,   \* a cell of unknown contents
  PageSize,  \* words in the smallest erasable block
  SlotPages  \* pages of slot 1, which ends where the flash ends

ASSUME PageAssumption ==
  /\ PageSize \in Nat \ {0} /\ SlotPages \in Nat \ {0}
  /\ Erased \in Word /\ Garbled \notin Word

SlotSize == PageSize * SlotPages   \* fa_size
Slot == 0 .. SlotSize - 1
Cell == Word \cup {Garbled}

PageOf(off) == off \div PageSize

\* A slip the runs must notice, in the place of EraseSectors: the one page that
\* the assertion of flash_area_erase speaks of, and no other.
FirstSectorOnly(area, first, last) ==
  [i \in Slot |-> IF PageOf(i) = first THEN Erased ELSE area[i]]

-----------------------------------------------------------------------------
(* The on-chip programming routines (IAP).  Flash cells are only written   *)
(* properly once they are erased; a page outside the flash is refused.     *)

Programmed(old, new) ==
  IF new \in {old, Erased} THEN old ELSE IF old = Erased THEN new ELSE Garbled

CopyRamToFlash(area, page, data) ==
  [i \in Slot |->
     IF PageOf(i) = page THEN Programmed(area[i], data[(i % PageSize) + 1])
                         ELSE area[i]]

EraseSectors(area, first, last) ==
  [i \in Slot |-> IF PageOf(i) \in first .. last THEN Erased ELSE area[i]]

-----------------------------------------------------------------------------
(* flash_area_write and flash_area_erase.  NDEBUG is defined for the whole *)
(* build (CMakeLists.txt:30), so that their assertions check nothing and a *)
(* caller may break them: PrepareUpdate erases more than the one page they *)
(* ask for.                                                                *)

\* The page as it is, with the data written over it.
Merged(area, off, data) ==
  LET start == PageSize * PageOf(off)
  IN  [k \in 1 .. PageSize |->
         LET i == start + k - 1
         IN  IF i \in off .. off + Len(data) - 1 THEN data[i - off + 1]
             ELSE IF i \in Slot THEN area[i] ELSE Garbled]

FlashAreaWrite(area, off, data) ==
  IF (off % PageSize) + Len(data) > PageSize
    THEN [rc |-> "error", area |-> area]
    ELSE [rc   |-> "success",
          area |-> CopyRamToFlash(area, PageOf(off), Merged(area, off, data))]

FlashAreaErase(area, off, len) ==
  [rc   |-> "success",
   area |-> EraseSectors(area, PageOf(off), PageOf(off) + (len \div PageSize) - 1)]

=============================================================================
