------------------------------- MODULE Storage -------------------------------
(***************************************************************************)
(* The storage drivers under Configuration (Storage.h), and what a loss of *)
(* power leaves of what was written:                                       *)
(*   "chip"      EepromInternalStorage.cpp, and the emulation of           *)
(*               DueEepromEmulationStorage.cpp: a cell at a time           *)
(*   "i2c"       EepromExternalStorage.cpp: a run of cells per transfer    *)
(*   "flash"     FlashStorage.cpp: pages that are erased and rewritten     *)
(*               from a cache of one page                                  *)
(*   "buffered"  EepromInternalStorage.cpp on ESP and RP2040: a copy in    *)
(*               RAM until commitWriteEEPROM() at the end of each pass     *)
(* The parts themselves are external: a cell is written as a whole, an     *)
(* erased page reads Erased, an I2C transfer rolls over at the end of a    *)
(* page of the chip.                                                       *)
(*                                                                         *)
(* The specification is StorageSpec: a module may extend this one and that *)
(* of another component.                                                   *)
(***************************************************************************)
EXTENDS Integers, SequencesExt

CONSTANTS
  Drivers,      \* the drivers that are looked at
  PageSize,     \* FLASH_PAGE_SIZE: 512
  NumPages,     \* NUM_FLASH_PAGES: 4
  ChipPage,     \* cells of a page of the I2C chip: 64
  FirstErased,  \* the first cell that reset() of an EEPROM erases: 10
  RunLength,    \* cells of the longest write, an event: EE_HASH_BYTES, 4
  Values,       \* bytes that are written
  MaxWrites,    \* bound on writes and resets
  MaxFailures   \* bound on losses of power

Erased   == 255
Addr     == 0 .. PageSize * NumPages - 1
CellByte == Values \cup {Erased}

ASSUME StorageAssumption ==
  /\ Drivers \subseteq {"chip", "i2c", "due", "flash", "buffered"}
  /\ {PageSize, NumPages, ChipPage, RunLength} \subseteq Nat \ {0}
  /\ NumPages <= Erased /\ RunLength <= PageSize
  /\ FirstErased \in Addr /\ Values \subseteq 0 .. Erased
  /\ MaxWrites \in Nat /\ MaxFailures \in Nat

VARIABLES
  driver,    \* the driver that createDefaultStorageForPlatform() chose
  medium,    \* what survives a loss of power
  ram,       \* "buffered": the copy that is read and written
  page,      \* "flash": curr_page_num and cache_page
  may,       \* history: what a read of each cell may return
  kept,      \* history: the same at the last commit
  spilled,   \* history: a write has crossed the end of a page
  writes, failures

counts      == <<writes, failures>>
storageVars == <<driver, medium, ram, page, may, kept, spilled, counts>>

-----------------------------------------------------------------------------
(* Cells and pages.                                                        *)
Overwritten(m, a, data) ==
  [c \in Addr |-> IF c - a + 1 \in DOMAIN data THEN data[c - a + 1] ELSE m[c]]

PageOf(a) == a \div PageSize

PageData(m, p) == [i \in 0 .. PageSize - 1 |-> m[p * PageSize + i]]

WithPage(m, p, data) ==
  [c \in Addr |-> IF PageOf(c) = p THEN data[c % PageSize] ELSE m[c]]

NoData == [i \in 0 .. PageSize - 1 |-> Erased]

Crosses(a, data, size) == a \div size # (a + Len(data) - 1) \div size

(* The cell of an I2C chip that takes the i-th byte of a transfer.         *)
RolledOver(a, i) == (a \div ChipPage) * ChipPage + ((a + i - 1) % ChipPage)

Transferred(m, a, data) ==
  [c \in Addr |-> IF \E i \in DOMAIN data : RolledOver(a, i) = c
                  THEN data[CHOOSE i \in DOMAIN data : RolledOver(a, i) = c] ELSE m[c]]

-----------------------------------------------------------------------------
(* FlashStorage.  A page with some data, as flash_cache_page() leaves it.  *)
Cached(m, p) ==
  [num |-> p, data |-> IF p < NumPages THEN PageData(m, p) ELSE NoData]

CachedStale(p) == IF p = page.num THEN page ELSE [page EXCEPT !.num = p]  \* mutant
CachedFor(p) == IF p = page.num THEN page ELSE Cached(medium, p)

(* flash_write_bytes(): the cache once the loop has put the data into it.  *)
(* buffer_index never grows, so that bytes beyond the page's end land      *)
(* behind cache_page: where the linker put them, perhaps on curr_page_num. *)
Filled(a, data) ==
  LET p == CachedFor(PageOf(a))
      first == a % PageSize
      filled == [p EXCEPT !.data = [i \in 0 .. PageSize - 1 |->
                   IF i - first + 1 \in DOMAIN data THEN data[i - first + 1] ELSE @[i]]]
  IN  {filled} \cup
        IF Crosses(a, data, PageSize)
        THEN {[filled EXCEPT !.num = data[PageSize - first + 1]]} ELSE {}

(* flash_writeback_page() while power fails: erased, then written in order.*)
BackTo(m, p, n) ==
  WithPage(m, p.num, [i \in 0 .. PageSize - 1 |-> IF i < n THEN p.data[i] ELSE Erased])

WrittenBack(m, p) == WithPage(m, p.num, p.data)

-----------------------------------------------------------------------------
(* What the caller may expect: a write stores its bytes; if power fails a  *)
(* cell is old or new, and in a page that is being rewritten perhaps       *)
(* erased.                                                                 *)
Stored(a, data) == [c \in Addr |-> IF c - a + 1 \in DOMAIN data
                                   THEN {data[c - a + 1]} ELSE may[c]]

PerhapsStored(a, data) == [c \in Addr |-> may[c] \cup Stored(a, data)[c]]

Exposed(m, P) == [c \in Addr |-> IF PageOf(c) \in P THEN m[c] \cup {Erased} ELSE m[c]]

(* begin(), with the RAM empty.                                            *)
Begin(m) ==
  /\ ram' = m
  /\ page' = Cached(m, 0)

StorageInit ==
  /\ driver \in Drivers
  /\ medium = [c \in Addr |-> Erased] /\ ram = medium
  /\ page = Cached(medium, 0)
  /\ may = [c \in Addr |-> {Erased}] /\ kept = may
  /\ spilled = FALSE /\ writes = 0 /\ failures = 0

-----------------------------------------------------------------------------
(* write() and writeBytes().                                               *)
Finished(a, data) ==
  \/ /\ driver \in {"chip", "due"}
     /\ medium' = Overwritten(medium, a, data)
     /\ UNCHANGED <<ram, page, spilled>>
  \/ /\ driver = "i2c"
     /\ medium' = Transferred(medium, a, data)
     /\ spilled' = (spilled \/ Crosses(a, data, ChipPage))
     /\ UNCHANGED <<ram, page>>
  \/ /\ driver = "flash"
     /\ page' \in Filled(a, data)
     /\ medium' = WrittenBack(medium, page')
     /\ spilled' = (spilled \/ Crosses(a, data, PageSize))
     /\ UNCHANGED ram
  \/ /\ driver = "buffered"
     /\ ram' = Overwritten(ram, a, data)
     /\ UNCHANGED <<medium, page, spilled>>

(* data is written from the cell a on, and the storage has room for it.    *)
Write(a, data) ==
  /\ Finished(a, data)
  /\ may' = Stored(a, data)
  /\ UNCHANGED kept

(* reset(), a cell or a page at a time.  On a Due it does nothing.         *)
ErasedFrom(first) == [c \in Addr |-> IF c >= first THEN Erased ELSE medium[c]]

MayBeErasedFrom(first) == [c \in Addr |-> IF c >= first THEN {Erased} ELSE may[c]]

Reset ==
  /\ \/ /\ driver \in {"chip", "i2c"}
        /\ medium' = ErasedFrom(FirstErased)
        /\ may' = MayBeErasedFrom(FirstErased)
        /\ UNCHANGED <<ram, page>>
     \/ driver = "due" /\ UNCHANGED <<medium, ram, page, may>>
     \/ /\ driver = "flash"
        /\ medium' = ErasedFrom(0)
        /\ page' = [page EXCEPT !.data = NoData]
        /\ may' = MayBeErasedFrom(0)
        /\ UNCHANGED ram
     \/ /\ driver = "buffered"
        /\ ram' = [c \in Addr |-> IF c >= FirstErased THEN Erased ELSE ram[c]]
        /\ may' = MayBeErasedFrom(FirstErased)
        /\ UNCHANGED <<medium, page>>
  /\ UNCHANGED <<kept, spilled>>

(* commitWriteEEPROM(), at the end of a pass and of resetModule().         *)
CommitForgotten ==                  \* mutant: a platform whose commit is left out
  /\ driver = "buffered"
  /\ kept' = may
  /\ UNCHANGED <<medium, ram, page, may, spilled>>

Commit ==
  /\ driver = "buffered"
  /\ medium' = ram /\ kept' = may
  /\ UNCHANGED <<ram, page, may, spilled>>

-----------------------------------------------------------------------------
(* Power fails, and the driver begins again.                               *)
PowerFails ==
  /\ UNCHANGED <<medium, kept, spilled>>
  /\ may' = IF driver = "buffered" THEN kept ELSE may
  /\ Begin(medium)

FailsInWrite(a, data) ==
  \E n \in 0 .. Len(data) :
    \/ /\ driver \in {"chip", "due"}
       /\ medium' = Overwritten(medium, a, SubSeq(data, 1, n))
       /\ may' = PerhapsStored(a, data)
       /\ UNCHANGED spilled
    \/ /\ driver = "i2c"
       /\ medium' = Transferred(medium, a, SubSeq(data, 1, n))
       /\ may' = PerhapsStored(a, data)
       /\ spilled' = (spilled \/ Crosses(a, data, ChipPage))

FailsInFlashWrite(a, data) ==
  /\ driver = "flash"
  /\ \E p \in Filled(a, data), n \in 0 .. PageSize : medium' = BackTo(medium, p, n)
  /\ may' = Exposed(PerhapsStored(a, data), {PageOf(a)})
  /\ spilled' = (spilled \/ Crosses(a, data, PageSize))

FailsInReset ==
  \/ /\ driver \in {"chip", "i2c"}
     /\ \E n \in FirstErased .. Max(Addr) :
          medium' = [c \in Addr |-> IF c \in FirstErased .. n THEN Erased ELSE medium[c]]
     /\ may' = [c \in Addr |-> IF c >= FirstErased THEN may[c] \cup {Erased} ELSE may[c]]
  \/ /\ driver = "flash"
     /\ \E p \in 0 .. NumPages - 1 :
          medium' = [c \in Addr |-> IF PageOf(c) <= p THEN Erased ELSE medium[c]]
     /\ may' = Exposed(may, 0 .. NumPages - 1)

(* A commit erases everything before it writes.                            *)
FailsInCommit ==
  /\ driver = "buffered"
  /\ \E n \in Addr : medium' = [c \in Addr |-> IF c < n THEN ram[c] ELSE Erased]
  /\ may' = Exposed(may, 0 .. NumPages - 1) /\ kept' = may'
  /\ Begin(medium')
  /\ UNCHANGED spilled

-----------------------------------------------------------------------------
Runs == UNION {[1 .. n -> Values] : n \in {1, RunLength}}
Fits(a, data) == a + Len(data) - 1 \in Addr

UseStorage ==
  /\ writes < MaxWrites /\ writes' = writes + 1
  /\ \/ \E a \in Addr, data \in Runs : Fits(a, data) /\ Write(a, data)
     \/ Reset
  /\ UNCHANGED failures

EndOfPass == Commit /\ UNCHANGED counts

LossOfPower ==
  /\ failures < MaxFailures /\ failures' = failures + 1
  /\ \/ PowerFails
     \/ /\ \/ \E a \in Addr, data \in Runs :
                Fits(a, data) /\ (FailsInWrite(a, data) \/ FailsInFlashWrite(a, data))
           \/ FailsInReset /\ UNCHANGED spilled
        /\ UNCHANGED kept
        /\ Begin(medium')
     \/ FailsInCommit
  /\ UNCHANGED writes

StorageNext == (UseStorage \/ EndOfPass \/ LossOfPower) /\ UNCHANGED driver

StorageSpec == StorageInit /\ [][StorageNext]_storageVars

-----------------------------------------------------------------------------
(* Properties.                                                             *)
read(c) == IF driver = "buffered" THEN ram[c] ELSE medium[c]

(* Every variable has its type; the page that is cached is one of the      *)
(* storage's.                                                              *)
StorageTypeOK ==
  /\ driver \in Drivers
  /\ {medium, ram} \subseteq [Addr -> CellByte]
  /\ page.data \in [0 .. PageSize - 1 -> CellByte]
  /\ page.num \in 0 .. NumPages - 1 \/ spilled
  /\ {may, kept} \subseteq [Addr -> SUBSET CellByte]
  /\ spilled \in BOOLEAN
  /\ writes \in 0 .. MaxWrites /\ failures \in 0 .. MaxFailures

(* What a driver promises: a cell holds what was last written to it, and   *)
(* losses of power spoil only cells that were being written and, in flash, *)
(* the page around them.                                                   *)
WritesLand == \A c \in Addr : read(c) \in may[c]

(* As long as no run of bytes has crossed the end of a page.               *)
WritesLandWithinPages == spilled \/ WritesLand
=============================================================================
