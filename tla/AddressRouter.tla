--------------------------- MODULE AddressRouter ---------------------------
(***************************************************************************)
(* mem::address_router over mem::sparse_memory.  Memory is a map from page *)
(* keys to pages, filled on the first write; the router adds two 8-byte    *)
(* windows, mtime and mtimecmp, backed by atomics.                         *)
(*                                                                         *)
(* read8/write8 are the router's.  The wider accesses are inherited from   *)
(* sparse_memory_accessor, whose read16/write16 call read8/write8 by an    *)
(* unqualified name: that is the accessor's own non-virtual member, so a   *)
(* 16, 32 or 64 bit access goes to the pages at every address.             *)
(***************************************************************************)
EXTENDS Words

CONSTANTS
  PageBits,       \* a page has 2^PageBits bytes: 12 in the code
  MtimeAddr,      \* options::mtime
  MtimecmpAddr    \* options::mtimecmp

ASSUME RouterAssumption ==
  /\ PageBits \in Nat /\ PageBits <= XLEN
  /\ MtimeAddr \in Word
  /\ MtimecmpAddr \in Word

VARIABLES page, mtime, mtimecmp

memVars == <<page, mtime, mtimecmp>>

InPage     == 0 .. (PageBits - 1)
PageOffset == SUBSET InPage
PageKey    == SUBSET (BitPos \ InPage)
Page       == [PageOffset -> Byte]
Registers  == [0 .. 7 -> Byte]

\* p is a map from some page keys to pages.
IsPageMap(p) ==
  /\ p = [k \in DOMAIN p |-> p[k]]
  /\ DOMAIN p \subseteq PageKey
  /\ \A k \in DOMAIN p : p[k] \in Page

MemTypeOK ==
  /\ IsPageMap(page)
  /\ mtime \in Registers
  /\ mtimecmp \in Registers

MemInit ==
  /\ mtime    = [i \in 0 .. 7 |-> {}]    \* C++20 atomics start at zero
  /\ mtimecmp = [i \in 0 .. 7 |-> {}]

-----------------------------------------------------------------------------
(* sparse_memory_accessor: everything goes to the page map p.              *)

Key(addr) == addr \ InPage               \* addr & mask
Slot(addr) == addr \cap InPage           \* offset(addr, 0U, 11U)

\* Mutant of ensure_page_exists: the address is not masked.
ensure_page_exists_RawKey(p, addr) ==
  [k \in DOMAIN p \cup {addr} |-> IF k \in DOMAIN p THEN p[k] ELSE [o \in PageOffset |-> {}]]

ensure_page_exists(p, addr) ==
  [k \in DOMAIN p \cup {Key(addr)} |->
     IF k \in DOMAIN p THEN p[k] ELSE [o \in PageOffset |-> {}]]

SparseRead8(p, off) == IF Key(off) \in DOMAIN p THEN p[Key(off)][Slot(off)] ELSE {}

SparseWrite8(p, off, b) == [ensure_page_exists(p, off) EXCEPT ![Key(off)][Slot(off)] = b]

SparseRead16(p, off) == SparseRead8(p, off) \cup Shift(SparseRead8(p, Plus(off, 1)), ByteLen)
SparseRead32(p, off) == SparseRead16(p, off) \cup Shift(SparseRead16(p, Plus(off, 2)), HalfLen)
SparseRead64(p, off) == SparseRead32(p, off) \cup Shift(SparseRead32(p, Plus(off, 4)), XLEN)

\* Mutant of SparseWrite16: the page is looked up once for both bytes.
SparseWrite16_OnePage(p, off, h) ==
  SparseWrite8(SparseWrite8(p, off, Offset(h, 0, ByteLen - 1)),
               Key(off) \cup Slot(Plus(off, 1)), Offset(h, ByteLen, HalfLen - 1))

SparseWrite16(p, off, h) ==
  SparseWrite8(SparseWrite8(p, off, Offset(h, 0, ByteLen - 1)),
               Plus(off, 1), Offset(h, ByteLen, HalfLen - 1))

\* Mutant of SparseWrite32: the page is looked up once for both half words.
SparseWrite32_OnePage(p, off, w) ==
  SparseWrite16(SparseWrite16(p, off, Offset(w, 0, HalfLen - 1)),
                Key(off) \cup Slot(Plus(off, 2)), Offset(w, HalfLen, XLEN - 1))

SparseWrite32(p, off, w) ==
  SparseWrite16(SparseWrite16(p, off, Offset(w, 0, HalfLen - 1)),
                Plus(off, 2), Offset(w, HalfLen, XLEN - 1))

SparseWrite64(p, off, dw) ==
  SparseWrite32(SparseWrite32(p, off, Offset(dw, 0, XLEN - 1)),
                Plus(off, 4), Offset(dw, XLEN, 2 * XLEN - 1))

-----------------------------------------------------------------------------
(* address_router.                                                         *)

\* Mutant of InWindow: the last byte of the register is left out.
InWindow_Short(off, base) ==
  Below(base, Plus(base, 8)) /\ \E i \in 0 .. 6 : off = Plus(base, i)

\* off >= base && off < base + 8; base + 8 wraps as uint32_t does, and then
\* the window is empty.
InWindow(off, base) == Below(base, Plus(base, 8)) /\ \E i \in 0 .. 7 : off = Plus(base, i)
Index(off, base)    == CHOOSE i \in 0 .. 7 : off = Plus(base, i)      \* off - base

read8(off) ==
  IF InWindow(off, MtimeAddr) THEN mtime[Index(off, MtimeAddr)]
  ELSE IF InWindow(off, MtimecmpAddr) THEN mtimecmp[Index(off, MtimecmpAddr)]
  ELSE SparseRead8(page, off)

read16(off) == SparseRead16(page, off)
read32(off) == SparseRead32(page, off)
read64(off) == SparseRead64(page, off)

write8(off, b) ==
  \/ /\ InWindow(off, MtimeAddr)
     /\ mtime' = [mtime EXCEPT ![Index(off, MtimeAddr)] = b]
     /\ UNCHANGED <<page, mtimecmp>>
  \/ /\ ~InWindow(off, MtimeAddr)
     /\ InWindow(off, MtimecmpAddr)
     /\ mtimecmp' = [mtimecmp EXCEPT ![Index(off, MtimecmpAddr)] = b]
     /\ UNCHANGED <<page, mtime>>
  \/ /\ ~InWindow(off, MtimeAddr)
     /\ ~InWindow(off, MtimecmpAddr)
     /\ page' = SparseWrite8(page, off, b)
     /\ UNCHANGED <<mtime, mtimecmp>>

write16(off, h)  == page' = SparseWrite16(page, off, h)  /\ UNCHANGED <<mtime, mtimecmp>>
write32(off, w)  == page' = SparseWrite32(page, off, w)  /\ UNCHANGED <<mtime, mtimecmp>>
write64(off, dw) == page' = SparseWrite64(page, off, dw) /\ UNCHANGED <<mtime, mtimecmp>>
=============================================================================
