---------------------------- MODULE RouterProofs ----------------------------
(***************************************************************************)
(* Lemmas about the page map of sparse_memory, for every word length and   *)
(* page size: what a byte access returns, keeps and changes, and where in  *)
(* its page an address lies.                                               *)
(***************************************************************************)
EXTENDS AddressRouter, WordProofs

-----------------------------------------------------------------------------
(* Pages.                                                                  *)

\* The page key and the offset in the page determine the address.
LEMMA KeyAndSlot ==
  /\ \A a \in Word : Key(a) \in PageKey /\ Slot(a) \in PageOffset
  /\ \A a, b \in Word : Key(a) = Key(b) /\ Slot(a) = Slot(b) => a = b
  BY DEF Key, Slot, PageKey, PageOffset, Word

\* An address is its page's address plus its place in the page.
LEMMA PageValues ==
  /\ 2^PageBits \in Nat /\ 2^PageBits > 0
  /\ \A o \in PageOffset : o \in BitSets /\ ToNat(o) \in Nat /\ ToNat(o) < 2^PageBits
  /\ \A o, u \in PageOffset : ToNat(o) = ToNat(u) => o = u
  /\ \A a \in Word : ToNat(a) = ToNat(Key(a)) + ToNat(Slot(a))
  /\ \A a \in Word, d \in Nat : ToNat(Slot(a)) + d < 2^PageBits =>
       /\ Key(Plus(a, d)) = Key(a)
       /\ ToNat(Slot(Plus(a, d))) = ToNat(Slot(a)) + d
<1> DEFINE P == 2^PageBits
<1>1. PageBits \in Nat /\ PageBits <= XLEN /\ XLEN \in Nat
  BY RouterAssumption, XLENAssumption
<1>2. P \in Nat /\ P > 0
  BY <1>1, Power
<1>3. PageOffset = SUBSET (0 .. (PageBits - 1)) /\ PageOffset \subseteq Word
  BY <1>1 DEF PageOffset, InPage, Word, BitPos
<1>4. \A o \in PageOffset : o \in BitSets /\ ToNat(o) \in Nat /\ ToNat(o) < P
  BY <1>1, <1>3, SumBound
<1>5. \A o, u \in PageOffset : ToNat(o) = ToNat(u) => o = u
  BY <1>3, WordValues
<1>6. \A a \in Word : /\ Key(a) \in Word /\ Slot(a) \in PageOffset
                      /\ Key(a) \cap Slot(a) = {} /\ Key(a) \cup Slot(a) = a
                      /\ \A o \in PageOffset : /\ Key(a) \cup o \in Word /\ Key(a) \cap o = {}
                                               /\ Key(Key(a) \cup o) = Key(a)
                                               /\ Slot(Key(a) \cup o) = o
  BY <1>3 DEF Key, Slot, Word, PageOffset
<1>7. ASSUME NEW a \in Word, NEW o \in PageOffset
      PROVE  ToNat(Key(a) \cup o) = ToNat(Key(a)) + ToNat(o) /\ ToNat(Key(a)) \in Nat
  BY <1>4, <1>6, WordValues, SumDisjoint
<1>8. ASSUME NEW a \in Word PROVE ToNat(a) = ToNat(Key(a)) + ToNat(Slot(a))
  <2>1. ToNat(Key(a) \cup Slot(a)) = ToNat(Key(a)) + ToNat(Slot(a))
    BY <1>6, <1>7
  <2> QED
    BY <1>6, <2>1, Zenon
<1>9. ASSUME NEW a \in Word, NEW d \in Nat, ToNat(Slot(a)) + d < P
      PROVE  Key(Plus(a, d)) = Key(a) /\ ToNat(Slot(Plus(a, d))) = ToNat(Slot(a)) + d
  <2> DEFINE s == ToNat(Slot(a)) + d
             o == LowBits(s, PageBits)
             b == Key(a) \cup o
  <2>1. s \in Nat /\ s < P /\ ToNat(Slot(a)) \in Nat
    BY <1>4, <1>6, <1>9
  <2>2. o \in PageOffset
    BY <1>3 DEF LowBits
  <2>3. ToNat(o) = s
    <3> HIDE DEF s, P
    <3>1. ToNat(o) = s % P
      BY <1>1, <2>1, LowBitsValue DEF P
    <3> QED
      BY <1>2, <2>1, <3>1
  <2> HIDE DEF o
  <2>4. ToNat(b) = ToNat(Key(a)) + s /\ ToNat(Key(a)) \in Nat /\ b \in Word
    <3>1. ToNat(b) = ToNat(Key(a)) + ToNat(o) /\ ToNat(Key(a)) \in Nat
      BY <1>7, <2>2
    <3>2. b \in Word
      BY <1>6, <2>2
    <3> QED
      BY <2>3, <3>1, <3>2, Zenon
  <2>5. ToNat(b) = ToNat(a) + d /\ ToNat(b) < 2^XLEN
    BY <1>8, <2>1, <2>4, WordValues
  <2>6. ToNat(Plus(a, d)) = ToNat(b)
    BY <2>5, PlusValue
  <2>7. Plus(a, d) \in Word
    BY DEF Plus, ToWord, Word
  <2>8. Plus(a, d) = b
    BY <2>4, <2>6, <2>7, WordValues
  <2>9. Key(b) = Key(a) /\ Slot(b) = o
    BY <1>6, <2>2
  <2>10. ToNat(Slot(b)) = s
    BY <2>3, <2>9, Zenon
  <2> HIDE DEF b
  <2> QED
    BY <2>8, <2>9, <2>10
<1> QED
  BY <1>2, <1>4, <1>5, <1>8, <1>9

\* Allocating a page keeps a page map, and no byte read from it changes.
LEMMA EnsurePage ==
  ASSUME NEW p, IsPageMap(p), NEW a \in Word
  PROVE  /\ IsPageMap(ensure_page_exists(p, a))
         /\ Key(a) \in DOMAIN ensure_page_exists(p, a)
         /\ \A x \in Word : SparseRead8(ensure_page_exists(p, a), x) = SparseRead8(p, x)
<1>1. {} \in Byte
  BY DEF Byte
<1>2. [o \in PageOffset |-> {}] \in Page
  BY <1>1 DEF Page
<1>3. IsPageMap(ensure_page_exists(p, a))
  BY <1>2, KeyAndSlot DEF IsPageMap, ensure_page_exists
<1>4. \A x \in Word : SparseRead8(ensure_page_exists(p, a), x) = SparseRead8(p, x)
  BY KeyAndSlot DEF ensure_page_exists, SparseRead8
<1> QED
  BY <1>3, <1>4 DEF ensure_page_exists

\* A byte store changes the byte at its address and no other.
LEMMA StoreByte ==
  ASSUME NEW p, IsPageMap(p), NEW a \in Word, NEW b \in Byte
  PROVE  /\ IsPageMap(SparseWrite8(p, a, b))
         /\ \A x \in Word : SparseRead8(SparseWrite8(p, a, b), x) =
                              IF x = a THEN b ELSE SparseRead8(p, x)
<1> DEFINE q == ensure_page_exists(p, a)
           r == SparseWrite8(p, a, b)
<1>1. /\ IsPageMap(q) /\ Key(a) \in DOMAIN q
      /\ \A x \in Word : SparseRead8(q, x) = SparseRead8(p, x)
  BY EnsurePage
<1>2. r = [q EXCEPT ![Key(a)][Slot(a)] = b]
  BY DEF SparseWrite8
<1> HIDE DEF q, r
<1>3. /\ q = [k \in DOMAIN q |-> q[k]] /\ DOMAIN q \subseteq PageKey
      /\ \A k \in DOMAIN q : q[k] \in Page
  BY <1>1 DEF IsPageMap
<1>4. /\ r = [k \in DOMAIN r |-> r[k]] /\ DOMAIN r = DOMAIN q
      /\ \A k \in DOMAIN q : k # Key(a) => r[k] = q[k]
      /\ r[Key(a)] = [q[Key(a)] EXCEPT ![Slot(a)] = b]
  BY <1>1, <1>2, <1>3
<1>5. Slot(a) \in PageOffset /\ q[Key(a)] \in [PageOffset -> Byte]
  BY <1>1, <1>3, KeyAndSlot DEF Page
<1>6. r[Key(a)] \in [PageOffset -> Byte] /\ r[Key(a)][Slot(a)] = b
      /\ \A o \in PageOffset : o # Slot(a) => r[Key(a)][o] = q[Key(a)][o]
  BY <1>4, <1>5
<1>7. IsPageMap(r)
  BY <1>3, <1>4, <1>6 DEF IsPageMap, Page
<1>8. ASSUME NEW x \in Word
      PROVE  SparseRead8(r, x) = IF x = a THEN b ELSE SparseRead8(q, x)
  BY <1>1, <1>4, <1>6, KeyAndSlot DEF SparseRead8
<1> QED
  BY <1>1, <1>7, <1>8 DEF r

\* A byte of a page map is a byte.
LEMMA LoadByte ==
  ASSUME NEW p, IsPageMap(p), NEW a \in Word
  PROVE  SparseRead8(p, a) \in Byte
<1>1. {} \in Byte
  BY DEF Byte
<1> QED
  BY <1>1, KeyAndSlot DEF IsPageMap, SparseRead8, Page

\* Stores of every width keep the page map.
LEMMA StoreType ==
  ASSUME NEW p, IsPageMap(p), NEW a \in Word, NEW v
  PROVE  /\ IsPageMap(SparseWrite16(p, a, v))
         /\ IsPageMap(SparseWrite32(p, a, v))
         /\ IsPageMap(SparseWrite64(p, a, v))
<1>1. \A q, h : \A x \in Word : IsPageMap(q) => IsPageMap(SparseWrite16(q, x, h))
  BY StoreByte, Fields, PlusType DEF SparseWrite16
<1>2. \A q, w : \A x \in Word : IsPageMap(q) => IsPageMap(SparseWrite32(q, x, w))
  BY <1>1, PlusType DEF SparseWrite32
<1>3. IsPageMap(SparseWrite64(p, a, v))
  BY <1>2, PlusType DEF SparseWrite64
<1> QED
  BY <1>1, <1>2, <1>3

\* Loads of every width fit their width.
LEMMA LoadType ==
  ASSUME NEW p, IsPageMap(p), NEW a \in Word
  PROVE  /\ SparseRead8(p, a) \in Byte
         /\ SparseRead16(p, a) \in Half
         /\ SparseRead32(p, a) \in Word
         /\ SparseRead64(p, a) \in DoubleWord
<1>1. \A x \in Word : SparseRead8(p, x) \in Byte
  BY LoadByte
<1>2. \A x \in Word : SparseRead16(p, x) \in Half
  BY <1>1, PlusType, Concatenation DEF SparseRead16
<1>3. \A x \in Word : SparseRead32(p, x) \in Word
  BY <1>2, PlusType, Concatenation DEF SparseRead32
<1>4. \A x \in Word : SparseRead64(p, x) \in DoubleWord
  BY <1>3, PlusType, Concatenation DEF SparseRead64
<1> QED
  BY <1>1, <1>2, <1>3, <1>4

\* The router's byte accesses, in the device windows too.
LEMMA RouterByte ==
  ASSUME MemTypeOK, NEW a \in Word
  PROVE  /\ read8(a) \in Byte
         /\ \A b \in Byte : write8(a, b) => MemTypeOK'
<1>1. InWindow(a, MtimeAddr) => Index(a, MtimeAddr) \in 0 .. 7
  BY DEF InWindow, Index
<1>2. InWindow(a, MtimecmpAddr) => Index(a, MtimecmpAddr) \in 0 .. 7
  BY DEF InWindow, Index
<1>3. read8(a) \in Byte
  BY <1>1, <1>2, LoadByte DEF MemTypeOK, Registers, read8
<1>4. ASSUME NEW b \in Byte, write8(a, b) PROVE MemTypeOK'
  <2>1. mtime' \in Registers /\ mtimecmp' \in Registers
    BY <1>4 DEF MemTypeOK, Registers, write8
  <2>2. IsPageMap(page)'
    <3>1. page' = page \/ page' = SparseWrite8(page, a, b)
      BY <1>4 DEF write8
    <3>2. IsPageMap(page')
      BY <3>1, <1>4, StoreByte DEF MemTypeOK
    <3> QED
      BY <3>2 DEF IsPageMap
  <2> QED
    BY <2>1, <2>2 DEF MemTypeOK
<1> QED
  BY <1>3, <1>4
=============================================================================
