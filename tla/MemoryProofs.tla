---------------------------- MODULE MemoryProofs ----------------------------
(***************************************************************************)
(* The memory, for every word length, page size and placement of the       *)
(* device windows.  Behind the address router it keeps its type and        *)
(* implements FlatMemory.  The loader, for every target file, stays in     *)
(* range, touches the pages of the segments' bytes and no other, and       *)
(* leaves every byte of the file in memory although each of its copies     *)
(* runs to the end of a page.                                              *)
(***************************************************************************)
EXTENDS MemoryBus, Loader, RouterProofs

-----------------------------------------------------------------------------
(* The flat view of a page map, and wide accesses on both.                 *)

View(p) == [a \in Word |-> SparseRead8(p, a)]

\* The words of the abstract memory are those of the router.
LEMMA SameWords ==
  /\ Flat!Word = Word /\ Flat!Byte = Byte
  /\ Flat!ByteLen = ByteLen /\ Flat!HalfLen = HalfLen
  /\ \A a, n : Flat!Plus(a, n) = Plus(a, n) /\ Flat!Shift(a, n) = Shift(a, n)
  /\ \A v, l, h : Flat!Offset(v, l, h) = Offset(v, l, h)
<1>1. Flat!ByteLen = ByteLen /\ Flat!HalfLen = HalfLen /\ Flat!BitPos = BitPos
  BY DEF ByteLen, HalfLen, BitPos, Flat!ByteLen, Flat!HalfLen, Flat!BitPos
<1>2. Flat!Word = Word /\ Flat!Byte = Byte
  BY <1>1 DEF Word, Byte, Flat!Word, Flat!Byte
<1>3. \A a, n : Flat!Plus(a, n) = Plus(a, n)
  BY <1>1 DEF Plus, Flat!Plus, ToWord, Flat!ToWord, ToNat, Flat!ToNat,
              MapThenSumSet, Flat!MapThenSumSet, MapThenFoldSet, Flat!MapThenFoldSet
<1>4. \A a, n : Flat!Shift(a, n) = Shift(a, n)
  BY DEF Shift, Flat!Shift
<1>5. \A v, l, h : Flat!Offset(v, l, h) = Offset(v, l, h)
  BY DEF Offset, Flat!Offset
<1> QED
  BY <1>1, <1>2, <1>3, <1>4, <1>5

\* A store of each width maps to the abstract store of that width.
LEMMA View8 ==
  ASSUME NEW p, IsPageMap(p), NEW a \in Word, NEW b \in Byte
  PROVE  /\ IsPageMap(SparseWrite8(p, a, b))
         /\ View(SparseWrite8(p, a, b)) = Flat!Put8(View(p), a, b)
<1>1. IsPageMap(SparseWrite8(p, a, b))
  BY StoreByte
<1>2. View(SparseWrite8(p, a, b)) = [x \in Word |-> IF x = a THEN b ELSE SparseRead8(p, x)]
  BY StoreByte DEF View
<1>3. Flat!Put8(View(p), a, b) = [x \in Word |-> IF x = a THEN b ELSE SparseRead8(p, x)]
  BY DEF View, Flat!Put8
<1> QED
  BY <1>1, <1>2, <1>3

\* A half word store of the pages is a half word store of the flat array.
LEMMA View16 ==
  ASSUME NEW p, IsPageMap(p), NEW a \in Word, NEW h
  PROVE  /\ IsPageMap(SparseWrite16(p, a, h))
         /\ View(SparseWrite16(p, a, h)) = Flat!Put16(View(p), a, h)
<1>1. Offset(h, 0, ByteLen - 1) \in Byte /\ Offset(h, ByteLen, HalfLen - 1) \in Byte
  BY Fields
<1> QED
  BY <1>1, View8, PlusType, SameWords DEF SparseWrite16, Flat!Put16

\* The same for a word.
LEMMA View32 ==
  ASSUME NEW p, IsPageMap(p), NEW a \in Word, NEW w
  PROVE  /\ IsPageMap(SparseWrite32(p, a, w))
         /\ View(SparseWrite32(p, a, w)) = Flat!Put32(View(p), a, w)
  BY View16, PlusType, SameWords DEF SparseWrite32, Flat!Put32

\* The same for a double word.
LEMMA View64 ==
  ASSUME NEW p, IsPageMap(p), NEW a \in Word, NEW d
  PROVE  /\ IsPageMap(SparseWrite64(p, a, d))
         /\ View(SparseWrite64(p, a, d)) = Flat!Put64(View(p), a, d)
  BY View32, PlusType, SameWords DEF SparseWrite64, Flat!Put64

\* A load of each width returns what the abstract load returns, and fits.
LEMMA Loads ==
  ASSUME NEW p, IsPageMap(p), NEW a \in Word
  PROVE  /\ SparseRead8(p, a)  = View(p)[a]             /\ SparseRead8(p, a) \in Byte
         /\ SparseRead16(p, a) = Flat!Get16(View(p), a) /\ SparseRead16(p, a) \in Half
         /\ SparseRead32(p, a) = Flat!Get32(View(p), a) /\ SparseRead32(p, a) \in Word
         /\ SparseRead64(p, a) = Flat!Get64(View(p), a) /\ SparseRead64(p, a) \in DoubleWord
<1>1. \A x \in Word : SparseRead8(p, x) = View(p)[x] /\ SparseRead8(p, x) \in Byte
  BY LoadByte DEF View
<1>2. \A x \in Word : SparseRead16(p, x) = Flat!Get16(View(p), x) /\ SparseRead16(p, x) \in Half
  BY <1>1, PlusType, SameWords, Concatenation DEF SparseRead16, Flat!Get16
<1>3. \A x \in Word : SparseRead32(p, x) = Flat!Get32(View(p), x) /\ SparseRead32(p, x) \in Word
  BY <1>2, PlusType, SameWords, Concatenation DEF SparseRead32, Flat!Get32
<1>4. \A x \in Word : SparseRead64(p, x) = Flat!Get64(View(p), x) /\ SparseRead64(p, x) \in DoubleWord
  BY <1>3, PlusType, SameWords, Concatenation DEF SparseRead64, Flat!Get64
<1> QED
  BY <1>1, <1>2, <1>3, <1>4
-----------------------------------------------------------------------------
(* Theorems.                                                               *)

\* The initial memory has its type and shows a flat memory of zeros.
LEMMA InitOK == Init => TypeOK /\ Flat!Init
<1> SUFFICES ASSUME Init PROVE TypeOK /\ Flat!Init
  OBVIOUS
<1>1. IsPageMap(page)
  BY DEF Init, IsPageMap
<1>2. mtime \in Registers /\ mtimecmp \in Registers
  BY DEF Init, MemInit, Registers, Byte
<1>3. out \in DoubleWord /\ out = {}
  BY DEF Init, DoubleWord
<1>4. \A a \in Word : SparseRead8(page, a) = {}
  BY DEF Init, SparseRead8
<1> QED
  BY <1>1, <1>2, <1>3, <1>4, SameWords DEF TypeOK, MemTypeOK, Flat!Init

\* Every access keeps the type.
LEMMA TypeStep == TypeOK /\ [Next]_vars => TypeOK'
<1> SUFFICES ASSUME TypeOK, [Next]_vars PROVE TypeOK'
  OBVIOUS
<1> USE DEF TypeOK, MemTypeOK
<1>1. ASSUME NEW a \in Addrs, Load8(a) \/ Load16(a) \/ Load32(a) \/ Load64(a) PROVE TypeOK'
  <2>1. a \in Word
    BY BusAssumption
  <2>2. out' \in DoubleWord
    BY <1>1, <2>1, RouterByte, LoadType, Concatenation
    DEF Load8, Load16, Load32, Load64, read16, read32, read64
  <2>3. UNCHANGED memVars
    BY <1>1 DEF Load8, Load16, Load32, Load64
  <2> QED
    BY <2>2, <2>3 DEF memVars, IsPageMap
<1>2. ASSUME NEW a \in Addrs, NEW v \in Values,
             Store8(a, v) \/ Store16(a, v) \/ Store32(a, v) \/ Store64(a, v)
      PROVE  TypeOK'
  <2>1. a \in Word
    BY BusAssumption
  <2>2. CASE Store8(a, v)
    BY <2>1, <2>2, RouterByte, Fields DEF Store8
  <2>3. CASE Store16(a, v) \/ Store32(a, v) \/ Store64(a, v)
    <3>1. IsPageMap(page') /\ UNCHANGED <<mtime, mtimecmp, out>>
      BY <2>1, <2>3, StoreType DEF Store16, Store32, Store64, write16, write32, write64
    <3> QED
      BY <3>1 DEF IsPageMap
  <2> QED
    BY <1>2, <2>2, <2>3
<1>3. CASE Tick
  <2>1. FetchAdd(mtime[0]) \in Byte
    BY DEF FetchAdd, Byte
  <2> QED
    BY <1>3, <2>1 DEF Tick, Registers, IsPageMap
<1>4. CASE UNCHANGED vars
  BY <1>4 DEF vars, IsPageMap
<1> QED
  BY <1>1, <1>2, <1>3, <1>4 DEF Next

\* Type correctness: whatever loads, stores and timer increments do, the page
\* map stays a map from page keys to whole pages of bytes.
THEOREM MemoryTypeCorrect == Spec => []TypeOK
<1>1. Init => TypeOK
  BY InitOK
<1>2. TypeOK /\ [Next]_vars => TypeOK'
  BY TypeStep
<1> QED
  BY <1>1, <1>2, PTL DEF Spec

\* Every access to the paged memory is an access to the flat one, or a stutter.
LEMMA FlatStep ==
  TypeOK /\ [Next]_vars => [Flat!Next]_<<[a \in Word |-> SparseRead8(page, a)], out>>
<1> DEFINE flat == [a \in Word |-> SparseRead8(page, a)]
           Device == {a \in Word : InWindow(a, MtimeAddr) \/ InWindow(a, MtimecmpAddr)}
<1> SUFFICES ASSUME TypeOK, [Next]_vars PROVE Flat!Next \/ UNCHANGED <<flat, out>>
  OBVIOUS
<1>0. IsPageMap(page) /\ flat = View(page) /\ flat' = View(page')
  BY DEF TypeOK, MemTypeOK, View
<1>1. ASSUME NEW a \in Addrs, Load8(a) \/ Load16(a) \/ Load32(a) \/ Load64(a)
      PROVE  Flat!Load(a)
  <2>1. a \in Word
    BY BusAssumption
  <2>2. flat' = flat
    BY <1>1 DEF Load8, Load16, Load32, Load64, memVars
  <2>3. CASE Load8(a)
    <3>1. CASE a \in Device
      BY <2>1, <2>2, <2>3, <3>1, RouterByte, SameWords DEF Load8, Flat!Load, TypeOK
    <3>2. CASE a \notin Device
      <4>1. out' = flat[a]
        BY <2>1, <2>3, <3>2 DEF Load8, read8
      <4> QED
        BY <2>2, <3>2, <4>1 DEF Flat!Load
    <3> QED
      BY <3>1, <3>2
  <2>4. CASE Load16(a) \/ Load32(a) \/ Load64(a)
    <3>1. out' \in {Flat!Get16(flat, a), Flat!Get32(flat, a), Flat!Get64(flat, a)}
      BY <1>0, <2>1, <2>4, Loads DEF Load16, Load32, Load64, read16, read32, read64
    <3> QED
      BY <2>2, <3>1 DEF Flat!Load
  <2> QED
    BY <1>1, <2>3, <2>4
<1>2. ASSUME NEW a \in Addrs, NEW v \in Values,
             Store8(a, v) \/ Store16(a, v) \/ Store32(a, v) \/ Store64(a, v)
      PROVE  Flat!Store(a, v)
  <2>1. a \in Word
    BY BusAssumption
  <2>2. UNCHANGED out
    BY <1>2 DEF Store8, Store16, Store32, Store64
  <2>3. CASE Store8(a, v)
    <3>1. CASE a \in Device
      <4>1. flat' = flat
        BY <2>3, <3>1 DEF Store8, write8
      <4> QED
        BY <2>2, <3>1, <4>1 DEF Flat!Store
    <3>2. CASE a \notin Device
      <4>1. flat' = Flat!Put8(flat, a, Offset(v, 0, ByteLen - 1))
        BY <1>0, <2>1, <2>3, <3>2, View8, Fields DEF Store8, write8
      <4> QED
        BY <2>2, <3>2, <4>1, SameWords DEF Flat!Store
    <3> QED
      BY <3>1, <3>2
  <2>4. CASE Store16(a, v) \/ Store32(a, v) \/ Store64(a, v)
    <3>1. flat' \in {Flat!Put16(flat, a, Offset(v, 0, HalfLen - 1)),
                     Flat!Put32(flat, a, Offset(v, 0, XLEN - 1)),
                     Flat!Put64(flat, a, v)}
      BY <1>0, <2>1, <2>4, View16, View32, View64
      DEF Store16, Store32, Store64, write16, write32, write64
    <3> QED
      BY <2>2, <3>1, SameWords DEF Flat!Store
  <2> QED
    BY <1>2, <2>3, <2>4
<1>3. CASE Tick \/ UNCHANGED vars
  BY <1>3 DEF Tick, vars
<1> QED
  BY <1>1, <1>2, <1>3 DEF Next, Flat!Next

\* Pages are invisible: the router with its sparse memory implements one flat
\* array of bytes in which byte accesses may meet the timer registers.
THEOREM MemoryImplementsFlat == Spec => ImplementsFlatMemory
<1>1. Init => Flat!Init
  BY InitOK
<1>2. TypeOK /\ [Next]_vars => [Flat!Next]_<<[a \in Word |-> SparseRead8(page, a)], out>>
  BY FlatStep
<1> QED
  BY <1>1, <1>2, MemoryTypeCorrect, PTL DEF Spec, ImplementsFlatMemory, Flat!Spec

\* The timer's register is served at each of its eight addresses, whatever has
\* been stored around it and wherever mtimecmp is, as long as the end of the
\* window does not wrap to address 0.
THEOREM MemoryWindowServed ==
  ASSUME ToNat(MtimeAddr) + 8 < 2^XLEN
  PROVE  Spec => []WindowServed
<1>0. MtimeAddr \in Word
  BY RouterAssumption
<1>1. Below(MtimeAddr, Plus(MtimeAddr, 8))
  <2>1. ToNat(Plus(MtimeAddr, 8)) = ToNat(MtimeAddr) + 8
    BY <1>0, PlusValue
  <2>2. ToNat(MtimeAddr) \in Nat
    BY <1>0, WordValues
  <2> QED
    BY <1>0, <2>1, <2>2, PlusType, WordValues
<1>2. WindowServed
  <2> SUFFICES ASSUME NEW i \in 0 .. 7 PROVE read8(Plus(MtimeAddr, i)) = mtime[i]
    BY DEF WindowServed
  <2>1. InWindow(Plus(MtimeAddr, i), MtimeAddr)
    BY <1>1 DEF InWindow
  <2>2. Index(Plus(MtimeAddr, i), MtimeAddr) = i
    BY <1>0, PlusDistinct DEF Index
  <2> QED
    BY <2>1, <2>2 DEF read8
<1> QED
  BY <1>2, PTL

-----------------------------------------------------------------------------
(* Loader.                                                                 *)

\* A file has segments with bytes at addresses.
LEMMA FileType ==
  ASSUME NEW f \in Files
  PROVE  /\ Len(f.segments) \in Nat /\ DOMAIN f.segments = 1 .. Len(f.segments)
         /\ \A i \in DOMAIN f.segments :
              LET s == f.segments[i]
              IN  /\ s.type \in {"PT_LOAD", "other"} /\ s.address \in Word /\ s.data \in Seq(Byte)
                  /\ Len(s.data) \in Nat /\ DOMAIN s.data = 1 .. Len(s.data)
                  /\ \A j \in 1 .. Len(s.data) : s.data[j] \in Byte
<1>1. f \in File
  BY LoaderAssumption
<1>2. f.segments \in Seq(Segment)
  BY <1>1 DEF File
<1>3. \A i \in DOMAIN f.segments : f.segments[i] \in Segment
  BY <1>2
<1>4. ASSUME NEW s \in Segment
      PROVE  /\ s.type \in {"PT_LOAD", "other"} /\ s.address \in Word /\ s.data \in Seq(Byte)
             /\ Len(s.data) \in Nat /\ DOMAIN s.data = 1 .. Len(s.data)
             /\ \A j \in 1 .. Len(s.data) : s.data[j] \in Byte
  BY DEF Segment
<1> QED
  BY <1>2, <1>3, <1>4

-----------------------------------------------------------------------------
(* The invariant.                                                          *)

\* In write() the locals are those of the segment that is being copied.
Located ==
  /\ stage = "write" =>
       LET s == file.segments[seg]
       IN  /\ seg \in Loadable(file)
           /\ size_in_bytes = Len(s.data) - ptr
           /\ virt_addr = Plus(s.address, ptr)
  /\ stage = "ready" => seg = Len(file.segments) + 1

\* Byte j of segment i has been copied.
Copied(i, j) == i < seg \/ (i = seg /\ stage = "write" /\ j <= ptr)

\* The page of every byte that has been copied exists, and no other page.
Present ==
  \A i \in Loadable(file) : LET s == file.segments[i] IN
    \A j \in 1 .. Len(s.data) : Copied(i, j) => Key(At(s, j)) \in DOMAIN page

Needed ==
  DOMAIN page \subseteq {Key(a) : a \in UNION {Extent(file.segments[i]) : i \in Loadable(file)}}

\* Every byte that has been copied is there.
BytesThere ==
  Ascending(file) =>
    \A i \in Loadable(file) : LET s == file.segments[i] IN
      \A j \in 1 .. Len(s.data) : Copied(i, j) => SparseRead8(page, At(s, j)) = s.data[j]

IInv == LoadTypeOK /\ Located /\ Present /\ Needed /\ BytesThere

\* Nothing is copied at first.
LEMMA InitInv == LoadInit => IInv
<1> SUFFICES ASSUME LoadInit PROVE IInv
  OBVIOUS
<1>1. MemTypeOK
  BY DEF LoadInit, MemInit, MemTypeOK, IsPageMap, Registers, Byte
<1>2. {} \in Word /\ 1 \in 1 .. Len(file.segments) + 1
  BY FileType DEF LoadInit, Word
<1>3. LoadTypeOK
  BY <1>1, <1>2 DEF LoadInit, LoadTypeOK
<1>4. \A i \in Loadable(file) : i >= 1
  BY FileType DEF LoadInit, Loadable
<1>5. Located /\ Needed
  BY DEF LoadInit, Located, Needed
<1>6. \A i \in Loadable(file) : \A j : ~Copied(i, j)
  BY <1>4, FileType DEF LoadInit, Copied, Loadable
<1> QED
  BY <1>3, <1>5, <1>6 DEF IInv, Present, BytesThere

\* The parts that depend on the memory hold as long as it does not change and
\* nothing more counts as copied.
LEMMA Kept ==
  ASSUME IInv, UNCHANGED <<page, mtime, mtimecmp, file>>,
         \A i \in Loadable(file) : \A j \in 1 .. Len(file.segments[i].data) :
           Copied(i, j)' => Copied(i, j)
  PROVE  MemTypeOK' /\ Present' /\ Needed' /\ BytesThere'
<1>1. MemTypeOK' /\ Needed'
  BY DEF IInv, LoadTypeOK, MemTypeOK, IsPageMap, Needed
<1>2. Present'
  BY DEF IInv, Present
<1>3. BytesThere'
  BY DEF IInv, BytesThere
<1> QED
  BY <1>1, <1>2, <1>3

-----------------------------------------------------------------------------
(* write().                                                                *)

\* What an iteration of write() makes of the pages p.
AfterCopy(p, v, data, from, junk) ==
  [ensure_page_exists(p, v) EXCEPT ![Key(v)] = write_block(@, Slot(v), data, from, junk)]

\* The bytes behind the data, as far as the page reaches, are bytes.
Readable(v, data, from, junk) ==
  \A o \in PageOffset : from + 1 + ToNat(o) - ToNat(Slot(v)) > Len(data) => junk[o] \in Byte

\* The page of v gets the bytes from data[from + 1] on, beginning at v, and
\* those of junk behind them; nothing else changes.
CopiedFrom(q, p, v, data, from, junk) ==
  /\ IsPageMap(q) /\ DOMAIN q = DOMAIN p \cup {Key(v)}
  /\ \A x \in Word :
       LET i == from + 1 + ToNat(Slot(x)) - ToNat(Slot(v))
       IN  SparseRead8(q, x) =
             IF Key(x) # Key(v) \/ ToNat(Slot(x)) < ToNat(Slot(v)) THEN SparseRead8(p, x)
             ELSE IF i <= Len(data) THEN data[i] ELSE junk[Slot(x)]

\* One iteration of write() does exactly this.
LEMMA WriteBlock ==
  ASSUME NEW p, IsPageMap(p), NEW v \in Word, NEW data \in Seq(Byte), NEW from \in Nat, NEW junk,
         Readable(v, data, from, junk)
  PROVE  CopiedFrom(AfterCopy(p, v, data, from, junk), p, v, data, from, junk)
<1> DEFINE e  == ensure_page_exists(p, v)
           b  == write_block(e[Key(v)], Slot(v), data, from, junk)
           q  == AfterCopy(p, v, data, from, junk)
<1>1. /\ IsPageMap(e) /\ Key(v) \in DOMAIN e /\ DOMAIN e = DOMAIN p \cup {Key(v)}
      /\ \A x \in Word : SparseRead8(e, x) = SparseRead8(p, x)
  BY EnsurePage DEF ensure_page_exists
<1>2. e[Key(v)] \in Page /\ Slot(v) \in PageOffset /\ ToNat(Slot(v)) \in Nat /\ Len(data) \in Nat
  BY <1>1, KeyAndSlot, PageValues DEF IsPageMap
<1> HIDE DEF e
<1>3. q = [e EXCEPT ![Key(v)] = b]
  BY DEF e, AfterCopy
<1> HIDE DEF q
<1>4. ASSUME NEW o \in PageOffset
      PROVE  LET i == from + 1 + ToNat(o) - ToNat(Slot(v))
             IN  /\ b[o] = IF ToNat(o) < ToNat(Slot(v)) THEN e[Key(v)][o]
                           ELSE IF i <= Len(data) THEN data[i] ELSE junk[o]
                 /\ b[o] \in Byte
  <2> DEFINE i == from + 1 + ToNat(o) - ToNat(Slot(v))
  <2>1. b[o] = IF ToNat(o) < ToNat(Slot(v)) THEN e[Key(v)][o]
               ELSE IF i <= Len(data) THEN data[i] ELSE junk[o]
    BY DEF write_block
  <2>2. ToNat(o) \in Nat
    BY PageValues
  <2>3. e[Key(v)][o] \in Byte
    BY <1>2 DEF Page
  <2>4. i \in Int /\ (~(ToNat(o) < ToNat(Slot(v))) => i >= 1)
    BY <1>2, <2>2
  <2>5. ~(ToNat(o) < ToNat(Slot(v))) /\ i <= Len(data) => data[i] \in Byte
    BY <1>2, <2>4
  <2>6. ~(i <= Len(data)) => junk[o] \in Byte
    BY <1>2, <2>4 DEF Readable
  <2> HIDE DEF b, i
  <2>7. b[o] \in Byte
    BY <2>1, <2>3, <2>5, <2>6
  <2> QED
    BY <2>1, <2>7 DEF i
<1>5. b \in Page
  BY <1>4 DEF write_block, Page
<1> HIDE DEF b
<1>6. IsPageMap(q) /\ DOMAIN q = DOMAIN p \cup {Key(v)} /\ q[Key(v)] = b
      /\ \A k \in DOMAIN q : k # Key(v) => q[k] = e[k]
  BY <1>1, <1>3, <1>5 DEF IsPageMap
<1>7. ASSUME NEW x \in Word
      PROVE  LET i == from + 1 + ToNat(Slot(x)) - ToNat(Slot(v))
             IN  SparseRead8(q, x) =
                    IF Key(x) # Key(v) \/ ToNat(Slot(x)) < ToNat(Slot(v)) THEN SparseRead8(p, x)
                    ELSE IF i <= Len(data) THEN data[i] ELSE junk[Slot(x)]
  <2>1. Slot(x) \in PageOffset /\ SparseRead8(e, x) = SparseRead8(p, x)
    BY <1>1, KeyAndSlot
  <2>2. CASE Key(x) # Key(v)
    <3>1. SparseRead8(q, x) = SparseRead8(e, x)
      BY <1>1, <1>6, <2>2 DEF SparseRead8
    <3> QED
      BY <2>1, <2>2, <3>1
  <2>3. CASE Key(x) = Key(v)
    <3>1. SparseRead8(q, x) = b[Slot(x)] /\ SparseRead8(e, x) = e[Key(v)][Slot(x)]
      BY <1>1, <1>6, <2>3 DEF SparseRead8
    <3> QED
      BY <1>4, <2>1, <2>3, <3>1
  <2> QED
    BY <2>2, <2>3
<1> QED
  BY <1>6, <1>7 DEF q, CopiedFrom

\* The segment that write() copies, and where it is in it.
LEMMA InWrite ==
  ASSUME IInv, stage = "write", more(size_in_bytes)
  PROVE  LET s == file.segments[seg]
         IN  /\ seg \in Loadable(file) /\ seg \in Nat /\ s.address \in Word /\ s.data \in Seq(Byte)
             /\ Len(s.data) \in Nat /\ ptr \in Nat /\ ptr < Len(s.data)
             /\ size_in_bytes = Len(s.data) - ptr
             /\ virt_addr \in Word /\ virt_addr = Plus(s.address, ptr)
             /\ page_size \in Nat /\ ToNat(Slot(virt_addr)) \in Nat
             /\ page_end(virt_addr) = page_size - ToNat(Slot(virt_addr))
             /\ page_end(virt_addr) \in Nat /\ page_end(virt_addr) > 0
<1> DEFINE s == file.segments[seg]
<1>1. /\ seg \in Loadable(file) /\ size_in_bytes = Len(s.data) - ptr
      /\ virt_addr = Plus(s.address, ptr) /\ file \in Files /\ ptr \in Nat /\ virt_addr \in Word
  BY DEF IInv, Located, LoadTypeOK
<1>2. seg \in Nat /\ s.address \in Word /\ s.data \in Seq(Byte) /\ Len(s.data) \in Nat
  BY <1>1, FileType DEF Loadable
<1>3. ptr < Len(s.data)
  BY <1>1, <1>2 DEF more
<1>4. /\ page_size \in Nat /\ ToNat(Slot(virt_addr)) \in Nat
      /\ ToNat(Slot(virt_addr)) < page_size
  BY <1>1, KeyAndSlot, PageValues DEF page_size
<1>5. page_end(virt_addr) = page_size - ToNat(Slot(virt_addr))
  BY DEF page_end
<1> QED
  BY <1>1, <1>2, <1>3, <1>4, <1>5

\* An iteration of write() that copies a page.
LEMMA CopyInv ==
  ASSUME IInv, stage = "write", more(size_in_bytes), NEW junk,
         Readable(virt_addr, file.segments[seg].data, ptr, junk),
         page' = AfterCopy(page, virt_addr, file.segments[seg].data, ptr, junk),
         ptr' = ptr + page_end(virt_addr),
         size_in_bytes' = size_in_bytes - page_end(virt_addr),
         virt_addr' = Plus(virt_addr, page_end(virt_addr)),
         UNCHANGED <<mtime, mtimecmp, file, seg, stage>>
  PROVE  IInv'
<1> DEFINE s == file.segments[seg]
           v == virt_addr
           n == page_end(virt_addr)
           len == Len(s.data)
           off == ToNat(Slot(v))
<1>1. /\ seg \in Loadable(file) /\ seg \in Nat /\ s.address \in Word /\ s.data \in Seq(Byte)
      /\ len \in Nat /\ ptr \in Nat /\ ptr < len /\ size_in_bytes = len - ptr
      /\ v \in Word /\ v = Plus(s.address, ptr)
      /\ page_size \in Nat /\ off \in Nat
      /\ n = page_size - off /\ n \in Nat /\ n > 0
  BY InWrite
<1>2. IsPageMap(page) /\ mtime \in Registers /\ mtimecmp \in Registers /\ file \in Files
  BY DEF IInv, LoadTypeOK, MemTypeOK
<1>0. /\ ptr' = ptr + n /\ size_in_bytes' = size_in_bytes - n /\ virt_addr' = Plus(v, n)
      /\ page' = AfterCopy(page, v, s.data, ptr, junk)
      /\ Readable(v, s.data, ptr, junk)
  OBVIOUS
<1> HIDE DEF s, v, n
<1>3. /\ IsPageMap(page') /\ DOMAIN page' = DOMAIN page \cup {Key(v)}
      /\ \A x \in Word :
           LET i == ptr + 1 + ToNat(Slot(x)) - off
           IN  SparseRead8(page', x) =
                 IF Key(x) # Key(v) \/ ToNat(Slot(x)) < off THEN SparseRead8(page, x)
                 ELSE IF i <= len THEN s.data[i] ELSE junk[Slot(x)]
  <2> DEFINE q == AfterCopy(page, v, s.data, ptr, junk)
  <2>1. CopiedFrom(q, page, v, s.data, ptr, junk)
    <3>1. Readable(v, s.data, ptr, junk)
      BY <1>0
    <3>2. IsPageMap(page)
      BY <1>2
    <3>3. v \in Word
      BY <1>1
    <3>4. s.data \in Seq(Byte)
      BY <1>1
    <3>5. ptr \in Nat
      BY <1>1
    <3> QED
      BY <3>1, <3>2, <3>3, <3>4, <3>5, WriteBlock, Zenon
  <2>2. page' = q
    BY <1>0
  <2> HIDE DEF q
  <2> QED
    BY <2>1, <2>2 DEF CopiedFrom, len, off
<1> HIDE DEF len, off
<1>4. ASSUME NEW j \in 1 .. len, ptr < j, j <= ptr + n
      PROVE  /\ Key(At(s, j)) = Key(v) /\ At(s, j) \in Word
             /\ ToNat(Slot(At(s, j))) = off + (j - 1 - ptr)
  <2> DEFINE d == j - 1 - ptr
  <2>1. d \in Nat /\ d < n /\ ptr + d = j - 1
    BY <1>1, <1>4
  <2> HIDE DEF d
  <2>2. Plus(Plus(s.address, ptr), d) = Plus(s.address, ptr + d)
    BY <1>1, <2>1, PlusPlus
  <2>3. At(s, j) = Plus(v, d)
    BY <1>1, <2>1, <2>2 DEF At
  <2>4. off + d < 2^PageBits
    BY <1>1, <2>1 DEF page_size
  <2>5. Key(Plus(v, d)) = Key(v) /\ ToNat(Slot(Plus(v, d))) = off + d
    BY <1>1, <2>1, <2>4, PageValues DEF off
  <2> QED
    BY <2>3, <2>5, PlusType DEF d
<1>5. \A i \in Loadable(file) : \A j \in 1 .. Len(file.segments[i].data) :
        Copied(i, j)' => Copied(i, j) \/ (i = seg /\ ptr < j /\ j <= ptr + n)
  <2> SUFFICES ASSUME NEW i \in Loadable(file), NEW j \in 1 .. Len(file.segments[i].data),
                      Copied(i, j)'
               PROVE  Copied(i, j) \/ (i = seg /\ ptr < j /\ j <= ptr + n)
    OBVIOUS
  <2>1. i < seg \/ (i = seg /\ j <= ptr + n)
    BY <1>0 DEF Copied
  <2>2. j \in Nat
    BY <1>2, FileType DEF Loadable
  <2> QED
    BY <1>1, <2>1, <2>2 DEF Copied
<1>6. LoadTypeOK'
  <2>1. ptr' \in Nat /\ size_in_bytes' \in Int
    BY <1>0, <1>1
  <2>2. virt_addr' \in Word
    BY <1>0, PlusType
  <2> QED
    BY <1>2, <1>3, <2>1, <2>2 DEF IInv, LoadTypeOK, MemTypeOK, IsPageMap
<1>7. Located'
  <2>1. virt_addr' = Plus(s.address, ptr + n)
    <3>1. Plus(Plus(s.address, ptr), n) = Plus(s.address, ptr + n)
      BY <1>1, PlusPlus
    <3>2. virt_addr' = Plus(v, n) /\ v = Plus(s.address, ptr)
      BY <1>0, <1>1
    <3> QED
      BY <3>1, <3>2, Zenon
  <2>2. size_in_bytes' = len - (ptr + n)
    BY <1>0, <1>1
  <2> QED
    BY <1>0, <1>1, <2>1, <2>2 DEF Located, IInv, s, len, Loadable
<1>8. Present'
  <2> SUFFICES ASSUME NEW i \in Loadable(file), NEW j \in 1 .. Len(file.segments[i].data),
                      Copied(i, j)'
               PROVE  Key(At(file.segments[i], j)) \in DOMAIN page'
    BY DEF Present
  <2>1. CASE Copied(i, j)
    BY <1>3, <2>1 DEF IInv, Present
  <2>2. CASE i = seg /\ ptr < j /\ j <= ptr + n
    BY <1>3, <1>4, <2>2 DEF s, len
  <2> QED
    BY <1>5, <2>1, <2>2
<1>9. Needed'
  <2>1. v \in Extent(s)
    <3>1. ptr + 1 \in 1 .. len /\ (ptr + 1) - 1 = ptr
      BY <1>1
    <3>2. At(s, ptr + 1) = v
      BY <1>1, <3>1 DEF At
    <3> QED
      BY <3>1, <3>2 DEF Extent, len
  <2>2. Key(v) \in {Key(a) : a \in UNION {Extent(file.segments[i]) : i \in Loadable(file)}}
    BY <1>1, <2>1 DEF s
  <2> QED
    BY <1>3, <2>2 DEF IInv, Needed
<1>10. BytesThere'
  <2> SUFFICES ASSUME Ascending(file), NEW i \in Loadable(file),
                      NEW j \in 1 .. Len(file.segments[i].data), Copied(i, j)'
               PROVE  SparseRead8(page', At(file.segments[i], j)) = file.segments[i].data[j]
    BY DEF BytesThere, Ascending, Loadable
  <2> DEFINE t == file.segments[i]
             x == At(t, j)
  <2>1. x \in Word
    BY PlusType DEF At
  <2>2. CASE Copied(i, j)
    <3>1. /\ i \in Nat /\ t.address \in Word /\ Len(t.data) \in Nat
          /\ ToNat(t.address) \in Nat /\ ToNat(s.address) \in Nat /\ 2^XLEN \in Nat
      <4>1. i \in Nat /\ t.address \in Word /\ Len(t.data) \in Nat
        BY <1>2, FileType DEF Loadable
      <4> HIDE DEF t
      <4> QED
        BY <1>1, <4>1, WordValues
    <3>2. /\ ToNat(t.address) + Len(t.data) <= 2^XLEN /\ ToNat(s.address) + len <= 2^XLEN
          /\ i < seg => ToNat(t.address) + Len(t.data) <= ToNat(s.address)
      BY <1>1 DEF Ascending, s, len
    <3>3. ToNat(x) = ToNat(t.address) + (j - 1)
      <4>1. j - 1 \in Nat /\ ToNat(t.address) + (j - 1) < 2^XLEN
        BY <3>1, <3>2
      <4> QED
        BY <3>1, <4>1, PlusValue DEF At
    <3>4. ToNat(v) = ToNat(s.address) + ptr
      <4>1. ToNat(s.address) + ptr < 2^XLEN
        BY <1>1, <3>1, <3>2
      <4> QED
        BY <1>1, <4>1, PlusValue
    <3>5. ToNat(x) < ToNat(v)
      <4>1. CASE i < seg
        <5>1. j - 1 \in Nat /\ j - 1 < Len(t.data)
          BY <3>1
        <5>2. ToNat(t.address) + Len(t.data) <= ToNat(s.address) /\ ptr \in Nat
          BY <1>1, <3>2, <4>1
        <5> HIDE DEF x, t
        <5> QED
          BY <3>1, <3>3, <3>4, <5>1, <5>2
      <4>2. CASE i = seg /\ j <= ptr
        <5>1. ToNat(t.address) = ToNat(s.address)
          BY <4>2, Zenon DEF s
        <5>2. j \in Nat /\ j - 1 < ptr
          BY <1>1, <3>1, <4>2
        <5> HIDE DEF x, t
        <5> QED
          BY <1>1, <3>1, <3>3, <3>4, <5>1, <5>2
      <4> QED
        BY <2>2, <4>1, <4>2 DEF Copied
    <3>6. Key(x) = Key(v) => ToNat(Slot(x)) < off
      <4>1. /\ ToNat(x) = ToNat(Key(x)) + ToNat(Slot(x)) /\ ToNat(v) = ToNat(Key(v)) + off
            /\ ToNat(Slot(x)) \in Nat
        BY <1>1, <2>1, KeyAndSlot, PageValues DEF off
      <4>2. Key(v) \in Word /\ ToNat(Key(v)) \in Nat
        BY <1>1, WordValues DEF Key, Word
      <4>3. ASSUME Key(x) = Key(v) PROVE ToNat(Key(x)) = ToNat(Key(v))
        BY <4>3, Zenon
      <4> QED
        BY <1>1, <3>5, <4>1, <4>2, <4>3
    <3>7. SparseRead8(page', x) = SparseRead8(page, x)
      BY <1>3, <2>1, <3>6
    <3>8. SparseRead8(page, x) = t.data[j]
      BY <2>2 DEF IInv, BytesThere
    <3> QED
      BY <3>7, <3>8
  <2>3. CASE i = seg /\ ptr < j /\ j <= ptr + n
    <3>1. Key(x) = Key(v) /\ ToNat(Slot(x)) = off + (j - 1 - ptr) /\ j \in 1 .. len
      BY <1>4, <2>3 DEF s, len
    <3>2. ptr + 1 + ToNat(Slot(x)) - off = j /\ ~(ToNat(Slot(x)) < off)
      BY <1>1, <2>3, <3>1
    <3>3. j <= len
      BY <3>1
    <3> HIDE DEF x
    <3>4. SparseRead8(page', x) = s.data[j]
      BY <1>3, <2>1, <3>1, <3>2, <3>3
    <3> QED
      BY <2>3, <3>4 DEF x, s
  <2> QED
    BY <1>5, <2>2, <2>3
<1> QED
  BY <1>6, <1>7, <1>8, <1>9, <1>10 DEF IInv

\* WritePage copies a page, or the process ends behind the data.
LEMMA WritePageInv == IInv /\ WritePage => IInv'
<1> SUFFICES ASSUME IInv, WritePage PROVE IInv'
  OBVIOUS
<1> DEFINE data == file.segments[seg].data
           n    == page_end(virt_addr)
           over == {o \in PageOffset : size_in_bytes - n < 0
                                         /\ ToNat(o) >= page_size + size_in_bytes - n}
<1>1. stage = "write" /\ more(size_in_bytes) /\ UNCHANGED <<mtime, mtimecmp, file, seg>>
  BY DEF WritePage
<1>2. CASE /\ stage' = "crashed"
           /\ UNCHANGED <<page, writeVars>>
  <2>1. \A i \in Loadable(file) : \A j \in 1 .. Len(file.segments[i].data) :
          Copied(i, j)' => Copied(i, j)
    BY <1>1, <1>2 DEF Copied
  <2>2. MemTypeOK' /\ Present' /\ Needed' /\ BytesThere'
    BY <1>1, <1>2, <2>1, Kept
  <2>3. LoadTypeOK' /\ Located'
    BY <1>1, <1>2, <2>2 DEF IInv, LoadTypeOK, Located, writeVars, Ends
  <2> QED
    BY <2>2, <2>3 DEF IInv
<1>3. CASE /\ \E junk \in [over -> Junk] : page' = AfterCopy(page, virt_addr, data, ptr, junk)
           /\ ptr' = ptr + n
           /\ size_in_bytes' = size_in_bytes - n
           /\ virt_addr' = Plus(virt_addr, n)
           /\ UNCHANGED stage
  <2>1. PICK junk \in [over -> Junk] : page' = AfterCopy(page, virt_addr, data, ptr, junk)
    BY <1>3
  <2>2. Readable(virt_addr, data, ptr, junk)
    <3> SUFFICES ASSUME NEW o \in PageOffset,
                        ptr + 1 + ToNat(o) - ToNat(Slot(virt_addr)) > Len(data)
                 PROVE  junk[o] \in Byte
      BY DEF Readable
    <3>1. /\ Len(data) \in Nat /\ ptr \in Nat /\ size_in_bytes = Len(data) - ptr
          /\ page_size \in Nat /\ ToNat(Slot(virt_addr)) \in Nat
          /\ n = page_size - ToNat(Slot(virt_addr)) /\ n \in Nat
      BY <1>1, InWrite
    <3>2. ToNat(o) \in Nat /\ ToNat(o) < page_size
      BY PageValues DEF page_size
    <3> HIDE DEF data, n
    <3>3. size_in_bytes - n < 0 /\ ToNat(o) >= page_size + size_in_bytes - n
      BY <3>1, <3>2
    <3>4. o \in over
      BY <3>3
    <3> QED
      BY <3>4, LoaderAssumption
  <2> QED
    BY <1>1, <1>3, <2>1, <2>2, CopyInv
<1> QED
  BY <1>2, <1>3 DEF WritePage, AfterCopy

\* Every step of the loader keeps the invariant.
LEMMA NextInv == IInv /\ [LoadNext]_loadVars => IInv'
<1> SUFFICES ASSUME IInv, [LoadNext]_loadVars PROVE IInv'
  OBVIOUS
<1>0. /\ file \in Files /\ seg \in 1 .. Len(file.segments) + 1 /\ Len(file.segments) \in Nat
      /\ DOMAIN file.segments = 1 .. Len(file.segments)
      /\ \A i \in Loadable(file) : i \in 1 .. Len(file.segments)
  BY FileType DEF IInv, LoadTypeOK, Loadable
<1>1. CASE Open \/ Dump
  <2>1. /\ UNCHANGED <<page, mtime, mtimecmp, file, seg, writeVars>>
        /\ stage # "write" /\ stage' \in {"load", "failed", "dumped"}
    BY <1>1 DEF Open, Dump, memVars
  <2>2. \A i \in Loadable(file) : \A j \in 1 .. Len(file.segments[i].data) :
          Copied(i, j)' => Copied(i, j)
    BY <2>1 DEF Copied
  <2>3. MemTypeOK' /\ Present' /\ Needed' /\ BytesThere'
    BY <2>1, <2>2, Kept
  <2>4. LoadTypeOK' /\ Located'
    BY <2>1, <2>3 DEF IInv, LoadTypeOK, Located, writeVars, Ends
  <2> QED
    BY <2>3, <2>4 DEF IInv
<1>2. CASE LoadSegment
  <2> DEFINE s == file.segments[seg]
  <2>1. /\ UNCHANGED <<page, mtime, mtimecmp, file>> /\ stage = "load" /\ seg \in DOMAIN file.segments
        /\ \/ /\ s.type = "PT_LOAD" /\ stage' = "write" /\ virt_addr' = s.address /\ ptr' = 0
              /\ size_in_bytes' = Len(s.data) /\ seg' = seg
           \/ /\ s.type # "PT_LOAD" /\ seg' = seg + 1
              /\ UNCHANGED <<stage, writeVars>>
    BY <1>2 DEF LoadSegment, memVars
  <2>2. s.address \in Word /\ Len(s.data) \in Nat /\ Plus(s.address, 0) = s.address
    <3>1. s.address \in Word /\ Len(s.data) \in Nat
      BY <1>0, <2>1, FileType
    <3>2. 0 \in Nat
      OBVIOUS
    <3> QED
      BY <3>1, <3>2, PlusValue
  <2>3. \A i \in Loadable(file) : \A j \in 1 .. Len(file.segments[i].data) :
          Copied(i, j)' => Copied(i, j)
    <3> SUFFICES ASSUME NEW i \in Loadable(file), NEW j \in 1 .. Len(file.segments[i].data),
                        Copied(i, j)'
                 PROVE  i < seg
      BY DEF Copied
    <3>1. j > 0 /\ i \in Nat /\ seg \in Nat /\ file.segments[i].type = "PT_LOAD"
      BY <1>0, FileType DEF Loadable
    <3>2. CASE s.type = "PT_LOAD" /\ stage' = "write" /\ ptr' = 0 /\ seg' = seg
      <4>1. ~(j <= 0)
        BY <1>0, <3>1, FileType DEF Loadable
      <4> QED
        BY <3>2, <4>1 DEF Copied
    <3>3. CASE s.type # "PT_LOAD" /\ seg' = seg + 1 /\ stage' = "load"
      <4>1. i # seg /\ i < seg + 1
        BY <3>1, <3>3 DEF Copied
      <4> QED
        BY <3>1, <4>1
    <3> QED
      BY <2>1, <3>2, <3>3
  <2>4. MemTypeOK' /\ Present' /\ Needed' /\ BytesThere'
    BY <2>1, <2>3, Kept
  <2>5. CASE s.type = "PT_LOAD" /\ stage' = "write" /\ virt_addr' = s.address /\ ptr' = 0
               /\ size_in_bytes' = Len(s.data) /\ seg' = seg
    <3>1. LoadTypeOK'
      BY <2>1, <2>2, <2>4, <2>5 DEF IInv, LoadTypeOK
    <3>2. Located'
      BY <2>1, <2>2, <2>5 DEF Located, Loadable
    <3> QED
      BY <2>4, <3>1, <3>2 DEF IInv
  <2>6. CASE s.type # "PT_LOAD" /\ seg' = seg + 1 /\ UNCHANGED <<stage, writeVars>>
    <3>1. seg + 1 \in 1 .. Len(file.segments) + 1
      BY <1>0, <2>1
    <3>2. LoadTypeOK' /\ Located'
      BY <2>1, <2>4, <2>6, <3>1 DEF IInv, LoadTypeOK, Located, writeVars
    <3> QED
      BY <2>4, <3>2 DEF IInv
  <2> QED
    BY <2>1, <2>5, <2>6
<1>3. CASE WritePage
  BY <1>3, WritePageInv
<1>4. CASE WriteReturns
  <2> DEFINE s == file.segments[seg]
  <2>1. /\ UNCHANGED <<page, mtime, mtimecmp, file, writeVars>> /\ stage = "write"
        /\ ~(size_in_bytes > 0) /\ stage' = "load" /\ seg' = seg + 1
    BY <1>4 DEF WriteReturns, memVars, more
  <2>2. /\ seg \in Loadable(file) /\ size_in_bytes = Len(s.data) - ptr /\ ptr \in Nat
        /\ Len(s.data) \in Nat
    <3>1. seg \in Loadable(file) /\ size_in_bytes = Len(s.data) - ptr /\ ptr \in Nat
      BY <2>1 DEF IInv, Located, LoadTypeOK
    <3> QED
      BY <1>0, <3>1, FileType DEF Loadable
  <2>3. \A i \in Loadable(file) : \A j \in 1 .. Len(file.segments[i].data) :
          Copied(i, j)' => Copied(i, j)
    <3> SUFFICES ASSUME NEW i \in Loadable(file), NEW j \in 1 .. Len(file.segments[i].data),
                        Copied(i, j)'
                 PROVE  Copied(i, j)
      OBVIOUS
    <3>1. i < seg + 1 /\ i \in Nat /\ seg \in Nat
      BY <1>0, <2>1 DEF Copied
    <3>2. CASE i < seg
      BY <3>2 DEF Copied
    <3>3. CASE i = seg
      <4>1. j \in 1 .. Len(s.data)
        BY <3>3
      <4> HIDE DEF s
      <4>2. j <= ptr
        BY <2>1, <2>2, <4>1
      <4> QED
        BY <2>1, <3>3, <4>2 DEF Copied
    <3> QED
      BY <3>1, <3>2, <3>3
  <2>4. MemTypeOK' /\ Present' /\ Needed' /\ BytesThere'
    BY <2>1, <2>3, Kept
  <2>5. seg + 1 \in 1 .. Len(file.segments) + 1
    BY <1>0, <2>2
  <2>6. LoadTypeOK' /\ Located'
    BY <2>1, <2>4, <2>5 DEF IInv, LoadTypeOK, Located, writeVars
  <2> QED
    BY <2>4, <2>6 DEF IInv
<1>5. CASE Construct
  <2>1. /\ UNCHANGED <<page, mtime, mtimecmp, file, seg, writeVars>> /\ stage = "load"
        /\ seg \notin DOMAIN file.segments /\ stage' \in {"ready", "failed", "crashed"}
    BY <1>5 DEF Construct, memVars
  <2>2. \A i \in Loadable(file) : \A j \in 1 .. Len(file.segments[i].data) :
          Copied(i, j)' => Copied(i, j)
    BY <2>1 DEF Copied
  <2>3. MemTypeOK' /\ Present' /\ Needed' /\ BytesThere'
    BY <2>1, <2>2, Kept
  <2>4. seg = Len(file.segments) + 1
    BY <1>0, <2>1
  <2>5. LoadTypeOK' /\ Located'
    BY <2>1, <2>3, <2>4 DEF IInv, LoadTypeOK, Located, writeVars, Ends
  <2> QED
    BY <2>3, <2>5 DEF IInv
<1>6. CASE UNCHANGED loadVars
  <2>1. UNCHANGED <<page, mtime, mtimecmp, file, stage, seg, virt_addr, ptr, size_in_bytes>>
    BY <1>6 DEF loadVars
  <2>2. \A i \in Loadable(file) : \A j \in 1 .. Len(file.segments[i].data) :
          Copied(i, j)' => Copied(i, j)
    BY <2>1 DEF Copied
  <2>3. MemTypeOK' /\ Present' /\ Needed' /\ BytesThere'
    BY <2>1, <2>2, Kept
  <2>4. LoadTypeOK' /\ Located'
    BY <2>1, <2>3 DEF IInv, LoadTypeOK, Located
  <2> QED
    BY <2>3, <2>4 DEF IInv
<1> QED
  BY <1>1, <1>2, <1>3, <1>4, <1>5, <1>6 DEF LoadNext

-----------------------------------------------------------------------------
(* The theorems.                                                           *)

\* The invariant holds throughout the loading of any target file.
THEOREM LoaderInvariant == LoadSpec => []IInv
  BY InitInv, NextInv, PTL DEF LoadSpec

\* write()'s locals stay in range and the page map well formed, for any target
\* file and page size.
THEOREM LoaderTypeCorrect == LoadSpec => []LoadTypeOK
<1>1. IInv => LoadTypeOK
  BY DEF IInv
<1> QED
  BY <1>1, LoaderInvariant, PTL

\* The bytes of every segment that has been copied are in memory, although each
\* copy of write() runs on to the end of its page: an ascending file overwrites
\* no byte that it has put in place.
THEOREM LoaderSegmentsLoaded == LoadSpec => []SegmentsLoaded
<1>1. IInv => SegmentsLoaded
  BY DEF IInv, BytesThere, Copied, SegmentsLoaded
<1> QED
  BY <1>1, LoaderInvariant, PTL

\* The pages that exist hold a byte of the file, and when the model has been
\* constructed every page that holds one exists.
THEOREM LoaderFootprint == LoadSpec => []Footprint
<1>1. ASSUME IInv PROVE Footprint
  <2> DEFINE P == {Key(a) : a \in UNION {Extent(file.segments[i]) : i \in Loadable(file)}}
  <2>1. DOMAIN page \subseteq P
    BY <1>1 DEF IInv, Needed
  <2>2. ASSUME stage = "ready" PROVE P \subseteq DOMAIN page
    <3> SUFFICES ASSUME NEW i \in Loadable(file), NEW a \in Extent(file.segments[i])
                 PROVE  Key(a) \in DOMAIN page
      OBVIOUS
    <3>1. PICK j \in 1 .. Len(file.segments[i].data) : a = At(file.segments[i], j)
      BY DEF Extent
    <3>2. i < seg
      BY <1>1, <2>2, FileType DEF IInv, LoadTypeOK, Located, Loadable
    <3> QED
      BY <1>1, <3>1, <3>2 DEF IInv, Present, Copied
  <2> QED
    BY <2>1, <2>2 DEF Footprint
<1> QED
  BY <1>1, LoaderInvariant, PTL

\* A copy that ends where the segment's data ends in a page of its own does not
\* read behind them.
LEMMA CopyInside ==
  ASSUME IInv, stage = "write", more(size_in_bytes),
         Slot(Plus(file.segments[seg].address, Len(file.segments[seg].data))) = {}
  PROVE  size_in_bytes >= page_end(virt_addr)
<1> DEFINE s == file.segments[seg]
           v == virt_addr
           k == size_in_bytes
           off == ToNat(Slot(v))
<1>1. /\ s.address \in Word /\ Len(s.data) \in Nat /\ ptr \in Nat /\ ptr < Len(s.data)
      /\ k = Len(s.data) - ptr /\ v \in Word /\ v = Plus(s.address, ptr)
      /\ page_size \in Nat /\ off \in Nat /\ page_end(v) = page_size - off
  BY InWrite
<1>2. k \in Nat /\ k > 0 /\ ptr + k = Len(s.data)
  BY <1>1
<1> HIDE DEF s, v, k
<1>3. Plus(v, k) = Plus(s.address, Len(s.data))
  <2>1. Plus(Plus(s.address, ptr), k) = Plus(s.address, ptr + k)
    BY <1>1, <1>2, PlusPlus
  <2> QED
    BY <1>1, <1>2, <2>1
<1>4. ASSUME off + k < page_size PROVE FALSE
  <2>1. ToNat(Slot(Plus(v, k))) = off + k
    BY <1>1, <1>2, <1>4, PageValues DEF page_size
  <2>2. Slot(Plus(v, k)) = {}
    BY <1>3 DEF s
  <2>3. ToNat({}) = 0
    <3>1. {} \in BitSets
      BY <2>2, KeyAndSlot, PageValues, PlusType
    <3> QED
      BY <3>1, SumFirst, Zenon
  <2>4. off + k = 0
    BY <2>1, <2>2, <2>3, Zenon
  <2> HIDE DEF off
  <2> QED
    BY <1>1, <1>2, <2>4
<1>5. k >= page_end(v)
  BY <1>1, <1>2, <1>4
<1> QED
  BY <1>5 DEF v, k

\* The loader reads behind a segment's data, and may crash, only where a segment
\* ends inside a page; for any target file and page size.
THEOREM LoaderOverreadExplained == LoadSpec => []OverreadExplained
<1>1. LoadInit => OverreadExplained
  BY DEF LoadInit, OverreadExplained
<1>2. IInv /\ OverreadExplained /\ [LoadNext]_loadVars => OverreadExplained'
  <2> SUFFICES ASSUME IInv, OverreadExplained, [LoadNext]_loadVars PROVE OverreadExplained'
    OBVIOUS
  <2>1. CASE stage' # "crashed"
    BY <2>1 DEF OverreadExplained
  <2>2. CASE stage' = "crashed" /\ stage = "crashed"
    <3>1. file' = file
      BY <2>2 DEF LoadNext, Open, Dump, LoadSegment, WritePage, WriteReturns, Construct, loadVars
    <3> QED
      BY <2>2, <3>1 DEF OverreadExplained, Loadable
  <2>3. CASE stage' = "crashed" /\ stage = "write"
    <3> DEFINE s == file.segments[seg]
    <3>1. WritePage /\ file' = file /\ more(size_in_bytes)
      BY <2>3 DEF LoadNext, Open, Dump, LoadSegment, WritePage, WriteReturns, Construct, loadVars
    <3>2. ~(size_in_bytes >= page_end(virt_addr))
      <4>1. size_in_bytes \in Int /\ page_end(virt_addr) \in Int
        BY <2>3, <3>1, InWrite DEF IInv, LoadTypeOK
      <4>2. size_in_bytes - page_end(virt_addr) < 0
        BY <2>3, <3>1 DEF WritePage
      <4> QED
        BY <4>1, <4>2
    <3>3. Slot(Plus(s.address, Len(s.data))) # {}
      BY <2>3, <3>1, <3>2, CopyInside
    <3>4. seg \in Loadable(file) /\ s.data # <<>>
      BY <2>3, <3>1, InWrite
    <3> QED
      BY <3>1, <3>3, <3>4 DEF OverreadExplained, Loadable
  <2>4. CASE stage' = "crashed" /\ stage \notin {"crashed", "write"}
    <3>1. Construct /\ file' = file
      BY <2>4 DEF LoadNext, Open, Dump, LoadSegment, WritePage, WriteReturns, Construct, loadVars
    <3>2. ~file.symtab
      BY <2>4, <3>1 DEF Construct
    <3> QED
      BY <3>1, <3>2 DEF OverreadExplained
  <2> QED
    BY <2>1, <2>2, <2>3, <2>4
<1> QED
  BY <1>1, <1>2, LoaderInvariant, PTL DEF LoadSpec

\* What Hart assumes of the state in which the loader leaves the process: the
\* page map is one of its images, the devices are as at reset, and the entry
\* point and the address of tohost are words.
HandsOver ==
  stage = "ready" =>
    /\ IsPageMap(page) /\ MemInit
    /\ file.entry \in Word /\ file.tohost \subseteq Word /\ file.tohost # {}

\* Whatever file is loaded, the constructed model starts as Hart assumes.
THEOREM LoaderMeetsHart == LoadSpec => []HandsOver
<1> DEFINE J == MemInit /\ (stage = "ready" => file.tohost # {})
<1>1. LoadInit => J
  BY DEF LoadInit
<1>2. J /\ [LoadNext]_loadVars => J'
  BY DEF LoadNext, Open, Dump, LoadSegment, WritePage, WriteReturns, Construct, loadVars,
         memVars, MemInit
<1>3. IInv /\ J => HandsOver
  <2> SUFFICES ASSUME IInv, J PROVE HandsOver
    OBVIOUS
  <2>1. file.entry \in Word /\ file.tohost \subseteq Word
    BY LoaderAssumption DEF IInv, LoadTypeOK, File
  <2> QED
    BY <2>1 DEF IInv, LoadTypeOK, MemTypeOK, HandsOver
<1> HIDE DEF J
<1> QED
  BY <1>1, <1>2, <1>3, LoaderInvariant, PTL DEF LoadSpec

\* The last address of a section that is not empty, computed in twice the
\* width, is exact, and so are the comparisons with it.
LEMMA SectionEnd ==
  ASSUME NEW b \in Word, NEW size \in Size, size > 0, NEW a \in Word
  PROVE  LET last == ToDouble(ToNat(b) + size - 1)
         IN  ~Below(a, b) /\ ~Below(last, a) <=> ToNat(a) - ToNat(b) \in 0 .. size - 1
<1> DEFINE last == ToDouble(ToNat(b) + size - 1)
           m    == ToNat(b) + size - 1
           M    == 2^XLEN
           k    == 2 * XLEN
           A    == ToNat(a)
           B    == ToNat(b)
<1>1. M \in Nat /\ M > 0 /\ A \in Nat /\ A < M /\ B \in Nat /\ B < M /\ (Below(a, b) <=> A < B)
  BY WordValues
<1>2. XLEN \in Nat /\ k \in Nat /\ XLEN < k
  BY XLENAssumption
<1>3. size \in Nat /\ size < M
  BY <1>1 DEF Size
<1>4. m \in Nat /\ m < 2 * M
  <2> HIDE DEF M, B
  <2>1. B + size - 1 \in Nat /\ B + size - 1 < 2 * M
    BY <1>1, <1>3
  <2> QED
    BY <2>1 DEF B
<1>5. 2 * M <= 2^k /\ 2^k \in Nat /\ 2^k > 0
  BY <1>2, PowerMonotone, Power
<1> HIDE DEF M, k
<1>6. m < 2^k
  <2> HIDE DEF m
  <2> QED
    BY <1>1, <1>4, <1>5
<1>7. last = LowBits(m, k)
  BY DEF ToDouble, LowBits, k
<1>8. last \in SUBSET (0 .. (k - 1))
  BY DEF ToDouble, k
<1> HIDE DEF last
<1>9. ToNat(last) = m
  <2> HIDE DEF m
  <2>1. ToNat(LowBits(m, k)) = m % 2^k
    BY <1>2, <1>4, LowBitsValue
  <2>2. m % 2^k = m
    BY <1>4, <1>5, <1>6
  <2> QED
    BY <1>7, <2>1, <2>2, Zenon
<1>10. a \in SUBSET (0 .. (k - 1))
  BY <1>2 DEF Word, BitPos, k
<1>11. Below(last, a) <=> ToNat(last) < A
  BY <1>2, <1>8, <1>10, BelowExact
<1>12. Below(last, a) <=> m < A
  BY <1>9, <1>11, Zenon
<1>13. ~Below(a, b) /\ ~Below(last, a) <=> A - B \in 0 .. size - 1
  <2>1. m = B + size - 1
    OBVIOUS
  <2> HIDE DEF m, A, B
  <2> QED
    BY <1>1, <1>3, <1>12, <2>1
<1> QED
  BY <1>13 DEF last

\* is_valid_pc() is exact: the ranges that progbit_ranges() takes from a file
\* hold an address exactly when it lies inside an executable section.
THEOREM LoaderExecutableExact == LoadSpec => []ExecutableExact
<1>1. ASSUME IInv PROVE ExecutableExact
  <2>1. file \in File
    BY <1>1, LoaderAssumption DEF IInv, LoadTypeOK
  <2>2. \A i \in DOMAIN file.sections : file.sections[i] \in Section
    BY <2>1 DEF File
  <2>3. ASSUME NEW i \in DOMAIN file.sections, NEW a \in Word
        PROVE  LET s == file.sections[i]
               IN  /\ s.size \in Nat
                   /\ s.size > 0 =>
                       (~Below(a, s.address) /\ ~Below(ToDouble(ToNat(s.address) + s.size - 1), a)
                          <=> ToNat(a) - ToNat(s.address) \in 0 .. s.size - 1)
                   /\ ToNat(a) - ToNat(s.address) \in Int
    <3> DEFINE s == file.sections[i]
    <3>1. s.address \in Word /\ s.size \in Size
      BY <2>2 DEF Section
    <3> HIDE DEF s
    <3>2. s.size \in Nat /\ ToNat(a) - ToNat(s.address) \in Int
      BY <3>1, WordValues DEF Size
    <3>3. s.size > 0 =>
            (~Below(a, s.address) /\ ~Below(ToDouble(ToNat(s.address) + s.size - 1), a)
               <=> ToNat(a) - ToNat(s.address) \in 0 .. s.size - 1)
      BY <3>1, SectionEnd
    <3> QED
      BY <3>2, <3>3 DEF s
  <2>4. ASSUME NEW a \in Word, NEW r \in progbit_ranges(file), ~Below(a, r[1]), ~Below(r[2], a)
        PROVE  \E i \in DOMAIN file.sections : LET s == file.sections[i] IN
                 /\ s.type = "SHT_PROGBITS" /\ s.exec
                 /\ ToNat(a) - ToNat(s.address) \in 0 .. s.size - 1
    <3>1. PICK i \in DOMAIN file.sections :
            /\ is_executable(file.sections[i])
            /\ r = <<file.sections[i].address,
                     ToDouble(ToNat(file.sections[i].address) + file.sections[i].size - 1)>>
      BY <2>4 DEF progbit_ranges
    <3>2. ToNat(a) - ToNat(file.sections[i].address) \in 0 .. file.sections[i].size - 1
      BY <2>3, <2>4, <3>1 DEF is_executable
    <3> QED
      BY <3>1, <3>2 DEF is_executable
  <2>5. ASSUME NEW a \in Word, NEW i \in DOMAIN file.sections,
               file.sections[i].type = "SHT_PROGBITS", file.sections[i].exec,
               ToNat(a) - ToNat(file.sections[i].address) \in 0 .. file.sections[i].size - 1
        PROVE  \E r \in progbit_ranges(file) : ~Below(a, r[1]) /\ ~Below(r[2], a)
    <3> DEFINE s == file.sections[i]
               r == <<s.address, ToDouble(ToNat(s.address) + s.size - 1)>>
    <3>1. s.size > 0
      BY <2>3, <2>5
    <3>2. r \in progbit_ranges(file)
      BY <2>5, <3>1 DEF progbit_ranges, is_executable
    <3>3. ~Below(a, s.address) /\ ~Below(ToDouble(ToNat(s.address) + s.size - 1), a)
      BY <2>3, <2>5, <3>1
    <3>4. r[1] = s.address /\ r[2] = ToDouble(ToNat(s.address) + s.size - 1)
      OBVIOUS
    <3> HIDE DEF r, s
    <3> QED
      BY <3>2, <3>3, <3>4
  <2> QED
    BY <2>4, <2>5, Zenon DEF ExecutableExact
<1> QED
  BY <1>1, LoaderInvariant, PTL
=============================================================================
