------------------------------- MODULE Loader -------------------------------
(***************************************************************************)
(* From the target file to the first instruction: the constructors of      *)
(* loader and iss::model as run() calls them.  ELFIO is external: a file   *)
(* is the record of what its reader answers.  Each segment is copied by    *)
(* sparse_memory_accessor_base::write(), one page per iteration; an        *)
(* iteration always copies up to the end of the page, and so reads beyond  *)
(* the end of the segment's data.                                          *)
(***************************************************************************)
EXTENDS AddressRouter, Sequences

CONSTANTS
  Files,        \* the targets that may be given
  Junk          \* the bytes that may lie behind a segment's data on the heap

VARIABLES
  file,                              \* loader::reader
  stage,                             \* where run() is, or how it ended
  seg,                               \* position in reader.segments
  virt_addr, ptr, size_in_bytes      \* parameters and locals of write()

writeVars == <<virt_addr, ptr, size_in_bytes>>
loadVars  == <<page, mtime, mtimecmp, file, stage, seg, virt_addr, ptr, size_in_bytes>>

\* The memory size of a segment and the size of a section are words.
Size    == 0 .. 2^XLEN - 1
Segment == [type : {"PT_LOAD", "other"}, address : Word, data : Seq(Byte), memory_size : Size]
Section == [type : {"SHT_PROGBITS", "other"}, exec : BOOLEAN, address : Word, size : Size]

\* What the reader answers; tohost has the value of the tohost symbol, if there
\* is one, and symtab says whether there is a section .symtab at all.
File == [loads : BOOLEAN, class : {"ELFCLASS32", "other"}, machine : {"EM_RISCV", "other"},
         segments : Seq(Segment), sections : Seq(Section),
         symtab : BOOLEAN, tohost : SUBSET Word, entry : Word]

ASSUME LoaderAssumption ==
  /\ \A f \in Files : f \in File
  /\ Junk \subseteq Byte /\ Junk # {}

Ends == {"failed", "dumped", "crashed", "ready"}

LoadInit ==
  /\ page = [k \in {} |-> {}] /\ MemInit
  /\ file \in Files
  /\ stage \in {"open", "dump"} /\ seg = 1       \* "dump": with --dump
  /\ virt_addr = {} /\ ptr = 0 /\ size_in_bytes = 0

-----------------------------------------------------------------------------

\* loader(file_name): each test throws, and nobody catches.
Acceptable(f) ==
  f.loads /\ f.class = "ELFCLASS32" /\ f.machine = "EM_RISCV" /\ f.segments # <<>>

Open ==
  /\ stage = "open"
  /\ stage' = IF Acceptable(file) THEN "load" ELSE "failed"
  /\ UNCHANGED <<memVars, file, seg, writeVars>>

\* With --dump run() prints the file and exits.
Dump ==
  /\ stage = "dump"
  /\ stage' = IF Acceptable(file) THEN "dumped" ELSE "failed"
  /\ UNCHANGED <<memVars, file, seg, writeVars>>

\* Mutant of LoadSegment: a segment of another type is not stepped over.
LoadSegment_Stuck ==
  LET s == file.segments[seg]
  IN  /\ stage = "load" /\ seg \in DOMAIN file.segments /\ s.type = "PT_LOAD"
      /\ stage' = "write" /\ virt_addr' = s.address /\ ptr' = 0 /\ size_in_bytes' = Len(s.data)
      /\ UNCHANGED <<memVars, file, seg>>

\* The body of the loop over the segments: mem.write() of what the file holds.
LoadSegment ==
  LET s == file.segments[seg]
  IN  /\ stage = "load" /\ seg \in DOMAIN file.segments
      /\ \/ /\ s.type = "PT_LOAD"
            /\ stage' = "write" /\ virt_addr' = s.address /\ ptr' = 0
            /\ size_in_bytes' = Len(s.data)
            /\ UNCHANGED seg
         \/ /\ s.type # "PT_LOAD"
            /\ seg' = seg + 1
            /\ UNCHANGED <<stage, writeVars>>
      /\ UNCHANGED <<memVars, file>>

page_size == 2^PageBits

\* Mutant of page_end: a whole page, whatever the offset in it.
page_end_Whole(a) == page_size

page_end(a) == page_size - ToNat(Slot(a))

\* Mutant of more: the loop runs once more when a segment ends with its page.
more_OneMore(size) == size >= 0

\* size_in_bytes > 0
more(size) == size > 0

\* The page with n bytes from slot off on replaced by what lies at ptr: the
\* segment's data, then whatever follows it in memory.
write_block(pg, off, data, from, junk) ==
  [o \in PageOffset |->
     LET i == from + 1 + ToNat(o) - ToNat(off)
     IN  IF ToNat(o) < ToNat(off) THEN pg[o]
         ELSE IF i <= Len(data) THEN data[i] ELSE junk[o]]

\* One iteration of write().  Reading behind the data is undefined: the bytes
\* there are arbitrary, or not readable at all.
WritePage ==
  LET data == file.segments[seg].data
      n    == page_end(virt_addr)
      key  == Key(virt_addr)
      over == {o \in PageOffset : size_in_bytes - n < 0 /\ ToNat(o) >= page_size + size_in_bytes - n}
      p    == ensure_page_exists(page, virt_addr)
  IN  /\ stage = "write" /\ more(size_in_bytes)
      /\ \/ /\ \E junk \in [over -> Junk] :
                 page' = [p EXCEPT ![key] = write_block(@, Slot(virt_addr), data, ptr, junk)]
            /\ ptr' = ptr + n
            /\ size_in_bytes' = size_in_bytes - n
            /\ virt_addr' = Plus(virt_addr, n)
            /\ UNCHANGED stage
         \/ /\ over # {}
            /\ stage' = "crashed"
            /\ UNCHANGED <<page, writeVars>>
      /\ UNCHANGED <<mtime, mtimecmp, file, seg>>

WriteReturns ==
  /\ stage = "write" /\ ~more(size_in_bytes)
  /\ stage' = "load" /\ seg' = seg + 1
  /\ UNCHANGED <<memVars, file, writeVars>>

\* uint64_t addresses: start + size - 1 in twice the width.
ToDouble(n) == {i \in 0 .. (2 * XLEN - 1) : (n \div 2^i) % 2 = 1}

\* Mutant of is_executable: empty sections are taken as well.
is_executable_Empty(s) == s.type = "SHT_PROGBITS" /\ s.exec

is_executable(s) == s.type = "SHT_PROGBITS" /\ s.exec /\ s.size > 0

progbit_ranges(f) ==
  {<<f.sections[i].address, ToDouble(ToNat(f.sections[i].address) + f.sections[i].size - 1)>> :
     i \in {j \in DOMAIN f.sections : is_executable(f.sections[j])}}

\* The constructor of the model, after the last segment: entry() and
\* progbit_ranges() only read the file; symbol() throws when the name is not
\* found, and ELFIO dereferences a null pointer when there is no table.
Construct ==
  /\ stage = "load" /\ seg \notin DOMAIN file.segments
  /\ \/ file.symtab /\ file.tohost # {} /\ stage' = "ready"
     \/ file.symtab /\ file.tohost = {} /\ stage' = "failed"
     \/ ~file.symtab /\ stage' \in {"failed", "crashed"}
  /\ UNCHANGED <<memVars, file, seg, writeVars>>

LoadNext == Open \/ Dump \/ LoadSegment \/ WritePage \/ WriteReturns \/ Construct

LoadSpec == LoadInit /\ [][LoadNext]_loadVars /\ WF_loadVars(LoadNext)

-----------------------------------------------------------------------------
(* Properties.                                                             *)

\* The page map stays well formed, as iss::model expects of it, and write()'s
\* locals stay in range.
LoadTypeOK ==
  /\ MemTypeOK
  /\ file \in Files /\ stage \in {"open", "dump", "load", "write"} \cup Ends
  /\ seg \in 1 .. Len(file.segments) + 1
  /\ virt_addr \in Word /\ ptr \in Nat /\ size_in_bytes \in Int

Loadable(f) == {i \in DOMAIN f.segments : f.segments[i].type = "PT_LOAD"}

\* The addresses of the bytes a segment has in the file.
At(s, j)    == Plus(s.address, j - 1)
Extent(s)   == {At(s, j) : j \in 1 .. Len(s.data)}

\* PT_LOAD segments in ascending order, as the ELF format requires, none of
\* them past the last address.
Ascending(f) ==
  \A i, j \in Loadable(f) :
    /\ ToNat(f.segments[i].address) + Len(f.segments[i].data) <= 2^XLEN
    /\ i < j => ToNat(f.segments[i].address) + Len(f.segments[i].data)
                  <= ToNat(f.segments[j].address)

\* Every byte of every segment that has been copied is in memory, whatever the
\* over-long copies of the segments around it left in the shared pages.
SegmentsLoaded ==
  Ascending(file) =>
    \A i \in Loadable(file) : LET s == file.segments[i] IN
      i < seg => \A j \in 1 .. Len(s.data) : SparseRead8(page, At(s, j)) = s.data[j]

\* Loading touches the pages of the segments' bytes and no other: a page that
\* holds none of them is not created.
Footprint ==
  /\ DOMAIN page \subseteq {Key(a) : a \in UNION {Extent(file.segments[i]) : i \in Loadable(file)}}
  /\ stage = "ready" =>
       DOMAIN page = {Key(a) : a \in UNION {Extent(file.segments[i]) : i \in Loadable(file)}}

\* The copies of write() leave a segment's data only behind one that ends
\* inside a page: a file with a symbol table whose segments all end with a page
\* never crashes the loader, wherever in a page they start.
OverreadExplained ==
  stage = "crashed" /\ file.symtab =>
    \E i \in Loadable(file) : LET s == file.segments[i] IN
      s.data # <<>> /\ Slot(Plus(s.address, Len(s.data))) # {}

\* The executable ranges hold an address exactly when it lies inside an
\* executable section, at address 0 and at the top of memory too: this is what
\* is_valid_pc() decides from them.
ExecutableExact ==
  stage = "ready" =>
    \A a \in Word :
      (\E r \in progbit_ranges(file) : ~Below(a, r[1]) /\ ~Below(r[2], a)) <=>
      \E i \in DOMAIN file.sections : LET s == file.sections[i] IN
        /\ s.type = "SHT_PROGBITS" /\ s.exec
        /\ ToNat(a) - ToNat(s.address) \in 0 .. s.size - 1

\* Loading ends: with the model constructed, or with an error.
LoadEnds == <>(stage \in Ends)

\* Static data without an initial value is zero when the program starts: the
\* bytes of a segment's memory image that are not in the file read as zero,
\* where no other segment has them.
BssIsZero ==
  stage = "ready" /\ Ascending(file) =>
    \A i \in Loadable(file) : LET s == file.segments[i] IN
      \A j \in Len(s.data) + 1 .. s.memory_size :
        \/ \E k \in Loadable(file) : At(s, j) \in Extent(file.segments[k])
        \/ SparseRead8(page, At(s, j)) = {}
=============================================================================
