------------------------------ MODULE MCLoader ------------------------------
(* Targets for Loader: 8-bit addresses, 2-bit bytes, pages of four bytes.   *)
EXTENDS Loader

W(n) == ToWord(n)
MCMtime == W(128)
MCMtimecmp == W(136)

\* Data in which neighbouring bytes differ.
Data(n) == [i \in 1 .. n |-> IF i % 2 = 1 THEN {0} ELSE {0, 1}]
S(type, a, n, m)    == [type |-> type, address |-> W(a), data |-> Data(n), memory_size |-> m]
X(type, exec, a, n) == [type |-> type, exec |-> exec, address |-> W(a), size |-> n]

\* Text, data behind it in the same or in another page, in either order, and
\* a last segment that ends with the address space.
Text   == {S("PT_LOAD", a, n, n) : a \in {0, 1}, n \in {2, 3, 6, 7}}
Rest   == {S("PT_LOAD", a, n, n + 2) : a \in {7, 8, 10}, n \in {0, 1, 4}}
Layouts == {<<t, S("other", 2, 3, 3), r>> : t \in Text, r \in Rest}
             \cup {<<r, t>> : t \in Text, r \in Rest}
             \cup {<<t, r, S("PT_LOAD", 254, 2, 2)>> : t \in Text, r \in Rest}

Sections == {<<X("SHT_PROGBITS", TRUE, a, n), X("SHT_PROGBITS", FALSE, 8, 4), X("other", TRUE, 12, 1)>> :
               a \in {0, 1, 250}, n \in {0, 6}}

F(segs, secs) ==
  [loads |-> TRUE, class |-> "ELFCLASS32", machine |-> "EM_RISCV",
   segments |-> segs, sections |-> secs, symtab |-> TRUE, tohost |-> {W(9)}, entry |-> W(0)]

Good == F(<<S("PT_LOAD", 1, 6, 6)>>, <<X("SHT_PROGBITS", TRUE, 0, 0)>>)

MCFiles ==
  {F(l, <<X("SHT_PROGBITS", TRUE, 0, 6)>>) : l \in Layouts}
    \cup {F(Good.segments, s) : s \in Sections}
    \cup {[Good EXCEPT !.loads = FALSE], [Good EXCEPT !.class = "other"],
          [Good EXCEPT !.machine = "other"], [Good EXCEPT !.segments = <<>>],
          [Good EXCEPT !.tohost = {}], [Good EXCEPT !.symtab = FALSE, !.tohost = {}]}

MCJunk == {{}, {1}}
=============================================================================
