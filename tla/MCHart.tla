------------------------------- MODULE MCHart -------------------------------
(***************************************************************************)
(* Programs for Hart: 16-bit words of four 4-bit bytes, 16-byte pages.  An *)
(* instruction word is an index into Table, above the two low bits that    *)
(* tell compressed instructions apart.                                     *)
(***************************************************************************)
EXTENDS Hart

W(n) == ToWord(n)

MCRegs == {0, 1, 10, 17}
MCCsrs == {mstatus, mie, mip, W(3860)}        \* 0xF14: mhartid, read-only
            \cup {priv_csr(m, c) : m \in Privilege, c \in {utvec, uepc, ucause, utval}}
mtvec  == priv_csr(Machine, utvec)

MCMtime    == W(144)
MCMtimecmp == W(152)
MCTohost   == W(126)
MCEntry    == W(16)

I(tgt, opt, rd, rs1, rs2, imm) ==
  [tgt |-> tgt, opt |-> opt, rd |-> rd, rs1 |-> rs1, rs2 |-> rs2, imm |-> imm,
   has_imm |-> tgt = "alu", use_pc |-> opt \in {"jal", "auipc"}, is_compressed |-> FALSE]
Csr(opt, rd, rs1, c) == I("csr", opt, rd, rs1, 0, c)
Li(rd, n)            == I("alu", "add", rd, 0, 0, W(n))
Sys(tgt)             == I(tgt, "add", 0, 0, 0, {})

\* What a program is made of.
Table == <<
  \* 1: fixed parts: set up the trap vector and the timer, handle, exit
  Li(1, 64), Csr("csrrw", 0, 1, mtvec), Li(1, 128), Csr("csrrw", 0, 1, mie),
  Csr("csrrsi", 0, 8, mstatus),
  I("store", "sw", 0, 0, 1, MCMtime), I("store", "sw", 0, 0, 0, MCMtime),
  Li(17, 93), Sys("ecall"), Sys("mret"), I("alu", "jal", 0, 0, 0, W(4)),
  \* 12: free parts
  Sys("illegal"), Sys("ebreak"),
  Csr("csrrci", 10, 8, mstatus), Csr("csrrw", 10, 1, W(3860)),
  Csr("csrrs", 10, 0, ucause), Csr("csrrwi", 0, 3, mepc), Csr("csrrc", 0, 1, mstatus),
  I("store", "sb", 0, 0, 1, MCTohost), I("store", "sh", 0, 0, 1, W(125)),
  I("store", "sb", 0, 0, 17, MCMtime),
  I("load", "lb", 10, 0, 0, MCMtime), I("load", "lhu", 10, 0, 0, MCMtime),
  I("load", "lbu", 0, 0, 0, W(16)), I("load", "lh", 10, 1, 0, W(1)), I("load", "lw", 1, 0, 0, W(16)),
  I("branch", "bltu", 0, 0, 1, W(8)), I("alu", "jalr", 1, 1, 0, W(-67)),
  I("alu", "sra", 10, 1, 0, W(1)), Csr("csrrw", 0, 10, mstatus),
  I("alu", "jal", 0, 0, 0, {}) >>

MCdecode(w) ==
  LET i == ToNat(Offset(w, 2, XLEN - 1)) IN IF i \in DOMAIN Table THEN Table[i] ELSE Sys("illegal")
MCdecode16(w) == [(IF w = W(4) THEN Li(10, 1) ELSE Sys("illegal")) EXCEPT !.is_compressed = TRUE]

\* Executable: the program and the handlers, not what is between them.
MCAllowed == {<<W(16), W(63)>>, <<W(64), W(67)>>, <<W(92), W(99)>>}

\* The page map that holds the instructions of the sequence s from MCEntry on,
\* the exception handler (mret) at 64, the timer handler (h, mret) at 92 and an
\* ecall outside the executable ranges at 100.
Program(s, h) ==
  LET text  == [a \in {12 + 4 * i : i \in DOMAIN s} |-> s[(a - 12) \div 4]]
      slots == {16 + 4 * (i - 1) : i \in DOMAIN s} \cup {64, 92, 96, 100}
      At(a) == CASE a \in {64, 96} -> 10 [] a = 92 -> h [] a = 100 -> 9 [] OTHER -> text[a]
      Cell(n) == IF n - (n % 4) \in slots
                 THEN Offset(W(4 * At(n - (n % 4)) + 3), 4 * (n % 4), 4 * (n % 4) + 3)
                 ELSE {}
  IN  [k \in {Key(W(a)) : a \in slots} |-> [o \in PageOffset |-> Cell(ToNat(k \cup o))]]

\* Set up the vector, run a (after the exception 12 the program goes on in user
\* mode), make the timer due, run b with interrupts off,
\* enable them (the interrupt skips the jump), run c and exit.
Free == 12 .. 30
MCImages ==
  {Program(<<1, 2, 3, 4, a, 6, b, 5, 11, c, 8, 9>>, h) :
     a \in {9, 10, 11, 12, 17}, b \in Free \cup {7, 11}, c \in Free, h \in {7, 12}}
=============================================================================
