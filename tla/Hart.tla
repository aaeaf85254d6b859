-------------------------------- MODULE Hart --------------------------------
(***************************************************************************)
(* iss::model, driven by the loop of run() in main.cpp: step() executes    *)
(* one instruction, then commit() advances the program counter and takes   *)
(* the timer interrupt.  The hart is a record that the functions of        *)
(* model.cpp transform one after the other; a step of the model is a whole *)
(* call of step() or commit().  Decoding is external (riscv32-decoder).    *)
(***************************************************************************)
EXTENDS AddressRouter, Alu, Sequences

CONSTANTS
  decode(_), decode16(_),   \* external: a word, a half word to an op
  Regs,                     \* indices of the general-purpose registers: 0 .. 31
  Csrs,                     \* addresses of the CSRs: all twelve-bit words
  allowed_pcs,              \* loader::progbit_ranges(), pairs of first and last
  entry,                    \* loader::entry()
  tohost_addr,              \* loader::symbol("tohost")
  Images,                   \* page maps the loader may leave
  mti_enabled, fstep,       \* options
  MaxTicks                  \* bound on the value the timer counts to

\* Privilege modes, and the trap CSRs of user mode: csr.hpp.
Privilege == SUBSET {0, 1}
Machine   == {0, 1}
utvec     == {0, 2}
uepc      == {0, 6}
ucause    == {1, 6}
utval     == {0, 1, 6}
mstatus   == {8, 9}
mie       == {2, 8, 9}
mip       == {2, 6, 8, 9}

\* Bits of mstatus: struct status.
MIE  == 3
MPIE == 7
MPP  == 11

\* trap_cause.
exp_inst_access_fault == {0}
exp_inst_illegal      == {1}
exp_breakpoint        == {0, 1}
TimerIrq              == 7
int_timer_m           == {SignBit} \cup {0, 1, 2}

base_addr(w) == w \ {0, 1}                  \* w & masks::tvec::base_addr

\* privileged_mode.
priv(c)        == Offset(c, 8, 9)
readonly(c)    == {10, 11} \subseteq c
can_read(m, c)  == ~Below(m, priv(c))

\* Mutant of can_write: only the read-only bits are checked.
can_write_AnyMode(m, c) == ~readonly(c)

can_write(m, c) == ~readonly(c) /\ can_read(m, c)
priv_csr(m, c)  == Shift(m, 8) \cup c

mepc == priv_csr(Machine, uepc)

Op == [tgt : {"store", "alu", "load", "branch", "csr", "mret", "ecall", "illegal", "ebreak"},
       opt : AluOps \cup {"lb", "lh", "lw", "lbu", "lhu", "sb", "sh", "sw"}
               \cup {"beq", "bne", "blt", "bltu", "bge", "bgeu"}
               \cup {"csrrw", "csrrs", "csrrc", "csrrwi", "csrrsi", "csrrci"},
       rd : Regs, rs1 : Nat, rs2 : Regs, imm : Word,
       has_imm : BOOLEAN, use_pc : BOOLEAN, is_compressed : BOOLEAN]

\* What exec() needs of a decoded op so that no std::get throws and every
\* index is in range.
OpOK(op) ==
  /\ op \in Op
  /\ op.tgt = "alu" => op.opt \in AluOps
  /\ op.tgt = "load" => op.opt \in {"lb", "lh", "lw", "lbu", "lhu"}
  /\ op.tgt = "store" => op.opt \in {"sb", "sh", "sw"}
  /\ op.tgt = "branch" => op.opt \in {"beq", "bne", "blt", "bltu", "bge", "bgeu"}
  /\ op.tgt # "csr" => op.rs1 \in Regs
  /\ op.tgt = "csr" => /\ op.opt \in {"csrrw", "csrrs", "csrrc", "csrrwi", "csrrsi", "csrrci"}
                       /\ op.opt \in {"csrrw", "csrrs", "csrrc"} => op.rs1 \in Regs
                       /\ op.imm \in Csrs

ASSUME HartAssumption ==
  /\ XLEN > 12
  /\ Regs \subseteq Nat /\ {0, 10, 17} \subseteq Regs
  /\ Csrs \subseteq SUBSET (0 .. 11)
  /\ {mstatus, mie, mip} \subseteq Csrs
  /\ \A m \in Privilege : {priv_csr(m, c) : c \in {utvec, uepc, ucause, utval}} \subseteq Csrs
  /\ entry \in Word /\ tohost_addr \in Word
  /\ \A p \in Images : IsPageMap(p)
  /\ mti_enabled \in BOOLEAN /\ fstep \in BOOLEAN /\ MaxTicks \in Nat

ASSUME DecodeAssumption == \A w \in Word : OpOK(decode(w)) /\ OpOK(decode16(w))

VARIABLES
  hart,        \* hart_state and the register files of iss::model
  at,          \* run(): about to "step", about to "commit", or "halted"
  handling     \* history: an interrupt was taken and neither mret nor a CSR
               \* instruction on mstatus has been executed since

vars == <<page, mtime, mtimecmp, hart, at, handling>>

Change(S) == [index : S, prev : Word, next : Word]

HartState == [pc : Word, pc_next : Word, mode : Privilege, is_done : BOOLEAN,
              x : [Regs -> Word], gpr_staged : Seq(Change(Regs)),
              csrs : [Csrs -> Word], csr_staged : Seq(Change(Csrs))]

Init ==
  /\ page \in Images
  /\ MemInit
  /\ hart = [pc |-> entry, pc_next |-> entry, mode |-> Machine, is_done |-> FALSE,
             x |-> [r \in Regs |-> {}], gpr_staged |-> <<>>,
             csrs |-> [c \in Csrs |-> {}], csr_staged |-> <<>>]
  /\ at = "step"
  /\ handling = FALSE

-----------------------------------------------------------------------------
(* Register files: every write is also staged for the log.                 *)

Staged(f, i, v) == [index |-> i, prev |-> f[i], next |-> v]

\* Mutant of write_csr: the old value is read after the write.
write_csr_LatePrev(h, c, v) ==
  [h EXCEPT !.csrs[c] = v, !.csr_staged = Append(@, [index |-> c, prev |-> v, next |-> v])]

write_csr(h, c, v) ==
  [h EXCEPT !.csrs[c] = v, !.csr_staged = Append(@, Staged(h.csrs, c, v))]

\* Mutant of write_gpr: no special case for x0.
write_gpr_ZeroToo(h, r, v) ==
  [h EXCEPT !.x[r] = v, !.gpr_staged = Append(@, Staged(h.x, r, v))]

\* A write to x0 is dropped, but staged all the same.
write_gpr(h, r, v) ==
  [h EXCEPT !.x = IF r = 0 THEN @ ELSE [@ EXCEPT ![r] = v],
            !.gpr_staged = Append(@, Staged(h.x, r, v))]

-----------------------------------------------------------------------------
(* Traps.                                                                  *)

EcallCauses == {{3}, {4}, {0, 3}, {0, 4}}

ecall_cause(m) == CASE m = {}      -> {3}           \* exp_ecall_from_u_vu_mode
                    [] m = {0}     -> {4}           \* exp_ecall_from_vs_mode
                    [] m = {1}     -> {0, 3}        \* exp_ecall_from_hs_mode
                    [] m = Machine -> {0, 4}        \* exp_ecall_from_m_mode

\* Mutant of save_pc: it uses the pc that trap() has set already.
save_pc_NextPc(h, cause) ==
  write_csr(h, priv_csr(h.mode, uepc), base_addr(h.pc_next))

\* The exception pc: the current instruction, rounded down to a word, for
\* ecall and ebreak, the word after it for every other cause.
save_pc(h, cause) ==
  LET epc == base_addr(h.pc)
  IN  write_csr(h, priv_csr(h.mode, uepc),
                IF cause \in EcallCauses \cup {exp_breakpoint} THEN epc
                ELSE base_addr(Plus(epc, 4)))

\* Interrupts are vectored: cause i goes to the i-th word behind the base.
vectored(base, cause) ==
  IF SignBit \in cause THEN Plus(base, 4 * ToNat(cause \ {SignBit})) ELSE base

\* The part of trap() common to exceptions and interrupts; the CSRs are those
\* of the current mode, which a trap does not change.
trap_to(h, cause) ==
  LET h1 == write_csr(h, priv_csr(h.mode, ucause), cause)
      h2 == write_csr(h1, priv_csr(h.mode, utval), {})
      h3 == [h2 EXCEPT !.pc_next =
               vectored(base_addr(h2.csrs[priv_csr(h.mode, utvec)]), cause)]
  IN  save_pc(h3, cause)

\* Mutant of trap: an exception stacks the interrupt enable, as an interrupt does.
trap_Stacks(h, cause) ==
  LET s == h.csrs[mstatus]
  IN  trap_to(write_csr(h, mstatus,
                ((s \ {MIE, MPIE}) \cup {MPP, MPP + 1})
                  \cup (IF MIE \in s THEN {MPIE} ELSE {})), cause)

trap(h, cause) == trap_to(h, cause)

takes_interrupt(h) ==
  TimerIrq \in h.csrs[mie] /\ TimerIrq \in h.csrs[mip] /\ MIE \in h.csrs[mstatus]

trap_timer(h) ==
  LET s  == h.csrs[mstatus]
      h1 == write_csr(h, mip, h.csrs[mip] \ {TimerIrq})
      h2 == write_csr(h1, mstatus,
              ((s \ {MIE, MPIE}) \cup {MPP, MPP + 1})
                \cup (IF MIE \in s THEN {MPIE} ELSE {}))
      h3 == trap_to(h2, int_timer_m)
  IN  IF takes_interrupt(h) THEN [h3 EXCEPT !.pc = h3.pc_next] ELSE h

set_pending(h) == write_csr(h, mip, h.csrs[mip] \cup {TimerIrq})

\* mem.read64(opts.mtime) > mem.read64(opts.mtimecmp)
timer_due == mti_enabled /\ Below(read64(MtimecmpAddr), read64(MtimeAddr))

\* Mutant of interrupt_pending: a pending bit is enough.
interrupt_pending_Sticky(h) == trap_timer(IF timer_due THEN set_pending(h) ELSE h)

interrupt_pending(h) == IF timer_due THEN trap_timer(set_pending(h)) ELSE h

-----------------------------------------------------------------------------
(* step(): fetch, advance pc_next, check the pc, execute.  An invalid pc   *)
(* traps and the fetched instruction is executed nevertheless.             *)

fetch == LET w == read32(hart.pc)
         IN  IF {0, 1} \subseteq w THEN decode(w) ELSE decode16(Offset(w, 0, HalfLen - 1))

length(op) == IF op.is_compressed THEN 2 ELSE 4

is_valid_pc(a) == \E r \in allowed_pcs : ~Below(a, r[1]) /\ ~Below(r[2], a)

\* Mutant of begin: every pc is taken for valid.
begin_Unchecked(op) == [hart EXCEPT !.pc_next = Plus(hart.pc, length(op))]

begin(op) ==
  LET h == [hart EXCEPT !.pc_next = Plus(hart.pc, length(op))]
  IN  IF is_valid_pc(hart.pc) THEN h ELSE trap(h, exp_inst_access_fault)

handle_branch(op, h) ==
  /\ op.tgt = "branch"
  /\ hart' = IF should_branch(h.x[op.rs1], h.x[op.rs2], op.opt)
             THEN [h EXCEPT !.pc_next = Add(h.pc, op.imm)] ELSE h
  /\ UNCHANGED memVars

handle_alu(op, h) ==
  LET opd_1 == IF op.use_pc THEN h.pc ELSE h.x[op.rs1]
      opd_2 == IF op.has_imm THEN op.imm ELSE h.x[op.rs2]
      res   == do_alu(op.opt, opd_1, opd_2)
  IN  /\ op.tgt = "alu"
      /\ hart' = IF op.opt \in {"jal", "jalr"}
                 THEN [write_gpr(h, op.rd, Plus(h.pc, length(op))) EXCEPT !.pc_next = res]
                 ELSE write_gpr(h, op.rd, res)
      /\ UNCHANGED memVars

handle_load(op, h) ==
  LET addr == Add(h.x[op.rs1], op.imm)
      val  == CASE op.opt = "lb"  -> SignExtend(read8(addr), ByteLen)
                [] op.opt = "lh"  -> SignExtend(read16(addr), HalfLen)
                [] op.opt = "lw"  -> read32(addr)
                [] op.opt = "lbu" -> read8(addr)
                [] op.opt = "lhu" -> read16(addr)
  IN  /\ op.tgt = "load"
      /\ hart' = write_gpr(h, op.rd, val)
      /\ UNCHANGED memVars

\* Mutant of store: sb does not narrow the register to a byte.
store_Wide(op, h) ==
  LET addr == Add(h.x[op.rs1], op.imm)
      val  == h.x[op.rs2]
  IN  /\ op.tgt = "store"
      /\ \/ op.opt = "sb" /\ write8(addr, val)
         \/ op.opt = "sh" /\ write16(addr, Offset(val, 0, HalfLen - 1))
         \/ op.opt = "sw" /\ write32(addr, val)
      /\ hart' = [h EXCEPT !.is_done = (addr = tohost_addr)]

store(op, h) ==
  LET addr == Add(h.x[op.rs1], op.imm)
      val  == h.x[op.rs2]
  IN  /\ op.tgt = "store"
      /\ \/ op.opt = "sb" /\ write8(addr, Offset(val, 0, ByteLen - 1))
         \/ op.opt = "sh" /\ write16(addr, Offset(val, 0, HalfLen - 1))
         \/ op.opt = "sw" /\ write32(addr, val)
      /\ hart' = [h EXCEPT !.is_done = (addr = tohost_addr)]

\* C++ !I, the logical negation, where the instruction clears bits.
logical_not(I) == IF I = {} THEN {0} ELSE {}

csr(op, h) ==
  LET reads  == op.opt # "csrrwi" \/ op.rd # 0
      writes == op.opt \in {"csrrs", "csrrc"} => op.rs1 # 0
      tmp    == IF reads THEN h.csrs[op.imm] ELSE {}
      I      == IF op.opt \in {"csrrw", "csrrs", "csrrc"} THEN h.x[op.rs1] ELSE ToWord(op.rs1)
      val    == CASE op.opt \in {"csrrw", "csrrwi"} -> I
                  [] op.opt \in {"csrrs", "csrrsi"} -> I \cup tmp
                  [] op.opt \in {"csrrc", "csrrci"} -> tmp \cap logical_not(I)
      legal  == (reads => can_read(h.mode, op.imm)) /\ (writes => can_write(h.mode, op.imm))
  IN  /\ op.tgt = "csr"
      /\ hart' = IF legal
                 THEN write_gpr(IF writes THEN write_csr(h, op.imm, val) ELSE h, op.rd, tmp)
                 ELSE trap(h, exp_inst_illegal)
      /\ UNCHANGED memVars

handle_mret(op, h) ==
  LET s == h.csrs[mstatus]
      t == ((s \ {MIE}) \cup {MPIE, MPP, MPP + 1}) \cup (IF MPIE \in s THEN {MIE} ELSE {})
  IN  /\ op.tgt = "mret"
      /\ hart' = [write_csr(h, mstatus, t) EXCEPT
                    !.pc_next = h.csrs[mepc], !.mode = Offset(s, MPP, MPP + 1)]
      /\ UNCHANGED memVars

\* ecall, with handle_sys_exit(): system call 93 stores a0 to tohost and stops.
ecall(op, h) ==
  LET t == trap(h, ecall_cause(h.mode))
  IN  /\ op.tgt = "ecall"
      /\ \/ /\ h.x[17] = ToWord(93)
            /\ write32(tohost_addr, h.x[10])
            /\ hart' = [t EXCEPT !.is_done = TRUE]
         \/ /\ h.x[17] # ToWord(93)
            /\ hart' = t
            /\ UNCHANGED memVars

illegal(op, h) == op.tgt = "illegal" /\ hart' = trap(h, exp_inst_illegal) /\ UNCHANGED memVars
ebreak(op, h)  == op.tgt = "ebreak"  /\ hart' = trap(h, exp_breakpoint)   /\ UNCHANGED memVars

exec(op, h) ==
  \/ store(op, h)  \/ handle_alu(op, h)  \/ handle_load(op, h) \/ handle_branch(op, h)
  \/ csr(op, h)    \/ handle_mret(op, h) \/ ecall(op, h)
  \/ illegal(op, h) \/ ebreak(op, h)

-----------------------------------------------------------------------------
(* The loop of run().                                                      *)

\* Mutant of continues: the loop runs until the user quits.
continues_UntilQuit(key) == ~(fstep /\ key = "q")

\* (opt.fstep && std::cin.get() == 'q') || !model.done(): with --step a 'q'
\* goes on even when the program is done.
continues(key) == (fstep /\ key = "q") \/ ~hart.is_done

step ==
  LET op == fetch
  IN  /\ at = "step"
      /\ \E key \in {"q", "other"} : continues(key)
      /\ exec(op, begin(op))
      /\ at' = "commit"
      /\ handling' = (handling /\ op.tgt # "mret" /\ ~(op.tgt = "csr" /\ op.imm = mstatus))

commit ==
  LET h == interrupt_pending([hart EXCEPT !.pc = hart.pc_next])
  IN  /\ at = "commit"
      /\ hart' = [h EXCEPT !.gpr_staged = <<>>, !.csr_staged = <<>>]
      /\ handling' = (handling \/ (timer_due /\ takes_interrupt(set_pending(hart))))
      /\ at' = "step"
      /\ UNCHANGED memVars

halt ==
  /\ at = "step"
  /\ \E key \in {"q", "other"} : ~continues(key)
  /\ at' = "halted"
  /\ UNCHANGED <<page, mtime, mtimecmp, hart, handling>>

\* The timer thread, at any moment.
Tick ==
  /\ mti_enabled
  /\ ToNat(mtime[0]) < MaxTicks
  /\ mtime' = [mtime EXCEPT ![0] = FetchAdd(@)]
  /\ UNCHANGED <<page, mtimecmp, hart, at, handling>>

Next == step \/ commit \/ halt \/ Tick

\* The main thread is scheduled until the loop ends: weak fairness of
\* step \/ commit \/ halt, which are the steps that change at.
Advance == at # "halted" /\ at' \in {"step", "commit", "halted"} \ {at}

Spec == Init /\ [][Next]_vars /\ WF_at(Advance)

-----------------------------------------------------------------------------
(* Properties.                                                             *)

\* The router is well formed, and so are the registers, the CSRs and the two
\* staging lists of iss::model.
TypeOK ==
  /\ MemTypeOK
  /\ hart \in HartState
  /\ at \in {"step", "commit", "halted"}
  /\ handling \in BOOLEAN

\* x0 reads as zero whatever instruction names it as its destination, and the
\* staging lists are empty whenever an instruction starts, so that what the
\* loop logs after step() belongs to that instruction alone.
CleanStart == hart.x[0] = {} /\ (at = "step" => hart.gpr_staged = <<>> /\ hart.csr_staged = <<>>)

\* Where the list of changes s names the register i.
Positions(s, i) == {k \in DOMAIN s : s[k].index = i}

\* s lists the changes that lead from the register file old to new, on the
\* registers in S: each records the value it replaced.
Explains(s, old, new, S) ==
  \A i \in S :
    LET P == Positions(s, i)
    IN  /\ P = {} => new[i] = old[i]
        /\ \A k \in P : (\A j \in P : k <= j) => s[k].prev = old[i]
        /\ \A k \in P : (\A j \in P : j <= k) => s[k].next = new[i]
        /\ \A j, k \in P : j < k /\ (\A l \in P : l <= j \/ k <= l) => s[k].prev = s[j].next

\* The changes that run() logs after step() are exactly the changes the
\* instruction, and the trap it ran into, made to both register files.
TraceFaithful ==
  [][at = "step" /\ at' = "commit" =>
       /\ Explains(hart'.gpr_staged, hart.x, hart'.x, Regs \ {0})
       /\ Explains(hart'.csr_staged, hart.csrs, hart'.csrs, Csrs)]_vars

\* No step in a mode changes a CSR of a more privileged mode, except for the
\* mstatus that mret and interrupts update and the mip of the timer; a
\* read-only CSR never changes.
PrivilegeIsolation ==
  [][\A c \in Csrs : hart'.csrs[c] # hart.csrs[c] =>
       /\ ~readonly(c)
       /\ can_read(hart.mode, c) \/ c \in {mstatus, mip}]_vars

\* Only traps stage three CSR changes in one step.
Trapped == at = "commit" /\ Len(hart.csr_staged) >= 3

\* A trap at a valid pc is precise: the instruction wrote no register and is
\* followed by the trap vector of the mode, with the cause and the address of
\* the instruction (or of the word after it) in that mode's CSRs.
PreciseTrap ==
  Trapped /\ is_valid_pc(hart.pc) =>
    /\ hart.gpr_staged = <<>>
    /\ hart.pc_next = base_addr(hart.csrs[priv_csr(hart.mode, utvec)])
    /\ hart.csrs[priv_csr(hart.mode, ucause)] # {}
    /\ hart.csrs[priv_csr(hart.mode, uepc)] \in
         {base_addr(hart.pc), base_addr(Plus(base_addr(hart.pc), 4))}

\* From the moment an interrupt is taken until the handler returns or writes
\* mstatus, interrupts stay disabled and mret will enable them again and
\* return to machine mode: no exception in the handler can lose this state.
HandlerMasked ==
  handling => /\ MIE \notin hart.csrs[mstatus]
              /\ {MPIE, MPP, MPP + 1} \subseteq hart.csrs[mstatus]

\* An exit call reports a0: system call 93 leaves a0 in the word at tohost that
\* run() prints as the exit code, wherever that word lies in the pages.
ExitReport == Trapped /\ hart.is_done /\ is_valid_pc(hart.pc) => read32(tohost_addr) = hart.x[10]

\* Writing to tohost terminates the program: once the program is done it stays
\* done, no instruction is executed any more and the exit code is final.
DoneIsFinal ==
  [][hart.is_done => /\ hart'.is_done /\ hart'.x = hart.x
                     /\ read32(tohost_addr)' = read32(tohost_addr)]_vars

\* mret takes from mstatus.MPP "the privilege before taking the trap": every
\* trap leaves the mode it was taken in there.
TrapSavesPrivilege ==
  Trapped => Offset(hart.csrs[mstatus], MPP, MPP + 1) = hart.mode

\* A timer interrupt is transparent to the program: the exception pc, where
\* mret resumes, is the instruction that was about to be executed.
InterruptResumes ==
  [][at = "commit" /\ at' = "step" /\ handling' /\ ~handling =>
       hart'.csrs[priv_csr(hart.mode, uepc)] = hart.pc_next]_vars

\* mip.MTIP outlives the condition that set it, but a stale bit never diverts the
\* program: commit() leaves its path only when the timer is due, the interrupt
\* enabled and no other handler running.
NoStaleInterrupt ==
  [][at = "commit" /\ at' = "step" /\ hart'.pc # hart.pc_next =>
       /\ timer_due /\ ~handling
       /\ TimerIrq \in hart.csrs[mie] /\ MIE \in hart.csrs[mstatus]]_vars

\* A jump out of the executable sections does not go unnoticed: whatever the
\* bytes there do when they are executed, and whatever trap they run into, the
\* changes of that step start with the access fault at that pc.
FaultLogged ==
  at = "commit" /\ ~is_valid_pc(hart.pc) =>
    /\ Len(hart.csr_staged) >= 3
    /\ hart.csr_staged[1].next = exp_inst_access_fault
    /\ hart.csr_staged[3].next = base_addr(Plus(base_addr(hart.pc), 4))

\* csrrc and csrrci clear, in the CSR they write, the bits of their operand and
\* leave the other bits alone.
CsrClears ==
  [][at = "step" /\ at' = "commit" /\ ~Trapped' /\ is_valid_pc(hart.pc) =>
       LET op == fetch IN
         op.tgt = "csr" /\ op.opt \in {"csrrc", "csrrci"} =>
           hart'.csrs[op.imm] = hart.csrs[op.imm] \
             (IF op.opt = "csrrc" THEN hart.x[op.rs1] ELSE ToWord(op.rs1))]_vars

\* An instruction access fault replaces the instruction: what lies at an address
\* that is not executable changes no register and no memory, and the trap
\* vector comes next.
FaultIsPrecise ==
  [][at = "step" /\ at' = "commit" /\ ~is_valid_pc(hart.pc) =>
       /\ hart'.x = hart.x /\ UNCHANGED memVars
       /\ hart'.pc_next = base_addr(hart.csrs[priv_csr(hart.mode, utvec)])
       /\ hart'.csrs[priv_csr(hart.mode, ucause)] = exp_inst_access_fault]_vars

\* mip.MTIP says whether the timer is due: a program that moves the comparison
\* past the counter finds nothing pending.
MtipFollowsTimer == at = "step" /\ ~timer_due => TimerIrq \notin hart.csrs[mip]

\* An environment call leaves the cause its mode has in the RISC-V
\* specification: 8 in user, 9 in supervisor and 11 in machine mode.
EcallCauseStandard ==
  [][at = "step" /\ at' = "commit" /\ is_valid_pc(hart.pc) /\ fetch.tgt = "ecall" =>
       hart'.csrs[priv_csr(hart.mode, ucause)] =
         CASE hart.mode = {} -> {3} [] hart.mode = {0} -> {0, 3}
           [] hart.mode = Machine -> {0, 1, 3} [] OTHER -> {1, 3}]_vars
=============================================================================
