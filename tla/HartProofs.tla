----------------------------- MODULE HartProofs -----------------------------
(***************************************************************************)
(* The hart and what run() puts around it, for every program, decoder,     *)
(* word length and memory layout that the assumptions of Hart and its      *)
(* memory allow: the invariants of the hart, the log from which they can   *)
(* be followed, and the timer thread, which shows in nothing but mtime:    *)
(* the process with --timer implements Hart.                               *)
(***************************************************************************)
EXTENDS Export, Simulator, RouterProofs

-----------------------------------------------------------------------------
(* Words and CSR addresses.                                                *)

\* The small constants of the hart are words, and bit-fields of words too.
LEMMA SmallWords ==
  /\ {} \in Word /\ {0} \in Word /\ exp_inst_access_fault \in Word /\ exp_inst_illegal \in Word
  /\ exp_breakpoint \in Word /\ int_timer_m \in Word
  /\ \A m \in Privilege : ecall_cause(m) \in Word
  /\ TimerIrq \in BitPos /\ {MIE, MPIE, MPP, MPP + 1} \subseteq BitPos
<1>1. 0 .. 12 \subseteq BitPos /\ SignBit \in BitPos
  BY XLENAssumption, HartAssumption DEF BitPos, SignBit
<1>2. \A m \in Privilege : ecall_cause(m) \in {{3}, {4}, {0, 3}, {0, 4}}
  <2>1. \A m \in Privilege : m \in {{}, {0}, {1}, {0, 1}}
    BY DEF Privilege
  <2> QED
    BY <2>1 DEF ecall_cause, Machine
<1>3. \A m \in Privilege : ecall_cause(m) \in Word
  BY <1>1, <1>2 DEF Word
<1>4. {MIE, MPIE, MPP, MPP + 1} \subseteq BitPos /\ TimerIrq \in BitPos
  BY <1>1 DEF MIE, MPIE, MPP, TimerIrq
<1> QED
  BY <1>1, <1>3, <1>4
  DEF Word, exp_inst_access_fault, exp_inst_illegal, exp_breakpoint, int_timer_m

\* The registers that a trap in mode m writes.
TrapCsrs(m) == {priv_csr(m, ucause), priv_csr(m, utval), priv_csr(m, uepc)}

\* They exist, they belong to mode m, and they are none of the machine's
\* status registers.
LEMMA TrapCsrsOK ==
  ASSUME NEW m \in Privilege
  PROVE  /\ TrapCsrs(m) \subseteq Csrs /\ priv_csr(m, utvec) \in Csrs
         /\ \A c \in TrapCsrs(m) : can_write(m, c)
         /\ mstatus \notin TrapCsrs(m)
<1>1. TrapCsrs(m) \subseteq Csrs /\ priv_csr(m, utvec) \in Csrs
  BY HartAssumption DEF TrapCsrs
<1>2. ASSUME NEW c \in {ucause, utval, uepc}
      PROVE  priv(priv_csr(m, c)) = m /\ ~readonly(priv_csr(m, c)) /\ priv_csr(m, c) # mstatus
  <2>1. c \subseteq 0 .. 6 /\ 6 \in c
    BY <1>2 DEF ucause, utval, uepc
  <2>2. m \subseteq {0, 1}
    BY DEF Privilege
  <2>3. priv_csr(m, c) \cap (8 .. 9) = {i + 8 : i \in m}
    BY <2>1, <2>2 DEF priv_csr, Shift
  <2>4. priv(priv_csr(m, c)) = {j - 8 : j \in {i + 8 : i \in m}}
    BY <2>3 DEF priv, Offset
  <2>5. priv(priv_csr(m, c)) = m
    <3>1. \A i \in m : (i + 8) - 8 = i
      BY <2>2
    <3> QED
      BY <2>4, <3>1
  <2>6. ~readonly(priv_csr(m, c))
    BY <2>1, <2>2 DEF readonly, priv_csr, Shift
  <2>7. priv_csr(m, c) # mstatus
    BY <2>1 DEF priv_csr, mstatus
  <2> QED
    BY <2>5, <2>6, <2>7
<1>3. ~Below(m, m)
  BY DEF Below
<1> QED
  BY <1>1, <1>2, <1>3 DEF TrapCsrs, can_write, can_read

-----------------------------------------------------------------------------
(* Register files and traps.                                               *)

\* Writing a CSR changes that CSR and the staging list, nothing else.
CsrWritten(h, g, c, v) ==
  /\ g \in HartState
  /\ g.x = h.x /\ g.mode = h.mode /\ g.pc = h.pc /\ g.pc_next = h.pc_next
  /\ g.is_done = h.is_done /\ g.gpr_staged = h.gpr_staged
  /\ g.csrs = [h.csrs EXCEPT ![c] = v]
  /\ g.csr_staged = Append(h.csr_staged, Staged(h.csrs, c, v))

\* write_csr changes one CSR and stages the change.
LEMMA WriteCsr ==
  ASSUME NEW h \in HartState, NEW c \in Csrs, NEW v \in Word
  PROVE  CsrWritten(h, write_csr(h, c, v), c, v)
<1> DEFINE s == Append(h.csr_staged, Staged(h.csrs, c, v))
           f == [h.csrs EXCEPT ![c] = v]
<1>1. Staged(h.csrs, c, v) \in Change(Csrs)
  BY DEF Staged, Change, HartState
<1>2. s \in Seq(Change(Csrs)) /\ f \in [Csrs -> Word]
  BY <1>1 DEF HartState
<1>3. write_csr(h, c, v) = [h EXCEPT !.csrs = f, !.csr_staged = s]
  BY DEF write_csr, HartState
<1> HIDE DEF s, f
<1>4. /\ write_csr(h, c, v) \in HartState
      /\ write_csr(h, c, v).csrs = f /\ write_csr(h, c, v).csr_staged = s
  BY <1>2, <1>3 DEF HartState
<1>5. /\ write_csr(h, c, v).x = h.x /\ write_csr(h, c, v).mode = h.mode
      /\ write_csr(h, c, v).pc = h.pc /\ write_csr(h, c, v).pc_next = h.pc_next
      /\ write_csr(h, c, v).is_done = h.is_done
      /\ write_csr(h, c, v).gpr_staged = h.gpr_staged
  BY <1>3 DEF HartState
<1> QED
  BY <1>4, <1>5 DEF CsrWritten, f, s

\* Writing a register leaves x0 and everything but the registers alone.
GprWritten(h, g) ==
  /\ g \in HartState
  /\ g.x[0] = h.x[0] /\ g.mode = h.mode /\ g.pc = h.pc /\ g.pc_next = h.pc_next
  /\ g.is_done = h.is_done /\ g.csrs = h.csrs /\ g.csr_staged = h.csr_staged

\* write_gpr never changes x0, whatever its destination.
LEMMA WriteGpr ==
  ASSUME NEW h \in HartState, NEW r \in Regs, NEW v \in Word
  PROVE  GprWritten(h, write_gpr(h, r, v))
<1>1. Staged(h.x, r, v) \in Change(Regs)
  BY DEF Staged, Change, HartState
<1>2. 0 \in Regs
  BY HartAssumption
<1> QED
  BY <1>1, <1>2 DEF write_gpr, HartState, GprWritten

\* What a trap from h to g may change.
TrapEffect(h, g) ==
  /\ g \in HartState
  /\ g.x = h.x /\ g.mode = h.mode /\ g.pc = h.pc /\ g.is_done = h.is_done
  /\ \A c \in Csrs \ TrapCsrs(h.mode) : g.csrs[c] = h.csrs[c]

\* A trap writes the three trap CSRs of the mode and pc_next.
LEMMA Trap ==
  ASSUME NEW h \in HartState, NEW cause \in Word
  PROVE  TrapEffect(h, trap_to(h, cause))
<1> DEFINE m  == h.mode
           h1 == write_csr(h, priv_csr(m, ucause), cause)
           h2 == write_csr(h1, priv_csr(m, utval), {})
           h3 == [h2 EXCEPT !.pc_next = vectored(base_addr(h2.csrs[priv_csr(m, utvec)]), cause)]
           v  == IF cause \in EcallCauses \cup {exp_breakpoint} THEN base_addr(h3.pc)
                 ELSE base_addr(Plus(base_addr(h3.pc), 4))
           h4 == write_csr(h3, priv_csr(m, uepc), v)
<1>1. m \in Privilege /\ h.csrs \in [Csrs -> Word]
  BY DEF HartState
<1>2. /\ priv_csr(m, ucause) \in Csrs /\ priv_csr(m, utval) \in Csrs /\ priv_csr(m, uepc) \in Csrs
      /\ {} \in Word
  BY <1>1, TrapCsrsOK, SmallWords DEF TrapCsrs
<1>3. /\ h1 \in HartState /\ h1.x = h.x /\ h1.mode = m /\ h1.pc = h.pc /\ h1.is_done = h.is_done
      /\ h1.csrs = [h.csrs EXCEPT ![priv_csr(m, ucause)] = cause]
  BY <1>2, WriteCsr DEF CsrWritten
<1> HIDE DEF h1
<1>4. /\ h2 \in HartState /\ h2.x = h.x /\ h2.mode = m /\ h2.pc = h.pc /\ h2.is_done = h.is_done
      /\ h2.csrs = [h1.csrs EXCEPT ![priv_csr(m, utval)] = {}]
  <2>1. CsrWritten(h1, h2, priv_csr(m, utval), {})
    BY <1>2, <1>3, WriteCsr
  <2> QED
    BY <1>3, <2>1 DEF CsrWritten
<1> HIDE DEF h2
<1>5. /\ h3 \in HartState /\ h3.x = h.x /\ h3.mode = m /\ h3.pc = h.pc /\ h3.is_done = h.is_done
      /\ h3.csrs = h2.csrs
  <2>1. vectored(base_addr(h2.csrs[priv_csr(m, utvec)]), cause) \in Word
    BY <1>1, <1>4, PlusType, TrapCsrsOK DEF vectored, base_addr, HartState, Word
  <2> QED
    BY <1>4, <2>1 DEF HartState
<1> HIDE DEF h3
<1>6. v \in Word
  BY <1>5, PlusType DEF base_addr, HartState, Word
<1> HIDE DEF v
<1>7. /\ h4 \in HartState /\ h4.x = h.x /\ h4.mode = m /\ h4.pc = h.pc /\ h4.is_done = h.is_done
      /\ h4.csrs = [h3.csrs EXCEPT ![priv_csr(m, uepc)] = v]
  BY <1>2, <1>5, <1>6, WriteCsr DEF CsrWritten
<1>8. trap_to(h, cause) = h4
  BY <1>5 DEF trap_to, save_pc, h1, h2, h3, v
<1> HIDE DEF h4
<1>9. ASSUME NEW c \in Csrs \ TrapCsrs(m) PROVE h4.csrs[c] = h.csrs[c]
  BY <1>1, <1>3, <1>4, <1>5, <1>7 DEF TrapCsrs
<1> QED
  BY <1>7, <1>8, <1>9 DEF TrapEffect
-----------------------------------------------------------------------------
(* The staging lists.                                                      *)

\* A change to register c behind the others explains the file after it; to x0,
\* which keeps its value, only where x0 does not matter.
LEMMA ChangeExplained ==
  ASSUME NEW D, NEW S, NEW s \in Seq(Change(D)), NEW f, NEW c \in D, NEW v \in Word,
         Staged(f, c, v) \in Change(D), NEW g,
         \A i \in S : i # c => g[i] = f[i],
         c \in S => g[c] = v,
         NEW old, Explains(s, old, f, S)
  PROVE  Explains(Append(s, Staged(f, c, v)), old, g, S)
<1> DEFINE n == Len(s) + 1
           e == Staged(f, c, v)
           t == Append(s, e)
<1>1. /\ DOMAIN s = 1 .. Len(s) /\ Len(s) \in Nat /\ DOMAIN t = 1 .. n
      /\ t[n] = e /\ \A k \in DOMAIN s : t[k] = s[k]
  OBVIOUS
<1>2. e.index = c /\ e.prev = f[c] /\ e.next = v
  BY DEF Staged
<1> HIDE DEF e, t, n
<1>3. n = Len(s) + 1
  BY DEF n
<1>4. ASSUME NEW i \in S, i # c
      PROVE  Positions(t, i) = Positions(s, i) /\ g[i] = f[i]
  BY <1>1, <1>2, <1>3, <1>4 DEF Positions
<1>5. /\ Positions(t, c) = Positions(s, c) \cup {n}
      /\ \A k \in Positions(s, c) : k < n /\ k \in Nat /\ t[k] = s[k]
  BY <1>1, <1>2, <1>3 DEF Positions
<1>6. ASSUME NEW i \in S PROVE
        LET P == Positions(t, i)
        IN  /\ P = {} => g[i] = old[i]
            /\ \A k \in P : (\A j \in P : k <= j) => t[k].prev = old[i]
            /\ \A k \in P : (\A j \in P : j <= k) => t[k].next = g[i]
            /\ \A j, k \in P : j < k /\ (\A l \in P : l <= j \/ k <= l) => t[k].prev = t[j].next
  <2> DEFINE P == Positions(s, i)
  <2>1. /\ P = {} => f[i] = old[i]
        /\ \A k \in P : (\A j \in P : k <= j) => s[k].prev = old[i]
        /\ \A k \in P : (\A j \in P : j <= k) => s[k].next = f[i]
        /\ \A j, k \in P : j < k /\ (\A l \in P : l <= j \/ k <= l) => s[k].prev = s[j].next
    BY DEF Explains
  <2>2. \A k \in P : t[k] = s[k]
    BY <1>1 DEF Positions
  <2> HIDE DEF P
  <2>3. CASE i # c
    <3>1. Positions(t, i) = P /\ g[i] = f[i]
      BY <1>4, <2>3 DEF P
    <3> QED
      BY <2>1, <2>2, <3>1
  <2>4. CASE i = c
    <3>1. Positions(t, i) = P \cup {n} /\ \A k \in P : k < n /\ k \in Nat
      BY <1>5, <2>4 DEF P
    <3>2. /\ t[n].prev = f[i] /\ t[n].next = g[i] /\ n \in Nat
      BY <1>1, <1>2, <1>3, <2>4
    <3>3. ASSUME NEW k \in P \cup {n}, \A j \in P \cup {n} : k <= j PROVE t[k].prev = old[i]
      <4>1. CASE k = n
        <5>1. P = {}
          BY <3>1, <3>2, <3>3, <4>1
        <5> QED
          BY <2>1, <3>2, <4>1, <5>1
      <4>2. CASE k # n
        BY <2>1, <2>2, <3>3, <4>2
      <4> QED
        BY <4>1, <4>2
    <3>4. ASSUME NEW k \in P \cup {n}, \A j \in P \cup {n} : j <= k PROVE t[k].next = g[i]
      BY <3>1, <3>2, <3>4
    <3>5. ASSUME NEW j \in P \cup {n}, NEW k \in P \cup {n}, j < k,
                 \A l \in P \cup {n} : l <= j \/ k <= l
          PROVE  t[k].prev = t[j].next
      <4>1. j \in P /\ j \in Nat
        BY <3>1, <3>2, <3>5
      <4>2. CASE k = n
        <5>1. \A l \in P : l <= j
          BY <3>1, <3>2, <3>5, <4>2
        <5>2. s[j].next = f[i]
          BY <2>1, <4>1, <5>1
        <5> QED
          BY <2>2, <3>2, <4>1, <4>2, <5>2
      <4>3. CASE k # n
        BY <2>1, <2>2, <3>5, <4>1, <4>3
      <4> QED
        BY <4>2, <4>3
    <3> QED
      BY <3>1, <3>3, <3>4, <3>5
  <2> QED
    BY <2>3, <2>4
<1>7. Explains(t, old, g, S)
  BY <1>6 DEF Explains
<1> QED
  BY <1>7 DEF t, e

\* What every function of an instruction does to the logs: it goes from h to g in
\* the same instruction, keeps what is staged and stages what it changes.
Logs(h, g) ==
  /\ g.pc = h.pc
  /\ Len(h.csr_staged) <= Len(g.csr_staged)
  /\ \A k \in 1 .. Len(h.csr_staged) : g.csr_staged[k] = h.csr_staged[k]
  /\ \A old : Explains(h.csr_staged, old, h.csrs, Csrs) => Explains(g.csr_staged, old, g.csrs, Csrs)
  /\ \A old : Explains(h.gpr_staged, old, h.x, Regs \ {0}) =>
               Explains(g.gpr_staged, old, g.x, Regs \ {0})

\* Nothing needs to be staged when neither file changes.
LEMMA LogNothing ==
  ASSUME NEW h \in HartState, NEW g, g.pc = h.pc, g.csr_staged = h.csr_staged, g.csrs = h.csrs,
         g.gpr_staged = h.gpr_staged, g.x = h.x
  PROVE  Logs(h, g)
<1>1. Len(h.csr_staged) \in Nat
  BY DEF HartState
<1> QED
  BY <1>1 DEF Logs

\* One function after the other.
LEMMA LogBoth ==
  ASSUME NEW f \in HartState, NEW g \in HartState, NEW h \in HartState, Logs(f, g), Logs(g, h)
  PROVE  Logs(f, h)
<1>1. Len(f.csr_staged) \in Nat /\ Len(g.csr_staged) \in Nat /\ Len(h.csr_staged) \in Nat
  BY DEF HartState
<1>2. /\ Len(f.csr_staged) <= Len(h.csr_staged)
      /\ \A k \in 1 .. Len(f.csr_staged) : h.csr_staged[k] = f.csr_staged[k]
  BY <1>1 DEF Logs
<1> QED
  BY <1>2 DEF Logs

\* write_csr stages its change.
LEMMA LogCsr ==
  ASSUME NEW h \in HartState, NEW c \in Csrs, NEW v \in Word, NEW g, CsrWritten(h, g, c, v)
  PROVE  /\ Logs(h, g)
         /\ Len(g.csr_staged) = Len(h.csr_staged) + 1
         /\ g.csr_staged[Len(h.csr_staged) + 1].next = v
<1>1. /\ h.csr_staged \in Seq(Change(Csrs)) /\ h.csrs \in [Csrs -> Word]
      /\ g.csr_staged = Append(h.csr_staged, Staged(h.csrs, c, v))
      /\ g.csrs = [h.csrs EXCEPT ![c] = v]
      /\ g.pc = h.pc /\ g.gpr_staged = h.gpr_staged /\ g.x = h.x
  BY DEF HartState, CsrWritten
<1>2. Staged(h.csrs, c, v) \in Change(Csrs) /\ Staged(h.csrs, c, v).next = v
  BY <1>1 DEF Staged, Change
<1>3. ASSUME NEW old, Explains(h.csr_staged, old, h.csrs, Csrs)
      PROVE  Explains(g.csr_staged, old, g.csrs, Csrs)
  <2>1. (\A i \in Csrs : i # c => g.csrs[i] = h.csrs[i]) /\ g.csrs[c] = v
    BY <1>1
  <2>2. Explains(Append(h.csr_staged, Staged(h.csrs, c, v)), old, g.csrs, Csrs)
    BY <1>1, <1>2, <1>3, <2>1, ChangeExplained
  <2> QED
    BY <1>1, <2>2
<1>4. /\ Len(h.csr_staged) \in Nat /\ Len(g.csr_staged) = Len(h.csr_staged) + 1
      /\ \A k \in 1 .. Len(h.csr_staged) : g.csr_staged[k] = h.csr_staged[k]
      /\ g.csr_staged[Len(h.csr_staged) + 1] = Staged(h.csrs, c, v)
  BY <1>1, <1>2
<1> QED
  BY <1>1, <1>2, <1>3, <1>4 DEF Logs

\* write_gpr stages its change.
LEMMA LogGpr ==
  ASSUME NEW h \in HartState, NEW r \in Regs, NEW v \in Word
  PROVE  Logs(h, write_gpr(h, r, v))
<1> DEFINE g == write_gpr(h, r, v)
           e == Staged(h.x, r, v)
<1>1. /\ h.gpr_staged \in Seq(Change(Regs)) /\ h.x \in [Regs -> Word]
      /\ Len(h.csr_staged) \in Nat
  BY DEF HartState
<1>2. e \in Change(Regs)
  BY <1>1 DEF Staged, Change
<1>3. /\ g.pc = h.pc /\ g.csr_staged = h.csr_staged /\ g.csrs = h.csrs
      /\ g.gpr_staged = Append(h.gpr_staged, e)
      /\ g.x = IF r = 0 THEN h.x ELSE [h.x EXCEPT ![r] = v]
  BY DEF write_gpr, HartState
<1> HIDE DEF g
<1>4. ASSUME NEW old, Explains(h.gpr_staged, old, h.x, Regs \ {0})
      PROVE  Explains(g.gpr_staged, old, g.x, Regs \ {0})
  <2>1. (\A i \in Regs \ {0} : i # r => g.x[i] = h.x[i]) /\ (r \in Regs \ {0} => g.x[r] = v)
    BY <1>1, <1>3
  <2>2. Explains(Append(h.gpr_staged, e), old, g.x, Regs \ {0})
    BY <1>1, <1>2, <1>4, <2>1, ChangeExplained
  <2> QED
    BY <1>3, <2>2
<1>5. /\ Len(h.csr_staged) <= Len(g.csr_staged)
      /\ \A k \in 1 .. Len(h.csr_staged) : g.csr_staged[k] = h.csr_staged[k]
      /\ g.pc = h.pc
  BY <1>1, <1>3
<1>6. \A old : Explains(h.csr_staged, old, h.csrs, Csrs) => Explains(g.csr_staged, old, g.csrs, Csrs)
  BY <1>3
<1>7. Logs(h, g)
  BY <1>4, <1>5, <1>6 DEF Logs
<1> QED
  BY <1>7 DEF g

\* The pc that a trap with this cause saves.
saved_pc(a, cause) ==
  IF cause \in EcallCauses \cup {exp_breakpoint} THEN base_addr(a) ELSE base_addr(Plus(base_addr(a), 4))

\* A trap stages three changes, tells the cause and where it came from in the
\* CSRs of the mode, and goes on at the vector; no register is written.
TrapRecord(h, g, cause) ==
  /\ Logs(h, g)
  /\ Len(g.csr_staged) = Len(h.csr_staged) + 3
  /\ g.csr_staged[Len(h.csr_staged) + 1].next = cause
  /\ g.csr_staged[Len(h.csr_staged) + 3].next = saved_pc(h.pc, cause)
  /\ g.gpr_staged = h.gpr_staged
  /\ g.pc_next = vectored(base_addr(g.csrs[priv_csr(h.mode, utvec)]), cause)
  /\ g.csrs[priv_csr(h.mode, ucause)] = cause
  /\ g.csrs[priv_csr(h.mode, uepc)] = saved_pc(h.pc, cause)

\* The trap CSRs of a mode are different ones.
LEMMA TrapCsrsDiffer ==
  ASSUME NEW m \in Privilege
  PROVE  /\ priv_csr(m, ucause) # priv_csr(m, utval) /\ priv_csr(m, ucause) # priv_csr(m, uepc)
         /\ priv_csr(m, utval) # priv_csr(m, uepc) /\ priv_csr(m, utvec) \notin TrapCsrs(m)
<1>1. ASSUME NEW c \in {ucause, utval, uepc, utvec}
      PROVE  priv_csr(m, c) \cap (0 .. 6) = c
  BY <1>1 DEF priv_csr, Shift, Privilege, ucause, utval, uepc, utvec
<1>2. ucause # utval /\ ucause # uepc /\ utval # uepc /\ utvec \notin {ucause, utval, uepc}
  BY DEF ucause, utval, uepc, utvec
<1> QED
  BY <1>1, <1>2 DEF TrapCsrs

\* trap() from its first write to the last.
LEMMA TrapLog ==
  ASSUME NEW h \in HartState, NEW cause \in Word
  PROVE  TrapRecord(h, trap_to(h, cause), cause)
<1> DEFINE m  == h.mode
           h1 == write_csr(h, priv_csr(m, ucause), cause)
           h2 == write_csr(h1, priv_csr(m, utval), {})
           pn == vectored(base_addr(h2.csrs[priv_csr(m, utvec)]), cause)
           h3 == [h2 EXCEPT !.pc_next = pn]
           v  == saved_pc(h3.pc, cause)
           h4 == write_csr(h3, priv_csr(m, uepc), v)
<1>1. m \in Privilege /\ h.csrs \in [Csrs -> Word] /\ Len(h.csr_staged) \in Nat
  BY DEF HartState
<1>2. /\ priv_csr(m, ucause) \in Csrs /\ priv_csr(m, utval) \in Csrs /\ priv_csr(m, uepc) \in Csrs
      /\ priv_csr(m, utvec) \in Csrs /\ {} \in Word
  BY <1>1, TrapCsrsOK, SmallWords DEF TrapCsrs
<1>3. CsrWritten(h, h1, priv_csr(m, ucause), cause)
  BY <1>2, WriteCsr
<1>4. h1 \in HartState /\ h1.pc = h.pc /\ h1.mode = m /\ h1.gpr_staged = h.gpr_staged
  BY <1>3 DEF CsrWritten
<1> HIDE DEF h1
<1>5. CsrWritten(h1, h2, priv_csr(m, utval), {})
  BY <1>2, <1>4, WriteCsr
<1>6. h2 \in HartState /\ h2.pc = h.pc /\ h2.mode = m /\ h2.gpr_staged = h.gpr_staged
  BY <1>4, <1>5 DEF CsrWritten
<1> HIDE DEF h2
<1>7. pn \in Word
  BY <1>2, <1>6, PlusType DEF vectored, base_addr, HartState, Word
<1> HIDE DEF pn
<1>8. /\ h3 \in HartState /\ h3.pc = h.pc /\ h3.mode = m /\ h3.pc_next = pn /\ h3.csrs = h2.csrs
      /\ h3.csr_staged = h2.csr_staged /\ h3.gpr_staged = h.gpr_staged /\ h3.x = h2.x
  BY <1>6, <1>7 DEF HartState
<1>9. v \in Word /\ v = saved_pc(h.pc, cause)
  BY <1>8, PlusType DEF saved_pc, base_addr, HartState, Word
<1>10. trap_to(h, cause) = h4
  BY <1>8 DEF trap_to, save_pc, saved_pc, h1, h2, h3, pn
<1> HIDE DEF h3, v
<1>11. CsrWritten(h3, h4, priv_csr(m, uepc), v)
  BY <1>2, <1>8, <1>9, WriteCsr
<1>12. h4 \in HartState /\ h4.gpr_staged = h.gpr_staged /\ h4.pc_next = pn
  BY <1>8, <1>11 DEF CsrWritten
<1> HIDE DEF h4
<1>13. /\ Logs(h, h1) /\ Len(h1.csr_staged) = Len(h.csr_staged) + 1
       /\ h1.csr_staged[Len(h.csr_staged) + 1].next = cause
  BY <1>2, <1>3, LogCsr
<1>14. Logs(h1, h2) /\ Len(h2.csr_staged) = Len(h1.csr_staged) + 1
  BY <1>2, <1>4, <1>5, LogCsr
<1>15. Logs(h2, h3)
  BY <1>6, <1>8, LogNothing
<1>16. /\ Logs(h3, h4) /\ Len(h4.csr_staged) = Len(h3.csr_staged) + 1
       /\ h4.csr_staged[Len(h3.csr_staged) + 1].next = v
  BY <1>2, <1>8, <1>9, <1>11, LogCsr
<1>17. Logs(h, h4) /\ Logs(h1, h4)
  BY <1>4, <1>6, <1>8, <1>12, <1>13, <1>14, <1>15, <1>16, LogBoth
<1>18. /\ Len(h4.csr_staged) = Len(h.csr_staged) + 3 /\ Len(h3.csr_staged) + 1 = Len(h.csr_staged) + 3
       /\ Len(h.csr_staged) + 1 \in 1 .. Len(h1.csr_staged)
  BY <1>1, <1>8, <1>13, <1>14, <1>16
<1>19. h4.csr_staged[Len(h.csr_staged) + 1].next = cause
  BY <1>13, <1>17, <1>18 DEF Logs
<1>20. h1.csrs \in [Csrs -> Word] /\ h2.csrs \in [Csrs -> Word]
  BY <1>4, <1>6 DEF HartState
<1>21. /\ h4.csrs[priv_csr(m, ucause)] = cause /\ h4.csrs[priv_csr(m, uepc)] = v
       /\ h4.csrs[priv_csr(m, utvec)] = h2.csrs[priv_csr(m, utvec)]
  BY <1>1, <1>2, <1>3, <1>5, <1>8, <1>11, <1>20, TrapCsrsDiffer DEF CsrWritten, TrapCsrs
<1>22. pn = vectored(base_addr(h4.csrs[priv_csr(m, utvec)]), cause)
  BY <1>21 DEF pn
<1> QED
  BY <1>9, <1>10, <1>12, <1>16, <1>17, <1>18, <1>19, <1>21, <1>22 DEF TrapRecord
-----------------------------------------------------------------------------
(* One instruction.                                                        *)

\* fetch() returns an instruction that exec() can execute.
LEMMA Fetch == TypeOK => OpOK(fetch)
<1> SUFFICES ASSUME TypeOK PROVE OpOK(fetch)
  OBVIOUS
<1>1. IsPageMap(page) /\ hart.pc \in Word
  BY DEF TypeOK, MemTypeOK, HartState
<1>2. read32(hart.pc) \in Word
  BY <1>1, LoadType DEF read32
<1>3. Half \subseteq Word
  BY Widths DEF Half, Word, BitPos
<1>4. Offset(read32(hart.pc), 0, HalfLen - 1) \in Word
  BY <1>3, Fields
<1> QED
  BY <1>2, <1>4, DecodeAssumption DEF fetch

\* What step() does before exec(): perhaps an access fault, nothing else.
LEMMA Begin ==
  ASSUME TypeOK, NEW op
  PROVE  TrapEffect(hart, begin(op))
<1> DEFINE h == [hart EXCEPT !.pc_next = Plus(hart.pc, length(op))]
<1>1. /\ h \in HartState /\ h.x = hart.x /\ h.mode = hart.mode /\ h.pc = hart.pc
      /\ h.is_done = hart.is_done /\ h.csrs = hart.csrs
  BY PlusType DEF TypeOK, HartState
<1> HIDE DEF h
<1>2. TrapEffect(h, trap(h, exp_inst_access_fault))
  BY <1>1, Trap, SmallWords DEF trap
<1>3. begin(op) = IF is_valid_pc(hart.pc) THEN h ELSE trap(h, exp_inst_access_fault)
  BY DEF begin, h
<1> QED
  BY <1>1, <1>2, <1>3 DEF TrapEffect

\* What an instruction executed in state h may do to the hart: it keeps the
\* type and x0, and every CSR it changes is writable in the mode, unless it is
\* mret; mstatus is changed only by mret and by a CSR instruction that names it.
Executed(op, h, g) ==
  /\ g \in HartState
  /\ g.x[0] = h.x[0]
  /\ \A c \in Csrs : g.csrs[c] # h.csrs[c] =>
       /\ can_write(h.mode, c) \/ (c = mstatus /\ op.tgt = "mret")
       /\ c = mstatus => op.tgt = "mret" \/ (op.tgt = "csr" /\ op.imm = mstatus)

\* A trap is such a step.
LEMMA TrapExecuted ==
  ASSUME NEW op, NEW h \in HartState, NEW g, TrapEffect(h, g)
  PROVE  Executed(op, h, g)
<1>1. h.mode \in Privilege
  BY DEF HartState
<1> QED
  BY <1>1, TrapCsrsOK DEF TrapEffect, Executed

\* So is every instruction.
LEMMA Exec ==
  ASSUME MemTypeOK, NEW op, OpOK(op), NEW h \in HartState, exec(op, h)
  PROVE  MemTypeOK' /\ Executed(op, h, hart')
<1> DEFINE addr == Add(h.x[op.rs1], op.imm)
<1>1. /\ op.rd \in Regs /\ op.rs2 \in Regs /\ op.imm \in Word
      /\ h.x \in [Regs -> Word] /\ h.csrs \in [Csrs -> Word] /\ h.pc \in Word
      /\ h.mode \in Privilege
  BY DEF OpOK, Op, HartState
<1>2. UNCHANGED memVars => MemTypeOK'
  BY DEF memVars, MemTypeOK, IsPageMap
<1>3. ASSUME NEW v \in Word, hart' = write_gpr(h, op.rd, v)
      PROVE  Executed(op, h, hart')
  <2>1. GprWritten(h, hart')
    BY <1>1, <1>3, WriteGpr
  <2> QED
    BY <2>1 DEF Executed, GprWritten
<1>4. CASE handle_branch(op, h)
  <2>1. Add(h.pc, op.imm) \in Word
    BY PlusType DEF Add
  <2> QED
    BY <1>2, <1>4, <2>1 DEF handle_branch, Executed, HartState
<1>5. CASE handle_alu(op, h)
  <2> DEFINE opd_1 == IF op.use_pc THEN h.pc ELSE h.x[op.rs1]
             opd_2 == IF op.has_imm THEN op.imm ELSE h.x[op.rs2]
             res   == do_alu(op.opt, opd_1, opd_2)
             g     == write_gpr(h, op.rd, Plus(h.pc, length(op)))
  <2>1. op.opt \in AluOps /\ op.rs1 \in Regs
    BY <1>5 DEF handle_alu, OpOK
  <2>2. res \in Word
    BY <1>1, <2>1, AluType
  <2> HIDE DEF res
  <2>3. CASE op.opt \in {"jal", "jalr"}
    <3>1. hart' = [g EXCEPT !.pc_next = res]
      BY <1>5, <2>3 DEF handle_alu, res
    <3>2. GprWritten(h, g)
      BY <1>1, PlusType, WriteGpr
    <3>3. hart' \in HartState /\ hart'.x = g.x /\ hart'.csrs = g.csrs
      BY <2>2, <3>1, <3>2 DEF GprWritten, HartState
    <3> QED
      BY <1>2, <1>5, <3>2, <3>3 DEF handle_alu, GprWritten, Executed
  <2>4. CASE op.opt \notin {"jal", "jalr"}
    <3>1. hart' = write_gpr(h, op.rd, res)
      BY <1>5, <2>4 DEF handle_alu, res
    <3> QED
      BY <1>2, <1>3, <1>5, <2>2, <3>1 DEF handle_alu
  <2> QED
    BY <2>3, <2>4
<1>6. CASE handle_load(op, h)
  <2>1. addr \in Word /\ IsPageMap(page)
    BY PlusType DEF Add, MemTypeOK
  <2> HIDE DEF addr
  <2>2. /\ read8(addr) \in Byte /\ read16(addr) \in Half /\ read32(addr) \in Word
    BY <2>1, RouterByte, LoadType DEF read16, read32
  <2>3. /\ \A b \in Byte : b \in Word /\ SignExtend(b, ByteLen) \in Word
        /\ \A b \in Half : b \in Word /\ SignExtend(b, HalfLen) \in Word
    BY Widths DEF Byte, Half, Word, BitPos, SignExtend
  <2>4. op.opt \in {"lb", "lh", "lw", "lbu", "lhu"}
    BY <1>6 DEF handle_load, OpOK
  <2>5. PICK v \in Word : hart' = write_gpr(h, op.rd, v)
    BY <1>6, <2>2, <2>3, <2>4 DEF handle_load, addr
  <2> QED
    BY <1>2, <1>3, <1>6, <2>5 DEF handle_load
<1>7. CASE store(op, h)
  <2>1. addr \in Word
    BY PlusType DEF Add
  <2> HIDE DEF addr
  <2>2. Executed(op, h, hart')
    BY <1>7 DEF store, Executed, HartState
  <2>3. CASE write8(addr, Offset(h.x[op.rs2], 0, ByteLen - 1))
    BY <2>1, <2>2, <2>3, RouterByte, Fields
  <2>4. ASSUME NEW v, write16(addr, v) \/ write32(addr, v) PROVE MemTypeOK'
    <3>1. IsPageMap(page') /\ UNCHANGED <<mtime, mtimecmp>>
      BY <2>1, <2>4, StoreType DEF write16, write32, MemTypeOK
    <3> QED
      BY <3>1 DEF MemTypeOK, IsPageMap
  <2> QED
    BY <1>7, <2>2, <2>3, <2>4 DEF store, addr
<1>8. CASE csr(op, h)
  <2> DEFINE reads  == op.opt # "csrrwi" \/ op.rd # 0
             writes == op.opt \in {"csrrs", "csrrc"} => op.rs1 # 0
             tmp    == IF reads THEN h.csrs[op.imm] ELSE {}
             I      == IF op.opt \in {"csrrw", "csrrs", "csrrc"} THEN h.x[op.rs1]
                       ELSE ToWord(op.rs1)
             val    == CASE op.opt \in {"csrrw", "csrrwi"} -> I
                         [] op.opt \in {"csrrs", "csrrsi"} -> I \cup tmp
                         [] op.opt \in {"csrrc", "csrrci"} -> tmp \cap logical_not(I)
             legal  == (reads => can_read(h.mode, op.imm)) /\ (writes => can_write(h.mode, op.imm))
             g      == IF writes THEN write_csr(h, op.imm, val) ELSE h
  <2>1. /\ op.imm \in Csrs /\ op.tgt = "csr"
        /\ op.opt \in {"csrrw", "csrrs", "csrrc", "csrrwi", "csrrsi", "csrrci"}
        /\ op.opt \in {"csrrw", "csrrs", "csrrc"} => op.rs1 \in Regs
    BY <1>8 DEF csr, OpOK
  <2>2. tmp \in Word
    BY <1>1, <2>1, SmallWords
  <2>3. I \in Word
    BY <1>1, <2>1 DEF ToWord, Word
  <2> HIDE DEF tmp, I
  <2>4. val \in Word
    BY <2>1, <2>2, <2>3 DEF Word
  <2>5. hart' = IF legal THEN write_gpr(g, op.rd, tmp) ELSE trap(h, exp_inst_illegal)
    BY <1>8 DEF csr, tmp, I
  <2> HIDE DEF val
  <2>6. CASE legal
    <3>1. g = h \/ (can_write(h.mode, op.imm) /\ CsrWritten(h, g, op.imm, val))
      BY <2>1, <2>4, <2>6, WriteCsr
    <3>2. g \in HartState /\ g.x = h.x
      BY <3>1 DEF CsrWritten
    <3>3. \A c \in Csrs : g.csrs[c] # h.csrs[c] => c = op.imm /\ can_write(h.mode, c)
      BY <1>1, <2>1, <3>1 DEF CsrWritten
    <3> HIDE DEF g
    <3>4. GprWritten(g, hart')
      BY <1>1, <2>2, <2>5, <2>6, <3>2, WriteGpr
    <3>5. Executed(op, h, hart')
      BY <2>1, <3>2, <3>3, <3>4 DEF GprWritten, Executed
    <3> QED
      BY <1>2, <1>8, <3>5 DEF csr
  <2>7. CASE ~legal
    <3>1. TrapEffect(h, hart')
      BY <2>5, <2>7, Trap, SmallWords DEF trap
    <3> QED
      BY <1>2, <1>8, <3>1, TrapExecuted DEF csr
  <2> QED
    BY <2>6, <2>7
<1>9. CASE handle_mret(op, h)
  <2> DEFINE s == h.csrs[mstatus]
             t == ((s \ {MIE}) \cup {MPIE, MPP, MPP + 1}) \cup (IF MPIE \in s THEN {MIE} ELSE {})
             g == write_csr(h, mstatus, t)
  <2>1. mstatus \in Csrs /\ mepc \in Csrs
    BY HartAssumption DEF mepc, Machine, Privilege
  <2>2. t \in Word
    BY <1>1, <2>1, SmallWords DEF Word
  <2> HIDE DEF t
  <2>3. CsrWritten(h, g, mstatus, t)
    BY <2>1, <2>2, WriteCsr
  <2>4. Offset(s, MPP, MPP + 1) \in Privilege
    BY DEF Offset, Privilege, MPP
  <2>5. hart' = [g EXCEPT !.pc_next = h.csrs[mepc], !.mode = Offset(s, MPP, MPP + 1)]
    BY <1>9 DEF handle_mret, t
  <2> HIDE DEF g
  <2>6. hart' \in HartState /\ hart'.x = h.x /\ hart'.csrs = [h.csrs EXCEPT ![mstatus] = t]
    BY <1>1, <2>1, <2>3, <2>4, <2>5 DEF CsrWritten, HartState
  <2>7. \A c \in Csrs : c # mstatus => hart'.csrs[c] = h.csrs[c]
    BY <1>1, <2>6
  <2> QED
    BY <1>2, <1>9, <2>6, <2>7 DEF handle_mret, Executed
<1>10. CASE ecall(op, h)
  <2> DEFINE t == trap(h, ecall_cause(h.mode))
  <2>1. TrapEffect(h, t)
    BY <1>1, Trap, SmallWords DEF trap
  <2> HIDE DEF t
  <2>2. Executed(op, h, t)
    BY <2>1, TrapExecuted
  <2>3. CASE hart' = t /\ UNCHANGED memVars
    BY <1>2, <2>2, <2>3
  <2>4. CASE write32(tohost_addr, h.x[10]) /\ hart' = [t EXCEPT !.is_done = TRUE]
    <3>1. IsPageMap(page') /\ UNCHANGED <<mtime, mtimecmp>>
      BY <2>4, StoreType, HartAssumption DEF write32, MemTypeOK
    <3>2. MemTypeOK'
      BY <3>1 DEF MemTypeOK, IsPageMap
    <3>3. hart' \in HartState /\ hart'.x = t.x /\ hart'.csrs = t.csrs
      BY <2>2, <2>4 DEF Executed, HartState
    <3> QED
      BY <2>2, <3>2, <3>3 DEF Executed
  <2> QED
    BY <1>10, <2>3, <2>4 DEF ecall, t
<1>11. CASE illegal(op, h) \/ ebreak(op, h)
  <2>1. TrapEffect(h, hart')
    BY <1>11, Trap, SmallWords DEF illegal, ebreak, trap
  <2> QED
    BY <1>2, <1>11, <2>1, TrapExecuted DEF illegal, ebreak
<1> QED
  BY <1>4, <1>5, <1>6, <1>7, <1>8, <1>9, <1>10, <1>11 DEF exec
-----------------------------------------------------------------------------
(* What an instruction leaves for the log.                                 *)

Exceptions == EcallCauses \cup {exp_inst_access_fault, exp_inst_illegal, exp_breakpoint}

\* Exceptions have a cause, and are not vectored.
LEMMA ExceptionCauses ==
  /\ Exceptions \subseteq Word
  /\ \A cause \in Exceptions : cause # {} /\ \A a : vectored(a, cause) = a
  /\ \A m \in Privilege : ecall_cause(m) \in EcallCauses
<1>1. 0 .. 12 \subseteq BitPos /\ SignBit \notin 0 .. 10
  BY XLENAssumption, HartAssumption DEF BitPos, SignBit
<1>2. \A cause \in Exceptions : cause # {} /\ cause \subseteq 0 .. 10
  BY DEF Exceptions, EcallCauses, exp_inst_access_fault, exp_inst_illegal, exp_breakpoint
<1>3. \A m \in Privilege : m \in {{}, {0}, {1}, {0, 1}}
  BY DEF Privilege
<1>4. \A m \in Privilege : ecall_cause(m) \in EcallCauses
  BY <1>3 DEF ecall_cause, Machine, EcallCauses
<1>5. Exceptions \subseteq Word
  BY <1>1, <1>2 DEF Word
<1>6. ASSUME NEW cause \in Exceptions, NEW a PROVE vectored(a, cause) = a
  BY <1>1, <1>2 DEF vectored
<1> QED
  BY <1>2, <1>4, <1>5, <1>6

\* Two halves of a value put together again.
LEMMA Halves ==
  ASSUME NEW n \in Nat, NEW v \in SUBSET (0 .. (2 * n - 1))
  PROVE  Offset(v, 0, n - 1) \cup Shift(Offset(v, n, 2 * n - 1), n) = v
<1>1. Offset(v, 0, n - 1) = v \cap (0 .. (n - 1))
  <2>1. \A i \in v : i - 0 = i
    OBVIOUS
  <2> QED
    BY <2>1 DEF Offset
<1>2. Shift(Offset(v, n, 2 * n - 1), n) = v \cap (n .. (2 * n - 1))
  <2>1. \A i \in v : (i - n) + n = i
    OBVIOUS
  <2> QED
    BY <2>1 DEF Offset, Shift
<1>3. v \subseteq (0 .. (n - 1)) \cup (n .. (2 * n - 1))
  OBVIOUS
<1> QED
  BY <1>1, <1>2, <1>3

\* The word that is written to tohost is the word that is read from there.
LEMMA TohostWord ==
  ASSUME NEW p, IsPageMap(p), NEW v \in Word
  PROVE  SparseRead32(SparseWrite32(p, tohost_addr, v), tohost_addr) = v
<1> DEFINE a  == tohost_addr
           b  == Plus(a, 2)
           lo == Offset(v, 0, HalfLen - 1)
           hi == Offset(v, HalfLen, XLEN - 1)
           b1 == Offset(lo, 0, ByteLen - 1)
           b2 == Offset(lo, ByteLen, HalfLen - 1)
           b3 == Offset(hi, 0, ByteLen - 1)
           b4 == Offset(hi, ByteLen, HalfLen - 1)
           p1 == SparseWrite8(p, a, b1)
           p2 == SparseWrite8(p1, Plus(a, 1), b2)
           p3 == SparseWrite8(p2, b, b3)
           p4 == SparseWrite8(p3, Plus(b, 1), b4)
<1>1. SparseWrite32(p, a, v) = p4
  BY DEF SparseWrite32, SparseWrite16
<1>2. /\ a # b /\ Plus(a, 1) # a /\ Plus(a, 1) # b /\ Plus(b, 1) # b
      /\ Plus(b, 1) # a /\ Plus(b, 1) # Plus(a, 1)
  <2>1. a \in Word
    BY HartAssumption
  <2>2. Plus(a, 0) = a /\ Plus(b, 1) = Plus(a, 3)
    <3>1. 2 \in Nat /\ 1 \in Nat /\ 2 + 1 = 3
      OBVIOUS
    <3> QED
      BY <2>1, <3>1, PlusValue
  <2>3. \A m, n \in 0 .. 15 : Plus(a, m) = Plus(a, n) => m = n
    BY <2>1, PlusDistinct
  <2> QED
    BY <2>2, <2>3
<1>3. a \in Word /\ b \in Word /\ Plus(a, 1) \in Word /\ Plus(b, 1) \in Word
  BY HartAssumption, PlusType
<1>4. /\ lo \in Half /\ hi \in Half
      /\ b1 \in Byte /\ b2 \in Byte
      /\ b3 \in Byte /\ b4 \in Byte
  BY Fields
<1>5. /\ b1 \cup Shift(b2, ByteLen) = lo
      /\ b3 \cup Shift(b4, ByteLen) = hi
  BY <1>4, Widths, Halves DEF Half
<1>6. lo \cup Shift(hi, HalfLen) = v
  <2>1. v \in SUBSET (0 .. (2 * HalfLen - 1)) /\ XLEN = 2 * HalfLen /\ HalfLen \in Nat
    BY Widths DEF Word, BitPos
  <2> QED
    BY <2>1, Halves
<1> HIDE DEF a, b, lo, hi, b1, b2, b3, b4, p1, p2, p3, p4
<1>7. /\ IsPageMap(p1)
      /\ \A x \in Word : SparseRead8(p1, x) =
            IF x = a THEN b1 ELSE SparseRead8(p, x)
  BY <1>3, <1>4, StoreByte DEF p1
<1>8. /\ IsPageMap(p2)
      /\ \A x \in Word : SparseRead8(p2, x) =
            IF x = Plus(a, 1) THEN b2 ELSE SparseRead8(p1, x)
  BY <1>3, <1>4, <1>7, StoreByte DEF p2
<1>9. /\ IsPageMap(p3)
      /\ \A x \in Word : SparseRead8(p3, x) =
            IF x = b THEN b3 ELSE SparseRead8(p2, x)
  BY <1>3, <1>4, <1>8, StoreByte DEF p3
<1>10. \A x \in Word : SparseRead8(p4, x) =
            IF x = Plus(b, 1) THEN b4 ELSE SparseRead8(p3, x)
  BY <1>3, <1>4, <1>9, StoreByte DEF p4
<1>11. /\ SparseRead8(p4, a) = b1
       /\ SparseRead8(p4, Plus(a, 1)) = b2
       /\ SparseRead8(p4, b) = b3
       /\ SparseRead8(p4, Plus(b, 1)) = b4
  BY <1>2, <1>3, <1>7, <1>8, <1>9, <1>10
<1>12. SparseRead16(p4, a) = lo /\ SparseRead16(p4, b) = hi
  BY <1>5, <1>11 DEF SparseRead16
<1>13. SparseRead32(p4, a) = v
  BY <1>6, <1>12 DEF SparseRead32, b
<1> QED
  BY <1>1, <1>13 DEF a

\* How an instruction executed in state h ends: it stages what it changes, and at
\* most one CSR change, or it traps and writes no register; a trap that stops
\* the simulation has put a0 where run() finds it.
Ends(h, g) ==
  /\ Logs(h, g)
  /\ \/ Len(g.csr_staged) <= Len(h.csr_staged) + 1
     \/ /\ \E cause \in Exceptions : TrapRecord(h, g, cause)
        /\ g.mode = h.mode
        /\ g.is_done = h.is_done \/ read32(tohost_addr)' = g.x[10]

\* A trap for an exception is such an end.
LEMMA TrapEnds ==
  ASSUME NEW h \in HartState, NEW cause \in Exceptions
  PROVE  Ends(h, trap(h, cause))
<1>1. cause \in Word
  BY ExceptionCauses
<1>2. TrapRecord(h, trap(h, cause), cause) /\ TrapEffect(h, trap(h, cause))
  BY <1>1, TrapLog, Trap DEF trap
<1> QED
  BY <1>2 DEF Ends, TrapRecord, TrapEffect

\* Every instruction ends that way.
LEMMA ExecEnds ==
  ASSUME MemTypeOK, NEW op, OpOK(op), NEW h \in HartState, exec(op, h)
  PROVE  Ends(h, hart')
<1>1. /\ op.rd \in Regs /\ op.rs2 \in Regs /\ op.imm \in Word
      /\ h.x \in [Regs -> Word] /\ h.csrs \in [Csrs -> Word] /\ h.pc \in Word
      /\ h.mode \in Privilege /\ Len(h.csr_staged) \in Nat
  BY DEF OpOK, Op, HartState
<1>2. ASSUME NEW g, Logs(h, g), g.csr_staged = h.csr_staged PROVE Ends(h, g)
  BY <1>1, <1>2 DEF Ends
<1>3. ASSUME NEW r \in Regs, NEW v \in Word
      PROVE  /\ Logs(h, write_gpr(h, r, v)) /\ write_gpr(h, r, v) \in HartState
             /\ write_gpr(h, r, v).csr_staged = h.csr_staged
  BY LogGpr, WriteGpr DEF GprWritten
<1>4. CASE handle_branch(op, h)
  <2>1. /\ hart'.pc = h.pc /\ hart'.csr_staged = h.csr_staged /\ hart'.csrs = h.csrs
        /\ hart'.gpr_staged = h.gpr_staged /\ hart'.x = h.x
    BY <1>4 DEF handle_branch, HartState
  <2> QED
    BY <1>2, <2>1, LogNothing
<1>5. CASE handle_alu(op, h)
  <2> DEFINE opd_1 == IF op.use_pc THEN h.pc ELSE h.x[op.rs1]
             opd_2 == IF op.has_imm THEN op.imm ELSE h.x[op.rs2]
             res   == do_alu(op.opt, opd_1, opd_2)
             g     == write_gpr(h, op.rd, Plus(h.pc, length(op)))
  <2>1. op.opt \in AluOps /\ op.rs1 \in Regs
    BY <1>5 DEF handle_alu, OpOK
  <2>2. res \in Word
    BY <1>1, <2>1, AluType
  <2> HIDE DEF res
  <2>3. CASE op.opt \in {"jal", "jalr"}
    <3>1. hart' = [g EXCEPT !.pc_next = res]
      BY <1>5, <2>3 DEF handle_alu, res
    <3>2. Logs(h, g) /\ g \in HartState /\ g.csr_staged = h.csr_staged
      BY <1>1, <1>3, PlusType
    <3> HIDE DEF g
    <3>3. /\ hart' \in HartState /\ hart'.pc = g.pc /\ hart'.csr_staged = g.csr_staged
          /\ hart'.csrs = g.csrs /\ hart'.gpr_staged = g.gpr_staged /\ hart'.x = g.x
      BY <2>2, <3>1, <3>2 DEF HartState
    <3>4. Logs(g, hart')
      BY <3>2, <3>3, LogNothing
    <3>5. Logs(h, hart')
      BY <3>2, <3>3, <3>4, LogBoth
    <3> QED
      BY <1>2, <3>2, <3>3, <3>5
  <2>4. CASE op.opt \notin {"jal", "jalr"}
    <3>1. hart' = write_gpr(h, op.rd, res)
      BY <1>5, <2>4 DEF handle_alu, res
    <3> QED
      BY <1>1, <1>2, <1>3, <2>2, <3>1
  <2> QED
    BY <2>3, <2>4
<1>6. CASE handle_load(op, h)
  <2> DEFINE addr == Add(h.x[op.rs1], op.imm)
  <2>1. addr \in Word /\ IsPageMap(page)
    BY PlusType DEF Add, MemTypeOK
  <2> HIDE DEF addr
  <2>2. /\ read8(addr) \in Byte /\ read16(addr) \in Half /\ read32(addr) \in Word
    BY <2>1, RouterByte, LoadType DEF read16, read32
  <2>3. /\ \A b \in Byte : b \in Word /\ SignExtend(b, ByteLen) \in Word
        /\ \A b \in Half : b \in Word /\ SignExtend(b, HalfLen) \in Word
    BY Widths DEF Byte, Half, Word, BitPos, SignExtend
  <2>4. op.opt \in {"lb", "lh", "lw", "lbu", "lhu"}
    BY <1>6 DEF handle_load, OpOK
  <2>5. PICK v \in Word : hart' = write_gpr(h, op.rd, v)
    BY <1>6, <2>2, <2>3, <2>4 DEF handle_load, addr
  <2> QED
    BY <1>1, <1>2, <1>3, <2>5
<1>7. CASE store(op, h)
  <2>1. /\ hart'.pc = h.pc /\ hart'.csr_staged = h.csr_staged /\ hart'.csrs = h.csrs
        /\ hart'.gpr_staged = h.gpr_staged /\ hart'.x = h.x
    BY <1>7 DEF store, HartState
  <2> QED
    BY <1>2, <2>1, LogNothing
<1>8. CASE csr(op, h)
  <2> DEFINE reads  == op.opt # "csrrwi" \/ op.rd # 0
             writes == op.opt \in {"csrrs", "csrrc"} => op.rs1 # 0
             tmp    == IF reads THEN h.csrs[op.imm] ELSE {}
             I      == IF op.opt \in {"csrrw", "csrrs", "csrrc"} THEN h.x[op.rs1]
                       ELSE ToWord(op.rs1)
             val    == CASE op.opt \in {"csrrw", "csrrwi"} -> I
                         [] op.opt \in {"csrrs", "csrrsi"} -> I \cup tmp
                         [] op.opt \in {"csrrc", "csrrci"} -> tmp \cap logical_not(I)
             legal  == (reads => can_read(h.mode, op.imm)) /\ (writes => can_write(h.mode, op.imm))
             g      == IF writes THEN write_csr(h, op.imm, val) ELSE h
  <2>1. /\ op.imm \in Csrs
        /\ op.opt \in {"csrrw", "csrrs", "csrrc", "csrrwi", "csrrsi", "csrrci"}
        /\ op.opt \in {"csrrw", "csrrs", "csrrc"} => op.rs1 \in Regs
    BY <1>8 DEF csr, OpOK
  <2>2. tmp \in Word
    BY <1>1, <2>1, SmallWords
  <2>3. I \in Word
    BY <1>1, <2>1 DEF ToWord, Word
  <2> HIDE DEF tmp, I
  <2>4. val \in Word
    BY <2>1, <2>2, <2>3 DEF Word
  <2>5. hart' = IF legal THEN write_gpr(g, op.rd, tmp) ELSE trap(h, exp_inst_illegal)
    BY <1>8 DEF csr, tmp, I
  <2> HIDE DEF val
  <2>6. CASE legal
    <3>1. g = h \/ CsrWritten(h, g, op.imm, val)
      BY <2>1, <2>4, WriteCsr
    <3> HIDE DEF g
    <3>2. g \in HartState /\ Logs(h, g) /\ Len(g.csr_staged) <= Len(h.csr_staged) + 1
      <4>1. CASE g = h
        <5>1. Logs(h, g)
          BY <4>1, LogNothing
        <5> QED
          BY <1>1, <4>1, <5>1
      <4>2. CASE CsrWritten(h, g, op.imm, val)
        <5>1. Logs(h, g) /\ Len(g.csr_staged) = Len(h.csr_staged) + 1
          BY <2>1, <2>4, <4>2, LogCsr
        <5>2. Len(h.csr_staged) + 1 <= Len(h.csr_staged) + 1
          BY <1>1
        <5>3. g \in HartState
          BY <4>2 DEF CsrWritten
        <5> QED
          BY <5>1, <5>2, <5>3
      <4> QED
        BY <3>1, <4>1, <4>2
    <3>3. hart' = write_gpr(g, op.rd, tmp)
      BY <2>5, <2>6
    <3>4. /\ Logs(g, hart') /\ hart' \in HartState /\ hart'.csr_staged = g.csr_staged
      BY <1>1, <2>2, <3>2, <3>3, LogGpr, WriteGpr DEF GprWritten
    <3>5. Logs(h, hart')
      BY <3>2, <3>4, LogBoth
    <3> QED
      BY <3>2, <3>4, <3>5 DEF Ends
  <2>7. CASE ~legal
    BY <2>5, <2>7, TrapEnds DEF Exceptions
  <2> QED
    BY <2>6, <2>7
<1>9. CASE handle_mret(op, h)
  <2> DEFINE s == h.csrs[mstatus]
             t == ((s \ {MIE}) \cup {MPIE, MPP, MPP + 1}) \cup (IF MPIE \in s THEN {MIE} ELSE {})
             g == write_csr(h, mstatus, t)
  <2>1. mstatus \in Csrs /\ mepc \in Csrs
    BY HartAssumption DEF mepc, Machine, Privilege
  <2>2. t \in Word
    BY <1>1, <2>1, SmallWords DEF Word
  <2> HIDE DEF t
  <2>3. CsrWritten(h, g, mstatus, t)
    BY <2>1, <2>2, WriteCsr
  <2>4. hart' = [g EXCEPT !.pc_next = h.csrs[mepc], !.mode = Offset(s, MPP, MPP + 1)]
    BY <1>9 DEF handle_mret, t
  <2> HIDE DEF g
  <2>5. g \in HartState /\ Logs(h, g) /\ Len(g.csr_staged) = Len(h.csr_staged) + 1
    BY <2>1, <2>2, <2>3, LogCsr DEF CsrWritten
  <2>6. hart' \in HartState
    <3>1. Offset(s, MPP, MPP + 1) \in Privilege
      BY DEF Offset, Privilege, MPP
    <3>2. h.csrs[mepc] \in Word
      BY <1>1, <2>1
    <3> QED
      BY <2>4, <2>5, <3>1, <3>2 DEF HartState
  <2>7. /\ hart'.pc = g.pc /\ hart'.csr_staged = g.csr_staged
        /\ hart'.csrs = g.csrs /\ hart'.gpr_staged = g.gpr_staged /\ hart'.x = g.x
    BY <2>4, <2>5 DEF HartState
  <2>8. Logs(h, hart')
    BY <2>5, <2>6, <2>7, LogNothing, LogBoth
  <2>9. Len(hart'.csr_staged) <= Len(h.csr_staged) + 1
    BY <1>1, <2>5, <2>7
  <2> QED
    BY <2>8, <2>9 DEF Ends
<1>10. CASE ecall(op, h)
  <2> DEFINE cause == ecall_cause(h.mode)
             t == trap(h, cause)
  <2>1. cause \in Exceptions
    BY <1>1, ExceptionCauses DEF Exceptions
  <2>2. CASE hart' = t
    BY <2>1, <2>2, TrapEnds
  <2>3. CASE write32(tohost_addr, h.x[10]) /\ hart' = [t EXCEPT !.is_done = TRUE]
    <3>1. cause \in Word
      BY <2>1, ExceptionCauses
    <3>2. TrapRecord(h, t, cause) /\ TrapEffect(h, t)
      BY <3>1, TrapLog, Trap DEF trap
    <3> HIDE DEF t
    <3>3. /\ hart'.pc = t.pc /\ hart'.csr_staged = t.csr_staged /\ hart'.pc_next = t.pc_next
          /\ hart'.csrs = t.csrs /\ hart'.gpr_staged = t.gpr_staged /\ hart'.x = t.x
          /\ hart'.mode = t.mode
      BY <2>3, <3>2 DEF TrapEffect, HartState
    <3>4. Logs(h, t) => Logs(h, hart')
      BY <3>3 DEF Logs
    <3>5. TrapRecord(h, hart', cause)
      BY <3>2, <3>3, <3>4 DEF TrapRecord
    <3>6. 10 \in Regs
      BY HartAssumption
    <3>7. read32(tohost_addr)' = h.x[10]
      BY <1>1, <2>3, <3>6, TohostWord DEF write32, read32, MemTypeOK
    <3>8. hart'.mode = h.mode /\ hart'.x = h.x
      BY <3>2, <3>3 DEF TrapEffect
    <3> QED
      BY <2>1, <3>5, <3>7, <3>8 DEF Ends, TrapRecord
  <2> QED
    BY <1>10, <2>2, <2>3 DEF ecall
<1>11. CASE illegal(op, h) \/ ebreak(op, h)
  BY <1>11, TrapEnds DEF illegal, ebreak, Exceptions
<1> QED
  BY <1>4, <1>5, <1>6, <1>7, <1>8, <1>9, <1>10, <1>11 DEF exec

\* step() before exec(): nothing is staged at a valid pc; elsewhere the access
\* fault is.
LEMMA BeginLog ==
  ASSUME TypeOK, NEW op
  PROVE  /\ Logs(hart, begin(op))
         /\ is_valid_pc(hart.pc) => begin(op).csr_staged = hart.csr_staged
                                   /\ begin(op).gpr_staged = hart.gpr_staged
         /\ ~is_valid_pc(hart.pc) =>
              /\ Len(begin(op).csr_staged) = Len(hart.csr_staged) + 3
              /\ begin(op).csr_staged[Len(hart.csr_staged) + 1].next = exp_inst_access_fault
              /\ begin(op).csr_staged[Len(hart.csr_staged) + 3].next =
                   base_addr(Plus(base_addr(hart.pc), 4))
<1> DEFINE h == [hart EXCEPT !.pc_next = Plus(hart.pc, length(op))]
           g == trap(h, exp_inst_access_fault)
<1>1. /\ hart \in HartState /\ h \in HartState /\ h.pc = hart.pc /\ h.csr_staged = hart.csr_staged
      /\ h.csrs = hart.csrs /\ h.gpr_staged = hart.gpr_staged /\ h.x = hart.x
  BY PlusType DEF TypeOK, HartState
<1>2. begin(op) = IF is_valid_pc(hart.pc) THEN h ELSE g
  BY DEF begin
<1> HIDE DEF h
<1>3. Logs(hart, h)
  BY <1>1, LogNothing
<1>4. TrapRecord(h, g, exp_inst_access_fault) /\ g \in HartState
  BY <1>1, SmallWords, TrapLog, Trap DEF trap, TrapEffect
<1> HIDE DEF g
<1>5. saved_pc(h.pc, exp_inst_access_fault) = base_addr(Plus(base_addr(hart.pc), 4))
  BY <1>1 DEF saved_pc, EcallCauses, exp_breakpoint, exp_inst_access_fault
<1>6. Logs(hart, g)
  BY <1>1, <1>3, <1>4, LogBoth DEF TrapRecord
<1>7. CASE is_valid_pc(hart.pc)
  BY <1>1, <1>2, <1>3, <1>7
<1>8. CASE ~is_valid_pc(hart.pc)
  BY <1>1, <1>2, <1>4, <1>5, <1>6, <1>8 DEF TrapRecord
<1> QED
  BY <1>7, <1>8
-----------------------------------------------------------------------------
(* commit().                                                               *)

\* The state of mstatus in an interrupt handler.
Masked(g) == MIE \notin g.csrs[mstatus] /\ {MPIE, MPP, MPP + 1} \subseteq g.csrs[mstatus]

\* What the interrupt logic may do to the hart.
Interrupted(h, g) ==
  /\ g \in HartState
  /\ g.x = h.x /\ g.is_done = h.is_done
  /\ \A c \in Csrs : g.csrs[c] # h.csrs[c] => c \in TrapCsrs(h.mode) \cup {mstatus, mip}

\* A taken interrupt disables interrupts; a pending one that is not taken
\* leaves mstatus alone.
LEMMA TrapTimer ==
  ASSUME NEW h \in HartState
  PROVE  /\ Interrupted(h, trap_timer(h))
         /\ takes_interrupt(h) => Masked(trap_timer(h))
         /\ ~takes_interrupt(h) => trap_timer(h) = h
<1> DEFINE s  == h.csrs[mstatus]
           t  == ((s \ {MIE, MPIE}) \cup {MPP, MPP + 1}) \cup (IF MIE \in s THEN {MPIE} ELSE {})
           h1 == write_csr(h, mip, h.csrs[mip] \ {TimerIrq})
           h2 == write_csr(h1, mstatus, t)
           h3 == trap_to(h2, int_timer_m)
           g  == [h3 EXCEPT !.pc = h3.pc_next]
<1>1. CASE ~takes_interrupt(h)
  <2>1. trap_timer(h) = h
    BY <1>1 DEF trap_timer
  <2> QED
    BY <1>1, <2>1 DEF Interrupted
<1>2. CASE takes_interrupt(h)
  <2>1. mip \in Csrs /\ mstatus \in Csrs /\ h.csrs \in [Csrs -> Word] /\ h.mode \in Privilege
    BY HartAssumption DEF HartState
  <2>2. h.csrs[mip] \ {TimerIrq} \in Word /\ t \in Word
    BY <2>1, SmallWords DEF Word
  <2>3. MIE \notin t /\ {MPIE, MPP, MPP + 1} \subseteq t
    BY <1>2 DEF takes_interrupt, MIE, MPIE, MPP
  <2> HIDE DEF t
  <2>4. CsrWritten(h, h1, mip, h.csrs[mip] \ {TimerIrq})
    BY <2>1, <2>2, WriteCsr
  <2> HIDE DEF h1
  <2>5. CsrWritten(h1, h2, mstatus, t)
    <3>1. h1 \in HartState
      BY <2>4 DEF CsrWritten
    <3> QED
      BY <2>1, <2>2, <3>1, WriteCsr
  <2> HIDE DEF h2
  <2>6. /\ h2 \in HartState /\ h2.x = h.x /\ h2.mode = h.mode /\ h2.is_done = h.is_done
        /\ h2.csrs[mstatus] = t
        /\ \A c \in Csrs \ {mip, mstatus} : h2.csrs[c] = h.csrs[c]
    BY <2>1, <2>4, <2>5 DEF CsrWritten
  <2>7. TrapEffect(h2, h3)
    BY <2>6, Trap, SmallWords
  <2> HIDE DEF h3
  <2>8. /\ g \in HartState /\ g.x = h.x /\ g.csrs = h3.csrs /\ g.is_done = h.is_done
        /\ \A c \in Csrs \ TrapCsrs(h.mode) : g.csrs[c] = h2.csrs[c]
    BY <2>6, <2>7 DEF TrapEffect, HartState
  <2>9. trap_timer(h) = g
    BY <1>2 DEF trap_timer, h1, h2, h3, t
  <2> HIDE DEF g
  <2>10. Masked(g)
    BY <2>1, <2>3, <2>6, <2>8, TrapCsrsOK DEF Masked
  <2>11. Interrupted(h, g)
    BY <2>1, <2>6, <2>8, TrapCsrsOK DEF Interrupted
  <2> QED
    BY <1>2, <2>9, <2>10, <2>11
<1> QED
  BY <1>1, <1>2

\* commit() empties the staging lists and does to the CSRs what an interrupt does.
LEMMA CommitStep ==
  ASSUME TypeOK, commit
  PROVE  /\ TypeOK' /\ Interrupted(hart, hart')
         /\ hart'.gpr_staged = <<>> /\ hart'.csr_staged = <<>>
         /\ \/ handling' /\ Masked(hart')
            \/ handling' = handling /\ hart'.csrs[mstatus] = hart.csrs[mstatus]
<1> DEFINE h == [hart EXCEPT !.pc = hart.pc_next]
           q == set_pending(h)
           g == interrupt_pending(h)
<1>1. /\ h \in HartState /\ h.x = hart.x /\ h.csrs = hart.csrs /\ h.mode = hart.mode
      /\ h.is_done = hart.is_done
      /\ hart \in HartState /\ hart.csrs \in [Csrs -> Word]
  BY DEF TypeOK, HartState
<1> HIDE DEF h
<1>2. mip \in Csrs /\ mstatus \in Csrs /\ mip # mstatus
  BY HartAssumption DEF mip, mstatus
<1>3. h.csrs[mip] \cup {TimerIrq} \in Word
  BY <1>1, <1>2, SmallWords DEF Word
<1>4. CsrWritten(h, q, mip, h.csrs[mip] \cup {TimerIrq})
  BY <1>1, <1>2, <1>3, WriteCsr DEF set_pending
<1>5. CsrWritten(hart, set_pending(hart), mip, hart.csrs[mip] \cup {TimerIrq})
  BY <1>1, <1>2, <1>3, WriteCsr DEF set_pending
<1>6. takes_interrupt(set_pending(hart)) <=> takes_interrupt(q)
  BY <1>1, <1>4, <1>5 DEF CsrWritten, takes_interrupt
<1> HIDE DEF q
<1>7. /\ q \in HartState /\ q.x = h.x /\ q.mode = h.mode /\ q.is_done = h.is_done
      /\ \A c \in Csrs : c # mip => q.csrs[c] = h.csrs[c]
  BY <1>1, <1>4 DEF CsrWritten
<1>8. g = IF timer_due THEN trap_timer(q) ELSE h
  BY DEF interrupt_pending, q
<1>9. /\ Interrupted(hart, g)
      /\ timer_due /\ takes_interrupt(q) => Masked(g)
      /\ ~(timer_due /\ takes_interrupt(q)) => g.csrs[mstatus] = hart.csrs[mstatus]
  <2>1. CASE timer_due
    <3>1. Interrupted(q, g) /\ (takes_interrupt(q) => Masked(g)) /\ (~takes_interrupt(q) => g = q)
      BY <1>7, <1>8, <2>1, TrapTimer
    <3>2. Interrupted(hart, g)
      BY <1>1, <1>7, <3>1 DEF Interrupted
    <3>3. ~takes_interrupt(q) => g.csrs[mstatus] = hart.csrs[mstatus]
      BY <1>1, <1>2, <1>7, <3>1
    <3> QED
      BY <2>1, <3>1, <3>2, <3>3
  <2>2. CASE ~timer_due
    BY <1>1, <1>8, <2>2 DEF Interrupted
  <2> QED
    BY <2>1, <2>2
<1>10. hart' = [g EXCEPT !.gpr_staged = <<>>, !.csr_staged = <<>>]
  BY DEF commit, h
<1>11. handling' = (handling \/ (timer_due /\ takes_interrupt(q))) /\ at' = "step"
  BY <1>6 DEF commit
<1> HIDE DEF g
<1>12. /\ hart' \in HartState /\ hart'.x = g.x /\ hart'.csrs = g.csrs /\ hart'.is_done = g.is_done
       /\ hart'.gpr_staged = <<>> /\ hart'.csr_staged = <<>>
  <2>1. <<>> \in Seq(Change(Regs)) /\ <<>> \in Seq(Change(Csrs))
    OBVIOUS
  <2>2. g \in HartState
    BY <1>9 DEF Interrupted
  <2> QED
    BY <1>10, <2>1, <2>2 DEF HartState
<1>13. MemTypeOK'
  BY DEF commit, TypeOK, MemTypeOK, memVars, IsPageMap
<1>14. handling' \in BOOLEAN
  BY <1>11 DEF TypeOK
<1>15. TypeOK'
  BY <1>11, <1>12, <1>13, <1>14 DEF TypeOK
<1>16. Interrupted(hart, hart')
  BY <1>9, <1>12 DEF Interrupted
<1>17. CASE timer_due /\ takes_interrupt(q)
  <2>1. handling' /\ Masked(hart')
    BY <1>9, <1>11, <1>12, <1>17 DEF Masked
  <2> QED
    BY <1>12, <1>15, <1>16, <2>1
<1>18. CASE ~(timer_due /\ takes_interrupt(q))
  <2>1. handling' = handling
    BY <1>11, <1>18 DEF TypeOK
  <2>2. hart'.csrs[mstatus] = hart.csrs[mstatus]
    BY <1>9, <1>12, <1>18
  <2> QED
    BY <1>12, <1>15, <1>16, <2>1, <2>2
<1> QED
  BY <1>17, <1>18
-----------------------------------------------------------------------------
(* Theorems.                                                               *)

\* The inductive invariant: what an instruction preserves depends on the type
\* of the whole hart and memory, since the instruction comes from memory.
IInv == TypeOK /\ CleanStart /\ HandlerMasked

\* The invariant holds when the loader has left its image in memory.
LEMMA InitInv == Init => IInv
<1> SUFFICES ASSUME Init PROVE IInv
  OBVIOUS
<1>1. MemTypeOK
  BY HartAssumption DEF Init, MemInit, MemTypeOK, Registers, Byte
<1>2. 0 \in Regs /\ {} \in Word /\ entry \in Word /\ Machine \in Privilege
  BY HartAssumption, SmallWords DEF Machine, Privilege
<1>3. hart \in HartState
  BY <1>2 DEF Init, HartState
<1> QED
  BY <1>1, <1>2, <1>3 DEF Init, IInv, TypeOK, CleanStart, HandlerMasked

\* A step in which an instruction is executed.
LEMMA StepInv ==
  ASSUME IInv, step
  PROVE  IInv' /\ Executed(fetch, hart, hart')
<1> DEFINE op == fetch
           h  == begin(op)
<1>1. TypeOK /\ OpOK(op) /\ MemTypeOK /\ hart \in HartState
  BY Fetch DEF IInv, TypeOK
<1>2. TrapEffect(hart, h)
  BY <1>1, Begin
<1>3. exec(op, h) /\ at' = "commit"
      /\ handling' = (handling /\ op.tgt # "mret" /\ ~(op.tgt = "csr" /\ op.imm = mstatus))
  BY DEF step
<1> HIDE DEF op, h
<1>4. h \in HartState /\ h.mode = hart.mode /\ h.x = hart.x
  BY <1>2 DEF TrapEffect
<1>5. MemTypeOK' /\ Executed(op, h, hart')
  BY <1>1, <1>3, <1>4, Exec
<1>6. Executed(op, hart, h)
  BY <1>1, <1>2, TrapExecuted
<1>7. Executed(op, hart, hart')
  <2>1. hart' \in HartState /\ hart'.x[0] = hart.x[0]
    BY <1>4, <1>5 DEF Executed
  <2>2. ASSUME NEW c \in Csrs, hart'.csrs[c] # hart.csrs[c]
        PROVE  /\ can_write(hart.mode, c) \/ (c = mstatus /\ op.tgt = "mret")
               /\ c = mstatus => op.tgt = "mret" \/ (op.tgt = "csr" /\ op.imm = mstatus)
    BY <1>4, <1>5, <1>6, <2>2 DEF Executed
  <2> QED
    BY <2>1, <2>2 DEF Executed
<1>8. handling' \in BOOLEAN
  BY <1>1, <1>3 DEF TypeOK
<1>9. TypeOK'
  BY <1>3, <1>5, <1>7, <1>8 DEF TypeOK, Executed
<1>10. CleanStart'
  BY <1>3, <1>7 DEF CleanStart, IInv, Executed
<1>11. HandlerMasked'
  <2>1. mstatus \in Csrs
    BY HartAssumption
  <2>2. handling' => hart'.csrs[mstatus] = hart.csrs[mstatus] /\ handling
    BY <1>3, <1>7, <2>1 DEF Executed
  <2> QED
    BY <2>2 DEF HandlerMasked, IInv
<1> QED
  BY <1>7, <1>9, <1>10, <1>11 DEF IInv, op

\* Every step keeps the invariant.
LEMMA NextInv == IInv /\ [Next]_vars => IInv'
<1> SUFFICES ASSUME IInv, [Next]_vars PROVE IInv'
  OBVIOUS
<1>1. CASE step
  BY <1>1, StepInv
<1>2. CASE commit
  <2>1. /\ TypeOK' /\ hart'.x = hart.x
        /\ hart'.gpr_staged = <<>> /\ hart'.csr_staged = <<>>
        /\ \/ handling' /\ Masked(hart')
           \/ handling' = handling /\ hart'.csrs[mstatus] = hart.csrs[mstatus]
    BY <1>2, CommitStep DEF IInv, Interrupted
  <2>2. CleanStart'
    BY <2>1 DEF IInv, CleanStart
  <2>3. HandlerMasked'
    BY <2>1 DEF IInv, HandlerMasked, Masked
  <2> QED
    BY <2>1, <2>2, <2>3 DEF IInv
<1>3. CASE halt
  <2>1. UNCHANGED <<page, mtime, mtimecmp, hart, handling>> /\ at' = "halted"
    BY <1>3 DEF halt
  <2> QED
    BY <2>1 DEF IInv, TypeOK, MemTypeOK, IsPageMap, CleanStart, HandlerMasked
<1>4. CASE Tick
  <2>1. FetchAdd(mtime[0]) \in Byte
    BY DEF FetchAdd, Byte
  <2>2. mtime' \in Registers /\ UNCHANGED <<page, mtimecmp, hart, at, handling>>
    BY <1>4, <2>1 DEF Tick, IInv, TypeOK, MemTypeOK, Registers
  <2> QED
    BY <2>2 DEF IInv, TypeOK, MemTypeOK, IsPageMap, CleanStart, HandlerMasked
<1>5. CASE UNCHANGED vars
  BY <1>5 DEF vars, IInv, TypeOK, MemTypeOK, IsPageMap, CleanStart, HandlerMasked
<1> QED
  BY <1>1, <1>2, <1>3, <1>4, <1>5 DEF Next

\* The invariant holds in every behaviour of the simulator.
THEOREM HartInvariant == Spec => []IInv
  BY InitInv, NextInv, PTL DEF Spec

\* Type correctness: no program can drive the hart, its register files, the
\* staged changes or the memory out of their types.
THEOREM HartTypeCorrect == Spec => []TypeOK
<1>1. IInv => TypeOK
  BY DEF IInv
<1> QED
  BY <1>1, HartInvariant, PTL

\* x0 stays zero, and every instruction starts with empty staging lists.
THEOREM HartCleanStart == Spec => []CleanStart
<1>1. IInv => CleanStart
  BY DEF IInv
<1> QED
  BY <1>1, HartInvariant, PTL

\* Interrupts stay disabled in an interrupt handler, whatever it executes and
\* traps into, until mret or a CSR instruction on mstatus.
THEOREM HartHandlerMasked == Spec => []HandlerMasked
<1>1. IInv => HandlerMasked
  BY DEF IInv
<1> QED
  BY <1>1, HartInvariant, PTL

\* No instruction and no trap changes a CSR above the current privilege mode,
\* apart from mstatus and mip, or a read-only one.
THEOREM HartPrivilegeIsolation == Spec => PrivilegeIsolation
<1>1. IInv /\ [Next]_vars =>
        [\A c \in Csrs : hart'.csrs[c] # hart.csrs[c] =>
           /\ ~readonly(c)
           /\ can_read(hart.mode, c) \/ c \in {mstatus, mip}]_vars
  <2> SUFFICES ASSUME IInv, [Next]_vars, NEW c \in Csrs, hart'.csrs[c] # hart.csrs[c]
               PROVE  ~readonly(c) /\ (can_read(hart.mode, c) \/ c \in {mstatus, mip})
    OBVIOUS
  <2>1. can_write(hart.mode, c) \/ c \in {mstatus, mip}
    <3>1. CASE step
      BY <3>1, StepInv DEF Executed
    <3>2. CASE commit
      <4>1. c \in TrapCsrs(hart.mode) \cup {mstatus, mip} /\ hart.mode \in Privilege
        BY <3>2, CommitStep DEF IInv, Interrupted, TypeOK, HartState
      <4> QED
        BY <4>1, TrapCsrsOK
    <3>3. CASE halt \/ Tick \/ UNCHANGED vars
      BY <3>3 DEF halt, Tick, vars
    <3> QED
      BY <3>1, <3>2, <3>3 DEF Next
  <2>2. ~readonly(mstatus) /\ ~readonly(mip)
    BY DEF readonly, mstatus, mip
  <2> QED
    BY <2>1, <2>2 DEF can_write
<1> QED
  BY <1>1, HartInvariant, PTL DEF Spec, PrivilegeIsolation

\* An interrupt diverts the program only when the timer is due and enabled and
\* no handler is running, however long mip.MTIP has been set.
THEOREM HartNoStaleInterrupt == Spec => NoStaleInterrupt
<1>1. IInv /\ [Next]_vars =>
        [at = "commit" /\ at' = "step" /\ hart'.pc # hart.pc_next =>
           /\ timer_due /\ ~handling
           /\ TimerIrq \in hart.csrs[mie] /\ MIE \in hart.csrs[mstatus]]_vars
  <2> SUFFICES ASSUME IInv, [Next]_vars,
                      at = "commit", at' = "step", hart'.pc # hart.pc_next
               PROVE  /\ timer_due /\ ~handling
                      /\ TimerIrq \in hart.csrs[mie] /\ MIE \in hart.csrs[mstatus]
    OBVIOUS
  <2> DEFINE h0 == [hart EXCEPT !.pc = hart.pc_next]
             h1 == set_pending(h0)
             h2 == interrupt_pending(h0)
  <2>1. commit
    BY DEF Next, step, halt, Tick, vars
  <2>2. hart \in HartState /\ h0 \in HartState
    BY DEF IInv, TypeOK, HartState
  <2>3. /\ mie \in Csrs /\ mip \in Csrs /\ mstatus \in Csrs
        /\ mie # mip /\ mstatus # mip
    BY HartAssumption DEF mie, mip, mstatus
  <2>4. hart' = [h2 EXCEPT !.gpr_staged = <<>>, !.csr_staged = <<>>]
    BY <2>1 DEF commit
  <2>5. h0.pc = hart.pc_next /\ h0.csrs = hart.csrs
    BY <2>2 DEF HartState
  <2>6. /\ h1 \in HartState /\ h1.pc = hart.pc_next
        /\ h1.csrs[mie] = hart.csrs[mie] /\ h1.csrs[mstatus] = hart.csrs[mstatus]
    <3>1. h0.csrs[mip] \cup {TimerIrq} \in Word
      BY <2>2, <2>3, HartAssumption, XLENAssumption DEF HartState, Word, BitPos, TimerIrq
    <3>2. CsrWritten(h0, h1, mip, h0.csrs[mip] \cup {TimerIrq})
      BY <2>2, <2>3, <3>1, WriteCsr DEF set_pending
    <3>3. hart.csrs \in [Csrs -> Word]
      BY <2>2 DEF HartState
    <3> QED
      BY <2>3, <2>5, <3>2, <3>3 DEF CsrWritten
  <2> HIDE DEF h0, h1
  <2>7. ~timer_due => h2 = h0
    BY DEF interrupt_pending
  <2>8. timer_due /\ ~takes_interrupt(h1) => h2 = h1
    BY DEF interrupt_pending, trap_timer, h1
  <2>9. ASSUME h2.pc = hart.pc_next, h2 \in HartState PROVE FALSE
    <3>1. hart'.pc = h2.pc
      BY <2>4, <2>9 DEF HartState
    <3> QED
      BY <2>9, <3>1
  <2>10. timer_due /\ takes_interrupt(h1)
    BY <2>2, <2>5, <2>6, <2>7, <2>8, <2>9
  <2>11. TimerIrq \in hart.csrs[mie] /\ MIE \in hart.csrs[mstatus]
    BY <2>6, <2>10 DEF takes_interrupt
  <2> QED
    BY <2>10, <2>11 DEF IInv, HandlerMasked
<1> QED
  BY <1>1, HartInvariant, PTL DEF Spec, NoStaleInterrupt

-----------------------------------------------------------------------------
(* What the log and the exit code say.                                     *)

\* The log of an instruction, and what it says of a trap.
LEMMA StepLog ==
  ASSUME IInv, step
  PROVE  /\ Logs(hart, hart') /\ FaultLogged' /\ PreciseTrap'
         /\ ~fstep => ExitReport'
<1> DEFINE op == fetch
           h  == begin(op)
<1>1. TypeOK /\ OpOK(op) /\ MemTypeOK /\ hart \in HartState
  BY Fetch DEF IInv, TypeOK
<1>2. /\ hart' \in HartState /\ exec(op, h) /\ (~fstep => ~hart.is_done)
  BY StepInv DEF step, continues, IInv, TypeOK
<1>3. hart.csr_staged = <<>> /\ hart.gpr_staged = <<>>
  BY DEF IInv, CleanStart, step
<1>4. TrapEffect(hart, h)
  BY <1>1, Begin
<1>5. /\ Logs(hart, h)
      /\ is_valid_pc(hart.pc) => h.csr_staged = <<>> /\ h.gpr_staged = <<>>
      /\ ~is_valid_pc(hart.pc) =>
           /\ Len(h.csr_staged) = 3 /\ h.csr_staged[1].next = exp_inst_access_fault
           /\ h.csr_staged[3].next = base_addr(Plus(base_addr(hart.pc), 4))
  <2>1. Len(hart.csr_staged) = 0
    BY <1>3
  <2> QED
    BY <1>1, <1>3, <2>1, BeginLog
<1> HIDE DEF op, h
<1>6. h \in HartState /\ h.is_done = hart.is_done
  BY <1>4 DEF TrapEffect
<1>7. Ends(h, hart')
  BY <1>1, <1>2, <1>6, ExecEnds
<1>8. Logs(h, hart')
  BY <1>7 DEF Ends
<1>9. Logs(hart, hart') /\ hart'.pc = hart.pc
  BY <1>1, <1>2, <1>5, <1>6, <1>8, LogBoth DEF Logs
<1>10. Len(hart'.csr_staged) \in Nat
  BY <1>2 DEF HartState
<1>11. FaultLogged'
  <2> SUFFICES ASSUME ~is_valid_pc(hart.pc)
               PROVE  /\ Len(hart'.csr_staged) >= 3
                      /\ hart'.csr_staged[1].next = exp_inst_access_fault
                      /\ hart'.csr_staged[3].next = base_addr(Plus(base_addr(hart.pc), 4))
    BY <1>9 DEF FaultLogged, is_valid_pc
  <2>1. Len(h.csr_staged) <= Len(hart'.csr_staged) /\ Len(h.csr_staged) = 3
    BY <1>5, <1>8 DEF Logs
  <2>2. \A k \in 1 .. 3 : hart'.csr_staged[k] = h.csr_staged[k]
    BY <1>8, <2>1 DEF Logs
  <2> QED
    BY <1>5, <1>10, <2>1, <2>2
<1>12. ASSUME Trapped', is_valid_pc(hart.pc)
       PROVE  /\ hart'.gpr_staged = <<>> /\ hart'.mode = h.mode
              /\ \E cause \in Exceptions : TrapRecord(h, hart', cause)
              /\ hart'.is_done = h.is_done \/ read32(tohost_addr)' = hart'.x[10]
  <2>1. Len(h.csr_staged) = 0 /\ h.gpr_staged = <<>>
    BY <1>5, <1>12
  <2>2. Len(hart'.csr_staged) >= 3
    BY <1>12 DEF Trapped
  <2>3. ~(Len(hart'.csr_staged) <= Len(h.csr_staged) + 1)
    BY <1>10, <2>1, <2>2
  <2> QED
    BY <1>7, <2>1, <2>3 DEF Ends, TrapRecord
<1>13. PreciseTrap'
  <2> SUFFICES ASSUME Trapped', is_valid_pc(hart.pc)
               PROVE  /\ hart'.gpr_staged = <<>>
                      /\ hart'.pc_next = base_addr(hart'.csrs[priv_csr(hart'.mode, utvec)])
                      /\ hart'.csrs[priv_csr(hart'.mode, ucause)] # {}
                      /\ hart'.csrs[priv_csr(hart'.mode, uepc)] \in
                           {base_addr(hart'.pc), base_addr(Plus(base_addr(hart'.pc), 4))}
    BY <1>9 DEF PreciseTrap, is_valid_pc
  <2>1. PICK cause \in Exceptions : TrapRecord(h, hart', cause)
    BY <1>12
  <2>2. hart'.mode = h.mode /\ h.pc = hart'.pc
    BY <1>8, <1>12 DEF Logs
  <2>3. /\ hart'.pc_next = vectored(base_addr(hart'.csrs[priv_csr(h.mode, utvec)]), cause)
        /\ hart'.csrs[priv_csr(h.mode, ucause)] = cause
        /\ hart'.csrs[priv_csr(h.mode, uepc)] = saved_pc(h.pc, cause)
    BY <2>1 DEF TrapRecord
  <2>4. cause # {} /\ \A a : vectored(a, cause) = a
    BY <2>1, ExceptionCauses
  <2>5. saved_pc(h.pc, cause) \in {base_addr(h.pc), base_addr(Plus(base_addr(h.pc), 4))}
    BY DEF saved_pc
  <2> QED
    BY <1>12, <2>2, <2>3, <2>4, <2>5
<1>14. ~fstep => ExitReport'
  <2> SUFFICES ASSUME ~fstep, Trapped', hart'.is_done, is_valid_pc(hart.pc)
               PROVE  read32(tohost_addr)' = hart'.x[10]
    BY <1>9 DEF ExitReport, is_valid_pc
  <2> QED
    BY <1>2, <1>6, <1>12
<1> QED
  BY <1>9, <1>11, <1>13, <1>14

\* The trap records, as long as nothing else happens to the hart.
Records == FaultLogged /\ PreciseTrap /\ (~fstep => ExitReport)

\* They hold between step() and commit(), whatever the timer thread does there.
LEMMA RecordsInv == IInv /\ Records /\ [Next]_vars => Records'
<1> SUFFICES ASSUME IInv, Records, [Next]_vars PROVE Records'
  OBVIOUS
<1>1. CASE step
  BY <1>1, StepLog DEF Records
<1>2. CASE commit \/ halt
  <2>1. at' # "commit"
    BY <1>2 DEF commit, halt
  <2> QED
    BY <2>1 DEF Records, FaultLogged, PreciseTrap, ExitReport, Trapped
<1>3. CASE Tick \/ UNCHANGED vars
  <2>1. UNCHANGED <<page, hart, at>>
    BY <1>3 DEF Tick, vars
  <2> QED
    BY <2>1 DEF Records, FaultLogged, PreciseTrap, ExitReport, Trapped, is_valid_pc, read32
<1> QED
  BY <1>1, <1>2, <1>3 DEF Next

\* They hold in every behaviour.
THEOREM HartRecords == Spec => []Records
<1>1. Init => Records
  BY DEF Init, Records, FaultLogged, PreciseTrap, ExitReport, Trapped
<1> QED
  BY <1>1, RecordsInv, HartInvariant, PTL DEF Spec

\* An access fault comes first in the changes of its step, whatever the bytes at
\* that address do when step() executes them nevertheless.
THEOREM HartFaultLogged == Spec => []FaultLogged
<1>1. Records => FaultLogged
  BY DEF Records
<1> QED
  BY <1>1, HartRecords, PTL

\* Traps are precise: an instruction at a valid pc that stages the three changes
\* of trap() has written no register, and goes on at the vector of its mode.
THEOREM HartPreciseTrap == Spec => []PreciseTrap
<1>1. Records => PreciseTrap
  BY DEF Records
<1> QED
  BY <1>1, HartRecords, PTL

\* Without --step, a simulation that a system call stops reports a0, wherever
\* tohost lies in the pages.
THEOREM HartExitReport == ASSUME ~fstep PROVE Spec => []ExitReport
<1>1. Records => ExitReport
  BY DEF Records
<1> QED
  BY <1>1, HartRecords, PTL

\* What run() logs after step() is exactly what the instruction did to the two
\* register files, change by change, traps included.
THEOREM HartTraceFaithful == Spec => TraceFaithful
<1>1. IInv /\ [Next]_vars =>
        [at = "step" /\ at' = "commit" =>
           /\ Explains(hart'.gpr_staged, hart.x, hart'.x, Regs \ {0})
           /\ Explains(hart'.csr_staged, hart.csrs, hart'.csrs, Csrs)]_vars
  <2> SUFFICES ASSUME IInv, [Next]_vars, at = "step", at' = "commit"
               PROVE  /\ Explains(hart'.gpr_staged, hart.x, hart'.x, Regs \ {0})
                      /\ Explains(hart'.csr_staged, hart.csrs, hart'.csrs, Csrs)
    OBVIOUS
  <2>1. step
    BY DEF Next, commit, halt, Tick, vars
  <2>2. hart.csr_staged = <<>> /\ hart.gpr_staged = <<>>
    BY DEF IInv, CleanStart
  <2>3. \A i : Positions(<<>>, i) = {}
    BY DEF Positions
  <2>4. \A f, S : Explains(<<>>, f, f, S)
    BY <2>3 DEF Explains
  <2>5. Logs(hart, hart')
    BY <2>1, StepLog
  <2> QED
    BY <2>2, <2>4, <2>5 DEF Logs
<1> QED
  BY <1>1, HartInvariant, PTL DEF Spec, TraceFaithful

\* Without --step, a program that has written to tohost executes nothing any
\* more, and its registers and its exit code are final.
THEOREM HartDoneIsFinal == ASSUME ~fstep PROVE Spec => DoneIsFinal
<1>1. IInv /\ [Next]_vars =>
        [hart.is_done => /\ hart'.is_done /\ hart'.x = hart.x
                         /\ read32(tohost_addr)' = read32(tohost_addr)]_vars
  <2> SUFFICES ASSUME IInv, [Next]_vars, hart.is_done
               PROVE  /\ hart'.is_done /\ hart'.x = hart.x
                      /\ read32(tohost_addr)' = read32(tohost_addr)
    OBVIOUS
  <2>1. ~step
    BY DEF step, continues
  <2>2. CASE commit
    <3>1. hart'.x = hart.x /\ hart'.is_done = hart.is_done
      BY <2>2, CommitStep DEF IInv, Interrupted
    <3>2. page' = page
      BY <2>2 DEF commit, memVars
    <3> QED
      BY <3>1, <3>2 DEF read32
  <2>3. CASE halt \/ Tick \/ UNCHANGED vars
    <3>1. UNCHANGED <<page, hart>>
      BY <2>3 DEF halt, Tick, vars
    <3> QED
      BY <3>1 DEF read32
  <2> QED
    BY <2>1, <2>2, <2>3 DEF Next
<1> QED
  BY <1>1, HartInvariant, PTL DEF Spec, DoneIsFinal

-----------------------------------------------------------------------------
(* Replaying a staging list.                                               *)

\* Replaying a list on a register whose value it starts from, or that it
\* changes, gives the value that the list leads to.
LEMMA Replay ==
  ASSUME NEW D, NEW s \in Seq(Change(D)), NEW S, NEW old, NEW new, Explains(s, old, new, S),
         NEW f, NEW i \in S, i \in DOMAIN f,
         Positions(s, i) = {} => f[i] = old[i]
  PROVE  log_changes(f, s)[i] = new[i]
<1> DEFINE P == Positions(s, i)
<1>1. log_changes(f, s)[i] = IF P = {} THEN f[i] ELSE s[LastChange(s, i)].next
  BY DEF log_changes
<1>2. P = {} => new[i] = old[i]
  BY DEF Explains
<1>3. \A k \in P : (\A j \in P : j <= k) => s[k].next = new[i]
  BY DEF Explains
<1>4. P \subseteq 0 .. Len(s) /\ Len(s) \in Nat
  BY DEF Positions
<1> HIDE DEF P
<1>5. CASE P = {}
  BY <1>1, <1>2, <1>5 DEF P
<1>6. CASE P # {}
  <2>1. \E k \in P : \A j \in P : j <= k
    BY <1>4, <1>6, Greatest
  <2>2. LastChange(s, i) \in P /\ \A j \in P : j <= LastChange(s, i)
    BY <2>1 DEF LastChange, P
  <2> QED
    BY <1>1, <1>3, <1>6, <2>2
<1> QED
  BY <1>5, <1>6

-----------------------------------------------------------------------------
(* Export: the loop with its log.                                          *)

\* The files a reader rebuilds have the registers of the hart.
FilesRebuilt == DOMAIN logged.x = Regs /\ DOMAIN logged.csrs = Csrs

\* The inductive invariant: what the log says of a step depends on what the
\* hart does in it.
ExportInv == IInv /\ FilesRebuilt /\ LogReplays

\* The log starts from the initial registers.
LEMMA ExportInitInv == ExportInit => ExportInv
<1> SUFFICES ASSUME ExportInit PROVE ExportInv
  OBVIOUS
<1>1. IInv
  BY InitInv DEF ExportInit
<1>2. DOMAIN hart.x = Regs /\ DOMAIN hart.csrs = Csrs
  BY <1>1 DEF IInv, TypeOK, HartState
<1>3. logged.x = hart.x /\ logged.csrs = hart.csrs /\ unlogged = {}
  BY DEF ExportInit
<1> QED
  BY <1>1, <1>2, <1>3 DEF ExportInv, FilesRebuilt, LogReplays

\* The loop's body up to commit(): what was staged goes to the log, and a CSR
\* that an interrupt changed before is right again as soon as it is written.
LEMMA StepAndLogReplays ==
  ASSUME ExportInv, StepAndLog
  PROVE  FilesRebuilt' /\ LogReplays'
<1> DEFINE xs == hart'.gpr_staged
           cs == hart'.csr_staged
<1>1. IInv /\ step /\ IInv' /\ at = "step"
  BY StepInv DEF ExportInv, StepAndLog, step
<1>2. xs \in Seq(Change(Regs)) /\ cs \in Seq(Change(Csrs))
  BY <1>1 DEF IInv, TypeOK, HartState
<1>3. /\ Explains(xs, hart.x, hart'.x, Regs \ {0})
      /\ Explains(cs, hart.csrs, hart'.csrs, Csrs)
  <2>1. hart.csr_staged = <<>> /\ hart.gpr_staged = <<>>
    BY <1>1 DEF IInv, CleanStart
  <2>2. \A f, S : Explains(<<>>, f, f, S)
    BY DEF Explains, Positions
  <2>3. Logs(hart, hart')
    BY <1>1, StepLog
  <2> QED
    BY <2>1, <2>2, <2>3 DEF Logs
<1>4. /\ DOMAIN logged.x = Regs /\ DOMAIN logged.csrs = Csrs
      /\ \A r \in Regs \ {0} : logged.x[r] = hart.x[r]
      /\ \A c \in Csrs \ unlogged : logged.csrs[c] = hart.csrs[c]
  BY DEF ExportInv, FilesRebuilt, LogReplays
<1>5. /\ logged'.x = log_changes(logged.x, xs) /\ logged'.csrs = log_changes(logged.csrs, cs)
      /\ unlogged' = unlogged \ {cs[i].index : i \in DOMAIN cs}
  BY DEF StepAndLog
<1> HIDE DEF xs, cs
<1>6. FilesRebuilt'
  BY <1>4, <1>5 DEF FilesRebuilt, log_changes
<1>7. ASSUME NEW r \in Regs \ {0} PROVE logged'.x[r] = hart'.x[r]
  BY <1>2, <1>3, <1>4, <1>5, <1>7, Replay
<1>8. ASSUME NEW c \in Csrs \ unlogged' PROVE logged'.csrs[c] = hart'.csrs[c]
  <2>1. Positions(cs, c) = {} => c \notin unlogged
    BY <1>5, <1>8 DEF Positions
  <2>2. Positions(cs, c) = {} => logged.csrs[c] = hart.csrs[c]
    BY <1>4, <2>1
  <2> QED
    BY <1>2, <1>3, <1>4, <1>5, <2>2, Replay
<1>9. unlogged' \subseteq unlogged
  BY <1>5
<1> QED
  BY <1>6, <1>7, <1>8, <1>9 DEF ExportInv, LogReplays

\* commit(): the general registers keep their values, and every CSR whose value
\* changes is one that an interrupt writes.
LEMMA CommitReplays ==
  ASSUME ExportInv, Commit
  PROVE  FilesRebuilt' /\ LogReplays'
<1>1. Interrupted(hart, hart') /\ hart.mode \in Privilege
  BY CommitStep DEF ExportInv, IInv, Commit, TypeOK, HartState
<1>2. /\ hart'.x = hart.x
      /\ \A c \in Csrs : hart'.csrs[c] # hart.csrs[c] => c \in TrapCsrs(hart.mode) \cup {mstatus, mip}
  BY <1>1 DEF Interrupted
<1>3. /\ logged' = logged
      /\ unlogged' = unlogged \cup {c \in Csrs : hart'.csrs[c] # hart.csrs[c]}
  BY DEF Commit
<1>4. TrapCsrs(hart.mode) \subseteq {priv_csr(m, c) : m \in Privilege, c \in {ucause, utval, uepc}}
  BY <1>1 DEF TrapCsrs
<1>5. unlogged \subseteq {mip, mstatus} \cup
        {priv_csr(m, c) : m \in Privilege, c \in {ucause, utval, uepc}}
  BY DEF ExportInv, LogReplays
<1>6. unlogged' \subseteq {mip, mstatus} \cup
        {priv_csr(m, c) : m \in Privilege, c \in {ucause, utval, uepc}}
  BY <1>2, <1>3, <1>4, <1>5
<1>7. /\ \A r \in Regs \ {0} : logged'.x[r] = hart'.x[r]
      /\ \A c \in Csrs \ unlogged' : logged'.csrs[c] = hart'.csrs[c]
  BY <1>2, <1>3 DEF ExportInv, LogReplays
<1>8. FilesRebuilt'
  BY <1>3 DEF ExportInv, FilesRebuilt
<1> QED
  BY <1>6, <1>7, <1>8 DEF LogReplays

\* Every step of the loop with its log keeps the invariant.
LEMMA ExportNextInv == ExportInv /\ [ExportNext]_<<vars, exportVars>> => ExportInv'
<1> SUFFICES ASSUME ExportInv, [ExportNext]_<<vars, exportVars>> PROVE ExportInv'
  OBVIOUS
<1>1. [Next]_vars
  BY DEF ExportNext, StepAndLog, Commit, Halt, Save, ExportTick, Next
<1>2. IInv'
  BY <1>1, NextInv DEF ExportInv
<1>3. CASE StepAndLog
  BY <1>2, <1>3, StepAndLogReplays DEF ExportInv
<1>4. CASE Commit
  BY <1>2, <1>4, CommitReplays DEF ExportInv
<1>5. CASE Halt \/ Save \/ ExportTick \/ UNCHANGED <<vars, exportVars>>
  <2>1. logged' = logged /\ unlogged' = unlogged /\ hart' = hart
    BY <1>5 DEF Halt, Save, ExportTick, exportVars, halt, Tick, vars
  <2> QED
    BY <1>2, <2>1 DEF ExportInv, FilesRebuilt, LogReplays
<1> QED
  BY <1>3, <1>4, <1>5 DEF ExportNext

\* The invariant of the run loop with its log.
THEOREM ExportInvariant == ExportSpec => []ExportInv
<1> QED
  BY ExportInitInv, ExportNextInv, PTL DEF ExportSpec

\* The log of run() leads to the registers of the hart at every moment, for
\* every program and whenever the timer fires; the only CSRs it may be wrong
\* about are those of the interrupts that commit() takes and does not export.
THEOREM ExportLogReplays == ExportSpec => []LogReplays
<1>1. ExportInv => LogReplays
  BY DEF ExportInv
<1> QED
  BY <1>1, ExportInvariant, PTL

-----------------------------------------------------------------------------
(* Simulator: the loop and the timer thread.                               *)

\* The invariant of the process is that of the hart.
SimInv == mti_enabled /\ IInv

\* The process starts with the hart's initial state.
LEMMA SimInitInv == SimInit => SimInv
  BY InitInv DEF SimInit, SimInv

\* Unless the bound MaxTicks stops Hart's counter, every step of the process is
\* a step of the hart: the runner's increment is its Tick, and whatever else the
\* threads do to each other leaves it alone.
LEMMA SimStep ==
  ASSUME 2^ByteLen <= MaxTicks, SimInv, [SimNext]_simVars
  PROVE  [Next]_vars
<1>1. CASE Run
  BY <1>1 DEF Run, Next
<1>2. CASE Timer!Increment /\ UNCHANGED hartVars
  <2>1. mtime[0] \in Byte
    BY DEF SimInv, IInv, TypeOK, MemTypeOK, Registers
  <2>2. ToNat(mtime[0]) < MaxTicks
    <3>1. ToNat(mtime[0]) \in Nat /\ ToNat(mtime[0]) < 2^ByteLen
      BY <2>1, Widths, SumBound DEF Byte
    <3>2. 2^ByteLen \in Nat /\ MaxTicks \in Nat
      BY Widths, Power, HartAssumption
    <3> QED
      BY <3>1, <3>2
  <2>3. mtime' = [mtime EXCEPT ![0] = FetchAdd(mtime[0])]
    BY <1>2 DEF Timer!Increment, Timer!FetchAdd, Timer!ToWord, Timer!ToNat, Timer!BitPos,
                Timer!ByteLen, FetchAdd, ToWord, ToNat, BitPos, ByteLen,
                MapThenSumSet, Timer!MapThenSumSet, MapThenFoldSet, Timer!MapThenFoldSet
  <2>4. Tick
    BY <1>2, <2>2, <2>3 DEF Tick, SimInv, hartVars
  <2> QED
    BY <2>4 DEF Next
<1>3. CASE (Timer!Test \/ Timer!Pred \/ Timer!Block) /\ UNCHANGED hartVars
  BY <1>3 DEF Timer!Test, Timer!Pred, Timer!Block, hartVars, vars
<1>4. CASE Exit \/ Stop \/ Elapse \/ Wakeup
  BY <1>4 DEF Exit, Stop, Elapse, Wakeup, Timer!StoreExiting, Timer!Notify, Timer!Join,
              Timer!Timeout, Timer!SpuriousWakeup, hartVars, vars
<1>5. CASE UNCHANGED simVars
  BY <1>5 DEF simVars
<1> QED
  BY <1>1, <1>2, <1>3, <1>4, <1>5 DEF SimNext, RunnerStep

\* Every step of the process keeps the hart's invariant and is a step of Hart.
LEMMA SimNextInv ==
  ASSUME 2^ByteLen <= MaxTicks
  PROVE  SimInv /\ [SimNext]_simVars => SimInv' /\ [Next]_vars
<1> SUFFICES ASSUME SimInv, [SimNext]_simVars PROVE SimInv' /\ [Next]_vars
  OBVIOUS
<1>1. [Next]_vars
  BY SimStep
<1>2. IInv'
  BY <1>1, NextInv DEF SimInv
<1> QED
  BY <1>1, <1>2 DEF SimInv

\* The process implements the hart with a timer, its progress included, once
\* the bound on Hart's counter is not below what a byte can hold: the program
\* sees mtime move and nothing else of the second thread.
THEOREM SimulatorImplementsHart ==
  ASSUME 2^ByteLen <= MaxTicks
  PROVE  SimSpec => ImplementsHart
<1>1. SimInit => Init /\ SimInv
  BY SimInitInv DEF SimInit
<1>2. SimInv /\ [SimNext]_simVars => SimInv' /\ [Next]_vars
  BY SimNextInv
<1> QED
  BY <1>1, <1>2, PTL DEF SimSpec, ImplementsHart, Spec

\* The process never increments mtime after the router is destroyed, whatever
\* the program does and whenever it ends.
THEOREM SimulatorNoDanglingIncrement == SimSpec => []Timer!NoDanglingIncrement
<1>1. SimInit => Timer!NoDanglingIncrement
  BY DEF SimInit, Timer!NoDanglingIncrement
<1>2. Timer!NoDanglingIncrement /\ [SimNext]_simVars => Timer!NoDanglingIncrement'
  BY DEF Timer!NoDanglingIncrement, SimNext, simVars, timerVars, Run, Exit, Stop,
         RunnerStep, Elapse, Wakeup, Timer!StoreExiting, Timer!Notify, Timer!Join, Timer!Test,
         Timer!Increment, Timer!Pred, Timer!Block, Timer!Timeout, Timer!SpuriousWakeup
<1> QED
  BY <1>1, <1>2, PTL DEF SimSpec

\* In the whole process, too, at most one increment follows set_exiting().
THEOREM SimulatorAtMostOneLateTick == SimSpec => []Timer!AtMostOneLateTick
<1> DEFINE J == late \in Nat /\ Timer!AtMostOneLateTick
<1>1. SimInit => J
  BY DEF SimInit, Timer!AtMostOneLateTick
<1>2. J /\ [SimNext]_simVars => J'
  BY DEF Timer!AtMostOneLateTick, SimNext, simVars, timerVars, Run, Exit, Stop,
         RunnerStep, Elapse, Wakeup, Timer!StoreExiting, Timer!Notify, Timer!Join, Timer!Test,
         Timer!Increment, Timer!Pred, Timer!Block, Timer!Timeout, Timer!SpuriousWakeup
<1>3. J => Timer!AtMostOneLateTick
  OBVIOUS
<1> HIDE DEF J
<1> QED
  BY <1>1, <1>2, <1>3, PTL DEF SimSpec

\* What is proved of the hart holds in the process with two threads: commit()
\* takes no interrupt that the registers of that moment do not call for, and
\* none inside a handler; a trap is precise and comes first in the log; no step
\* leaves its privilege; every change is in the trace.
THEOREM SimulatorSafe ==
  ASSUME 2^ByteLen <= MaxTicks
  PROVE  SimSpec => /\ [](TypeOK /\ CleanStart /\ HandlerMasked /\ FaultLogged /\ PreciseTrap)
                    /\ NoStaleInterrupt /\ PrivilegeIsolation /\ TraceFaithful
<1>1. SimSpec => Spec
  BY SimulatorImplementsHart DEF ImplementsHart
<1> QED
  BY <1>1, HartTypeCorrect, HartCleanStart, HartHandlerMasked, HartFaultLogged, HartPreciseTrap,
     HartNoStaleInterrupt, HartPrivilegeIsolation, HartTraceFaithful, PTL
=============================================================================
