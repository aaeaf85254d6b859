----------------------------- MODULE TraceCodec -----------------------------
(***************************************************************************)
(* The exported trace: how an entry is written to and read from JSON, and  *)
(* the names that the log gives to operations and trap causes.  An op_type *)
(* is a variant of enumerations; the numbers of their enumerators are      *)
(* external (riscv32-decoder).                                             *)
(***************************************************************************)
EXTENDS Integers, Sequences, SequencesExt

-----------------------------------------------------------------------------
(* Names.                                                                  *)

OpNames == [
  none   |-> <<"empty">>,
  alu    |-> <<"and", "or", "xor", "add", "sub", "sll", "srl", "sra", "slt", "sltu", "mul",
               "mulh", "mulhsu", "mulhu", "div", "divu", "rem", "remu", "auipc", "jal", "jalr">>,
  load   |-> <<"lb", "lh", "lw", "lbu", "lhu">>,
  store  |-> <<"sb", "sh", "sw">>,
  branch |-> <<"beq", "bne", "blt", "bge", "bltu", "bgeu">>,
  sys    |-> <<"other", "csrrw", "csrrs", "csrrc", "csrrwi", "csrrsi", "csrrci">> ]

\* The numbers of these enumerators, in the same order.
OpCodes == [
  none   |-> <<0>>,
  alu    |-> [i \in 1 .. 21 |-> i - 1],
  load   |-> <<0, 1, 2, 4, 5>>,
  store  |-> <<0, 1, 2>>,
  branch |-> <<0, 1, 4, 5, 6, 7>>,
  sys    |-> <<0, 1, 2, 3, 5, 6, 7>> ]

OpType(kind, val) == [kind |-> kind, val |-> val]
Enumerated == UNION {{OpType(k, c) : c \in ToSet(OpCodes[k])} : k \in DOMAIN OpCodes}

\* A switch over enumerators that returns their names.
Lookup(names, codes, c) ==
  IF c \in ToSet(codes) THEN names[CHOOSE i \in DOMAIN codes : codes[i] = c] ELSE "unknown"

\* Mutant of op_type_str: the unsigned branches share a case with the signed.
op_type_str_Shared(t) ==
  Lookup(OpNames[t.kind], OpCodes[t.kind],
         IF t.kind = "branch" /\ t.val \in {6, 7} THEN t.val - 2 ELSE t.val)

op_type_str(t) == Lookup(OpNames[t.kind], OpCodes[t.kind], t.val)

\* trap_cause by its code, without and with the interrupt bit.  The blanks of
\* the names are written as underscores.
CauseNames == [
  exception |->
    <<"misaligned_instruction_address", "instruction_access_fault", "illegal_instruction",
      "breakpoint", "misaligned_load_address", "load_access_fault", "misaligned_store_address",
      "store_access_fault", "ecall_from_user_virtual_user_mode", "ecall_from_supervisor_mode",
      "ecall_from_virtual_supervisor_mode", "ecall_from_machine_mode", "instruction_page_fault",
      "load_page_fault", "store_page_fault", "instruction_guest_page_fault",
      "load_guest_page_fault", "virtual_instruction", "store_guest_page_fault">>,
  interrupt |->
    <<"supervisor_software_interrupt", "virtual_supervisor_software_interrupt",
      "machine_software_interrupt", "supervisor_timer_interrupt",
      "virtual_supervisor_timer_interrupt", "machine_timer_interrupt",
      "supervisor_external_interrupt", "virtual_supervisor_external_interrupt",
      "machine_external_interrupt", "supervisor_guest_external_interrupt">>]

CauseCodes == [exception |-> <<0, 1, 2, 3, 4, 5, 6, 7, 8, 9, 16, 17, 18, 19, 21, 32, 33, 34, 35>>,
               interrupt |-> <<1, 2, 3, 5, 6, 7, 9, 16, 17, 18>>]

Causes == UNION {{<<k, c>> : c \in ToSet(CauseCodes[k])} : k \in DOMAIN CauseCodes}

str_trap_cause(kind, c) == Lookup(CauseNames[kind], CauseCodes[kind], c)

-----------------------------------------------------------------------------
(* JSON.                                                                   *)

\* Mutant of code: the stores have the codes of the loads.
code_Overlap(t) ==
  CASE t.kind = "none" -> 0 [] t.kind = "sys" -> 1 + t.val [] t.kind = "branch" -> 20 + t.val
    [] t.kind \in {"store", "load"} -> 40 + t.val [] t.kind = "alu" -> 50 + t.val

\* adl_serializer<op_type>::to_json
code(t) ==
  CASE t.kind = "none"   -> 0
    [] t.kind = "sys"    -> 1 + t.val
    [] t.kind = "branch" -> 20 + t.val
    [] t.kind = "store"  -> 30 + t.val
    [] t.kind = "load"   -> 40 + t.val
    [] t.kind = "alu"    -> 50 + t.val

\* One of the ifs of from_json, all of which test and change the same x.
If(st, kind, lo, hi) ==
  IF st.x \in lo .. hi THEN [x |-> st.x - lo, type |-> OpType(kind, st.x - lo)] ELSE st

\* The variant that from_json has assigned when it comes to its last line.
assigned(c) ==
  LET none   == If([x |-> c, type |-> OpType("none", 0)], "none", 0, 0)
      sys    == If(none, "sys", 1, 19)
      branch == If(sys, "branch", 20, 29)
      store  == If(branch, "store", 30, 39)
      load   == If(store, "load", 40, 49)
  IN  If(load, "alu", 50, 100).type

to_json(e) == [opt |-> code(e.opt), gpr |-> e.gpr, csr |-> e.csr]

\* What the three deserializers make of an entry: that of the operation throws
\* at its last line; a CSR index is read as uint16_t, a register's as uint8_t.
from_json(j) == [opt |-> assigned(j.opt), gpr |-> j.gpr % 2^8, csr |-> j.csr % 2^16, thrown |-> TRUE]
=============================================================================
