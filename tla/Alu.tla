-------------------------------- MODULE Alu --------------------------------
(***************************************************************************)
(* The arithmetic of the instruction set: do_alu, should_branch and the    *)
(* high multiplications of arith.hpp, on words of XLEN bits.  Signed       *)
(* overflow and the negation of the least integer wrap, and a shift count  *)
(* is taken modulo XLEN: what the x86-64 build of these (formally          *)
(* undefined) C++ expressions does.                                        *)
(***************************************************************************)
EXTENDS Words

\* Upper word of the unsigned product, from half-word products; every
\* intermediate is a uint32_t (t) or a uint16_t (y_1, y_2).
mulhu(a, b) ==
  LET H == 2^HalfLen
      U(n) == n % 2^XLEN
      a_0 == a % H    a_1 == a \div H
      b_0 == b % H    b_1 == b \div H
      t   == U(U(a_1 * b_0) + (U(a_0 * b_0) \div H))
      y_1 == t % H
      y_2 == (t \div H) % H
      s   == U(U(a_0 * b_1) + y_1)
  IN  U(U(U(a_1 * b_1) + y_2) + (s \div H))

\* Mutant of NegatedHigh: the carry from a zero low word is forgotten.
NegatedHigh_NoCarry(res, low) == 2^XLEN - 1 - res

\* ~res + (low == 0): the upper word of the negated double word.
NegatedHigh(res, low) == ((2^XLEN - 1 - res) + (IF low = 0 THEN 1 ELSE 0)) % 2^XLEN

Magnitude(a) == IF a < 0 THEN -a ELSE a

mulh(a, b) ==
  LET res == mulhu(Magnitude(a), Magnitude(b))
  IN  IF (a < 0) # (b < 0) THEN NegatedHigh(res, (a * b) % 2^XLEN) ELSE res

mulhsu(a, b) ==
  LET res == mulhu(Magnitude(a), b)
  IN  IF a < 0 THEN NegatedHigh(res, (a * b) % 2^XLEN) ELSE res

\* C++ integer division truncates towards zero.
Quotient(a, b)  == LET q == Magnitude(a) \div Magnitude(b)
                   IN  IF (a < 0) # (b < 0) THEN -q ELSE q
Remainder(a, b) == a - Quotient(a, b) * b

\* Mutant of is_overflow: the divisor is not looked at.
is_overflow_AnyDivisor(dividend, divisor) == dividend = -(2^(XLEN - 1))

is_overflow(dividend, divisor) == dividend = -(2^(XLEN - 1)) /\ divisor = -1

ShiftCount(w) == ToNat(w) % XLEN

\* Mutant of arith_shift: the cast to int32_t is forgotten.
arith_shift_Unsigned(w, n) == {i \in BitPos : i + n \in w}

\* static_cast<int32_t>(w) >> n
arith_shift(w, n) == {i \in BitPos : (IF i + n < XLEN THEN i + n ELSE SignBit) \in w}

AluOps == {"or", "and", "xor", "add", "auipc", "jal", "sub", "sll", "srl", "sra", "slt",
           "sltu", "jalr", "mulh", "mulhsu", "mulhu", "mul", "divu", "remu", "div", "rem"}

do_alu(opt, opd_1, opd_2) ==
  LET u1 == ToNat(opd_1)   u2 == ToNat(opd_2)
      s1 == ToInt(opd_1)   s2 == ToInt(opd_2)
      n  == ShiftCount(opd_2)
  IN  CASE opt = "or"     -> opd_1 \cup opd_2
        [] opt = "and"    -> opd_1 \cap opd_2
        [] opt = "xor"    -> (opd_1 \cup opd_2) \ (opd_1 \cap opd_2)
        [] opt \in {"add", "auipc", "jal"} -> ToWord(u1 + u2)
        [] opt = "sub"    -> ToWord(u1 - u2)
        [] opt = "sll"    -> {i \in BitPos : i - n \in opd_1}
        [] opt = "srl"    -> {i \in BitPos : i + n \in opd_1}
        [] opt = "sra"    -> arith_shift(opd_1, n)
        [] opt = "slt"    -> IF s1 < s2 THEN {0} ELSE {}
        [] opt = "sltu"   -> IF Below(opd_1, opd_2) THEN {0} ELSE {}
        [] opt = "jalr"   -> ToWord(u1 + u2) \ {0}
        [] opt = "mulh"   -> ToWord(mulh(s1, s2))
        [] opt = "mulhsu" -> ToWord(mulhsu(s1, u2))
        [] opt = "mulhu"  -> ToWord(mulhu(u1, u2))
        [] opt = "mul"    -> ToWord(s1 * s2)
        [] opt = "divu"   -> IF u2 = 0 THEN BitPos ELSE ToWord(u1 \div u2)
        [] opt = "remu"   -> IF u2 = 0 THEN opd_1 ELSE ToWord(u1 % u2)
        [] opt = "div"    -> IF s2 = 0 THEN BitPos
                             ELSE IF is_overflow(s1, s2) THEN opd_1
                             ELSE ToWord(Quotient(s1, s2))
        [] opt = "rem"    -> IF s2 = 0 THEN opd_1
                             ELSE IF is_overflow(s1, s2) THEN {}
                             ELSE ToWord(Remainder(s1, s2))

\* Mutant of should_branch: bgeu leaves out equality.
should_branch_Strict(opd_1, opd_2, b_type) ==
  CASE b_type = "beq"  -> opd_1 = opd_2
    [] b_type = "bne"  -> opd_1 # opd_2
    [] b_type = "blt"  -> ToInt(opd_1) < ToInt(opd_2)
    [] b_type = "bltu" -> Below(opd_1, opd_2)
    [] b_type = "bge"  -> ToInt(opd_1) >= ToInt(opd_2)
    [] b_type = "bgeu" -> Below(opd_2, opd_1)

should_branch(opd_1, opd_2, b_type) ==
  CASE b_type = "beq"  -> opd_1 = opd_2
    [] b_type = "bne"  -> opd_1 # opd_2
    [] b_type = "blt"  -> ToInt(opd_1) < ToInt(opd_2)
    [] b_type = "bltu" -> Below(opd_1, opd_2)
    [] b_type = "bge"  -> ToInt(opd_1) >= ToInt(opd_2)
    [] b_type = "bgeu" -> ~Below(opd_1, opd_2)
=============================================================================
