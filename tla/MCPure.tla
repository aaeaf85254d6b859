------------------------------- MODULE MCPure ------------------------------
(***************************************************************************)
(* The pure algorithms on all of their inputs: do_alu on every pair of     *)
(* operands, where the result replaces the first one, and the names and    *)
(* codes of the trace on every entry.                                      *)
(***************************************************************************)
EXTENDS Alu, TraceCodec

VARIABLES opd_1, opd_2, entry

\* An operation, a trap cause and registers from both ends of their ranges.
Entries == [opt : Enumerated, cause : Causes, gpr : {0, 31}, csr : {0, 836, 4095}]

Init ==
  \/ opd_1 \in Word /\ opd_2 \in Word /\ entry = CHOOSE e \in Entries : TRUE
  \/ opd_1 = {} /\ opd_2 = {} /\ entry \in Entries

Compute(opt) == opd_1' = do_alu(opt, opd_1, opd_2) /\ UNCHANGED <<opd_2, entry>>

Next == \E opt \in AluOps : Compute(opt)

Spec == Init /\ [][Next]_<<opd_1, opd_2, entry>>

-----------------------------------------------------------------------------
U1 == ToNat(opd_1)
U2 == ToNat(opd_2)
S1 == ToInt(opd_1)
S2 == ToInt(opd_2)
R(opt) == do_alu(opt, opd_1, opd_2)

\* The high-word multiplications, put above the low word that mul returns,
\* are the exact double-word product, for each of the three signednesses.
MulHighExact ==
  /\ ToNat(R("mulhu")) * 2^XLEN + ToNat(R("mul")) = U1 * U2
  /\ ToInt(R("mulh"))  * 2^XLEN + ToNat(R("mul")) = S1 * S2
  /\ ToInt(R("mulhsu")) * 2^XLEN + ToNat(R("mul")) = S1 * U2

\* div/rem and divu/remu satisfy the division identity, the remainder is
\* smaller than the divisor and has the dividend's sign; division by zero and
\* the signed overflow give the values of the tables in do_alu's comments.
DivRemExact ==
  IF opd_2 = {}
  THEN /\ R("divu") = BitPos /\ ToInt(R("div")) = -1
       /\ R("remu") = opd_1  /\ R("rem") = opd_1
  ELSE LET r == ToInt(R("rem"))
       IN  /\ ToNat(R("divu")) * U2 + ToNat(R("remu")) = U1
           /\ ToNat(R("remu")) < U2
           /\ IF S1 = -(2^(XLEN - 1)) /\ S2 = -1
              THEN ToInt(R("div")) = S1 /\ r = 0
              ELSE /\ ToInt(R("div")) * S2 + r = S1
                   /\ Magnitude(r) < Magnitude(S2)
                   /\ r = 0 \/ (r < 0 <=> S1 < 0)

\* The comparisons agree with the subtraction: sltu (and bltu) is its borrow,
\* slt (and blt) its sign corrected for overflow, and each branch is the
\* negation of its opposite.
ComparesExact ==
  /\ ToNat(R("sub")) = U1 - U2 + (IF 0 \in R("sltu") THEN 2^XLEN ELSE 0)
  /\ 0 \in R("slt") <=> (SignBit \in R("sub")) #
       ((SignBit \in opd_1) # (SignBit \in opd_2) /\ (SignBit \in R("sub")) # (SignBit \in opd_1))
  /\ should_branch(opd_1, opd_2, "bltu") = (0 \in R("sltu"))
  /\ should_branch(opd_1, opd_2, "blt")  = (0 \in R("slt"))
  /\ \A b \in {<<"beq", "bne">>, <<"blt", "bge">>, <<"bltu", "bgeu">>} :
       should_branch(opd_1, opd_2, b[1]) # should_branch(opd_1, opd_2, b[2])

\* The shifts are the product with a power of two, cut to a word, and the
\* quotients of the unsigned and of the signed value, which round down, also
\* where the second operand is not a valid count and only its remainder is used.
ShiftsExact ==
  LET d == 2^(U2 % XLEN)
  IN  /\ ToNat(R("sll")) = (U1 * d) % 2^XLEN
      /\ ToNat(R("srl")) = U1 \div d
      /\ ToInt(R("sra")) = S1 \div d

\* The export loses nothing: the ranges of the operations' codes do not
\* overlap, from_json recognises each of them although it changes the number
\* between its tests, and the indices fit the types they are read into.
CodesDecode ==
  LET r == from_json(to_json(entry))
  IN  r.opt = entry.opt /\ r.gpr = entry.gpr /\ r.csr = entry.csr

\* The log tells operations apart, and the causes of traps, whose codes differ
\* in the interrupt bit only: no two have the same name, none is "unknown".
NamesUnique ==
  /\ op_type_str(entry.opt) # "unknown"
  /\ \A t \in Enumerated : op_type_str(t) = op_type_str(entry.opt) => t = entry.opt
  /\ str_trap_cause(entry.cause[1], entry.cause[2]) # "unknown"
  /\ \A c \in Causes : str_trap_cause(c[1], c[2]) = str_trap_cause(entry.cause[1], entry.cause[2])
                        => c = entry.cause
=============================================================================
