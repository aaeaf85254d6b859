------------------------------- MODULE Words -------------------------------
(***************************************************************************)
(* Machine words of the simulator.  An unsigned integer of the C++ code is *)
(* represented by the set of its one bits (as std::bitset does), so that   *)
(* masks, bit-fields and or/and/xor are set operations.  XLEN is 32 in the *)
(* code; a byte has XLEN/4 bits, so that a word always has four bytes and  *)
(* the byte-wise algorithms keep their shape when a model shrinks XLEN.    *)
(***************************************************************************)
EXTENDS Integers, FiniteSetsExt

CONSTANT XLEN

ASSUME XLENAssumption == XLEN \in Nat /\ XLEN > 0 /\ XLEN % 4 = 0

ByteLen == XLEN \div 4          \* 8 in the code
HalfLen == 2 * ByteLen          \* 16 in the code
BitPos  == 0 .. (XLEN - 1)
SignBit == XLEN - 1             \* masks::sign_bit

Byte       == SUBSET (0 .. (ByteLen - 1))
Half       == SUBSET (0 .. (HalfLen - 1))
Word       == SUBSET BitPos
DoubleWord == SUBSET (0 .. (2 * XLEN - 1))

ToNat(w)  == MapThenSumSet(LAMBDA i : 2^i, w)
ToWord(n) == {i \in BitPos : (n \div 2^i) % 2 = 1}   \* n modulo 2^XLEN

\* The two's complement reading of w (static_cast<int32_t>).
ToInt(w) == IF SignBit \in w THEN ToNat(w \ {SignBit}) - 2^SignBit ELSE ToNat(w)

\* Word plus a small number, and word plus word, modulo 2^XLEN.
Plus(w, n) == ToWord(ToNat(w) + n)
Add(v, w)  == Plus(v, ToNat(w))

\* fetch_add(1) on a uint8_t: the carry out of the byte is dropped.
FetchAdd(b) == ToWord(ToNat(b) + 1) \cap (0 .. (ByteLen - 1))

\* Unsigned v < w: the highest bit on which they differ is set in w.
Below(v, w) == \E i \in w \ v : \A j \in v \ w : j < i

\* Bits lo..hi of w, moved down to bit 0 (common.hpp: offset).
Offset(w, lo, hi) == {i - lo : i \in w \cap (lo .. hi)}

\* w << n without a width limit: used to put bytes next to each other.
Shift(w, n) == {i + n : i \in w}

\* The low n bits of w sign-extended to a word.
SignExtend(w, n) == IF n - 1 \in w THEN w \cup (n .. (XLEN - 1)) ELSE w
=============================================================================
