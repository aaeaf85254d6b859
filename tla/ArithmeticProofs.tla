-------------------------- MODULE ArithmeticProofs --------------------------
(***************************************************************************)
(* The pure algorithms.  do_alu and should_branch on words of any length:  *)
(* the comparisons, the division, the high-word multiplications and the    *)
(* shifts are exact.  The trace: its names and codes are unambiguous.      *)
(***************************************************************************)
EXTENDS MCPure, WordProofs

\* The sign bit of a word is worth half of the words: the two's complement
\* reading subtracts 2^XLEN from the upper half.
LEMMA SignedValue ==
  /\ 2^XLEN \in Nat /\ 2^SignBit \in Nat /\ 2^SignBit > 1 /\ 2^XLEN = 2 * 2^SignBit
  /\ \A w \in Word : /\ ToNat(w) \in 0 .. (2^XLEN - 1) /\ ToInt(w) \in Int
                     /\ SignBit \in w <=> ToNat(w) >= 2^SignBit
                     /\ SignBit \in w => ToInt(w) = ToNat(w) - 2^XLEN
                     /\ SignBit \notin w => ToInt(w) = ToNat(w)
<1> DEFINE h == 2^SignBit
           M == 2^XLEN
<1>1. SignBit \in Nat /\ XLEN = SignBit + 1 /\ 0 < SignBit /\ SignBit \in BitPos
  BY XLENAssumption DEF SignBit, BitPos
<1>2. h \in Nat /\ M \in Nat /\ M = 2 * h
  BY <1>1, Power
<1>3. h > 1
  <2>0. 0 \in Nat
    OBVIOUS
  <2>1. 2 * 2^0 <= h
    BY <1>1, <2>0, PowerMonotone
  <2>2. 2^0 = 1
    OBVIOUS
  <2> QED
    BY <1>2, <2>1, <2>2
<1>4. ASSUME NEW w \in Word
      PROVE  /\ ToNat(w) \in 0 .. (M - 1) /\ ToInt(w) \in Int
             /\ SignBit \in w <=> ToNat(w) >= h
             /\ SignBit \in w => ToInt(w) = ToNat(w) - M
             /\ SignBit \notin w => ToInt(w) = ToNat(w)
  <2>1. w \in BitSets /\ ToNat(w) \in Nat /\ ToNat(w) < M
    BY WordValues
  <2> DEFINE v == w \ {SignBit}
  <2>2. v \in SUBSET (0 .. (SignBit - 1))
    <3>1. \A i \in w : i \in 0 .. SignBit
      BY <1>1 DEF Word, BitPos
    <3> QED
      BY <1>1, <3>1
  <2>3. ToNat(v) \in Nat /\ ToNat(v) < h
    BY <1>1, <2>2, SumBound
  <2>4. ToInt(w) = IF SignBit \in w THEN ToNat(v) - h ELSE ToNat(w)
    BY DEF ToInt
  <2>5. CASE SignBit \in w
    <3>1. ToNat(w) = ToNat(v) + h
      BY <2>1, <2>5, SumBit
    <3> HIDE DEF v, h, M
    <3> QED
      BY <1>2, <2>1, <2>3, <2>4, <2>5, <3>1
  <2>6. CASE SignBit \notin w
    <3>1. v = w
      BY <2>6
    <3>2. ToNat(v) = ToNat(w)
      BY <3>1, Zenon
    <3> HIDE DEF v, h, M
    <3> QED
      BY <1>2, <2>1, <2>3, <2>4, <2>6, <3>2
  <2> QED
    BY <2>5, <2>6
<1> QED
  BY <1>2, <1>3, <1>4

\* Zero is the word without bits.
LEMMA ZeroWord ==
  /\ {} \in Word /\ ToNat({}) = 0 /\ ToInt({}) = 0
  /\ \A w \in Word : (ToNat(w) = 0 <=> w = {}) /\ (ToInt(w) = 0 <=> w = {})
<1>1. {} \in Word
  BY DEF Word
<1>2. {} \in BitSets
  BY <1>1, WordValues
<1>3. ToNat({}) = 0
  BY <1>2, SumFirst, Zenon
<1>4. ASSUME NEW w \in Word PROVE ToNat(w) = 0 <=> w = {}
  <2>1. ToNat(w) = ToNat({}) => w = {}
    BY <1>1, WordValues
  <2>2. w = {} => ToNat(w) = ToNat({})
    BY Zenon
  <2> QED
    BY <1>3, <2>1, <2>2
<1>5. ASSUME NEW w \in Word PROVE ToInt(w) = 0 <=> ToNat(w) = 0
  BY SignedValue
<1>6. ToInt({}) = 0
  BY <1>1, <1>4, <1>5
<1> QED
  BY <1>1, <1>3, <1>4, <1>5, <1>6

\* A number between the least and the greatest signed word is read back.
LEMMA SignedRange ==
  ASSUME NEW n \in Int, -(2^SignBit) <= n, n < 2^SignBit
  PROVE  ToWord(n) \in Word /\ ToInt(ToWord(n)) = n
<1> DEFINE h == 2^SignBit
           M == 2^XLEN
           w == ToWord(n)
<1>1. M \in Nat /\ h \in Nat /\ h > 1 /\ M = 2 * h
  BY SignedValue
<1>2. w \in Word /\ ToNat(w) = n % M
  BY WordValues
<1>3. /\ ToNat(w) \in 0 .. (M - 1) /\ (SignBit \in w <=> ToNat(w) >= h)
      /\ SignBit \in w => ToInt(w) = ToNat(w) - M
      /\ SignBit \notin w => ToInt(w) = ToNat(w)
  BY <1>2, SignedValue
<1>4. -h <= n /\ n < h
  OBVIOUS
<1> HIDE DEF h, M, w
<1>5. CASE n >= 0
  <2>1. 0 \in Int /\ n \in 0 .. (M - 1) /\ n = (0 * M) + n /\ M > 0
    BY <1>1, <1>4, <1>5
  <2>2. n % M = n
    BY <1>1, <2>1, DivMod
  <2> QED
    BY <1>1, <1>2, <1>3, <1>4, <1>5, <2>2 DEF w
<1>6. CASE n < 0
  <2> DEFINE m == n + M
  <2>1. -1 \in Int /\ m \in 0 .. (M - 1) /\ n = ((-1) * M) + m /\ M > 0
    BY <1>1, <1>4, <1>6
  <2> HIDE DEF m
  <2>2. n % M = m
    BY <1>1, <2>1, DivMod
  <2> QED
    BY <1>1, <1>2, <1>3, <1>4, <1>6, <2>2 DEF w, m
<1> QED
  BY <1>5, <1>6

\* What do_alu computes, operation by operation.
LEMMA Results ==
  ASSUME NEW a, NEW b
  PROVE  /\ do_alu("sub", a, b) = ToWord(ToNat(a) - ToNat(b))
         /\ do_alu("slt", a, b) = IF ToInt(a) < ToInt(b) THEN {0} ELSE {}
         /\ do_alu("sltu", a, b) = IF Below(a, b) THEN {0} ELSE {}
         /\ do_alu("mulh", a, b) = ToWord(mulh(ToInt(a), ToInt(b)))
         /\ do_alu("mulhsu", a, b) = ToWord(mulhsu(ToInt(a), ToNat(b)))
         /\ do_alu("mulhu", a, b) = ToWord(mulhu(ToNat(a), ToNat(b)))
         /\ do_alu("mul", a, b) = ToWord(ToInt(a) * ToInt(b))
         /\ do_alu("divu", a, b) = IF ToNat(b) = 0 THEN BitPos ELSE ToWord(ToNat(a) \div ToNat(b))
         /\ do_alu("remu", a, b) = IF ToNat(b) = 0 THEN a ELSE ToWord(ToNat(a) % ToNat(b))
         /\ do_alu("div", a, b) = IF ToInt(b) = 0 THEN BitPos
                                  ELSE IF is_overflow(ToInt(a), ToInt(b)) THEN a
                                  ELSE ToWord(Quotient(ToInt(a), ToInt(b)))
         /\ do_alu("rem", a, b) = IF ToInt(b) = 0 THEN a
                                  ELSE IF is_overflow(ToInt(a), ToInt(b)) THEN {}
                                  ELSE ToWord(Remainder(ToInt(a), ToInt(b)))
  BY DEF do_alu

-----------------------------------------------------------------------------
(* Comparisons.                                                            *)

\* sub is exact modulo 2^XLEN, with sltu as its borrow and slt as its sign,
\* corrected for overflow.
LEMMA Compares ==
  ASSUME NEW a \in Word, NEW b \in Word
  PROVE  LET sub == do_alu("sub", a, b)
         IN  /\ ToNat(sub) = ToNat(a) - ToNat(b) + (IF 0 \in do_alu("sltu", a, b) THEN 2^XLEN ELSE 0)
             /\ 0 \in do_alu("slt", a, b) <=> (SignBit \in sub) #
                  ((SignBit \in a) # (SignBit \in b) /\ (SignBit \in sub) # (SignBit \in a))
<1> DEFINE h == 2^SignBit
           M == 2^XLEN
           x == ToNat(a)
           y == ToNat(b)
           w == ToWord(x - y)
           z == ToNat(w)
           n == x - y
<1>1. M \in Nat /\ h \in Nat /\ h > 1 /\ M = 2 * h
  BY SignedValue
<1>2. x \in 0 .. (M - 1) /\ y \in 0 .. (M - 1) /\ (Below(a, b) <=> x < y) /\ n \in Int
  BY WordValues, SignedValue
<1>3. w \in Word /\ z = n % M
  BY <1>2, WordValues
<1>4. /\ SignBit \in w <=> z >= h
      /\ SignBit \in a <=> x >= h
      /\ SignBit \in b <=> y >= h
      /\ ToInt(a) = IF SignBit \in a THEN x - M ELSE x
      /\ ToInt(b) = IF SignBit \in b THEN y - M ELSE y
  BY <1>3, SignedValue
<1>5. 0 \in do_alu("sltu", a, b) <=> x < y
  BY <1>2, Results
<1>6. 0 \in do_alu("slt", a, b) <=> ToInt(a) < ToInt(b)
  BY Results
<1>7. do_alu("sub", a, b) = w
  BY Results
<1> HIDE DEF h, M, x, y, w, z
<1>8. z = IF x < y THEN x - y + M ELSE x - y
  <2>1. CASE x >= y
    <3>1. 0 \in Int /\ n \in 0 .. (M - 1) /\ n = (0 * M) + n /\ M > 0
      BY <1>1, <1>2, <2>1
    <3> HIDE DEF n
    <3>2. n % M = n
      BY <1>1, <1>2, <3>1, DivMod
    <3> QED
      BY <1>2, <1>3, <2>1, <3>2 DEF n
  <2>2. CASE x < y
    <3> DEFINE m == n + M
    <3>1. -1 \in Int /\ m \in 0 .. (M - 1) /\ n = ((-1) * M) + m /\ M > 0
      BY <1>1, <1>2, <2>2
    <3> HIDE DEF m, n
    <3>2. n % M = m
      BY <1>1, <1>2, <3>1, DivMod
    <3> QED
      BY <1>2, <1>3, <2>2, <3>2 DEF n, m
  <2> QED
    BY <1>2, <2>1, <2>2
<1>9. ToNat(do_alu("sub", a, b)) = z
  BY <1>7, Zenon DEF z
<1>10. z = x - y + (IF 0 \in do_alu("sltu", a, b) THEN M ELSE 0)
  BY <1>1, <1>2, <1>5, <1>8
<1>11. ToInt(a) < ToInt(b) <=> (z >= h) # ((x >= h) # (y >= h) /\ (z >= h) # (x >= h))
  BY <1>1, <1>2, <1>4, <1>8
<1>12. /\ SignBit \in do_alu("sub", a, b) <=> z >= h
  BY <1>4, <1>7, Zenon
<1>13. 0 \in do_alu("slt", a, b) <=> (SignBit \in do_alu("sub", a, b)) #
         ((SignBit \in a) # (SignBit \in b) /\ (SignBit \in do_alu("sub", a, b)) # (SignBit \in a))
  BY <1>4, <1>6, <1>11, <1>12
<1> QED
  BY <1>9, <1>10, <1>13 DEF x, y, M

-----------------------------------------------------------------------------
(* Division.                                                               *)

\* Quotient and Remainder, the division of C++, truncate towards zero.
LEMMA Truncation ==
  ASSUME NEW a \in Int, NEW b \in Int, b # 0
  PROVE  LET q == Quotient(a, b)
             r == Remainder(a, b)
         IN  /\ q \in Int /\ r \in Int /\ q * b + r = a
             /\ Magnitude(r) < Magnitude(b) /\ (r = 0 \/ (r < 0 <=> a < 0))
             /\ Magnitude(r) <= Magnitude(a) /\ Magnitude(q) <= Magnitude(a)
             /\ Magnitude(q) = Magnitude(a) => a = 0 \/ Magnitude(b) = 1
             /\ (a < 0) = (b < 0) => q >= 0
<1> DEFINE A == Magnitude(a)
           B == Magnitude(b)
           k == A \div B
           t == A % B
           q == Quotient(a, b)
           r == Remainder(a, b)
<1>1. /\ A \in Nat /\ B \in Nat /\ B > 0
      /\ a = IF a < 0 THEN -A ELSE A
      /\ b = IF b < 0 THEN -B ELSE B
  BY DEF Magnitude
<1> HIDE DEF A, B
<1>2. k \in Nat /\ t \in 0 .. (B - 1) /\ A = (k * B) + t
  BY <1>1
<1>3. /\ q = IF (a < 0) # (b < 0) THEN -k ELSE k
      /\ r = a - q * b
  BY DEF Quotient, Remainder, A, B
<1> HIDE DEF k, t, q, r
<1>4. q * b = IF a < 0 THEN -(k * B) ELSE k * B
  <2>1. CASE a < 0 /\ b < 0
    BY <1>1, <1>2, <1>3, <2>1
  <2>2. CASE a < 0 /\ ~(b < 0)
    BY <1>1, <1>2, <1>3, <2>2
  <2>3. CASE ~(a < 0) /\ b < 0
    BY <1>1, <1>2, <1>3, <2>3
  <2>4. CASE ~(a < 0) /\ ~(b < 0)
    BY <1>1, <1>2, <1>3, <2>4
  <2> QED
    BY <2>1, <2>2, <2>3, <2>4
<1> DEFINE p == k * B
<1>5. p \in Nat /\ A = p + t /\ p >= k /\ (B > 1 => p >= 2 * k)
  <2>1. p \in Nat /\ p >= k
    BY <1>1, <1>2
  <2>2. B > 1 => p >= 2 * k
    BY <1>1, <1>2
  <2> QED
    BY <1>2, <2>1, <2>2
<1>6. r = IF a < 0 THEN -t ELSE t
  <2>1. r = IF a < 0 THEN a + p ELSE a - p
    BY <1>1, <1>3, <1>4, <1>5
  <2> HIDE DEF p
  <2> QED
    BY <1>1, <1>2, <1>5, <2>1
<1>7. q \in Int /\ r \in Int /\ q * b + r = a
  BY <1>2, <1>3, <1>6
<1> HIDE DEF p
<1>8. Magnitude(r) = t /\ Magnitude(q) = k
  BY <1>2, <1>3, <1>6 DEF Magnitude
<1>9. /\ Magnitude(r) < B /\ (r = 0 \/ (r < 0 <=> a < 0))
      /\ Magnitude(r) <= A /\ Magnitude(q) <= A
  BY <1>1, <1>2, <1>5, <1>6, <1>8
<1>10. Magnitude(q) = A => a = 0 \/ B = 1
  BY <1>1, <1>2, <1>5, <1>8
<1>11. (a < 0) = (b < 0) => q >= 0
  BY <1>2, <1>3
<1> QED
  BY <1>7, <1>9, <1>10, <1>11 DEF A, B, q, r

\* The unsigned division.
LEMMA DivideUnsigned ==
  ASSUME NEW a \in Word, NEW b \in Word, b # {}
  PROVE  /\ ToNat(do_alu("divu", a, b)) * ToNat(b) + ToNat(do_alu("remu", a, b)) = ToNat(a)
         /\ ToNat(do_alu("remu", a, b)) < ToNat(b)
<1> DEFINE M == 2^XLEN
           x == ToNat(a)
           y == ToNat(b)
           q == x \div y
           r == x % y
<1>1. M \in Nat /\ x \in Nat /\ x < M /\ y \in Nat /\ y < M
  BY WordValues
<1>2. y # 0
  BY ZeroWord
<1> HIDE DEF M, x, y
<1>3. q \in Nat /\ r \in 0 .. (y - 1) /\ x = (q * y) + r
  BY <1>1, <1>2
<1>4. q <= x /\ r < M
  <2> HIDE DEF q, r
  <2>1. q * y >= q
    BY <1>1, <1>2, <1>3
  <2> QED
    BY <1>1, <1>3, <2>1
<1>5. do_alu("divu", a, b) = ToWord(q) /\ do_alu("remu", a, b) = ToWord(r)
  BY <1>2, Results DEF x, y
<1> HIDE DEF q, r
<1>6. \A n \in Nat : n < M => ToNat(ToWord(n)) = n
  <2>1. \A n \in Int : ToNat(ToWord(n)) = n % M
    BY WordValues DEF M
  <2>2. \A n \in Nat : n < M => n % M = n
    BY <1>1
  <2> QED
    BY <2>1, <2>2
<1>7. ToNat(do_alu("divu", a, b)) = q /\ ToNat(do_alu("remu", a, b)) = r
  <2>1. ToNat(ToWord(q)) = q /\ ToNat(ToWord(r)) = r
    BY <1>1, <1>3, <1>4, <1>6
  <2> QED
    BY <1>5, <2>1, Zenon
<1> QED
  BY <1>1, <1>3, <1>7 DEF x, y

\* The signed division, without overflow.
LEMMA DivideSigned ==
  ASSUME NEW a \in Word, NEW b \in Word, ToInt(b) # 0, ~is_overflow(ToInt(a), ToInt(b))
  PROVE  LET q == ToInt(do_alu("div", a, b))
             r == ToInt(do_alu("rem", a, b))
         IN  /\ q * ToInt(b) + r = ToInt(a) /\ Magnitude(r) < Magnitude(ToInt(b))
             /\ r = 0 \/ (r < 0 <=> ToInt(a) < 0)
<1> DEFINE h == 2^SignBit
           x == ToInt(a)
           y == ToInt(b)
           q == Quotient(x, y)
           r == Remainder(x, y)
<1>1. h \in Nat /\ h > 1 /\ x \in Int /\ y \in Int /\ y # 0 /\ -h <= x /\ x < h /\ -h <= y /\ y < h
  BY SignedValue
<1>2. ~(x = -h /\ y = -1)
  BY DEF is_overflow, SignBit
<1> HIDE DEF h, x, y
<1>3. /\ q \in Int /\ r \in Int /\ q * y + r = x
      /\ Magnitude(r) < Magnitude(y) /\ (r = 0 \/ (r < 0 <=> x < 0))
      /\ Magnitude(r) <= Magnitude(x) /\ Magnitude(q) <= Magnitude(x)
      /\ Magnitude(q) = Magnitude(x) => x = 0 \/ Magnitude(y) = 1
      /\ (x < 0) = (y < 0) => q >= 0
  BY <1>1, Truncation
<1>4. do_alu("div", a, b) = ToWord(q) /\ do_alu("rem", a, b) = ToWord(r)
  BY Results DEF x, y
<1> HIDE DEF q, r
<1>5. -h <= q /\ q < h /\ -h <= r /\ r < h
  <2>1. -h <= q /\ -h <= r
    BY <1>1, <1>3 DEF Magnitude
  <2>2. r < h
    BY <1>1, <1>3 DEF Magnitude
  <2>3. q < h
    BY <1>1, <1>2, <1>3 DEF Magnitude
  <2> QED
    BY <2>1, <2>2, <2>3
<1>6. ToInt(ToWord(q)) = q /\ ToInt(ToWord(r)) = r
  BY <1>3, <1>5, SignedRange DEF h
<1>7. ToInt(do_alu("div", a, b)) = q /\ ToInt(do_alu("rem", a, b)) = r
  BY <1>4, <1>6, Zenon
<1> QED
  BY <1>3, <1>7 DEF x, y

\* The word with all bits set is -1.
LEMMA AllOnes == BitPos \in Word /\ ToInt(BitPos) = -1
<1>1. ASSUME NEW i \in BitPos PROVE ((-1) \div 2^i) % 2 = 1
  <2> DEFINE d == 2^i
             r == d - 1
             n == -1
  <2>1. i \in Nat
    BY XLENAssumption DEF BitPos
  <2>2. d \in Nat /\ d > 0
    BY <2>1, Power
  <2> HIDE DEF d
  <2>3. n \in Int /\ r \in 0 .. (d - 1) /\ n = (n * d) + r
    BY <2>2
  <2> HIDE DEF n, r
  <2>4. n \div d = n
    BY <2>2, <2>3, DivMod
  <2>5. 2 \in Nat /\ 2 > 0 /\ 1 \in 0 .. (2 - 1) /\ n = (n * 2) + 1
    BY DEF n
  <2>6. n % 2 = 1
    BY <2>3, <2>5, DivMod
  <2> QED
    BY <2>4, <2>6 DEF n, d
<1>2. ToWord(-1) = BitPos
  BY <1>1 DEF ToWord
<1>3. -1 \in Int /\ -(2^SignBit) <= -1 /\ -1 < 2^SignBit
  BY SignedValue
<1>4. ToInt(ToWord(-1)) = -1
  BY <1>3, SignedRange
<1> QED
  BY <1>2, <1>4 DEF Word

-----------------------------------------------------------------------------
(* Multiplication.                                                         *)

\* Powers of two multiply by adding their exponents.
LEMMA PowerSum ==
  ASSUME NEW m \in Nat, NEW n \in Nat
  PROVE  2^(m + n) = 2^m * 2^n
<1> DEFINE T == {k \in Nat : 2^(m + k) # 2^m * 2^k}
<1> SUFFICES ASSUME T # {} PROVE FALSE
  OBVIOUS
<1>1. PICK k \in T : \A l \in T : k <= l
  <2>1. T \subseteq Nat
    OBVIOUS
  <2> HIDE DEF T
  <2> QED
    BY <2>1, Least
<1>2. CASE k = 0
  <2>1. m + 0 = m /\ 2^0 = 1 /\ 2^m \in Nat
    BY Power
  <2> QED
    BY <1>1, <1>2, <2>1
<1>3. CASE k # 0
  <2> DEFINE j == k - 1
  <2>1. j \in Nat /\ k = j + 1 /\ m + j \in Nat /\ m + k = (m + j) + 1
    BY <1>3
  <2> HIDE DEF j
  <2>2. 2^(m + j) = 2^m * 2^j
    BY <1>1, <2>1
  <2>3. 2^k = 2 * 2^j /\ 2^(m + k) = 2 * 2^(m + j) /\ 2^m \in Nat /\ 2^j \in Nat
    BY <2>1, Power
  <2>4. 2 * (2^m * 2^j) = 2^m * (2 * 2^j)
    BY <2>3
  <2> QED
    BY <1>1, <2>2, <2>3, <2>4
<1> QED
  BY <1>2, <1>3

\* A word is two half words, and a number below 2^XLEN is its own remainder.
LEMMA Halves ==
  LET H == 2^HalfLen
      M == 2^XLEN
  IN  /\ H \in Nat /\ H > 0 /\ M \in Nat /\ M > 0 /\ M = H * H
      /\ \A n \in Nat : n < M => n % M = n
      /\ \A n \in Nat : n < M => n \div H \in 0 .. (H - 1) /\ n % H \in 0 .. (H - 1)
                                 /\ n = ((n \div H) * H) + (n % H)
<1> DEFINE H == 2^HalfLen
           M == 2^XLEN
<1>1. HalfLen \in Nat /\ XLEN = HalfLen + HalfLen
  BY Widths
<1>2. H \in Nat /\ H > 0 /\ M = H * H
  BY <1>1, Power, PowerSum
<1>3. M \in Nat /\ M > 0
  BY WordValues
<1> HIDE DEF H, M
<1>4. \A n \in Nat : n < M => n % M = n
  BY <1>3
<1>5. ASSUME NEW n \in Nat, n < M
      PROVE  n \div H \in 0 .. (H - 1) /\ n % H \in 0 .. (H - 1) /\ n = ((n \div H) * H) + (n % H)
  <2> DEFINE q == n \div H
             r == n % H
  <2>1. q \in Nat /\ r \in 0 .. (H - 1) /\ n = (q * H) + r
    BY <1>2
  <2> HIDE DEF q, r
  <2>2. q < H
    <3> SUFFICES ASSUME q >= H PROVE FALSE
      BY <1>2, <2>1
    <3>1. q * H >= H * H
      BY <1>2, <2>1
    <3> QED
      BY <1>2, <1>3, <1>5, <2>1, <3>1
  <2> QED
    BY <1>2, <2>1, <2>2 DEF q, r
<1> QED
  BY <1>2, <1>3, <1>4, <1>5 DEF H, M

\* mulhu, from half-word products in which nothing overflows, is the upper word
\* of the product.
LEMMA HighWord ==
  ASSUME NEW a \in 0 .. (2^XLEN - 1), NEW b \in 0 .. (2^XLEN - 1)
  PROVE  /\ mulhu(a, b) \in 0 .. (2^XLEN - 1)
         /\ \E low \in 0 .. (2^XLEN - 1) : a * b = mulhu(a, b) * 2^XLEN + low
<1> DEFINE H == 2^HalfLen
           M == 2^XLEN
           U(n) == n % M
           a_0 == a % H    a_1 == a \div H
           b_0 == b % H    b_1 == b \div H
           p00 == a_0 * b_0
           p01 == a_0 * b_1
           p10 == a_1 * b_0
           p11 == a_1 * b_1
           c   == p00 \div H
           d   == p00 % H
           t   == p10 + c
           y_1 == t % H
           y_2 == t \div H
           s   == p01 + y_1
           g   == s \div H
           e   == s % H
           res == p11 + y_2 + g
<1>1. /\ H \in Nat /\ H > 0 /\ M \in Nat /\ M > 0 /\ M = H * H
      /\ \A n \in Nat : n < M => n % M = n
      /\ \A n \in Nat : n < M => n \div H \in 0 .. (H - 1) /\ n % H \in 0 .. (H - 1)
                                 /\ n = ((n \div H) * H) + (n % H)
  BY Halves
<1>0. a \in 0 .. (M - 1) /\ b \in 0 .. (M - 1)
  OBVIOUS
<1>3. mulhu(a, b) = U(U(U(p11) + ((U(U(p10) + (U(p00) \div H)) \div H) % H))
                      + (U(U(p01) + (U(U(p10) + (U(p00) \div H)) % H)) \div H))
  BY Zenon DEF mulhu
<1> HIDE DEF H, M
<1>2. a \in Nat /\ a < M /\ b \in Nat /\ b < M
  BY <1>0, <1>1
<1>4. /\ a_0 \in 0 .. (H - 1) /\ a_1 \in 0 .. (H - 1) /\ a = (a_1 * H) + a_0
      /\ b_0 \in 0 .. (H - 1) /\ b_1 \in 0 .. (H - 1) /\ b = (b_1 * H) + b_0
  BY <1>1, <1>2
<1> HIDE DEF a_0, a_1, b_0, b_1
<1>5. ASSUME NEW x \in 0 .. (H - 1), NEW y \in 0 .. (H - 1)
      PROVE  x * y \in Nat /\ x * y + 2 * (H - 1) < M
  <2>1. x * y <= x * (H - 1) /\ x * (H - 1) <= (H - 1) * (H - 1) /\ x * y \in Nat
    BY <1>1
  <2>2. (H - 1) * (H - 1) + 2 * (H - 1) = (H * H) - 1
    BY <1>1
  <2> QED
    BY <1>1, <2>1, <2>2
<1>6. /\ p00 \in Nat /\ p00 + 2 * (H - 1) < M
      /\ p01 \in Nat /\ p01 + 2 * (H - 1) < M
      /\ p10 \in Nat /\ p10 + 2 * (H - 1) < M
      /\ p11 \in Nat /\ p11 + 2 * (H - 1) < M
  BY <1>4, <1>5
<1>7. a * b = (p11 * M) + ((p10 + p01) * H) + p00
  <2>1. a * b = (a_1 * H) * (b_1 * H) + (a_1 * H) * b_0 + a_0 * (b_1 * H) + a_0 * b_0
    BY <1>1, <1>4
  <2>2. (a_1 * H) * (b_1 * H) = (a_1 * b_1) * (H * H)
    BY <1>1, <1>4
  <2>3. (a_1 * H) * b_0 + a_0 * (b_1 * H) = (a_1 * b_0 + a_0 * b_1) * H
    BY <1>1, <1>4
  <2> QED
    BY <1>1, <1>4, <2>1, <2>2, <2>3
<1> HIDE DEF p00, p01, p10, p11
<1>8. c \in 0 .. (H - 1) /\ d \in 0 .. (H - 1) /\ p00 = (c * H) + d
  BY <1>1, <1>6
<1>9. U(p00) = p00 /\ U(p01) = p01 /\ U(p10) = p10 /\ U(p11) = p11
  BY <1>1, <1>6
<1> HIDE DEF c, d
<1>10. t \in Nat /\ t < M /\ U(t) = t
  BY <1>1, <1>6, <1>8
<1> HIDE DEF t
<1>11. y_1 \in 0 .. (H - 1) /\ y_2 \in 0 .. (H - 1) /\ t = (y_2 * H) + y_1 /\ y_2 % H = y_2
  BY <1>1, <1>10
<1> HIDE DEF y_1, y_2
<1>12. s \in Nat /\ s < M /\ U(s) = s
  BY <1>1, <1>6, <1>11
<1> HIDE DEF s
<1>13. g \in 0 .. (H - 1) /\ e \in 0 .. (H - 1) /\ s = (g * H) + e
  BY <1>1, <1>12
<1> HIDE DEF g, e
<1>14. res \in 0 .. (M - 1) /\ U(res) = res /\ U(p11 + y_2) = p11 + y_2
  BY <1>1, <1>6, <1>11, <1>13
<1>15. mulhu(a, b) = res
  <2>1. U(p00) \div H = c
    BY <1>9 DEF c
  <2>2. U(U(p10) + (U(p00) \div H)) = t
    BY <1>9, <1>10, <2>1 DEF t
  <2>3. (t \div H) % H = y_2 /\ t % H = y_1
    BY <1>11 DEF y_1, y_2
  <2>4. U(U(p01) + y_1) = s
    BY <1>9, <1>12 DEF s
  <2>5. s \div H = g
    BY DEF g
  <2>6. mulhu(a, b) = U(U(p11 + y_2) + g)
    BY <1>3, <1>9, <2>2, <2>3, <2>4, <2>5
  <2> QED
    BY <1>14, <2>6
<1> DEFINE low == (e * H) + d
<1>16. low \in 0 .. (M - 1)
  <2>1. e * H <= (H - 1) * H /\ e * H \in Nat
    BY <1>1, <1>13
  <2>2. (H - 1) * H = (H * H) - H
    BY <1>1
  <2> QED
    BY <1>1, <1>8, <2>1, <2>2
<1>17. a * b = (res * M) + low
  <2>1. (p10 + p01) * H = (p10 * H) + (p01 * H)
    BY <1>1, <1>6
  <2>2. (p10 * H) + (c * H) = (y_2 * M) + (y_1 * H)
    <3>1. p10 + c = (y_2 * H) + y_1
      BY <1>11 DEF t
    <3>2. (p10 + c) * H = ((y_2 * H) + y_1) * H
      BY <3>1
    <3>3. ((y_2 * H) + y_1) * H = (y_2 * (H * H)) + (y_1 * H)
      BY <1>1, <1>11
    <3>4. (p10 + c) * H = (p10 * H) + (c * H)
      BY <1>1, <1>6, <1>8
    <3> QED
      BY <1>1, <3>2, <3>3, <3>4
  <2>3. (p01 * H) + (y_1 * H) = (g * M) + (e * H)
    <3>1. p01 + y_1 = (g * H) + e
      BY <1>13 DEF s
    <3>2. (p01 + y_1) * H = ((g * H) + e) * H
      BY <3>1
    <3>3. ((g * H) + e) * H = (g * (H * H)) + (e * H)
      BY <1>1, <1>13
    <3>4. (p01 + y_1) * H = (p01 * H) + (y_1 * H)
      BY <1>1, <1>6, <1>11
    <3> QED
      BY <1>1, <3>2, <3>3, <3>4
  <2>4. res * M = (p11 * M) + (y_2 * M) + (g * M)
    BY <1>1, <1>6, <1>11, <1>13
  <2>5. /\ p10 * H \in Int /\ p01 * H \in Int /\ c * H \in Int /\ y_1 * H \in Int /\ e * H \in Int
        /\ y_2 * M \in Int /\ g * M \in Int /\ p11 * M \in Int
    BY <1>1, <1>6, <1>8, <1>11, <1>13
  <2> QED
    BY <1>7, <1>8, <2>1, <2>2, <2>3, <2>4, <2>5
<1> HIDE DEF res, low
<1> QED
  BY <1>14, <1>15, <1>16, <1>17 DEF M

\* A multiple of the divisor does not change the remainder.
LEMMA ModShift ==
  ASSUME NEW d \in Nat, d > 0, NEW n \in Int, NEW k \in Int
  PROVE  (n + (k * d)) % d = n % d
<1> DEFINE q == n \div d
           r == n % d
           m == n + (k * d)
           p == q + k
<1>1. q \in Int /\ r \in 0 .. (d - 1) /\ n = (q * d) + r
  OBVIOUS
<1> HIDE DEF q, r
<1>2. p \in Int /\ m \in Int /\ m = (p * d) + r
  BY <1>1
<1> HIDE DEF p, m
<1>3. m % d = r
  BY <1>1, <1>2, DivMod
<1> QED
  BY <1>3 DEF m, r

\* A small number is read back from its remainder, too.
LEMMA SignedRemainder ==
  ASSUME NEW n \in Int, -(2^SignBit) <= n, n < 2^SignBit
  PROVE  ToInt(ToWord(n % 2^XLEN)) = n
<1> DEFINE M == 2^XLEN
           m == n % M
<1>1. M \in Nat /\ M > 0
  BY WordValues
<1>2. ToWord(n) \in Word /\ ToNat(ToWord(n)) = m /\ ToInt(ToWord(n)) = n
  BY WordValues, SignedRange
<1> HIDE DEF M
<1>3. m \in Nat /\ m < M
  BY <1>1
<1>4. m % M = m
  BY <1>1, <1>3
<1> HIDE DEF m
<1>5. ToWord(m) \in Word /\ ToNat(ToWord(m)) = m % M
  BY <1>3, WordValues DEF M
<1>6. ToWord(m) = ToWord(n)
  BY <1>2, <1>4, <1>5, WordValues
<1> QED
  BY <1>2, <1>6 DEF m, M

\* NegatedHigh is the upper word of the negated product.
LEMMA Negation ==
  ASSUME NEW P \in Nat, NEW res \in 0 .. (2^SignBit - 1), NEW low \in 0 .. (2^XLEN - 1),
         P = (res * 2^XLEN) + low
  PROVE  ToInt(ToWord(NegatedHigh(res, (-P) % 2^XLEN))) * 2^XLEN + ((-P) % 2^XLEN) = -P
<1> DEFINE h == 2^SignBit
           M == 2^XLEN
           l == (-P) % M
           c == IF l = 0 THEN 1 ELSE 0
           n == c - 1 - res
           N == -P
<1>1. M \in Nat /\ M > 0 /\ h \in Nat /\ h > 1 /\ M = 2 * h
  BY SignedValue
<1>2. res \in 0 .. (h - 1) /\ low \in 0 .. (M - 1) /\ P = (res * M) + low
  OBVIOUS
<1>3. NegatedHigh(res, l) = ((M - 1 - res) + c) % M
  BY DEF NegatedHigh
<1> HIDE DEF h, M
<1>4. l = IF low = 0 THEN 0 ELSE M - low
  <2>1. CASE low = 0
    <3> DEFINE q == -res
    <3>1. q \in Int /\ 0 \in 0 .. (M - 1) /\ N \in Int /\ N = (q * M) + 0
      BY <1>1, <1>2, <2>1
    <3> HIDE DEF q, N
    <3>2. N % M = 0
      BY <1>1, <3>1, DivMod
    <3> QED
      BY <2>1, <3>2 DEF N
  <2>2. CASE low # 0
    <3> DEFINE q == -res - 1
               r == M - low
    <3>1. q * M = -(res * M) - M
      BY <1>1, <1>2
    <3>2. q \in Int /\ r \in 0 .. (M - 1) /\ N \in Int /\ N = (q * M) + r
      BY <1>1, <1>2, <2>2, <3>1
    <3> HIDE DEF q, r, N
    <3>3. N % M = r
      BY <1>1, <3>2, DivMod
    <3> QED
      BY <2>2, <3>3 DEF N, r
  <2> QED
    BY <2>1, <2>2
<1> HIDE DEF l
<1>5. n \in Int /\ -h <= n /\ n < h
  BY <1>1, <1>2
<1>6. ((M - 1 - res) + c) % M = n % M
  <2>1. (M - 1 - res) + c = n + (1 * M) /\ 1 \in Int
    BY <1>1, <1>2
  <2> HIDE DEF n, c
  <2>2. (n + (1 * M)) % M = n % M
    BY <1>1, <1>5, <2>1, ModShift
  <2> QED
    BY <2>1, <2>2
<1>7. ToInt(ToWord(NegatedHigh(res, l))) = n
  <2>1. ToInt(ToWord(n % M)) = n
    BY <1>5, SignedRemainder DEF h, M
  <2>2. NegatedHigh(res, l) = n % M
    BY <1>3, <1>6
  <2> QED
    BY <2>1, <2>2, Zenon
<1>8. (n * M) + l = -P
  <2>1. CASE low = 0
    <3>1. n = -res /\ l = 0
      BY <1>2, <1>4, <2>1
    <3> HIDE DEF n
    <3> QED
      BY <1>1, <1>2, <2>1, <3>1
  <2>2. CASE low # 0
    <3>1. n = -1 - res /\ l = M - low
      BY <1>1, <1>2, <1>4, <2>2
    <3> HIDE DEF n
    <3>2. n * M = -M - (res * M)
      BY <1>1, <1>2, <3>1
    <3> QED
      BY <1>1, <1>2, <3>1, <3>2
  <2> QED
    BY <2>1, <2>2
<1> HIDE DEF n
<1>9. ToInt(ToWord(NegatedHigh(res, l))) * M + l = -P
  BY <1>7, <1>8
<1> QED
  BY <1>9 DEF l, M

\* The three products: the upper word above the low one, which is the same
\* whatever the signs.
LEMMA Products ==
  ASSUME NEW a \in Word, NEW b \in Word
  PROVE  /\ (ToInt(a) * ToInt(b)) % 2^XLEN = (ToNat(a) * ToNat(b)) % 2^XLEN
         /\ (ToInt(a) * ToNat(b)) % 2^XLEN = (ToNat(a) * ToNat(b)) % 2^XLEN
<1> DEFINE M == 2^XLEN
           x == ToNat(a)
           y == ToNat(b)
<1>1. M \in Nat /\ M > 0 /\ x \in Int /\ y \in Int
  BY WordValues
<1>2. PICK i \in {0, 1} : ToInt(a) = x - (i * M)
  <2>1. ToInt(a) = x \/ ToInt(a) = x - M
    BY SignedValue
  <2> HIDE DEF x, M
  <2>2. x = x - (0 * M) /\ x - M = x - (1 * M)
    BY <1>1
  <2> QED
    BY <2>1, <2>2
<1>3. PICK j \in {0, 1} : ToInt(b) = y - (j * M)
  <2>1. ToInt(b) = y \/ ToInt(b) = y - M
    BY SignedValue
  <2> HIDE DEF y, M
  <2>2. y = y - (0 * M) /\ y - M = y - (1 * M)
    BY <1>1
  <2> QED
    BY <2>1, <2>2
<1> HIDE DEF M, x, y
<1> DEFINE n == x * y
           k == (i * j * M) - (x * j) - (i * y)
           m == -(i * y)
<1>4. n \in Int /\ k \in Int /\ m \in Int
  BY <1>1
<1>5. ToInt(a) * ToInt(b) = n + (k * M)
  <2>1. (x - (i * M)) * (y - (j * M)) = (x * y) + (((i * j * M) - (x * j) - (i * y)) * M)
    BY <1>1
  <2> QED
    BY <1>2, <1>3, <2>1
<1>6. ToInt(a) * y = n + (m * M)
  <2>1. (x - (i * M)) * y = (x * y) + ((-(i * y)) * M)
    BY <1>1
  <2> QED
    BY <1>2, <2>1
<1> HIDE DEF n, k, m
<1>7. (n + (k * M)) % M = n % M /\ (n + (m * M)) % M = n % M
  BY <1>1, <1>4, ModShift
<1> QED
  BY <1>5, <1>6, <1>7 DEF n, x, y, M

\* A product with a first factor of at most half the range, negative or not.
LEMMA SignedHigh ==
  ASSUME NEW A \in 0 .. 2^SignBit, NEW B \in 0 .. (2^XLEN - 1)
  PROVE  LET res == mulhu(A, B)
             P   == A * B
         IN  /\ ToInt(ToWord(res)) * 2^XLEN + (P % 2^XLEN) = P
             /\ ToInt(ToWord(NegatedHigh(res, (-P) % 2^XLEN))) * 2^XLEN + ((-P) % 2^XLEN) = -P
<1> DEFINE h == 2^SignBit
           M == 2^XLEN
           res == mulhu(A, B)
           P == A * B
<1>1. M \in Nat /\ M > 0 /\ h \in Nat /\ h > 1 /\ M = 2 * h
  BY SignedValue
<1>2. A \in 0 .. h /\ B \in 0 .. (M - 1)
  OBVIOUS
<1> HIDE DEF h, M
<1>3. A \in 0 .. (M - 1)
  BY <1>1, <1>2
<1>4. res \in 0 .. (M - 1) /\ \E low \in 0 .. (M - 1) : P = (res * M) + low
  BY <1>2, <1>3, HighWord DEF M
<1>5. PICK low \in 0 .. (M - 1) : P = (res * M) + low
  BY <1>4
<1> HIDE DEF res
<1>6. P \in Nat /\ P < h * M
  <2>1. A * B <= h * B /\ A * B \in Nat
    BY <1>1, <1>2
  <2>2. h * B <= h * (M - 1) /\ h * (M - 1) = (h * M) - h
    BY <1>1, <1>2
  <2> QED
    BY <1>1, <1>2, <2>1, <2>2
<1> HIDE DEF P
<1>7. res < h
  <2> SUFFICES ASSUME res >= h PROVE FALSE
    BY <1>1, <1>4
  <2>1. res * M >= h * M
    BY <1>1, <1>4
  <2> QED
    BY <1>1, <1>4, <1>5, <1>6, <2>1
<1>8. P % M = low
  BY <1>1, <1>4, <1>5, <1>6, DivMod
<1>9. ToInt(ToWord(res)) = res
  BY <1>1, <1>4, <1>7, SignedRange DEF h
<1>10. ToInt(ToWord(res)) * M + (P % M) = P
  BY <1>5, <1>8, <1>9
<1>11. ToInt(ToWord(NegatedHigh(res, (-P) % M))) * M + ((-P) % M) = -P
  <2>1. res \in 0 .. (h - 1)
    BY <1>1, <1>4, <1>7
  <2> QED
    BY <1>5, <1>6, <2>1, Negation DEF h, M
<1> QED
  BY <1>10, <1>11 DEF res, P, M

\* mulh and mulhsu take the magnitudes and negate the product.
LEMMA HighParts ==
  ASSUME NEW a \in Word, NEW b \in Word
  PROVE  LET i == ToInt(a)
             j == ToInt(b)
             k == ToNat(b)
         IN  /\ ToInt(ToWord(mulh(i, j))) * 2^XLEN + ((i * j) % 2^XLEN) = i * j
             /\ ToInt(ToWord(mulhsu(i, k))) * 2^XLEN + ((i * k) % 2^XLEN) = i * k
<1> DEFINE h == 2^SignBit
           M == 2^XLEN
           x == ToInt(a)
           y == ToInt(b)
           u == ToNat(b)
           A == Magnitude(x)
           B == Magnitude(y)
<1>1. /\ M \in Nat /\ h \in Nat /\ M = 2 * h /\ h > 1 /\ x \in Int /\ y \in Int /\ u \in 0 .. (M - 1)
      /\ -h <= x /\ x < h /\ -h <= y /\ y < h
  BY SignedValue
<1> HIDE DEF h, M, x, y, u
<1>2. A \in 0 .. h /\ B \in 0 .. (M - 1)
  BY <1>1 DEF Magnitude
<1>3. /\ ToInt(ToWord(mulhu(A, B))) * M + ((A * B) % M) = A * B
      /\ ToInt(ToWord(NegatedHigh(mulhu(A, B), (-(A * B)) % M))) * M + ((-(A * B)) % M) = -(A * B)
  BY <1>2, SignedHigh DEF h, M
<1>4. /\ ToInt(ToWord(mulhu(A, u))) * M + ((A * u) % M) = A * u
      /\ ToInt(ToWord(NegatedHigh(mulhu(A, u), (-(A * u)) % M))) * M + ((-(A * u)) % M) = -(A * u)
  BY <1>1, <1>2, SignedHigh DEF h, M
<1>5. /\ A \in Int /\ x = IF x < 0 THEN -A ELSE A
      /\ B \in Int /\ y = IF y < 0 THEN -B ELSE B
  BY <1>1 DEF Magnitude
<1>6. /\ mulh(x, y) = IF (x < 0) # (y < 0) THEN NegatedHigh(mulhu(A, B), (x * y) % M) ELSE mulhu(A, B)
      /\ mulhsu(x, u) = IF x < 0 THEN NegatedHigh(mulhu(A, u), (x * u) % M) ELSE mulhu(A, u)
  BY DEF mulh, mulhsu, M
<1> HIDE DEF A, B
<1>7. x * y = IF (x < 0) # (y < 0) THEN -(A * B) ELSE A * B
  <2>1. (-A) * B = -(A * B) /\ A * (-B) = -(A * B) /\ (-A) * (-B) = A * B
    BY <1>5
  <2> QED
    BY <1>5, <2>1
<1>8. x * u = IF x < 0 THEN -(A * u) ELSE A * u
  <2>1. (-A) * u = -(A * u)
    BY <1>1, <1>5
  <2> QED
    BY <1>5, <2>1
<1>9. ToInt(ToWord(mulh(x, y))) * M + ((x * y) % M) = x * y
  <2>1. CASE (x < 0) # (y < 0)
    <3>1. x * y = -(A * B) /\ mulh(x, y) = NegatedHigh(mulhu(A, B), (x * y) % M)
      BY <1>6, <1>7, <2>1
    <3> QED
      BY <1>3, <3>1, Zenon
  <2>2. CASE ~((x < 0) # (y < 0))
    <3>1. x * y = A * B /\ mulh(x, y) = mulhu(A, B)
      BY <1>6, <1>7, <2>2
    <3> QED
      BY <1>3, <3>1, Zenon
  <2> QED
    BY <2>1, <2>2
<1>10. ToInt(ToWord(mulhsu(x, u))) * M + ((x * u) % M) = x * u
  <2>1. CASE x < 0
    <3>1. x * u = -(A * u) /\ mulhsu(x, u) = NegatedHigh(mulhu(A, u), (x * u) % M)
      BY <1>6, <1>8, <2>1
    <3> QED
      BY <1>4, <3>1, Zenon
  <2>2. CASE ~(x < 0)
    <3>1. x * u = A * u /\ mulhsu(x, u) = mulhu(A, u)
      BY <1>6, <1>8, <2>2
    <3> QED
      BY <1>4, <3>1, Zenon
  <2> QED
    BY <2>1, <2>2
<1> QED
  BY <1>9, <1>10 DEF x, y, u, M

\* mul is the lower word, mulhu, mulh and mulhsu are the upper word of the
\* product.
LEMMA Multiply ==
  ASSUME NEW a \in Word, NEW b \in Word
  PROVE  LET low == ToNat(do_alu("mul", a, b))
         IN  /\ ToNat(do_alu("mulhu", a, b)) * 2^XLEN + low = ToNat(a) * ToNat(b)
             /\ ToInt(do_alu("mulh", a, b)) * 2^XLEN + low = ToInt(a) * ToInt(b)
             /\ ToInt(do_alu("mulhsu", a, b)) * 2^XLEN + low = ToInt(a) * ToNat(b)
<1> DEFINE M == 2^XLEN
           x == ToInt(a)
           y == ToInt(b)
           t == ToNat(a)
           u == ToNat(b)
           low == ToNat(do_alu("mul", a, b))
           res == mulhu(t, u)
<1>1. /\ M \in Nat /\ M > 0 /\ t \in 0 .. (M - 1) /\ u \in 0 .. (M - 1)
      /\ x \in Int /\ y \in Int /\ x * y \in Int
  BY SignedValue
<1>2. low = (x * y) % M
  <2>1. ToNat(ToWord(x * y)) = (x * y) % M
    BY <1>1, WordValues
  <2>2. do_alu("mul", a, b) = ToWord(x * y)
    BY Results
  <2> QED
    BY <2>1, <2>2, Zenon
<1>3. (x * y) % M = (t * u) % M /\ (x * u) % M = (t * u) % M
  BY Products
<1>4. res \in 0 .. (M - 1) /\ \E l \in 0 .. (M - 1) : t * u = res * M + l
  BY <1>1, HighWord
<1>5. /\ ToInt(ToWord(mulh(x, y))) * M + ((x * y) % M) = x * y
      /\ ToInt(ToWord(mulhsu(x, u))) * M + ((x * u) % M) = x * u
  BY HighParts
<1>6. /\ do_alu("mulh", a, b) = ToWord(mulh(x, y))
      /\ do_alu("mulhsu", a, b) = ToWord(mulhsu(x, u))
      /\ do_alu("mulhu", a, b) = ToWord(res)
  BY Results
<1>7. ToNat(do_alu("mulhu", a, b)) = res
  <2>1. ToNat(ToWord(res)) = res % M
    BY <1>4, WordValues
  <2> HIDE DEF res, M
  <2>2. res % M = res
    BY <1>1, <1>4
  <2> QED
    BY <1>6, <2>1, <2>2, Zenon
<1> HIDE DEF M, x, y, t, u, low, res
<1>8. res * M + low = t * u
  <2>1. PICK l \in 0 .. (M - 1) : t * u = (res * M) + l
    BY <1>4
  <2> DEFINE n == t * u
  <2>2. n \in Int /\ n = (res * M) + l /\ res \in Int
    BY <1>1, <1>4, <2>1
  <2> HIDE DEF n
  <2>3. n % M = l
    BY <1>1, <2>2, DivMod
  <2> QED
    BY <1>2, <1>3, <2>2, <2>3 DEF n
<1>9. ToNat(do_alu("mulhu", a, b)) * M + low = t * u
  BY <1>7, <1>8, Zenon
<1>10. ToInt(do_alu("mulh", a, b)) * M + low = x * y
  BY <1>2, <1>5, <1>6, Zenon
<1>11. ToInt(do_alu("mulhsu", a, b)) * M + low = x * u
  BY <1>2, <1>3, <1>5, <1>6, Zenon
<1> QED
  BY <1>9, <1>10, <1>11 DEF M, x, y, t, u, low

-----------------------------------------------------------------------------
(* Shifts.                                                                 *)

\* Moving every bit n places up multiplies by 2^n.
LEMMA ShiftValue ==
  ASSUME NEW k \in Nat, NEW w \in SUBSET (0 .. (k - 1)), NEW n \in Nat
  PROVE  ToNat(w) \in Nat /\ ToNat(Shift(w, n)) = ToNat(w) * 2^n
<1> DEFINE W == SUBSET (0 .. (k - 1))
           T == {v \in W : ToNat(Shift(v, n)) # ToNat(v) * 2^n}
<1>1. \A v \in W : v \in BitSets /\ ToNat(v) \in Nat
  BY SumBound
<1>2. ASSUME NEW v \in W PROVE Shift(v, n) \in BitSets /\ ToNat(Shift(v, n)) \in Nat
  <2>1. Shift(v, n) \in SUBSET (0 .. ((k + n) - 1)) /\ k + n \in Nat
    BY DEF Shift
  <2> QED
    BY <2>1, SumBound
<1> SUFFICES ASSUME T # {} PROVE FALSE
  BY <1>1
<1>3. PICK v \in T : \A u \in T : u \subseteq v => u = v
  <2>1. T \subseteq FiniteSubsetsOf(Nat)
    BY <1>1 DEF BitSets
  <2> HIDE DEF T
  <2> QED
    BY <2>1, Smallest
<1>4. CASE v = {}
  <2>1. Shift(v, n) = {} /\ {} \in BitSets
    BY <1>1, <1>4 DEF Shift
  <2>2. ToNat({}) = 0
    BY <2>1, SumFirst, Zenon
  <2>3. ToNat(v) = 0 /\ ToNat(Shift(v, n)) = 0
    BY <1>4, <2>1, <2>2, Zenon
  <2>4. 0 * 2^n = 0
    BY Power
  <2> QED
    BY <1>3, <2>3, <2>4
<1>5. CASE v # {}
  <2>1. PICK i \in v : i \in Nat
    <3>1. \A i \in v : i \in Nat
      OBVIOUS
    <3> QED
      BY <1>5, <3>1
  <2> DEFINE u == v \ {i}
  <2>2. u \in W /\ u \subseteq v /\ u # v
    BY <2>1
  <2>3. ToNat(Shift(u, n)) = ToNat(u) * 2^n
    BY <1>3, <2>2
  <2>4. ToNat(v) = ToNat(u) + 2^i
    BY <1>1, SumBit
  <2>5. i + n \in Shift(v, n) /\ Shift(v, n) \ {i + n} = Shift(u, n)
    BY <2>1 DEF Shift
  <2>6. ToNat(Shift(v, n)) = ToNat(Shift(v, n) \ {i + n}) + 2^(i + n)
    BY <1>2, <2>5, SumBit
  <2>7. ToNat(Shift(v, n) \ {i + n}) = ToNat(Shift(u, n))
    BY <2>5, Zenon
  <2>8. 2^(i + n) = 2^i * 2^n /\ 2^i \in Nat /\ 2^n \in Nat /\ ToNat(u) \in Nat
    BY <1>1, <2>1, <2>2, Power, PowerSum
  <2>9. (ToNat(u) * 2^n) + (2^i * 2^n) = (ToNat(u) + 2^i) * 2^n
    BY <2>8
  <2> QED
    BY <1>3, <2>3, <2>4, <2>6, <2>7, <2>8, <2>9
<1> QED
  BY <1>4, <1>5

\* The bits from n on, moved down, are the quotient by 2^n.
LEMMA HighBits ==
  ASSUME NEW k \in Nat, NEW w \in SUBSET (0 .. (k - 1)), NEW n \in Nat
  PROVE  ToNat({i \in 0 .. (k - 1) : i + n \in w}) = ToNat(w) \div 2^n
<1> DEFINE r  == {i \in 0 .. (k - 1) : i + n \in w}
           hi == {i \in w : i >= n}
           lo == {i \in w : i < n}
           d  == 2^n
<1>1. Shift(r, n) = hi
  <2>1. ASSUME NEW j \in hi PROVE j \in Shift(r, n)
    <3>1. j - n \in 0 .. (k - 1) /\ (j - n) + n = j
      OBVIOUS
    <3> QED
      BY <3>1 DEF Shift
  <2>2. ASSUME NEW j \in Shift(r, n) PROVE j \in hi
    BY DEF Shift
  <2> QED
    BY <2>1, <2>2
<1>0. \A j \in w : j \in Nat /\ j \in 0 .. (k - 1)
  OBVIOUS
<1>2. r \in SUBSET (0 .. (k - 1)) /\ lo \in SUBSET (0 .. (n - 1)) /\ lo \in SUBSET (0 .. (k - 1))
      /\ hi \in SUBSET (0 .. (k - 1))
  <2>1. \A j \in lo : j \in 0 .. (n - 1)
    BY <1>0
  <2> QED
    BY <1>0, <2>1
<1>3. ToNat(r) \in Nat /\ ToNat(Shift(r, n)) = ToNat(r) * d
  BY <1>2, ShiftValue
<1>4. ToNat(lo) \in Nat /\ ToNat(lo) < d /\ lo \in BitSets /\ hi \in BitSets
  BY <1>2, SumBound
<1>5. lo \cap hi = {} /\ lo \cup hi = w
  <2>1. \A j \in w : j < n <=> ~(j >= n)
    BY <1>0
  <2> QED
    BY <2>1
<1>6. ToNat(lo \cup hi) = ToNat(lo) + ToNat(hi)
  BY <1>4, <1>5, SumDisjoint
<1>7. ToNat(w) = ToNat(lo) + ToNat(hi) /\ ToNat(hi) = ToNat(r) * d
  BY <1>1, <1>3, <1>5, <1>6, Zenon
<1> DEFINE q == ToNat(r)
           e == ToNat(lo)
           m == ToNat(w)
<1>8. d \in Nat /\ d > 0 /\ q \in Int /\ e \in 0 .. (d - 1) /\ m = (q * d) + e /\ m \in Int
  <2>1. d \in Nat /\ d > 0 /\ q * d \in Nat
    BY <1>3, Power
  <2> HIDE DEF d, q, e, m
  <2>2. q \in Nat /\ e \in Nat /\ e < d /\ m = e + (q * d)
    BY <1>3, <1>4, <1>7 DEF q, e, m
  <2> QED
    BY <2>1, <2>2
<1> HIDE DEF d, q, e, m
<1>9. m \div d = q
  BY <1>8, DivMod
<1> QED
  BY <1>9 DEF m, d, q

\* Moving bits up and out of the word multiplies modulo 2^XLEN.
LEMMA LowShift ==
  ASSUME NEW w \in Word, NEW n \in 0 .. (XLEN - 1)
  PROVE  ToNat({i \in BitPos : i - n \in w}) = (ToNat(w) * 2^n) % 2^XLEN
<1> DEFINE k  == XLEN - n
           r  == {i \in BitPos : i - n \in w}
           lo == {i \in w : i < k}
           hi == {i \in w : i >= k}
           t  == {i \in BitPos : i + k \in w}
           M  == 2^XLEN
           d  == 2^n
<1>1. XLEN \in Nat /\ n \in Nat /\ k \in Nat /\ k + n = XLEN /\ Word = SUBSET (0 .. (XLEN - 1))
      /\ BitPos = 0 .. (XLEN - 1)
  BY XLENAssumption DEF Word, BitPos
<1>2. Shift(lo, n) = r /\ Shift(t, k) = hi
  <2>1. ASSUME NEW j \in r PROVE j \in Shift(lo, n)
    <3>1. j - n \in lo /\ (j - n) + n = j
      BY <1>1
    <3> QED
      BY <3>1 DEF Shift
  <2>2. ASSUME NEW j \in Shift(lo, n) PROVE j \in r
    BY <1>1 DEF Shift
  <2>3. ASSUME NEW j \in hi PROVE j \in Shift(t, k)
    <3>1. j - k \in t /\ (j - k) + k = j
      BY <1>1
    <3> QED
      BY <3>1 DEF Shift
  <2>4. ASSUME NEW j \in Shift(t, k) PROVE j \in hi
    BY <1>1 DEF Shift
  <2>5. Shift(lo, n) = r
    BY <2>1, <2>2
  <2>6. Shift(t, k) = hi
    BY <2>3, <2>4
  <2> QED
    BY <2>5, <2>6
<1>3. lo \in Word /\ hi \in Word /\ t \in Word /\ r \in Word /\ lo \cap hi = {} /\ lo \cup hi = w
  <2>1. \A j \in w : j < k <=> ~(j >= k)
    BY <1>1
  <2>2. lo \cap hi = {} /\ lo \cup hi = w
    BY <2>1
  <2> QED
    BY <2>2 DEF Word
<1>4. ToNat(lo) \in Nat /\ ToNat(Shift(lo, n)) = ToNat(lo) * d
  BY <1>1, <1>3, ShiftValue
<1>5. ToNat(t) \in Nat /\ ToNat(Shift(t, k)) = ToNat(t) * 2^k
  BY <1>1, <1>3, ShiftValue
<1>6. ToNat(r) = ToNat(lo) * d /\ ToNat(hi) = ToNat(t) * 2^k
  BY <1>2, <1>4, <1>5, Zenon
<1>7. ToNat(lo \cup hi) = ToNat(lo) + ToNat(hi)
  BY <1>3, WordValues, SumDisjoint
<1>8. ToNat(w) = ToNat(lo) + ToNat(hi)
  BY <1>3, <1>7, Zenon
<1>9. 2^k \in Nat /\ d \in Nat /\ M \in Nat /\ M > 0 /\ 2^k * d = M
  BY <1>1, Power, PowerSum
<1>10. ToNat(r) \in 0 .. (M - 1)
  BY <1>3, <1>9, WordValues
<1> DEFINE x == ToNat(lo)
           y == ToNat(t)
           z == ToNat(r)
           p == 2^k
           m == ToNat(w) * d
<1>11. m = (y * M) + z /\ m \in Int /\ y \in Int
  <2>1. x \in Nat /\ y \in Nat /\ p \in Nat /\ d \in Nat /\ p * d = M /\ z = x * d
        /\ ToNat(w) = x + (y * p)
    BY <1>4, <1>5, <1>6, <1>8, <1>9
  <2>2. m = (x + (y * p)) * d
    BY <2>1
  <2> HIDE DEF x, y, z, p, d, M, m
  <2>3. (x + (y * p)) * d = (x * d) + (y * (p * d))
    BY <2>1
  <2>4. m = (x * d) + (y * M)
    BY <2>1, <2>2, <2>3
  <2>5. x * d \in Nat /\ y * M \in Nat
    BY <1>9, <2>1
  <2> QED
    BY <2>1, <2>4, <2>5
<1> HIDE DEF y, z, m, M
<1>12. m % M = z
  BY <1>9, <1>10, <1>11, DivMod DEF z
<1> QED
  BY <1>12 DEF m, M, z

\* The complement of a word is what is left to the greatest one; its signed
\* value is the other one below zero.
LEMMA Complement ==
  ASSUME NEW w \in Word
  PROVE  /\ BitPos \ w \in Word
         /\ ToInt(BitPos \ w) = -1 - ToInt(w)
         /\ SignBit \in BitPos \ w <=> SignBit \notin w
<1> DEFINE v == BitPos \ w
           M == 2^XLEN
<1>1. v \in Word /\ w \cap v = {} /\ w \cup v = BitPos
  BY DEF Word
<1>2. SignBit \in BitPos
  BY XLENAssumption DEF SignBit, BitPos
<1>3. ToNat(w \cup v) = ToNat(w) + ToNat(v)
  BY <1>1, WordValues, SumDisjoint
<1>4. ToNat(BitPos) = ToNat(w) + ToNat(v)
  BY <1>1, <1>3, Zenon
<1>5. M \in Nat /\ ToInt(BitPos) = ToNat(BitPos) - M /\ ToNat(BitPos) \in 0 .. (M - 1)
  BY <1>2, AllOnes, SignedValue
<1>6. /\ ToNat(w) \in 0 .. (M - 1) /\ ToNat(v) \in 0 .. (M - 1)
      /\ SignBit \in w => ToInt(w) = ToNat(w) - M
      /\ SignBit \notin w => ToInt(w) = ToNat(w)
      /\ SignBit \in v => ToInt(v) = ToNat(v) - M
      /\ SignBit \notin v => ToInt(v) = ToNat(v)
  BY <1>1, SignedValue
<1>7. SignBit \in v <=> SignBit \notin w
  BY <1>2
<1> HIDE DEF v, M
<1>8. ToInt(v) = -1 - ToInt(w)
  BY <1>4, <1>5, <1>6, <1>7, AllOnes
<1> QED
  BY <1>1, <1>7, <1>8 DEF v

\* The arithmetic shift rounds down: a negative word is shifted as the
\* complement of its complement.
LEMMA SignedShift ==
  ASSUME NEW w \in Word, NEW n \in 0 .. (XLEN - 1)
  PROVE  ToInt(arith_shift(w, n)) = ToInt(w) \div 2^n
<1> DEFINE srl(v) == {i \in BitPos : i + n \in v}
           d == 2^n
<1>1. XLEN \in Nat /\ XLEN > 0 /\ n \in Nat /\ BitPos = 0 .. (XLEN - 1) /\ SignBit = XLEN - 1
      /\ SignBit \in BitPos
  BY XLENAssumption DEF BitPos, SignBit
<1>2. d \in Nat /\ d > 0
  BY <1>1, Power
<1>3. ASSUME NEW v \in Word, SignBit \notin v
      PROVE  srl(v) \in Word /\ SignBit \notin srl(v) /\ ToInt(srl(v)) = ToInt(v) \div d
  <2>1. v \in SUBSET (0 .. (XLEN - 1)) /\ srl(v) \in Word
    BY <1>1 DEF Word
  <2>2. SignBit \notin srl(v)
    <3>1. ASSUME SignBit + n \in v PROVE FALSE
      <4>1. SignBit + n \in 0 .. (XLEN - 1)
        BY <2>1, <3>1
      <4>2. SignBit + n = SignBit
        BY <1>1, <4>1
      <4> QED
        BY <1>3, <3>1, <4>2
    <3> QED
      BY <3>1
  <2>3. ToNat({i \in 0 .. (XLEN - 1) : i + n \in v}) = ToNat(v) \div d
    BY <1>1, <2>1, HighBits
  <2>4. srl(v) = {i \in 0 .. (XLEN - 1) : i + n \in v}
    BY <1>1
  <2>5. ToNat(srl(v)) = ToNat(v) \div d
    BY <2>3, <2>4, Zenon
  <2>6. ToInt(srl(v)) = ToNat(srl(v)) /\ ToInt(v) = ToNat(v)
    BY <1>3, <2>1, <2>2, SignedValue
  <2> QED
    BY <2>1, <2>2, <2>5, <2>6
<1>4. CASE SignBit \notin w
  <2>1. arith_shift(w, n) = srl(w)
    <3>1. \A j \in w : j < XLEN
      BY <1>1 DEF Word
    <3>2. ASSUME NEW i \in BitPos
          PROVE  (IF i + n < XLEN THEN i + n ELSE SignBit) \in w <=> i + n \in w
      BY <1>4, <3>1
    <3> QED
      BY <3>2 DEF arith_shift
  <2> QED
    BY <1>3, <1>4, <2>1, Zenon
<1>5. CASE SignBit \in w
  <2> DEFINE v == BitPos \ w
             q == ToInt(srl(v))
             e == ToInt(v) % d
             m == ToInt(w)
  <2>1. v \in Word /\ ToInt(v) = -1 - ToInt(w) /\ SignBit \notin v
    BY <1>5, Complement
  <2>2. srl(v) \in Word /\ q = ToInt(v) \div d
    BY <1>3, <2>1
  <2>3. arith_shift(w, n) = BitPos \ srl(v)
    <3>1. \A j \in w : j < XLEN
      BY <1>1 DEF Word
    <3>2. ASSUME NEW i \in BitPos
          PROVE  (IF i + n < XLEN THEN i + n ELSE SignBit) \in w <=> ~(i + n \in v)
      <4>1. i + n < XLEN => i + n \in BitPos
        BY <1>1
      <4>2. ~(i + n < XLEN) => i + n \notin BitPos
        BY <1>1
      <4> QED
        BY <1>5, <4>1, <4>2
    <3> QED
      BY <3>2 DEF arith_shift
  <2>4. ToInt(BitPos \ srl(v)) = -1 - q
    BY <2>2, Complement
  <2>5. ToInt(arith_shift(w, n)) = -1 - q
    BY <2>3, <2>4, Zenon
  <2>6. m \in Int /\ ToInt(v) \in Int
    BY <2>1, SignedValue
  <2> DEFINE x == ToInt(v)
             p == -1 - q
             f == d - 1 - e
  <2>7. q \in Int /\ e \in 0 .. (d - 1) /\ x = (q * d) + e /\ m = -1 - x
    <3> HIDE DEF d, x
    <3>1. x \div d \in Int /\ x % d \in 0 .. (d - 1) /\ x = ((x \div d) * d) + (x % d)
      <4>1. x \in Int
        BY <2>6 DEF x
      <4> QED
        BY <1>2, <4>1
    <3>2. m = -1 - x
      <4> HIDE DEF m
      <4>1. x = -1 - m
        BY <2>1 DEF x, m
      <4> QED
        BY <2>6, <4>1
    <3> QED
      BY <2>2, <3>1, <3>2 DEF x
  <2> HIDE DEF d, q, e, m, x
  <2>8. p \in Int /\ f \in 0 .. (d - 1) /\ m = (p * d) + f
    BY <1>2, <2>7
  <2> HIDE DEF p, f
  <2>9. m \div d = p
    BY <1>2, <2>6, <2>8, DivMod
  <2> QED
    BY <2>5, <2>9 DEF m, d, p
<1> QED
  BY <1>4, <1>5

-----------------------------------------------------------------------------
(* Names and codes of the trace.                                           *)

\* One of the ifs of from_json.
LEMMA IfSkips ==
  ASSUME NEW kind, NEW lo, NEW hi, NEW st, st.x \notin lo .. hi
  PROVE  If(st, kind, lo, hi) = st
  BY DEF If

\* The same, when its test succeeds.
LEMMA IfTakes ==
  ASSUME NEW kind, NEW lo, NEW hi, NEW st, st.x \in lo .. hi
  PROVE  If(st, kind, lo, hi) = [x |-> st.x - lo, type |-> OpType(kind, st.x - lo)]
  BY DEF If

\* from_json assigns the operation whose code it reads: the test of the
\* operation's own range is the only one that changes the number.
LEMMA Assigned ==
  ASSUME NEW t \in Enumerated
  PROVE  assigned(code(t)) = t
<1> DEFINE c  == code(t)
           s0 == [x |-> c, type |-> OpType("none", 0)]
           s1 == If(s0, "none", 0, 0)
           s2 == If(s1, "sys", 1, 19)
           s3 == If(s2, "branch", 20, 29)
           s4 == If(s3, "store", 30, 39)
           s5 == If(s4, "load", 40, 49)
           s6 == If(s5, "alu", 50, 100)
           Taken(v) == [x |-> v, type |-> t]
<1>1. assigned(c) = s6.type
  BY DEF assigned
<1>2. PICK k \in DOMAIN OpCodes : \E v \in ToSet(OpCodes[k]) : t = OpType(k, v)
  BY DEF Enumerated
<1> DEFINE v == t.val
<1>3. s0.x = c /\ t.kind = k /\ v \in ToSet(OpCodes[k]) /\ t = OpType(k, v)
  BY <1>2 DEF OpType
<1> HIDE DEF v
<1>4. CASE k = "none"
  <2>1. v = 0 /\ c = 0
    BY <1>2, <1>3, <1>4 DEF OpCodes, ToSet, code, v
  <2> HIDE DEF c
  <2>2. s1 = Taken(0)
    BY <1>3, <1>4, <2>1, IfTakes
  <2>3. s2 = Taken(0) /\ s3 = Taken(0) /\ s4 = Taken(0) /\ s5 = Taken(0) /\ s6 = Taken(0)
    BY <2>2, IfSkips
  <2> QED
    BY <1>1, <2>3 DEF c
<1>5. CASE k = "sys"
  <2>1. v \in 0 .. 7 /\ c = 1 + v
    BY <1>2, <1>3, <1>5 DEF OpCodes, ToSet, code, v
  <2> HIDE DEF c
  <2>2. s1 = s0
    BY <1>3, <2>1, IfSkips
  <2>3. s2 = Taken(v)
    BY <1>3, <1>5, <2>1, <2>2, IfTakes
  <2>4. s3 = Taken(v) /\ s4 = Taken(v) /\ s5 = Taken(v) /\ s6 = Taken(v)
    BY <2>1, <2>3, IfSkips
  <2> QED
    BY <1>1, <2>4 DEF c
<1>6. CASE k = "branch"
  <2>1. v \in 0 .. 7 /\ c = 20 + v
    BY <1>2, <1>3, <1>6 DEF OpCodes, ToSet, code, v
  <2> HIDE DEF c
  <2>2. s1 = s0 /\ s2 = s0
    BY <1>3, <2>1, IfSkips
  <2>3. s3 = Taken(v)
    BY <1>3, <1>6, <2>1, <2>2, IfTakes
  <2>4. s4 = Taken(v) /\ s5 = Taken(v) /\ s6 = Taken(v)
    BY <2>1, <2>3, IfSkips
  <2> QED
    BY <1>1, <2>4 DEF c
<1>7. CASE k = "store"
  <2>1. v \in 0 .. 7 /\ c = 30 + v
    BY <1>2, <1>3, <1>7 DEF OpCodes, ToSet, code, v
  <2> HIDE DEF c
  <2>2. s1 = s0 /\ s2 = s0 /\ s3 = s0
    BY <1>3, <2>1, IfSkips
  <2>3. s4 = Taken(v)
    BY <1>3, <1>7, <2>1, <2>2, IfTakes
  <2>4. s5 = Taken(v) /\ s6 = Taken(v)
    BY <2>1, <2>3, IfSkips
  <2> QED
    BY <1>1, <2>4 DEF c
<1>8. CASE k = "load"
  <2>1. v \in 0 .. 7 /\ c = 40 + v
    BY <1>2, <1>3, <1>8 DEF OpCodes, ToSet, code, v
  <2> HIDE DEF c
  <2>2. s1 = s0 /\ s2 = s0 /\ s3 = s0 /\ s4 = s0
    BY <1>3, <2>1, IfSkips
  <2>3. s5 = Taken(v)
    BY <1>3, <1>8, <2>1, <2>2, IfTakes
  <2>4. s6 = Taken(v)
    BY <2>1, <2>3, IfSkips
  <2> QED
    BY <1>1, <2>4 DEF c
<1>9. CASE k = "alu"
  <2>1. v \in 0 .. 20 /\ c = 50 + v
    BY <1>2, <1>3, <1>9 DEF OpCodes, ToSet, code, v
  <2> HIDE DEF c
  <2>2. s1 = s0 /\ s2 = s0 /\ s3 = s0 /\ s4 = s0 /\ s5 = s0
    BY <1>3, <2>1, IfSkips
  <2>3. s6 = Taken(v)
    BY <1>3, <1>9, <2>1, <2>2, IfTakes
  <2> QED
    BY <1>1, <2>3 DEF c
<1> QED
  BY <1>2, <1>4, <1>5, <1>6, <1>7, <1>8, <1>9 DEF OpCodes

\* Tables that go together and hold no name twice: what OpTables and
\* CauseTables say of the two pairs.
Distinct(names, codes) ==
  /\ \A k, l \in DOMAIN codes : \A i \in DOMAIN codes[k], j \in DOMAIN codes[l] :
       names[k][i] = names[l][j] => k = l /\ i = j
  /\ \A k \in DOMAIN codes : \A i \in DOMAIN codes[k] : names[k][i] # "unknown"

\* A switch over such tables gives different names to different enumerators.
LEMMA LookupsDistinct ==
  ASSUME NEW names, NEW codes, Distinct(names, codes)
  PROVE  \A k, l \in DOMAIN codes : \A c \in ToSet(codes[k]), d \in ToSet(codes[l]) :
           /\ Lookup(names[k], codes[k], c) # "unknown"
           /\ Lookup(names[k], codes[k], c) = Lookup(names[l], codes[l], d) => k = l /\ c = d
<1>1. ASSUME NEW k \in DOMAIN codes, NEW c \in ToSet(codes[k])
      PROVE  \E i \in DOMAIN codes[k] :
               codes[k][i] = c /\ Lookup(names[k], codes[k], c) = names[k][i]
  <2> DEFINE ns == names[k]
             cs == codes[k]
  <2>1. \E i \in DOMAIN cs : cs[i] = c
    BY DEF ToSet
  <2> HIDE DEF ns, cs
  <2>2. \E i \in DOMAIN cs : cs[i] = c /\ Lookup(ns, cs, c) = ns[i]
    BY <2>1 DEF Lookup, ToSet
  <2> QED
    BY <2>2 DEF ns, cs
<1>2. SUFFICES ASSUME NEW k \in DOMAIN codes, NEW l \in DOMAIN codes,
                      NEW c \in ToSet(codes[k]), NEW d \in ToSet(codes[l])
               PROVE  /\ Lookup(names[k], codes[k], c) # "unknown"
                      /\ Lookup(names[k], codes[k], c) = Lookup(names[l], codes[l], d)
                           => k = l /\ c = d
  OBVIOUS
<1>3. PICK i \in DOMAIN codes[k] : codes[k][i] = c /\ Lookup(names[k], codes[k], c) = names[k][i]
  BY <1>1
<1>4. PICK j \in DOMAIN codes[l] : codes[l][j] = d /\ Lookup(names[l], codes[l], d) = names[l][j]
  BY <1>1
<1>5. names[k][i] # "unknown" /\ (names[k][i] = names[l][j] => k = l /\ i = j)
  BY DEF Distinct
<1> QED
  BY <1>3, <1>4, <1>5

\* The two tables of operations go together, and no name occurs twice in them.
LEMMA OpTables == Distinct(OpNames, OpCodes)
<1>1. DOMAIN OpCodes = DOMAIN OpNames
  BY DEF OpCodes, OpNames
<1>2. \A k \in DOMAIN OpCodes : DOMAIN OpCodes[k] = DOMAIN OpNames[k]
  BY DEF OpCodes, OpNames
<1>3. ASSUME NEW k \in DOMAIN OpNames, NEW l \in DOMAIN OpNames,
             NEW i \in DOMAIN OpNames[k], NEW j \in DOMAIN OpNames[l], OpNames[k][i] = OpNames[l][j]
      PROVE  k = l /\ i = j
  BY <1>3 DEF OpNames
<1>4. ASSUME NEW k \in DOMAIN OpNames, NEW i \in DOMAIN OpNames[k]
      PROVE  OpNames[k][i] # "unknown"
  BY DEF OpNames
<1> QED
  BY <1>1, <1>2, <1>3, <1>4 DEF Distinct

\* The same for the causes of traps.
LEMMA CauseTables == Distinct(CauseNames, CauseCodes)
<1>1. DOMAIN CauseCodes = {"exception", "interrupt"} /\ DOMAIN CauseNames = {"exception", "interrupt"}
  BY DEF CauseCodes, CauseNames
<1>2. /\ DOMAIN CauseCodes["exception"] = DOMAIN CauseNames["exception"]
      /\ DOMAIN CauseCodes["interrupt"] = DOMAIN CauseNames["interrupt"]
  BY DEF CauseCodes, CauseNames
<1>3. ASSUME NEW i \in DOMAIN CauseNames["exception"], NEW j \in DOMAIN CauseNames["exception"],
             CauseNames["exception"][i] = CauseNames["exception"][j]
      PROVE  i = j
  BY <1>3 DEF CauseNames
<1>4. ASSUME NEW i \in DOMAIN CauseNames["interrupt"], NEW j \in DOMAIN CauseNames["interrupt"],
             CauseNames["interrupt"][i] = CauseNames["interrupt"][j]
      PROVE  i = j
  BY <1>4 DEF CauseNames
<1>5. ASSUME NEW i \in DOMAIN CauseNames["exception"], NEW j \in DOMAIN CauseNames["interrupt"]
      PROVE  CauseNames["exception"][i] # CauseNames["interrupt"][j]
  BY DEF CauseNames
<1>6. /\ \A i \in DOMAIN CauseNames["exception"] : CauseNames["exception"][i] # "unknown"
      /\ \A i \in DOMAIN CauseNames["interrupt"] : CauseNames["interrupt"][i] # "unknown"
  BY DEF CauseNames
<1>7. \A k \in DOMAIN CauseCodes : DOMAIN CauseCodes[k] = DOMAIN CauseNames[k]
  BY <1>1, <1>2
<1>8. ASSUME NEW k \in DOMAIN CauseCodes, NEW l \in DOMAIN CauseCodes,
             NEW i \in DOMAIN CauseNames[k], NEW j \in DOMAIN CauseNames[l],
             CauseNames[k][i] = CauseNames[l][j]
      PROVE  k = l /\ i = j
  <2>1. CASE k = "exception" /\ l = "exception"
    BY <1>3, <1>8, <2>1
  <2>2. CASE k = "interrupt" /\ l = "interrupt"
    BY <1>4, <1>8, <2>2
  <2>3. CASE k = "exception" /\ l = "interrupt"
    BY <1>5, <1>8, <2>3
  <2>4. CASE k = "interrupt" /\ l = "exception"
    BY <1>5, <1>8, <2>4
  <2> QED
    BY <1>1, <2>1, <2>2, <2>3, <2>4
<1>9. \A k \in DOMAIN CauseCodes : \A i \in DOMAIN CauseCodes[k] : CauseNames[k][i] # "unknown"
  BY <1>1, <1>2, <1>6
<1> QED
  BY <1>1, <1>7, <1>8, <1>9 DEF Distinct

\* No two operations have the same name.
LEMMA OpNamesUnique ==
  ASSUME NEW s \in Enumerated, NEW t \in Enumerated
  PROVE  op_type_str(s) # "unknown" /\ (op_type_str(s) = op_type_str(t) => s = t)
<1>6. PICK k \in DOMAIN OpCodes : \E c \in ToSet(OpCodes[k]) : s = OpType(k, c)
  BY DEF Enumerated
<1>1. PICK c \in ToSet(OpCodes[k]) : s = OpType(k, c)
  BY <1>6
<1>7. PICK l \in DOMAIN OpCodes : \E d \in ToSet(OpCodes[l]) : t = OpType(l, d)
  BY DEF Enumerated
<1>2. PICK d \in ToSet(OpCodes[l]) : t = OpType(l, d)
  BY <1>7
<1>3. op_type_str(s) = Lookup(OpNames[k], OpCodes[k], c)
  BY <1>1 DEF op_type_str, OpType
<1>4. op_type_str(t) = Lookup(OpNames[l], OpCodes[l], d)
  BY <1>2 DEF op_type_str, OpType
<1>5. /\ Lookup(OpNames[k], OpCodes[k], c) # "unknown"
      /\ Lookup(OpNames[k], OpCodes[k], c) = Lookup(OpNames[l], OpCodes[l], d) => k = l /\ c = d
  BY OpTables, LookupsDistinct
<1> QED
  BY <1>1, <1>2, <1>3, <1>4, <1>5

\* No two causes have the same name, exceptions and interrupts with the same
\* code included.
LEMMA CauseNamesUnique ==
  ASSUME NEW a \in Causes, NEW b \in Causes
  PROVE  /\ str_trap_cause(a[1], a[2]) # "unknown"
         /\ str_trap_cause(a[1], a[2]) = str_trap_cause(b[1], b[2]) => a = b
<1>6. PICK k \in DOMAIN CauseCodes : \E c \in ToSet(CauseCodes[k]) : a = <<k, c>>
  BY DEF Causes
<1>1. PICK c \in ToSet(CauseCodes[k]) : a = <<k, c>>
  BY <1>6
<1>7. PICK l \in DOMAIN CauseCodes : \E d \in ToSet(CauseCodes[l]) : b = <<l, d>>
  BY DEF Causes
<1>2. PICK d \in ToSet(CauseCodes[l]) : b = <<l, d>>
  BY <1>7
<1>3. str_trap_cause(a[1], a[2]) = Lookup(CauseNames[k], CauseCodes[k], c)
  BY <1>1 DEF str_trap_cause
<1>4. str_trap_cause(b[1], b[2]) = Lookup(CauseNames[l], CauseCodes[l], d)
  BY <1>2 DEF str_trap_cause
<1>5. /\ Lookup(CauseNames[k], CauseCodes[k], c) # "unknown"
      /\ Lookup(CauseNames[k], CauseCodes[k], c) = Lookup(CauseNames[l], CauseCodes[l], d)
           => k = l /\ c = d
  BY CauseTables, LookupsDistinct
<1> QED
  BY <1>1, <1>2, <1>3, <1>4, <1>5

-----------------------------------------------------------------------------
(* The theorems.                                                           *)

\* The result of an operation is an operand again.
OperandsOK == opd_1 \in Word /\ opd_2 \in Word

\* do_alu is applied to words only.
LEMMA Operands == Spec => []OperandsOK
<1>1. Init => OperandsOK
  BY DEF Init, OperandsOK, Word
<1>2. OperandsOK /\ [Next]_<<opd_1, opd_2, entry>> => OperandsOK'
  <2> SUFFICES ASSUME OperandsOK, [Next]_<<opd_1, opd_2, entry>> PROVE OperandsOK'
    OBVIOUS
  <2>1. ASSUME NEW opt \in AluOps, Compute(opt) PROVE OperandsOK'
    BY <2>1, AluType DEF Compute, OperandsOK
  <2>2. CASE UNCHANGED <<opd_1, opd_2, entry>>
    BY <2>2 DEF OperandsOK
  <2> QED
    BY <2>1, <2>2 DEF Next
<1> QED
  BY <1>1, <1>2, PTL DEF Spec

\* The high-word multiplications are exact for words of any length: no
\* intermediate of the half-word products overflows, and negating the product
\* carries into the upper word exactly when the lower one is zero.
THEOREM ArithmeticMulHigh == Spec => []MulHighExact
<1>1. ASSUME OperandsOK PROVE MulHighExact
  BY <1>1, Multiply DEF OperandsOK, MulHighExact, R, U1, U2, S1, S2
<1> QED
  BY <1>1, Operands, PTL

\* Division is exact for words of any length, division by zero and the signed
\* overflow included.
THEOREM ArithmeticDivRem == Spec => []DivRemExact
<1>1. ASSUME OperandsOK PROVE DivRemExact
  <2>1. opd_1 \in Word /\ opd_2 \in Word
    BY <1>1 DEF OperandsOK
  <2>2. CASE opd_2 = {}
    <3>1. ToNat(opd_2) = 0 /\ ToInt(opd_2) = 0
      BY <2>1, <2>2, ZeroWord
    <3>2. R("divu") = BitPos /\ R("div") = BitPos /\ R("remu") = opd_1 /\ R("rem") = opd_1
      BY <3>1, Results DEF R
    <3>3. ToInt(R("div")) = -1
      BY <3>2, AllOnes, Zenon
    <3> QED
      BY <2>2, <3>2, <3>3 DEF DivRemExact
  <2>3. CASE opd_2 # {}
    <3>1. S2 # 0 /\ ToNat(R("divu")) * U2 + ToNat(R("remu")) = U1 /\ ToNat(R("remu")) < U2
      BY <2>1, <2>3, ZeroWord, DivideUnsigned DEF R, U1, U2, S2
    <3>2. CASE is_overflow(S1, S2)
      <4>1. R("div") = opd_1 /\ R("rem") = {}
        BY <3>1, <3>2, Results DEF R, S1, S2
      <4>2. ToInt(R("div")) = S1 /\ ToInt(R("rem")) = 0
        BY <4>1, ZeroWord, Zenon DEF S1
      <4> QED
        BY <2>3, <3>1, <3>2, <4>2 DEF DivRemExact, is_overflow
    <3>3. CASE ~is_overflow(S1, S2)
      <4>1. LET r == ToInt(R("rem"))
            IN  /\ ToInt(R("div")) * S2 + r = S1 /\ Magnitude(r) < Magnitude(S2)
                /\ r = 0 \/ (r < 0 <=> S1 < 0)
        BY <2>1, <3>1, <3>3, DivideSigned DEF R, S1, S2
      <4> QED
        BY <2>3, <3>1, <3>3, <4>1 DEF DivRemExact, is_overflow
    <3> QED
      BY <3>2, <3>3
  <2> QED
    BY <2>2, <2>3
<1> QED
  BY <1>1, Operands, PTL

\* The comparisons and branches agree with the subtraction for words of any
\* length.
THEOREM ArithmeticCompares == Spec => []ComparesExact
<1>1. ASSUME OperandsOK PROVE ComparesExact
  <2>1. opd_1 \in Word /\ opd_2 \in Word
    BY <1>1 DEF OperandsOK
  <2>2. /\ ToNat(R("sub")) = U1 - U2 + (IF 0 \in R("sltu") THEN 2^XLEN ELSE 0)
        /\ 0 \in R("slt") <=> (SignBit \in R("sub")) #
             ((SignBit \in opd_1) # (SignBit \in opd_2) /\ (SignBit \in R("sub")) # (SignBit \in opd_1))
    BY <2>1, Compares DEF R, U1, U2
  <2>3. /\ should_branch(opd_1, opd_2, "beq") = (opd_1 = opd_2)
        /\ should_branch(opd_1, opd_2, "bne") = (opd_1 # opd_2)
        /\ should_branch(opd_1, opd_2, "blt") = (S1 < S2)
        /\ should_branch(opd_1, opd_2, "bge") = (S1 >= S2)
        /\ should_branch(opd_1, opd_2, "bltu") = Below(opd_1, opd_2)
        /\ should_branch(opd_1, opd_2, "bgeu") = ~Below(opd_1, opd_2)
    BY DEF should_branch, S1, S2
  <2>4. S1 \in Int /\ S2 \in Int
    BY <2>1, SignedValue DEF S1, S2
  <2>5. (0 \in R("sltu")) = Below(opd_1, opd_2) /\ (0 \in R("slt")) = (S1 < S2)
    <3>1. /\ R("sltu") = IF Below(opd_1, opd_2) THEN {0} ELSE {}
          /\ R("slt") = IF S1 < S2 THEN {0} ELSE {}
      BY Results DEF R, S1, S2
    <3>2. (0 \in R("sltu") <=> Below(opd_1, opd_2)) /\ (0 \in R("slt") <=> S1 < S2)
      BY <3>1
    <3>3. (0 \in R("sltu")) = Below(opd_1, opd_2)
      <4>1. Below(opd_1, opd_2) \in BOOLEAN
        BY DEF Below
      <4> QED
        BY <3>2, <4>1
    <3>4. (0 \in R("slt")) = (S1 < S2)
      BY <2>4, <3>2
    <3> QED
      BY <3>3, <3>4
  <2>6. /\ should_branch(opd_1, opd_2, "bltu") = (0 \in R("sltu"))
        /\ should_branch(opd_1, opd_2, "blt") = (0 \in R("slt"))
    BY <2>3, <2>5
  <2>7. /\ should_branch(opd_1, opd_2, "beq") # should_branch(opd_1, opd_2, "bne")
        /\ should_branch(opd_1, opd_2, "blt") # should_branch(opd_1, opd_2, "bge")
        /\ should_branch(opd_1, opd_2, "bltu") # should_branch(opd_1, opd_2, "bgeu")
    <3>1. should_branch(opd_1, opd_2, "beq") # should_branch(opd_1, opd_2, "bne")
      BY <2>3
    <3>2. (S1 < S2) # (S1 >= S2)
      BY <2>4
    <3>3. should_branch(opd_1, opd_2, "blt") # should_branch(opd_1, opd_2, "bge")
      BY <2>3, <3>2
    <3>4. Below(opd_1, opd_2) # ~Below(opd_1, opd_2)
      BY Zenon DEF Below
    <3>5. should_branch(opd_1, opd_2, "bltu") # should_branch(opd_1, opd_2, "bgeu")
      BY <2>3, <3>4
    <3> QED
      BY <3>1, <3>3, <3>5
  <2>8. \A b \in {<<"beq", "bne">>, <<"blt", "bge">>, <<"bltu", "bgeu">>} :
          should_branch(opd_1, opd_2, b[1]) # should_branch(opd_1, opd_2, b[2])
    BY <2>7
  <2> QED
    BY <2>2, <2>6, <2>8 DEF ComparesExact
<1> QED
  BY <1>1, Operands, PTL
\* The shifts are exact for words of any length and for every value of the
\* second operand.
THEOREM ArithmeticShifts == Spec => []ShiftsExact
<1>1. ASSUME OperandsOK PROVE ShiftsExact
  <2> DEFINE n == ShiftCount(opd_2)
  <2>1. opd_1 \in Word /\ opd_2 \in Word /\ opd_1 \in SUBSET (0 .. (XLEN - 1)) /\ XLEN \in Nat
        /\ BitPos = 0 .. (XLEN - 1)
    BY <1>1, XLENAssumption DEF OperandsOK, Word, BitPos
  <2>2. n = U2 % XLEN /\ n \in 0 .. (XLEN - 1) /\ n \in Nat
    <3>1. U2 \in Nat /\ n = U2 % XLEN
      BY <2>1, WordValues DEF U2, ShiftCount
    <3> HIDE DEF n
    <3> QED
      BY <3>1, XLENAssumption
  <2>3. /\ R("sll") = {i \in BitPos : i - n \in opd_1}
        /\ R("srl") = {i \in BitPos : i + n \in opd_1}
        /\ R("sra") = arith_shift(opd_1, n)
    BY DEF R, do_alu
  <2> HIDE DEF n
  <2>4. ToNat({i \in BitPos : i - n \in opd_1}) = (U1 * 2^n) % 2^XLEN
    BY <2>1, <2>2, LowShift DEF U1
  <2>5. ToNat({i \in 0 .. (XLEN - 1) : i + n \in opd_1}) = U1 \div 2^n
    BY <2>1, <2>2, HighBits DEF U1
  <2>6. {i \in 0 .. (XLEN - 1) : i + n \in opd_1} = R("srl")
    BY <2>1, <2>3
  <2>7. ToInt(arith_shift(opd_1, n)) = S1 \div 2^n
    BY <2>1, <2>2, SignedShift DEF S1
  <2>8. /\ ToNat(R("sll")) = (U1 * 2^n) % 2^XLEN
        /\ ToNat(R("srl")) = U1 \div 2^n
        /\ ToInt(R("sra")) = S1 \div 2^n
    BY <2>3, <2>4, <2>5, <2>6, <2>7, Zenon
  <2> QED
    BY <2>2, <2>8 DEF ShiftsExact
<1> QED
  BY <1>1, Operands, PTL

\* The entry of the trace stays what it was at the start.
LEMMA EntryKept == Spec => [](entry \in Entries)
<1>1. Init => entry \in Entries
  <2>1. OpType("none", 0) \in Enumerated
    <3>1. "none" \in DOMAIN OpCodes /\ 0 \in ToSet(OpCodes["none"])
      BY DEF OpCodes, ToSet
    <3> QED
      BY <3>1 DEF Enumerated
  <2>2. <<"exception", 0>> \in Causes
    <3>1. "exception" \in DOMAIN CauseCodes /\ 0 \in ToSet(CauseCodes["exception"])
      BY DEF CauseCodes, ToSet
    <3> QED
      BY <3>1 DEF Causes
  <2>3. [opt |-> OpType("none", 0), cause |-> <<"exception", 0>>, gpr |-> 0, csr |-> 0] \in Entries
    BY <2>1, <2>2 DEF Entries
  <2>4. (CHOOSE e \in Entries : TRUE) \in Entries
    BY <2>3
  <2> QED
    BY <2>4 DEF Init
<1>2. entry \in Entries /\ [Next]_<<opd_1, opd_2, entry>> => (entry \in Entries)'
  BY DEF Next, Compute
<1> QED
  BY <1>1, <1>2, PTL DEF Spec

\* from_json has assigned the operation that to_json wrote when it throws, and
\* reads every index back: any register's and any of the 4096 CSRs'.
THEOREM TraceRoundTrip ==
  ASSUME NEW e, e.opt \in Enumerated, e.gpr \in 0 .. 31, e.csr \in 0 .. 4095
  PROVE  LET r == from_json(to_json(e))
         IN  r.opt = e.opt /\ r.gpr = e.gpr /\ r.csr = e.csr
<1>1. 2^8 = 256 /\ 2^16 = 65536
  OBVIOUS
<1>2. e.gpr % 2^8 = e.gpr /\ e.csr % 2^16 = e.csr
  <2> DEFINE g == e.gpr
             c == e.csr
  <2>1. g \in 0 .. 31 /\ c \in 0 .. 4095
    OBVIOUS
  <2> HIDE DEF g, c
  <2>2. g % 256 = g /\ c % 65536 = c
    BY <2>1
  <2> QED
    BY <1>1, <2>2 DEF g, c
<1>3. assigned(code(e.opt)) = e.opt
  BY Assigned
<1> QED
  BY <1>2, <1>3 DEF from_json, to_json

\* The same of the entries that the run enumerates.
THEOREM TraceCodesDecode == Spec => []CodesDecode
<1>1. ASSUME entry \in Entries PROVE CodesDecode
  <2>1. entry.opt \in Enumerated /\ entry.gpr \in 0 .. 31 /\ entry.csr \in 0 .. 4095
    BY <1>1 DEF Entries
  <2> QED
    BY <2>1, TraceRoundTrip DEF CodesDecode
<1> QED
  BY <1>1, EntryKept, PTL

\* The log tells all operations and all causes of traps apart.
THEOREM TraceNamesUnique == Spec => []NamesUnique
<1>1. ASSUME entry \in Entries PROVE NamesUnique
  <2>1. entry.opt \in Enumerated /\ entry.cause \in Causes
    BY <1>1 DEF Entries
  <2> QED
    BY <2>1, OpNamesUnique, CauseNamesUnique DEF NamesUnique
<1> QED
  BY <1>1, EntryKept, PTL
=============================================================================
