----------------------------- MODULE WordProofs -----------------------------
(***************************************************************************)
(* Lemmas about words, for every word length: they are numbers modulo      *)
(* 2^XLEN with their order, and what fits into which width.  Everything is *)
(* proved from the definition of ToNat as a sum of powers of two; the      *)
(* powers of two count the subsets of a set.                               *)
(***************************************************************************)
EXTENDS Alu, FiniteSetTheorems, WellFoundedInduction, TLAPS

-----------------------------------------------------------------------------
(* Induction, as the absence of a least counterexample.                    *)

\* A non-empty set of natural numbers has a least element.
LEMMA Least ==
  ASSUME NEW T, T \subseteq Nat, T # {}
  PROVE  \E n \in T : \A m \in T : n <= m
<1> DEFINE R == OpToRel(<, Nat)
<1>1. \A a, b \in Nat : a < b => <<a, b>> \in R
  BY DEF OpToRel
<1>2. IsWellFoundedOn(R, Nat)
  BY NatLessThanWellFounded
<1> HIDE DEF R
<1>3. PICK n \in T : \A m \in T : ~(<<m, n>> \in R)
  BY <1>2, WFMin
<1>4. ASSUME NEW m \in T PROVE n <= m
  <2>1. m \in Nat /\ n \in Nat
    OBVIOUS
  <2>2. ~(m < n)
    BY <1>1, <1>3, <2>1
  <2> QED
    BY <2>1, <2>2
<1> QED
  BY <1>4

\* A non-empty bounded one has a greatest.
LEMMA Greatest ==
  ASSUME NEW n \in Nat, NEW P, P \subseteq 0 .. n, P # {}
  PROVE  \E k \in P : \A j \in P : j <= k
<1> DEFINE T == {n - k : k \in P}
<1>1. T \subseteq Nat /\ T # {}
  <2>1. \A k \in P : n - k \in Nat
    OBVIOUS
  <2>2. PICK k \in P : TRUE
    OBVIOUS
  <2> QED
    BY <2>1, <2>2
<1>2. PICK x \in T : \A y \in T : x <= y
  <2> HIDE DEF T
  <2> QED
    BY <1>1, Least
<1>3. PICK k \in P : x = n - k
  OBVIOUS
<1>4. ASSUME NEW j \in P PROVE j <= k
  <2>1. n - k <= n - j
    BY <1>2, <1>3
  <2> QED
    BY <2>1
<1> QED
  BY <1>4

\* A non-empty set of finite sets has one that contains no other.
LEMMA Smallest ==
  ASSUME NEW S, NEW T, T \subseteq FiniteSubsetsOf(S), T # {}
  PROVE  \E u \in T : \A v \in T : v \subseteq u => v = u
<1>1. IsWellFoundedOn(StrictSubsetOrdering(S), FiniteSubsetsOf(S))
  BY FS_StrictSubsetOrderingWellFounded
<1>2. PICK u \in T : \A v \in T : ~(<<v, u>> \in StrictSubsetOrdering(S))
  BY <1>1, WFMin
<1>3. \A v \in T : v \subseteq u => v = u
  BY <1>2 DEF StrictSubsetOrdering, FiniteSubsetsOf
<1> QED
  BY <1>3

\* Exponentiation of 2, from the number of subsets of a set.
LEMMA Power ==
  ASSUME NEW n \in Nat
  PROVE  2^n \in Nat /\ 2^n > 0 /\ 2^(n + 1) = 2 * 2^n
<1> DEFINE A == SUBSET (1 .. n)
           B == {s \cup {n + 1} : s \in A}
           C == SUBSET (1 .. (n + 1))
           f == [s \in A |-> s \cup {n + 1}]
<1>1. /\ IsFiniteSet(1 .. n) /\ Cardinality(1 .. n) = n
      /\ IsFiniteSet(1 .. (n + 1)) /\ Cardinality(1 .. (n + 1)) = n + 1
  <2>1. n \in Int /\ n + 1 \in Int /\ 1 \in Int
    OBVIOUS
  <2> QED
    BY <2>1, FS_Interval
<1>2. IsFiniteSet(A) /\ Cardinality(A) = 2^n /\ Cardinality(C) = 2^(n + 1)
  BY <1>1, FS_SUBSET
<1>3. Cardinality(A) \in Nat /\ Cardinality(A) # 0
  <2>1. A # {}
    OBVIOUS
  <2> QED
    BY <1>2, <2>1, FS_CardinalityType, FS_EmptySet
<1>4. ExistsBijection(A, B)
  <2>1. ASSUME NEW s \in A, NEW t \in A, f[s] = f[t] PROVE s = t
    BY <2>1
  <2>2. f \in [A -> B] /\ \A t \in B : \E s \in A : f[s] = t
    OBVIOUS
  <2> HIDE DEF f, A, B
  <2>3. f \in Bijection(A, B)
    BY <2>1, <2>2 DEF Bijection, Injection, Surjection, IsInjective
  <2> QED
    BY <2>3 DEF ExistsBijection
<1>5. A \cup B = C
  <2>1. ASSUME NEW s \in A PROVE s \in C /\ s \cup {n + 1} \in C
    BY <2>1
  <2>2. ASSUME NEW s \in C, s \notin A PROVE s \in B
    <3>1. s \ {n + 1} \in A /\ n + 1 \in s
      BY <2>2
    <3>2. s = (s \ {n + 1}) \cup {n + 1}
      BY <3>1
    <3> QED
      BY <3>1, <3>2
  <2>3. A \subseteq C /\ B \subseteq C
    BY <2>1
  <2> QED
    BY <2>2, <2>3
<1>6. A \cap B = {}
  OBVIOUS
<1> HIDE DEF A, B, C
<1>7. IsFiniteSet(B) /\ Cardinality(B) = Cardinality(A)
  BY <1>2, <1>4, FS_Bijection
<1>8. Cardinality(A \cup B) = Cardinality(A) + Cardinality(B) - Cardinality(A \cap B)
  BY <1>2, <1>7, FS_Union
<1>9. Cardinality(A \cap B) = 0
  BY <1>6, FS_EmptySet
<1>10. Cardinality(C) = Cardinality(A) + Cardinality(A)
  BY <1>3, <1>5, <1>7, <1>8, <1>9
<1> QED
  BY <1>2, <1>3, <1>10

\* A higher bit is worth at least twice a lower one.
LEMMA PowerMonotone ==
  ASSUME NEW m \in Nat, NEW n \in Nat, m < n
  PROVE  2 * 2^m <= 2^n
<1> DEFINE T == {k \in Nat : m < k /\ ~(2 * 2^m <= 2^k)}
<1> SUFFICES ASSUME T # {} PROVE FALSE
  OBVIOUS
<1>1. PICK k \in T : \A l \in T : k <= l
  <2>1. T \subseteq Nat
    OBVIOUS
  <2> HIDE DEF T
  <2> QED
    BY <2>1, Least
<1>2. k - 1 \in Nat /\ m <= k - 1 /\ k = (k - 1) + 1
  OBVIOUS
<1>3. 2^(k - 1) \in Nat /\ 2^k = 2 * 2^(k - 1) /\ 2^m \in Nat
  BY <1>2, Power
<1>4. k - 1 # m
  BY <1>1, <1>3
<1>5. k - 1 \in T
  BY <1>1, <1>2, <1>3, <1>4
<1> QED
  BY <1>1, <1>5

-----------------------------------------------------------------------------
(* Words as numbers: ToNat and ToWord are inverse to each other.            *)

\* The finite sets of bits, the bit that a sum takes first, and the equation
\* that MapThenSumSet solves.
BitSets    == FiniteSubsetsOf(Nat)
FirstOf(s) == CHOOSE i \in s : TRUE
Sums(g, w) == [s \in SUBSET w |-> IF s = {} THEN 0 ELSE 2^FirstOf(s) + g[s \ {FirstOf(s)}]]

\* The sum of a set is that of the set without its first bit, plus that bit.
LEMMA SumFirst ==
  ASSUME NEW w \in BitSets
  PROVE  ToNat(w) = IF w = {} THEN 0 ELSE 2^FirstOf(w) + ToNat(w \ {FirstOf(w)})
<1> DEFINE Q(v) == ToNat(v) = IF v = {} THEN 0 ELSE 2^FirstOf(v) + ToNat(v \ {FirstOf(v)})
           T == {v \in BitSets : ~Q(v)}
<1> SUFFICES ASSUME T # {} PROVE FALSE
  OBVIOUS
<1>1. PICK v \in T : \A u \in T : u \subseteq v => u = v
  <2>1. T \subseteq FiniteSubsetsOf(Nat)
    BY DEF BitSets
  <2> HIDE DEF T
  <2> QED
    BY <2>1, Smallest
<1>2. \A s \in SUBSET v : s # v => Q(s)
  <2>1. \A s \in SUBSET v : s \in BitSets
    BY <1>1, FS_Subset DEF BitSets, FiniteSubsetsOf
  <2> QED
    BY <1>1, <2>1
<1> DEFINE top == IF v = {} THEN 0 ELSE 2^FirstOf(v) + ToNat(v \ {FirstOf(v)})
           h == [s \in SUBSET v |-> IF s = v THEN top ELSE ToNat(s)]
<1>3. \A s \in SUBSET v : s # {} => FirstOf(s) \in s /\ s \ {FirstOf(s)} \in SUBSET v
                                      /\ s \ {FirstOf(s)} # s /\ s \ {FirstOf(s)} # v
  BY DEF FirstOf
<1>4. h = Sums(h, v)
  <2>1. ASSUME NEW s \in SUBSET v
        PROVE  h[s] = IF s = {} THEN 0 ELSE 2^FirstOf(s) + h[s \ {FirstOf(s)}]
    <3>1. s # {} => h[s \ {FirstOf(s)}] = ToNat(s \ {FirstOf(s)})
      BY <1>3
    <3>2. CASE s = v
      BY <3>1, <3>2
    <3>3. CASE s # v
      <4>1. h[s] = ToNat(s) /\ Q(s)
        BY <1>2, <3>3
      <4> QED
        BY <3>1, <4>1
    <3> QED
      BY <3>2, <3>3
  <2>2. h = [s \in SUBSET v |-> h[s]]
    OBVIOUS
  <2> HIDE DEF h
  <2> QED
    BY <2>1, <2>2 DEF Sums
<1>5. h[v] = top
  OBVIOUS
<1> HIDE DEF h
<1> DEFINE g == CHOOSE k : k = Sums(k, v)
<1>6. g = Sums(g, v)
  BY <1>4
<1>7. ToNat(v) = g[v]
  BY DEF ToNat, MapThenSumSet, MapThenFoldSet, Sums, FirstOf
<1> HIDE DEF g
<1>8. \A s \in SUBSET v : g[s] = h[s]
  <2> DEFINE U == {s \in SUBSET v : g[s] # h[s]}
  <2> SUFFICES ASSUME U # {} PROVE FALSE
    OBVIOUS
  <2>1. PICK s \in U : \A u \in U : u \subseteq s => u = s
    <3>1. U \subseteq FiniteSubsetsOf(Nat)
      BY <1>1, FS_Subset DEF BitSets, FiniteSubsetsOf
    <3> HIDE DEF U
    <3> QED
      BY <3>1, Smallest
  <2>2. g[s] = (IF s = {} THEN 0 ELSE 2^FirstOf(s) + g[s \ {FirstOf(s)}])
    BY <1>6 DEF Sums
  <2>3. h[s] = (IF s = {} THEN 0 ELSE 2^FirstOf(s) + h[s \ {FirstOf(s)}])
    BY <1>4 DEF Sums
  <2>4. s # {} => g[s \ {FirstOf(s)}] = h[s \ {FirstOf(s)}]
    BY <1>3, <2>1
  <2> QED
    BY <2>2, <2>3, <2>4
<1>9. Q(v)
  BY <1>5, <1>7, <1>8
<1> QED
  BY <1>9

\* A bit is worth its power of two, whichever it is.
LEMMA SumBit ==
  ASSUME NEW w \in BitSets
  PROVE  /\ ToNat(w) \in Nat
         /\ \A i \in w : ToNat(w) = ToNat(w \ {i}) + 2^i
<1> DEFINE Q(v) == ToNat(v) \in Nat /\ \A i \in v : ToNat(v) = ToNat(v \ {i}) + 2^i
           T == {v \in BitSets : ~Q(v)}
<1> SUFFICES ASSUME T # {} PROVE FALSE
  OBVIOUS
<1>1. PICK v \in T : \A u \in T : u \subseteq v => u = v
  <2>1. T \subseteq FiniteSubsetsOf(Nat)
    BY DEF BitSets
  <2> HIDE DEF T
  <2> QED
    BY <2>1, Smallest
<1>2. \A s \in SUBSET v : s # v => Q(s)
  <2>1. \A s \in SUBSET v : s \in BitSets
    BY <1>1, FS_Subset DEF BitSets, FiniteSubsetsOf
  <2> QED
    BY <1>1, <2>1
<1>3. v \subseteq Nat
  BY DEF BitSets, FiniteSubsetsOf
<1>4. CASE v = {}
  <2>1. ToNat(v) = 0
    BY <1>4, SumFirst
  <2>2. Q(v)
    BY <1>4, <2>1
  <2> QED
    BY <2>2
<1>5. CASE v # {}
  <2> DEFINE x == FirstOf(v)
             u == v \ {x}
  <2>1. x \in v /\ x \in Nat
    BY <1>3, <1>5 DEF FirstOf
  <2>2. ToNat(v) = 2^x + ToNat(u)
    BY <1>5, SumFirst
  <2> HIDE DEF x
  <2>3. ToNat(u) \in Nat /\ 2^x \in Nat
    BY <1>2, <2>1, Power
  <2>4. ASSUME NEW i \in v, i # x PROVE ToNat(v) = ToNat(v \ {i}) + 2^i
    <3>1. i \in u /\ u \in SUBSET v /\ u # v
      BY <2>1, <2>4
    <3>2. ToNat(u) = ToNat(u \ {i}) + 2^i
      BY <1>2, <3>1
    <3>3. x \in v \ {i} /\ v \ {i} \in SUBSET v /\ v \ {i} # v
      BY <2>1, <2>4
    <3>4. ToNat(v \ {i}) = ToNat((v \ {i}) \ {x}) + 2^x
      BY <1>2, <3>3
    <3>5. (v \ {i}) \ {x} = u \ {i}
      OBVIOUS
    <3>6. u \ {i} \in SUBSET v /\ u \ {i} # v
      BY <2>1
    <3>7. ToNat(u \ {i}) \in Nat
      BY <1>2, <3>6
    <3>8. 2^i \in Nat
      BY <1>3, Power
    <3>9. ToNat(v \ {i}) = ToNat(u \ {i}) + 2^x
      BY <3>4, <3>5, Zenon
    <3> QED
      BY <2>2, <2>3, <3>2, <3>7, <3>8, <3>9
  <2>5. Q(v)
    BY <2>2, <2>3, <2>4
  <2> QED
    BY <2>5
<1> QED
  BY <1>4, <1>5

\* Disjoint sets of bits add up.
LEMMA SumDisjoint ==
  ASSUME NEW v \in BitSets, NEW w \in BitSets, v \cap w = {}
  PROVE  v \cup w \in BitSets /\ ToNat(v \cup w) = ToNat(v) + ToNat(w)
<1> DEFINE T == {t \in SUBSET w : ToNat(v \cup t) # ToNat(v) + ToNat(t)}
<1>0. \A t \in SUBSET w : t \in BitSets /\ v \cup t \in BitSets
  BY FS_Subset, FS_Union DEF BitSets, FiniteSubsetsOf
<1> SUFFICES ASSUME T # {} PROVE FALSE
  BY <1>0
<1>1. PICK t \in T : \A u \in T : u \subseteq t => u = t
  <2>1. T \subseteq FiniteSubsetsOf(Nat)
    BY <1>0 DEF BitSets
  <2> HIDE DEF T
  <2> QED
    BY <2>1, Smallest
<1>2. ToNat(v) \in Nat /\ \A s \in SUBSET w : ToNat(s) \in Nat /\ ToNat(v \cup s) \in Nat
  BY <1>0, SumBit
<1>3. CASE t = {}
  <2>1. ToNat({}) = 0 /\ v \cup {} = v
    BY <1>0, SumFirst
  <2> QED
    BY <1>2, <1>3, <2>1
<1>4. CASE t # {}
  <2>1. PICK i \in t : TRUE
    BY <1>4
  <2>2. t \ {i} \in SUBSET w /\ t \ {i} # t
    BY <2>1
  <2>3. ToNat(v \cup (t \ {i})) = ToNat(v) + ToNat(t \ {i})
    BY <1>1, <2>2
  <2>4. ToNat(t) = ToNat(t \ {i}) + 2^i
    BY <1>0, SumBit
  <2>5. ToNat(v \cup t) = ToNat((v \cup t) \ {i}) + 2^i
    BY <1>0, SumBit
  <2>6. (v \cup t) \ {i} = v \cup (t \ {i})
    BY <2>1
  <2>7. i \in Nat /\ 2^i \in Nat
    BY <1>0, <2>1, Power DEF BitSets, FiniteSubsetsOf
  <2> QED
    BY <1>2, <2>2, <2>3, <2>4, <2>5, <2>6, <2>7
<1> QED
  BY <1>3, <1>4

\* k bits are worth less than 2^k.
LEMMA SumBound ==
  ASSUME NEW k \in Nat, NEW w \in SUBSET (0 .. (k - 1))
  PROVE  w \in BitSets /\ ToNat(w) \in Nat /\ ToNat(w) < 2^k
<1> DEFINE T == {n \in Nat : \E v \in SUBSET (0 .. (n - 1)) : ~(ToNat(v) < 2^n)}
<1>1. ASSUME NEW n \in Nat, NEW v \in SUBSET (0 .. (n - 1)) PROVE v \in BitSets /\ ToNat(v) \in Nat
  <2>1. IsFiniteSet(0 .. (n - 1))
    <3>1. 0 \in Int /\ n - 1 \in Int
      OBVIOUS
    <3> QED
      BY <3>1, FS_Interval
  <2>2. IsFiniteSet(v)
    BY <2>1, FS_Subset
  <2>3. v \subseteq Nat
    OBVIOUS
  <2>4. v \in BitSets
    BY <2>2, <2>3 DEF BitSets, FiniteSubsetsOf
  <2> QED
    BY <2>4, SumBit
<1> SUFFICES ASSUME T # {} PROVE FALSE
  BY <1>1
<1>2. PICK n \in T : \A m \in T : n <= m
  <2>1. T \subseteq Nat
    OBVIOUS
  <2> HIDE DEF T
  <2> QED
    BY <2>1, Least
<1>3. PICK v \in SUBSET (0 .. (n - 1)) : ~(ToNat(v) < 2^n)
  OBVIOUS
<1>4. v \in BitSets /\ ToNat(v) \in Nat
  BY <1>1
<1>5. CASE n = 0
  <2>1. v = {}
    BY <1>5
  <2>2. ToNat(v) = 0
    BY <1>4, <2>1, SumFirst
  <2> QED
    BY <1>3, <2>2, Power
<1>6. CASE n # 0
  <2>1. n - 1 \in Nat /\ n = (n - 1) + 1
    BY <1>6
  <2>2. 2^(n - 1) \in Nat /\ 2^n = 2 * 2^(n - 1)
    BY <2>1, Power
  <2>3. n - 1 \notin T
    BY <1>2, <2>1
  <2>4. v \ {n - 1} \in SUBSET (0 .. ((n - 1) - 1))
    OBVIOUS
  <2>5. ToNat(v \ {n - 1}) < 2^(n - 1) /\ ToNat(v \ {n - 1}) \in Nat
    BY <1>1, <2>1, <2>3, <2>4
  <2>6. CASE n - 1 \in v
    <3>1. ToNat(v) = ToNat(v \ {n - 1}) + 2^(n - 1)
      BY <1>4, <2>6, SumBit
    <3> QED
      BY <1>3, <2>2, <2>5, <3>1
  <2>7. CASE n - 1 \notin v
    <3>1. v \ {n - 1} = v
      BY <2>7
    <3>2. ToNat(v \ {n - 1}) = ToNat(v)
      BY <3>1, Zenon
    <3> QED
      BY <1>3, <1>4, <2>2, <2>5, <3>2
  <2> QED
    BY <2>6, <2>7
<1> QED
  BY <1>5, <1>6

\* More bits are worth more.
LEMMA SumMonotone ==
  ASSUME NEW w \in BitSets, NEW v \in SUBSET w
  PROVE  v \in BitSets /\ ToNat(v) \in Nat /\ ToNat(w) \in Nat /\ ToNat(v) <= ToNat(w)
<1>1. v \in BitSets /\ w \ v \in BitSets
  BY FS_Subset DEF BitSets, FiniteSubsetsOf
<1>2. v \cap (w \ v) = {} /\ v \cup (w \ v) = w
  OBVIOUS
<1>3. ToNat(v \cup (w \ v)) = ToNat(v) + ToNat(w \ v)
  BY <1>1, <1>2, SumDisjoint
<1>4. ToNat(w) = ToNat(v) + ToNat(w \ v)
  BY <1>2, <1>3, Zenon
<1> QED
  BY <1>1, <1>4, SumBit

\* Below() is the unsigned comparison of the values, and no two words have the
\* same value.
LEMMA BelowExact ==
  ASSUME NEW k \in Nat, NEW v \in SUBSET (0 .. (k - 1)), NEW w \in SUBSET (0 .. (k - 1))
  PROVE  (Below(v, w) <=> ToNat(v) < ToNat(w)) /\ (ToNat(v) = ToNat(w) => v = w)
<1> DEFINE W == SUBSET (0 .. (k - 1))
<1>1. \A a \in W : a \in BitSets /\ ToNat(a) \in Nat
  BY SumBound
<1>2. ASSUME NEW a \in W, NEW b \in W, Below(a, b) PROVE ToNat(a) < ToNat(b)
  <2>1. PICK i \in b \ a : \A j \in a \ b : j < i
    BY <1>2 DEF Below
  <2> DEFINE lo == {j \in a : j < i}
             hi == {j \in a : j > i}
  <2>0. i \in 0 .. (k - 1) /\ i \notin a /\ \A j \in a : j \in 0 .. (k - 1)
    BY <2>1
  <2>2. i \in 0 .. (k - 1) /\ a = lo \cup hi /\ lo \cap hi = {}
    <3>1. \A j \in a : (j < i \/ j > i) /\ ~(j < i /\ j > i)
      BY <2>0
    <3> QED
      BY <2>0, <3>1
  <2>3. lo \in SUBSET (0 .. (i - 1)) /\ hi \cup {i} \in SUBSET b /\ hi \in W /\ i \notin hi
    <3>1. \A j \in lo : j \in 0 .. (i - 1)
      BY <2>0
    <3>2. \A j \in hi : j \in b /\ j \in 0 .. (k - 1)
      BY <2>0, <2>1
    <3> QED
      BY <2>0, <2>1, <3>1, <3>2
  <2> HIDE DEF lo, hi
  <2>4. lo \in BitSets /\ ToNat(lo) \in Nat /\ ToNat(lo) < 2^i
    BY <2>2, <2>3, SumBound
  <2>5. hi \in BitSets /\ ToNat(hi) \in Nat
    BY <1>1, <2>3
  <2>6. ToNat(lo \cup hi) = ToNat(lo) + ToNat(hi)
    BY <2>2, <2>4, <2>5, SumDisjoint
  <2>7. ToNat(a) = ToNat(lo) + ToNat(hi)
    BY <2>2, <2>6, Zenon
  <2>8. hi \cup {i} \in BitSets /\ ToNat(hi \cup {i}) <= ToNat(b) /\ ToNat(hi \cup {i}) \in Nat
    BY <1>1, <1>2, <2>3, SumMonotone
  <2>9. ToNat(hi \cup {i}) = ToNat((hi \cup {i}) \ {i}) + 2^i
    BY <2>8, SumBit
  <2>10. (hi \cup {i}) \ {i} = hi
    BY <2>3
  <2>11. ToNat(hi \cup {i}) = ToNat(hi) + 2^i
    BY <2>9, <2>10, Zenon
  <2>12. 2^i \in Nat /\ ToNat(b) \in Nat
    BY <1>1, <1>2, <2>2, Power
  <2> QED
    BY <2>4, <2>5, <2>7, <2>8, <2>11, <2>12
<1>3. ASSUME v # w PROVE Below(v, w) \/ Below(w, v)
  <2> DEFINE D == (v \ w) \cup (w \ v)
  <2>1. D # {} /\ D \subseteq 0 .. k
    BY <1>3
  <2>2. PICK i \in D : \A j \in D : j <= i
    <3> HIDE DEF D
    <3> QED
      BY <2>1, Greatest
  <2> QED
    BY <2>1, <2>2 DEF Below
<1>4. ToNat(v) \in Nat /\ ToNat(w) \in Nat
  BY <1>1
<1>5. ~(Below(v, w) /\ Below(w, v))
  BY <1>2, <1>4
<1>6. Below(v, w) => ToNat(v) < ToNat(w)
  BY <1>2
<1>7. Below(w, v) => ToNat(w) < ToNat(v)
  BY <1>2
<1>8. CASE v = w
  <2>1. ToNat(v) = ToNat(w)
    BY <1>8, Zenon
  <2> QED
    BY <1>4, <1>6, <1>8, <2>1
<1>9. CASE v # w
  BY <1>3, <1>4, <1>6, <1>7, <1>9
<1> QED
  BY <1>8, <1>9

\* Quotient and remainder are determined by their product and sum.
LEMMA DivMod ==
  ASSUME NEW d \in Nat, d > 0, NEW q \in Int, NEW r \in 0 .. (d - 1), NEW n \in Int, n = (q * d) + r
  PROVE  n \div d = q /\ n % d = r
<1> DEFINE p == n \div d
           t == n % d
<1>1. p \in Int /\ t \in 0 .. (d - 1) /\ n = (p * d) + t
  OBVIOUS
<1> HIDE DEF p, t
<1>2. ((q - p) * d) = t - r /\ t - r < d /\ r - t < d
  BY <1>1
<1>3. q - p < 1
  <2> SUFFICES ASSUME q - p >= 1 PROVE FALSE
    BY <1>1
  <2>1. (q - p) * d >= d
    BY <1>1
  <2> QED
    BY <1>1, <1>2, <2>1
<1>4. p - q < 1
  <2> SUFFICES ASSUME p - q >= 1 PROVE FALSE
    BY <1>1
  <2>1. (p - q) * d >= d
    BY <1>1
  <2>2. (p - q) * d = r - t
    BY <1>1, <1>2
  <2> QED
    BY <1>1, <1>2, <2>1, <2>2
<1>5. p = q
  BY <1>1, <1>3, <1>4
<1> QED
  BY <1>1, <1>2, <1>5 DEF p, t

\* The low k bits of n.
LowBits(n, k) == {i \in 0 .. (k - 1) : (n \div 2^i) % 2 = 1}

\* They are the remainder of n by 2^k, for a negative n too.
LEMMA LowBitsValue ==
  ASSUME NEW n \in Int, NEW k \in Nat
  PROVE  ToNat(LowBits(n, k)) = n % 2^k
<1> DEFINE T == {m \in Nat : ToNat(LowBits(n, m)) # n % 2^m}
<1> SUFFICES ASSUME T # {} PROVE FALSE
  OBVIOUS
<1>1. PICK m \in T : \A l \in T : m <= l
  <2>1. T \subseteq Nat
    OBVIOUS
  <2> HIDE DEF T
  <2> QED
    BY <2>1, Least
<1>2. CASE m = 0
  <2>1. LowBits(n, 0) = {}
    BY DEF LowBits
  <2>2. {} \in BitSets
    BY FS_EmptySet DEF BitSets, FiniteSubsetsOf
  <2>3. ToNat(LowBits(n, 0)) = 0
    BY <2>1, <2>2, SumFirst, Zenon
  <2>4. 2^0 = 1 /\ n % 1 = 0
    OBVIOUS
  <2> QED
    BY <1>2, <2>3, <2>4
<1>3. CASE m # 0
  <2> DEFINE j == m - 1
             b == 2^j
             q == n \div b
             r == n % b
             v == LowBits(n, m)
  <2>1. j \in Nat /\ m = j + 1
    BY <1>3
  <2>2. b \in Nat /\ b > 0 /\ 2^m = 2 * b
    BY <2>1, Power
  <2>3. ToNat(LowBits(n, j)) = r
    BY <1>1, <2>1
  <2>4. v \ {j} = LowBits(n, j) /\ (j \in v <=> q % 2 = 1)
    BY <2>1 DEF LowBits
  <2>5. v \in SUBSET (0 .. (m - 1)) /\ v \in BitSets
    BY <2>1, SumBound DEF LowBits
  <2>6. q \in Int /\ r \in 0 .. (b - 1) /\ n = (q * b) + r
    <3> HIDE DEF b
    <3> QED
      BY <2>2
  <2>7. n % (2 * b) = r + (IF q % 2 = 1 THEN b ELSE 0)
    <3> HIDE DEF b, q, r
    <3>1. PICK h \in Int, c \in {0, 1} : q = (2 * h) + c /\ c = q % 2
      <4>1. q = 2 * (q \div 2) + (q % 2) /\ q \div 2 \in Int /\ q % 2 \in {0, 1}
        BY <2>6
      <4> QED
        BY <4>1
    <3>2. n = (h * (2 * b)) + ((c * b) + r)
      BY <2>2, <2>6, <3>1
    <3>3. (c * b) + r \in 0 .. ((2 * b) - 1)
      BY <2>2, <2>6, <3>1
    <3>4. n % (2 * b) = (c * b) + r
      <4> DEFINE d == 2 * b
                 e == (c * b) + r
      <4>1. d \in Nat /\ d > 0 /\ e \in 0 .. (d - 1) /\ n = (h * d) + e
        BY <2>2, <3>2, <3>3
      <4> HIDE DEF d, e
      <4>2. n % d = e
        BY <3>1, <4>1, DivMod
      <4> QED
        BY <4>2 DEF d, e
    <3> QED
      BY <2>2, <2>6, <3>1, <3>4
  <2>8. ToNat(v \ {j}) = r
    BY <2>3, <2>4, Zenon
  <2> HIDE DEF v, q, r, b
  <2>9. CASE q % 2 = 1
    <3>1. ToNat(v) = ToNat(v \ {j}) + 2^j
      BY <2>4, <2>5, <2>9, SumBit
    <3> QED
      BY <1>1, <2>2, <2>7, <2>8, <2>9, <3>1 DEF v, b
  <2>10. CASE q % 2 # 1
    <3>1. v \ {j} = v
      BY <2>4, <2>10
    <3>2. ToNat(v) = r
      BY <2>8, <3>1, Zenon
    <3> QED
      BY <1>1, <2>2, <2>6, <2>7, <2>10, <3>2 DEF v
  <2> QED
    BY <2>9, <2>10
<1> QED
  BY <1>2, <1>3

\* Words stand for the numbers below 2^XLEN, one for each.
LEMMA WordValues ==
  /\ 2^XLEN \in Nat /\ 2^XLEN > 0
  /\ \A w \in Word : w \in BitSets /\ ToNat(w) \in Nat /\ ToNat(w) < 2^XLEN
  /\ \A v, w \in Word : (Below(v, w) <=> ToNat(v) < ToNat(w)) /\ (ToNat(v) = ToNat(w) => v = w)
  /\ \A n \in Int : ToWord(n) \in Word /\ ToNat(ToWord(n)) = n % 2^XLEN
<1>1. XLEN \in Nat
  BY XLENAssumption
<1>2. Word = SUBSET (0 .. (XLEN - 1)) /\ \A n : ToWord(n) = LowBits(n, XLEN)
  BY DEF Word, BitPos, ToWord, LowBits
<1>3. \A w \in Word : w \in BitSets /\ ToNat(w) \in Nat /\ ToNat(w) < 2^XLEN
  BY <1>1, <1>2, SumBound
<1>4. \A v, w \in Word : (Below(v, w) <=> ToNat(v) < ToNat(w)) /\ (ToNat(v) = ToNat(w) => v = w)
  BY <1>1, <1>2, BelowExact
<1>5. ASSUME NEW n \in Int PROVE ToWord(n) \in Word /\ ToNat(ToWord(n)) = n % 2^XLEN
  <2>1. ToNat(LowBits(n, XLEN)) = n % 2^XLEN
    BY <1>1, LowBitsValue
  <2>2. ToNat(ToWord(n)) = n % 2^XLEN
    BY <1>2, <2>1, Zenon
  <2> QED
    BY <2>2 DEF ToWord, Word
<1> QED
  BY <1>1, <1>3, <1>4, <1>5, Power

\* Plus() adds modulo 2^XLEN, so that steps add up and, as long as they are
\* smaller than the address space, lead to different words.
LEMMA PlusValue ==
  ASSUME NEW a \in Word, NEW m \in Nat
  PROVE  /\ ToNat(Plus(a, m)) = (ToNat(a) + m) % 2^XLEN
         /\ ToNat(a) + m < 2^XLEN => ToNat(Plus(a, m)) = ToNat(a) + m
         /\ Plus(a, 0) = a
         /\ \A n \in Nat : Plus(Plus(a, m), n) = Plus(a, m + n)
         /\ m < 2^XLEN => \A n \in 0 .. m : Plus(a, m) = Plus(a, n) => m = n
<1> DEFINE M == 2^XLEN
           t == ToNat(a)
<1>1. M \in Nat /\ M > 0 /\ t \in Nat /\ t < M
  BY WordValues
<1>2. \A b \in Word, n \in Nat : /\ ToNat(b) \in Nat /\ Plus(b, n) \in Word
                                 /\ ToNat(Plus(b, n)) = (ToNat(b) + n) % M
  <2>1. \A b \in Word, n \in Nat : ToNat(b) + n \in Int /\ ToNat(b) \in Nat
    BY WordValues
  <2>2. \A k \in Int : ToWord(k) \in Word /\ ToNat(ToWord(k)) = k % M
    BY WordValues
  <2> HIDE DEF M
  <2> QED
    BY <2>1, <2>2 DEF Plus
<1>3. \A b, c \in Word : ToNat(b) = ToNat(c) => b = c
  BY WordValues
<1> HIDE DEF M, t
<1>4. ToNat(Plus(a, m)) = (t + m) % M
  BY <1>2 DEF t
<1>5. \A x \in Nat : x < M => x % M = x
  BY <1>1
<1>6. Plus(a, 0) = a
  <2>1. ToNat(Plus(a, 0)) = (t + 0) % M
    BY <1>2 DEF t
  <2>2. ToNat(Plus(a, 0)) = t
    BY <1>1, <1>5, <2>1
  <2> QED
    BY <1>2, <1>3, <2>2 DEF t
<1>7. ASSUME NEW n \in Nat PROVE Plus(Plus(a, m), n) = Plus(a, m + n)
  <2>1. ToNat(Plus(Plus(a, m), n)) = (((t + m) % M) + n) % M
    BY <1>2, <1>4
  <2>2. m + n \in Nat
    OBVIOUS
  <2>3. ToNat(Plus(a, m + n)) = (t + (m + n)) % M
    BY <1>2, <2>2 DEF t
  <2>4. (((t + m) % M) + n) % M = (t + (m + n)) % M
    <3> DEFINE q == (t + m) \div M
               r == (t + m) % M
               u == (r + n) \div M
               z == (r + n) % M
    <3>1. t + m = (q * M) + r /\ q \in Nat /\ r \in Nat
      BY <1>1
    <3> HIDE DEF q, r
    <3>2. r + n = (u * M) + z /\ u \in Nat /\ z \in 0 .. (M - 1)
      BY <1>1, <3>1
    <3> HIDE DEF u, z
    <3>3. t + (m + n) = ((q + u) * M) + z /\ q + u \in Nat
      BY <1>1, <3>1, <3>2
    <3>4. \A k \in Nat : ((k * M) + z) % M = z
      BY <1>1, <3>2
    <3>5. (t + (m + n)) % M = z
      BY <3>3, <3>4
    <3> QED
      BY <3>5 DEF z, r
  <2>5. Plus(Plus(a, m), n) \in Word /\ Plus(a, m + n) \in Word
    BY <1>2, <2>2
  <2> QED
    BY <1>3, <2>1, <2>3, <2>4, <2>5
<1>8. ASSUME m < M, NEW n \in 0 .. m, Plus(a, m) = Plus(a, n) PROVE m = n
  <2>1. (t + m) % M = (t + n) % M
    <3>1. ToNat(Plus(a, n)) = (t + n) % M
      BY <1>2 DEF t
    <3> QED
      BY <1>4, <1>8, <3>1, Zenon
  <2> DEFINE q == (t + m) \div M
             u == (t + n) \div M
             r == (t + m) % M
  <2>2. t + m = (q * M) + r /\ t + n = (u * M) + r /\ q \in Nat /\ u \in Nat /\ r \in Nat
    BY <1>1, <2>1
  <2> HIDE DEF q, u, r
  <2>3. m - n = (q - u) * M /\ m - n \in 0 .. (M - 1) /\ q - u \in Int
    BY <1>1, <1>8, <2>2
  <2>4. \A k \in Int : k * M \in 0 .. (M - 1) => k * M = 0
    BY <1>1
  <2>5. m - n = 0
    BY <2>3, <2>4
  <2> QED
    BY <2>5
<1>9. t + m < M => ToNat(Plus(a, m)) = t + m
  BY <1>1, <1>4, <1>5
<1> QED
  BY <1>4, <1>6, <1>7, <1>8, <1>9 DEF M, t

\* Steps add up.
LEMMA PlusPlus ==
  ASSUME NEW a \in Word, NEW m \in Nat, NEW n \in Nat
  PROVE  Plus(Plus(a, m), n) = Plus(a, m + n)
  BY PlusValue, Zenon

\* There are at least sixteen words, so that the bytes of a double word at any
\* address are different ones, also where addresses wrap.
LEMMA PlusDistinct ==
  ASSUME NEW a \in Word
  PROVE  2^XLEN >= 16 /\ \A m, n \in 0 .. 15 : Plus(a, m) = Plus(a, n) => m = n
<1>1. 2^XLEN >= 16 /\ 2^XLEN \in Nat
  <2>1. XLEN \in Nat /\ 3 < XLEN /\ 3 \in Nat
    BY XLENAssumption
  <2>2. 2 * 2^3 <= 2^XLEN
    BY <2>1, PowerMonotone
  <2>3. 2^3 = 8
    OBVIOUS
  <2> QED
    BY <2>2, <2>3, WordValues
<1>2. ASSUME NEW m \in 0 .. 15, NEW n \in 0 .. m, Plus(a, m) = Plus(a, n) PROVE m = n
  <2>1. m \in Nat /\ m < 2^XLEN
    BY <1>1
  <2> QED
    BY <1>2, <2>1, PlusValue
<1>3. ASSUME NEW m \in 0 .. 15, NEW n \in 0 .. 15, Plus(a, m) = Plus(a, n) PROVE m = n
  <2>1. CASE n <= m
    BY <1>2, <1>3, <2>1
  <2>2. CASE m <= n
    BY <1>2, <1>3, <2>2
  <2> QED
    BY <2>1, <2>2
<1> QED
  BY <1>1, <1>3

-----------------------------------------------------------------------------
(* Widths and words.                                                       *)

\* A word is four bytes or two halves.
LEMMA Widths ==
  /\ ByteLen \in Nat /\ ByteLen > 0
  /\ HalfLen \in Nat /\ HalfLen = 2 * ByteLen /\ XLEN \in Nat /\ XLEN = 2 * HalfLen
  BY XLENAssumption DEF ByteLen, HalfLen

\* Addition wraps around: its result is a word whatever is added.
LEMMA PlusType == \A a, n : Plus(a, n) \in Word
  BY DEF Plus, ToWord, Word

\* A bit-field taken out of any value fits its width.
LEMMA Fields ==
  ASSUME NEW v
  PROVE  /\ Offset(v, 0, ByteLen - 1) \in Byte
         /\ Offset(v, ByteLen, HalfLen - 1) \in Byte
         /\ Offset(v, 0, HalfLen - 1) \in Half
         /\ Offset(v, HalfLen, XLEN - 1) \in Half
         /\ Offset(v, 0, XLEN - 1) \in Word
         /\ Offset(v, XLEN, 2 * XLEN - 1) \in Word
  BY Widths DEF Offset, Byte, Half, Word, BitPos

\* Two values of a width next to each other fit twice the width.
LEMMA Concatenation ==
  /\ \A l, h \in Byte : l \cup Shift(h, ByteLen) \in Half
  /\ \A l, h \in Half : l \cup Shift(h, HalfLen) \in Word
  /\ \A l, h \in Word : l \cup Shift(h, XLEN) \in DoubleWord
  /\ Byte \subseteq DoubleWord /\ Half \subseteq DoubleWord /\ Word \subseteq DoubleWord
<1>1. ASSUME NEW n \in Nat, NEW l \in SUBSET (0 .. (n - 1)), NEW h \in SUBSET (0 .. (n - 1))
      PROVE  l \cup Shift(h, n) \in SUBSET (0 .. (2 * n - 1))
  <2>1. ASSUME NEW e \in l PROVE e \in 0 .. (2 * n - 1)
    BY <2>1
  <2>2. ASSUME NEW i \in h PROVE i + n \in 0 .. (2 * n - 1)
    BY <2>2
  <2> QED
    BY <2>1, <2>2 DEF Shift
<1>2. \A l, h \in Byte : l \cup Shift(h, ByteLen) \in Half
  BY <1>1, Widths DEF Byte, Half
<1>3. \A l, h \in Half : l \cup Shift(h, HalfLen) \in Word
  BY <1>1, Widths DEF Half, Word, BitPos
<1>4. \A l, h \in Word : l \cup Shift(h, XLEN) \in DoubleWord
  BY <1>1, Widths DEF Word, DoubleWord, BitPos
<1>5. Byte \subseteq DoubleWord /\ Half \subseteq DoubleWord /\ Word \subseteq DoubleWord
  BY Widths DEF Byte, Half, Word, DoubleWord, BitPos
<1> QED
  BY <1>2, <1>3, <1>4, <1>5

\* Every operation of the arithmetic unit yields a word.
LEMMA AluType ==
  ASSUME NEW opt \in AluOps, NEW a \in Word, NEW b \in Word
  PROVE  do_alu(opt, a, b) \in Word
<1>1. \A n : ToWord(n) \in Word
  BY DEF ToWord, Word
<1>2. {} \in Word /\ {0} \in Word /\ BitPos \in Word
  BY XLENAssumption DEF Word, BitPos
<1>3. \A n : /\ {i \in BitPos : i - n \in a} \in Word
             /\ {i \in BitPos : i + n \in a} \in Word
             /\ arith_shift(a, n) \in Word
  BY DEF Word, arith_shift
<1>4. a \cup b \in Word /\ a \cap b \in Word /\ (a \cup b) \ (a \cap b) \in Word
  BY DEF Word
<1>5. \A n : ToWord(n) \ {0} \in Word
  BY <1>1 DEF Word
<1> QED
  BY <1>1, <1>2, <1>3, <1>4, <1>5 DEF do_alu, AluOps
=============================================================================
