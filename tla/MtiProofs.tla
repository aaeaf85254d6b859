----------------------------- MODULE MtiProofs ------------------------------
(***************************************************************************)
(* The timer thread and its stop, in every interleaving of the runner with *)
(* set_exiting().                                                          *)
(***************************************************************************)
EXTENDS MtiSource, TLAPS

\* The inductive invariant.  AtMostOneLateTick says that a late increment is
\* behind the runner, which cannot reach another one past the test of the flag.
MtiInv == TypeOK /\ NoDanglingIncrement /\ AtMostOneLateTick

\* The threads start in a state that satisfies the invariant.
LEMMA MtiInitInv == Init => MtiInv
<1> SUFFICES ASSUME Init PROVE MtiInv
  OBVIOUS
<1>1. {} \in Byte
  BY DEF Byte
<1>2. mtime \in [0 .. 7 -> Byte]
  BY <1>1 DEF Init
<1>3. is_exiting \in BOOLEAN
  BY DEF Init
<1>4. late \in Nat /\ runner \in RunnerAt /\ main \in MainAt
  BY DEF Init, RunnerAt, MainAt
<1>5. NoDanglingIncrement /\ AtMostOneLateTick
  BY SMT DEF Init, NoDanglingIncrement, AtMostOneLateTick
<1> QED
  BY <1>2, <1>3, <1>4, <1>5 DEF MtiInv, TypeOK

\* Every step of the runner and of set_exiting() keeps it.
LEMMA MtiNextInv == MtiInv /\ [Next]_vars => MtiInv'
<1> SUFFICES ASSUME MtiInv, [Next]_vars PROVE MtiInv'
  OBVIOUS
<1> USE DEF MtiInv, TypeOK, NoDanglingIncrement, AtMostOneLateTick,
            RunnerAt, MainAt
<1>1. CASE Test \/ Pred \/ Block \/ SpuriousWakeup \/ Timeout
  BY <1>1 DEF Test, Pred, Block, SpuriousWakeup, Timeout
<1>2. CASE Increment
  <2>1. FetchAdd(mtime[0]) \in Byte
    BY DEF FetchAdd, Byte
  <2>2. mtime' \in [0 .. 7 -> Byte]
    BY <1>2, <2>1 DEF Increment
  <2> QED
    BY <1>2, <2>2 DEF Increment
<1>3. CASE StoreExiting
  BY <1>3 DEF StoreExiting
<1>4. CASE Notify \/ Join
  BY <1>4 DEF Notify, Join
<1>5. CASE UNCHANGED vars
  BY <1>5 DEF vars
<1> QED
  BY <1>1, <1>2, <1>3, <1>4, <1>5 DEF Next, Runner

\* The invariant holds in every interleaving of the two threads.
THEOREM MtiInvariant == Spec => []MtiInv
  BY MtiInitInv, MtiNextInv, PTL DEF Spec

\* Every atomic stays a byte: the carry of an increment never leaves its byte.
THEOREM MtiTypeCorrect == Spec => []TypeOK
<1>1. MtiInv => TypeOK
  BY DEF MtiInv
<1> QED
  BY <1>1, MtiInvariant, PTL

\* The runner never touches the router's atomics after they are destroyed.
THEOREM MtiNoDanglingIncrement == Spec => []NoDanglingIncrement
<1>1. MtiInv => NoDanglingIncrement
  BY DEF MtiInv
<1> QED
  BY <1>1, MtiInvariant, PTL

\* At most one increment happens after set_exiting() has stored the flag.
THEOREM MtiAtMostOneLateTick == Spec => []AtMostOneLateTick
<1>1. MtiInv => AtMostOneLateTick
  BY DEF MtiInv
<1> QED
  BY <1>1, MtiInvariant, PTL
=============================================================================
