----------------------------- MODULE MemoryBus -----------------------------
(***************************************************************************)
(* The address router driven through its whole interface: loads and stores *)
(* of the four widths, as the hart makes them, and the timer thread that   *)
(* increments the first mtime byte at any moment.                          *)
(***************************************************************************)
EXTENDS AddressRouter

CONSTANTS Addrs, Values

ASSUME BusAssumption == Addrs \subseteq Word /\ Values \subseteq DoubleWord

VARIABLE out          \* what the last load returned

vars == <<page, mtime, mtimecmp, out>>

Init == page = [k \in {} |-> {}] /\ MemInit /\ out = {}

Load8(a)  == out' = read8(a)  /\ UNCHANGED memVars
Load16(a) == out' = read16(a) /\ UNCHANGED memVars
Load32(a) == out' = read32(a) /\ UNCHANGED memVars
Load64(a) == out' = read64(a) /\ UNCHANGED memVars

Store8(a, v)  == write8(a, Offset(v, 0, ByteLen - 1))  /\ UNCHANGED out
Store16(a, v) == write16(a, Offset(v, 0, HalfLen - 1)) /\ UNCHANGED out
Store32(a, v) == write32(a, Offset(v, 0, XLEN - 1))    /\ UNCHANGED out
Store64(a, v) == write64(a, v)                         /\ UNCHANGED out

Tick == mtime' = [mtime EXCEPT ![0] = FetchAdd(mtime[0])] /\ UNCHANGED <<page, mtimecmp, out>>

Next ==
  \/ \E a \in Addrs : Load8(a) \/ Load16(a) \/ Load32(a) \/ Load64(a)
  \/ \E a \in Addrs, v \in Values :
       Store8(a, v) \/ Store16(a, v) \/ Store32(a, v) \/ Store64(a, v)
  \/ Tick

Spec == Init /\ [][Next]_vars

-----------------------------------------------------------------------------
(* Properties.                                                             *)

\* The page map holds whole pages under page-aligned keys, the device
\* registers are eight bytes each, and a load returns at most 64 bits.
TypeOK == MemTypeOK /\ out \in DoubleWord

Flat == INSTANCE FlatMemory WITH
  flat   <- [a \in Word |-> SparseRead8(page, a)],
  Device <- {a \in Word : InWindow(a, MtimeAddr) \/ InWindow(a, MtimecmpAddr)}

\* sparse_memory implements one flat array of bytes: allocation of pages on
\* the first write, the split of an access over two pages and the wrap at the
\* top of the address space are invisible to every load.
ImplementsFlatMemory == Flat!Spec

\* The mtime option places a 64-bit register: each of the eight bytes from that
\* address on is the timer's, whatever has been stored around it.
WindowServed == \A i \in 0 .. 7 : read8(Plus(MtimeAddr, i)) = mtime[i]

\* The crossbar serves the device at its window whatever the access width:
\* the low byte of a load at a timer register is that register's byte.
CrossbarCoherent ==
  \A a \in Addrs : Offset(read32(a), 0, ByteLen - 1) = read8(a)
=============================================================================
