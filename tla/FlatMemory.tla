----------------------------- MODULE FlatMemory -----------------------------
(***************************************************************************)
(* What the simulated memory promises to the hart: one array of bytes, all *)
(* zero until written, read and written little-endian at any alignment,    *)
(* addresses wrapping around at 2^XLEN.  There are no pages.  Only byte    *)
(* accesses can meet a device: they read an arbitrary byte there and leave *)
(* the array alone.                                                        *)
(***************************************************************************)
EXTENDS Words

CONSTANTS
  Device,      \* the addresses at which a byte access goes to a device
  Addrs,       \* the addresses accessed
  Values       \* the double words stored

VARIABLES flat, out

Get16(f, a) == f[a] \cup Shift(f[Plus(a, 1)], ByteLen)
Get32(f, a) == Get16(f, a) \cup Shift(Get16(f, Plus(a, 2)), HalfLen)
Get64(f, a) == Get32(f, a) \cup Shift(Get32(f, Plus(a, 4)), XLEN)

Put8(f, a, b)  == [f EXCEPT ![a] = b]
Put16(f, a, h) == Put8(Put8(f, a, Offset(h, 0, ByteLen - 1)),
                       Plus(a, 1), Offset(h, ByteLen, HalfLen - 1))
Put32(f, a, w) == Put16(Put16(f, a, Offset(w, 0, HalfLen - 1)),
                        Plus(a, 2), Offset(w, HalfLen, XLEN - 1))
Put64(f, a, d) == Put32(Put32(f, a, Offset(d, 0, XLEN - 1)),
                        Plus(a, 4), Offset(d, XLEN, 2 * XLEN - 1))

Init == flat = [a \in Word |-> {}] /\ out = {}

Load(a) ==
  /\ out' \in {Get16(flat, a), Get32(flat, a), Get64(flat, a)}
                \cup (IF a \in Device THEN Byte ELSE {flat[a]})
  /\ UNCHANGED flat

Store(a, v) ==
  /\ flat' \in {Put16(flat, a, Offset(v, 0, HalfLen - 1)),
                Put32(flat, a, Offset(v, 0, XLEN - 1)),
                Put64(flat, a, v)}
                \cup {IF a \in Device THEN flat
                                      ELSE Put8(flat, a, Offset(v, 0, ByteLen - 1))}
  /\ UNCHANGED out

Next == \E a \in Addrs : Load(a) \/ \E v \in Values : Store(a, v)

Spec == Init /\ [][Next]_<<flat, out>>
=============================================================================
