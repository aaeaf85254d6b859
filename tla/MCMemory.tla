------------------------------ MODULE MCMemory ------------------------------
(* Small instance of MemoryBus: 8-bit addresses, 2-bit bytes, 4-byte pages. *)
EXTENDS MemoryBus

\* A plain address, the first byte of the mtime window and the last byte of
\* the mtimecmp window.  Accesses at 254 wrap to address 0, those at 254 and
\* 3 cross a page boundary inside a half word, and all of them overlap.
MCAddrs    == {ToWord(1), ToWord(3), ToWord(254)}
MCMtime    == ToWord(3)
MCMtimecmp == ToWord(247)

\* The last double word of the address space.
MCMtimeTop == ToWord(248)

\* No two neighbouring bytes are equal.
MCValues == {{i \in 0 .. 15 : i % 3 = 0}}
=============================================================================
