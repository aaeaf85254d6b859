---------------------------- MODULE MCSimulator ----------------------------
(* Programs for Simulator, from the parts that MCHart defines.             *)
EXTENDS Simulator, MCHart

\* Read mtime (byte 0) into a0 while the timer runs, or write it, and exit.
MCTimerImages ==
  {Program(<<22, 8, 9>>, 7), Program(<<1, 21, 22, 8, 9>>, 7), Program(<<1, 19>>, 7)}

\* Enable the timer interrupt and loop.
MCLoopImages == {Program(<<1, 2, 3, 4, 5, 31>>, 7)}
=============================================================================
