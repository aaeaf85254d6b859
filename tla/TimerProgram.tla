---------------------------- MODULE TimerProgram ----------------------------
(***************************************************************************)
(* runtime/basic/src/timer.c, the program that the timer is tested with:   *)
(* main() installs the vector, enables the interrupt, is busy, and returns *)
(* mtime() when an interrupt came; the handler timer() reads mtime() and   *)
(* moves the deadline.  Both registers are 64 bits wide and are accessed   *)
(* one word at a time while the counter runs; the device is the one that   *)
(* the program's comments describe.  A word has XLEN bits.                 *)
(***************************************************************************)
EXTENDS Words

CONSTANTS
  Interval,    \* CLOCK_FREQ * 10
  Busy,        \* the argument of busy1337: 100
  MaxTime      \* bound on the counter

Base    == 2^XLEN
High(t) == t \div Base
Low(t)  == t % Base
UintMax == Base - 1

\* The counter never reaches the deadline with all high bits set.
ASSUME TimerAssumption ==
  /\ Interval \in 1 .. UintMax
  /\ Busy \in Nat \ {0}
  /\ MaxTime \in Nat /\ MaxTime < UintMax * Base

VARIABLES
  mtime, mtimecmp,    \* the device
  pc,                 \* the next statement of main() and of timer()
  read,               \* mtimeh_val, mtimel_val and the result of each mtime();
                      \* history: the time of its first access
  irq,                \* mie.MTIE and mstatus.MIE
  busy,               \* i of busy1337, and how many calls are left
  new_mtimecmp, timer_enabled, tohost

progVars == <<read, irq, busy, new_mtimecmp, timer_enabled, tohost>>
vars     == <<mtime, mtimecmp, pc, progVars>>

Proc == {"main", "timer"}

ReadPoints == {"high", "low", "again", "returned"}

NoFrame == [h |-> 0, l |-> 0, val |-> 0, since |-> 0]

Init ==
  /\ mtime = 0 /\ mtimecmp = 0
  /\ pc = [main |-> "mtvec", timer |-> "idle"]
  /\ read = [p \in Proc |-> NoFrame]
  /\ irq = [mtie |-> FALSE, mie |-> FALSE]
  /\ busy = [i |-> 0, calls |-> 2]
  /\ new_mtimecmp = 0 /\ timer_enabled = 0
  /\ tohost = 0

\* The handler runs to its end: interrupts are off until its mret.
Running(p) == (p = "timer") <=> (pc.timer # "idle")

At(p, here, next) == Running(p) /\ pc[p] = here /\ pc' = [pc EXCEPT ![p] = next]

-----------------------------------------------------------------------------
(* mtime(): high, low, high again, until both reads of high agree.         *)

ReadHigh(p) ==
  /\ At(p, "high", "low")
  /\ read' = [read EXCEPT ![p].h = High(mtime), ![p].since = mtime]
  /\ UNCHANGED <<mtime, mtimecmp, irq, busy, new_mtimecmp, timer_enabled, tohost>>

ReadLow(p) ==
  /\ At(p, "low", "again")
  /\ read' = [read EXCEPT ![p].l = Low(mtime)]
  /\ UNCHANGED <<mtime, mtimecmp, irq, busy, new_mtimecmp, timer_enabled, tohost>>

\* uint64_t is unsigned long, a word under -mabi=ilp32: a shift by its width is
\* undefined.  The build folds it to 0 or shifts by 0 bits.
ShiftedByWidth(w) == {0, w}

or(v, w) == ToNat(ToWord(v) \cup ToWord(w))

\* Mutant of consistent: mtimeh is not polled again.
consistent_Once(p) == TRUE

consistent(p) == read[p].h = High(mtime)

ReadAgain(p) ==
  \/ /\ At(p, "again", "high")
     /\ ~consistent(p)
     /\ UNCHANGED <<mtime, mtimecmp, progVars>>
  \/ /\ At(p, "again", "returned")
     /\ consistent(p)
     /\ \E s \in ShiftedByWidth(read[p].h) :
          read' = [read EXCEPT ![p].val = or(s, read[p].l)]
     /\ UNCHANGED <<mtime, mtimecmp, irq, busy, new_mtimecmp, timer_enabled, tohost>>

-----------------------------------------------------------------------------
(* timer(), the interrupt handler.                                         *)

\* Mutant of AddInterval: the sum is kept in more than a word.
AddInterval_Wide ==
  /\ At("timer", "returned", "unreachable")
  /\ new_mtimecmp' = read["timer"].val + Interval
  /\ UNCHANGED <<mtime, mtimecmp, read, irq, busy, timer_enabled, tohost>>

AddInterval ==
  /\ At("timer", "returned", "unreachable")
  /\ new_mtimecmp' = (read["timer"].val + Interval) % Base
  /\ UNCHANGED <<mtime, mtimecmp, read, irq, busy, timer_enabled, tohost>>

\* Mutant of SetUnreachable: the high word is left alone.
SetUnreachable_Dropped ==
  /\ At("timer", "unreachable", "mtimecmpl")
  /\ UNCHANGED <<mtime, mtimecmp, progVars>>

\* *mtimecmph = 0xFFFFFFFF
SetUnreachable ==
  /\ At("timer", "unreachable", "mtimecmpl")
  /\ mtimecmp' = UintMax * Base + Low(mtimecmp)
  /\ UNCHANGED <<mtime, progVars>>

SetLow ==
  /\ At("timer", "mtimecmpl", "mtimecmph")
  /\ mtimecmp' = High(mtimecmp) * Base + new_mtimecmp
  /\ UNCHANGED <<mtime, progVars>>

SetHigh ==
  /\ At("timer", "mtimecmph", "enabled")
  /\ \E s \in ShiftedByWidth(new_mtimecmp) : mtimecmp' = s * Base + Low(mtimecmp)
  /\ UNCHANGED <<mtime, progVars>>

\* The last statement and mret, which turns interrupts on again; the locals
\* of the handler are gone.
Enabled ==
  /\ At("timer", "enabled", "idle")
  /\ timer_enabled' = 1
  /\ irq' = [irq EXCEPT !.mie = TRUE]
  /\ read' = [read EXCEPT !["timer"] = NoFrame]
  /\ new_mtimecmp' = 0
  /\ UNCHANGED <<mtime, mtimecmp, busy, tohost>>

-----------------------------------------------------------------------------
(* main().                                                                 *)

Install ==
  /\ At("main", "mtvec", "mie")
  /\ UNCHANGED <<mtime, mtimecmp, progVars>>

EnableTimer ==
  /\ At("main", "mie", "mstatus")
  /\ irq' = [irq EXCEPT !.mtie = TRUE]
  /\ UNCHANGED <<mtime, mtimecmp, read, busy, new_mtimecmp, timer_enabled, tohost>>

EnableInterrupts ==
  /\ At("main", "mstatus", "up")
  /\ irq' = [irq EXCEPT !.mie = TRUE]
  /\ UNCHANGED <<mtime, mtimecmp, read, busy, new_mtimecmp, timer_enabled, tohost>>

\* busy1337: while (++i < x); while (--i > 0);  called twice.
Up ==
  /\ At("main", "up", IF busy.i + 1 < Busy THEN "up" ELSE "down")
  /\ busy' = [busy EXCEPT !.i = @ + 1]
  /\ UNCHANGED <<mtime, mtimecmp, read, irq, new_mtimecmp, timer_enabled, tohost>>

Down ==
  /\ At("main", "down", IF busy.i - 1 > 0 THEN "down"
                        ELSE IF busy.calls > 1 THEN "up" ELSE "test")
  /\ busy' = IF busy.i - 1 > 0 THEN [busy EXCEPT !.i = @ - 1]
             ELSE [i |-> 0, calls |-> busy.calls - 1]
  /\ UNCHANGED <<mtime, mtimecmp, read, irq, new_mtimecmp, timer_enabled, tohost>>

TestEnabled ==
  /\ At("main", "test", IF timer_enabled = 1 THEN "high" ELSE "returned")
  /\ UNCHANGED <<mtime, mtimecmp, progVars>>

\* _exit(ret): the result of main() goes to tohost.
Exit ==
  /\ At("main", "returned", "done")
  /\ tohost' = read["main"].val
  /\ UNCHANGED <<mtime, mtimecmp, read, irq, busy, new_mtimecmp, timer_enabled>>

-----------------------------------------------------------------------------
(* The device and the hart.                                                *)

Count ==
  /\ mtime < MaxTime
  /\ mtime' = mtime + 1
  /\ UNCHANGED <<mtimecmp, pc, progVars>>

Interrupt ==
  /\ irq.mtie /\ irq.mie /\ mtime > mtimecmp
  /\ pc.main # "done"
  /\ pc' = [pc EXCEPT !.timer = "high"]
  /\ irq' = [irq EXCEPT !.mie = FALSE]
  /\ UNCHANGED <<mtime, mtimecmp, read, busy, new_mtimecmp, timer_enabled, tohost>>

ReadTime(p) == ReadHigh(p) \/ ReadLow(p) \/ ReadAgain(p)
Timer == AddInterval \/ SetUnreachable \/ SetLow \/ SetHigh \/ Enabled
Main  == Install \/ EnableTimer \/ EnableInterrupts \/ Up \/ Down \/ TestEnabled \/ Exit

Next == Count \/ Interrupt \/ Timer \/ Main \/ \E p \in Proc : ReadTime(p)

Spec == Init /\ [][Next]_vars

-----------------------------------------------------------------------------
(* Properties.                                                             *)

\* Every variable has its type; the results that C keeps in a word fit in one.
TypeOK ==
  /\ mtime \in 0 .. MaxTime /\ mtimecmp \in 0 .. (Base * Base - 1)
  /\ pc \in [main : {"mtvec", "mie", "mstatus", "up", "down", "test", "done"} \cup ReadPoints,
             timer : {"idle", "unreachable", "mtimecmpl", "mtimecmph", "enabled"} \cup ReadPoints]
  /\ read \in [Proc -> [h : 0 .. UintMax, l : 0 .. UintMax, val : 0 .. UintMax,
                        since : 0 .. MaxTime]]
  /\ irq \in [mtie : BOOLEAN, mie : BOOLEAN]
  /\ busy \in [i : 0 .. Busy, calls : 0 .. 2]
  /\ new_mtimecmp \in 0 .. UintMax /\ timer_enabled \in {0, 1}
  /\ tohost \in 0 .. UintMax

\* "Poll mtimeh to ensure it's consistent after reading mtimel": when mtime()
\* leaves its loop, in main() or in the handler that interrupts it there, the
\* two words together are a value that the counter had during the call.
PairConsistent ==
  \A p \in Proc :
    pc[p] = "returned" => read[p].h * Base + read[p].l \in read[p].since .. mtime

\* "An intermediate mtimecmp value may cause spurious interrupts. Prevent that":
\* between the first and the last of the three writes of the deadline the
\* timer is never due.
NoSpuriousMatch == pc.timer \in {"mtimecmpl", "mtimecmph"} => mtime <= mtimecmp

\* "interrupt every 100ms": when the handler has written the last word of the
\* deadline, the deadline is Interval after a time that the handler read.
DeadlineAhead ==
  pc.timer = "enabled" => mtimecmp - Interval \in read["timer"].since .. mtime
=============================================================================
