------------------------- MODULE TimerProgramProofs -------------------------
(***************************************************************************)
(* The timer test program for every width of a word, every interval and    *)
(* every length of its busy loop: mtime() returns a value the counter had, *)
(* and the deadline is never due while it is written.                      *)
(***************************************************************************)
EXTENDS TimerProgram, WordProofs

-----------------------------------------------------------------------------
(* A time is a high word and a low word.                                   *)

\* A number is its quotient and remainder, and is above no multiple it is below.
LEMMA Division ==
  ASSUME NEW b \in Nat \ {0}, NEW t \in Nat
  PROVE  /\ t \div b \in Nat /\ t % b \in 0 .. (b - 1)
         /\ t = ((t \div b) * b) + (t % b)
  OBVIOUS

\* Products of naturals are monotonic.
LEMMA Products ==
  ASSUME NEW b \in Nat \ {0}, NEW q \in Nat, NEW r \in Nat, q < r
  PROVE  (q * b) + b <= r * b
<1>1. PICK d \in Nat : r = (q + 1) + d
  <2>1. r - (q + 1) \in Nat /\ r = (q + 1) + (r - (q + 1))
    OBVIOUS
  <2> QED
    BY <2>1
<1>2. r * b = ((q * b) + b) + (d * b)
  BY <1>1
<1>3. d * b \in Nat /\ q * b \in Nat
  OBVIOUS
<1> QED
  BY <1>2, <1>3

\* The words are unique.
LEMMA UniqueWords ==
  ASSUME NEW b \in Nat \ {0}, NEW q \in Nat, NEW r \in 0 .. (b - 1)
  PROVE  /\ (q * b) + r \in Nat
         /\ ((q * b) + r) \div b = q /\ ((q * b) + r) % b = r
  OBVIOUS

\* The high word never falls while the counter rises.
LEMMA MonotonicDivision ==
  ASSUME NEW b \in Nat \ {0}, NEW t \in Nat, NEW u \in Nat, t <= u
  PROVE  t \div b <= u \div b
<1> DEFINE q == t \div b
           r == u \div b
<1>1. /\ q \in Nat /\ r \in Nat
      /\ t = (q * b) + (t % b) /\ u = (r * b) + (u % b)
      /\ t % b \in 0 .. (b - 1) /\ u % b \in 0 .. (b - 1)
  BY Division
<1> HIDE DEF q, r
<1>2. ASSUME r < q PROVE FALSE
  <2>1. (r * b) + b <= q * b
    BY <1>1, <1>2, Products
  <2>2. r * b \in Nat /\ q * b \in Nat
    BY <1>1
  <2> QED
    BY <1>1, <2>1, <2>2
<1>3. q <= r
  BY <1>1, <1>2
<1> QED
  BY <1>3 DEF q, r

\* The word size as the provers need it.
LEMMA Constants ==
  /\ Base \in Nat \ {0} /\ UintMax \in Nat \ {0} /\ Base = UintMax + 1
  /\ Interval \in Nat /\ Busy \in Nat \ {0} /\ MaxTime \in Nat /\ MaxTime < UintMax * Base
<1>1. /\ Interval \in 1 .. UintMax /\ Busy \in Nat \ {0}
      /\ MaxTime \in Nat /\ MaxTime < UintMax * Base
  BY TimerAssumption
<1>2. Base \in Nat \ {0}
  BY WordValues DEF Base
<1> QED
  BY <1>1, <1>2 DEF UintMax

\* The bitwise or of two words is a word.
LEMMA OrType ==
  ASSUME NEW v, NEW w
  PROVE  or(v, w) \in 0 .. UintMax
<1>1. ToWord(v) \cup ToWord(w) \in Word
  BY DEF ToWord, Word
<1>2. or(v, w) \in Nat /\ or(v, w) < Base /\ Base \in Nat
  BY <1>1, WordValues DEF or, Base
<1> QED
  BY <1>2 DEF UintMax

\* A pair of words is a double word, and its words are the ones it was made of.
LEMMA Pairs ==
  ASSUME NEW h \in 0 .. UintMax, NEW l \in 0 .. UintMax
  PROVE  /\ (h * Base) + l \in 0 .. (Base * Base - 1)
         /\ High((h * Base) + l) = h /\ Low((h * Base) + l) = l
<1>1. h \in Nat /\ h < Base /\ l \in 0 .. (Base - 1) /\ Base \in Nat \ {0}
  BY Constants
<1>2. (h * Base) + l \in Nat /\ High((h * Base) + l) = h /\ Low((h * Base) + l) = l
  BY <1>1, UniqueWords DEF High, Low
<1>3. (h * Base) + Base <= Base * Base
  BY <1>1, Products
<1>4. Base * Base \in Nat /\ h * Base \in Nat
  BY <1>1
<1> QED
  BY <1>1, <1>2, <1>3, <1>4

\* The words of a time the counter can have.
LEMMA Times ==
  ASSUME NEW t \in 0 .. MaxTime
  PROVE  High(t) \in 0 .. UintMax /\ Low(t) \in 0 .. UintMax /\ t = (High(t) * Base) + Low(t)
<1>1. /\ High(t) \in Nat /\ Low(t) \in 0 .. UintMax /\ t = (High(t) * Base) + Low(t)
      /\ Base \in Nat \ {0} /\ UintMax \in Nat
  BY Constants, Division DEF High, Low, UintMax
<1>2. ASSUME UintMax < High(t) PROVE FALSE
  <2>1. (UintMax * Base) + Base <= High(t) * Base
    BY <1>1, <1>2, Products
  <2>2. t < UintMax * Base
    BY Constants
  <2>3. UintMax * Base \in Nat /\ High(t) * Base \in Nat /\ Low(t) \in Nat
    BY <1>1
  <2> QED
    BY <1>1, <2>1, <2>2, <2>3
<1> QED
  BY <1>1, <1>2

\* The words of the deadline.
LEMMA Deadlines ==
  ASSUME NEW c \in 0 .. (Base * Base - 1)
  PROVE  High(c) \in 0 .. UintMax /\ Low(c) \in 0 .. UintMax
<1>1. /\ High(c) \in Nat /\ Low(c) \in 0 .. UintMax /\ c = (High(c) * Base) + Low(c)
      /\ Base \in Nat \ {0} /\ UintMax = Base - 1 /\ Base * Base \in Nat
  <2>1. Base \in Nat \ {0} /\ UintMax = Base - 1
    BY Constants
  <2>2. Base * Base \in Nat
    BY <2>1
  <2>3. c \in Nat
    BY <2>2
  <2> QED
    BY <2>1, <2>2, <2>3, Division DEF High, Low
<1>2. ASSUME Base <= High(c) PROVE FALSE
  <2>1. Base * Base <= High(c) * Base
    <3>1. CASE Base = High(c)
      BY <1>1, <3>1
    <3>2. CASE Base < High(c)
      BY <1>1, <3>2, Products
    <3> QED
      BY <1>1, <1>2, <3>1, <3>2
  <2>2. High(c) * Base \in Nat
    BY <1>1
  <2> QED
    BY <1>1, <2>1, <2>2
<1> QED
  BY <1>1, <1>2

-----------------------------------------------------------------------------
(* The inductive invariant.                                                *)

\* The frame of mtime() at each point of its loop: the low word belongs to a
\* time m since the first access, and the high word to the first access.
Frame(p) ==
  /\ pc[p] = "low" => read[p].since <= mtime /\ read[p].h = High(read[p].since)
  /\ pc[p] = "again" => /\ read[p].h = High(read[p].since)
                        /\ \E m \in read[p].since .. mtime : read[p].l = Low(m)
  /\ pc[p] = "returned" => read[p].h * Base + read[p].l \in read[p].since .. mtime

\* Where the high word of the deadline is out of reach.
Unreachable == pc.timer \in {"mtimecmpl", "mtimecmph"} => UintMax * Base <= mtimecmp

\* The busy loop, and main() before it reads the time.
Loop ==
  /\ pc.main \in {"mtvec", "mie", "mstatus", "up"} => busy.i < Busy /\ busy.calls > 0
  /\ pc.main = "down" => busy.i > 0 /\ busy.calls > 0
  /\ pc.main \in {"mtvec", "mie", "mstatus", "up", "down", "test"} => read["main"] = NoFrame

IInv == TypeOK /\ (\A p \in Proc : Frame(p)) /\ Unreachable /\ Loop

-----------------------------------------------------------------------------
(* The steps.                                                              *)

\* The invariant holds at first.
LEMMA InitInv == Init => IInv
<1> SUFFICES ASSUME Init PROVE IInv
  OBVIOUS
<1>1. 0 \in 0 .. UintMax /\ 0 \in 0 .. MaxTime /\ 0 \in 0 .. Busy /\ Busy > 0
  BY Constants
<1>2. 0 \in 0 .. (Base * Base - 1)
  <2>1. Base \in Nat /\ Base > 0
    BY Constants
  <2> QED
    BY <2>1
<1>3. irq \in [mtie : BOOLEAN, mie : BOOLEAN]
  BY DEF Init
<1>4. TypeOK
  BY <1>1, <1>2, <1>3 DEF Init, TypeOK, NoFrame, Proc, ReadPoints
<1>5. \A p \in Proc : Frame(p)
  BY DEF Init, Frame, Proc
<1>6. Unreachable /\ Loop
  BY <1>1, Constants DEF Init, Unreachable, Loop, NoFrame, Proc
<1> QED
  BY <1>4, <1>5, <1>6 DEF IInv

\* One of the two procedures moves on, and the other stays.
LEMMA Moved ==
  ASSUME TypeOK, NEW p \in Proc, NEW here, NEW next, At(p, here, next)
  PROVE  /\ pc[p] = here /\ pc'[p] = next
         /\ \A q \in Proc : q # p => pc'[q] = pc[q]
         /\ p = "timer" => pc'.main = pc.main /\ pc'.timer = next /\ pc.timer = here
         /\ p = "main" => pc'.main = next /\ pc'.timer = pc.timer /\ pc.main = here
         /\ p = "main" => pc.timer = "idle"
  BY DEF At, TypeOK, Proc, Running

\* A frame stays right while the counter rises.
LEMMA FrameKept ==
  ASSUME IInv, NEW p \in Proc, pc'[p] = pc[p], read'[p] = read[p], mtime' \in Nat, mtime <= mtime'
  PROVE  Frame(p)'
<1>1. /\ mtime \in Nat /\ Frame(p) /\ read[p].since \in Nat /\ read[p].h \in Nat /\ read[p].l \in Nat
      /\ Base \in Nat
  BY Constants DEF IInv, TypeOK
<1>2. (read[p].h * Base) + read[p].l \in Nat
  BY <1>1
<1> QED
  BY <1>1, <1>2 DEF Frame

\* The counter runs.
LEMMA CountInv ==
  ASSUME IInv, Count PROVE IInv'
<1>1. /\ mtime' = mtime + 1 /\ mtime' \in 0 .. MaxTime /\ mtime \in Nat /\ mtime' \in Nat
      /\ UNCHANGED <<mtimecmp, pc, progVars>>
  BY Constants DEF IInv, TypeOK, Count
<1>2. TypeOK'
  BY <1>1 DEF IInv, TypeOK, progVars
<1>3. \A p \in Proc : Frame(p)'
  BY <1>1, FrameKept DEF progVars
<1>4. Unreachable' /\ Loop'
  BY <1>1 DEF IInv, Unreachable, Loop, progVars
<1> QED
  BY <1>2, <1>3, <1>4 DEF IInv

\* An interrupt starts the handler, whose frame is not read before it is written.
LEMMA InterruptInv ==
  ASSUME IInv, Interrupt PROVE IInv'
<1>1. /\ pc' = [pc EXCEPT !.timer = "high"] /\ irq' = [irq EXCEPT !.mie = FALSE]
      /\ UNCHANGED <<mtime, mtimecmp, read, busy, new_mtimecmp, timer_enabled, tohost>>
      /\ mtime \in Nat
  BY Constants DEF IInv, TypeOK, Interrupt
<1>2. /\ pc' \in [main : {"mtvec", "mie", "mstatus", "up", "down", "test", "done"} \cup ReadPoints,
                  timer : {"idle", "unreachable", "mtimecmpl", "mtimecmph", "enabled"} \cup ReadPoints]
      /\ pc'.main = pc.main /\ pc'.timer = "high"
      /\ pc'["main"] = pc["main"] /\ pc'["timer"] = "high"
  BY <1>1 DEF IInv, TypeOK, ReadPoints
<1>3. irq' \in [mtie : BOOLEAN, mie : BOOLEAN]
  BY <1>1 DEF IInv, TypeOK
<1>4. TypeOK'
  BY <1>1, <1>2, <1>3 DEF IInv, TypeOK
<1>5. Frame("main")'
  BY <1>1, <1>2, FrameKept DEF Proc
<1>6. Frame("timer")'
  BY <1>2 DEF Frame
<1>7. Unreachable' /\ Loop'
  BY <1>1, <1>2 DEF IInv, Unreachable, Loop
<1> QED
  BY <1>4, <1>5, <1>6, <1>7 DEF IInv, Proc

\* The type of a frame, and of pc after a step.
Frames == [h : 0 .. UintMax, l : 0 .. UintMax, val : 0 .. UintMax, since : 0 .. MaxTime]

\* A program counter stays one when a process moves to another point.
LEMMA PcTyped ==
  ASSUME TypeOK, NEW p \in Proc, NEW here, NEW next \in ReadPoints, At(p, here, next)
  PROVE  pc' \in [main : {"mtvec", "mie", "mstatus", "up", "down", "test", "done"} \cup ReadPoints,
                  timer : {"idle", "unreachable", "mtimecmpl", "mtimecmph", "enabled"} \cup ReadPoints]
  BY DEF At, TypeOK, Proc

\* A step of mtime() in p that only moves on and writes its own frame.
LEMMA ReadInv ==
  ASSUME IInv, NEW p \in Proc, NEW here \in ReadPoints, NEW next \in ReadPoints, At(p, here, next),
         read' \in [Proc -> Frames], \A q \in Proc : q # p => read'[q] = read[q],
         UNCHANGED <<mtime, mtimecmp, irq, busy, new_mtimecmp, timer_enabled, tohost>>,
         Frame(p)'
  PROVE  IInv'
<1>1. TypeOK /\ mtime \in Nat /\ mtime <= mtime
  BY Constants DEF IInv, TypeOK
<1>2. /\ pc[p] = here /\ pc'[p] = next /\ \A q \in Proc : q # p => pc'[q] = pc[q]
      /\ p = "timer" => pc'.main = pc.main /\ pc'.timer = next /\ pc.timer = here
      /\ p = "main" => pc'.main = next /\ pc'.timer = pc.timer /\ pc.main = here
  BY <1>1, Moved
<1>3. TypeOK'
  BY <1>1, PcTyped DEF TypeOK, Frames
<1>4. ASSUME NEW q \in Proc PROVE Frame(q)'
  <2>1. CASE q # p
    BY <1>1, <1>2, <2>1, FrameKept
  <2> QED
    BY <2>1
<1>5. Unreachable'
  BY <1>2 DEF IInv, Unreachable, ReadPoints, Proc
<1>6. Loop'
  <2>1. CASE p = "main"
    BY <1>2, <2>1 DEF Loop, ReadPoints
  <2>2. CASE p = "timer"
    BY <1>2, <2>2 DEF IInv, Loop, Proc
  <2> QED
    BY <2>1, <2>2 DEF Proc
<1> QED
  BY <1>3, <1>4, <1>5, <1>6 DEF IInv

\* The high word is read at the time that "since" records.
LEMMA ReadHighInv ==
  ASSUME IInv, NEW p \in Proc, ReadHigh(p) PROVE IInv'
<1>1. /\ At(p, "high", "low") /\ read \in [Proc -> Frames] /\ mtime \in 0 .. MaxTime
      /\ read' = [read EXCEPT ![p].h = High(mtime), ![p].since = mtime]
      /\ UNCHANGED <<mtime, mtimecmp, irq, busy, new_mtimecmp, timer_enabled, tohost>>
  BY DEF IInv, TypeOK, ReadHigh, Frames
<1>2. High(mtime) \in 0 .. UintMax
  BY <1>1, Times
<1>3. /\ read' \in [Proc -> Frames] /\ \A q \in Proc : q # p => read'[q] = read[q]
      /\ read'[p].h = High(mtime) /\ read'[p].since = mtime
  BY <1>1, <1>2 DEF Frames
<1>4. pc'[p] = "low"
  BY <1>1, Moved DEF IInv
<1>5. Frame(p)'
  <2>1. mtime <= mtime
    BY <1>1, Constants
  <2> QED
    BY <1>1, <1>3, <1>4, <2>1 DEF Frame
<1> QED
  BY <1>1, <1>3, <1>5, ReadInv DEF ReadPoints

\* The low word is read at some time since then.
LEMMA ReadLowInv ==
  ASSUME IInv, NEW p \in Proc, ReadLow(p) PROVE IInv'
<1>1. /\ At(p, "low", "again") /\ read \in [Proc -> Frames] /\ mtime \in 0 .. MaxTime
      /\ read' = [read EXCEPT ![p].l = Low(mtime)]
      /\ UNCHANGED <<mtime, mtimecmp, irq, busy, new_mtimecmp, timer_enabled, tohost>>
  BY DEF IInv, TypeOK, ReadLow, Frames
<1>2. Low(mtime) \in 0 .. UintMax
  BY <1>1, Times
<1>3. /\ read' \in [Proc -> Frames] /\ \A q \in Proc : q # p => read'[q] = read[q]
      /\ read'[p].l = Low(mtime) /\ read'[p].h = read[p].h /\ read'[p].since = read[p].since
  BY <1>1, <1>2 DEF Frames
<1>4. pc[p] = "low" /\ pc'[p] = "again"
  BY <1>1, Moved DEF IInv
<1>5. /\ read[p].h = High(read[p].since) /\ read[p].since <= mtime
      /\ read[p].since \in Nat /\ mtime \in Nat
  BY <1>1, <1>4, Constants DEF IInv, Frame, Frames
<1>6. mtime \in read[p].since .. mtime
  BY <1>5
<1>7. Frame(p)'
  BY <1>1, <1>3, <1>4, <1>5, <1>6 DEF Frame
<1> QED
  BY <1>1, <1>3, <1>7, ReadInv DEF ReadPoints

\* When the high word is still the same, it was the same all the time, and the
\* two words are those of the time at which the low word was read.
LEMMA ReadAgainInv ==
  ASSUME IInv, NEW p \in Proc, ReadAgain(p) PROVE IInv'
<1>1. /\ read \in [Proc -> Frames] /\ mtime \in 0 .. MaxTime /\ mtime \in Nat /\ TypeOK
      /\ Frame(p) /\ read[p].since \in Nat
  BY Constants DEF IInv, TypeOK, Frames
<1>2. CASE At(p, "again", "high") /\ UNCHANGED <<mtime, mtimecmp, progVars>>
  <2>1. pc'[p] = "high"
    BY <1>1, <1>2, Moved
  <2>2. Frame(p)'
    BY <2>1 DEF Frame
  <2> QED
    BY <1>1, <1>2, <2>2, ReadInv DEF ReadPoints, progVars
<1>3. ASSUME NEW s \in ShiftedByWidth(read[p].h), At(p, "again", "returned"), consistent(p),
             read' = [read EXCEPT ![p].val = or(s, read[p].l)],
             UNCHANGED <<mtime, mtimecmp, irq, busy, new_mtimecmp, timer_enabled, tohost>>
      PROVE  IInv'
  <2>1. pc[p] = "again" /\ pc'[p] = "returned"
    BY <1>1, <1>3, Moved
  <2>2. or(s, read[p].l) \in 0 .. UintMax
    BY OrType
  <2>3. /\ read' \in [Proc -> Frames] /\ \A q \in Proc : q # p => read'[q] = read[q]
        /\ read'[p].l = read[p].l /\ read'[p].h = read[p].h /\ read'[p].since = read[p].since
    BY <1>1, <1>3, <2>2 DEF Frames
  <2>4. PICK m \in read[p].since .. mtime : read[p].l = Low(m)
    BY <1>1, <2>1 DEF Frame
  <2>5. /\ m \in 0 .. MaxTime /\ m \in Nat /\ read[p].since <= m /\ m <= mtime
        /\ read[p].h = High(read[p].since) /\ read[p].h = High(mtime)
    BY <1>1, <1>3, <2>1, <2>4, Constants DEF Frame, consistent
  <2>6. High(read[p].since) <= High(m) /\ High(m) <= High(mtime)
    BY <1>1, <2>5, Constants, MonotonicDivision DEF High
  <2>7. High(m) \in Nat /\ High(mtime) \in Nat /\ m = (High(m) * Base) + Low(m)
    BY <1>1, <2>5, Constants, Times
  <2>8. High(m) = read[p].h
    BY <2>5, <2>6, <2>7
  <2>9. Frame(p)'
    BY <1>3, <2>1, <2>3, <2>4, <2>7, <2>8 DEF Frame
  <2> QED
    BY <1>3, <2>3, <2>9, ReadInv DEF ReadPoints
<1> QED
  BY <1>2, <1>3 DEF ReadAgain

\* A step of the handler after it has the time; main() stays where it is.
LEMMA TimerStep ==
  ASSUME IInv, NEW here, NEW next, At("timer", here, next),
         next \in {"idle", "unreachable", "mtimecmpl", "mtimecmph", "enabled"},
         read' \in [Proc -> Frames], read'["main"] = read["main"],
         irq' \in [mtie : BOOLEAN, mie : BOOLEAN],
         mtimecmp' \in 0 .. (Base * Base - 1), new_mtimecmp' \in 0 .. UintMax,
         timer_enabled' \in {0, 1}, UNCHANGED <<mtime, busy, tohost>>,
         next \in {"mtimecmpl", "mtimecmph"} => UintMax * Base <= mtimecmp'
  PROVE  IInv'
<1>1. TypeOK /\ mtime \in Nat /\ mtime <= mtime
  BY Constants DEF IInv, TypeOK
<1>2. /\ pc'["main"] = pc["main"] /\ pc'["timer"] = next
      /\ pc'.main = pc.main /\ pc'.timer = next
  BY <1>1, Moved DEF Proc
<1>3. pc' \in [main : {"mtvec", "mie", "mstatus", "up", "down", "test", "done"} \cup ReadPoints,
               timer : {"idle", "unreachable", "mtimecmpl", "mtimecmph", "enabled"} \cup ReadPoints]
  BY <1>1 DEF At, TypeOK
<1>4. TypeOK'
  BY <1>1, <1>3 DEF TypeOK, Frames
<1>5. Frame("main")'
  BY <1>1, <1>2, FrameKept DEF Proc
<1>6. Frame("timer")'
  BY <1>2 DEF Frame
<1>7. Unreachable' /\ Loop'
  BY <1>2 DEF IInv, Unreachable, Loop
<1> QED
  BY <1>4, <1>5, <1>6, <1>7 DEF IInv, Proc

\* The handler: the deadline goes out of reach before its low word changes, and
\* comes back with its high word.
LEMMA TimerInv ==
  ASSUME IInv, Timer PROVE IInv'
<1>1. /\ TypeOK /\ read \in [Proc -> Frames] /\ mtimecmp \in 0 .. (Base * Base - 1)
      /\ new_mtimecmp \in 0 .. UintMax /\ timer_enabled \in {0, 1}
      /\ irq \in [mtie : BOOLEAN, mie : BOOLEAN]
  BY DEF IInv, TypeOK, Frames
<1>2. High(mtimecmp) \in 0 .. UintMax /\ Low(mtimecmp) \in 0 .. UintMax
  BY <1>1, Deadlines
<1>3. /\ 0 \in 0 .. UintMax /\ UintMax \in 0 .. UintMax /\ 0 \in 0 .. MaxTime
      /\ Base \in Nat \ {0} /\ UintMax = Base - 1 /\ UintMax * Base \in Nat
  BY Constants
<1>4. ASSUME NEW l \in 0 .. UintMax
      PROVE  /\ (UintMax * Base) + l \in 0 .. (Base * Base - 1)
             /\ UintMax * Base <= (UintMax * Base) + l
  BY <1>3, <1>4, Pairs
<1>5. CASE AddInterval
  <2>1. (read["timer"].val + Interval) % Base \in 0 .. UintMax
    <3>1. read["timer"].val + Interval \in Nat
      BY <1>1, Constants DEF Frames, Proc
    <3> QED
      BY <1>3, <3>1, Division
  <2> QED
    BY <1>1, <1>5, <2>1, TimerStep DEF AddInterval
<1>6. CASE SetUnreachable
  BY <1>1, <1>2, <1>4, <1>6, TimerStep DEF SetUnreachable, progVars
<1>7. CASE SetLow
  <2>1. /\ At("timer", "mtimecmpl", "mtimecmph") /\ UNCHANGED <<mtime, progVars>>
        /\ mtimecmp' = (High(mtimecmp) * Base) + new_mtimecmp
    BY <1>7 DEF SetLow
  <2>2. UintMax * Base <= mtimecmp
    BY <1>1, <2>1, Moved DEF IInv, Unreachable, Proc
  <2>3. High(mtimecmp) = UintMax
    <3>1. mtimecmp \in Nat /\ UintMax * Base \in Nat
      BY <1>1, <1>3
    <3>2. (UintMax * Base) \div Base <= mtimecmp \div Base
      BY <1>3, <2>2, <3>1, MonotonicDivision
    <3>3. High((UintMax * Base) + 0) = UintMax
      BY <1>3, Pairs
    <3>4. (UintMax * Base) \div Base = UintMax
      BY <1>3, <3>3 DEF High
    <3>5. UintMax \in Nat
      BY <1>3
    <3> QED
      BY <1>2, <3>2, <3>4, <3>5 DEF High
  <2> QED
    BY <1>1, <1>4, <2>1, <2>3, TimerStep DEF progVars
<1>8. CASE SetHigh
  <2>1. PICK s \in ShiftedByWidth(new_mtimecmp) : mtimecmp' = (s * Base) + Low(mtimecmp)
    BY <1>8 DEF SetHigh
  <2>2. s \in 0 .. UintMax
    BY <1>1, <1>3 DEF ShiftedByWidth
  <2>3. mtimecmp' \in 0 .. (Base * Base - 1)
    BY <1>2, <2>1, <2>2, Pairs
  <2> QED
    BY <1>1, <1>8, <2>3, TimerStep DEF SetHigh, progVars
<1>9. CASE Enabled
  <2>1. NoFrame \in Frames
    BY <1>3 DEF NoFrame, Frames
  <2>2. read' \in [Proc -> Frames] /\ read'["main"] = read["main"]
    BY <1>1, <1>9, <2>1 DEF Enabled, Proc
  <2>3. irq' \in [mtie : BOOLEAN, mie : BOOLEAN]
    BY <1>1, <1>9 DEF Enabled
  <2> QED
    BY <1>1, <1>3, <1>9, <2>2, <2>3, TimerStep DEF Enabled
<1> QED
  BY <1>5, <1>6, <1>7, <1>8, <1>9 DEF Timer

\* A step of main() outside mtime().
LEMMA MainStep ==
  ASSUME IInv, NEW here, NEW next, At("main", here, next),
         next \in {"mie", "mstatus", "up", "down", "test", "done", "high", "returned"},
         next = "returned" => read["main"] = NoFrame,
         irq' \in [mtie : BOOLEAN, mie : BOOLEAN], busy' \in [i : 0 .. Busy, calls : 0 .. 2],
         tohost' \in 0 .. UintMax,
         UNCHANGED <<mtime, mtimecmp, read, new_mtimecmp, timer_enabled>>,
         Loop'
  PROVE  IInv'
<1>1. TypeOK /\ mtime \in Nat /\ mtime <= mtime
  BY Constants DEF IInv, TypeOK
<1>2. /\ pc'["timer"] = pc["timer"] /\ pc'["main"] = next
      /\ pc'.timer = pc.timer /\ pc'.main = next
  BY <1>1, Moved DEF Proc
<1>3. pc' \in [main : {"mtvec", "mie", "mstatus", "up", "down", "test", "done"} \cup ReadPoints,
               timer : {"idle", "unreachable", "mtimecmpl", "mtimecmph", "enabled"} \cup ReadPoints]
  BY <1>1 DEF At, TypeOK, ReadPoints
<1>4. TypeOK'
  BY <1>1, <1>3 DEF TypeOK
<1>5. Frame("timer")'
  BY <1>1, <1>2, FrameKept DEF Proc
<1>6. Frame("main")'
  <2>1. CASE next # "returned"
    BY <1>2, <2>1 DEF Frame
  <2>2. CASE next = "returned"
    <3>1. read["main"].h = 0 /\ read["main"].l = 0 /\ read["main"].since = 0
      BY <2>2 DEF NoFrame
    <3>2. (0 * Base) + 0 \in 0 .. mtime
      BY <1>1, Constants
    <3> QED
      BY <1>2, <2>2, <3>1, <3>2 DEF Frame
  <2> QED
    BY <2>1, <2>2
<1>7. Unreachable'
  BY <1>2 DEF IInv, Unreachable
<1> QED
  BY <1>4, <1>5, <1>6, <1>7 DEF IInv, Proc

\* main(): the loop of busy1337 keeps its counter in range.
LEMMA MainInv ==
  ASSUME IInv, Main PROVE IInv'
<1>1. /\ TypeOK /\ Loop /\ read \in [Proc -> Frames]
      /\ irq \in [mtie : BOOLEAN, mie : BOOLEAN] /\ busy \in [i : 0 .. Busy, calls : 0 .. 2]
      /\ tohost \in 0 .. UintMax /\ Busy \in Nat \ {0}
  BY Constants DEF IInv, TypeOK, Frames
<1>2. CASE Install
  <2>1. pc.main = "mtvec" /\ pc'.main = "mie"
    BY <1>1, <1>2, Moved DEF Install, Proc
  <2>2. Loop'
    BY <1>1, <1>2, <2>1 DEF Loop, Install, progVars
  <2> QED
    BY <1>1, <1>2, <2>2, MainStep DEF Install, progVars
<1>3. CASE EnableTimer
  <2>1. pc.main = "mie" /\ pc'.main = "mstatus"
    BY <1>1, <1>3, Moved DEF EnableTimer, Proc
  <2>2. Loop'
    BY <1>1, <1>3, <2>1 DEF Loop, EnableTimer
  <2>3. irq' \in [mtie : BOOLEAN, mie : BOOLEAN]
    BY <1>1, <1>3 DEF EnableTimer
  <2> QED
    BY <1>1, <1>3, <2>2, <2>3, MainStep DEF EnableTimer
<1>4. CASE EnableInterrupts
  <2>1. pc.main = "mstatus" /\ pc'.main = "up"
    BY <1>1, <1>4, Moved DEF EnableInterrupts, Proc
  <2>2. Loop'
    BY <1>1, <1>4, <2>1 DEF Loop, EnableInterrupts
  <2>3. irq' \in [mtie : BOOLEAN, mie : BOOLEAN]
    BY <1>1, <1>4 DEF EnableInterrupts
  <2> QED
    BY <1>1, <1>4, <2>2, <2>3, MainStep DEF EnableInterrupts
<1>5. CASE Up
  <2> DEFINE next == IF busy.i + 1 < Busy THEN "up" ELSE "down"
  <2>1. /\ At("main", "up", next) /\ busy' = [busy EXCEPT !.i = @ + 1]
        /\ UNCHANGED <<mtime, mtimecmp, read, irq, new_mtimecmp, timer_enabled, tohost>>
    BY <1>5 DEF Up
  <2>2. next \in {"up", "down"}
    OBVIOUS
  <2>3. pc.main = "up" /\ pc'.main = next
    BY <1>1, <2>1, Moved DEF Proc
  <2>4. busy.i < Busy /\ busy.calls > 0 /\ read["main"] = NoFrame /\ busy.i \in Nat
    BY <1>1, <2>3 DEF Loop
  <2>5. busy' \in [i : 0 .. Busy, calls : 0 .. 2] /\ busy'.i = busy.i + 1 /\ busy'.calls = busy.calls
    BY <1>1, <2>1, <2>4
  <2>6. (busy.i + 1 < Busy /\ next = "up") \/ next = "down"
    OBVIOUS
  <2> HIDE DEF next
  <2>7. Loop'
    BY <2>1, <2>2, <2>3, <2>4, <2>5, <2>6 DEF Loop
  <2> QED
    BY <1>1, <2>1, <2>2, <2>5, <2>7, MainStep
<1>6. CASE Down
  <2> DEFINE next == IF busy.i - 1 > 0 THEN "down" ELSE IF busy.calls > 1 THEN "up" ELSE "test"
  <2>1. /\ At("main", "down", next)
        /\ busy' = IF busy.i - 1 > 0 THEN [busy EXCEPT !.i = @ - 1]
                   ELSE [i |-> 0, calls |-> busy.calls - 1]
        /\ UNCHANGED <<mtime, mtimecmp, read, irq, new_mtimecmp, timer_enabled, tohost>>
    BY <1>6 DEF Down
  <2>2. next \in {"up", "down", "test"}
    OBVIOUS
  <2>3. pc.main = "down" /\ pc'.main = next
    BY <1>1, <2>1, Moved DEF Proc
  <2>4. busy.i > 0 /\ busy.calls > 0 /\ read["main"] = NoFrame /\ busy.i \in 0 .. Busy /\ busy.calls \in 0 .. 2
    BY <1>1, <2>3 DEF Loop
  <2>5. busy' \in [i : 0 .. Busy, calls : 0 .. 2]
    <3>1. CASE busy.i - 1 > 0
      BY <1>1, <2>1, <2>4, <3>1
    <3>2. CASE ~(busy.i - 1 > 0)
      BY <1>1, <2>1, <2>4, <3>2
    <3> QED
      BY <3>1, <3>2
  <2>6. /\ next = "down" => busy'.i > 0 /\ busy'.calls > 0
        /\ next = "up" => busy'.i < Busy /\ busy'.calls > 0
    <3>1. CASE busy.i - 1 > 0
      BY <1>1, <2>1, <2>4, <3>1
    <3>2. CASE ~(busy.i - 1 > 0)
      BY <1>1, <2>1, <2>4, <3>2
    <3> QED
      BY <3>1, <3>2
  <2> HIDE DEF next
  <2>7. Loop'
    BY <2>1, <2>2, <2>3, <2>4, <2>6 DEF Loop
  <2> QED
    BY <1>1, <2>1, <2>2, <2>5, <2>7, MainStep
<1>7. CASE TestEnabled
  <2> DEFINE next == IF timer_enabled = 1 THEN "high" ELSE "returned"
  <2>1. At("main", "test", next) /\ UNCHANGED <<mtime, mtimecmp, progVars>>
    BY <1>7 DEF TestEnabled
  <2>2. next \in {"high", "returned"}
    OBVIOUS
  <2> HIDE DEF next
  <2>3. pc.main = "test" /\ pc'.main = next
    BY <1>1, <2>1, Moved DEF Proc
  <2>4. read["main"] = NoFrame
    BY <1>1, <2>3 DEF Loop
  <2>5. Loop'
    BY <2>2, <2>3 DEF Loop
  <2> QED
    BY <1>1, <2>1, <2>2, <2>4, <2>5, MainStep DEF progVars
<1>8. CASE Exit
  <2>1. pc'.main = "done"
    BY <1>1, <1>8, Moved DEF Exit, Proc
  <2>2. Loop' /\ read["main"].val \in 0 .. UintMax
    BY <1>1, <2>1 DEF Loop, Frames, Proc
  <2> QED
    BY <1>1, <1>8, <2>2, MainStep DEF Exit
<1> QED
  BY <1>2, <1>3, <1>4, <1>5, <1>6, <1>7, <1>8 DEF Main

-----------------------------------------------------------------------------
(* Theorems.                                                               *)

\* Every step keeps the invariant.
LEMMA NextInv == IInv /\ [Next]_vars => IInv'
<1> SUFFICES ASSUME IInv, [Next]_vars PROVE IInv'
  OBVIOUS
<1>1. CASE UNCHANGED vars
  BY <1>1 DEF vars, progVars, IInv, TypeOK, Frame, Unreachable, Loop
<1>2. CASE Next
  BY <1>2, CountInv, InterruptInv, TimerInv, MainInv, ReadHighInv, ReadLowInv, ReadAgainInv
     DEF Next, ReadTime
<1> QED
  BY <1>1, <1>2

\* The invariant holds in every behaviour of the program.
THEOREM ProgramInvariant == Spec => []IInv
  BY InitInv, NextInv, PTL DEF Spec

\* Every result that timer.c keeps in a word fits in one, and the device keeps
\* 64 bits: the loops of busy1337 never leave their range.
THEOREM ProgramTypeCorrect == Spec => []TypeOK
<1>1. IInv => TypeOK
  BY DEF IInv
<1> QED
  BY <1>1, ProgramInvariant, PTL

\* mtime() of timer.c: whenever its loop ends, in main() or in the handler, the
\* two words are a value that the counter had during the call, whatever the
\* width of a word and however often the low word wraps between two accesses.
THEOREM ProgramPairConsistent == Spec => []PairConsistent
<1>1. IInv => PairConsistent
  BY DEF IInv, Frame, PairConsistent
<1> QED
  BY <1>1, ProgramInvariant, PTL

\* The three writes of the deadline in timer(): between the first and the last
\* of them the timer is never due, wherever the counter is.
THEOREM ProgramNoSpuriousMatch == Spec => []NoSpuriousMatch
<1>1. IInv => NoSpuriousMatch
  <2> SUFFICES ASSUME IInv, pc.timer \in {"mtimecmpl", "mtimecmph"} PROVE mtime <= mtimecmp
    BY DEF NoSpuriousMatch
  <2>1. UintMax * Base <= mtimecmp /\ mtime \in 0 .. MaxTime /\ mtimecmp \in 0 .. (Base * Base - 1)
    BY DEF IInv, Unreachable, TypeOK
  <2>2. UintMax * Base \in Nat /\ Base * Base \in Nat
    BY Constants
  <2> QED
    BY <2>1, <2>2, Constants
<1> QED
  BY <1>1, ProgramInvariant, PTL
=============================================================================
