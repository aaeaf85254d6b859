----------------------------- MODULE Simulator -----------------------------
(***************************************************************************)
(* The whole process with --timer: the main thread, which runs the loop of *)
(* run() and then destroys what it created, and the timer thread, which    *)
(* shares the mtime atomics with the hart's byte accesses.                 *)
(***************************************************************************)
EXTENDS Hart

VARIABLES runner, is_exiting, main, late

Timer == INSTANCE MtiSource

timerVars == <<runner, is_exiting, main, late>>
hartVars  == <<page, mtimecmp, hart, at, handling>>
simVars   == <<vars, timerVars>>

\* With --timer the thread is created after the model has loaded its program.
SimInit ==
  /\ mti_enabled /\ Init
  /\ runner = "test" /\ is_exiting = FALSE /\ main = "running" /\ late = 0

\* The loop of run().
Run == (step \/ commit \/ halt) /\ UNCHANGED timerVars

\* At the end of run() the destructors are called: set_exiting() first.
Exit == at = "halted" /\ Timer!StoreExiting /\ UNCHANGED hartVars
Stop == (Timer!Notify \/ Timer!Join) /\ UNCHANGED hartVars

RunnerStep ==
  (Timer!Test \/ Timer!Increment \/ Timer!Pred \/ Timer!Block) /\ UNCHANGED hartVars

\* Bound: the interval is so long that it passes MaxTicks - 1 times at most
\* before the main thread asks the timer to stop.
Elapse ==
  /\ ToNat(mtime[0]) < MaxTicks \/ is_exiting
  /\ Timer!Timeout
  /\ UNCHANGED hartVars

Wakeup == Timer!SpuriousWakeup /\ UNCHANGED hartVars

SimNext == Run \/ Exit \/ Stop \/ RunnerStep \/ Elapse \/ Wakeup

\* Both threads are scheduled, and a wait ends when its time is over.
SimSpec ==
  /\ SimInit /\ [][SimNext]_simVars
  /\ WF_at(Advance) /\ WF_simVars(Exit) /\ WF_simVars(Stop)
  /\ WF_simVars(RunnerStep) /\ SF_simVars(Elapse)

-----------------------------------------------------------------------------
(* Properties.                                                             *)

\* The process is a hart whose mtime is incremented now and then: nothing else
\* that the timer thread does is visible to the program, and the threads'
\* shutdown does not disturb the finished hart.
ImplementsHart == Spec

\* A program that is done ends the process: the loop is left, the timer thread
\* is joined and the router destroyed.
ProcessEnds == hart.is_done ~> main = "destroyed"

\* The timer interrupt is delivered: when the mtime register has passed
\* mtimecmp and the program has enabled the interrupt, it is taken.
TimerInterrupts ==
  ( /\ Below(mtimecmp[0], mtime[0]) /\ \A i \in 1 .. 7 : mtime[i] = mtimecmp[i]
    /\ TimerIrq \in hart.csrs[mie] /\ MIE \in hart.csrs[mstatus]
    /\ ~hart.is_done ) ~> (handling \/ hart.is_done)
=============================================================================
