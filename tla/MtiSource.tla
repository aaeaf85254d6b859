----------------------------- MODULE MtiSource -----------------------------
(***************************************************************************)
(* mti_source: the thread that increments the first mtime byte every       *)
(* interval, and the main thread that stops it.  set_exiting() stores the  *)
(* flag and notifies without holding the mutex, so the notification may    *)
(* fall between the runner's test of the flag and its wait; only the       *)
(* timeout of wait_for then ends the wait.  The mutex is never contended   *)
(* (nobody else locks it) and is left out.  pending_interrupt, the other   *)
(* reason to leave the loop, is set by a signal handler that main.cpp      *)
(* never installs.                                                         *)
(***************************************************************************)
EXTENDS Words

VARIABLES
  mtime,         \* the router's eight atomics
  runner,        \* what the runner thread does next
  is_exiting,
  main,          \* the main thread: "running", then in set_exiting(), then
                 \* "destroyed": the router, and mtime with it, is gone
  late           \* history: increments after is_exiting was stored

vars == <<mtime, runner, is_exiting, main, late>>

RunnerAt == {"test", "tick", "pred", "block", "asleep", "done"}
MainAt   == {"running", "notify", "join", "destroyed"}

Init ==
  /\ mtime = [i \in 0 .. 7 |-> {}]
  /\ runner = "test"
  /\ is_exiting = FALSE
  /\ main = "running"
  /\ late = 0

-----------------------------------------------------------------------------
(* The runner thread.                                                      *)

\* Mutant of Test: only pending_interrupt ends the loop.
Test_SignalOnly ==
  /\ runner = "test"
  /\ runner' = "tick"
  /\ UNCHANGED <<mtime, is_exiting, main, late>>

\* while (!(is_exiting || pending_interrupt))
Test ==
  /\ runner = "test"
  /\ runner' = IF is_exiting THEN "done" ELSE "tick"
  /\ UNCHANGED <<mtime, is_exiting, main, late>>

\* Mutant of Increment: every byte of the register is incremented.
Increment_AllBytes ==
  /\ runner = "tick"
  /\ mtime' = [i \in 0 .. 7 |-> FetchAdd(mtime[i])]
  /\ runner' = "pred"
  /\ late' = IF is_exiting THEN late + 1 ELSE late
  /\ UNCHANGED <<is_exiting, main>>

\* mtime.at(0).fetch_add(1)
Increment ==
  /\ runner = "tick"
  /\ mtime' = [mtime EXCEPT ![0] = FetchAdd(@)]
  /\ runner' = "pred"
  /\ late' = IF is_exiting THEN late + 1 ELSE late
  /\ UNCHANGED <<is_exiting, main>>

\* wait_for(lck, interval, pred): the predicate is tested before each wait.
Pred ==
  /\ runner = "pred"
  /\ runner' = IF is_exiting THEN "test" ELSE "block"
  /\ UNCHANGED <<mtime, is_exiting, main, late>>

Block ==
  /\ runner = "block"
  /\ runner' = "asleep"
  /\ UNCHANGED <<mtime, is_exiting, main, late>>

\* A condition variable may wake up for no reason.
SpuriousWakeup ==
  /\ runner = "asleep"
  /\ runner' = "pred"
  /\ UNCHANGED <<mtime, is_exiting, main, late>>

\* Mutants of Timeout: an untimed wait, and a loop that is left after one wait.
Timeout_Untimed == FALSE /\ UNCHANGED vars

Timeout_Once ==
  /\ runner = "asleep"
  /\ runner' = "done"
  /\ UNCHANGED <<mtime, is_exiting, main, late>>

\* After a timeout wait_for returns whatever the predicate says.
Timeout ==
  /\ runner = "asleep"
  /\ runner' = "test"
  /\ UNCHANGED <<mtime, is_exiting, main, late>>

-----------------------------------------------------------------------------
(* The main thread: ~mti_source() calls set_exiting(true).                 *)

StoreExiting ==
  /\ main = "running"
  /\ is_exiting' = TRUE
  /\ main' = "notify"
  /\ UNCHANGED <<mtime, runner, late>>

\* cond.notify_one() reaches the runner only if it is waiting already.
Notify ==
  /\ main = "notify"
  /\ runner' = IF runner = "asleep" THEN "pred" ELSE runner
  /\ main' = "join"
  /\ UNCHANGED <<mtime, is_exiting, late>>

\* Mutant of Join: the thread is detached.
Join_Detached ==
  /\ main = "join"
  /\ main' = "destroyed"
  /\ UNCHANGED <<mtime, runner, is_exiting, late>>

\* t.join() returns; run() goes on to destroy the model and the router.
Join ==
  /\ main = "join"
  /\ runner = "done"
  /\ main' = "destroyed"
  /\ UNCHANGED <<mtime, runner, is_exiting, late>>

Runner == Test \/ Increment \/ Pred \/ Block \/ SpuriousWakeup \/ Timeout

Next == Runner \/ StoreExiting \/ Notify \/ Join

\* The scheduler runs both threads, and a wait that is not notified times out.
Fairness ==
  /\ WF_vars(Test \/ Increment \/ Pred \/ Block)
  /\ SF_vars(Timeout)
  /\ WF_vars(Notify \/ Join)

Spec == Init /\ [][Next]_vars /\ Fairness

-----------------------------------------------------------------------------
(* Properties.                                                             *)

\* Every atomic is a byte, and both threads are at one of their program points.
TypeOK ==
  /\ mtime \in [0 .. 7 -> Byte]
  /\ runner \in RunnerAt
  /\ is_exiting \in BOOLEAN
  /\ main \in MainAt
  /\ late \in Nat

\* The runner holds a reference to the router's atomics: it never increments
\* them once the main thread may have destroyed the router.
NoDanglingIncrement == main = "destroyed" => runner = "done"

\* A stop takes effect at the next test of the flag: at most one increment,
\* already decided, still happens after it.
AtMostOneLateTick ==
  late <= 1 /\ (late = 1 => is_exiting /\ runner # "tick")

\* ~mti_source() returns: the join is not held up for ever by a notification
\* that came before the wait.
StopTerminates == is_exiting ~> main = "destroyed"

\* The timer keeps counting until it is stopped.
KeepsTicking == []<>(runner = "tick" \/ is_exiting)

\* The 64-bit register is incremented by the timer: its value, byte 0 being
\* the least significant, never decreases.
MtimeMonotone ==
  [][\A i \in 0 .. 7 : ToNat(mtime'[i]) < ToNat(mtime[i]) =>
       \E j \in (i + 1) .. 7 : ToNat(mtime'[j]) > ToNat(mtime[j])]_vars
=============================================================================
