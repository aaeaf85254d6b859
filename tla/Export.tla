------------------------------- MODULE Export -------------------------------
(***************************************************************************)
(* What run() lets out of a simulation: after each step() it logs the      *)
(* staged changes of both register files and collects the decoded          *)
(* instruction for the JSON file, then it calls commit().  The log is      *)
(* represented by the register files a reader rebuilds from it, the JSON   *)
(* array by its last element.                                              *)
(***************************************************************************)
EXTENDS Hart

VARIABLES
  logged,      \* the register files that the log leads to
  exported,    \* the names in the last element of state_export
  saved,       \* whether the JSON file is written and the exit code reported
  unlogged     \* history: CSRs changed by commit() and not logged since

exportVars == <<logged, exported, saved, unlogged>>

ExportInit ==
  /\ Init
  /\ logged = [x |-> hart.x, csrs |-> hart.csrs]
  /\ exported = {} /\ saved = FALSE /\ unlogged = {}

\* The last change of register i.
LastChange(changes, i) ==
  CHOOSE k \in Positions(changes, i) : \A j \in Positions(changes, i) : j <= k

\* Mutant of log_changes: the values are passed in the wrong order.
log_changes_Swapped(f, changes) ==
  [i \in DOMAIN f |->
     IF Positions(changes, i) = {} THEN f[i] ELSE changes[LastChange(changes, i)].prev]

\* Each change is logged as index, old and new value: the last one counts.
log_changes(f, changes) ==
  [i \in DOMAIN f |->
     IF Positions(changes, i) = {} THEN f[i] ELSE changes[LastChange(changes, i)].next]

\* The members of op that the JSON macros name.
OpFields == {"imm", "opt", "tgt", "rd", "rs1", "rs2", "has_imm", "use_pc", "is_compressed"}

\* The body of the loop up to commit(): only state.dec, an op, is exported.
StepAndLog ==
  /\ step
  /\ logged' = [x    |-> log_changes(logged.x, hart'.gpr_staged),
                csrs |-> log_changes(logged.csrs, hart'.csr_staged)]
  /\ exported' = OpFields
  /\ unlogged' = unlogged \ {hart'.csr_staged[i].index : i \in DOMAIN hart'.csr_staged}
  /\ UNCHANGED saved

Commit ==
  /\ commit
  /\ unlogged' = unlogged \cup {c \in Csrs : hart'.csrs[c] # hart.csrs[c]}
  /\ UNCHANGED <<logged, exported, saved>>

Halt == halt /\ UNCHANGED exportVars

\* After the loop: the JSON file, then the exit code from tohost.
Save ==
  /\ at = "halted" /\ ~saved
  /\ saved' = TRUE
  /\ UNCHANGED <<vars, logged, exported, unlogged>>

ExportTick == Tick /\ UNCHANGED exportVars

ExportNext == StepAndLog \/ Commit \/ Halt \/ Save \/ ExportTick

ExportSpec == ExportInit /\ [][ExportNext]_<<vars, exportVars>>

-----------------------------------------------------------------------------
(* Properties.                                                             *)

\* The log is complete: replaying it gives the registers of the hart at every
\* moment, and its CSRs except those that an interrupt in commit() changed
\* ("interrupts will not be exported") and no instruction has written since:
\* the pending and status bits and the trap CSRs of a mode, never a vector or
\* an enable.
LogReplays ==
  /\ \A r \in Regs \ {0} : logged.x[r] = hart.x[r]
  /\ \A c \in Csrs \ unlogged : logged.csrs[c] = hart.csrs[c]
  /\ unlogged \subseteq {mip, mstatus} \cup
       {priv_csr(m, c) : m \in Privilege, c \in {ucause, utval, uepc}}

\* The JSON file "exports hart-state": an element has the fields that
\* json_export_helpers.hpp lists for hart_state.
JsonHoldsState ==
  saved /\ exported # {} => {"pc", "instr", "dec", "gpr_staged", "csr_staged"} \subseteq exported
=============================================================================
