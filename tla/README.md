# A formal model of riscv32-sim

TLA+ modules for the instruction set simulator under `riscv32-sim/`: the memory
and its address router, the arithmetic, the hart with its traps and interrupts,
the timer thread, and the process that puts them together; around them the
loader, the trace output, the TCP server, and the test program that drives the
timer. TLC checks small instances; TLAPS proves every safety property that the
runs check, for every value of the constants.

## The system

`run()` in `main.cpp` creates a sparse memory, an address router over it, a
loader that copies an ELF file into it, the hart (`iss::model`) and, with
`--timer`, a thread that increments `mtime`. It then calls `step()` and
`commit()` until the hart is done, reports the word at `tohost` and destroys
everything in reverse order.

| component | state | operations | interacts with |
|---|---|---|---|
| memory, `address_router` | page map; eight atomics each for mtime and mtimecmp | read/write of 8, 16, 32, 64 bits; bulk write | called by hart and loader; the atomics are shared with the timer thread |
| arithmetic | none | `do_alu`, `should_branch`, `mulh*` | called by the hart |
| hart, `iss::model` | pc pair, mode, registers, CSRs, staged changes, `is_done` | `step`, `commit` | memory, decoder, options |
| CSR file, privilege mode | 4096 words; two bits | read, write, `can_read`, `can_write`, `priv_csr` | part of the hart |
| timer, `mti_source` | thread, `is_exiting`, condition variable | runner loop, `set_exiting` | increments the router's atomics |
| run loop | position in the loop | loop test, step, log, commit, destructors | all of the above |
| loader | ELF reader | load segments, `symbol`, `entry`, `progbit_ranges` | bulk write of memory |
| TCP server | sessions, thread pool | accept, echo, stop on a signal | none (runs before the simulation) |
| JSON and text output | none | conversions | reads the hart's staged changes |
| timer test program | `timer_enabled`, locals of `main` and of the handler | `mtime()`, `timer()`, `main()` | runs on the simulator, accesses the timer's registers |

What is hard here, and what correctness means for each part:

- *Memory.* Accesses are split into bytes that may fall into different pages,
  into pages that do not exist yet, or past the last address. Correct: the
  hart cannot tell the pages from one array of bytes. The router adds a second
  storage for sixteen addresses, which only byte accesses reach.
- *Arithmetic.* Edge cases: products of negative numbers, the least integer,
  division by zero. Correct: exact against ordinary integer arithmetic.
- *Hart.* Long sequences of traps, mode changes and interrupts over a few bits
  of `mstatus`. Correct: traps are precise, a lower mode cannot change the CSRs
  of a higher one, a handler's interrupt state survives an exception, the log of
  changes is complete, an exit is reported and is final.
- *Timer thread.* A notification without the mutex, a shared reference at
  shutdown. Correct: the thread ticks until stopped, stops, and never touches
  freed memory.
- *Loader.* Whole page tails are copied whatever the size of a segment. Correct:
  every byte of every segment is in memory, no other page exists, what is
  executable is exactly the executable sections, every bad file is refused, and
  memory behind a segment's data is read only where the segment ends inside a page.
- *TCP server.* Sessions without locks on a pool of threads, errors and signals
  at any moment. Correct: at most one thread deals with a session, bytes come
  back in order, the server never goes deaf, and a signal ends it.
- *Output.* Correct: the log leads to the state of the hart, the names and codes
  tell all operations and causes apart, and what is exported can be read.
- *Timer program.* Two-word accesses to a running 64-bit counter. Correct: the
  pair read is a value the counter had, and the deadline is never in the past
  while it is being moved.
- *Process.* The hart sees nothing of the thread but the increments, and a
  program that is done ends the process.

`PROJECT.json` lists each hazard at its line with the properties aimed at it.

## Modules

    Words ── AddressRouter ── MemoryBus ── MCMemory      (MemoryBus implements FlatMemory)
      │            ├── Loader ── MCLoader
      │            └───┐
      ├── Alu ── Hart ─┴── MCHart ─────────────────┐
      │    │         ├──── Export ──────── MCExport┘
      │    │         └──── Simulator ── MCSimulator      (Simulator implements Hart)
      │    └── MCPure ── TraceCodec    │
      ├── MtiSource ───────────────────┘
      └── TimerProgram
    IpcServer

    WordProofs ── RouterProofs ── MemoryProofs                      (MemoryBus, Loader)
      │               └────────── HartProofs                        (Hart, Export, Simulator)
      ├── ArithmeticProofs                                          (MCPure)
      └── TimerProgramProofs
    MtiProofs, ServerProofs

**Words.** An unsigned integer is the set of its one bits, so masks and bit
fields are set operations and facts about them are provable. `XLEN` is 32 in the
code; a byte is a quarter of a word, so the byte algorithms keep their shape
with smaller words. `Plus`, `Add` and `FetchAdd` wrap at their width.

**AddressRouter.** `page`, `mtime` and `mtimecmp` are the fields of
`address_router`. `SparseRead*`/`SparseWrite*` are the members of
`sparse_memory_accessor`, applied to a page map; `read8`/`write8` are the
router's overrides with the two windows. The wider accesses of the router are
inherited, and the `read8` they call is the accessor's (the call is neither
virtual nor qualified with `this`), so `read16`, `read32` and `read64` use the
pages at every address.

**MemoryBus** drives that interface: one action per access width and direction,
and the timer's increment at any moment. **FlatMemory** is the specification it
implements: one array of bytes, little-endian, zero until written, wrapping at
the top. Its byte accesses at the device addresses return any byte and leave the
array alone. The refinement maps `flat` to what the page map holds at every
address.

**Alu.** `do_alu`, `should_branch` and `arith.hpp`. `mulhu` works from half-word
products with every intermediate cut to its C++ width. Signed overflow and shift
counts of `XLEN` or more are undefined in C++; the model has what the x86-64
build does (wrap, count modulo `XLEN`).

**Hart.** The record `hart` is `cur_state` with both register files, the mode
and `is_done`. The functions of `model.cpp` transform a record one after the
other, under their own names; an action is a whole `step()` (fetch, `pc_next`,
pc check, one of nine `exec` targets) or a whole `commit()` (pc update, timer
interrupt, clearing of the staged changes). `halt` leaves the loop; `Tick` is the
timer thread. `at` is the position in the loop. `handling` is a history variable
that no guard reads. The decoder is an empty submodule: `decode` and `decode16`
are constant operators, required only to return ops that `exec` accepts
(`DecodeAssumption`: no `std::get` throws, no index out of range).
`allowed_pcs`, `entry`, `tohost_addr` and `Images` are the loader's results.

**MtiSource.** The runner's program points are the loop test, the increment, the
predicate, the instant before the wait, and the wait; the main thread's are the
three statements of `set_exiting()`. A notification wakes a thread that waits and
is lost otherwise. The mutex has one user and is left out. `pending_interrupt`
is never set: `register_signals()` is not called.

**Simulator** composes Hart with `Timer == INSTANCE MtiSource`, which share
`mtime`. `Exit` is the start of the destructors after the loop.

**Loader.** `file` is what ELFIO's reader answers. `stage` follows `run()` from the
constructor of `loader` to that of `iss::model`; `seg` is the position in the
segments; `virt_addr`, `ptr` and `size_in_bytes` are the locals of the bulk
`write()`, one iteration of which is `WritePage`. It copies up to the end of the
page, so beyond the end of the data it reads whatever lies there (`Junk`) or
fails (`crashed`).

**Export** adds to Hart what `run()` lets out: `StepAndLog` is the loop's body up
to `commit()`. `logged` is the state that a reader rebuilds from the log. The
CSRs that an interrupt in `commit()` writes are not logged ("interrupts will not
be exported"); the history variable `unlogged` names them.

**TraceCodec** has the codec of `op_type`, the change records and the names in the
log. `If` and `assigned` follow `from_json`, which changes its number between
its tests and ends in a throw whatever it has assigned.

**IpcServer.** `main` is `run()`'s position, `pool` and `job` the threads inside
`io_context::run()`. asio is external: `queue` holds completions in order, any
idle thread takes the first, `stop()` leaves the rest uncalled. A handler is one
action, except for the one of `async_accept`, whose two calls are two, for the
new session can be served in between. Reads and writes are partial. A signal
that is not registered yet kills the process. `server::handle_accept()` is never
called and is left out.

**TimerProgram.** `timer.c` statement by statement, one volatile access per
action, for `main()` and for the handler that may interrupt it anywhere; the
counter runs in between. Times are numbers here, a word is a number below
`2^XLEN`. The device is the one the program's comments describe; that the
simulator's device differs is shown by the timer run and by `CrossbarCoherent` and
`MtimeMonotone` (see the deviations).

Some definitions are preceded by a mutant, a variant with a plausible mistake
(suffix after an underscore). `PROJECT.json` says which property must fail when
the mutant takes the definition's place; the modules never use them otherwise.

## Runs

`tlc -workers 2 -config X.cfg M` in this directory.

| run | config, module | checks | result |
|---|---|---|---|
| memory | MCMemory, MCMemory | `ImplementsFlatMemory`, `WindowServed` | hold |
| pure | MCPure, MCPure | `MulHighExact`, `DivRemExact`, `ComparesExact`, `ShiftsExact`, `CodesDecode`, `NamesUnique` | hold |
| hart | MCExport, MCExport | `TypeOK`, `CleanStart`, `PreciseTrap`, `HandlerMasked`, `ExitReport`, `FaultLogged`, `LogReplays`, `TraceFaithful`, `PrivilegeIsolation`, `DoneIsFinal`, `NoStaleInterrupt` | hold |
| mti | MtiSource, MtiSource | `NoDanglingIncrement`, `AtMostOneLateTick`, `StopTerminates`, `KeepsTicking` | hold |
| simulator | MCSimulator, MCSimulator | `ImplementsHart`, `ProcessEnds` | hold |
| loader | MCLoader, MCLoader | `LoadTypeOK`, `SegmentsLoaded`, `Footprint`, `OverreadExplained`, `ExecutableExact`, `LoadEnds` | hold |
| server | IpcServer, IpcServer | `TypeOK`, `EchoFaithful`, `OneOwner`, `AlwaysAccepting`, `ServerEnds`, `EchoCompletes` | hold |
| timer_program | TimerProgram, TimerProgram | `TypeOK`, `PairConsistent`, `NoSpuriousMatch` | hold |
| timer | MCTimer, MCSimulator | `TimerInterrupts` | violated |
| privilege | MCPrivilege, MCHart | `TrapSavesPrivilege` | violated |
| resume | MCResume, MCHart | `InterruptResumes` | violated |
| csrclear | MCCsrClears, MCHart | `CsrClears` | violated |

**Bounds.** *memory*: 8-bit addresses, 2-bit bytes, 4-byte pages. The three
addresses make half words that cross a page and wrap to 0, and accesses that
overlap; one of them is the first byte of the mtime window and one the last of
mtimecmp's. The one stored value has no two equal neighbouring bytes, so a
misplaced byte shows. *pure*: all pairs of 8-bit words; 8 bits are two half words
of 4, which exercises every partial product and carry of `mulhu`, and every shift
count, valid or not; every enumerator
and cause, with registers from both ends of their ranges. *hart*: 16-bit
words of four 4-bit bytes, 16-byte pages, four registers (x0, x1, a0, a7), the
trap CSRs of all four modes, the interrupt CSRs and one read-only CSR. A program
sets up the trap vector and the timer, with three free slots and a choice of timer
handler. The first slot is an ecall, an `mret`, a write of `mepc`, nothing, or an
illegal instruction, after whose handler the program goes on in user mode; the second
and third are any of nineteen instructions, or in the second a store that takes
the timer back, before and after interrupts are
enabled; the handler moves the timer or runs into an exception. `tohost` straddles a page boundary. Programs end
in an exit call, in a store to `tohost`, or in a loop, which is why deadlock is
not checked. `MaxTicks` bounds the timer to one increment, which can fall
between any two steps. *mti*: 4-bit bytes, so the byte wraps after sixteen
ticks; the counter is otherwise unbounded. *simulator*: three short programs that
read or write the register the thread increments; at most three intervals pass before
the stop. *loader*: 8-bit addresses, 4-byte pages, two or three segments that
share a page, end with one, are empty, come in the wrong order, or end with the
address space; two values for the bytes behind the data; one file for each way to
be refused. *server*: two threads; three session objects, so two connections and
the accept that is always pending; a buffer of two bytes and two bytes from the
first client, which arrive and leave together or one by one, and one from the
second. The server may end, or wait for clients for ever, so
deadlock is not checked, as in *loader* and *timer_program*, which end.
*timer_program*: words of 4 bits and a counter that runs past its first carry,
which falls between any two accesses; an interval of 3, so that the handler runs
several times.

**Fairness.** The operating system schedules both threads: weak fairness of the
main loop (`Advance`: the steps that change `at`), of `set_exiting()` and of the
runner's own steps. A timed wait ends: strong fairness of `Timeout`, strong
because a spurious wakeup interrupts the wait and the predicate is tested again;
the code waits for a fixed deadline, so wakeups cannot postpone it for ever. The
spurious wakeup and the decision to stop have no fairness. The loader is
sequential: weak fairness of its next step. The server: weak fairness of the main
thread, of each thread of the pool, and of each session's pending operation (the
network delivers, and an operation on a closed connection fails); clients and
signals have none.

**Where code and documentation disagree.** The four violated runs:

1. *timer*: `interrupt_pending()` compares the pages' copies of the registers,
   which the thread never changes, so a waiting program is not interrupted
   ("Supports machine timer interrupts", `README.md:68`). Only a program that
   stores a word at the mtime address itself gets an interrupt, as the hart run's
   programs do.
2. *privilege*: exceptions do not save the mode, so the first `mret` after one in
   machine mode goes to user mode ("The privilege before taking the trap",
   `model.cpp:322`).
3. *resume*: the pc saved by an interrupt is one instruction too far, so `mret`
   skips one ("instruction-accurate", `README.md:29`).
4. *csrclear*: `csrrc` and `csrrci` use `!I` for `~I` ("Supports CSRs (basic)",
   `README.md:70`; the specification named in `README.md:277`).

**Deviations.** The modules also state properties that fail for the code as it
is and have no run of their own. Named as the only INVARIANT (or PROPERTY) of
the module's config, each gives a counterexample.

- `CrossbarCoherent` (MCMemory): a byte access at a timer register is served by
  the register, a wider one by the pages (`sparse_memory.hpp:99`). Without
  `--timer` both windows are at address 0.
- `WindowServed` (MCMemory, with `MtimeAddr <- MCMtimeTop`): the end of a window
  wraps for `--mtime` at the last double word, and the register is unreachable.
- `MtimeMonotone` (MtiSource): only byte 0 is incremented (`mti_source.cpp:21`).
- `DoneIsFinal` (MCHart, with `fstep = TRUE`): a 'q' goes on after the end and a
  store takes the end back (`main.cpp:131`, `model.cpp:304`).
- `FaultIsPrecise` (MCHart): after an instruction access fault the bytes at the bad
  address are executed and may override the trap (`model.cpp:27`). What does hold
  is `FaultLogged`.
- `MtipFollowsTimer` (MCHart): `mip.MTIP` stays set after the timer is no longer due.
  A program that polls it sees it; delivery tests the timer again
  (`NoStaleInterrupt`).
- `EcallCauseStandard` (MCHart): causes from 10 on are written as hexadecimal digits,
  so an `ecall` in machine mode reports 17 and not 11 (`trap_cause.hpp:22`).
- `BssIsZero` (MCLoader): data without initial values starts with bytes of the
  loader's heap when it shares a page with the end of a segment
  (`sparse_memory.hpp:126`).
- `JsonHoldsState` (MCExport): the JSON file holds decoded instructions only
  (`main.cpp:146`; "Exports hart-state in JSON format", `README.md:74`).
- `DeadlineAhead` (TimerProgram): the test program's `uint64_t` has 32 bits, so its
  deadline is wrong once the low word wraps (`timer.c:55`).

And one that the model has by construction: `from_json` of an operation throws
"cannot parse" for every input (`json_export_helpers.hpp:20`). That the value it
has assigned by then is right is `CodesDecode`.

## Proofs

`tlapm M.tla` for each proof module. The assumptions are the named ASSUMEs of the
modules, which TLC evaluates in the runs: `XLEN` is a positive multiple of 4 (above
12 for the hart, whose `mstatus` has a bit 12), pages are no larger than memory, the
windows, the entry and tohost are addresses, the images are page maps, the
decoder returns executable ops, files and heap bytes are what the loader's types
say, and the bounds of the server and the timer program are numbers in range.
Nothing is assumed about the arithmetic of words: it is proved.

The type invariants of MemoryBus and MtiSource are proved only (`MemoryTypeCorrect`,
`MtiTypeCorrect`). Each state invariant follows from an inductive one (`IInv`, or
named after its part), proved for the initial states and action by action, and each action
property from a step under that invariant.

- **WordProofs**: words as numbers. `ToNat` is a fold over a set and `^` has no
  axioms in the provers, so everything is built up: `Power` counts subsets
  (`FS_SUBSET`) to get `2^(n+1) = 2 * 2^n`; the sum over bits is taken apart by
  choosing a smallest counterexample (`Least`, `Smallest`, from the well-foundedness of
  the naturals and of finite sets), which replaces induction. The results used
  elsewhere: `WordValues` (words are the numbers below `2^XLEN`, in the order
  `Below`, and `ToWord` is the remainder), `BelowExact`, `PlusValue`, `PlusDistinct`,
  `DivMod`.
- **RouterProofs**: an address is a page key and a slot (`PageValues`), a byte
  store leaves a page map and changes what a load returns at exactly one
  address, and every width of load returns a word of its width.
- **MemoryProofs**. `MemoryTypeCorrect`, and `MemoryImplementsFlat`: the paged
  memory implements `FlatMemory`. Type correctness is the invariant the step
  simulation needs; the lemmas `View8` to `View64` say that a store to the pages
  is the same store to the flat array, each width resting on the one below.
  `MemoryWindowServed` has the hypothesis that the end of the mtime window does not
  wrap; where it does the property fails (see the deviations).
  *Loader*: `LoaderTypeCorrect`, `LoaderSegmentsLoaded`, `LoaderFootprint`,
  `LoaderOverreadExplained`, `LoaderExecutableExact` and `LoaderMeetsHart`. The properties speak of finished segments, the
  invariant of bytes: `Located` ties the locals of `write()` to the segment and the
  number of bytes copied, `Present` and `Needed` are the two directions of the
  footprint, and `BytesThere` has every byte copied so far in place. The argument
  for the last is the order of the segments: a copy writes from its address to the end of
  the page (`WriteBlock`), and all bytes already in place lie below that address.
  `LoaderOverreadExplained` is about the same copies: where a segment ends with its
  page, the last copy ends with the data (`CopyInside`), so the undefined read needs a
  segment that does not. `LoaderMeetsHart` joins the two models: in the state in which
  Loader ends, what Hart assumes of its `Images`, `entry` and `tohost_addr` is true and
  the devices are as Hart's `Init` has them.
- **ArithmeticProofs**: `ArithmeticMulHigh`, `ArithmeticDivRem`,
  `ArithmeticCompares` and `ArithmeticShifts`, for words of any length. `HighWord` bounds the four half-word
  products, so no intermediate of `mulhu` is cut; `Negation` is the carry of
  `~res + (low == 0)`; `Truncation` is the division of C++; `SignedValue` and
  `SignedRange` relate the two readings of a word. A shift of the bits is a quotient
  (`ShiftValue`); an arithmetic one of a negative word is the complement of the logical
  shift of its complement (`Complement`, `SignedShift`), which is why it rounds down.
  `TraceRoundTrip` (every index, where the run has the ends of the ranges),
  `TraceCodesDecode` and `TraceNamesUnique` are about the tables of the trace.
  `Assigned` follows a code through the six ifs of `from_json`: a taken one leaves a
  number that no later one accepts. `LookupsDistinct` reduces the names to
  the fact that no table holds one twice.
- **HartProofs**: `HartTypeCorrect`, `HartCleanStart` and `HartHandlerMasked` from
  the inductive invariant `TypeOK /\ CleanStart /\ HandlerMasked`; on it rest
  `HartRecords` (`HartPreciseTrap`, `HartFaultLogged`, `HartExitReport`, which hold
  between `step()` and `commit()` and survive a tick there) and the action
  properties `HartTraceFaithful`, `HartDoneIsFinal`, `HartPrivilegeIsolation` and
  `HartNoStaleInterrupt`. The type invariant is needed everywhere: the
  instruction executed comes from memory, and CSR and register indices from it.
  One lemma per target of `exec`, over what `write_csr`, `write_gpr`, `trap_to`
  and the interrupt do to the record. For `HandlerMasked` the point is that
  `trap` writes only the trap CSRs of a mode, none of which is `mstatus`; for
  `TraceFaithful`, that each write appends a change whose old value is the new one of
  the last. `HartExitReport` and `HartDoneIsFinal` have the hypothesis `~fstep`:
  with `--step` the loop goes on after the end (see the deviations).
  `ExportLogReplays`: by `TraceFaithful` the log explains a step, and
  `commit()` changes the interrupt's CSRs only, which `unlogged` names.
  `SimulatorImplementsHart` is the whole
  refinement: each step of the process is a step of Hart or a stutter, and the
  fairness of the loop is the same formula on both sides, so no ENABLED is
  expanded. Its hypothesis, `MaxTicks` at least `2^ByteLen`, says that the bound
  which keeps Hart finite for TLC does not bind; the simulator run bounds the timer's
  intervals instead and stays within its `MaxTicks`.
  `SimulatorNoDanglingIncrement` and `SimulatorAtMostOneLateTick` have the loop, the
  thread and the destructors together, and `SimulatorSafe` carries the invariants and
  action properties of Hart over to the process, along the refinement.
- **MtiProofs**: `MtiTypeCorrect`, `MtiNoDanglingIncrement` and
  `MtiAtMostOneLateTick`. The bound on late ticks is
  inductive only with the runner's position: after a late tick the runner is past
  the increment and the flag is set.
- **ServerProofs**: `ServerTypeCorrect`, `ServerOneOwner`, `ServerAlwaysAccepting`
  and `ServerEchoFaithful`, for any number of threads, sessions and bytes. The
  invariant says where each session is: `Owned` that a pending operation, a queued
  completion and a running handler exclude each other, and that none of them has a
  session not accepted yet; `Armed` the same for the one accept; `Echo` what is
  in the buffer at each of these places.
- **TimerProgramProofs**: `ProgramTypeCorrect`, `ProgramPairConsistent` and
  `ProgramNoSpuriousMatch`, for every word length, interval and length of the busy
  loop. The invariant (`Frame` for each of `main()` and the handler) says what each
  local means at each program point: which words of the counter have been read and when.

Model-checked only:

- liveness (`StopTerminates`, `KeepsTicking`, `ProcessEnds`, `LoadEnds`,
  `ServerEnds`, `EchoCompletes`), which needs ENABLED and fairness, beyond the prover;
- the violated properties and the deviations, which are counterexamples.

## Not modelled

ELF parsing, the parsing of the command line, asio, the disassembler and the
layout of the text output are left to their libraries. `register_signals()` and
`server::handle_accept()` have no caller. The benchmarks are not part of the
simulator, and the other test programs check single instructions. The decoder's
source is not in the repository. Two hazards in `PROJECT.json` have no property: the
carry of `mtime` (a deviation, above), and a
`std::thread` that fails to start after another one ends the process (`Spawn`),
and no document says what should happen instead.

## Plan

The plan is complete: every component of the inventory that has state is modelled,
every safety property that a run checks is proved, and the results of the loader and of
the hart are joined to the composed process. A change of the code is to be
followed here in the definition that `PROJECT.json` maps to its lines, then in the
runs, then in the lemma of the proof module named after the operation.
