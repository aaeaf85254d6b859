----------------------------- MODULE IpcServer -----------------------------
(***************************************************************************)
(* The echo server of --tcpserver (ipc.cpp), which run() serves from until *)
(* a signal stops it, before it starts the simulation.  Handlers run on a  *)
(* pool of threads that all call io_context::run(); asio is external: it   *)
(* queues the completion of an asynchronous operation, and each thread     *)
(* takes the first of the queue until the context is stopped.  Bytes are   *)
(* numbered in the order a client sends them.                              *)
(***************************************************************************)
EXTENDS Naturals, Sequences

CONSTANTS
  thread_pool_size,   \* 5 in run()
  max_length,         \* bytes in session::data_: 1024
  MaxSessions,        \* bound on the session objects
  MaxBytes            \* bound on what the first client sends; the others send a byte

ASSUME IpcAssumption ==
  {thread_pool_size, max_length, MaxSessions, MaxBytes} \subseteq Nat \ {0}

Pool     == 1 .. thread_pool_size
Sessions == 1 .. MaxSessions
Signals  == 1 .. 3                 \* SIGINT, SIGTERM, SIGQUIT

VARIABLES
  main,                            \* where run() is, or how the process ended
  pool, job,                       \* threads, and the handler each one runs
  queue, stopped,                  \* io_context: completions, stop()
  created, accepting,              \* session objects; the one to be accepted, or 0
  io, data_, done, total,          \* sessions: pending operations, buffer, write
  registered, waiting, raised,     \* signals_: number added, async_wait, caught
  open, sent, taken, echoed,       \* clients: connected, sent, read, got back
  signalled                        \* history: a signal came while run() waited

serverVars  == <<created, accepting>>
sessionVars == <<io, data_, done, total>>
signalVars  == <<registered, waiting, raised, signalled>>
clientVars  == <<open, sent, taken, echoed>>
ioVars      == <<sessionVars, clientVars>>
vars == <<main, pool, job, queue, stopped, serverVars, ioVars, signalVars>>

Completion(what, s, ok, n) == [what |-> what, s |-> s, ok |-> ok, n |-> n]
NoJob == Completion("none", 0, FALSE, 0)

Init ==
  /\ main = "construct"
  /\ pool = [t \in Pool |-> "none"] /\ job = [t \in Pool |-> NoJob]
  /\ queue = <<>> /\ stopped = FALSE
  /\ created = 0 /\ accepting = 0
  /\ io = [s \in Sessions |-> {}]
  /\ data_ = [s \in Sessions |-> [i \in 1 .. max_length |-> 0]]
  /\ done = [s \in Sessions |-> 0] /\ total = [s \in Sessions |-> 0]
  /\ registered = 0 /\ waiting = FALSE /\ raised = FALSE /\ signalled = FALSE
  /\ open = [s \in Sessions |-> FALSE]
  /\ sent = [s \in Sessions |-> 0] /\ taken = [s \in Sessions |-> 0]
  /\ echoed = [s \in Sessions |-> <<>>]

-----------------------------------------------------------------------------
(* The main thread.                                                        *)

start_accept == created' = created + 1 /\ accepting' = created + 1

\* The constructor listens and starts to accept; what it throws (the port is in
\* use) is caught by run(), which goes on to the simulation.
Construct ==
  /\ main = "construct"
  /\ \/ main' = "spawn" /\ start_accept
     \/ main' = "simulate" /\ UNCHANGED serverVars
  /\ UNCHANGED <<pool, job, queue, stopped, ioVars, signalVars>>

\* std::thread may throw: run() catches it, unless a thread that was created
\* before is destroyed without a join on the way, which terminates the process.
Spawn(t) ==
  /\ main = "spawn" /\ pool[t] = "none" /\ \A u \in 1 .. t - 1 : pool[u] # "none"
  /\ \/ /\ pool' = [pool EXCEPT ![t] = "idle"]
        /\ main' = IF t = thread_pool_size THEN "signals" ELSE main
     \/ /\ main' = IF t = 1 THEN "simulate" ELSE "terminated"
        /\ UNCHANGED pool
  /\ UNCHANGED <<job, queue, stopped, serverVars, ioVars, signalVars>>

\* Mutant of all_added: one signal is forgotten.
all_added_Two == registered >= 2

all_added == registered = 3

AddSignal ==
  /\ main = "signals" /\ ~all_added
  /\ registered' = registered + 1
  /\ UNCHANGED <<main, pool, job, queue, stopped, serverVars, ioVars, waiting, raised, signalled>>

\* async_wait: a signal that was caught since add() completes it at once.
WaitSignal ==
  /\ main = "signals" /\ all_added
  /\ main' = "join"
  /\ waiting' = ~raised
  /\ queue' = IF raised THEN Append(queue, Completion("signal", 0, TRUE, 0)) ELSE queue
  /\ UNCHANGED <<pool, job, stopped, serverVars, ioVars, registered, raised, signalled>>

JoinThreads ==
  /\ main = "join" /\ \A t \in Pool : pool[t] = "ended"
  /\ main' = "simulate"
  /\ UNCHANGED <<pool, job, queue, stopped, serverVars, ioVars, signalVars>>

\* A signal that is not registered has its default effect.
Signal(i) ==
  /\ main \in {"spawn", "signals", "join"}
  /\ main' = IF i <= registered THEN main ELSE "killed"
  /\ raised' = (raised \/ i <= registered)
  /\ waiting' = FALSE
  /\ queue' = IF waiting /\ i <= registered
              THEN Append(queue, Completion("signal", 0, TRUE, 0)) ELSE queue
  /\ signalled' = (signalled \/ main = "join")
  /\ UNCHANGED <<pool, job, stopped, serverVars, ioVars, registered>>

-----------------------------------------------------------------------------
(* The threads of the pool.                                                *)

\* run() returns when the context is stopped or has nothing left to wait for.
NoWork ==
  /\ queue = <<>> /\ accepting = 0 /\ ~waiting
  /\ \A s \in Sessions : io[s] = {}
  /\ \A t \in Pool : pool[t] # "busy"

Return(t) ==
  /\ pool[t] = "idle" /\ (stopped \/ NoWork)
  /\ pool' = [pool EXCEPT ![t] = "ended"]
  /\ stopped' = TRUE
  /\ UNCHANGED <<main, job, queue, serverVars, ioVars, signalVars>>

Take(t) ==
  /\ pool[t] = "idle" /\ ~stopped /\ queue # <<>>
  /\ pool' = [pool EXCEPT ![t] = "busy"]
  /\ job' = [job EXCEPT ![t] = Head(queue)]
  /\ queue' = Tail(queue)
  /\ UNCHANGED <<main, stopped, serverVars, ioVars, signalVars>>

Runs(t, what) == pool[t] = "busy" /\ job[t].what = what

FinishHandler(t) ==
  /\ pool' = [pool EXCEPT ![t] = "idle"]
  /\ job' = [job EXCEPT ![t] = NoJob]

\* Mutant of HandleAccept: an error ends the handler, as in handle_accept().
HandleAccept_Guarded(t) ==
  LET s == job[t].s
  IN  /\ Runs(t, "accept")
      /\ \/ /\ job[t].ok
            /\ io' = [io EXCEPT ![s] = @ \cup {"read"}]
            /\ job' = [job EXCEPT ![t].what = "rearm"]
            /\ UNCHANGED pool
         \/ ~job[t].ok /\ FinishHandler(t) /\ UNCHANGED io
      /\ UNCHANGED <<main, queue, stopped, serverVars, data_, done, total, clientVars, signalVars>>

\* The handler of async_accept: session::start(), then start_accept().  The new
\* session may be served by another thread between the two.
HandleAccept(t) ==
  LET s == job[t].s
  IN  /\ Runs(t, "accept")
      /\ io' = IF job[t].ok THEN [io EXCEPT ![s] = @ \cup {"read"}] ELSE io
      /\ job' = [job EXCEPT ![t].what = "rearm"]
      /\ UNCHANGED <<main, pool, queue, stopped, serverVars, data_, done, total, clientVars, signalVars>>

AcceptNext(t) ==
  /\ Runs(t, "rearm")
  /\ start_accept
  /\ FinishHandler(t)
  /\ UNCHANGED <<main, queue, stopped, ioVars, signalVars>>

\* Mutants of handle_read: one byte more is written; the next read is started
\* at once; the whole buffer is written.
handle_read_OneMore(t) ==
  LET s == job[t].s
  IN  /\ Runs(t, "read")
      /\ io' = IF job[t].ok THEN [io EXCEPT ![s] = @ \cup {"write"}] ELSE io
      /\ done' = [done EXCEPT ![s] = 0] /\ total' = [total EXCEPT ![s] = job[t].n + 1]
      /\ FinishHandler(t)
      /\ UNCHANGED <<main, queue, stopped, serverVars, data_, clientVars, signalVars>>

handle_read_Eager(t) ==
  LET s == job[t].s
  IN  /\ Runs(t, "read")
      /\ io' = IF job[t].ok THEN [io EXCEPT ![s] = {"read", "write"}] ELSE io
      /\ done' = [done EXCEPT ![s] = 0] /\ total' = [total EXCEPT ![s] = job[t].n]
      /\ FinishHandler(t)
      /\ UNCHANGED <<main, queue, stopped, serverVars, data_, clientVars, signalVars>>

handle_read_Whole(t) ==
  LET s == job[t].s
  IN  /\ Runs(t, "read")
      /\ io' = IF job[t].ok THEN [io EXCEPT ![s] = @ \cup {"write"}] ELSE io
      /\ done' = [done EXCEPT ![s] = 0] /\ total' = [total EXCEPT ![s] = max_length]
      /\ FinishHandler(t)
      /\ UNCHANGED <<main, queue, stopped, serverVars, data_, clientVars, signalVars>>

\* After an error no operation is started, and the session is released.
handle_read(t) ==
  LET s == job[t].s
  IN  /\ Runs(t, "read")
      /\ io' = IF job[t].ok THEN [io EXCEPT ![s] = @ \cup {"write"}] ELSE io
      /\ done' = [done EXCEPT ![s] = 0] /\ total' = [total EXCEPT ![s] = job[t].n]
      /\ FinishHandler(t)
      /\ UNCHANGED <<main, queue, stopped, serverVars, data_, clientVars, signalVars>>

\* Mutant of handle_write: the session serves one message.
handle_write_Once(t) ==
  /\ Runs(t, "write")
  /\ FinishHandler(t)
  /\ UNCHANGED <<main, queue, stopped, serverVars, ioVars, signalVars>>

handle_write(t) ==
  LET s == job[t].s
  IN  /\ Runs(t, "write")
      /\ io' = IF job[t].ok THEN [io EXCEPT ![s] = @ \cup {"read"}] ELSE io
      /\ FinishHandler(t)
      /\ UNCHANGED <<main, queue, stopped, serverVars, data_, done, total, clientVars, signalVars>>

\* The handler of the signals: stop().  Handlers that run are finished, those
\* in the queue are not called any more.
HandleSignal(t) ==
  /\ Runs(t, "signal")
  /\ stopped' = TRUE
  /\ FinishHandler(t)
  /\ UNCHANGED <<main, queue, serverVars, ioVars, signalVars>>

-----------------------------------------------------------------------------
(* asio and the network: operations complete, with or without an error.    *)

Complete(c) == ~stopped /\ queue' = Append(queue, c)

\* The bound keeps one session object for the accept that is pending.
Accept(ok) ==
  /\ accepting \in 1 .. MaxSessions - 1
  /\ Complete(Completion("accept", accepting, ok, 0))
  /\ accepting' = 0
  /\ open' = [open EXCEPT ![accepting] = ok]
  /\ UNCHANGED <<main, pool, job, stopped, created, sessionVars, sent, taken, echoed, signalVars>>

ReadSizes(s) == {n \in 1 .. max_length : n <= sent[s] - taken[s]}

\* async_read_some: some of the bytes that have arrived, into data_.
ReadSome(s, n) ==
  /\ "read" \in io[s]
  /\ data_' = [data_ EXCEPT ![s] = [i \in 1 .. max_length |-> IF i <= n THEN taken[s] + i ELSE @[i]]]
  /\ taken' = [taken EXCEPT ![s] = @ + n]
  /\ io' = [io EXCEPT ![s] = @ \ {"read"}]
  /\ Complete(Completion("read", s, TRUE, n))
  /\ UNCHANGED <<main, pool, job, stopped, serverVars, done, total, open, sent, echoed, signalVars>>

\* async_write: the bytes of data_ leave in one or in several parts.
WriteSome(s, n) ==
  /\ "write" \in io[s] /\ done[s] + n <= total[s]
  /\ echoed' = [echoed EXCEPT ![s] = @ \o SubSeq(data_[s], done[s] + 1, done[s] + n)]
  /\ done' = [done EXCEPT ![s] = @ + n]
  /\ \/ /\ done[s] + n = total[s]
        /\ io' = [io EXCEPT ![s] = @ \ {"write"}]
        /\ Complete(Completion("write", s, TRUE, 0))
     \/ done[s] + n < total[s] /\ ~stopped /\ UNCHANGED <<io, queue>>
  /\ UNCHANGED <<main, pool, job, stopped, serverVars, data_, total, open, sent, taken, signalVars>>

\* An operation on a closed or broken connection.
Fail(s, what) ==
  /\ what \in io[s] /\ ~open[s]
  /\ io' = [io EXCEPT ![s] = @ \ {what}]
  /\ Complete(Completion(what, s, FALSE, 0))
  /\ UNCHANGED <<main, pool, job, stopped, serverVars, data_, done, total, clientVars, signalVars>>

Send(s) ==
  /\ open[s] /\ sent[s] < (IF s = 1 THEN MaxBytes ELSE 1)
  /\ sent' = [sent EXCEPT ![s] = @ + 1]
  /\ UNCHANGED <<main, pool, job, queue, stopped, serverVars, sessionVars, open, taken, echoed, signalVars>>

Close(s) ==
  /\ open[s]
  /\ open' = [open EXCEPT ![s] = FALSE]
  /\ UNCHANGED <<main, pool, job, queue, stopped, serverVars, sessionVars, sent, taken, echoed, signalVars>>

-----------------------------------------------------------------------------
Alive == main \notin {"simulate", "terminated", "killed"}

MainStep == Construct \/ (\E t \in Pool : Spawn(t)) \/ AddSignal \/ WaitSignal \/ JoinThreads

ThreadStep(t) ==
  /\ Alive
  /\ \/ Return(t) \/ Take(t) \/ HandleAccept(t) \/ AcceptNext(t)
     \/ handle_read(t) \/ handle_write(t) \/ HandleSignal(t)

SessionStep(s) ==
  /\ Alive
  /\ \/ \E n \in ReadSizes(s) : ReadSome(s, n)
     \/ \E n \in 1 .. max_length : WriteSome(s, n)
     \/ \E what \in {"read", "write"} : Fail(s, what)

ClientStep ==
  /\ Alive
  /\ (\E ok \in BOOLEAN : Accept(ok)) \/ (\E s \in Sessions : Send(s) \/ Close(s))

Next ==
  \/ MainStep \/ ClientStep \/ \E i \in Signals : Signal(i)
  \/ \E t \in Pool : ThreadStep(t)
  \/ \E s \in Sessions : SessionStep(s)

\* The threads are scheduled and the network delivers; clients connect, send
\* and close as they like, and signals need not come.
Spec ==
  /\ Init /\ [][Next]_vars
  /\ WF_vars(MainStep)
  /\ \A t \in Pool : WF_vars(ThreadStep(t))
  /\ \A s \in Sessions : WF_vars(SessionStep(s))

-----------------------------------------------------------------------------
(* Properties.                                                             *)

\* The buffers have their size and no write is longer than its buffer.
TypeOK ==
  /\ main \in {"construct", "spawn", "signals", "join", "simulate", "terminated", "killed"}
  /\ pool \in [Pool -> {"none", "idle", "busy", "ended"}]
  /\ created \in 0 .. MaxSessions /\ accepting \in 0 .. created
  /\ io \in [Sessions -> SUBSET {"read", "write"}]
  /\ data_ \in [Sessions -> [1 .. max_length -> 0 .. MaxBytes]]
  /\ done \in [Sessions -> 0 .. max_length] /\ total \in [Sessions -> 0 .. max_length]
  /\ registered \in 0 .. 3
  /\ {stopped, waiting, raised, signalled} \subseteq BOOLEAN

\* A client gets back what it sent, in order, nothing twice and nothing made
\* up, however the reads and writes were divided and whichever threads ran
\* the handlers.
EchoFaithful == \A s \in Sessions : echoed[s] = [i \in 1 .. Len(echoed[s]) |-> i]

Queued(what, s)   == {i \in DOMAIN queue : queue[i].s = s /\ queue[i].what \in what}
Handling(what, s) == {t \in Pool : pool[t] = "busy" /\ job[t].s = s /\ job[t].what \in what}

\* Everything that has to do with a session: an operation that is pending, a
\* completion in the queue, or a handler that runs.
Owners(s) ==
  LET what == {"accept", "read", "write"}
  IN  {<<"pending", w>> : w \in io[s]} \cup {<<"queued", i>> : i \in Queued(what, s)}
        \cup {<<"running", t>> : t \in Handling(what, s)}

\* At most one thread has anything to do with a session: this is what makes
\* data_ and the socket safe without a strand or a lock.
OneOwner == \A s \in Sessions : \A a, b \in Owners(s) : a = b

Accepts ==
  {<<"pending", s>> : s \in {accepting} \ {0}}
    \cup {<<"queued", i>> : i \in UNION {Queued({"accept"}, s) : s \in Sessions}}
    \cup {<<"running", t>> : t \in UNION {Handling({"accept", "rearm"}, s) : s \in Sessions}}

\* The server never stops listening, whatever happened to earlier connections:
\* from the constructor on exactly one accept is pending, completed or handled.
AlwaysAccepting == created > 0 => \E a \in Accepts : Accepts = {a}

\* A signal ends the server and starts the simulation: once run() waits for its
\* threads, any of the three signals leads to all of them being joined.
ServerEnds == signalled ~> main = "simulate"

\* A client that stays connected gets every byte back, unless the process is
\* told to stop.
EchoCompletes ==
  \A s \in Sessions, k \in 1 .. MaxBytes :
    (open[s] /\ sent[s] >= k) ~> (Len(echoed[s]) >= k \/ ~open[s] \/ stopped \/ ~Alive)
=============================================================================
