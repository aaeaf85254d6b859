---------------------------- MODULE ServerProofs ----------------------------
(***************************************************************************)
(* The echo server for any number of threads, sessions and bytes: one      *)
(* owner per session, one accept at a time, and faithful echoes.           *)
(***************************************************************************)
EXTENDS IpcServer, SequenceTheorems, TLAPS

-----------------------------------------------------------------------------
(* The inductive invariant.                                                *)

Job == [what : {"none", "accept", "rearm", "read", "write", "signal"},
        s : 0 .. MaxSessions, ok : BOOLEAN, n : 0 .. max_length]

Busy(t) == pool[t] = "busy"

\* The types of what TypeOK leaves out, and the order of the byte counts.
Typed ==
  /\ TypeOK
  /\ queue \in Seq(Job) /\ job \in [Pool -> Job]
  /\ open \in [Sessions -> BOOLEAN]
  /\ sent \in [Sessions -> Nat] /\ taken \in [Sessions -> Nat]
  /\ echoed \in [Sessions -> Seq(Nat)]
  /\ \A s \in Sessions : taken[s] <= sent[s] /\ sent[s] <= MaxBytes

\* The completion or handler c has the session s to itself.
Owns(c, s) == c.s = s /\ c.what \in {"accept", "read", "write"}

\* A session that has not been accepted yet.
Fresh(s) == s > created \/ s = accepting

\* OneOwner, case by case; nothing owns a session that is not accepted.
Owned ==
  \A s \in Sessions :
    /\ \A v, w \in io[s] : v = w
    /\ \A i \in DOMAIN queue : Owns(queue[i], s) =>
         /\ io[s] = {} /\ ~Fresh(s)
         /\ \A j \in DOMAIN queue : Owns(queue[j], s) => i = j
         /\ \A t \in Pool : Busy(t) => ~Owns(job[t], s)
    /\ \A t \in Pool : Busy(t) /\ Owns(job[t], s) =>
         /\ io[s] = {} /\ ~Fresh(s)
         /\ \A u \in Pool : Busy(u) /\ Owns(job[u], s) => t = u
    /\ Fresh(s) => io[s] = {}

\* The completion or handler c stands for the one accept; it is about the last
\* session object, and the bound leaves room for one more.
Carries(c) == c.what \in {"accept", "rearm"}
Last(c)    == c.s = created /\ created < MaxSessions

\* AlwaysAccepting, case by case.
Armed ==
  /\ accepting \in {0, created}
  /\ \A i \in DOMAIN queue : Carries(queue[i]) =>
       /\ queue[i].what = "accept" /\ Last(queue[i]) /\ created > 0 /\ accepting = 0
       /\ \A j \in DOMAIN queue : Carries(queue[j]) => i = j
       /\ \A t \in Pool : Busy(t) => ~Carries(job[t])
  /\ \A t \in Pool : Busy(t) /\ Carries(job[t]) =>
       /\ Last(job[t]) /\ created > 0 /\ accepting = 0
       /\ \A u \in Pool : Busy(u) /\ Carries(job[u]) => t = u
  /\ created > 0 => \/ accepting = created
                    \/ \E i \in DOMAIN queue : Carries(queue[i])
                    \/ \E t \in Pool : Busy(t) /\ Carries(job[t])
  /\ main = "construct" => created = 0

\* The first n bytes of the buffer are the last n bytes that were read.
Filled(s, n) == \A i \in 1 .. n : data_[s][i] + n = taken[s] + i

\* What a completion says about the bytes of its session: a read has filled the
\* buffer with what is not echoed yet, otherwise everything read is echoed.
Answer(c, s) ==
  c.ok => IF c.what = "read" THEN Filled(s, c.n) /\ Len(echoed[s]) + c.n = taken[s]
          ELSE Len(echoed[s]) = taken[s]

\* What is echoed is right, and what is left to echo is in the buffer.
Echo ==
  \A s \in Sessions :
    /\ \A i \in 1 .. Len(echoed[s]) : echoed[s][i] = i
    /\ "read" \in io[s] \/ Fresh(s) => Len(echoed[s]) = taken[s]
    /\ "write" \in io[s] =>
         Filled(s, total[s]) /\ Len(echoed[s]) + total[s] = taken[s] + done[s]
    /\ \A i \in DOMAIN queue : Owns(queue[i], s) => Answer(queue[i], s)
    /\ \A t \in Pool : Busy(t) /\ Owns(job[t], s) => Answer(job[t], s)

IInv == Typed /\ Owned /\ Armed /\ Echo

-----------------------------------------------------------------------------
(* The queue of the io_context.                                            *)

\* A completion is queued behind the others.
LEMMA Appended ==
  ASSUME NEW q \in Seq(Job), NEW c \in Job
  PROVE  /\ Append(q, c) \in Seq(Job)
         /\ DOMAIN Append(q, c) = DOMAIN q \cup {Len(q) + 1}
         /\ Len(q) + 1 \notin DOMAIN q
         /\ \A i \in DOMAIN q : Append(q, c)[i] = q[i]
         /\ Append(q, c)[Len(q) + 1] = c
  OBVIOUS

\* A thread takes the first completion, and the others move up.
LEMMA Removed ==
  ASSUME NEW q \in Seq(Job), q # <<>>
  PROVE  /\ Tail(q) \in Seq(Job) /\ Head(q) \in Job
         /\ 1 \in DOMAIN q /\ Head(q) = q[1]
         /\ \A i \in DOMAIN Tail(q) : i + 1 \in DOMAIN q /\ i + 1 # 1 /\ Tail(q)[i] = q[i + 1]
         /\ \A i \in DOMAIN Tail(q), j \in DOMAIN Tail(q) : i + 1 = j + 1 => i = j
         /\ \A i \in DOMAIN q : i # 1 => i - 1 \in DOMAIN Tail(q) /\ Tail(q)[i - 1] = q[i]
  OBVIOUS

\* The constants are positive numbers.
LEMMA Constants ==
  /\ thread_pool_size \in Nat \ {0} /\ max_length \in Nat \ {0}
  /\ MaxSessions \in Nat \ {0} /\ MaxBytes \in Nat \ {0}
  /\ Pool \subseteq Nat /\ Sessions \subseteq Nat \ {0}
  BY IpcAssumption DEF Pool, Sessions

-----------------------------------------------------------------------------
(* Init.                                                                   *)

\* Nothing is created, queued or read at first.
LEMMA InitInv == Init => IInv
<1> SUFFICES ASSUME Init PROVE IInv
  OBVIOUS
<1>1. Typed
  <2>1. NoJob \in Job
    BY Constants DEF NoJob, Completion, Job
  <2>2. queue \in Seq(Job) /\ job \in [Pool -> Job]
    BY <2>1 DEF Init
  <2>3. /\ sent \in [Sessions -> Nat] /\ taken \in [Sessions -> Nat]
        /\ echoed \in [Sessions -> Seq(Nat)]
        /\ \A s \in Sessions : taken[s] <= sent[s] /\ sent[s] <= MaxBytes
    BY Constants DEF Init
  <2>4. open \in [Sessions -> BOOLEAN] /\ {stopped, waiting, raised, signalled} \subseteq BOOLEAN
    BY Zenon DEF Init
  <2>5. /\ done \in [Sessions -> 0 .. max_length] /\ total \in [Sessions -> 0 .. max_length]
        /\ data_ \in [Sessions -> [1 .. max_length -> 0 .. MaxBytes]]
        /\ created \in 0 .. MaxSessions /\ accepting \in 0 .. created /\ registered \in 0 .. 3
    BY Constants DEF Init
  <2>6. /\ io \in [Sessions -> SUBSET {"read", "write"}]
        /\ pool \in [Pool -> {"none", "idle", "busy", "ended"}]
        /\ main = "construct"
    BY DEF Init
  <2> QED
    BY <2>2, <2>3, <2>4, <2>5, <2>6 DEF Typed, TypeOK
<1>2. Owned
  BY DEF Init, Owned, Busy
<1>3. Armed
  BY DEF Init, Armed, Busy
<1>4. Echo
  BY DEF Init, Echo, Busy
<1> QED
  BY <1>1, <1>2, <1>3, <1>4 DEF IInv

-----------------------------------------------------------------------------
(* What a step does to the owners of the sessions and to the accept.       *)

tokenVars == <<io, job, created, accepting>>

\* Steps that neither start nor complete nor handle anything.
LEMMA QuietTokens ==
  ASSUME IInv, UNCHANGED <<tokenVars, queue>>,
         \A t \in Pool : Busy(t)' <=> Busy(t),
         main' = "construct" => main = "construct"
  PROVE  Owned' /\ Armed'
<1> USE DEF IInv, tokenVars
<1>1. Owned'
  BY DEF Owned, Fresh
<1>2. Armed'
  BY DEF Armed, Last
<1> QED
  BY <1>1, <1>2

\* A signal is queued: it belongs to no session.
LEMMA SignalTokens ==
  ASSUME IInv, NEW c \in Job, c.what = "signal",
         queue' = Append(queue, c), UNCHANGED <<tokenVars, pool>>,
         main' = "construct" => main = "construct"
  PROVE  Owned' /\ Armed'
<1> USE DEF IInv, tokenVars
<1>1. /\ DOMAIN queue' = DOMAIN queue \cup {Len(queue) + 1}
      /\ \A i \in DOMAIN queue : queue'[i] = queue[i]
      /\ queue'[Len(queue) + 1] = c
  BY Appended DEF Typed
<1>2. \A s : ~Owns(c, s)
  BY DEF Owns
<1>3. ~Carries(c)
  BY DEF Carries
<1>4. Owned'
  BY <1>1, <1>2 DEF Owned, Fresh, Busy
<1>5. Armed'
  BY <1>1, <1>3 DEF Armed, Last, Busy
<1> QED
  BY <1>4, <1>5

\* A thread takes the first completion of the queue.
LEMMA TakeTokens ==
  ASSUME IInv, NEW t \in Pool, Take(t)
  PROVE  Typed' /\ Owned' /\ Armed' /\ Echo'
<1> USE DEF IInv
<1>1. /\ ~Busy(t) /\ queue \in Seq(Job) /\ queue # <<>> /\ queue' = Tail(queue)
      /\ UNCHANGED <<main, stopped, serverVars, ioVars, signalVars>>
  BY DEF Take, Busy, Typed
<1>2. /\ queue' \in Seq(Job) /\ Head(queue) \in Job
      /\ 1 \in DOMAIN queue /\ Head(queue) = queue[1]
      /\ \A i \in DOMAIN queue' : i + 1 \in DOMAIN queue /\ i + 1 # 1 /\ queue'[i] = queue[i + 1]
      /\ \A i \in DOMAIN queue', j \in DOMAIN queue' : i + 1 = j + 1 => i = j
      /\ \A i \in DOMAIN queue : i # 1 => i - 1 \in DOMAIN queue' /\ queue'[i - 1] = queue[i]
  BY <1>1, Removed
<1>3. /\ job' \in [Pool -> Job] /\ job'[t] = queue[1]
      /\ pool' \in [Pool -> {"none", "idle", "busy", "ended"}] /\ pool'[t] = "busy"
      /\ \A u \in Pool : u # t => job'[u] = job[u] /\ pool'[u] = pool[u]
  BY <1>2 DEF Take, Typed, TypeOK
<1>4. Typed'
  BY <1>1, <1>2, <1>3 DEF Typed, TypeOK, serverVars, ioVars, sessionVars, clientVars, signalVars
<1>5. UNCHANGED <<io, created, accepting>> /\ (\A s : Fresh(s)' <=> Fresh(s))
  BY <1>1 DEF serverVars, ioVars, sessionVars, Fresh
<1>6. Owned'
  <2> SUFFICES ASSUME NEW s \in Sessions
               PROVE  /\ \A v, w \in io[s] : v = w
                      /\ \A i \in DOMAIN queue' : Owns(queue'[i], s) =>
                           /\ io[s] = {} /\ ~Fresh(s)
                           /\ \A j \in DOMAIN queue' : Owns(queue'[j], s) => i = j
                           /\ \A u \in Pool : pool'[u] = "busy" => ~Owns(job'[u], s)
                      /\ \A u \in Pool : pool'[u] = "busy" /\ Owns(job'[u], s) =>
                           /\ io[s] = {} /\ ~Fresh(s)
                           /\ \A v \in Pool : pool'[v] = "busy" /\ Owns(job'[v], s) => u = v
                      /\ Fresh(s) => io[s] = {}
    BY <1>5 DEF Owned, Busy
  <2>1. /\ \A v, w \in io[s] : v = w
        /\ Fresh(s) => io[s] = {}
    BY DEF Owned
  <2>2. ASSUME NEW i \in DOMAIN queue', Owns(queue'[i], s)
        PROVE  /\ io[s] = {} /\ ~Fresh(s)
               /\ \A j \in DOMAIN queue' : Owns(queue'[j], s) => i = j
               /\ \A u \in Pool : pool'[u] = "busy" => ~Owns(job'[u], s)
    <3>1. i + 1 \in DOMAIN queue /\ i + 1 # 1 /\ Owns(queue[i + 1], s)
      BY <1>2, <2>2
    <3>2. /\ io[s] = {} /\ ~Fresh(s)
          /\ \A j \in DOMAIN queue : Owns(queue[j], s) => i + 1 = j
          /\ \A u \in Pool : Busy(u) => ~Owns(job[u], s)
      BY <3>1 DEF Owned
    <3> QED
      BY <1>2, <1>3, <3>1, <3>2 DEF Busy
  <2>3. ASSUME NEW u \in Pool, pool'[u] = "busy", Owns(job'[u], s)
        PROVE  /\ io[s] = {} /\ ~Fresh(s)
               /\ \A v \in Pool : pool'[v] = "busy" /\ Owns(job'[v], s) => u = v
    BY <1>1, <1>2, <1>3, <2>3 DEF Owned, Busy
  <2> QED
    BY <2>1, <2>2, <2>3
<1>7. Armed'
  <2>1. ASSUME NEW i \in DOMAIN queue', Carries(queue'[i])
        PROVE  /\ queue'[i].what = "accept" /\ Last(queue'[i]) /\ created > 0 /\ accepting = 0
               /\ \A j \in DOMAIN queue' : Carries(queue'[j]) => i = j
               /\ \A u \in Pool : pool'[u] = "busy" => ~Carries(job'[u])
    <3>1. i + 1 \in DOMAIN queue /\ i + 1 # 1 /\ Carries(queue[i + 1])
      BY <1>2, <2>1
    <3>2. /\ queue[i + 1].what = "accept" /\ Last(queue[i + 1]) /\ created > 0 /\ accepting = 0
          /\ \A j \in DOMAIN queue : Carries(queue[j]) => i + 1 = j
          /\ \A u \in Pool : Busy(u) => ~Carries(job[u])
      BY <3>1 DEF Armed
    <3> QED
      BY <1>2, <1>3, <3>1, <3>2 DEF Busy
  <2>2. ASSUME NEW u \in Pool, pool'[u] = "busy", Carries(job'[u])
        PROVE  /\ Last(job'[u]) /\ created > 0 /\ accepting = 0
               /\ \A v \in Pool : pool'[v] = "busy" /\ Carries(job'[v]) => u = v
    BY <1>1, <1>2, <1>3, <2>2 DEF Armed, Busy
  <2>3. created > 0 => \/ accepting = created
                       \/ \E i \in DOMAIN queue' : Carries(queue'[i])
                       \/ \E u \in Pool : pool'[u] = "busy" /\ Carries(job'[u])
    BY <1>1, <1>2, <1>3 DEF Armed, Busy
  <2> QED
    BY <1>1, <1>5, <2>1, <2>2, <2>3 DEF Armed, Busy, Last
<1>8. Echo'
  <2>1. UNCHANGED <<data_, done, total, taken, echoed, io>>
    BY <1>1 DEF ioVars, sessionVars, clientVars
  <2>2. \A c, s : Answer(c, s)' <=> Answer(c, s)
    BY <2>1 DEF Answer, Filled
  <2>3. \A s, n : Filled(s, n)' <=> Filled(s, n)
    BY <2>1 DEF Filled
  <2>4. \A s \in Sessions, i \in DOMAIN queue' : Owns(queue'[i], s) => Answer(queue'[i], s)
    BY <1>2 DEF Echo
  <2>5. \A s \in Sessions, u \in Pool :
          pool'[u] = "busy" /\ Owns(job'[u], s) => Answer(job'[u], s)
    BY <1>2, <1>3 DEF Echo, Busy
  <2> QED
    BY <1>5, <2>1, <2>2, <2>3, <2>4, <2>5 DEF Echo, Busy
<1> QED
  BY <1>4, <1>6, <1>7, <1>8

\* A pending operation completes: its session passes from the operation to the
\* completion in the queue.
LEMMA CompletedTokens ==
  ASSUME IInv, NEW s \in Sessions, NEW c \in Job,
         c.s = s, c.what \in {"read", "write"}, c.what \in io[s],
         io' = [io EXCEPT ![s] = @ \ {c.what}], queue' = Append(queue, c),
         UNCHANGED <<main, pool, job, created, accepting>>
  PROVE  Owned' /\ Armed'
<1> USE DEF IInv
<1>1. /\ DOMAIN queue' = DOMAIN queue \cup {Len(queue) + 1}
      /\ \A i \in DOMAIN queue : queue'[i] = queue[i]
      /\ queue'[Len(queue) + 1] = c
  BY Appended DEF Typed
<1>2. /\ \A r \in Sessions : r # s => io'[r] = io[r]
      /\ io'[s] = {}
  BY DEF Owned, Typed, TypeOK
<1>3. /\ ~Fresh(s)
      /\ \A i \in DOMAIN queue : ~Owns(queue[i], s)
      /\ \A t \in Pool : Busy(t) => ~Owns(job[t], s)
  BY DEF Owned
<1>4. \A r : Owns(c, r) <=> r = s
  BY DEF Owns
<1>5. Owned'
  <2> SUFFICES ASSUME NEW r \in Sessions
               PROVE  /\ \A v, w \in io'[r] : v = w
                      /\ \A i \in DOMAIN queue' : Owns(queue'[i], r) =>
                           /\ io'[r] = {} /\ ~Fresh(r)
                           /\ \A j \in DOMAIN queue' : Owns(queue'[j], r) => i = j
                           /\ \A t \in Pool : Busy(t) => ~Owns(job[t], r)
                      /\ \A t \in Pool : Busy(t) /\ Owns(job[t], r) =>
                           /\ io'[r] = {} /\ ~Fresh(r)
                           /\ \A u \in Pool : Busy(u) /\ Owns(job[u], r) => t = u
                      /\ Fresh(r) => io'[r] = {}
    BY DEF Owned, Busy, Fresh
  <2>1. CASE r = s
    BY <1>1, <1>2, <1>3, <1>4, <2>1
  <2>2. CASE r # s
    BY <1>1, <1>2, <1>4, <2>2 DEF Owned
  <2> QED
    BY <2>1, <2>2
<1>6. ~Carries(c)
  BY DEF Carries
<1>7. Armed'
  BY <1>1, <1>6 DEF Armed, Last, Busy
<1> QED
  BY <1>5, <1>7

\* A handler that is not about accepting ends; it may have started an operation
\* on its own session, which then passes from the thread to the operation.
LEMMA HandledTokens ==
  ASSUME IInv, NEW t \in Pool, Busy(t), ~Carries(job[t]), FinishHandler(t),
         UNCHANGED <<main, queue, created, accepting>>,
         \/ io' = io
         \/ \E w : /\ job[t].what \in {"read", "write"}
                  /\ io' = [io EXCEPT ![job[t].s] = @ \cup {w}]
  PROVE  Owned' /\ Armed'
<1> USE DEF IInv
<1>1. /\ pool'[t] # "busy"
      /\ \A u \in Pool : u # t => job'[u] = job[u] /\ pool'[u] = pool[u]
  BY DEF FinishHandler, Typed, TypeOK
<1>2. \A s : Fresh(s)' <=> Fresh(s)
  BY DEF Fresh
<1>3. Armed'
  BY <1>1 DEF Armed, Last, Busy
<1>4. ASSUME NEW s \in Sessions
      PROVE  /\ \A v, w \in io'[s] : v = w
             /\ \A i \in DOMAIN queue : Owns(queue[i], s) =>
                  /\ io'[s] = {} /\ ~Fresh(s)
                  /\ \A j \in DOMAIN queue : Owns(queue[j], s) => i = j
                  /\ \A u \in Pool : pool'[u] = "busy" => ~Owns(job'[u], s)
             /\ \A u \in Pool : pool'[u] = "busy" /\ Owns(job'[u], s) =>
                  /\ io'[s] = {} /\ ~Fresh(s)
                  /\ \A v \in Pool : pool'[v] = "busy" /\ Owns(job'[v], s) => u = v
             /\ Fresh(s) => io'[s] = {}
  <2>1. CASE io'[s] = io[s]
    BY <1>1, <2>1 DEF Owned, Busy
  <2>2. CASE io'[s] # io[s]
    <3>1. PICK w : /\ job[t].what \in {"read", "write"}
                   /\ io' = [io EXCEPT ![job[t].s] = @ \cup {w}]
      BY <2>2
    <3>2. job[t].s = s /\ Owns(job[t], s) /\ io'[s] = io[s] \cup {w}
      BY <2>2, <3>1 DEF Typed, TypeOK, Owns
    <3>3. /\ io[s] = {} /\ ~Fresh(s)
          /\ \A i \in DOMAIN queue : ~Owns(queue[i], s)
          /\ \A u \in Pool : Busy(u) /\ Owns(job[u], s) => u = t
      BY <3>2 DEF Owned
    <3>4. \A u \in Pool : pool'[u] = "busy" => ~Owns(job'[u], s)
      BY <1>1, <3>3 DEF Busy
    <3> QED
      BY <3>2, <3>3, <3>4
  <2> QED
    BY <2>1, <2>2
<1>5. Owned'
  BY <1>2, <1>4 DEF Owned, Busy
<1> QED
  BY <1>3, <1>5

\* Nothing about the bytes of a session changes while its owner stays.
LEMMA QuietEcho ==
  ASSUME IInv, UNCHANGED <<data_, done, total, taken, echoed>>,
         \A s \in Sessions : /\ io'[s] \subseteq io[s] 
                             /\ Fresh(s)' => Fresh(s),
         \A s \in Sessions : \A i \in DOMAIN queue' : Owns(queue'[i], s) /\ queue'[i].ok =>
            i \in DOMAIN queue /\ queue'[i] = queue[i],
         \A s \in Sessions : \A t \in Pool : Busy(t)' /\ Owns(job'[t], s) =>
            Busy(t) /\ job'[t] = job[t]
  PROVE  Echo'
<1> USE DEF IInv
<1>1. /\ \A s, n : Filled(s, n)' <=> Filled(s, n)
      /\ \A c, s : Answer(c, s)' <=> Answer(c, s)
  BY DEF Filled, Answer
<1>2. ASSUME NEW s \in Sessions, NEW i \in DOMAIN queue', Owns(queue'[i], s)
      PROVE  Answer(queue'[i], s)
  BY <1>2 DEF Echo, Answer
<1>3. ASSUME NEW s \in Sessions, NEW t \in Pool, Busy(t)', Owns(job'[t], s)
      PROVE  Answer(job'[t], s)
  BY <1>3 DEF Echo
<1>4. \A s \in Sessions :
        /\ \A i \in 1 .. Len(echoed'[s]) : echoed'[s][i] = i
        /\ "read" \in io'[s] \/ Fresh(s)' => Len(echoed'[s]) = taken'[s]
        /\ "write" \in io'[s] =>
             Filled(s, total'[s]) /\ Len(echoed'[s]) + total'[s] = taken'[s] + done'[s]
  BY DEF Echo
<1> QED
  BY <1>1, <1>2, <1>3, <1>4 DEF Echo

-----------------------------------------------------------------------------
(* The main thread, signals and clients.                                   *)

\* Every step of the main thread keeps the invariant.
LEMMA MainInv ==
  ASSUME IInv, MainStep
  PROVE  IInv'
<1> USE DEF IInv, serverVars, ioVars, sessionVars, clientVars, signalVars
<1>1. CASE Construct
  <2>1. CASE main' = "simulate" /\ UNCHANGED serverVars
    <3>1. Typed'
      BY <1>1, <2>1 DEF Construct, Typed, TypeOK
    <3>2. Owned' /\ Armed'
      BY <1>1, <2>1, QuietTokens DEF Construct, tokenVars, Busy
    <3>3. Echo'
      BY <1>1, <2>1, QuietEcho DEF Construct, Busy, Fresh
    <3> QED
      BY <3>1, <3>2, <3>3
  <2>2. CASE main' = "spawn" /\ start_accept
    <3>1. created = 0 /\ created' = 1 /\ accepting' = 1 /\ accepting = 0
      BY <1>1, <2>2 DEF Construct, Armed, start_accept
    <3>2. Typed'
      BY <1>1, <2>2, <3>1, Constants DEF Construct, Typed, TypeOK
    <3>3. /\ UNCHANGED <<io, queue, job, pool, data_, done, total, taken, echoed>>
      BY <1>1 DEF Construct
    <3>4. \A s \in Sessions : Fresh(s) /\ (Fresh(s)' => Fresh(s))
      BY <3>1, Constants DEF Fresh
    <3>5. \A s \in Sessions : Fresh(s)'
      BY <3>1, Constants DEF Fresh
    <3>6. Owned'
      BY <3>3, <3>4 DEF Owned, Busy
    <3>7. /\ \A i \in DOMAIN queue : ~Carries(queue[i])
          /\ \A t \in Pool : Busy(t) => ~Carries(job[t])
      BY <3>1 DEF Armed
    <3>8. Armed'
      BY <2>2, <3>1, <3>3, <3>7 DEF Armed, Busy
    <3>9. Echo'
      BY <3>3, <3>4, QuietEcho DEF Busy
    <3> QED
      BY <3>2, <3>6, <3>8, <3>9
  <2> QED
    BY <1>1, <2>1, <2>2 DEF Construct
<1>2. ASSUME NEW t \in Pool, Spawn(t) PROVE IInv'
  <2>1. Typed'
    BY <1>2 DEF Spawn, Typed, TypeOK
  <2>2. /\ \A u \in Pool : Busy(u)' <=> Busy(u)
        /\ UNCHANGED <<job, queue, serverVars, ioVars>> /\ main' # "construct"
    BY <1>2 DEF Spawn, Busy, Typed, TypeOK
  <2>3. Owned' /\ Armed'
    BY <2>2, QuietTokens DEF tokenVars
  <2>4. Echo'
    BY <2>2, QuietEcho DEF Fresh
  <2> QED
    BY <2>1, <2>3, <2>4
<1>3. CASE AddSignal \/ JoinThreads
  <2>1. Typed'
    BY <1>3 DEF AddSignal, JoinThreads, all_added, Typed, TypeOK
  <2>2. UNCHANGED <<job, queue, pool, serverVars, ioVars>> /\ main' # "construct"
    BY <1>3 DEF AddSignal, JoinThreads
  <2>3. Owned' /\ Armed'
    BY <2>2, QuietTokens DEF tokenVars, Busy
  <2>4. Echo'
    BY <2>2, QuietEcho DEF Fresh, Busy
  <2> QED
    BY <2>1, <2>3, <2>4
<1>4. CASE WaitSignal
  <2> DEFINE c == Completion("signal", 0, TRUE, 0)
  <2>1. c \in Job /\ c.what = "signal"
    BY Constants DEF Completion, Job
  <2> HIDE DEF c
  <2>2. /\ UNCHANGED <<job, pool, serverVars, ioVars>> /\ main' # "construct"
        /\ queue' = queue \/ queue' = Append(queue, c)
    BY <1>4 DEF WaitSignal, c
  <2>3. queue \in Seq(Job) /\ queue' \in Seq(Job)
    <3>1. queue \in Seq(Job)
      BY DEF Typed
    <3> QED
      BY <2>1, <2>2, <3>1, Appended
  <2>4. {stopped', waiting', raised', signalled'} \subseteq BOOLEAN
    <3>1. waiting' \in BOOLEAN
      BY <1>4 DEF WaitSignal
    <3> QED
      BY <1>4, <3>1 DEF WaitSignal, Typed, TypeOK
  <2>5. Typed'
    BY <1>4, <2>3, <2>4 DEF WaitSignal, Typed, TypeOK
  <2>6. Owned' /\ Armed'
    BY <2>1, <2>2, QuietTokens, SignalTokens DEF tokenVars, Busy
  <2>7. \A s \in Sessions : ~Owns(c, s)
    BY <2>1 DEF Owns
  <2>8. \A s \in Sessions : \A i \in DOMAIN queue' : Owns(queue'[i], s) =>
          i \in DOMAIN queue /\ queue'[i] = queue[i]
    BY <2>1, <2>2, <2>3, <2>7, Appended
  <2>9. Echo'
    BY <2>2, <2>8, QuietEcho DEF Fresh, Busy
  <2> QED
    BY <2>5, <2>6, <2>9
<1> QED
  BY <1>1, <1>2, <1>3, <1>4 DEF MainStep

\* A signal, at any moment.
LEMMA SignalInv ==
  ASSUME IInv, NEW k \in Signals, Signal(k)
  PROVE  IInv'
<1> USE DEF IInv, serverVars, ioVars, sessionVars, clientVars, signalVars
<1> DEFINE c == Completion("signal", 0, TRUE, 0)
<1>1. c \in Job /\ c.what = "signal"
  BY Constants DEF Completion, Job
<1> HIDE DEF c
<1>2. /\ UNCHANGED <<job, pool, stopped, serverVars, ioVars, registered>> /\ main' # "construct"
      /\ queue' = queue \/ queue' = Append(queue, c)
      /\ main' \in {"spawn", "signals", "join", "killed"}
  BY DEF Signal, c
<1>3. queue \in Seq(Job) /\ queue' \in Seq(Job)
  <2>1. queue \in Seq(Job)
    BY DEF Typed
  <2> QED
    BY <1>1, <1>2, <2>1, Appended
<1>4. {stopped', waiting', raised', signalled'} \subseteq BOOLEAN
  <2>1. waiting' \in BOOLEAN /\ raised' \in BOOLEAN /\ signalled' \in BOOLEAN
    BY DEF Signal
  <2> QED
    BY <1>2, <2>1 DEF Typed, TypeOK
<1>5. Typed'
  BY <1>2, <1>3, <1>4 DEF Typed, TypeOK
<1>6. Owned' /\ Armed'
  BY <1>1, <1>2, QuietTokens, SignalTokens DEF tokenVars, Busy
<1>7. \A s \in Sessions : ~Owns(c, s)
  BY <1>1 DEF Owns
<1>8. \A s \in Sessions : \A i \in DOMAIN queue' : Owns(queue'[i], s) =>
        i \in DOMAIN queue /\ queue'[i] = queue[i]
  BY <1>1, <1>2, <1>3, <1>7, Appended
<1>9. Echo'
  BY <1>2, <1>8, QuietEcho DEF Fresh, Busy
<1> QED
  BY <1>5, <1>6, <1>9

\* A client connects, sends or closes.
LEMMA ClientInv ==
  ASSUME IInv, ClientStep
  PROVE  IInv'
<1> USE DEF IInv, serverVars, ioVars, sessionVars, clientVars, signalVars
<1>1. ASSUME NEW ok \in BOOLEAN, Accept(ok) PROVE IInv'
  <2> DEFINE c == Completion("accept", accepting, ok, 0)
             s == accepting
  <2>1. /\ s \in Sessions /\ s = created /\ created < MaxSessions /\ created > 0
        /\ queue' = Append(queue, c) /\ accepting' = 0
        /\ UNCHANGED <<main, pool, job, stopped, created, sessionVars, sent, taken, echoed, signalVars>>
    BY <1>1, Constants DEF Accept, Complete, Armed, Sessions, Typed, TypeOK
  <2>2. c \in Job /\ c.what = "accept" /\ c.s = s
    BY <2>1, Constants DEF Completion, Job, Sessions
  <2> HIDE DEF c
  <2>3. /\ queue' \in Seq(Job)
        /\ DOMAIN queue' = DOMAIN queue \cup {Len(queue) + 1}
        /\ Len(queue) + 1 \notin DOMAIN queue
        /\ \A i \in DOMAIN queue : queue'[i] = queue[i]
        /\ queue'[Len(queue) + 1] = c
    BY <2>1, <2>2, Appended DEF Typed
  <2>4. open' \in [Sessions -> BOOLEAN]
    BY <1>1 DEF Accept, Typed
  <2>5. Typed'
    <3>1. accepting' \in 0 .. created'
      BY <2>1, Constants DEF Typed, TypeOK
    <3> QED
      BY <2>1, <2>3, <2>4, <3>1 DEF Typed, TypeOK
  <2>6. /\ io[s] = {}
        /\ \A i \in DOMAIN queue : ~Owns(queue[i], s)
        /\ \A t \in Pool : Busy(t) => ~Owns(job[t], s)
    BY <2>1 DEF Owned, Fresh
  <2>7. \A r \in Sessions : /\ Fresh(r)' <=> Fresh(r) /\ r # s
                            /\ Owns(c, r) <=> r = s
    BY <2>1, <2>2, Constants DEF Fresh, Owns
  <2>8. Owned'
    <3> SUFFICES ASSUME NEW r \in Sessions
                 PROVE  /\ \A v, w \in io[r] : v = w
                        /\ \A i \in DOMAIN queue' : Owns(queue'[i], r) =>
                             /\ io[r] = {} /\ ~(Fresh(r) /\ r # s)
                             /\ \A j \in DOMAIN queue' : Owns(queue'[j], r) => i = j
                             /\ \A t \in Pool : Busy(t) => ~Owns(job[t], r)
                        /\ \A t \in Pool : Busy(t) /\ Owns(job[t], r) =>
                             /\ io[r] = {} /\ ~(Fresh(r) /\ r # s)
                             /\ \A u \in Pool : Busy(u) /\ Owns(job[u], r) => t = u
                        /\ Fresh(r) => io[r] = {}
      BY <2>1, <2>7 DEF Owned, Busy
    <3>1. CASE r = s
      BY <2>3, <2>6, <2>7, <3>1
    <3>2. CASE r # s
      BY <2>3, <2>7, <3>2 DEF Owned
    <3> QED
      BY <3>1, <3>2
  <2>9. /\ \A i \in DOMAIN queue : ~Carries(queue[i])
        /\ \A t \in Pool : Busy(t) => ~Carries(job[t])
    BY <2>1 DEF Armed
  <2>10. Armed'
    BY <2>1, <2>2, <2>3, <2>9 DEF Armed, Last, Busy, Carries
  <2>11. /\ \A r, n : Filled(r, n)' <=> Filled(r, n)
         /\ \A d, r : Answer(d, r)' <=> Answer(d, r)
    BY <2>1 DEF Filled, Answer
  <2>12. Answer(c, s)
    BY <2>1, <2>2 DEF Answer, Echo, Fresh
  <2>13. \A r \in Sessions : \A i \in DOMAIN queue' : Owns(queue'[i], r) => Answer(queue'[i], r)
    BY <2>3, <2>7, <2>12 DEF Echo
  <2>14. Echo'
    BY <2>1, <2>7, <2>11, <2>13 DEF Echo, Busy
  <2> QED
    BY <2>5, <2>8, <2>10, <2>14
<1>2. ASSUME NEW s \in Sessions, Send(s) \/ Close(s) PROVE IInv'
  <2>1. UNCHANGED <<main, pool, job, queue, stopped, serverVars, sessionVars, taken, echoed, signalVars>>
    BY <1>2 DEF Send, Close
  <2>2. /\ sent' \in [Sessions -> Nat]
        /\ \A r \in Sessions : taken[r] <= sent'[r] /\ sent'[r] <= MaxBytes
    BY <1>2, Constants DEF Send, Close, Typed
  <2>3. open' \in [Sessions -> BOOLEAN]
    BY <1>2 DEF Send, Close, Typed
  <2>4. Typed'
    BY <2>1, <2>2, <2>3 DEF Typed, TypeOK
  <2>5. Owned' /\ Armed'
    BY <2>1, QuietTokens DEF tokenVars, Busy
  <2>6. Echo'
    BY <2>1, QuietEcho DEF Fresh, Busy
  <2> QED
    BY <2>4, <2>5, <2>6
<1> QED
  BY <1>1, <1>2 DEF ClientStep

-----------------------------------------------------------------------------
(* The threads of the pool.                                                *)

\* A handler that ends leaves the types intact.
LEMMA FinishTyped ==
  ASSUME Typed, NEW t \in Pool, FinishHandler(t)
  PROVE  /\ pool' \in [Pool -> {"none", "idle", "busy", "ended"}] /\ job' \in [Pool -> Job]
         /\ ~Busy(t)'
         /\ \A u \in Pool : u # t => pool'[u] = pool[u] /\ job'[u] = job[u]
<1>1. NoJob \in Job
  BY Constants DEF NoJob, Completion, Job
<1> QED
  BY <1>1 DEF FinishHandler, Typed, TypeOK, Busy

\* run() returns in a thread.
LEMMA ReturnInv ==
  ASSUME IInv, NEW t \in Pool, Return(t)
  PROVE  IInv'
<1> USE DEF IInv, serverVars, ioVars, sessionVars, clientVars, signalVars
<1>1. /\ UNCHANGED <<main, job, queue, serverVars, ioVars, signalVars>>
      /\ \A u \in Pool : Busy(u)' <=> Busy(u)
  BY DEF Return, Busy, Typed, TypeOK
<1>2. stopped' \in BOOLEAN
  BY DEF Return
<1>3. Typed'
  BY <1>1, <1>2 DEF Return, Typed, TypeOK
<1>4. Owned' /\ Armed'
  BY <1>1, QuietTokens DEF tokenVars
<1>5. Echo'
  BY <1>1, QuietEcho DEF Fresh
<1> QED
  BY <1>3, <1>4, <1>5

\* The first half of the accept handler: the session passes from the handler to
\* its first read.
LEMMA HandleAcceptInv ==
  ASSUME IInv, NEW t \in Pool, HandleAccept(t)
  PROVE  IInv'
<1> USE DEF IInv, serverVars, ioVars, sessionVars, clientVars, signalVars
<1> DEFINE s == job[t].s
<1>1. /\ Busy(t) /\ job[t].what = "accept" /\ Carries(job[t])
      /\ UNCHANGED <<main, pool, queue, stopped, serverVars, data_, done, total, clientVars, signalVars>>
  BY DEF HandleAccept, Runs, Busy, Carries
<1>2. s = created /\ s \in Sessions /\ accepting = 0 /\ Owns(job[t], s) /\ created > 0
  <2>1. s = created /\ created < MaxSessions /\ created > 0 /\ accepting = 0
    BY <1>1 DEF Armed, Last
  <2>2. created \in Nat
    BY Constants DEF Typed, TypeOK
  <2> QED
    BY <1>1, <2>1, <2>2, Constants DEF Sessions, Owns
<1>3. /\ job' \in [Pool -> Job]
      /\ job'[t].what = "rearm" /\ job'[t].s = s
      /\ \A u \in Pool : u # t => job'[u] = job[u]
  BY DEF HandleAccept, Typed, Job
<1>4. /\ io[s] = {} /\ ~Fresh(s)
      /\ \A i \in DOMAIN queue : ~Owns(queue[i], s)
      /\ \A u \in Pool : Busy(u) /\ Owns(job[u], s) => u = t
  BY <1>1, <1>2 DEF Owned
<1>5. /\ io' \in [Sessions -> SUBSET {"read", "write"}]
      /\ \A r \in Sessions : r # s => io'[r] = io[r]
      /\ io'[s] \subseteq {"read"} /\ (io'[s] # {} => job[t].ok)
  BY <1>2, <1>4 DEF HandleAccept, Typed, TypeOK
<1>6. Typed'
  BY <1>1, <1>3, <1>5 DEF Typed, TypeOK
<1>7. \A r : ~Owns(job'[t], r)
  BY <1>3 DEF Owns
<1>8. \A r : Fresh(r)' <=> Fresh(r)
  BY <1>1 DEF Fresh
<1>9. Owned'
  <2> SUFFICES ASSUME NEW r \in Sessions
               PROVE  /\ \A v, w \in io'[r] : v = w
                      /\ \A i \in DOMAIN queue : Owns(queue[i], r) =>
                           /\ io'[r] = {} /\ ~Fresh(r)
                           /\ \A j \in DOMAIN queue : Owns(queue[j], r) => i = j
                           /\ \A u \in Pool : Busy(u) => ~Owns(job'[u], r)
                      /\ \A u \in Pool : Busy(u) /\ Owns(job'[u], r) =>
                           /\ io'[r] = {} /\ ~Fresh(r)
                           /\ \A v \in Pool : Busy(v) /\ Owns(job'[v], r) => u = v
                      /\ Fresh(r) => io'[r] = {}
    BY <1>1, <1>8 DEF Owned, Busy
  <2>1. CASE r = s
    BY <1>3, <1>4, <1>5, <1>7, <2>1
  <2>2. CASE r # s
    BY <1>3, <1>5, <1>7, <2>2 DEF Owned
  <2> QED
    BY <2>1, <2>2
<1>10. Armed'
  <2>1. Carries(job'[t]) /\ Last(job'[t])
    BY <1>1, <1>2, <1>3 DEF Carries, Last, Armed
  <2>2. \A i \in DOMAIN queue : ~Carries(queue[i])
    BY <1>1 DEF Armed
  <2>3. \A u \in Pool : Busy(u) /\ Carries(job[u]) => u = t
    BY <1>1 DEF Armed
  <2> QED
    BY <1>1, <1>2, <1>3, <2>1, <2>2, <2>3 DEF Armed, Busy, Last
<1>11. Echo'
  <2>1. /\ \A r, n : Filled(r, n)' <=> Filled(r, n)
        /\ \A d, r : Answer(d, r)' <=> Answer(d, r)
    BY <1>1 DEF Filled, Answer
  <2>2. "read" \in io'[s] => Len(echoed[s]) = taken[s]
    BY <1>1, <1>2, <1>5 DEF Echo, Answer
  <2>3. \A r \in Sessions, u \in Pool : Busy(u) /\ Owns(job'[u], r) => Answer(job'[u], r)
    BY <1>3, <1>7 DEF Echo
  <2> QED
    BY <1>1, <1>5, <1>8, <2>1, <2>2, <2>3 DEF Echo, Busy
<1> QED
  BY <1>6, <1>9, <1>10, <1>11

\* The second half: the next session object is created, and accepted next.
LEMMA AcceptNextInv ==
  ASSUME IInv, NEW t \in Pool, AcceptNext(t)
  PROVE  IInv'
<1> USE DEF IInv, serverVars, ioVars, sessionVars, clientVars, signalVars
<1>1. /\ Busy(t) /\ job[t].what = "rearm" /\ Carries(job[t]) /\ FinishHandler(t)
      /\ created' = created + 1 /\ accepting' = created + 1
      /\ UNCHANGED <<main, queue, stopped, ioVars, signalVars>>
  BY DEF AcceptNext, Runs, Busy, Carries, start_accept
<1>2. created \in Nat /\ created > 0 /\ created < MaxSessions /\ accepting = 0
  BY <1>1 DEF Armed, Last, Typed, TypeOK
<1>3. /\ pool' \in [Pool -> {"none", "idle", "busy", "ended"}] /\ job' \in [Pool -> Job]
      /\ ~Busy(t)'
      /\ \A u \in Pool : u # t => pool'[u] = pool[u] /\ job'[u] = job[u]
  BY <1>1, FinishTyped
<1>4. Typed'
  <2>1. created' \in 0 .. MaxSessions /\ accepting' \in 0 .. created'
    BY <1>1, <1>2, Constants
  <2> QED
    BY <1>1, <1>3, <2>1 DEF Typed, TypeOK
<1>5. \A s \in Sessions : Fresh(s)' <=> Fresh(s)
  <2> SUFFICES ASSUME NEW s \in Sessions PROVE Fresh(s)' <=> Fresh(s)
    OBVIOUS
  <2>1. s \in Nat /\ s # 0
    BY Constants
  <2>2. s > created + 1 \/ s = created + 1 <=> s > created
    BY <1>2, <2>1
  <2> QED
    BY <1>1, <1>2, <2>1, <2>2 DEF Fresh
<1>6. Owned'
  BY <1>1, <1>3, <1>5 DEF Owned, Busy
<1>7. /\ \A i \in DOMAIN queue : ~Carries(queue[i])
      /\ \A u \in Pool : Busy(u) /\ Carries(job[u]) => u = t
  BY <1>1 DEF Armed
<1>8. Armed'
  <2>1. \A u \in Pool : Busy(u)' => ~Carries(job'[u])
    BY <1>3, <1>7 DEF Busy
  <2>2. main' # "construct"
    BY <1>1, <1>2 DEF Armed
  <2> QED
    BY <1>1, <1>7, <2>1, <2>2 DEF Armed
<1>9. Echo'
  BY <1>1, <1>3, <1>5, QuietEcho DEF Busy
<1> QED
  BY <1>4, <1>6, <1>8, <1>9

\* handle_read: what was read is written.
LEMMA HandleReadInv ==
  ASSUME IInv, NEW t \in Pool, handle_read(t)
  PROVE  IInv'
<1> USE DEF IInv, serverVars, ioVars, sessionVars, clientVars, signalVars
<1> DEFINE s == job[t].s
<1>1. /\ Busy(t) /\ job[t].what = "read" /\ ~Carries(job[t]) /\ FinishHandler(t)
      /\ io' = IF job[t].ok THEN [io EXCEPT ![s] = @ \cup {"write"}] ELSE io
      /\ done' = [done EXCEPT ![s] = 0] /\ total' = [total EXCEPT ![s] = job[t].n]
      /\ UNCHANGED <<main, queue, stopped, serverVars, data_, clientVars, signalVars>>
  BY DEF handle_read, Runs, Busy, Carries
<1>2. /\ pool' \in [Pool -> {"none", "idle", "busy", "ended"}] /\ job' \in [Pool -> Job]
      /\ ~Busy(t)'
      /\ \A u \in Pool : u # t => pool'[u] = pool[u] /\ job'[u] = job[u]
  BY <1>1, FinishTyped
<1>3. job[t].n \in 0 .. max_length
  BY DEF Typed, Job
<1>4. Typed'
  <2>1. /\ io' \in [Sessions -> SUBSET {"read", "write"}]
        /\ done' \in [Sessions -> 0 .. max_length] /\ total' \in [Sessions -> 0 .. max_length]
    <3>1. 0 \in 0 .. max_length
      BY Constants
    <3>2. io' \in [Sessions -> SUBSET {"read", "write"}]
      BY <1>1 DEF Typed, TypeOK
    <3> QED
      BY <1>1, <1>3, <3>1, <3>2 DEF Typed, TypeOK
  <2> QED
    BY <1>1, <1>2, <2>1 DEF Typed, TypeOK
<1>5. Owned' /\ Armed'
  BY <1>1, HandledTokens
<1>6. ASSUME NEW r \in Sessions
      PROVE  "write" \in io'[r] =>
               Filled(r, total'[r]) /\ Len(echoed[r]) + total'[r] = taken[r] + done'[r]
  <2>1. CASE r # s
    BY <1>1, <2>1 DEF Echo, Typed, TypeOK
  <2>2. CASE r = s /\ job[t].ok
    <3>1. Owns(job[t], r) /\ Answer(job[t], r)
      BY <1>1, <2>2 DEF Owns, Echo
    <3>2. total'[r] = job[t].n /\ done'[r] = 0
      BY <1>1, <2>2 DEF Typed, TypeOK
    <3>3. echoed[r] \in Seq(Nat) /\ taken[r] \in Nat
      BY DEF Typed
    <3> QED
      BY <1>1, <1>3, <2>2, <3>1, <3>2, <3>3 DEF Answer
  <2>3. CASE r = s /\ ~job[t].ok
    <3>1. Owns(job[t], r) /\ io'[r] = io[r]
      BY <1>1, <2>3 DEF Owns
    <3>2. io[r] = {}
      BY <1>1, <3>1 DEF Owned
    <3> QED
      BY <3>1, <3>2
  <2> QED
    BY <2>1, <2>2, <2>3
<1>7. Echo'
  <2>1. /\ \A r, n : Filled(r, n)' <=> Filled(r, n)
        /\ \A d, r : Answer(d, r)' <=> Answer(d, r)
        /\ \A r : Fresh(r)' <=> Fresh(r)
    BY <1>1 DEF Filled, Answer, Fresh
  <2>2. \A r \in Sessions : "read" \in io'[r] => "read" \in io[r]
    BY <1>1 DEF Typed, TypeOK
  <2>3. \A r \in Sessions, u \in Pool : Busy(u)' /\ Owns(job'[u], r) => Answer(job'[u], r)
    BY <1>2 DEF Echo, Busy
  <2> QED
    BY <1>1, <1>6, <2>1, <2>2, <2>3 DEF Echo
<1> QED
  BY <1>4, <1>5, <1>7

\* handle_write: the next read is started when everything is written.
LEMMA HandleWriteInv ==
  ASSUME IInv, NEW t \in Pool, handle_write(t)
  PROVE  IInv'
<1> USE DEF IInv, serverVars, ioVars, sessionVars, clientVars, signalVars
<1> DEFINE s == job[t].s
<1>1. /\ Busy(t) /\ job[t].what = "write" /\ ~Carries(job[t]) /\ FinishHandler(t)
      /\ io' = IF job[t].ok THEN [io EXCEPT ![s] = @ \cup {"read"}] ELSE io
      /\ UNCHANGED <<main, queue, stopped, serverVars, data_, done, total, clientVars, signalVars>>
  BY DEF handle_write, Runs, Busy, Carries
<1>2. /\ pool' \in [Pool -> {"none", "idle", "busy", "ended"}] /\ job' \in [Pool -> Job]
      /\ ~Busy(t)'
      /\ \A u \in Pool : u # t => pool'[u] = pool[u] /\ job'[u] = job[u]
  BY <1>1, FinishTyped
<1>3. Typed'
  BY <1>1, <1>2 DEF Typed, TypeOK
<1>4. Owned' /\ Armed'
  BY <1>1, HandledTokens
<1>5. ASSUME NEW r \in Sessions, "read" \in io'[r]
      PROVE  Len(echoed[r]) = taken[r]
  <2>1. CASE "read" \in io[r]
    BY <2>1 DEF Echo
  <2>2. CASE "read" \notin io[r]
    <3>1. r = s /\ job[t].ok
      BY <1>1, <1>5, <2>2 DEF Typed, TypeOK
    <3>2. Owns(job[t], r) /\ Answer(job[t], r)
      BY <1>1, <3>1 DEF Owns, Echo
    <3> QED
      BY <1>1, <3>1, <3>2 DEF Answer
  <2> QED
    BY <2>1, <2>2
<1>6. Echo'
  <2>1. /\ \A r, n : Filled(r, n)' <=> Filled(r, n)
        /\ \A d, r : Answer(d, r)' <=> Answer(d, r)
        /\ \A r : Fresh(r)' <=> Fresh(r)
    BY <1>1 DEF Filled, Answer, Fresh
  <2>2. \A r \in Sessions : "write" \in io'[r] => "write" \in io[r]
    BY <1>1 DEF Typed, TypeOK
  <2>3. \A r \in Sessions, u \in Pool : Busy(u)' /\ Owns(job'[u], r) => Answer(job'[u], r)
    BY <1>2 DEF Echo, Busy
  <2> QED
    BY <1>1, <1>5, <2>1, <2>2, <2>3 DEF Echo
<1> QED
  BY <1>3, <1>4, <1>6

\* The handler of a signal stops the context and ends.
LEMMA HandleSignalInv ==
  ASSUME IInv, NEW t \in Pool, HandleSignal(t)
  PROVE  IInv'
<1> USE DEF IInv, serverVars, ioVars, sessionVars, clientVars, signalVars
<1>1. /\ Busy(t) /\ ~Carries(job[t]) /\ FinishHandler(t)
      /\ UNCHANGED <<main, queue, serverVars, ioVars, signalVars>>
  BY DEF HandleSignal, Runs, Busy, Carries
<1>2. /\ pool' \in [Pool -> {"none", "idle", "busy", "ended"}] /\ job' \in [Pool -> Job]
      /\ ~Busy(t)'
      /\ \A u \in Pool : u # t => pool'[u] = pool[u] /\ job'[u] = job[u]
  BY <1>1, FinishTyped
<1>3. stopped' \in BOOLEAN
  BY DEF HandleSignal
<1>4. Typed'
  BY <1>1, <1>2, <1>3 DEF Typed, TypeOK
<1>5. Owned' /\ Armed'
  BY <1>1, HandledTokens
<1>6. Echo'
  BY <1>1, <1>2, QuietEcho DEF Busy, Fresh
<1> QED
  BY <1>4, <1>5, <1>6

-----------------------------------------------------------------------------
(* The operations of a session.                                            *)

\* The part of Echo about completions and handlers.
LEMMA AnswerKnown ==
  ASSUME Echo, NEW s \in Sessions
  PROVE  /\ \A i \in DOMAIN queue : Owns(queue[i], s) => Answer(queue[i], s)
         /\ \A t \in Pool : Busy(t) /\ Owns(job[t], s) => Answer(job[t], s)
  BY DEF Echo

\* An operation of s that completes with c leaves the other sessions alone.
LEMMA SessionEcho ==
  ASSUME NEW s \in Sessions, NEW c,
         \A r \in Sessions : r # s => \A d : Answer(d, r)' <=> Answer(d, r),
         \A r \in Sessions : \A i \in DOMAIN queue' : Owns(queue'[i], r) =>
            (r # s /\ Answer(queue'[i], r)) \/ (r = s /\ queue'[i] = c /\ Answer(c, s)'),
         \A r \in Sessions : \A t \in Pool : Busy(t)' /\ Owns(job'[t], r) =>
            r # s /\ Answer(job'[t], r),
         \A r \in Sessions :
            /\ \A i \in 1 .. Len(echoed'[r]) : echoed'[r][i] = i
            /\ "read" \in io'[r] \/ Fresh(r)' => Len(echoed'[r]) = taken'[r]
            /\ "write" \in io'[r] =>
                 Filled(r, total[r])' /\ Len(echoed'[r]) + total'[r] = taken'[r] + done'[r]
  PROVE  Echo'
  BY DEF Echo

\* A read completes with n bytes.
LEMMA ReadSomeInv ==
  ASSUME IInv, NEW s \in Sessions, NEW n \in ReadSizes(s), ReadSome(s, n)
  PROVE  IInv'
<1> USE DEF IInv, serverVars, ioVars, sessionVars, clientVars, signalVars
<1> DEFINE c == Completion("read", s, TRUE, n)
<1>1. /\ "read" \in io[s] /\ io' = [io EXCEPT ![s] = @ \ {"read"}] /\ queue' = Append(queue, c)
      /\ UNCHANGED <<main, pool, job, stopped, serverVars, done, total, open, sent, echoed, signalVars>>
  BY DEF ReadSome, Complete
<1>2. /\ n \in 1 .. max_length /\ n + taken[s] <= sent[s]
      /\ taken[s] \in Nat /\ sent[s] \in Nat /\ sent[s] <= MaxBytes
  <2>1. taken[s] \in Nat /\ sent[s] \in Nat /\ sent[s] <= MaxBytes /\ taken[s] <= sent[s]
    BY DEF Typed
  <2> QED
    BY <2>1, Constants DEF ReadSizes
<1>3. c \in Job /\ c.what = "read" /\ c.s = s /\ c.n = n
  BY <1>2, Constants DEF Completion, Job, Sessions
<1> HIDE DEF c
<1>4. /\ queue' \in Seq(Job)
      /\ DOMAIN queue' = DOMAIN queue \cup {Len(queue) + 1}
      /\ \A i \in DOMAIN queue : queue'[i] = queue[i]
      /\ queue'[Len(queue) + 1] = c
  <2>1. queue \in Seq(Job)
    BY DEF Typed
  <2> QED
    BY <1>1, <1>3, <2>1, Appended
<1>5. /\ taken' \in [Sessions -> Nat] /\ taken'[s] = taken[s] + n
      /\ \A r \in Sessions : r # s => taken'[r] = taken[r]
  BY <1>2 DEF ReadSome, Typed
<1>6. /\ data_' \in [Sessions -> [1 .. max_length -> 0 .. MaxBytes]]
      /\ \A i \in 1 .. n : data_'[s][i] = taken[s] + i
      /\ \A r \in Sessions : r # s => data_'[r] = data_[r]
  <2> DEFINE b == [i \in 1 .. max_length |-> IF i <= n THEN taken[s] + i ELSE data_[s][i]]
  <2>1. data_ \in [Sessions -> [1 .. max_length -> 0 .. MaxBytes]]
    BY DEF Typed, TypeOK
  <2>2. data_' = [data_ EXCEPT ![s] = b]
    BY DEF ReadSome
  <2>3. \A i \in 1 .. max_length : i <= n => taken[s] + i \in 0 .. MaxBytes
    BY <1>2, Constants
  <2>4. b \in [1 .. max_length -> 0 .. MaxBytes]
    BY <2>1, <2>3
  <2>5. \A i \in 1 .. n : b[i] = taken[s] + i
    BY <1>2, Constants
  <2> HIDE DEF b
  <2> QED
    BY <2>1, <2>2, <2>4, <2>5
<1>7. Typed'
  <2>1. ASSUME NEW r \in Sessions PROVE taken'[r] <= sent[r] /\ sent[r] <= MaxBytes
    <3>1. taken[r] <= sent[r] /\ sent[r] <= MaxBytes
      BY DEF Typed
    <3>2. CASE r = s
      BY <1>2, <1>5, <3>1, <3>2
    <3>3. CASE r # s
      BY <1>5, <3>1, <3>3
    <3> QED
      BY <3>2, <3>3
  <2>2. io' \in [Sessions -> SUBSET {"read", "write"}]
    BY <1>1 DEF Typed, TypeOK
  <2> QED
    BY <1>1, <1>4, <1>5, <1>6, <2>1, <2>2 DEF Typed, TypeOK
<1>8. Owned' /\ Armed'
  BY <1>1, <1>3, CompletedTokens
<1>9. /\ ~Fresh(s) /\ io'[s] = {} /\ Len(echoed[s]) = taken[s]
      /\ \A i \in DOMAIN queue : ~Owns(queue[i], s)
      /\ \A t \in Pool : Busy(t) => ~Owns(job[t], s)
      /\ \A r \in Sessions : r # s => io'[r] = io[r]
  BY <1>1 DEF Owned, Echo, Typed, TypeOK
<1>10. Echo'
  <2>1. ASSUME NEW r \in Sessions, r # s
        PROVE  /\ \A k : Filled(r, k)' <=> Filled(r, k)
               /\ \A d : Answer(d, r)' <=> Answer(d, r)
               /\ Fresh(r)' <=> Fresh(r)
               /\ ~Owns(c, r)
    BY <1>1, <1>3, <1>5, <1>6, <2>1 DEF Filled, Answer, Fresh, Owns
  <2>2. Filled(s, n)'
    BY <1>2, <1>5, <1>6 DEF Filled
  <2>3. Answer(c, s)'
    BY <1>1, <1>2, <1>3, <1>5, <1>9, <2>2 DEF Answer
  <2>4. ~Fresh(s)'
    BY <1>1, <1>9 DEF Fresh
  <2>5. ASSUME NEW r \in Sessions, NEW i \in DOMAIN queue', Owns(queue'[i], r)
        PROVE  (r # s /\ Answer(queue'[i], r)) \/ (r = s /\ queue'[i] = c)
    <3>1. CASE i \in DOMAIN queue
      <4>1. queue'[i] = queue[i]
        BY <1>4, <3>1
      <4>2. r # s /\ Answer(queue[i], r)
        BY <1>9, <2>5, <3>1, <4>1, AnswerKnown
      <4> QED
        BY <4>1, <4>2
    <3>2. CASE i \notin DOMAIN queue
      <4>1. queue'[i] = c
        BY <1>4, <3>2
      <4> QED
        BY <1>3, <2>5, <4>1 DEF Owns
    <3> QED
      BY <3>1, <3>2
  <2>6. ASSUME NEW r \in Sessions, NEW t \in Pool, Busy(t), Owns(job[t], r)
        PROVE  r # s /\ Answer(job[t], r)
    BY <1>9, <2>6, AnswerKnown
  <2>7. ASSUME NEW r \in Sessions
        PROVE  /\ \A i \in 1 .. Len(echoed[r]) : echoed[r][i] = i
               /\ "read" \in io'[r] \/ Fresh(r)' => Len(echoed[r]) = taken'[r]
               /\ "write" \in io'[r] =>
                    Filled(r, total[r])' /\ Len(echoed[r]) + total[r] = taken'[r] + done[r]
    BY <1>1, <1>5, <1>9, <2>1, <2>4 DEF Echo
  <2> QED
    BY <1>1, <2>1, <2>3, <2>5, <2>6, <2>7, SessionEcho DEF Busy
<1> QED
  BY <1>7, <1>8, <1>10

\* What a write sends follows what the client got before.
LEMMA Written ==
  ASSUME NEW e \in Seq(Nat), NEW d \in Seq(Nat), NEW from \in Nat, NEW n \in Nat,
         from + n <= Len(d),
         \A i \in 1 .. Len(e) : e[i] = i,
         \A k \in Nat : k \in 1 .. n => d[from + k] = Len(e) + k
  PROVE  LET p == SubSeq(d, from + 1, from + n)
         IN  /\ e \o p \in Seq(Nat) /\ Len(e \o p) = Len(e) + n
             /\ \A i \in 1 .. Len(e \o p) : (e \o p)[i] = i
<1> DEFINE p == SubSeq(d, from + 1, from + n)
<1>1. p \in Seq(Nat) /\ Len(p) = n
  <2>1. \A i \in (from + 1) .. (from + n) : d[i] \in Nat
    OBVIOUS
  <2> QED
    BY <2>1
<1>2. ASSUME NEW k \in Nat, k \in 1 .. n PROVE p[k] = Len(e) + k
  <2>1. p[k] = d[from + 1 + k - 1]
    BY <1>2
  <2>2. from + 1 + k - 1 = from + k
    OBVIOUS
  <2> QED
    BY <1>2, <2>1, <2>2
<1> HIDE DEF p
<1>3. e \o p \in Seq(Nat) /\ Len(e \o p) = Len(e) + n
  BY <1>1, ConcatProperties
<1>4. ASSUME NEW i \in 1 .. Len(e \o p) PROVE (e \o p)[i] = i
  <2>1. Len(e) \in Nat /\ i \in Nat /\ i <= Len(e) + n /\ i >= 1
    BY <1>3
  <2>2. CASE i <= Len(e)
    BY <1>1, <2>1, <2>2
  <2>3. CASE i > Len(e)
    <3>1. i - Len(e) \in Nat /\ i - Len(e) \in 1 .. n
      BY <2>1, <2>3
    <3>2. p[i - Len(e)] = Len(e) + (i - Len(e))
      BY <1>2, <3>1
    <3>3. (e \o p)[i] = p[i - Len(e)]
      BY <1>1, <2>1, <2>3
    <3> QED
      BY <2>1, <3>2, <3>3
  <2> QED
    BY <2>1, <2>2, <2>3
<1> QED
  BY <1>3, <1>4 DEF p

\* A write stays within the buffer: d of l bytes are sent.
LEMMA WriteRange ==
  ASSUME NEW d \in Nat, NEW n \in Nat, NEW l \in Nat, NEW m \in Nat, d + n <= l, l <= m
  PROVE  /\ d + n \in 0 .. m
         /\ \A k \in 1 .. n : d + k \in 1 .. l /\ d + k \in 1 .. m
  OBVIOUS

\* A part of a write leaves, perhaps the last one.
LEMMA WriteSomeInv ==
  ASSUME IInv, NEW s \in Sessions, NEW n \in 1 .. max_length, WriteSome(s, n)
  PROVE  IInv'
<1> USE DEF IInv, serverVars, ioVars, sessionVars, clientVars, signalVars
<1> DEFINE c    == Completion("write", s, TRUE, 0)
           part == SubSeq(data_[s], done[s] + 1, done[s] + n)
<1>1. /\ "write" \in io[s] /\ done[s] + n <= total[s]
      /\ echoed' = [echoed EXCEPT ![s] = @ \o part] /\ done' = [done EXCEPT ![s] = @ + n]
      /\ UNCHANGED <<main, pool, job, stopped, serverVars, data_, total, open, sent, taken, signalVars>>
      /\ \/ /\ done[s] + n = total[s]
            /\ io' = [io EXCEPT ![s] = @ \ {"write"}] /\ queue' = Append(queue, c)
         \/ UNCHANGED <<io, queue>>
  BY DEF WriteSome, Complete
<1>2. /\ n \in Nat /\ done[s] \in Nat /\ total[s] \in 0 .. max_length /\ taken[s] \in Nat
      /\ echoed[s] \in Seq(Nat) /\ data_[s] \in [1 .. max_length -> 0 .. MaxBytes]
      /\ max_length \in Nat /\ MaxBytes \in Nat
  BY Constants DEF Typed, TypeOK
<1>3. /\ Filled(s, total[s]) /\ Len(echoed[s]) + total[s] = taken[s] + done[s]
      /\ \A i \in 1 .. Len(echoed[s]) : echoed[s][i] = i
  BY <1>1 DEF Echo
<1>4. Len(echoed[s]) \in Nat /\ total[s] \in Nat /\ total[s] <= max_length
  BY <1>2
<1>a. /\ done[s] + n \in 0 .. max_length
      /\ (Len(echoed[s]) + n) + total[s] = taken[s] + (done[s] + n)
      /\ done[s] + n = total[s] => Len(echoed[s]) + n = taken[s]
      /\ \A k \in 1 .. n : done[s] + k \in 1 .. total[s] /\ done[s] + k \in 1 .. max_length
      /\ \A k \in 1 .. n : \A x \in Nat :
           x + total[s] = taken[s] + (done[s] + k) => x = Len(echoed[s]) + k
  <2>1. done[s] + n <= total[s] /\ Len(echoed[s]) + total[s] = taken[s] + done[s]
    BY <1>1, <1>3
  <2> QED
    <3>1. /\ done[s] + n \in 0 .. max_length
          /\ \A k \in 1 .. n : done[s] + k \in 1 .. total[s] /\ done[s] + k \in 1 .. max_length
      BY <1>2, <1>4, <2>1, WriteRange, Zenon
    <3>2. /\ (Len(echoed[s]) + n) + total[s] = taken[s] + (done[s] + n)
          /\ done[s] + n = total[s] => Len(echoed[s]) + n = taken[s]
          /\ \A k \in 1 .. n : \A x \in Nat :
               x + total[s] = taken[s] + (done[s] + k) => x = Len(echoed[s]) + k
      <4> DEFINE d == done[s]
                 l == total[s]
                 t == taken[s]
                 e == Len(echoed[s])
      <4>1. d \in Nat /\ l \in Nat /\ t \in Nat /\ e \in Nat /\ n \in Nat /\ e + l = t + d
        BY <1>2, <1>4, <2>1
      <4> HIDE DEF d, l, t, e
      <4>2. /\ (e + n) + l = t + (d + n)
            /\ d + n = l => e + n = t
            /\ \A k \in 1 .. n : \A x \in Nat : x + l = t + (d + k) => x = e + k
        BY <4>1
      <4> QED
        BY <4>2 DEF d, l, t, e
    <3> QED
      BY <3>1, <3>2
<1>5. ASSUME NEW k \in Nat, k \in 1 .. n PROVE data_[s][done[s] + k] = Len(echoed[s]) + k
  <2>1. done[s] + k \in 1 .. total[s] /\ done[s] + k \in 1 .. max_length
    BY <1>a, <1>5
  <2>2. data_[s][done[s] + k] + total[s] = taken[s] + (done[s] + k)
    BY <1>3, <2>1 DEF Filled
  <2>3. data_[s][done[s] + k] \in Nat
    BY <1>2, <2>1
  <2> QED
    BY <1>a, <1>5, <2>2, <2>3
<1>6. /\ echoed[s] \o part \in Seq(Nat) /\ Len(echoed[s] \o part) = Len(echoed[s]) + n
      /\ \A i \in 1 .. Len(echoed[s] \o part) : (echoed[s] \o part)[i] = i
  <2>1. data_[s] \in Seq(Nat) /\ Len(data_[s]) = max_length
    <3>1. data_[s] \in [1 .. max_length -> Nat]
      BY <1>2
    <3> QED
      BY <1>2, <3>1
  <2> QED
    <3>1. done[s] + n <= Len(data_[s])
      BY <1>2, <1>a, <2>1
    <3>2. \A k \in Nat : k \in 1 .. n => data_[s][done[s] + k] = Len(echoed[s]) + k
      BY <1>5
    <3>3. \A i \in 1 .. Len(echoed[s]) : echoed[s][i] = i
      BY <1>3
    <3> QED
      BY <1>2, <2>1, <3>1, <3>2, <3>3, Written, Zenon
<1> HIDE DEF part
<1>7. /\ echoed' \in [Sessions -> Seq(Nat)] /\ echoed'[s] = echoed[s] \o part
      /\ \A r \in Sessions : r # s => echoed'[r] = echoed[r]
      /\ done' \in [Sessions -> 0 .. max_length] /\ done'[s] = done[s] + n
      /\ \A r \in Sessions : r # s => done'[r] = done[r]
  <2>1. done[s] + n \in 0 .. max_length
    BY <1>a
  <2>2. echoed \in [Sessions -> Seq(Nat)] /\ done \in [Sessions -> 0 .. max_length]
    BY DEF Typed, TypeOK
  <2> QED
    BY <1>1, <1>6, <2>1, <2>2
<1>8. c \in Job /\ c.what = "write" /\ c.s = s
  BY <1>2, Constants DEF Completion, Job, Sessions
<1> HIDE DEF c
<1>9. queue \in Seq(Job) /\ queue' \in Seq(Job)
  <2>1. queue \in Seq(Job)
    BY DEF Typed
  <2> QED
    BY <1>1, <1>8, <2>1, Appended
<1>10. io' \in [Sessions -> SUBSET {"read", "write"}]
  <2>1. io \in [Sessions -> SUBSET {"read", "write"}]
    BY DEF Typed, TypeOK
  <2>2. CASE UNCHANGED <<io, queue>>
    BY <2>1, <2>2
  <2>3. CASE io' = [io EXCEPT ![s] = @ \ {"write"}]
    BY <2>1, <2>3
  <2> QED
    BY <1>1, <2>2, <2>3
<1>11. Typed'
  BY <1>1, <1>7, <1>9, <1>10 DEF Typed, TypeOK
<1>12. Owned' /\ Armed'
  <2>1. CASE UNCHANGED <<io, queue>>
    BY <1>1, <2>1, QuietTokens DEF tokenVars, Busy
  <2>2. CASE io' = [io EXCEPT ![s] = @ \ {"write"}] /\ queue' = Append(queue, c)
    BY <1>1, <1>8, <2>2, CompletedTokens
  <2> QED
    BY <1>1, <2>1, <2>2
<1>13. /\ ~Fresh(s) /\ "read" \notin io[s]
       /\ \A i \in DOMAIN queue : ~Owns(queue[i], s)
       /\ \A t \in Pool : Busy(t) => ~Owns(job[t], s)
  BY <1>1 DEF Owned
<1>14. ASSUME NEW r \in Sessions, r # s
       PROVE  /\ \A d : Answer(d, r)' <=> Answer(d, r)
              /\ io'[r] = io[r] /\ echoed'[r] = echoed[r] /\ done'[r] = done[r]
              /\ ~Owns(c, r)
  BY <1>1, <1>7, <1>8, <1>14 DEF Filled, Answer, Owns, Typed, TypeOK
<1>15. /\ \A r, k : Filled(r, k)' <=> Filled(r, k)
       /\ \A r : Fresh(r)' <=> Fresh(r)
  BY <1>1 DEF Filled, Fresh
<1>16. /\ \A i \in 1 .. Len(echoed'[s]) : echoed'[s][i] = i
       /\ Len(echoed'[s]) + total[s] = taken[s] + done'[s]
       /\ "read" \notin io'[s]
  <2>1. "read" \notin io'[s]
    BY <1>1, <1>13 DEF Typed, TypeOK
  <2> QED
    BY <1>a, <1>6, <1>7, <2>1
<1>17. ASSUME NEW r \in Sessions, NEW i \in DOMAIN queue', Owns(queue'[i], r)
       PROVE  (r # s /\ Answer(queue'[i], r)) \/ (r = s /\ queue'[i] = c /\ Answer(c, s)')
  <2>1. CASE i \in DOMAIN queue /\ queue'[i] = queue[i]
    BY <1>13, <1>17, <2>1, AnswerKnown
  <2>2. CASE ~(i \in DOMAIN queue /\ queue'[i] = queue[i])
    <3>1. /\ done[s] + n = total[s] /\ queue' = Append(queue, c)
      BY <1>1, <2>2
    <3>2. queue'[i] = c
      BY <1>8, <1>9, <2>2, <3>1, Appended
    <3>3. r = s
      BY <1>8, <1>17, <3>2 DEF Owns
    <3>4. Len(echoed'[s]) = taken[s]
      BY <1>a, <1>6, <1>7, <3>1
    <3>5. Answer(c, s)'
      BY <1>1, <1>8, <3>4 DEF Answer
    <3> QED
      BY <3>2, <3>3, <3>5
  <2> QED
    BY <2>1, <2>2
<1>18. Echo'
  <2>1. ASSUME NEW r \in Sessions, NEW t \in Pool, Busy(t), Owns(job[t], r)
        PROVE  r # s /\ Answer(job[t], r)
    BY <1>13, <2>1, AnswerKnown
  <2>2. ASSUME NEW r \in Sessions
        PROVE  /\ \A i \in 1 .. Len(echoed'[r]) : echoed'[r][i] = i
               /\ "read" \in io'[r] \/ Fresh(r) => Len(echoed'[r]) = taken[r]
               /\ "write" \in io'[r] =>
                    Filled(r, total[r]) /\ Len(echoed'[r]) + total[r] = taken[r] + done'[r]
    <3>1. CASE r = s
      BY <1>3, <1>13, <1>16, <3>1
    <3>2. CASE r # s
      BY <1>14, <3>2 DEF Echo
    <3> QED
      BY <3>1, <3>2
  <2> QED
    BY <1>1, <1>14, <1>15, <1>17, <2>1, <2>2, SessionEcho DEF Busy
<1> QED
  BY <1>11, <1>12, <1>18

\* An operation on a closed connection fails.
LEMMA FailInv ==
  ASSUME IInv, NEW s \in Sessions, NEW what \in {"read", "write"}, Fail(s, what)
  PROVE  IInv'
<1> USE DEF IInv, serverVars, ioVars, sessionVars, clientVars, signalVars
<1> DEFINE c == Completion(what, s, FALSE, 0)
<1>1. /\ what \in io[s] /\ io' = [io EXCEPT ![s] = @ \ {what}] /\ queue' = Append(queue, c)
      /\ UNCHANGED <<main, pool, job, stopped, serverVars, data_, done, total, clientVars, signalVars>>
  BY DEF Fail, Complete
<1>2. c \in Job /\ c.what = what /\ c.s = s /\ c.ok = FALSE
  BY Constants DEF Completion, Job, Sessions
<1> HIDE DEF c
<1>3. /\ queue' \in Seq(Job)
      /\ DOMAIN queue' = DOMAIN queue \cup {Len(queue) + 1}
      /\ \A i \in DOMAIN queue : queue'[i] = queue[i]
      /\ queue'[Len(queue) + 1] = c
  <2>1. queue \in Seq(Job)
    BY DEF Typed
  <2> QED
    BY <1>1, <1>2, <2>1, Appended
<1>4. io' \in [Sessions -> SUBSET {"read", "write"}]
  BY <1>1 DEF Typed, TypeOK
<1>5. Typed'
  BY <1>1, <1>3, <1>4 DEF Typed, TypeOK
<1>6. Owned' /\ Armed'
  BY <1>1, <1>2, CompletedTokens
<1>7. \A r \in Sessions : io'[r] \subseteq io[r]
  BY <1>1 DEF Typed, TypeOK
<1>8. \A r \in Sessions : \A i \in DOMAIN queue' : Owns(queue'[i], r) /\ queue'[i].ok =>
        i \in DOMAIN queue /\ queue'[i] = queue[i]
  BY <1>2, <1>3
<1>9. Echo'
  BY <1>1, <1>7, <1>8, QuietEcho DEF Busy, Fresh
<1> QED
  BY <1>5, <1>6, <1>9

-----------------------------------------------------------------------------
(* Theorems.                                                               *)

\* Every step keeps the invariant.
LEMMA NextInv == IInv /\ [Next]_vars => IInv'
<1> SUFFICES ASSUME IInv, [Next]_vars PROVE IInv'
  OBVIOUS
<1>1. CASE MainStep \/ ClientStep \/ \E i \in Signals : Signal(i)
  BY <1>1, MainInv, ClientInv, SignalInv
<1>2. ASSUME NEW t \in Pool, ThreadStep(t) PROVE IInv'
  <2>1. CASE Take(t)
    BY <2>1, TakeTokens DEF IInv
  <2>2. CASE ~Take(t)
    BY <1>2, <2>2, ReturnInv, HandleAcceptInv, AcceptNextInv, HandleReadInv, HandleWriteInv,
       HandleSignalInv DEF ThreadStep
  <2> QED
    BY <2>1, <2>2
<1>3. ASSUME NEW s \in Sessions, SessionStep(s) PROVE IInv'
  BY <1>3, ReadSomeInv, WriteSomeInv, FailInv DEF SessionStep
<1>4. CASE UNCHANGED vars
  <2>1. UNCHANGED <<main, pool, job, queue, stopped, serverVars, ioVars, signalVars>>
    BY <1>4 DEF vars
  <2> USE DEF IInv, serverVars, ioVars, sessionVars, clientVars, signalVars
  <2>2. Typed'
    BY <2>1 DEF Typed, TypeOK
  <2>3. Owned' /\ Armed'
    BY <2>1, QuietTokens DEF tokenVars, Busy
  <2>4. Echo'
    BY <2>1, QuietEcho DEF Busy, Fresh
  <2> QED
    BY <2>2, <2>3, <2>4
<1> QED
  BY <1>1, <1>2, <1>3, <1>4 DEF Next

\* The invariant holds however threads, clients, signals and the network
\* interleave.
THEOREM ServerInvariant == Spec => []IInv
  BY InitInv, NextInv, PTL DEF Spec

\* Buffers keep their size, and no write is longer than the buffer.
THEOREM ServerTypeCorrect == Spec => []TypeOK
<1>1. IInv => TypeOK
  BY DEF IInv, Typed
<1> QED
  BY <1>1, ServerInvariant, PTL

\* At most one thread has anything to do with a session, for any pool size.
THEOREM ServerOneOwner == Spec => []OneOwner
<1>1. IInv => OneOwner
  <2> SUFFICES ASSUME IInv, NEW s \in Sessions, NEW a \in Owners(s), NEW b \in Owners(s)
               PROVE  a = b
    BY DEF OneOwner
  <2> DEFINE what == {"accept", "read", "write"}
  <2>1. /\ \A i \in Queued(what, s) : i \in DOMAIN queue /\ Owns(queue[i], s)
        /\ \A t \in Handling(what, s) : t \in Pool /\ Busy(t) /\ Owns(job[t], s)
    BY DEF Queued, Handling, Owns, Busy
  <2>2. /\ \A v, w \in io[s] : v = w
        /\ \A i, j \in Queued(what, s) : i = j
        /\ \A t, u \in Handling(what, s) : t = u
        /\ Queued(what, s) # {} => io[s] = {} /\ Handling(what, s) = {}
        /\ Handling(what, s) # {} => io[s] = {}
    BY <2>1 DEF IInv, Owned
  <2>3. \A x \in Owners(s) :
          \/ \E w \in io[s] : x = <<"pending", w>>
          \/ \E i \in Queued(what, s) : x = <<"queued", i>>
          \/ \E t \in Handling(what, s) : x = <<"running", t>>
    BY DEF Owners
  <2> HIDE DEF what
  <2> QED
    BY <2>2, <2>3
<1> QED
  BY <1>1, ServerInvariant, PTL

\* From the constructor on exactly one accept is pending, completed or handled.
THEOREM ServerAlwaysAccepting == Spec => []AlwaysAccepting
<1>1. IInv => AlwaysAccepting
  <2> SUFFICES ASSUME IInv, created > 0
               PROVE  \E a \in Accepts : Accepts = {a}
    BY DEF AlwaysAccepting
  <2> DEFINE P == {accepting} \ {0}
             Q == UNION {Queued({"accept"}, s) : s \in Sessions}
             R == UNION {Handling({"accept", "rearm"}, s) : s \in Sessions}
  <2>1. created \in Sessions \/ created = MaxSessions
    BY Constants DEF IInv, Typed, TypeOK, Sessions
  <2>2. created \in Sessions
    BY <2>1, Constants DEF Sessions
  <2>3. \A i \in Q : i \in DOMAIN queue /\ Carries(queue[i])
    BY DEF Queued, Carries
  <2>4. \A i \in DOMAIN queue : Carries(queue[i]) => i \in Q
    BY <2>2 DEF Queued, IInv, Armed, Last
  <2>5. \A t \in R : t \in Pool /\ Busy(t) /\ Carries(job[t])
    BY DEF Handling, Carries, Busy
  <2>6. \A t \in Pool : Busy(t) /\ Carries(job[t]) => t \in R
    BY <2>2 DEF Handling, Carries, Busy, IInv, Armed, Last
  <2> HIDE DEF Q, R
  <2>7. /\ \A v, w \in P : v = w
        /\ \A v, w \in Q : v = w
        /\ \A v, w \in R : v = w
        /\ P # {} => Q = {} /\ R = {}
        /\ Q # {} => R = {}
        /\ P # {} \/ Q # {} \/ R # {}
    BY <2>3, <2>4, <2>5, <2>6 DEF IInv, Armed
  <2>8. Accepts = {<<"pending", s>> : s \in P} \cup {<<"queued", i>> : i \in Q}
                    \cup {<<"running", t>> : t \in R}
    BY DEF Accepts, Q, R
  <2> HIDE DEF P
  <2>9. PICK a \in Accepts : TRUE
    BY <2>7, <2>8
  <2>10. \A b \in Accepts : b = a
    BY <2>7, <2>8, <2>9
  <2> QED
    BY <2>10
<1> QED
  BY <1>1, ServerInvariant, PTL

\* A client gets back a prefix of what it sent, in order.
THEOREM ServerEchoFaithful == Spec => []EchoFaithful
<1>1. IInv => EchoFaithful
  <2> SUFFICES ASSUME IInv, NEW s \in Sessions
               PROVE  echoed[s] = [i \in 1 .. Len(echoed[s]) |-> i]
    BY DEF EchoFaithful
  <2>1. echoed[s] \in Seq(Nat) /\ \A i \in 1 .. Len(echoed[s]) : echoed[s][i] = i
    BY DEF IInv, Typed, Echo
  <2> QED
    BY <2>1
<1> QED
  BY <1>1, ServerInvariant, PTL
=============================================================================
