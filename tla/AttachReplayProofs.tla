------------------------- MODULE AttachReplayProofs -------------------------
(***************************************************************************)
(* The replay contract of protocol.go, for every ring, chunk and channel   *)
(* size and any number of clients: each client receives one unbroken run   *)
(* of the stream, snapshots are complete, and no output follows the last   *)
(* session_remove.                                                         *)
(*                                                                         *)
(* The argument: every message of the forwarder says where in the stream,  *)
(* and where in a snapshot, the forwarder stood before it and stands after *)
(* it.  Along the messages in the queue these places form a chain, whose   *)
(* first link is what the clients have and whose last is what the          *)
(* forwarder and its channel still hold.                                   *)
(***************************************************************************)
EXTENDS AttachReplay, TLAPS

-----------------------------------------------------------------------------
(* Where the forwarder stands *)

\* at: a position of the stream; c: the client a snapshot of the ring up to at
\* is being sent to, with its next byte and the number of its last chunk.
States == [c : Clients \cup {NoClient}, next : Nat, seq : Nat, at : Nat]
Snap(c, next, seq, at) == [c |-> c, next |-> next, seq |-> seq, at |-> at]
Idle(p) == Snap(NoClient, p, 0, p)

\* Messages of the forwarder: the others are the main loop's.
Ours(m) == m.k = "out" \/ (m.k \in {"start", "chunk", "end"} /\ m.c \notin emptied)

StateBefore(m) ==
  CASE m.k = "out" -> Idle(m.lo)
    [] m.k = "start" -> Idle(m.at)
    [] m.k = "chunk" -> Snap(m.c, m.lo, m.seq - 1, m.at)
    [] m.k = "end" -> Snap(m.c, m.at, m.seq, m.at)

StateAfter(m) ==
  CASE m.k = "out" -> Idle(m.hi)
    [] m.k = "start" -> Snap(m.c, m.lo, 0, m.at)
    [] m.k = "chunk" -> Snap(m.c, m.hi, m.seq, m.at)
    [] m.k = "end" -> Idle(m.at)

\* The position at which a job in the channel begins.
JobPos(j) == IF j.k = "out" THEN j.lo ELSE j.at
EventsFrom == IF events = << >> THEN pos ELSE JobPos(events[1])

\* Where the forwarder stands before the rest of its job.
JobState(j) ==
  CASE j.k = "out" -> Idle(j.lo)
    [] j.k = "start" -> Idle(j.at)
    [] j.k \in {"chunk", "end"} -> Snap(j.c, j.lo, j.seq, j.at)
Stands == IF job = NoJob THEN Idle(EventsFrom) ELSE JobState(job)

-----------------------------------------------------------------------------
(* The inductive invariant *)

\* The goroutines: who runs, what the main loop answers and what it sends.
Roles ==
  /\ fw # "run" => job = NoJob
  /\ subscribed <=> fw \in {"run", "stop"}
  /\ main \in {"finish", "request"} =>
       mainClient \in Clients \ emptied /\ view[mainClient].st = "waiting"
  /\ main = "send" =>
       \/ mainJob.k = "remove" /\ (fw = "exited" \/ removed)
       \/ /\ mainJob.k \in {"start", "end"} /\ mainJob.c \in emptied
          /\ mainJob.lo = 0 /\ mainJob.at = 0 /\ mainJob.seq = 0
  /\ \A c \in emptied : view[c].st # "none"
  /\ change => removed

\* Jobs and messages are about ranges of the stream; those in the channel have
\* not begun.
Ranges ==
  /\ job = NoJob \/ job.k \in {"out", "start", "chunk", "end"}
  /\ job.lo <= job.at /\ mainJob.lo <= mainJob.at
  /\ \A i \in 1..Len(events) :
       events[i].k \in {"out", "start"} /\ events[i].lo <= events[i].at
  /\ \A i \in 1..Len(sendCh) :
       sendCh[i].lo <= sendCh[i].hi /\ sendCh[i].lo <= sendCh[i].at

\* A client that has not been answered has no message on its way.
Unasked(c) ==
  /\ job.c # c
  /\ \A i \in 1..Len(events) : events[i].c # c
  /\ \A i \in 1..Len(sendCh) : sendCh[i].c # c
Asking ==
  \A c \in Clients :
    (view[c].st = "none" \/ (main \in {"finish", "request"} /\ mainClient = c)) => Unasked(c)

\* Messages that carry output, and a place of the queue none of them follows.
Data(m) == m.k \in {"out", "chunk"}
QuietFrom(i) == \A j \in 1..Len(sendCh) : i < j => ~Data(sendCh[j])

\* Until a scan removes the session only finishSession sends session_remove: the
\* forwarder has exited, and output never follows it.
NothingFollows ==
  /\ \A i \in 1..Len(sendCh) : sendCh[i].k = "remove" => fw = "exited" /\ QuietFrom(i)
  /\ \A c \in Clients :
       /\ view[c].st # "late"
       /\ view[c].st = "closed" => fw = "exited" /\ QuietFrom(0)
UntilScan == ~removed => NothingFollows

\* Once the session is retired its last session_remove is still to be queued, or
\* is the last of the queue but for messages without output, or has arrived.
LastIsRemove ==
  \/ main = "send" /\ mainJob.k = "remove"
  \/ \E i \in 1..Len(sendCh) : sendCh[i].k = "remove" /\ QuietFrom(i)
  \/ QuietFrom(0) /\ \A c \in Clients : view[c].st # "late"
Retired == (~forwarding /\ ~connDone) => fw \in {"none", "exited"} /\ LastIsRemove

RemovedLast == UntilScan /\ Retired

\* Jobs that are well formed, before and after they begin.
OutJob(j) == j.k = "out" /\ j.c = NoClient /\ j.lo <= j.at
SnapJob(j) == j.c \in Clients \ emptied /\ j.lo <= j.at
Waiting(j) == OutJob(j) \/ (j.k = "start" /\ SnapJob(j) /\ j.seq = 0)
InWork(j) ==
  \/ Waiting(j)
  \/ j.k = "chunk" /\ SnapJob(j) /\ j.lo < j.at
  \/ j.k = "end" /\ SnapJob(j) /\ j.lo = j.at

\* The channel's jobs follow on each other and on the job in work, up to what
\* the PTY has written.
Linked ==
  /\ \A i \in 1..Len(events) :
       /\ Waiting(events[i])
       /\ events[i].at = IF i = Len(events) THEN pos ELSE JobPos(events[i + 1])
  /\ job # NoJob => InWork(job) /\ job.at = EventsFrom

\* What client c has, in a queue that begins at d.
Agrees(v, c, d) ==
  /\ v.st # "broken"
  /\ v.st = "live" => v.upto = d.at /\ v.n + v.from = v.upto
  /\ d.c = c => v.st \in {"replay", "closed", "late"}
  /\ v.st = "replay" => /\ d.c = c /\ v.upto = d.next /\ v.seq = d.seq
                        /\ v.from + v.total = d.at /\ v.n + v.from = v.upto

\* Message m takes the forwarder from d to e, or is the main loop's.
Moves(d, m, e) ==
  IF Ours(m) THEN d = StateBefore(m) /\ e = StateAfter(m)
             ELSE e = d

\* f is where the forwarder stood at each message of the queue.
Links(f) ==
  /\ f \in [1..(Len(sendCh) + 1) -> States]
  /\ \A i \in 1..Len(sendCh) : Moves(f[i], sendCh[i], f[i + 1])
Chain(f) ==
  /\ Links(f)
  /\ job = NoJob => f[Len(sendCh) + 1].c = NoClient
  /\ subscribed => f[Len(sendCh) + 1] = Stands
  /\ \A c \in Clients \ emptied : Agrees(view[c], c, f[1])

Contract == ~connDone => (subscribed => Linked) /\ \E f : Chain(f)

Shape == TypeOK /\ Ranges /\ Roles
Inv == Shape /\ Asking /\ RemovedLast /\ Contract

-----------------------------------------------------------------------------
(* Jobs, messages and views *)

\* A chunk advances within its snapshot.
LEMMA ChunkAdvances ==
  ASSUME NEW j \in Jobs, j.lo <= j.at
  PROVE  /\ ChunkEnd(j) \in Nat /\ j.lo <= ChunkEnd(j) /\ ChunkEnd(j) <= j.at
         /\ j.lo < j.at => j.lo < ChunkEnd(j)
BY ReplayAssumption DEF ChunkEnd, Jobs

\* A job's next message, and what it leaves of the job.
LEMMA MessageOfJob ==
  ASSUME NEW j \in Jobs, j.k # "none", j.lo <= j.at
  PROVE  /\ Message(j) \in Messages /\ Message(j).k = j.k
         /\ Message(j).lo <= Message(j).hi /\ Message(j).lo <= Message(j).at
         /\ Message(j).c \in {j.c, NoClient}
         /\ Rest(j) \in Jobs /\ Rest(j).lo <= Rest(j).at /\ Rest(j).c \in {j.c, NoClient}
         /\ Rest(j) = NoJob \/ Rest(j).k \in {"chunk", "end"}
<1>1. j = [k |-> j.k, c |-> j.c, lo |-> j.lo, at |-> j.at, seq |-> j.seq]
  BY DEF Jobs
<1>2. /\ j.k \in {"out", "start", "chunk", "end", "remove"} /\ j.c \in Clients \cup {NoClient}
      /\ j.lo \in Nat /\ j.at \in Nat /\ j.seq \in Nat
  BY DEF Jobs, JobKinds
<1>3. ChunkEnd(j) \in Nat /\ j.lo <= ChunkEnd(j) /\ ChunkEnd(j) <= j.at
  BY ChunkAdvances
<1>4. /\ Message(j) \in Messages /\ Message(j).k = j.k
      /\ Message(j).lo <= Message(j).hi /\ Message(j).lo <= Message(j).at
      /\ Message(j).c \in {j.c, NoClient}
  BY <1>2, <1>3 DEF Message, Messages, JobKinds
<1>5. /\ Rest(j) \in Jobs /\ Rest(j).lo <= Rest(j).at /\ Rest(j).c \in {j.c, NoClient}
      /\ Rest(j) = NoJob \/ Rest(j).k \in {"chunk", "end"}
  <2>1. NoJob \in Jobs /\ NoJob.lo <= NoJob.at /\ NoJob.c = NoClient
    BY DEF NoJob, Job, Jobs, JobKinds
  <2>2. CASE j.k = "start"
    BY <1>2, <2>2 DEF Rest, Jobs, JobKinds
  <2>3. CASE j.k = "chunk"
    <3>1. Rest(j) = [k |-> IF ChunkEnd(j) < j.at THEN "chunk" ELSE "end", c |-> j.c,
                     lo |-> ChunkEnd(j), at |-> j.at, seq |-> j.seq + 1]
      BY <1>1, <2>3 DEF Rest
    <3> QED BY <1>2, <1>3, <3>1 DEF Jobs, JobKinds
  <2>4. CASE j.k \notin {"start", "chunk"}
    BY <2>1, <2>4 DEF Rest
  <2> QED BY <2>2, <2>3, <2>4
<1> QED BY <1>4, <1>5

\* What a client has received stays of its type.
LEMMA DeliverType ==
  ASSUME NEW v \in Views, NEW c \in Clients, NEW m \in Messages, m.lo <= m.hi, m.lo <= m.at
  PROVE  Deliver(v, c, m) \in Views
<1>1. m.lo \in Nat /\ m.hi \in Nat /\ m.at \in Nat /\ m.seq \in Nat
  BY DEF Messages
<1>2. m.hi - m.lo \in Nat /\ m.at - m.lo \in Nat
  BY <1>1
<1>3. v.n + (m.hi - m.lo) \in Nat
  BY <1>2 DEF Views
<1>4. [v EXCEPT !.upto = m.hi, !.n = @ + (m.hi - m.lo), !.seq = m.seq] \in Views
  BY <1>1, <1>3 DEF Views
<1>5. [v EXCEPT !.upto = m.hi, !.n = @ + (m.hi - m.lo)] \in Views
  BY <1>1, <1>3 DEF Views
<1>6. \A st \in {"live", "broken", "late", "closed"} : [v EXCEPT !.st = st] \in Views
  BY DEF Views
<1>7. [st |-> "replay", from |-> m.lo, upto |-> m.lo, n |-> 0, seq |-> 0, total |-> m.at - m.lo]
        \in Views
  BY <1>1, <1>2 DEF Views
<1> QED BY <1>4, <1>5, <1>6, <1>7 DEF Deliver

\* A job that has not begun.
LEMMA JobTyped ==
  ASSUME NEW k \in JobKinds, NEW c \in Clients \cup {NoClient},
         NEW from \in Nat, NEW at \in Nat, NEW seq \in Nat
  PROVE  /\ Job(k, c, from, at, seq) \in Jobs
         /\ Job(k, c, from, at, seq).k = k /\ Job(k, c, from, at, seq).c = c
         /\ Job(k, c, from, at, seq).lo = from /\ Job(k, c, from, at, seq).at = at
         /\ Job(k, c, from, at, seq).seq = seq
BY DEF Job, Jobs

\* The one that stands for none.
LEMMA NoJobTyped == /\ NoJob \in Jobs /\ NoJob.lo = 0 /\ NoJob.at = 0
                    /\ NoJob.k = "none" /\ NoJob.c = NoClient
BY DEF NoJob, Job, Jobs, JobKinds

\* What a job appended to the channel leaves of it.
LEMMA EventsAppend ==
  ASSUME TypeOK, NEW j \in Jobs, events' = Append(events, j)
  PROVE  /\ events' \in Seq(Jobs) /\ Len(events) \in Nat /\ Len(events') = Len(events) + 1
         /\ \A i \in 1..Len(events) : events'[i] = events[i]
         /\ events'[Len(events) + 1] = j
         /\ \A i \in 1..Len(events') : i \in 1..Len(events) \/ i = Len(events) + 1
BY DEF TypeOK

\* ... and a message appended to the queue.
LEMMA QueueAppend ==
  ASSUME TypeOK, NEW m \in Messages, sendCh' = Append(sendCh, m)
  PROVE  /\ sendCh' \in Seq(Messages) /\ Len(sendCh) \in Nat /\ Len(sendCh') = Len(sendCh) + 1
         /\ \A i \in 1..Len(sendCh) : sendCh'[i] = sendCh[i]
         /\ sendCh'[Len(sendCh) + 1] = m
         /\ \A i \in 1..Len(sendCh') : i \in 1..Len(sendCh) \/ i = Len(sendCh) + 1
BY DEF TypeOK

\* The channel without its first job.
LEMMA EventsTail ==
  ASSUME TypeOK, events # << >>, events' = Tail(events)
  PROVE  /\ Head(events) = events[1] /\ 1 \in 1..Len(events) /\ events[1] \in Jobs
         /\ events' \in Seq(Jobs) /\ Len(events) \in Nat /\ Len(events') = Len(events) - 1
         /\ \A i \in 1..Len(events') : i + 1 \in 1..Len(events) /\ events'[i] = events[i + 1]
BY DEF TypeOK

\* The queue without its first message.
LEMMA QueueTail ==
  ASSUME TypeOK, sendCh # << >>, sendCh' = Tail(sendCh)
  PROVE  /\ Head(sendCh) = sendCh[1] /\ 1 \in 1..Len(sendCh) /\ sendCh[1] \in Messages
         /\ sendCh' \in Seq(Messages) /\ Len(sendCh) \in Nat /\ Len(sendCh') = Len(sendCh) - 1
         /\ \A i \in 1..Len(sendCh') : i + 1 \in 1..Len(sendCh) /\ sendCh'[i] = sendCh[i + 1]
BY DEF TypeOK

-----------------------------------------------------------------------------
(* Types and roles *)

\* The PTY's steps.
LEMMA StreamShape == ASSUME Shape, StreamStep PROVE Shape'
<1>1. ASSUME NEW n \in 1..MaxRead, NEW from \in {lo, pos}, EmitFrom(from, n) PROVE Shape'
  <2> DEFINE j == Job("out", NoClient, pos, pos + n, 0)
  <2>1. /\ pos \in Nat /\ n \in Nat /\ from \in Nat /\ from <= pos /\ pos - from <= RingSize
        /\ RingSize \in Nat
    BY <1>1, ReplayAssumption DEF Shape, TypeOK
  <2>2. pos' \in Nat /\ lo' \in 0..pos' /\ pos' - lo' <= RingSize
    BY <1>1, <2>1 DEF EmitFrom, RingAfter
  <2>3. j \in Jobs /\ j.k = "out" /\ j.lo = pos /\ j.at = pos + n
    <3>1. pos + n \in Nat
      BY <2>1
    <3> QED BY <2>1, <3>1 DEF Job, Jobs, JobKinds
  <2>4. /\ UNCHANGED <<done, catVars, subscribed, fwVars, chanVars, writer, mainVars, conns, emptied, view>>
        /\ reading' \in BOOLEAN
    BY <1>1 DEF EmitFrom
  <2>5. /\ connDone' \in BOOLEAN /\ sock' \in {"open", "closed"} /\ closing' \subseteq Goroutines
        /\ \/ events' = events
           \/ events' = Append(events, j) /\ Len(events) < EventCap
    BY <1>1 DEF EmitFrom, Broadcast, CloseConnection, Shape, TypeOK, Goroutines
  <2> HIDE DEF j
  <2>6. /\ events' \in Seq(Jobs) /\ Len(events') <= EventCap
        /\ \A i \in 1..Len(events') : events'[i].k \in {"out", "start"} /\ events'[i].lo <= events'[i].at
    <3>1. EventCap \in Nat
      BY ReplayAssumption
    <3>2. CASE events' = events
      BY <3>2 DEF Shape, TypeOK, Ranges
    <3>3. CASE events' = Append(events, j) /\ Len(events) < EventCap
      BY <2>1, <2>3, <3>1, <3>3, EventsAppend DEF Shape, Ranges
    <3> QED BY <2>5, <3>2, <3>3
  <2>7. TypeOK'
    BY <2>2, <2>4, <2>5, <2>6 DEF Shape, TypeOK, catVars, fwVars, chanVars, mainVars
  <2>8. Ranges'
    BY <2>4, <2>6 DEF Shape, Ranges, fwVars, chanVars, mainVars
  <2>9. Roles'
    BY <2>4 DEF Shape, Roles, catVars, fwVars, mainVars
  <2> QED BY <2>7, <2>8, <2>9 DEF Shape
<1>2. CASE ReadLoopExit \/ SessionClose
  <2>1. /\ reading' \in BOOLEAN /\ done' \in BOOLEAN
        /\ UNCHANGED <<pos, lo, catVars, subscribed, events, fwVars, chanVars, connVars, mainVars,
                       conns, emptied, view>>
    BY <1>2 DEF ReadLoopExit, SessionClose, Shape, TypeOK
  <2>2. TypeOK'
    BY <2>1 DEF Shape, TypeOK, catVars, fwVars, chanVars, connVars, mainVars
  <2>3. Ranges' /\ Roles'
    BY <2>1 DEF Shape, Ranges, Roles, catVars, fwVars, chanVars, mainVars
  <2> QED BY <2>2, <2>3 DEF Shape
<1>3. CASE CatalogRemove
  <2>1. /\ removed' = TRUE /\ change' \in BOOLEAN
        /\ UNCHANGED <<pos, lo, reading, done, subscribed, events, fwVars, chanVars, connVars,
                       mainVars, conns, emptied, view>>
    BY <1>3 DEF CatalogRemove, streamVars
  <2>2. TypeOK'
    BY <2>1 DEF Shape, TypeOK, fwVars, chanVars, connVars, mainVars
  <2>3. Ranges' /\ Roles'
    BY <2>1 DEF Shape, Ranges, Roles, fwVars, chanVars, mainVars
  <2> QED BY <2>2, <2>3 DEF Shape
<1> QED BY <1>1, <1>2, <1>3 DEF StreamStep, Emit, EmitReset

\* The forwarder's steps.
LEMMA ForwarderShape == ASSUME Shape, ForwarderStep PROVE Shape'
<1>1. CASE ForwarderTake
  <2>1. /\ fw = "run" /\ job = NoJob /\ events # << >> /\ job' = Head(events)
        /\ events' = Tail(events)
        /\ UNCHANGED <<streamVars, catVars, subscribed, fw, ended, notified, chanVars, connVars, mainVars,
                       conns, emptied, view>>
    BY <1>1 DEF ForwarderTake
  <2>2. /\ job' = events[1] /\ 1 \in 1..Len(events) /\ events[1] \in Jobs /\ events' \in Seq(Jobs)
        /\ Len(events') <= Len(events) /\ Len(events) \in Nat /\ Len(events') \in Nat
        /\ \A i \in 1..Len(events') : i + 1 \in 1..Len(events) /\ events'[i] = events[i + 1]
    BY <2>1, EventsTail DEF Shape
  <2>3. TypeOK'
    BY <2>1, <2>2, ReplayAssumption, SMTT(20)
    DEF Shape, TypeOK, streamVars, catVars, chanVars, connVars, mainVars
  <2>4. Ranges'
    BY <2>1, <2>2 DEF Shape, Ranges, chanVars, mainVars
  <2>5. Roles'
    BY <2>1 DEF Shape, Roles, catVars, mainVars
  <2> QED BY <2>3, <2>4, <2>5 DEF Shape
<1>2. CASE ForwarderSend
  <2>1. /\ fw = "run" /\ job # NoJob /\ QueueHasRoom /\ sendCh' = Append(sendCh, Message(job))
        /\ job' = Rest(job)
        /\ UNCHANGED <<streamVars, catVars, subscribed, events, fw, ended, notified, others, otherSent,
                       connVars, mainVars, conns, emptied, view>>
    BY <1>2 DEF ForwarderSend
  <2>2. job \in Jobs /\ job.k # "none" /\ job.lo <= job.at
    BY <2>1 DEF Shape, TypeOK, Ranges
  <2>3. TypeOK'
    <3>1. /\ sendCh' \in Seq(Messages) /\ Len(sendCh') + others' <= SendCap /\ job' \in Jobs
      BY <2>1, <2>2, MessageOfJob, QueueAppend, ReplayAssumption, SMTT(20) DEF Shape, TypeOK, QueueHasRoom
    <3> QED BY <2>1, <3>1 DEF Shape, TypeOK, streamVars, catVars, connVars, mainVars
  <2>4. Ranges'
    <3>1. \A i \in 1..Len(sendCh') : sendCh'[i].lo <= sendCh'[i].hi /\ sendCh'[i].lo <= sendCh'[i].at
      BY <2>1, <2>2, MessageOfJob, QueueAppend DEF Shape, Ranges
    <3>2. (job' = NoJob \/ job'.k \in {"chunk", "end"}) /\ job'.lo <= job'.at
      BY <2>1, <2>2, MessageOfJob
    <3> QED BY <2>1, <3>1, <3>2 DEF Shape, Ranges, mainVars
  <2>5. Roles'
    BY <2>1 DEF Shape, Roles, catVars, mainVars
  <2> QED BY <2>3, <2>4, <2>5 DEF Shape
<1>3. CASE ForwarderGiveUp
  <2>1. /\ fw = "run" /\ job' = NoJob
        /\ UNCHANGED <<streamVars, catVars, subscribed, events, fw, ended, notified, chanVars, connVars,
                       mainVars, conns, emptied, view>>
    BY <1>3 DEF ForwarderGiveUp
  <2> QED BY <2>1, NoJobTyped
          DEF Shape, TypeOK, Ranges, Roles, streamVars, catVars, chanVars, connVars, mainVars
<1>4. CASE ForwarderStop \/ ForwarderExit \/ ForwarderNotify
  <2>1. UNCHANGED <<streamVars, catVars, events, job, chanVars, connVars, mainVars, conns, emptied, view>>
    BY <1>4 DEF ForwarderStop, ForwarderExit, ForwarderNotify
  <2>2. ended' \in BOOLEAN /\ notified' \in BOOLEAN /\ subscribed' \in BOOLEAN
    BY <1>4 DEF ForwarderStop, ForwarderExit, ForwarderNotify, Shape, TypeOK
  <2>3. fw' \in {"stop", "exited"} /\ job = NoJob /\ (fw = "exited" => fw' = "exited")
    BY <1>4 DEF ForwarderStop, ForwarderExit, ForwarderNotify, Shape, Roles
  <2>4. subscribed' <=> fw' = "stop"
    <3>1. CASE ForwarderStop
      <4>1. subscribed /\ subscribed' = subscribed /\ fw' = "stop"
        BY <3>1 DEF ForwarderStop, Shape, Roles
      <4> QED BY <4>1
    <3>2. CASE ForwarderExit
      BY <3>2 DEF ForwarderExit
    <3>3. CASE ForwarderNotify
      <4>1. ~subscribed /\ subscribed' = subscribed /\ fw' = "exited"
        BY <3>3 DEF ForwarderNotify, Shape, Roles
      <4> QED BY <4>1
    <3> QED BY <1>4, <3>1, <3>2, <3>3
  <2>5. TypeOK'
    BY <2>1, <2>2, <2>3 DEF Shape, TypeOK, streamVars, catVars, chanVars, connVars, mainVars
  <2>6. Ranges' /\ Roles'
    BY <2>1, <2>3, <2>4 DEF Shape, Ranges, Roles, catVars, chanVars, mainVars
  <2> QED BY <2>5, <2>6 DEF Shape
<1> QED BY <1>1, <1>2, <1>3, <1>4 DEF ForwarderStep

\* The main loop's steps.
LEMMA MainShape ==
  ASSUME Shape, (\E c \in Clients : AttachBegin(c)) \/ MainStep
  PROVE  Shape'
<1>1. ASSUME NEW c \in Clients, AttachBegin(c) PROVE Shape'
  <2>1. /\ main = "loop" /\ view[c].st = "none" /\ view' = [view EXCEPT ![c].st = "waiting"]
        /\ mainClient' = c /\ main' \in {"finish", "request"}
        /\ UNCHANGED <<streamVars, catVars, subscribed, events, fwVars, chanVars, connVars, mainJob,
                       forwarding, conns, emptied>>
    BY <1>1 DEF AttachBegin
  <2>2. c \notin emptied
    BY <2>1 DEF Shape, Roles
  <2>3. view' \in [Clients -> Views] /\ view'[c].st = "waiting"
    BY <2>1 DEF Shape, TypeOK, Views
  <2>4. TypeOK'
    BY <2>1, <2>3 DEF Shape, TypeOK, streamVars, catVars, fwVars, chanVars, connVars
  <2>5. Ranges' /\ Roles'
    BY <2>1, <2>2, <2>3 DEF Shape, Ranges, Roles, catVars, fwVars, chanVars
  <2> QED BY <2>4, <2>5 DEF Shape
<1>2. CASE AnswerFromRing
  <2> DEFINE j == RequestSnapshot(mainClient)
  <2>1. /\ main = "request" /\ main' = "loop" /\ mainClient' = NoClient
        /\ UNCHANGED <<streamVars, catVars, subscribed, fwVars, chanVars, writer, mainJob, forwarding, conns,
                       emptied, view>>
    BY <1>2 DEF AnswerFromRing
  <2>2. /\ connDone' \in BOOLEAN /\ sock' \in {"open", "closed"} /\ closing' \subseteq Goroutines
        /\ \/ events' = events
           \/ events' = Append(events, j) /\ Len(events) < EventCap
    BY <1>2 DEF AnswerFromRing, CloseConnection, Shape, TypeOK, Goroutines
  <2>3. j \in Jobs /\ j.k = "start" /\ j.lo <= j.at
    BY <2>1 DEF RequestSnapshot, Job, Jobs, JobKinds, Shape, TypeOK
  <2> HIDE DEF j
  <2>4. /\ events' \in Seq(Jobs) /\ Len(events') <= EventCap
        /\ \A i \in 1..Len(events') : events'[i].k \in {"out", "start"} /\ events'[i].lo <= events'[i].at
    <3>1. EventCap \in Nat
      BY ReplayAssumption
    <3>2. CASE events' = events
      BY <3>2 DEF Shape, TypeOK, Ranges
    <3>3. CASE events' = Append(events, j) /\ Len(events) < EventCap
      BY <2>3, <3>1, <3>3, EventsAppend DEF Shape, Ranges
    <3> QED BY <2>2, <3>2, <3>3
  <2>5. TypeOK'
    BY <2>1, <2>2, <2>4 DEF Shape, TypeOK, streamVars, catVars, fwVars, chanVars
  <2>6. Ranges' /\ Roles'
    BY <2>1, <2>4 DEF Shape, Ranges, Roles, catVars, fwVars, chanVars
  <2> QED BY <2>5, <2>6 DEF Shape
<1>3. CASE AnswerEmpty
  <2>1. /\ main = "request" /\ mainJob' = Job("start", mainClient, 0, 0, 0) /\ main' = "send"
        /\ mainClient' = NoClient /\ emptied' = emptied \cup {mainClient}
        /\ UNCHANGED <<streamVars, catVars, subscribed, events, fwVars, chanVars, connVars, forwarding, conns,
                       view>>
    BY <1>3 DEF AnswerEmpty
  <2>2. mainClient \in Clients
    BY <2>1 DEF Shape, Roles
  <2>3. /\ mainJob' \in Jobs /\ mainJob'.k = "start" /\ mainJob'.c = mainClient
        /\ mainJob'.lo = 0 /\ mainJob'.at = 0 /\ mainJob'.seq = 0
    BY <2>1, <2>2 DEF Job, Jobs, JobKinds
  <2>4. TypeOK'
    BY <2>1, <2>2, <2>3 DEF Shape, TypeOK, streamVars, catVars, fwVars, chanVars, connVars
  <2>5. Ranges' /\ Roles'
    BY <2>1, <2>3 DEF Shape, Ranges, Roles, catVars, fwVars, chanVars
  <2> QED BY <2>4, <2>5 DEF Shape
<1>4. ASSUME Retire, UNCHANGED <<streamVars, catVars, subscribed, fw, job, ended, chanVars, connVars, conns,
                                 emptied, view>>, notified' \in BOOLEAN
      PROVE  Shape'
  <2>1. /\ fw = "exited" /\ forwarding' = FALSE /\ events' = << >> /\ main' = "send"
        /\ mainJob' = Job("remove", NoClient, 0, 0, 0) /\ mainClient' = NoClient
    BY <1>4 DEF Retire, RetireReady
  <2>2. mainJob' \in Jobs /\ mainJob'.k = "remove" /\ mainJob'.lo = 0 /\ mainJob'.at = 0
    BY <2>1 DEF Job, Jobs, JobKinds
  <2>3. events' \in Seq(Jobs) /\ Len(events') = 0
    BY <2>1
  <2>4. TypeOK'
    <3>1. Len(events') <= EventCap
      BY <2>3, ReplayAssumption
    <3>2. forwarding' \in BOOLEAN /\ main' \in {"loop", "finish", "request", "send"}
          /\ mainClient' \in Clients \cup {NoClient}
      BY <2>1
    <3> QED BY <1>4, <2>2, <2>3, <3>1, <3>2 DEF Shape, TypeOK, streamVars, catVars, chanVars, connVars
  <2>5. Ranges' /\ Roles'
    BY <1>4, <2>1, <2>2, <2>3 DEF Shape, Ranges, Roles, catVars, chanVars
  <2> QED BY <2>4, <2>5 DEF Shape
<1>5. CASE FinishAttach
  <2>1. CASE Retire
    BY <1>4, <1>5, <2>1 DEF FinishAttach, fwVars, Shape, TypeOK
  <2>2. CASE main' = "request" /\ UNCHANGED <<events, mainClient, mainJob, forwarding>>
    <3>1. main = "finish" /\ UNCHANGED <<streamVars, catVars, subscribed, fwVars, chanVars, connVars, conns,
                                         emptied, view>>
      BY <1>5 DEF FinishAttach
    <3>2. TypeOK'
      BY <2>2, <3>1 DEF Shape, TypeOK, streamVars, catVars, fwVars, chanVars, connVars
    <3>3. Ranges' /\ Roles'
      BY <2>2, <3>1 DEF Shape, Ranges, Roles, catVars, fwVars, chanVars
    <3> QED BY <3>2, <3>3 DEF Shape
  <2> QED BY <1>5, <2>1, <2>2 DEF FinishAttach
<1>6. CASE SessionEnded
  <2>1. notified' = FALSE /\ UNCHANGED <<streamVars, catVars, subscribed, fw, job, ended, chanVars, connVars,
                                         conns, emptied, view>>
    BY <1>6 DEF SessionEnded
  <2>2. CASE Retire
    BY <1>4, <2>1, <2>2
  <2>3. CASE UNCHANGED <<events, mainVars>>
    <3>1. TypeOK'
      <4>1. notified' \in BOOLEAN
        BY <2>1
      <4>2. UNCHANGED <<streamVars, catVars, subscribed, fw, job, ended, chanVars, connVars, conns,
                        emptied, view>>
        BY <2>1
      <4> QED BY <2>3, <4>1, <4>2 DEF Shape, TypeOK, streamVars, catVars, chanVars, connVars, mainVars
    <3>2. Ranges' /\ Roles'
      BY <2>1, <2>3 DEF Shape, Ranges, Roles, catVars, chanVars, mainVars
    <3> QED BY <3>1, <3>2 DEF Shape
  <2> QED BY <1>6, <2>2, <2>3 DEF SessionEnded
<1>7. CASE MainSend
  <2>1. /\ main = "send" /\ mainJob' = Rest(mainJob)
        /\ main' = IF Rest(mainJob) = NoJob THEN "loop" ELSE "send"
        /\ UNCHANGED <<streamVars, catVars, subscribed, events, fwVars, others, otherSent, writer, mainClient,
                       forwarding, conns, emptied, view>>
    BY <1>7 DEF MainSend
  <2>2. /\ connDone' \in BOOLEAN /\ sock' \in {"open", "closed"} /\ closing' \subseteq Goroutines
        /\ \/ sendCh' = sendCh
           \/ sendCh' = Append(sendCh, Message(mainJob)) /\ QueueHasRoom
    BY <1>7 DEF MainSend, CloseConnection, Shape, TypeOK, Goroutines
  <2>3. mainJob \in Jobs /\ mainJob.k \in {"start", "end", "remove"} /\ mainJob.lo <= mainJob.at
    BY <2>1 DEF Shape, TypeOK, Ranges, Roles
  <2>4. /\ sendCh' \in Seq(Messages) /\ Len(sendCh') + others' <= SendCap
        /\ \A i \in 1..Len(sendCh') : sendCh'[i].lo <= sendCh'[i].hi /\ sendCh'[i].lo <= sendCh'[i].at
    <3>1. CASE sendCh' = sendCh
      BY <2>1, <3>1 DEF Shape, TypeOK, Ranges
    <3>2. CASE sendCh' = Append(sendCh, Message(mainJob)) /\ QueueHasRoom
      <4>1. Message(mainJob) \in Messages /\ Message(mainJob).lo <= Message(mainJob).hi
            /\ Message(mainJob).lo <= Message(mainJob).at
        BY <2>3, MessageOfJob
      <4>2. Len(sendCh) + others < SendCap /\ others \in Nat /\ SendCap \in Nat /\ others' = others
        BY <2>1, <3>2, ReplayAssumption DEF QueueHasRoom, Shape, TypeOK
      <4> QED BY <3>2, <4>1, <4>2, QueueAppend DEF Shape, Ranges
    <3> QED BY <2>2, <3>1, <3>2
  <2>5. Rest(mainJob) \in Jobs /\ Rest(mainJob).lo <= Rest(mainJob).at
    BY <2>3, MessageOfJob
  <2>6. TypeOK'
    BY <2>1, <2>2, <2>4, <2>5 DEF Shape, TypeOK, streamVars, catVars, fwVars
  <2>7. Ranges'
    BY <2>1, <2>4, <2>5 DEF Shape, Ranges, fwVars
  <2>8. Roles'
    <3>1. CASE Rest(mainJob) = NoJob
      BY <2>1, <3>1 DEF Shape, Roles, catVars, fwVars
    <3>2. CASE Rest(mainJob) # NoJob
      <4>1. mainJob.k = "start" /\ mainJob.c \in emptied
            /\ mainJob.lo = 0 /\ mainJob.at = 0 /\ mainJob.seq = 0
        BY <2>1, <3>2 DEF Rest, Shape, Roles
      <4>2. mainJob'.k = "end" /\ mainJob'.c = mainJob.c
            /\ mainJob'.lo = 0 /\ mainJob'.at = 0 /\ mainJob'.seq = 0
        BY <2>1, <2>3, <4>1 DEF Rest, Jobs
      <4> QED BY <2>1, <3>2, <4>1, <4>2 DEF Shape, Roles, catVars, fwVars
    <3> QED BY <3>1, <3>2
  <2> QED BY <2>6, <2>7, <2>8 DEF Shape
<1>8. CASE MainRemove
  <2>1. /\ change /\ change' = FALSE /\ main' = "send" /\ mainClient' = NoClient
        /\ mainJob' = Job("remove", NoClient, 0, 0, 0)
        /\ UNCHANGED <<pos, lo, reading, done, removed, subscribed, events, fwVars, chanVars, connVars,
                       forwarding, conns, emptied, view>>
    BY <1>8 DEF MainRemove, streamVars
  <2>2. mainJob' \in Jobs /\ mainJob'.k = "remove" /\ mainJob'.lo = 0 /\ mainJob'.at = 0
    BY <2>1 DEF Job, Jobs, JobKinds
  <2>3. TypeOK'
    <3>1. /\ change' \in BOOLEAN /\ main' \in {"loop", "finish", "request", "send"}
          /\ mainClient' \in Clients \cup {NoClient} /\ mainJob' \in Jobs
      BY <2>1, <2>2
    <3>2. UNCHANGED <<pos, lo, reading, done, removed, subscribed, events, fwVars, chanVars, connVars,
                      forwarding, conns, emptied, view>>
      BY <2>1
    <3> QED BY <3>1, <3>2 DEF Shape, TypeOK, fwVars, chanVars, connVars
  <2>4. Ranges' /\ Roles'
    BY <2>1, <2>2 DEF Shape, Ranges, Roles, fwVars, chanVars
  <2> QED BY <2>3, <2>4 DEF Shape
<1> QED BY <1>1, <1>2, <1>3, <1>5, <1>6, <1>7, <1>8 DEF MainStep

\* What a message can do to a client's state: it is asked only once, an answer
\* is addressed to it, only a removal closes, and only output makes late.
LEMMA DeliverState ==
  ASSUME NEW v \in Views, NEW c \in Clients, NEW m \in Messages
  PROVE  /\ v.st # "none" => Deliver(v, c, m).st # "none"
         /\ v.st = "waiting" /\ m.c # c => Deliver(v, c, m) = v
         /\ Deliver(v, c, m).st = "closed" => v.st = "closed" \/ m.k = "remove"
         /\ Deliver(v, c, m).st = "late" => v.st \in {"late", "closed"}
         /\ Deliver(v, c, m).st = "late" /\ v.st = "closed" => Data(m)
         /\ m.k = "remove" => Deliver(v, c, m).st # "late"
BY DEF Deliver, Carries, Data, Views

\* The connection's steps.
LEMMA ConnShape == ASSUME Shape, Asking, WriterStep \/ ConnStep PROVE Shape'
<1>1. CASE OtherSend
  <2>1. /\ others' = others + 1 /\ otherSent' = otherSent + 1 /\ Len(sendCh) + others < SendCap
        /\ UNCHANGED <<streamVars, catVars, subscribed, events, fwVars, sendCh, connVars, mainVars, conns,
                       emptied, view>>
    BY <1>1 DEF OtherSend, QueueHasRoom
  <2>2. others' \in Nat /\ otherSent' \in Nat /\ Len(sendCh') + others' <= SendCap
    BY <2>1, ReplayAssumption DEF Shape, TypeOK
  <2>3. TypeOK'
    BY <2>1, <2>2 DEF Shape, TypeOK, streamVars, catVars, fwVars, connVars, mainVars
  <2>4. Ranges' /\ Roles'
    BY <2>1 DEF Shape, Ranges, Roles, catVars, fwVars, mainVars
  <2> QED BY <2>3, <2>4 DEF Shape
<1>2. ASSUME sendCh # << >>, sendCh' = Tail(sendCh), others' = others
      PROVE  /\ sendCh' \in Seq(Messages) /\ Len(sendCh') + others' <= SendCap
             /\ \A i \in 1..Len(sendCh') : /\ sendCh'[i].lo <= sendCh'[i].hi
                                           /\ sendCh'[i].lo <= sendCh'[i].at
  BY <1>2, QueueTail, ReplayAssumption DEF Shape, TypeOK, Ranges
<1>3. CASE WriteMessage
  <2>1. UNCHANGED <<streamVars, catVars, subscribed, events, fwVars, otherSent, connVars, mainVars, conns,
                    emptied>>
    BY <1>3 DEF WriteMessage
  <2>2. CASE /\ sendCh # << >> /\ sendCh' = Tail(sendCh) /\ UNCHANGED others
             /\ view' = [c \in Clients |-> Deliver(view[c], c, Head(sendCh))]
    <3> DEFINE m == Head(sendCh)
    <3>1. m \in Messages /\ m.lo <= m.hi /\ m.lo <= m.at /\ m = sendCh[1] /\ 1 \in 1..Len(sendCh)
      BY <2>2, QueueTail DEF Shape, Ranges
    <3> HIDE DEF m
    <3>2. \A c \in Clients : view[c] \in Views /\ view'[c] = Deliver(view[c], c, m)
      BY <2>2 DEF Shape, TypeOK, m
    <3>3. view' \in [Clients -> Views]
      BY <2>2, <3>1, <3>2, DeliverType DEF m
    <3>4. TypeOK'
      BY <1>2, <2>1, <2>2, <3>3 DEF Shape, TypeOK, streamVars, catVars, fwVars, connVars, mainVars
    <3>5. Ranges'
      BY <1>2, <2>1, <2>2 DEF Shape, Ranges, fwVars, mainVars
    <3>6. \A c \in emptied : view'[c].st # "none"
      <4>1. emptied \subseteq Clients /\ \A c \in emptied : view[c].st # "none"
        BY DEF Shape, TypeOK, Roles
      <4> QED BY <3>1, <3>2, <4>1, DeliverState
    <3>7. main \in {"finish", "request"} => view'[mainClient].st = "waiting"
      <4>1. ASSUME main \in {"finish", "request"} PROVE view'[mainClient].st = "waiting"
        <5>1. mainClient \in Clients /\ view[mainClient].st = "waiting" /\ m.c # mainClient
          BY <3>1, <4>1 DEF Shape, Roles, Asking, Unasked
        <5> QED BY <3>1, <3>2, <5>1, DeliverState
      <4> QED BY <4>1
    <3>8. Roles'
      BY <2>1, <3>6, <3>7 DEF Shape, Roles, catVars, fwVars, mainVars
    <3> QED BY <3>4, <3>5, <3>8 DEF Shape
  <2>3. CASE others > 0 /\ others' = others - 1 /\ UNCHANGED <<sendCh, view>>
    <3>1. others' \in Nat /\ Len(sendCh') + others' <= SendCap
      BY <2>3, ReplayAssumption DEF Shape, TypeOK
    <3>2. TypeOK'
      BY <2>1, <2>3, <3>1 DEF Shape, TypeOK, streamVars, catVars, fwVars, connVars, mainVars
    <3>3. Ranges' /\ Roles'
      BY <2>1, <2>3 DEF Shape, Ranges, Roles, catVars, fwVars, mainVars
    <3> QED BY <3>2, <3>3 DEF Shape
  <2> QED BY <1>3, <2>2, <2>3 DEF WriteMessage
<1>4. ASSUME UNCHANGED <<streamVars, catVars, subscribed, events, fwVars, others, otherSent, mainVars, conns,
                         emptied, view>>,
             connDone' \in BOOLEAN, sock' \in {"open", "closed"}, closing' \subseteq Goroutines,
             writer' \in {"run", "exited"},
             sendCh' = sendCh \/ (sendCh # << >> /\ sendCh' = Tail(sendCh))
      PROVE  Shape'
  <2>1. /\ sendCh' \in Seq(Messages) /\ Len(sendCh') + others' <= SendCap
        /\ \A i \in 1..Len(sendCh') : /\ sendCh'[i].lo <= sendCh'[i].hi
                                      /\ sendCh'[i].lo <= sendCh'[i].at
    <3>1. CASE sendCh' = sendCh
      BY <1>4, <3>1 DEF Shape, TypeOK, Ranges
    <3>2. CASE sendCh # << >> /\ sendCh' = Tail(sendCh)
      BY <1>2, <1>4, <3>2
    <3> QED BY <1>4, <3>1, <3>2
  <2>2. TypeOK'
    BY <1>4, <2>1 DEF Shape, TypeOK, streamVars, catVars, fwVars, mainVars
  <2>3. Ranges' /\ Roles'
    BY <1>4, <2>1 DEF Shape, Ranges, Roles, catVars, fwVars, mainVars
  <2> QED BY <2>2, <2>3 DEF Shape
<1>5. CASE WriteFails
  <2>1. /\ UNCHANGED <<streamVars, catVars, subscribed, events, fwVars, others, otherSent, mainVars, conns,
                       emptied, view>>
        /\ sendCh' = sendCh \/ (sendCh # << >> /\ sendCh' = Tail(sendCh))
    BY <1>5 DEF WriteFails
  <2>2. /\ connDone' \in BOOLEAN /\ sock' \in {"open", "closed"} /\ closing' \subseteq Goroutines
        /\ writer' \in {"run", "exited"}
    BY <1>5 DEF WriteFails, CloseConnection, Shape, TypeOK, Goroutines
  <2> QED BY <1>4, <2>1, <2>2
<1>6. CASE WriterStop \/ ReadFails \/ SocketClosed
  <2>1. /\ UNCHANGED <<streamVars, catVars, subscribed, events, fwVars, others, otherSent, mainVars, conns,
                       emptied, view>>
        /\ sendCh' = sendCh
    BY <1>6 DEF WriterStop, ReadFails, SocketClosed, chanVars
  <2>2. /\ connDone' \in BOOLEAN /\ sock' \in {"open", "closed"} /\ closing' \subseteq Goroutines
        /\ writer' \in {"run", "exited"}
    BY <1>6 DEF WriterStop, ReadFails, SocketClosed, CloseConnection, Shape, TypeOK, Goroutines
  <2> QED BY <1>4, <2>1, <2>2
<1>7. CASE Reconnect
  <2>1. /\ conns' = conns + 1 /\ forwarding' = (~done /\ ~removed) /\ subscribed' = forwarding'
        /\ fw' = (IF forwarding' THEN "run" ELSE "none") /\ change' = FALSE
        /\ events' = << >> /\ job' = NoJob /\ notified' = FALSE
        /\ sendCh' = << >> /\ others' = 0 /\ otherSent' = 0
        /\ connDone' = FALSE /\ sock' = "open" /\ writer' = "run"
        /\ view' = [c \in Clients |-> NewView] /\ emptied' = {} /\ main = "loop"
        /\ UNCHANGED <<streamVars, removed, ended, closing, main, mainClient, mainJob>>
    BY <1>7 DEF Reconnect, TornDown
  <2>2. /\ forwarding' \in BOOLEAN /\ subscribed' \in BOOLEAN /\ notified' \in BOOLEAN
        /\ change' \in BOOLEAN /\ connDone' \in BOOLEAN /\ fw' \in {"none", "run", "stop", "exited"}
    BY <2>1
  <2>3. /\ events' \in Seq(Jobs) /\ Len(events') = 0 /\ sendCh' \in Seq(Messages)
        /\ Len(sendCh') = 0
    BY <2>1
  <2>4. Len(events') <= EventCap /\ Len(sendCh') + others' <= SendCap /\ conns' \in Nat
    BY <2>1, <2>3, ReplayAssumption DEF Shape, TypeOK
  <2>5. view' \in [Clients -> Views]
    BY <2>1 DEF NewView, Views
  <2>6. TypeOK'
    <3>1. job' \in Jobs /\ emptied' \subseteq Clients /\ others' \in Nat /\ otherSent' \in Nat
      BY <2>1, NoJobTyped
    <3>2. sock' \in {"open", "closed"} /\ writer' \in {"run", "exited"}
      BY <2>1
    <3>3. UNCHANGED <<streamVars, removed, ended, closing, main, mainClient, mainJob>>
      BY <2>1
    <3> QED BY <2>2, <2>3, <2>4, <2>5, <3>1, <3>2, <3>3 DEF Shape, TypeOK, streamVars, catVars
  <2>7. Ranges'
    BY <2>1, <2>3, NoJobTyped DEF Shape, Ranges
  <2>8. subscribed' <=> fw' \in {"run", "stop"}
    BY <2>1
  <2>9. Roles'
    <3>1. job' = NoJob /\ main' = "loop" /\ emptied' = {} /\ change' = FALSE
      BY <2>1
    <3> QED BY <2>8, <3>1 DEF Roles
  <2> QED BY <2>6, <2>7, <2>9 DEF Shape
<1>8. CASE Halt
  BY <1>8 DEF Halt, vars, Shape, TypeOK, Ranges, Roles, streamVars, catVars, fwVars, chanVars, connVars,
              mainVars
<1> QED BY <1>1, <1>3, <1>5, <1>6, <1>7, <1>8 DEF WriterStep, ConnStep

-----------------------------------------------------------------------------
(* Who has been asked *)

\* What the PTY's steps change.
LEMMA StreamChanges ==
  ASSUME Shape, StreamStep
  PROVE  /\ UNCHANGED <<subscribed, fwVars, chanVars, writer, mainVars, conns, emptied, view>>
         /\ \/ UNCHANGED <<events, pos, connDone>>
            \/ \E n \in 1..MaxRead :
                 /\ pos' = pos + n
                 /\ \/ UNCHANGED <<events, connDone>> /\ ~subscribed
                    \/ UNCHANGED events /\ connDone'
                    \/ /\ events' = Append(events, Job("out", NoClient, pos, pos + n, 0))
                       /\ subscribed /\ UNCHANGED connDone
<1>1. ASSUME NEW n \in 1..MaxRead, NEW from \in {lo, pos}, EmitFrom(from, n)
      PROVE  /\ UNCHANGED <<subscribed, fwVars, chanVars, writer, mainVars, conns, emptied, view>>
             /\ pos' = pos + n
             /\ \/ UNCHANGED <<events, connDone>> /\ ~subscribed
                \/ UNCHANGED events /\ connDone'
                \/ /\ events' = Append(events, Job("out", NoClient, pos, pos + n, 0))
                   /\ subscribed /\ UNCHANGED connDone
  BY <1>1 DEF EmitFrom, Broadcast, CloseConnection
<1>2. CASE ReadLoopExit \/ CatalogRemove \/ SessionClose
  BY <1>2 DEF ReadLoopExit, CatalogRemove, SessionClose, connVars, streamVars
<1>3. ASSUME NEW n \in 1..MaxRead, Emit(n) \/ EmitReset(n)
      PROVE  /\ UNCHANGED <<subscribed, fwVars, chanVars, writer, mainVars, conns, emptied, view>>
             /\ pos' = pos + n
             /\ \/ UNCHANGED <<events, connDone>> /\ ~subscribed
                \/ UNCHANGED events /\ connDone'
                \/ /\ events' = Append(events, Job("out", NoClient, pos, pos + n, 0))
                   /\ subscribed /\ UNCHANGED connDone
  BY <1>1, <1>3 DEF Emit, EmitReset
<1> QED BY <1>2, <1>3 DEF StreamStep

\* A client nobody has answered yet has no message on its way, whatever happens.
LEMMA AskingKept == ASSUME Shape, Asking, Next PROVE Asking'
<1>1. CASE StreamStep
  <2>1. UNCHANGED <<job, sendCh, main, mainClient, view>>
    BY <1>1, StreamChanges DEF fwVars, chanVars, mainVars
  <2>2. \A c \in Clients : (\A i \in 1..Len(events) : events[i].c # c)
                             => \A i \in 1..Len(events') : events'[i].c # c
    <3>1. CASE events' = events
      BY <3>1
    <3>2. CASE \E n \in 1..MaxRead : events' = Append(events, Job("out", NoClient, pos, pos + n, 0))
      <4> PICK n \in 1..MaxRead : events' = Append(events, Job("out", NoClient, pos, pos + n, 0))
        BY <3>2
      <4>1. pos \in Nat /\ pos + n \in Nat /\ "out" \in JobKinds /\ 0 \in Nat
        BY DEF Shape, TypeOK, JobKinds
      <4>2. /\ Job("out", NoClient, pos, pos + n, 0) \in Jobs
            /\ Job("out", NoClient, pos, pos + n, 0).c = NoClient
        <5> DEFINE to == pos + n
        <5>1. to \in Nat /\ NoClient \in Clients \cup {NoClient}
          BY <4>1
        <5> HIDE DEF to
        <5>2. Job("out", NoClient, pos, to, 0) \in Jobs /\ Job("out", NoClient, pos, to, 0).c = NoClient
          BY <4>1, <5>1, JobTyped, SMTT(20)
        <5> QED BY <5>2 DEF to
      <4>3. /\ \A i \in 1..Len(events') : i \in 1..Len(events) \/ i = Len(events) + 1
            /\ \A i \in 1..Len(events) : events'[i] = events[i]
            /\ events'[Len(events) + 1].c = NoClient
        BY <4>2, EventsAppend DEF Shape
      <4>4. \A c \in Clients : c # NoClient
        BY ReplayAssumption
      <4> QED BY <4>3, <4>4
    <3> QED BY <1>1, <3>1, <3>2, StreamChanges
  <2> QED BY <2>1, <2>2 DEF Asking, Unasked
<1>2. CASE ForwarderTake
  <2>1. events # << >> /\ job' = events[1] /\ UNCHANGED <<sendCh, main, mainClient, view>>
    BY <1>2, EventsTail DEF ForwarderTake, chanVars, mainVars, Shape
  <2>2. 1 \in 1..Len(events) /\ \A i \in 1..Len(events') : i + 1 \in 1..Len(events) /\ events'[i] = events[i + 1]
    BY <1>2, EventsTail DEF ForwarderTake, Shape
  <2> QED BY <2>1, <2>2 DEF Asking, Unasked
<1>3. CASE ForwarderSend
  <2>1. UNCHANGED <<events, main, mainClient, view>> /\ sendCh' = Append(sendCh, Message(job))
        /\ job' = Rest(job)
    BY <1>3 DEF ForwarderSend, mainVars
  <2>2. /\ Message(job) \in Messages /\ Message(job).c \in {job.c, NoClient}
        /\ Rest(job).c \in {job.c, NoClient}
    BY <1>3, MessageOfJob DEF ForwarderSend, Shape, TypeOK, Ranges
  <2> QED BY <2>1, <2>2, QueueAppend, ReplayAssumption DEF Shape, Asking, Unasked
<1>4. CASE ForwarderGiveUp \/ ForwarderStop \/ ForwarderExit \/ ForwarderNotify
  <2>1. UNCHANGED <<events, sendCh, main, mainClient, view>> /\ (job' = job \/ job'.c = NoClient)
    BY <1>4, NoJobTyped
    DEF ForwarderGiveUp, ForwarderStop, ForwarderExit, ForwarderNotify, chanVars, mainVars
  <2> QED BY <2>1, ReplayAssumption DEF Asking, Unasked
<1>5. ASSUME NEW c \in Clients, AttachBegin(c) PROVE Asking'
  <2>1. /\ view[c].st = "none" /\ UNCHANGED <<events, job, sendCh>> /\ mainClient' = c
        /\ view' = [view EXCEPT ![c].st = "waiting"]
    BY <1>5 DEF AttachBegin, fwVars, chanVars
  <2>2. \A d \in Clients : view'[d].st = "none" => view[d].st = "none"
    BY <2>1 DEF Shape, TypeOK, Views
  <2> QED BY <2>1, <2>2 DEF Asking, Unasked
<1>6. CASE AnswerFromRing
  <2>1. /\ main = "request" /\ main' = "loop" /\ UNCHANGED <<job, sendCh, view>>
        /\ events' = events \/ events' = Append(events, RequestSnapshot(mainClient))
    BY <1>6 DEF AnswerFromRing, fwVars, chanVars
  <2>2. mainClient \in Clients /\ view[mainClient].st = "waiting"
    BY <2>1 DEF Shape, Roles
  <2>3. RequestSnapshot(mainClient) \in Jobs /\ RequestSnapshot(mainClient).c = mainClient
    BY <2>2 DEF RequestSnapshot, Job, Jobs, JobKinds, Shape, TypeOK
  <2> QED BY <2>1, <2>2, <2>3, EventsAppend DEF Shape, Asking, Unasked
<1>7. CASE AnswerEmpty \/ FinishAttach \/ SessionEnded \/ MainRemove
  <2>1. /\ UNCHANGED <<job, sendCh, view>> /\ (events' = events \/ events' = << >>)
        /\ \/ main' \in {"loop", "send"}
           \/ main = "finish" /\ mainClient' = mainClient
           \/ UNCHANGED <<main, mainClient>>
    BY <1>7 DEF AnswerEmpty, FinishAttach, SessionEnded, MainRemove, Retire, fwVars, chanVars, mainVars
  <2>2. events' = << >> => Len(events') = 0
    OBVIOUS
  <2> QED BY <2>1, <2>2 DEF Asking, Unasked
<1>8. CASE MainSend
  <2>1. /\ main = "send" /\ main' \in {"loop", "send"} /\ UNCHANGED <<job, events, view>>
        /\ sendCh' = sendCh \/ sendCh' = Append(sendCh, Message(mainJob))
    BY <1>8 DEF MainSend, fwVars
  <2>2. /\ mainJob \in Jobs /\ mainJob.k # "none" /\ mainJob.lo <= mainJob.at
        /\ mainJob.k = "remove" \/ mainJob.c \in emptied
    BY <2>1 DEF Shape, TypeOK, Ranges, Roles
  <2>3. Message(mainJob) \in Messages
    BY <2>2, MessageOfJob
  <2>4. \A c \in Clients : view[c].st = "none" => Message(mainJob).c # c
    <3>1. \A c \in Clients : view[c].st = "none" => c \notin emptied /\ c # NoClient
      BY ReplayAssumption DEF Shape, Roles
    <3>2. Message(mainJob).c \in emptied \cup {NoClient}
      <4>1. CASE mainJob.k = "remove"
        BY <4>1 DEF Message
      <4>2. CASE mainJob.c \in emptied
        BY <2>2, <4>2, MessageOfJob
      <4> QED BY <2>2, <4>1, <4>2
    <3> QED BY <3>1, <3>2
  <2> QED BY <2>1, <2>3, <2>4, QueueAppend DEF Shape, Asking, Unasked
<1>9. CASE WriteMessage \/ WriteFails
  <2>1. UNCHANGED <<job, events, main, mainClient>>
    BY <1>9 DEF WriteMessage, WriteFails, fwVars, mainVars
  <2>2. \/ sendCh' = sendCh
        \/ sendCh # << >> /\ sendCh' = Tail(sendCh)
    BY <1>9 DEF WriteMessage, WriteFails
  <2>3. \A c \in Clients : Unasked(c) => Unasked(c)'
    BY <2>1, <2>2, QueueTail DEF Shape, Unasked
  <2>4. \A c \in Clients : view'[c].st = "none" => view[c].st = "none"
    <3>1. CASE view' = view
      BY <3>1
    <3>2. CASE sendCh # << >> /\ view' = [c \in Clients |-> Deliver(view[c], c, Head(sendCh))]
      <4>1. Head(sendCh) \in Messages /\ \A c \in Clients : view[c] \in Views
        BY <3>2 DEF Shape, TypeOK
      <4> QED BY <3>2, <4>1, DeliverState
    <3> QED BY <1>9, <3>1, <3>2 DEF WriteMessage, WriteFails
  <2> QED BY <2>1, <2>3, <2>4 DEF Asking
<1>10. CASE OtherSend \/ WriterStop \/ ReadFails \/ SocketClosed \/ Halt
  <2>1. UNCHANGED <<job, events, sendCh, main, mainClient, view>>
    BY <1>10 DEF OtherSend, WriterStop, ReadFails, SocketClosed, Halt, vars, fwVars, chanVars, mainVars
  <2> QED BY <2>1 DEF Asking, Unasked
<1>11. CASE Reconnect
  <2>1. job' = NoJob /\ Len(events') = 0 /\ Len(sendCh') = 0
    BY <1>11 DEF Reconnect
  <2> QED BY <2>1, NoJobTyped, ReplayAssumption DEF Asking, Unasked
<1> QED BY <1>1, <1>2, <1>3, <1>4, <1>5, <1>6, <1>7, <1>8, <1>9, <1>10, <1>11
        DEF Next, ForwarderStep, MainStep, WriterStep, ConnStep

\* connDone stays closed until the agent reconnects.
LEMMA OpenBefore == ASSUME Shape, Next, ~connDone', ~Reconnect PROVE ~connDone
<1>1. CASE StreamStep
  BY <1>1 DEF StreamStep, Emit, EmitReset, EmitFrom, Broadcast, CloseConnection, ReadLoopExit,
              CatalogRemove, SessionClose, connVars
<1>2. CASE ForwarderStep
  BY <1>2 DEF ForwarderStep, ForwarderTake, ForwarderSend, ForwarderGiveUp, ForwarderStop,
              ForwarderExit, ForwarderNotify, connVars
<1>3. CASE (\E c \in Clients : AttachBegin(c)) \/ MainStep
  BY <1>3 DEF AttachBegin, MainStep, AnswerFromRing, AnswerEmpty, FinishAttach, SessionEnded,
              MainRemove, MainSend, CloseConnection, connVars
<1>4. CASE WriterStep \/ ConnStep
  BY <1>4 DEF WriterStep, ConnStep, OtherSend, WriteMessage, WriteFails, WriterStop, ReadFails,
              SocketClosed, Halt, CloseConnection, connVars, vars
<1> QED BY <1>1, <1>2, <1>3, <1>4 DEF Next

\* What the main loop sends carries no output.
LEMMA MainSends ==
  ASSUME Shape, main = "send"
  PROVE  /\ Message(mainJob) \in Messages /\ ~Data(Message(mainJob))
         /\ Message(mainJob).k = mainJob.k
         /\ mainJob.k = "remove" => fw = "exited" \/ removed
<1>1. /\ mainJob \in Jobs /\ mainJob.k \in {"start", "end", "remove"} /\ mainJob.lo <= mainJob.at
      /\ mainJob.k = "remove" => fw = "exited" \/ removed
  BY DEF Shape, TypeOK, Ranges, Roles
<1> QED BY <1>1, MessageOfJob DEF Data

\* A place of the queue that no output follows, once the first message has left.
LEMMA TailQuiet ==
  ASSUME TypeOK, sendCh # << >>, sendCh' = Tail(sendCh), NEW i \in Nat, QuietFrom(i + 1)
  PROVE  QuietFrom(i)'
<1> SUFFICES ASSUME NEW j \in 1..Len(sendCh'), i < j PROVE ~Data(sendCh'[j])
  BY DEF QuietFrom, Data
<1>1. j + 1 \in 1..Len(sendCh) /\ sendCh'[j] = sendCh[j + 1] /\ i + 1 < j + 1
  BY QueueTail
<1> QED BY <1>1 DEF QuietFrom

\* What a scan has removed stays removed.
LEMMA RemovedStays == ASSUME Next, removed PROVE removed'
<1>1. CASE StreamStep
  BY <1>1 DEF StreamStep, Emit, EmitReset, EmitFrom, ReadLoopExit, CatalogRemove, SessionClose, catVars
<1>2. CASE ForwarderStep
  BY <1>2 DEF ForwarderStep, ForwarderTake, ForwarderSend, ForwarderGiveUp, ForwarderStop,
              ForwarderExit, ForwarderNotify, catVars
<1>3. CASE (\E c \in Clients : AttachBegin(c)) \/ MainStep
  BY <1>3 DEF AttachBegin, MainStep, AnswerFromRing, AnswerEmpty, FinishAttach, SessionEnded,
              MainRemove, MainSend, catVars
<1>4. CASE WriterStep \/ ConnStep
  BY <1>4 DEF WriterStep, ConnStep, OtherSend, WriteMessage, WriteFails, WriterStop, ReadFails,
              SocketClosed, Reconnect, Halt, catVars, vars
<1> QED BY <1>1, <1>2, <1>3, <1>4 DEF Next

\* Before a scan removes the session nothing of it follows its session_remove:
\* the main loop sends that message only after the forwarder has exited, and
\* nobody else sends output.
LEMMA UntilScanKept == ASSUME Shape, UntilScan, Next PROVE UntilScan'
<1> SUFFICES ASSUME ~removed' PROVE NothingFollows'
  BY DEF UntilScan
<1>0. ~removed /\ NothingFollows
  BY RemovedStays DEF UntilScan
<1>1. ASSUME UNCHANGED <<sendCh, view>>, fw = "exited" => fw' = "exited" PROVE NothingFollows'
  BY <1>0, <1>1 DEF NothingFollows, QuietFrom, Data
<1>2. CASE StreamStep
  BY <1>1, <1>2, StreamChanges DEF fwVars, chanVars
<1>3. CASE ForwarderTake \/ ForwarderGiveUp \/ ForwarderStop \/ ForwarderExit \/ ForwarderNotify
  <2>1. UNCHANGED <<sendCh, view>> /\ (fw = "exited" => fw' = "exited")
    BY <1>3 DEF ForwarderTake, ForwarderGiveUp, ForwarderStop, ForwarderExit, ForwarderNotify, chanVars
  <2> QED BY <1>1, <2>1
<1>4. CASE ForwarderSend
  <2>1. fw = "run" /\ job # NoJob /\ UNCHANGED view /\ sendCh' = Append(sendCh, Message(job))
    BY <1>4 DEF ForwarderSend
  <2>2. Message(job) \in Messages /\ Message(job).k # "remove"
    BY <2>1, MessageOfJob DEF Shape, TypeOK, Ranges
  <2>3. /\ \A i \in 1..Len(sendCh) : sendCh[i].k # "remove"
        /\ \A c \in Clients : view[c].st \notin {"closed", "late"}
    BY <1>0, <2>1 DEF NothingFollows
  <2>4. \A i \in 1..Len(sendCh') : sendCh'[i].k # "remove"
    BY <2>1, <2>2, <2>3, QueueAppend DEF Shape
  <2> QED BY <2>1, <2>3, <2>4 DEF NothingFollows
<1>5. ASSUME NEW c \in Clients, AttachBegin(c) PROVE NothingFollows'
  <2>1. UNCHANGED <<fw, sendCh>> /\ view' = [view EXCEPT ![c].st = "waiting"]
    BY <1>5 DEF AttachBegin, fwVars, chanVars
  <2>2. \A d \in Clients : view'[d].st \in {view[d].st, "waiting"}
    BY <2>1 DEF Shape, TypeOK, Views
  <2> QED BY <1>0, <2>1, <2>2 DEF NothingFollows, QuietFrom, Data
<1>6. CASE AnswerFromRing \/ AnswerEmpty \/ FinishAttach \/ SessionEnded
  <2>1. UNCHANGED <<fw, sendCh, view>>
    BY <1>6 DEF AnswerFromRing, AnswerEmpty, FinishAttach, SessionEnded, fwVars, chanVars
  <2> QED BY <1>1, <2>1
<1>7. CASE MainRemove
  BY <1>0, <1>7 DEF MainRemove, Shape, Roles
<1>8. CASE MainSend
  <2>1. /\ main = "send" /\ UNCHANGED <<fw, view>>
        /\ sendCh' = sendCh \/ sendCh' = Append(sendCh, Message(mainJob))
    BY <1>8 DEF MainSend, fwVars
  <2>2. CASE sendCh' = sendCh
    BY <1>1, <2>1, <2>2
  <2>3. CASE sendCh' = Append(sendCh, Message(mainJob))
    <3>1. /\ Message(mainJob) \in Messages /\ ~Data(Message(mainJob))
          /\ Message(mainJob).k = "remove" => fw = "exited"
      BY <1>0, <2>1, MainSends
    <3>2. ASSUME NEW i \in 0..Len(sendCh), QuietFrom(i) PROVE QuietFrom(i)'
      BY <2>3, <3>1, <3>2, QueueAppend DEF Shape, QuietFrom, Data
    <3>3. ASSUME NEW i \in Nat, i = Len(sendCh) + 1 PROVE QuietFrom(i)'
      BY <2>3, <3>1, <3>3, QueueAppend DEF Shape, QuietFrom
    <3>4. ASSUME NEW i \in 1..Len(sendCh'), sendCh'[i].k = "remove"
          PROVE  fw' = "exited" /\ QuietFrom(i)'
      <4>1. i \in 1..Len(sendCh) \/ i = Len(sendCh) + 1
        BY <2>3, <3>1, QueueAppend DEF Shape
      <4>2. CASE i = Len(sendCh) + 1
        <5>1. sendCh'[i] = Message(mainJob) /\ i \in Nat
          BY <2>3, <3>1, <4>2, QueueAppend DEF Shape
        <5> QED BY <2>1, <3>1, <3>3, <3>4, <4>2, <5>1
      <4>3. CASE i \in 1..Len(sendCh)
        <5>1. sendCh[i].k = "remove" /\ i \in 0..Len(sendCh)
          BY <2>3, <3>1, <3>4, <4>3, QueueAppend DEF Shape
        <5> QED BY <1>0, <2>1, <3>2, <4>3, <5>1 DEF NothingFollows
      <4> QED BY <4>1, <4>2, <4>3
    <3>5. 0 \in 0..Len(sendCh)
      BY DEF Shape, TypeOK
    <3>6. ASSUME NEW c \in Clients
          PROVE  view'[c].st # "late" /\ (view'[c].st = "closed" => fw' = "exited" /\ QuietFrom(0)')
      BY <1>0, <2>1, <3>2, <3>5 DEF NothingFollows
    <3> QED BY <3>4, <3>6 DEF NothingFollows
  <2> QED BY <2>1, <2>2, <2>3
<1>9. ASSUME sendCh # << >>, sendCh' = Tail(sendCh), UNCHANGED fw
      PROVE  \A i \in 1..Len(sendCh') : sendCh'[i].k = "remove" => fw' = "exited" /\ QuietFrom(i)'
  <2> SUFFICES ASSUME NEW i \in 1..Len(sendCh'), sendCh'[i].k = "remove"
               PROVE  fw' = "exited" /\ QuietFrom(i)'
    OBVIOUS
  <2>1. i + 1 \in 1..Len(sendCh) /\ sendCh'[i] = sendCh[i + 1]
    BY <1>9, QueueTail DEF Shape
  <2>2. fw = "exited" /\ QuietFrom(i + 1)
    BY <1>0, <2>1 DEF NothingFollows
  <2> QED BY <1>9, <2>2, TailQuiet DEF Shape
<1>10. CASE WriteMessage
  <2>1. UNCHANGED fw
    BY <1>10 DEF WriteMessage, fwVars
  <2>2. CASE UNCHANGED <<sendCh, view>>
    BY <1>1, <2>1, <2>2
  <2>3. CASE /\ sendCh # << >> /\ sendCh' = Tail(sendCh)
             /\ view' = [c \in Clients |-> Deliver(view[c], c, Head(sendCh))]
    <3>1. Head(sendCh) = sendCh[1] /\ 1 \in 1..Len(sendCh) /\ sendCh[1] \in Messages
      BY <2>3, QueueTail DEF Shape
    <3>2. ASSUME NEW c \in Clients
          PROVE  /\ view'[c].st # "late"
                 /\ view'[c].st = "closed" => fw' = "exited" /\ QuietFrom(0)'
      <4>1. view[c] \in Views /\ view'[c] = Deliver(view[c], c, sendCh[1])
        BY <2>3, <3>1 DEF Shape, TypeOK
      <4>2. /\ view'[c].st = "closed" => view[c].st = "closed" \/ sendCh[1].k = "remove"
            /\ view'[c].st = "late" => view[c].st \in {"late", "closed"}
            /\ view'[c].st = "late" /\ view[c].st = "closed" => Data(sendCh[1])
        BY <3>1, <4>1, DeliverState
      <4>3. view[c].st = "closed" => fw = "exited" /\ QuietFrom(0)
        BY <1>0 DEF NothingFollows
      <4>4. sendCh[1].k = "remove" => fw = "exited" /\ QuietFrom(1)
        BY <1>0, <3>1 DEF NothingFollows
      <4>5. QuietFrom(0) => ~Data(sendCh[1]) /\ QuietFrom(1)
        BY <3>1 DEF QuietFrom
      <4>6. view'[c].st # "late"
        BY <1>0, <4>2, <4>3, <4>5 DEF NothingFollows
      <4>7. QuietFrom(1) => QuietFrom(0)'
        BY <2>3, TailQuiet DEF Shape
      <4> QED BY <2>1, <4>2, <4>3, <4>4, <4>5, <4>6, <4>7
    <3> QED BY <1>9, <2>1, <2>3, <3>2 DEF NothingFollows
  <2> QED BY <1>10, <2>2, <2>3 DEF WriteMessage
<1>11. CASE WriteFails
  <2>1. UNCHANGED <<fw, view>>
    BY <1>11 DEF WriteFails, fwVars
  <2>2. CASE sendCh' = sendCh
    BY <1>1, <2>1, <2>2
  <2>3. CASE sendCh # << >> /\ sendCh' = Tail(sendCh)
    <3>1. QuietFrom(0) => QuietFrom(0)'
      <4>1. QuietFrom(0) => QuietFrom(1)
        BY DEF QuietFrom
      <4> QED BY <2>3, <4>1, TailQuiet DEF Shape
    <3> QED BY <1>0, <1>9, <2>1, <2>3, <3>1 DEF NothingFollows
  <2> QED BY <1>11, <2>2, <2>3 DEF WriteFails
<1>12. CASE OtherSend \/ WriterStop \/ ReadFails \/ SocketClosed \/ Halt
  <2>1. UNCHANGED <<fw, sendCh, view>>
    BY <1>12 DEF OtherSend, WriterStop, ReadFails, SocketClosed, Halt, vars, fwVars, chanVars
  <2> QED BY <1>1, <2>1
<1>13. CASE Reconnect
  <2>1. Len(sendCh') = 0 /\ \A c \in Clients : view'[c].st = "none"
    BY <1>13 DEF Reconnect, NewView
  <2> QED BY <2>1 DEF NothingFollows
<1> QED BY <1>2, <1>3, <1>4, <1>5, <1>6, <1>7, <1>8, <1>10, <1>11, <1>12, <1>13
        DEF Next, ForwarderStep, MainStep, WriterStep, ConnStep

\* Once the session is retired the forwarder is gone, and its last session_remove
\* is the end of what the relay hears of it.
LEMMA RetiredKept == ASSUME Shape, Retired, Next PROVE Retired'
<1> SUFFICES ASSUME ~forwarding', ~connDone'
             PROVE  fw' \in {"none", "exited"} /\ LastIsRemove'
  BY DEF Retired
<1>1. CASE Reconnect
  <2>1. /\ fw' = "none" /\ Len(sendCh') = 0 /\ \A c \in Clients : view'[c].st = "none"
    BY <1>1 DEF Reconnect, NewView
  <2> QED BY <2>1 DEF LastIsRemove, QuietFrom
<1>2. CASE Retire /\ UNCHANGED fw
  BY <1>2 DEF Retire, RetireReady, Job, LastIsRemove
<1>3. CASE ~Reconnect /\ ~(Retire /\ UNCHANGED fw)
  <2>1. ~connDone
    BY <1>3, OpenBefore
  <2>2. ~forwarding
    <3>1. CASE StreamStep
      BY <3>1, StreamChanges DEF mainVars
    <3>2. CASE ForwarderStep
      BY <3>2 DEF ForwarderStep, ForwarderTake, ForwarderSend, ForwarderGiveUp, ForwarderStop,
                  ForwarderExit, ForwarderNotify, mainVars
    <3>3. CASE (\E c \in Clients : AttachBegin(c)) \/ MainStep
      BY <1>3, <3>3 DEF AttachBegin, MainStep, AnswerFromRing, AnswerEmpty, FinishAttach, SessionEnded,
                        MainRemove, MainSend, mainVars, fwVars
    <3>4. CASE WriterStep \/ ConnStep
      BY <1>3, <3>4 DEF WriterStep, ConnStep, OtherSend, WriteMessage, WriteFails, WriterStop,
                        ReadFails, SocketClosed, Halt, mainVars, vars
    <3> QED BY <3>1, <3>2, <3>3, <3>4 DEF Next
  <2>3. fw \in {"none", "exited"} /\ LastIsRemove
    BY <2>1, <2>2 DEF Retired
  <2>4. ASSUME UNCHANGED <<sendCh, view>>, fw' \in {"none", "exited"},
               main = "send" /\ mainJob.k = "remove" => main' = "send" /\ mainJob'.k = "remove"
        PROVE  fw' \in {"none", "exited"} /\ LastIsRemove'
    BY <2>3, <2>4 DEF LastIsRemove, QuietFrom, Data
  <2>5. CASE StreamStep
    BY <2>3, <2>4, <2>5, StreamChanges DEF fwVars, chanVars, mainVars
  <2>6. CASE ForwarderStep
    <3>1. CASE ForwarderTake \/ ForwarderSend \/ ForwarderGiveUp \/ ForwarderStop
      BY <2>3, <3>1 DEF ForwarderTake, ForwarderSend, ForwarderGiveUp, ForwarderStop
    <3>2. CASE ForwarderExit \/ ForwarderNotify
      BY <2>3, <2>4, <3>2 DEF ForwarderExit, ForwarderNotify, chanVars, mainVars
    <3> QED BY <2>6, <3>1, <3>2 DEF ForwarderStep
  <2>7. CASE \E c \in Clients : AttachBegin(c)
    BY <2>2, <2>7 DEF AttachBegin
  <2>8. CASE AnswerFromRing \/ AnswerEmpty \/ FinishAttach \/ SessionEnded \/ MainRemove
    <3>1. UNCHANGED <<sendCh, view, fw>>
      BY <2>8 DEF AnswerFromRing, AnswerEmpty, FinishAttach, SessionEnded, MainRemove, fwVars, chanVars
    <3>2. main = "send" /\ mainJob.k = "remove" => main' = "send" /\ mainJob'.k = "remove"
      BY <2>8 DEF AnswerFromRing, AnswerEmpty, FinishAttach, SessionEnded, MainRemove, mainVars
    <3> QED BY <2>3, <2>4, <3>1, <3>2
  <2>9. CASE MainSend
    <3>1. main = "send" /\ UNCHANGED <<view, fw>> /\ sendCh' = Append(sendCh, Message(mainJob))
      BY <2>1, <2>9 DEF MainSend, CloseConnection, fwVars
    <3>2. /\ Message(mainJob) \in Messages /\ ~Data(Message(mainJob))
          /\ mainJob.k = "remove" => Message(mainJob).k = "remove"
      BY <3>1, MainSends
    <3>3. /\ Len(sendCh) \in Nat /\ Len(sendCh') = Len(sendCh) + 1
          /\ \A i \in 1..Len(sendCh) : sendCh'[i] = sendCh[i]
          /\ sendCh'[Len(sendCh) + 1] = Message(mainJob)
      BY <3>1, <3>2, QueueAppend DEF Shape
    <3>4. \A i \in 0..Len(sendCh) : QuietFrom(i) => QuietFrom(i)'
      <4> SUFFICES ASSUME NEW i \in 0..Len(sendCh), QuietFrom(i), NEW j \in 1..Len(sendCh'), i < j
                   PROVE  ~Data(sendCh'[j])
        BY DEF QuietFrom, Data
      <4>1. j \in 1..Len(sendCh) \/ j = Len(sendCh) + 1
        BY <3>3
      <4> QED BY <3>2, <3>3, <4>1 DEF QuietFrom
    <3>5. CASE mainJob.k = "remove"
      <4> PICK k \in Nat : k = Len(sendCh) + 1
        BY <3>3
      <4>1. k \in 1..Len(sendCh') /\ sendCh'[k].k = "remove" /\ QuietFrom(k)'
        BY <3>2, <3>3, <3>5 DEF QuietFrom
      <4> QED BY <2>3, <3>1, <4>1 DEF LastIsRemove
    <3>6. CASE \E i \in 1..Len(sendCh) : sendCh[i].k = "remove" /\ QuietFrom(i)
      <4> PICK i \in 1..Len(sendCh) : sendCh[i].k = "remove" /\ QuietFrom(i)
        BY <3>6
      <4>1. i \in 1..Len(sendCh') /\ sendCh'[i].k = "remove" /\ QuietFrom(i)'
        BY <3>3, <3>4
      <4> QED BY <2>3, <3>1, <4>1 DEF LastIsRemove
    <3>7. CASE QuietFrom(0) /\ \A c \in Clients : view[c].st # "late"
      <4>1. QuietFrom(0)'
        BY <3>3, <3>4, <3>7
      <4> QED BY <2>3, <3>1, <3>7, <4>1 DEF LastIsRemove
    <3> QED BY <2>3, <3>5, <3>6, <3>7 DEF LastIsRemove
  <2>10. CASE WriteMessage
    <3>1. UNCHANGED <<fw, main, mainJob>>
      BY <2>10 DEF WriteMessage, fwVars, mainVars
    <3>2. CASE UNCHANGED <<sendCh, view>>
      BY <2>3, <2>4, <3>1, <3>2
    <3>3. CASE /\ sendCh # << >> /\ sendCh' = Tail(sendCh)
               /\ view' = [c \in Clients |-> Deliver(view[c], c, Head(sendCh))]
      <4>1. /\ Head(sendCh) = sendCh[1] /\ 1 \in 1..Len(sendCh) /\ sendCh[1] \in Messages
            /\ Len(sendCh) \in Nat /\ Len(sendCh') = Len(sendCh) - 1
            /\ \A i \in 1..Len(sendCh') : i + 1 \in 1..Len(sendCh) /\ sendCh'[i] = sendCh[i + 1]
        BY <3>3, QueueTail DEF Shape
      <4>2. ASSUME NEW c \in Clients
            PROVE  /\ view'[c].st = "late" => view[c].st \in {"late", "closed"}
                   /\ view'[c].st = "late" /\ view[c].st = "closed" => Data(sendCh[1])
                   /\ sendCh[1].k = "remove" => view'[c].st # "late"
        <5>1. view[c] \in Views /\ view'[c] = Deliver(view[c], c, sendCh[1])
          BY <3>3, <4>1 DEF Shape, TypeOK
        <5> QED BY <4>1, <5>1, DeliverState
      <4>3. CASE main = "send" /\ mainJob.k = "remove"
        BY <2>3, <3>1, <4>3 DEF LastIsRemove
      <4>4. CASE \E i \in 1..Len(sendCh) : sendCh[i].k = "remove" /\ QuietFrom(i)
        <5> PICK i \in 1..Len(sendCh) : sendCh[i].k = "remove" /\ QuietFrom(i)
          BY <4>4
        <5>1. CASE i = 1
          <6>1. QuietFrom(0)'
            BY <3>3, <5>1, TailQuiet DEF Shape
          <6>2. \A c \in Clients : view'[c].st # "late"
            BY <4>2, <5>1
          <6> QED BY <2>3, <3>1, <6>1, <6>2 DEF LastIsRemove
        <5>2. CASE i # 1
          <6>1. PICK k \in Nat : k = i - 1
            BY <4>1
          <6>2. k \in 1..Len(sendCh') /\ k + 1 = i
            BY <4>1, <5>2, <6>1
          <6>3. sendCh'[k].k = "remove"
            BY <4>1, <6>2
          <6>4. QuietFrom(k)'
            BY <3>3, <6>2, TailQuiet DEF Shape
          <6> QED BY <2>3, <3>1, <6>2, <6>3, <6>4 DEF LastIsRemove
        <5> QED BY <5>1, <5>2
      <4>5. CASE QuietFrom(0) /\ \A c \in Clients : view[c].st # "late"
        <5>1. ~Data(sendCh[1]) /\ QuietFrom(1)
          BY <4>1, <4>5 DEF QuietFrom
        <5>2. QuietFrom(0)'
          BY <3>3, <5>1, TailQuiet DEF Shape
        <5>3. \A c \in Clients : view'[c].st # "late"
          BY <4>2, <4>5, <5>1
        <5> QED BY <2>3, <3>1, <5>2, <5>3 DEF LastIsRemove
      <4> QED BY <2>3, <4>3, <4>4, <4>5 DEF LastIsRemove
    <3> QED BY <2>10, <3>2, <3>3 DEF WriteMessage
  <2>11. CASE WriteFails \/ ReadFails
    BY <2>11 DEF WriteFails, ReadFails, CloseConnection
  <2>12. CASE OtherSend \/ WriterStop \/ SocketClosed \/ Halt
    BY <2>3, <2>4, <2>12
    DEF OtherSend, WriterStop, SocketClosed, Halt, vars, fwVars, chanVars, mainVars
  <2> QED BY <1>3, <2>5, <2>6, <2>7, <2>8, <2>9, <2>10, <2>11, <2>12
          DEF Next, MainStep, WriterStep, ConnStep
<1> QED BY <1>1, <1>2, <1>3

-----------------------------------------------------------------------------
(* The channel *)

\* What is left of a job in work is in work.
LEMMA RestInWork ==
  ASSUME NEW j \in Jobs, InWork(j), Rest(j) # NoJob
  PROVE  InWork(Rest(j)) /\ Rest(j).at = j.at
<1>1. /\ j.k \in {"out", "start", "chunk", "end"} /\ j.lo \in Nat /\ j.at \in Nat /\ j.seq \in Nat
      /\ j.lo <= j.at
  BY DEF InWork, Waiting, OutJob, SnapJob, Jobs
<1>2. CASE j.k = "start"
  <2>1. SnapJob(j)
    BY <1>2 DEF InWork, Waiting, OutJob
  <2>2. Rest(j) = [k |-> IF j.lo < j.at THEN "chunk" ELSE "end", c |-> j.c,
                   lo |-> j.lo, at |-> j.at, seq |-> j.seq]
    BY <1>2 DEF Rest, Jobs
  <2> QED BY <1>1, <2>1, <2>2 DEF InWork, SnapJob
<1>3. CASE j.k = "chunk"
  <2>1. SnapJob(j)
    BY <1>3 DEF InWork, Waiting, OutJob
  <2>2. Rest(j) = [k |-> IF ChunkEnd(j) < j.at THEN "chunk" ELSE "end", c |-> j.c,
                   lo |-> ChunkEnd(j), at |-> j.at, seq |-> j.seq + 1]
    BY <1>3 DEF Rest, Jobs
  <2>3. ChunkEnd(j) \in Nat /\ ChunkEnd(j) <= j.at
    BY <1>1, ChunkAdvances
  <2> QED BY <1>1, <2>1, <2>2, <2>3 DEF InWork, SnapJob
<1> QED BY <1>1, <1>2, <1>3 DEF Rest

\* A job's message starts where the job stands and ends where its rest does.
LEMMA MessageMoves ==
  ASSUME NEW j \in Jobs, InWork(j)
  PROVE  /\ Ours(Message(j)) /\ StateBefore(Message(j)) = JobState(j)
         /\ StateAfter(Message(j)) = IF Rest(j) = NoJob THEN Idle(j.at) ELSE JobState(Rest(j))
         /\ StateAfter(Message(j)) \in States
<1>1. /\ j.k \in {"out", "start", "chunk", "end"} /\ j.lo \in Nat /\ j.at \in Nat /\ j.seq \in Nat
      /\ j.lo <= j.at /\ j.c \in Clients \cup {NoClient}
  BY DEF InWork, Waiting, OutJob, SnapJob, Jobs
<1>2. CASE j.k = "out"
  BY <1>1, <1>2 DEF Message, Rest, Ours, StateBefore, StateAfter, JobState, Idle, Snap, States
<1>3. CASE j.k = "start"
  <2>1. j.c \notin emptied /\ j.seq = 0
    BY <1>3 DEF InWork, Waiting, OutJob, SnapJob
  <2>2. Rest(j) = [k |-> IF j.lo < j.at THEN "chunk" ELSE "end", c |-> j.c,
                   lo |-> j.lo, at |-> j.at, seq |-> j.seq]
    BY <1>3 DEF Rest, Jobs
  <2>3. Rest(j) # NoJob /\ JobState(Rest(j)) = Snap(j.c, j.lo, 0, j.at)
    BY <1>1, <2>1, <2>2 DEF JobState, NoJob, Job
  <2> QED BY <1>1, <1>3, <2>1, <2>3
          DEF Message, Ours, StateBefore, StateAfter, JobState, Idle, Snap, States
<1>4. CASE j.k = "chunk"
  <2>1. j.c \notin emptied
    BY <1>4 DEF InWork, Waiting, OutJob, SnapJob
  <2>2. Rest(j) = [k |-> IF ChunkEnd(j) < j.at THEN "chunk" ELSE "end", c |-> j.c,
                   lo |-> ChunkEnd(j), at |-> j.at, seq |-> j.seq + 1]
    BY <1>4 DEF Rest, Jobs
  <2>3. ChunkEnd(j) \in Nat
    BY <1>1, ChunkAdvances
  <2>4. Rest(j) # NoJob /\ JobState(Rest(j)) = Snap(j.c, ChunkEnd(j), j.seq + 1, j.at)
    BY <1>1, <2>2, <2>3 DEF JobState, NoJob, Job
  <2>5. Message(j) = [k |-> "chunk", c |-> j.c, lo |-> j.lo, hi |-> ChunkEnd(j), at |-> j.at,
                      seq |-> j.seq + 1]
    BY <1>4 DEF Message
  <2>6. Ours(Message(j)) /\ StateBefore(Message(j)) = Snap(j.c, j.lo, j.seq, j.at)
    BY <1>1, <2>1, <2>5 DEF Ours, StateBefore, Snap
  <2>7. StateAfter(Message(j)) = Snap(j.c, ChunkEnd(j), j.seq + 1, j.at)
    BY <1>1, <2>5 DEF StateAfter
  <2>8. Snap(j.c, ChunkEnd(j), j.seq + 1, j.at) \in States
    <3>1. j.seq + 1 \in Nat
      BY <1>1
    <3> QED BY <1>1, <2>3, <3>1 DEF Snap, States
  <2>9. JobState(j) = Snap(j.c, j.lo, j.seq, j.at)
    BY <1>4 DEF JobState
  <2> QED BY <2>4, <2>6, <2>7, <2>8, <2>9
<1>5. CASE j.k = "end"
  <2>1. j.c \notin emptied /\ j.lo = j.at
    BY <1>5 DEF InWork, Waiting, OutJob, SnapJob
  <2> QED BY <1>1, <1>5, <2>1
          DEF Message, Rest, Ours, StateBefore, StateAfter, JobState, Idle, Snap, States
<1> QED BY <1>1, <1>2, <1>3, <1>4, <1>5

\* A job that begins at the end of the stream may be queued.
LEMMA LinkedAppend ==
  ASSUME TypeOK, Linked, NEW j \in Jobs, Waiting(j), JobPos(j) = pos, pos' = j.at,
         events' = Append(events, j), UNCHANGED <<job, emptied>>
  PROVE  Linked' /\ EventsFrom' = EventsFrom
<1>1. /\ Len(events) \in Nat /\ Len(events') = Len(events) + 1
      /\ \A i \in 1..Len(events) : events'[i] = events[i]
      /\ events'[Len(events) + 1] = j
      /\ \A i \in 1..Len(events') : i \in 1..Len(events) \/ i = Len(events) + 1
  BY EventsAppend
<1>2. events = << >> <=> Len(events) = 0
  BY DEF TypeOK
<1>3. events' # << >>
  BY <1>1
<1>4. EventsFrom' = EventsFrom
  <2>1. CASE events = << >>
    BY <1>1, <1>2, <1>3, <2>1 DEF EventsFrom, JobPos
  <2>2. CASE events # << >>
    <3>1. 1 \in 1..Len(events)
      BY <1>1, <1>2, <2>2
    <3>2. events'[1] = events[1]
      BY <1>1, <3>1
    <3> QED BY <1>3, <2>2, <3>2 DEF EventsFrom, JobPos
  <2> QED BY <2>1, <2>2
<1>5. \A i \in 1..Len(events') : Waiting(events'[i])
  BY <1>1 DEF Linked
<1>6. \A i \in 1..Len(events') :
        events'[i].at = IF i = Len(events') THEN pos' ELSE JobPos(events'[i + 1])
  <2> TAKE i \in 1..Len(events')
  <2>1. CASE i = Len(events) + 1
    BY <1>1, <2>1
  <2>2. CASE i = Len(events) /\ i \in 1..Len(events)
    BY <1>1, <2>2 DEF Linked
  <2>3. CASE i # Len(events) /\ i \in 1..Len(events)
    <3>1. i + 1 \in 1..Len(events) /\ i # Len(events')
      BY <1>1, <2>3
    <3>2. events[i].at = JobPos(events[i + 1])
      BY <2>3 DEF Linked
    <3> QED BY <1>1, <2>3, <3>1, <3>2
  <2> QED BY <1>1, <2>1, <2>2, <2>3
<1> QED BY <1>4, <1>5, <1>6 DEF Linked, Waiting, InWork, OutJob, SnapJob, JobPos

\* The PTY's step on an open connection queues its output where the channel ends.
LEMMA StreamLinked ==
  ASSUME Shape, StreamStep, ~connDone', subscribed, Linked
  PROVE  Linked' /\ EventsFrom' = EventsFrom
<1>1. UNCHANGED <<job, emptied>>
  BY StreamChanges DEF fwVars
<1>2. CASE UNCHANGED <<events, pos>>
  BY <1>1, <1>2 DEF Linked, EventsFrom, Waiting, InWork, OutJob, SnapJob, JobPos
<1>3. CASE \E n \in 1..MaxRead : /\ pos' = pos + n
                                 /\ events' = Append(events, Job("out", NoClient, pos, pos + n, 0))
  <2> PICK n \in 1..MaxRead : /\ pos' = pos + n
                              /\ events' = Append(events, Job("out", NoClient, pos, pos + n, 0))
    BY <1>3
  <2> DEFINE j == Job("out", NoClient, pos, pos + n, 0)
  <2>1. pos \in Nat /\ pos + n \in Nat /\ pos <= pos + n /\ "out" \in JobKinds /\ 0 \in Nat
    BY DEF Shape, TypeOK, JobKinds
  <2>2. j \in Jobs /\ j.k = "out" /\ j.c = NoClient /\ j.lo = pos /\ j.at = pos + n
    BY <2>1 DEF Job, Jobs
  <2>3. events' = Append(events, j)
    OBVIOUS
  <2> HIDE DEF j
  <2>4. Waiting(j) /\ JobPos(j) = pos
    BY <2>1, <2>2 DEF Waiting, OutJob, JobPos
  <2> QED BY <1>1, <2>2, <2>3, <2>4, LinkedAppend DEF Shape
<1> QED BY <1>2, <1>3, StreamChanges

\* A snapshot is queued where the channel ends.
LEMMA AnswerLinked ==
  ASSUME Shape, AnswerFromRing, ~connDone', Linked
  PROVE  Linked' /\ EventsFrom' = EventsFrom
<1> DEFINE j == RequestSnapshot(mainClient)
<1>1. main = "request" /\ UNCHANGED <<job, emptied, pos>> /\ events' = Append(events, j)
  BY DEF AnswerFromRing, CloseConnection, fwVars, streamVars, catVars
<1>2. mainClient \in Clients \ emptied /\ pos \in Nat /\ lo \in Nat /\ lo <= pos
  BY <1>1 DEF Shape, TypeOK, Roles
<1>3. /\ j \in Jobs /\ j.k = "start" /\ j.c = mainClient /\ j.lo = lo /\ j.at = pos /\ j.seq = 0
  BY <1>2 DEF RequestSnapshot, Job, Jobs, JobKinds
<1> HIDE DEF j
<1>4. Waiting(j) /\ JobPos(j) = pos
  BY <1>2, <1>3 DEF Waiting, SnapJob, JobPos
<1> QED BY <1>1, <1>3, <1>4, LinkedAppend DEF Shape

\* The forwarder goes on with the channel's first job.
LEMMA TakeLinked ==
  ASSUME Shape, ForwarderTake, Linked
  PROVE  Linked' /\ Stands' = Stands /\ job' # NoJob
<1>1. /\ job = NoJob /\ events # << >> /\ job' = events[1] /\ UNCHANGED <<pos, emptied>>
      /\ 1 \in 1..Len(events) /\ Len(events) \in Nat /\ Len(events') = Len(events) - 1
      /\ \A i \in 1..Len(events') : i + 1 \in 1..Len(events) /\ events'[i] = events[i + 1]
  BY EventsTail DEF ForwarderTake, streamVars, catVars, Shape
<1>2. Waiting(events[1]) /\ events[1].k \in {"out", "start"}
  BY <1>1 DEF Linked, Shape, Ranges
<1>3. job' # NoJob
  BY <1>1, <1>2, NoJobTyped
<1>4. (events' = << >> <=> Len(events') = 0) /\ Len(events') \in Nat
  <2>1. events' \in Seq(Jobs)
    BY EventsTail DEF ForwarderTake, Shape
  <2> QED BY <2>1
<1>5. job'.at = EventsFrom'
  <2>1. CASE Len(events) = 1
    BY <1>1, <1>4, <2>1 DEF Linked, EventsFrom
  <2>2. CASE Len(events) # 1
    <3>1. 1 \in 1..Len(events') /\ events' # << >> /\ events'[1] = events[2]
      BY <1>1, <1>4, <2>2
    <3>2. events[1].at = JobPos(events[2])
      BY <1>1, <2>2 DEF Linked
    <3> QED BY <1>1, <3>1, <3>2 DEF EventsFrom, JobPos
  <2> QED BY <2>1, <2>2
<1>6. ASSUME NEW i \in 1..Len(events')
      PROVE  /\ Waiting(events'[i])
             /\ events'[i].at = IF i = Len(events') THEN pos' ELSE JobPos(events'[i + 1])
  <2>1. /\ i + 1 \in 1..Len(events) /\ events'[i] = events[i + 1] /\ i \in Nat
        /\ i = Len(events') <=> i + 1 = Len(events)
    BY <1>1
  <2>2. /\ Waiting(events[i + 1])
        /\ events[i + 1].at = IF i + 1 = Len(events) THEN pos ELSE JobPos(events[(i + 1) + 1])
    BY <2>1 DEF Linked
  <2>3. i # Len(events') => events'[i + 1] = events[(i + 1) + 1]
    BY <1>1, <1>4, <2>1
  <2> QED BY <1>1, <2>1, <2>2, <2>3
<1>7. InWork(job')
  BY <1>1, <1>2 DEF InWork
<1>8. Linked'
  BY <1>1, <1>5, <1>6, <1>7 DEF Linked, Waiting, InWork, OutJob, SnapJob, JobPos
<1>9. Stands' = Stands
  <2>1. Stands = Idle(JobPos(events[1]))
    BY <1>1 DEF Stands, EventsFrom
  <2>2. Stands' = JobState(job')
    BY <1>3 DEF Stands, JobState, Idle, Snap
  <2>3. JobState(events[1]) = Idle(JobPos(events[1]))
    BY <1>2 DEF JobState, JobPos
  <2> QED BY <1>1, <2>1, <2>2, <2>3
<1> QED BY <1>3, <1>8, <1>9

\* The forwarder has sent a message of its job.
LEMMA SendLinked ==
  ASSUME Shape, ForwarderSend, Linked
  PROVE  /\ Linked' /\ EventsFrom' = EventsFrom /\ InWork(job)
         /\ StateAfter(Message(job)) = Stands'
<1>1. job # NoJob /\ job' = Rest(job) /\ UNCHANGED <<events, pos, emptied>>
  BY DEF ForwarderSend, streamVars, catVars
<1>2. job \in Jobs /\ InWork(job) /\ job.at = EventsFrom
  BY <1>1 DEF Linked, Shape, TypeOK
<1>3. EventsFrom' = EventsFrom
  BY <1>1 DEF EventsFrom, JobPos
<1>4. job' # NoJob => InWork(job') /\ job'.at = job.at
  BY <1>1, <1>2, RestInWork
<1>5. Linked'
  BY <1>1, <1>2, <1>3, <1>4 DEF Linked, Waiting, InWork, OutJob, SnapJob, JobPos
<1>6. Stands' = IF job' = NoJob THEN Idle(EventsFrom') ELSE JobState(job')
  BY DEF Stands, JobState, Idle, Snap
<1>7. StateAfter(Message(job)) = IF job' = NoJob THEN Idle(job.at) ELSE JobState(job')
  BY <1>1, <1>2, MessageMoves
<1> QED BY <1>2, <1>3, <1>5, <1>6, <1>7

\* The channel stays in order while the connection is open.
LEMMA LinkedKept ==
  ASSUME Shape, Asking, Next, ~connDone', subscribed', ~Reconnect, Linked
  PROVE  Linked'
<1>1. ASSUME UNCHANGED <<events, pos, job, emptied>> PROVE Linked'
  BY <1>1 DEF Linked, EventsFrom, Waiting, InWork, OutJob, SnapJob, JobPos
<1>2. ~connDone
  BY OpenBefore
<1>3. CASE StreamStep
  <2>1. subscribed
    BY <1>3, StreamChanges
  <2> QED BY <1>3, <2>1, StreamLinked
<1>4. CASE ForwarderTake
  BY <1>4, TakeLinked
<1>5. CASE ForwarderSend
  BY <1>5, SendLinked
<1>6. CASE ForwarderGiveUp
  BY <1>2, <1>6 DEF ForwarderGiveUp
<1>7. CASE ForwarderStop \/ ForwarderExit \/ ForwarderNotify
  BY <1>1, <1>7 DEF ForwarderStop, ForwarderExit, ForwarderNotify, streamVars, catVars
<1>8. CASE (\E c \in Clients : AttachBegin(c)) \/ MainRemove \/ MainSend
  BY <1>1, <1>8 DEF AttachBegin, MainRemove, MainSend, streamVars, catVars, fwVars
<1>9. CASE AnswerFromRing
  BY <1>9, AnswerLinked
<1>10. CASE AnswerEmpty
  <2>1. main = "request" /\ UNCHANGED <<events, pos, job>> /\ emptied' = emptied \cup {mainClient}
    BY <1>10 DEF AnswerEmpty, streamVars, catVars, fwVars
  <2>2. mainClient \in Clients /\ Unasked(mainClient)
    BY <2>1 DEF Shape, Roles, Asking
  <2>3. ASSUME NEW i \in 1..Len(events) PROVE Waiting(events[i])'
    <3>1. Waiting(events[i]) /\ events[i].c # mainClient
      BY <2>2, <2>3 DEF Linked, Unasked
    <3> QED BY <2>1, <3>1 DEF Waiting, OutJob, SnapJob
  <2>4. job # NoJob => InWork(job)'
    <3>1. job # NoJob => InWork(job) /\ job.c # mainClient
      BY <2>2 DEF Linked, Unasked
    <3> QED BY <2>1, <3>1 DEF InWork, Waiting, OutJob, SnapJob
  <2>5. EventsFrom' = EventsFrom
    BY <2>1 DEF EventsFrom, JobPos
  <2> QED BY <2>1, <2>3, <2>4, <2>5 DEF Linked, JobPos
<1>11. CASE FinishAttach \/ SessionEnded
  <2>1. CASE Retire
    <3>1. fw = "exited" /\ subscribed' = subscribed
      BY <1>11, <2>1 DEF FinishAttach, SessionEnded, Retire, RetireReady
    <3> QED BY <3>1 DEF Shape, Roles
  <2>2. CASE ~Retire
    BY <1>1, <1>11, <2>2 DEF FinishAttach, SessionEnded, streamVars, catVars, fwVars
  <2> QED BY <2>1, <2>2
<1>12. CASE WriterStep \/ OtherSend \/ WriteFails \/ ReadFails \/ SocketClosed \/ Halt
  BY <1>1, <1>12 DEF WriterStep, OtherSend, WriteMessage, WriteFails, WriterStop, ReadFails,
                     SocketClosed, Halt, vars, streamVars, catVars, fwVars
<1> QED BY <1>3, <1>4, <1>5, <1>6, <1>7, <1>8, <1>9, <1>10, <1>11, <1>12
        DEF Next, ForwarderStep, MainStep, ConnStep

-----------------------------------------------------------------------------
(* The queue *)

\* A message of the queue and what it does to a client that follows the stream.
LEMMA DeliverAgrees ==
  ASSUME NEW v \in Views, NEW c \in Clients \ emptied, NEW m \in Messages,
         NEW d \in States, NEW e \in States, m.lo <= m.hi, m.lo <= m.at,
         Agrees(v, c, d), Moves(d, m, e)
  PROVE  Agrees(Deliver(v, c, m), c, e)
<1>1. /\ m.k \in {"out", "start", "chunk", "end", "remove"} /\ c # NoClient
      /\ m.lo \in Nat /\ m.hi \in Nat /\ m.at \in Nat /\ m.seq \in Nat
  BY ReplayAssumption DEF Messages, JobKinds
<1>2. /\ v.from \in Nat /\ v.upto \in Nat /\ v.n \in Nat /\ v.seq \in Nat /\ v.total \in Nat
  BY DEF Views
<1>3. CASE m.k = "out"
  <2>1. d = Idle(m.lo) /\ e = Idle(m.hi)
    BY <1>3 DEF Moves, Ours, StateBefore, StateAfter
  <2>2. d.at = m.lo /\ d.c # c /\ e.at = m.hi /\ e.c # c
    BY <1>1, <2>1 DEF Idle, Snap
  <2>3. CASE v.st = "live"
    <3>1. v.upto = m.lo /\ v.n + v.from = m.lo
      BY <2>2, <2>3 DEF Agrees
    <3>2. /\ Deliver(v, c, m).st = "live" /\ Deliver(v, c, m).upto = m.hi
          /\ Deliver(v, c, m).n = v.n + (m.hi - m.lo) /\ Deliver(v, c, m).from = v.from
      BY <1>3, <2>3 DEF Deliver, Carries, Views
    <3>3. v.n + (m.hi - m.lo) + v.from = m.hi
      BY <1>1, <1>2, <3>1
    <3> QED BY <2>2, <3>2, <3>3 DEF Agrees
  <2>4. CASE v.st # "live"
    <3>1. v.st # "replay" /\ v.st # "broken"
      BY <2>2 DEF Agrees
    <3>2. Deliver(v, c, m).st \in {v.st, "late"}
      BY <1>3, <2>4, <3>1 DEF Deliver, Carries, Views
    <3> QED BY <2>2, <2>4, <3>1, <3>2 DEF Agrees
  <2> QED BY <2>3, <2>4
<1>4. CASE m.k \in {"start", "chunk", "end"} /\ m.c # c
  <2>1. Deliver(v, c, m) = v
    BY <1>4 DEF Deliver, Carries
  <2>2. (e.at = d.at /\ d.c # c /\ e.c # c) \/ e = d
    BY <1>1, <1>4 DEF Moves, Ours, StateBefore, StateAfter, Idle, Snap
  <2> QED BY <2>1, <2>2 DEF Agrees
<1>5. CASE m.k = "start" /\ m.c = c
  <2>1. e = Snap(c, m.lo, 0, m.at)
    BY <1>5 DEF Moves, Ours, StateAfter
  <2>2. Deliver(v, c, m) = [st |-> "replay", from |-> m.lo, upto |-> m.lo, n |-> 0, seq |-> 0,
                            total |-> m.at - m.lo]
    BY <1>5 DEF Deliver, Carries
  <2> QED BY <1>1, <2>1, <2>2 DEF Agrees, Snap
<1>6. CASE m.k = "chunk" /\ m.c = c
  <2>1. d = Snap(c, m.lo, m.seq - 1, m.at) /\ e = Snap(c, m.hi, m.seq, m.at)
    BY <1>6 DEF Moves, Ours, StateBefore, StateAfter
  <2>2. CASE v.st = "replay"
    <3>1. v.upto = m.lo /\ v.from + v.total = m.at /\ v.n + v.from = m.lo
      BY <2>1, <2>2 DEF Agrees, Snap
    <3>2. Deliver(v, c, m) = [v EXCEPT !.upto = m.hi, !.n = @ + (m.hi - m.lo), !.seq = m.seq]
      BY <1>6, <2>2 DEF Deliver, Carries
    <3>3. /\ Deliver(v, c, m).st = "replay" /\ Deliver(v, c, m).upto = m.hi
          /\ Deliver(v, c, m).n = v.n + (m.hi - m.lo) /\ Deliver(v, c, m).seq = m.seq
          /\ Deliver(v, c, m).from = v.from /\ Deliver(v, c, m).total = v.total
      BY <2>2, <3>2 DEF Views
    <3>4. v.n + (m.hi - m.lo) + v.from = m.hi
      BY <1>1, <1>2, <3>1
    <3> QED BY <2>1, <3>1, <3>3, <3>4 DEF Agrees, Snap
  <2>3. CASE v.st \in {"closed", "late"}
    <3>1. Deliver(v, c, m).st = "late"
      BY <1>6, <2>3 DEF Deliver, Carries, Views
    <3> QED BY <3>1 DEF Agrees
  <2> QED BY <2>1, <2>2, <2>3 DEF Agrees, Snap
<1>7. CASE m.k = "end" /\ m.c = c
  <2>1. d = Snap(c, m.at, m.seq, m.at) /\ e = Idle(m.at)
    BY <1>7 DEF Moves, Ours, StateBefore, StateAfter
  <2>2. CASE v.st = "replay"
    <3>1. /\ v.upto = m.at /\ v.from + v.total = m.at /\ v.n + v.from = m.at /\ v.seq = m.seq
      BY <2>1, <2>2 DEF Agrees, Snap
    <3>2. v.n = v.total
      BY <1>1, <1>2, <3>1
    <3>3. /\ Deliver(v, c, m).st = "live" /\ Deliver(v, c, m).upto = v.upto
          /\ Deliver(v, c, m).n = v.n /\ Deliver(v, c, m).from = v.from
      BY <1>7, <2>2, <3>1, <3>2 DEF Deliver, Carries, Views
    <3> QED BY <1>1, <2>1, <3>1, <3>3 DEF Agrees, Idle, Snap
  <2>3. CASE v.st \in {"closed", "late"}
    <3>1. Deliver(v, c, m) = v
      BY <1>7, <2>3 DEF Deliver, Carries
    <3> QED BY <1>1, <2>1, <2>3, <3>1 DEF Agrees, Idle, Snap
  <2> QED BY <2>1, <2>2, <2>3 DEF Agrees, Snap
<1>8. CASE m.k = "remove"
  <2>1. e = d
    BY <1>8 DEF Moves, Ours
  <2>2. CASE v.st \in {"replay", "live", "late"}
    <3>1. Deliver(v, c, m).st = "closed"
      BY <1>8, <2>2 DEF Deliver, Carries, Views
    <3> QED BY <3>1 DEF Agrees
  <2>3. CASE v.st \notin {"replay", "live", "late"}
    <3>1. Deliver(v, c, m) = v
      BY <1>8, <2>3 DEF Deliver, Carries
    <3> QED BY <2>1, <3>1
  <2> QED BY <2>2, <2>3
<1> QED BY <1>1, <1>3, <1>4, <1>5, <1>6, <1>7, <1>8

\* A message at the end of the queue lengthens the chain.
LEMMA LinksAppend ==
  ASSUME TypeOK, NEW f, Links(f), NEW m \in Messages, NEW s \in States,
         sendCh' = Append(sendCh, m), UNCHANGED emptied, Moves(f[Len(sendCh) + 1], m, s)
  PROVE  \E g : Links(g)' /\ g[1] = f[1] /\ g[Len(sendCh') + 1] = s
<1> DEFINE n == Len(sendCh)
<1> PICK g : g = [i \in 1..(n + 2) |-> IF i = n + 2 THEN s ELSE f[i]]
  OBVIOUS
<1>1. /\ n \in Nat /\ Len(sendCh') = n + 1
      /\ \A i \in 1..n : sendCh'[i] = sendCh[i]
      /\ sendCh'[n + 1] = m
  BY QueueAppend
<1>2. f \in [1..(n + 1) -> States] /\ \A i \in 1..n : Moves(f[i], sendCh[i], f[i + 1])
  BY DEF Links
<1> HIDE DEF n
<1>3. g \in [1..(Len(sendCh') + 1) -> States]
  <2>1. ASSUME NEW i \in 1..(n + 2) PROVE (IF i = n + 2 THEN s ELSE f[i]) \in States
    BY <1>1, <1>2
  <2>2. 1..(Len(sendCh') + 1) = 1..(n + 2)
    BY <1>1
  <2> QED BY <2>1, <2>2
<1>4. /\ \A i \in 1..(n + 1) : g[i] = f[i]
      /\ g[n + 2] = s /\ 1 \in 1..(n + 1) /\ Len(sendCh') + 1 = n + 2
  BY <1>1
<1>5. ASSUME NEW i \in 1..Len(sendCh') PROVE Moves(g[i], sendCh'[i], g[i + 1])
  <2>1. CASE i = n + 1
    <3>1. g[i] = f[n + 1] /\ g[i + 1] = s /\ sendCh'[i] = m
      BY <1>1, <1>4, <2>1
    <3> QED BY <3>1 DEF n
  <2>2. CASE i # n + 1
    <3>1. i \in 1..n /\ i \in 1..(n + 1) /\ i + 1 \in 1..(n + 1)
      BY <1>1, <2>2
    <3>2. g[i] = f[i] /\ g[i + 1] = f[i + 1] /\ sendCh'[i] = sendCh[i]
      BY <1>1, <1>4, <3>1
    <3> QED BY <1>2, <3>1, <3>2
  <2> QED BY <2>1, <2>2
<1>6. \A i \in 1..Len(sendCh') : Moves(g[i], sendCh[i], g[i + 1])'
  BY <1>5 DEF Moves, Ours, StateBefore, StateAfter, Idle, Snap
<1>7. Links(g)'
  BY <1>3, <1>6 DEF Links, States
<1> QED BY <1>4, <1>7

\* A message that leaves the queue takes the chain's first link with it.
LEMMA LinksTail ==
  ASSUME TypeOK, NEW f, Links(f), sendCh # << >>, sendCh' = Tail(sendCh), UNCHANGED emptied
  PROVE  \E g : Links(g)' /\ g[1] = f[2] /\ g[Len(sendCh') + 1] = f[Len(sendCh) + 1]
<1> DEFINE n == Len(sendCh)
<1> PICK g : g = [i \in 1..n |-> f[i + 1]]
  OBVIOUS
<1>1. /\ 1 \in 1..n /\ n \in Nat /\ Len(sendCh') = n - 1
      /\ \A i \in 1..Len(sendCh') : i + 1 \in 1..n /\ sendCh'[i] = sendCh[i + 1]
  BY QueueTail
<1>2. f \in [1..(n + 1) -> States] /\ \A i \in 1..n : Moves(f[i], sendCh[i], f[i + 1])
  BY DEF Links
<1> HIDE DEF n
<1>3. g \in [1..(Len(sendCh') + 1) -> States]
  <2>1. ASSUME NEW i \in 1..n PROVE f[i + 1] \in States
    BY <1>1, <1>2
  <2>2. 1..(Len(sendCh') + 1) = 1..n
    BY <1>1
  <2> QED BY <2>1, <2>2
<1>4. /\ \A i \in 1..n : g[i] = f[i + 1]
      /\ n \in 1..n /\ Len(sendCh') + 1 = n
  BY <1>1
<1>5. ASSUME NEW i \in 1..Len(sendCh') PROVE Moves(g[i], sendCh'[i], g[i + 1])
  <2>1. i \in 1..n /\ i + 1 \in 1..n /\ sendCh'[i] = sendCh[i + 1]
    BY <1>1
  <2>2. g[i] = f[i + 1] /\ g[i + 1] = f[(i + 1) + 1]
    BY <1>4, <2>1
  <2> QED BY <1>2, <2>1, <2>2
<1>6. \A i \in 1..Len(sendCh') : Moves(g[i], sendCh[i], g[i + 1])'
  BY <1>5 DEF Moves, Ours, StateBefore, StateAfter, Idle, Snap
<1>7. Links(g)'
  BY <1>3, <1>6 DEF Links, States
<1>8. g[1] = f[2] /\ g[Len(sendCh') + 1] = f[n + 1]
  BY <1>1, <1>4
<1> QED BY <1>7, <1>8 DEF n

\* Nothing happens to the queue.
LEMMA ChainSame ==
  ASSUME NEW f, Chain(f), UNCHANGED <<sendCh, emptied>>,
         (job' = NoJob /\ job # NoJob) => f[Len(sendCh) + 1].c = NoClient,
         subscribed' => subscribed /\ Stands' = Stands,
         \A c \in Clients \ emptied : Agrees(view'[c], c, f[1])
  PROVE  Chain(f)'
<1>1. Links(f)'
  BY DEF Chain, Links, Moves, Ours, StateBefore, StateAfter, Idle, Snap, States
<1>2. \A c \in Clients \ emptied : Agrees(view[c], c, f[1])'
  BY DEF Agrees
<1>3. job' = NoJob => f[Len(sendCh) + 1].c = NoClient
  BY DEF Chain
<1>4. subscribed' => f[Len(sendCh) + 1] = Stands'
  BY DEF Chain
<1> QED BY <1>1, <1>2, <1>3, <1>4 DEF Chain, NoJob, Job

\* The chain holds while the connection is open.
LEMMA ChainKept ==
  ASSUME Shape, Asking, Next, ~connDone', ~Reconnect, subscribed => Linked, NEW f, Chain(f)
  PROVE  \E g : Chain(g)'
<1>1. ~connDone
  BY OpenBefore
<1>2. ASSUME UNCHANGED <<sendCh, emptied, view, job>>,
             subscribed' => subscribed /\ UNCHANGED <<events, pos>>
      PROVE  Chain(f)'
  <2>1. subscribed' => subscribed /\ Stands' = Stands
    <3>1. ASSUME subscribed' PROVE subscribed /\ Stands' = Stands
      <4>1. subscribed /\ UNCHANGED <<events, pos, job>>
        BY <1>2, <3>1
      <4>2. Stands' = Stands
        BY <4>1 DEF Stands, EventsFrom, JobPos, JobState, Idle, Snap
      <4> QED BY <4>1, <4>2
    <3> QED BY <3>1
  <2>2. \A c \in Clients \ emptied : Agrees(view'[c], c, f[1])
    BY <1>2 DEF Chain
  <2> QED BY <1>2, <2>1, <2>2, ChainSame
<1>3. CASE StreamStep \/ AnswerFromRing
  <2>1. UNCHANGED <<sendCh, emptied, view, job, subscribed>>
    BY <1>3, StreamChanges DEF AnswerFromRing, fwVars, chanVars
  <2>2. subscribed => Stands' = Stands
    <3>1. subscribed => EventsFrom' = EventsFrom
      BY <1>3, StreamLinked, AnswerLinked
    <3>2. ASSUME EventsFrom' = EventsFrom PROVE Stands' = Stands
      <4>1. job' = job
        BY <2>1
      <4> QED BY <3>2, <4>1 DEF Stands, JobState, Idle, Snap, NoJob, Job
    <3> QED BY <3>1, <3>2
  <2>3. \A c \in Clients \ emptied : Agrees(view'[c], c, f[1])
    BY <2>1 DEF Chain
  <2> QED BY <2>1, <2>2, <2>3, ChainSame
<1>4. CASE ForwarderTake
  <2>1. /\ UNCHANGED <<sendCh, emptied, view, subscribed>> /\ subscribed
    BY <1>4 DEF ForwarderTake, chanVars, Shape, Roles
  <2>2. Stands' = Stands /\ job' # NoJob
    BY <1>4, <2>1, TakeLinked
  <2>3. \A c \in Clients \ emptied : Agrees(view'[c], c, f[1])
    BY <2>1 DEF Chain
  <2> QED BY <2>1, <2>2, <2>3, ChainSame
<1>5. CASE ForwarderSend
  <2>1. /\ UNCHANGED <<emptied, view, subscribed>> /\ subscribed /\ job # NoJob
        /\ sendCh' = Append(sendCh, Message(job)) /\ job' = Rest(job)
    BY <1>5 DEF ForwarderSend, Shape, Roles
  <2>2. /\ InWork(job) /\ StateAfter(Message(job)) = Stands'
    BY <1>5, <2>1, SendLinked
  <2>3. /\ Message(job) \in Messages /\ Ours(Message(job)) /\ StateBefore(Message(job)) = JobState(job)
        /\ StateAfter(Message(job)) = IF job' = NoJob THEN Idle(job.at) ELSE JobState(job')
        /\ StateAfter(Message(job)) \in States
    <3>1. job \in Jobs /\ job.k # "none" /\ job.lo <= job.at
      BY <2>1 DEF Shape, TypeOK, Ranges
    <3> QED BY <2>1, <2>2, <3>1, MessageOfJob, MessageMoves
  <2>4. f[Len(sendCh) + 1] = JobState(job)
    BY <2>1 DEF Chain, Stands
  <2>5. Moves(f[Len(sendCh) + 1], Message(job), StateAfter(Message(job)))
    BY <2>3, <2>4 DEF Moves
  <2>6. PICK s \in States : s = StateAfter(Message(job))
    BY <2>3
  <2>7. PICK g : Links(g)' /\ g[1] = f[1] /\ g[Len(sendCh') + 1] = s
    BY <2>1, <2>3, <2>5, <2>6, LinksAppend DEF Chain, Shape
  <2>8. job' = NoJob => s.c = NoClient
    BY <2>3, <2>6 DEF Idle, Snap
  <2>9. \A c \in Clients \ emptied : Agrees(view[c], c, g[1])'
    BY <2>1, <2>7 DEF Chain, Agrees
  <2>10. /\ job' = NoJob => g[Len(sendCh') + 1].c = NoClient
         /\ subscribed' => g[Len(sendCh') + 1] = Stands'
    BY <2>2, <2>6, <2>7, <2>8
  <2>11. \A c \in Clients \ emptied' : Agrees(view[c], c, g[1])'
    BY <2>1, <2>9
  <2>12. Chain(g)'
    BY <2>7, <2>10, <2>11 DEF Chain, NoJob, Job
  <2> QED BY <2>12
<1>6. CASE ForwarderGiveUp
  BY <1>1, <1>6 DEF ForwarderGiveUp
<1>7. CASE ForwarderStop \/ ForwarderExit \/ ForwarderNotify
  <2>1. UNCHANGED <<sendCh, emptied, view, job, events, pos>>
    BY <1>7 DEF ForwarderStop, ForwarderExit, ForwarderNotify, chanVars, streamVars, catVars
  <2>2. subscribed' = subscribed \/ ~subscribed'
    BY <1>7 DEF ForwarderStop, ForwarderExit, ForwarderNotify
  <2> QED BY <1>2, <2>1, <2>2
<1>8. ASSUME NEW c \in Clients, AttachBegin(c) PROVE Chain(f)'
  <2>1. /\ view[c].st = "none" /\ view' = [view EXCEPT ![c].st = "waiting"]
        /\ UNCHANGED <<sendCh, emptied, job, subscribed, events, pos>>
    BY <1>8 DEF AttachBegin, fwVars, chanVars, streamVars, catVars
  <2>2. ASSUME NEW d \in Clients \ emptied PROVE Agrees(view'[d], d, f[1])
    <3>1. Agrees(view[d], d, f[1])
      BY DEF Chain
    <3>2. CASE d = c
      <4>1. view'[d].st = "waiting"
        BY <2>1, <3>2 DEF Shape, TypeOK, Views
      <4> QED BY <2>1, <3>1, <3>2, <4>1 DEF Agrees
    <3>3. CASE d # c
      BY <2>1, <3>1, <3>3 DEF Shape, TypeOK
    <3> QED BY <3>2, <3>3
  <2>3. Stands' = Stands
    BY <2>1 DEF Stands, EventsFrom, JobPos, JobState, Idle, Snap
  <2> QED BY <2>1, <2>2, <2>3, ChainSame
<1>9. CASE AnswerEmpty
  <2>1. /\ main = "request" /\ UNCHANGED <<sendCh, events, pos, job, view, subscribed>>
        /\ emptied' = emptied \cup {mainClient}
    BY <1>9 DEF AnswerEmpty, streamVars, catVars, fwVars, chanVars
  <2>2. mainClient \in Clients /\ Unasked(mainClient)
    BY <2>1 DEF Shape, Roles, Asking
  <2>3. \A i \in 1..Len(sendCh) : Ours(sendCh[i])' <=> Ours(sendCh[i])
    <3>1. \A i \in 1..Len(sendCh) : sendCh[i].c # mainClient
      BY <2>2 DEF Unasked
    <3> QED BY <2>1, <3>1 DEF Ours
  <2>4. Links(f)'
    <3>1. \A i \in 1..Len(sendCh) : Moves(f[i], sendCh[i], f[i + 1])'
      BY <2>1, <2>3 DEF Chain, Links, Moves, StateBefore, StateAfter, Idle, Snap
    <3> QED BY <2>1, <3>1 DEF Chain, Links, States
  <2>5. Stands' = Stands
    BY <2>1 DEF Stands, EventsFrom, JobPos, JobState, Idle, Snap
  <2>6. \A c \in Clients \ emptied' : Agrees(view[c], c, f[1])'
    BY <2>1 DEF Chain, Agrees
  <2>7. /\ job' = NoJob => f[Len(sendCh') + 1].c = NoClient
        /\ subscribed' => f[Len(sendCh') + 1] = Stands'
    BY <2>1, <2>5 DEF Chain
  <2>8. Chain(f)'
    BY <2>4, <2>6, <2>7 DEF Chain, NoJob, Job
  <2> QED BY <2>8
<1>10. CASE FinishAttach \/ SessionEnded
  <2>1. UNCHANGED <<sendCh, emptied, view, job, pos, subscribed>>
    BY <1>10 DEF FinishAttach, SessionEnded, streamVars, catVars, fwVars, chanVars
  <2>2. CASE Retire
    <3>1. ~subscribed'
      BY <2>1, <2>2 DEF Retire, RetireReady, Shape, Roles
    <3> QED BY <1>2, <2>1, <3>1
  <2>3. CASE ~Retire
    <3>1. UNCHANGED events
      BY <1>10, <2>3 DEF FinishAttach, SessionEnded
    <3> QED BY <1>2, <2>1, <3>1
  <2> QED BY <2>2, <2>3
<1>11. CASE MainSend
  <2>1. main = "send" /\ UNCHANGED <<emptied, view, job, events, pos, subscribed, fw>>
    BY <1>11 DEF MainSend, streamVars, catVars, fwVars
  <2>2. CASE sendCh' = sendCh
    BY <1>2, <2>1, <2>2
  <2>3. CASE sendCh' = Append(sendCh, Message(mainJob))
    <3> DEFINE d == f[Len(sendCh) + 1]
    <3>1. mainJob \in Jobs /\ mainJob.k \in {"start", "end", "remove"} /\ mainJob.lo <= mainJob.at
          /\ (mainJob.k # "remove" => mainJob.c \in emptied)
      BY <2>1 DEF Shape, TypeOK, Ranges, Roles
    <3>2. Message(mainJob) \in Messages /\ Message(mainJob).k = mainJob.k
      BY <3>1, MessageOfJob
    <3>3. ~Ours(Message(mainJob))
      BY <3>1 DEF Message, Ours
    <3>4. d \in States
      BY DEF Chain, Links, Shape, TypeOK
    <3>6. Moves(d, Message(mainJob), d)
      BY <3>3 DEF Moves
    <3>7. PICK s \in States : s = d
      BY <3>4
    <3>8. PICK g : Links(g)' /\ g[1] = f[1] /\ g[Len(sendCh') + 1] = s
      BY <2>3, <2>1, <3>2, <3>6, <3>7, LinksAppend DEF Chain, Shape
    <3>9. \A c \in Clients \ emptied : Agrees(view[c], c, g[1])'
      BY <2>1, <3>8 DEF Chain, Agrees
    <3>10. Stands' = Stands
      BY <2>1 DEF Stands, EventsFrom, JobPos, JobState, Idle, Snap
    <3>11. /\ job' = NoJob => s.c = NoClient
           /\ subscribed' => s = Stands'
      BY <2>1, <3>7, <3>10 DEF Chain
    <3>12. Chain(g)'
      BY <2>1, <3>8, <3>9, <3>11 DEF Chain, NoJob, Job
    <3> QED BY <3>12
  <2> QED BY <1>11, <2>2, <2>3 DEF MainSend
<1>12. CASE WriteMessage
  <2>1. UNCHANGED <<emptied, job, events, pos, subscribed>>
    BY <1>12 DEF WriteMessage, streamVars, catVars, fwVars
  <2>2. CASE UNCHANGED <<sendCh, view>>
    BY <1>2, <2>1, <2>2
  <2>3. CASE /\ sendCh # << >> /\ sendCh' = Tail(sendCh)
             /\ view' = [c \in Clients |-> Deliver(view[c], c, Head(sendCh))]
    <3> DEFINE m == sendCh[1]
    <3>1. PICK g : Links(g)' /\ g[1] = f[2] /\ g[Len(sendCh') + 1] = f[Len(sendCh) + 1]
      BY <2>1, <2>3, LinksTail DEF Chain, Shape
    <3>2. m \in Messages /\ m.lo <= m.hi /\ m.lo <= m.at /\ m = Head(sendCh) /\ 1 \in 1..Len(sendCh)
      BY <2>3, QueueTail DEF Shape, Ranges
    <3> HIDE DEF m
    <3>3. f[1] \in States /\ f[2] \in States /\ Moves(f[1], m, f[2])
      <4>1. Len(sendCh) \in Nat /\ 1 \in 1..(Len(sendCh) + 1) /\ 2 \in 1..(Len(sendCh) + 1) /\ 1 + 1 = 2
        BY <3>2 DEF Shape, TypeOK
      <4> QED BY <3>2, <4>1 DEF Chain, Links, m
    <3>4. ASSUME NEW c \in Clients \ emptied PROVE Agrees(view'[c], c, g[1])
      <4>1. view[c] \in Views /\ Agrees(view[c], c, f[1]) /\ view'[c] = Deliver(view[c], c, m)
        BY <2>3, <3>2 DEF Chain, Shape, TypeOK
      <4> QED BY <3>1, <3>2, <3>3, <4>1, DeliverAgrees
    <3>5. Stands' = Stands
      BY <2>1 DEF Stands, EventsFrom, JobPos, JobState, Idle, Snap
    <3>6. /\ job' = NoJob => g[Len(sendCh') + 1].c = NoClient
          /\ subscribed' => g[Len(sendCh') + 1] = Stands'
      BY <2>1, <3>1, <3>5 DEF Chain
    <3>7. \A c \in Clients \ emptied' : Agrees(view[c], c, g[1])'
      BY <2>1, <3>4 DEF Agrees
    <3>8. Chain(g)'
      BY <3>1, <3>6, <3>7 DEF Chain, NoJob, Job
    <3> QED BY <3>8
  <2> QED BY <1>12, <2>2, <2>3 DEF WriteMessage
<1>13. CASE MainRemove \/ OtherSend \/ WriterStop \/ SocketClosed \/ Halt
  <2>1. UNCHANGED <<sendCh, emptied, view, job, subscribed, events, pos>>
    BY <1>13 DEF MainRemove, OtherSend, WriterStop, SocketClosed, Halt, vars, streamVars, catVars, fwVars, chanVars
  <2> QED BY <1>2, <2>1
<1>14. CASE WriteFails \/ ReadFails
  BY <1>14 DEF WriteFails, ReadFails, CloseConnection
<1> QED BY <1>3, <1>4, <1>5, <1>6, <1>7, <1>8, <1>9, <1>10, <1>11, <1>12, <1>13, <1>14
        DEF Next, ForwarderStep, MainStep, WriterStep, ConnStep

\* A new connection starts a new chain.
LEMMA ReconnectChain ==
  ASSUME Shape, Reconnect
  PROVE  Linked' /\ \E g : Chain(g)'
<1>1. /\ events' = << >> /\ job' = NoJob /\ sendCh' = << >> /\ UNCHANGED pos
      /\ view' = [c \in Clients |-> NewView]
  BY DEF Reconnect, streamVars, catVars
<1>2. Len(events') = 0 /\ Len(sendCh') = 0 /\ pos \in Nat
  BY <1>1 DEF Shape, TypeOK
<1>3. Linked'
  BY <1>1, <1>2 DEF Linked, NoJob, Job
<1>4. PICK g : g = [i \in 1..1 |-> Idle(pos)]
  OBVIOUS
<1>5. Idle(pos) \in States /\ Idle(pos).c = NoClient
  BY <1>2 DEF Idle, Snap, States
<1>6. g \in [1..(Len(sendCh') + 1) -> States] /\ g[1] = Idle(pos) /\ Len(sendCh') + 1 = 1
  BY <1>2, <1>4, <1>5
<1>7. Links(g)'
  BY <1>2, <1>6 DEF Links, States
<1>8. Stands' = Idle(pos)
  BY <1>1 DEF Stands, EventsFrom, Idle, Snap, NoJob, Job
<1>9. ASSUME NEW c \in Clients PROVE Agrees(view[c], c, g[1])'
  <2>1. view'[c].st = "none" /\ g[1].c # c
    BY <1>1, <1>5, <1>6, ReplayAssumption DEF NewView
  <2> QED BY <2>1 DEF Agrees
<1>10. Chain(g)'
  BY <1>5, <1>6, <1>7, <1>8, <1>9 DEF Chain
<1> QED BY <1>3, <1>10

-----------------------------------------------------------------------------
(* The results *)

\* Init establishes the invariant.
LEMMA InitInv == ASSUME Init PROVE Inv
<1>1. /\ pos = 0 /\ lo = 0 /\ events = << >> /\ job = NoJob /\ sendCh = << >> /\ others = 0
      /\ fw = "run" /\ subscribed = TRUE /\ main = "loop" /\ mainJob = NoJob /\ emptied = {}
      /\ view = [c \in Clients |-> NewView]
  BY DEF Init
<1>2. events \in Seq(Jobs) /\ Len(events) = 0 /\ sendCh \in Seq(Messages) /\ Len(sendCh) = 0
  BY <1>1
<1>3. view \in [Clients -> Views] /\ \A c \in Clients : view[c].st = "none"
  BY <1>1 DEF NewView, Views
<1>4. TypeOK
  <2>1. /\ pos \in Nat /\ lo \in 0..pos /\ pos - lo <= RingSize /\ Len(events) <= EventCap
        /\ Len(sendCh) + others <= SendCap
    BY <1>1, <1>2, ReplayAssumption
  <2>2. job \in Jobs /\ mainJob \in Jobs /\ emptied \subseteq Clients /\ conns \in Nat
    BY <1>1, NoJobTyped DEF Init
  <2>3. /\ reading \in BOOLEAN /\ done \in BOOLEAN /\ subscribed \in BOOLEAN /\ ended \in BOOLEAN
        /\ notified \in BOOLEAN /\ connDone \in BOOLEAN /\ forwarding \in BOOLEAN
        /\ removed \in BOOLEAN /\ change \in BOOLEAN
    BY DEF Init
  <2>4. /\ fw \in {"none", "run", "stop", "exited"} /\ sock \in {"open", "closed"}
        /\ closing \subseteq Goroutines /\ writer \in {"run", "exited"}
        /\ main \in {"loop", "finish", "request", "send"}
        /\ mainClient \in Clients \cup {NoClient} /\ others \in Nat /\ otherSent \in Nat
    BY DEF Init
  <2> QED BY <1>2, <1>3, <2>1, <2>2, <2>3, <2>4 DEF TypeOK
<1>5. Ranges /\ Roles
  BY <1>1, <1>2, NoJobTyped DEF Ranges, Roles, Init
<1>6. Asking /\ RemovedLast
  <2>1. forwarding
    BY DEF Init
  <2> QED BY <1>1, <1>2, <1>3, <2>1, NoJobTyped, ReplayAssumption
          DEF Asking, Unasked, RemovedLast, UntilScan, NothingFollows, Retired
<1>7. Linked
  BY <1>1, <1>2 DEF Linked
<1>8. \E f : Chain(f)
  <2>1. PICK f : f = [i \in 1..1 |-> Idle(pos)]
    OBVIOUS
  <2>2. Idle(pos) \in States /\ Idle(pos).c = NoClient
    BY <1>1 DEF Idle, Snap, States
  <2>3. f \in [1..(Len(sendCh) + 1) -> States] /\ f[1] = Idle(pos) /\ Len(sendCh) + 1 = 1
    BY <1>2, <2>1, <2>2
  <2>4. Links(f) /\ Stands = Idle(pos)
    BY <1>1, <1>2, <2>3 DEF Links, Stands, EventsFrom
  <2>5. ASSUME NEW c \in Clients PROVE Agrees(view[c], c, f[1])
    BY <1>3, <2>2, <2>3, ReplayAssumption DEF Agrees
  <2> QED BY <2>2, <2>3, <2>4, <2>5 DEF Chain
<1> QED BY <1>4, <1>5, <1>6, <1>7, <1>8 DEF Inv, Shape, Contract

\* Every step keeps it.
LEMMA NextInv == ASSUME Inv, [Next]_vars PROVE Inv'
<1>1. CASE UNCHANGED vars
  <2>1. UNCHANGED <<pos, lo, events, job, fw, subscribed, sendCh, main, mainClient, mainJob, emptied,
                    view, connDone, removed, forwarding>>
    BY <1>1 DEF vars, streamVars, catVars, fwVars, chanVars, connVars, mainVars
  <2>2. Shape'
    BY <1>1 DEF Inv, Shape, TypeOK, Ranges, Roles, vars, streamVars, catVars, fwVars, chanVars, connVars,
                mainVars
  <2>3. Asking' /\ RemovedLast'
    BY <2>1 DEF Inv, Asking, Unasked, RemovedLast, UntilScan, NothingFollows, Retired, LastIsRemove,
              QuietFrom, Data
  <2>4. Linked => Linked'
    BY <2>1 DEF Linked, EventsFrom, Waiting, InWork, OutJob, SnapJob, JobPos
  <2>5. Stands' = Stands
    BY <2>1 DEF Stands, EventsFrom, JobPos, JobState, Idle, Snap
  <2>6. ASSUME NEW f, Chain(f) PROVE Chain(f)'
    <3>1. \A c \in Clients \ emptied : Agrees(view'[c], c, f[1])
      BY <2>1, <2>6 DEF Chain
    <3> QED BY <2>1, <2>5, <2>6, <3>1, ChainSame
  <2>7. Contract'
    BY <2>1, <2>4, <2>6 DEF Inv, Contract
  <2> QED BY <2>2, <2>3, <2>7 DEF Inv
<1>2. CASE Next
  <2>1. Shape /\ Asking /\ RemovedLast /\ Contract
    BY DEF Inv
  <2>2. Shape'
    BY <1>2, <2>1, StreamShape, ForwarderShape, MainShape, ConnShape DEF Next
  <2>3. Asking' /\ RemovedLast'
    BY <1>2, <2>1, AskingKept, UntilScanKept, RetiredKept DEF RemovedLast
  <2>4. ASSUME ~connDone' PROVE (subscribed' => Linked') /\ \E g : Chain(g)'
    <3>1. CASE Reconnect
      BY <2>1, <3>1, ReconnectChain
    <3>2. CASE ~Reconnect
      <4>1. ~connDone
        BY <1>2, <2>1, <2>4, <3>2, OpenBefore
      <4>2. (subscribed => Linked) /\ \E f : Chain(f)
        BY <2>1, <4>1 DEF Contract
      <4>3. PICK f : Chain(f)
        BY <4>2
      <4>4. \E g : Chain(g)'
        BY <1>2, <2>1, <2>4, <3>2, <4>2, <4>3, ChainKept
      <4>5. ASSUME subscribed' PROVE Linked'
        <5>1. subscribed
          <6>1. fw' \in {"run", "stop"}
            BY <2>2, <4>5 DEF Shape, Roles
          <6>2. fw \in {"run", "stop"}
            BY <1>2, <2>1, <3>2, <6>1, StreamChanges
            DEF Next, ForwarderStep, ForwarderTake, ForwarderSend, ForwarderGiveUp, ForwarderStop,
                ForwarderExit, ForwarderNotify, AttachBegin, MainStep, AnswerFromRing, AnswerEmpty,
                FinishAttach, SessionEnded, MainRemove, MainSend, WriterStep, WriteMessage, WriterStop, ConnStep,
                OtherSend, WriteFails, ReadFails, SocketClosed, Halt, vars, fwVars
          <6> QED BY <2>1, <6>2 DEF Shape, Roles
        <5> QED BY <1>2, <2>1, <2>4, <3>2, <4>2, <4>5, <5>1, LinkedKept
      <4> QED BY <4>4, <4>5
    <3> QED BY <3>1, <3>2
  <2>5. Contract'
    BY <2>4 DEF Contract
  <2> QED BY <2>2, <2>3, <2>5 DEF Inv
<1> QED BY <1>1, <1>2

\* The channels keep to their capacities and the ring to its size, and on an
\* open connection no output of a session follows its last session_remove: what
\* follows the one main.go sends for a scan's removal is itself followed by that
\* of finishSession, which waits for the forwarder, the only sender of output.
THEOREM RemovalIsLast == Spec => [](TypeOK /\ QuietAfterRemove)
<1>1. ASSUME Inv PROVE QuietAfterRemove
  <2> SUFFICES ASSUME NEW c \in Clients, view[c].st = "late"
               PROVE  removed /\ (forwarding \/ connDone \/ RemovePending)
    BY DEF QuietAfterRemove
  <2>1. removed
    BY <1>1 DEF Inv, RemovedLast, UntilScan, NothingFollows
  <2>2. ~forwarding /\ ~connDone => RemovePending
    BY <1>1 DEF Inv, RemovedLast, Retired, LastIsRemove, RemovePending
  <2> QED BY <2>1, <2>2
<1>2. Inv => TypeOK
  BY DEF Inv, Shape
<1> QED BY <1>1, <1>2, InitInv, NextInv, PTL DEF Spec

\* The replay contract of protocol.go: on an open connection what a client has
\* received is one unbroken run of the stream and its snapshot was complete,
\* across emits, redraws, overflows, other clients' attaches and the session's
\* end, whatever the ring's, the chunks' and the channels' sizes.
THEOREM ReplayIsExact == Spec => []ReplayExact
<1>1. ASSUME Inv PROVE ReplayExact
  <2> SUFFICES ASSUME ~connDone, NEW c \in Clients \ emptied
               PROVE  (Receiving(c) => Unbroken(c)) /\ view[c].st # "broken"
    BY DEF ReplayExact
  <2>1. PICK f : Chain(f)
    BY <1>1 DEF Inv, Contract
  <2>2. Agrees(view[c], c, f[1])
    BY <2>1 DEF Chain
  <2> QED BY <2>2 DEF Agrees, Receiving, Unbroken
<1> QED BY <1>1, InitInv, NextInv, PTL DEF Spec

\* When a session's channel, forwarder and queue are empty, its live clients
\* have everything the PTY wrote: nothing is lost on the way.
THEOREM LiveClientsCurrent == Spec => []LiveIsCurrent
<1>1. ASSUME Inv PROVE LiveIsCurrent
  <2> SUFFICES ASSUME ~connDone, subscribed, events = << >>, job = NoJob, sendCh = << >>,
                      NEW c \in Clients \ emptied, view[c].st = "live"
               PROVE  view[c].upto = pos
    BY DEF LiveIsCurrent
  <2>1. PICK f : Chain(f)
    BY <1>1 DEF Inv, Contract
  <2>2. Len(sendCh) = 0 /\ Len(sendCh) + 1 = 1
    OBVIOUS
  <2>3. f[1] = Idle(pos)
    BY <2>1, <2>2 DEF Chain, Stands, EventsFrom
  <2>4. Agrees(view[c], c, f[1])
    BY <2>1 DEF Chain
  <2> QED BY <2>3, <2>4 DEF Agrees, Idle, Snap
<1> QED BY <1>1, InitInv, NextInv, PTL DEF Spec
=============================================================================
