---------------------------- MODULE AttachReplay ----------------------------
(***************************************************************************)
(* One active session's output on its way to the relay: the PTY read loop  *)
(* (internal/pty), the stream with its replay ring and subscriber channel  *)
(* (internal/stream), the session's forwarder goroutine, the connection's  *)
(* outbound queue and writer, and the part of runAgent's main loop that    *)
(* answers client_attach and retires the session (cmd/scomp/main.go).      *)
(*                                                                         *)
(* A byte of output is its position in the stream, so data is an interval  *)
(* of positions.  The ring holds the positions lo..pos-1: RingBuffer is    *)
(* proved to be that window.  A job is what a goroutine is in the middle   *)
(* of sending; a snapshot job walks through sendSnapshot's loop, one       *)
(* message a step.  Traffic of other sessions only takes queue slots.      *)
(***************************************************************************)
EXTENDS Naturals, Sequences, FiniteSets

CONSTANTS Clients,      \* clients of the session, identified by client_id
          NoClient,     \* the client_id of a message that has none
          RingSize,     \* ring.DefaultSize
          ChunkBytes,   \* protocol.SnapshotChunkBytes
          EventCap,     \* capacity of outputCh (256)
          SendCap,      \* capacity of sendCh (512)
          MaxRead,      \* bound: bytes of one PTY read (32 KiB)
          MaxPos,       \* bound: bytes of output in a behaviour
          MaxOthers,    \* bound: messages of other sessions on one connection
          MaxConns      \* bound: relay connections in a behaviour

ASSUME ReplayAssumption ==
  /\ NoClient \notin Clients
  /\ RingSize \in Nat
  /\ {ChunkBytes, EventCap, SendCap, MaxRead} \subseteq Nat \ {0}
  /\ {MaxPos, MaxOthers, MaxConns} \subseteq Nat

VARIABLES
  pos, lo,       \* the stream's length and the ring's oldest byte
  reading,       \* the PTY read loop is running
  done,          \* sess.Done() is closed
  removed,       \* a scan has taken the session out of the catalog
  change,        \* sessionChanges holds its removal
  subscribed,    \* outputCh is registered with the stream
  events,        \* outputCh: jobs for the forwarder
  fw,            \* forwarder goroutine: "none", "run", "stop" or "exited"
  job,           \* what the forwarder is sending
  ended,         \* the forwarder saw sess.Done()
  notified,      \* sessionEnded holds the forwarder
  sendCh,        \* this session's messages in sendCh, oldest first
  others,        \* number of messages of other sessions in sendCh
  otherSent,     \* how many of those this connection has seen (bound)
  connDone,      \* connDone is closed
  sock,          \* "open" until conn.Close() has run
  closing,       \* goroutines inside closeConnection
  writer,        \* writer goroutine: "run" or "exited"
  main,          \* main loop: "loop", "finish", "request" or "send"
  mainClient,    \* the client whose attach the main loop handles
  mainJob,       \* what the main loop is sending
  forwarding,    \* forwarders[id] is set
  conns,         \* relay connections so far
  emptied,       \* clients answered with an empty snapshot (history)
  view           \* what each client has received on this connection

streamVars == <<pos, lo, reading, done>>
catVars == <<removed, change>>
fwVars == <<fw, job, ended, notified>>
chanVars == <<sendCh, others, otherSent>>
connVars == <<connDone, sock, closing, writer>>
mainVars == <<main, mainClient, mainJob, forwarding>>
vars == <<streamVars, catVars, subscribed, events, fwVars, chanVars, connVars, mainVars,
          conns, emptied, view>>

-----------------------------------------------------------------------------
(* Jobs and messages *)

\* A job: live output lo..at-1 ("out"), or a snapshot of lo..at-1 for client c
\* whose next message is the start, a chunk from lo on, or the end.
Job(k, c, from, at, seq) == [k |-> k, c |-> c, lo |-> from, at |-> at, seq |-> seq]

NoJob == Job("none", NoClient, 0, 0, 0)

\* min(offset+protocol.SnapshotChunkBytes, len(data)) of sendSnapshot.
ChunkEnd(j) == IF j.lo + ChunkBytes <= j.at THEN j.lo + ChunkBytes ELSE j.at

\* The message a job sends next.  lo..hi-1 is its payload, at the position of
\* the stream it belongs to; snapshot_start announces at - lo bytes (Total).
Message(j) ==
  CASE j.k = "out"    -> [k |-> "out", c |-> NoClient, lo |-> j.lo, hi |-> j.at, at |-> j.at, seq |-> 0]
    [] j.k = "start"  -> [k |-> "start", c |-> j.c, lo |-> j.lo, hi |-> j.lo, at |-> j.at, seq |-> 0]
    [] j.k = "chunk"  -> [k |-> "chunk", c |-> j.c, lo |-> j.lo, hi |-> ChunkEnd(j), at |-> j.at, seq |-> j.seq + 1]
    [] j.k = "end"    -> [k |-> "end", c |-> j.c, lo |-> j.at, hi |-> j.at, at |-> j.at, seq |-> j.seq]
    [] j.k = "remove" -> [k |-> "remove", c |-> NoClient, lo |-> 0, hi |-> 0, at |-> 0, seq |-> 0]

\* What is left of a job once Message(j) is queued: sendSnapshot's loop.
Rest(j) ==
  CASE j.k = "start" -> [j EXCEPT !.k = IF j.lo < j.at THEN "chunk" ELSE "end"]
    [] j.k = "chunk" -> [j EXCEPT !.k = IF ChunkEnd(j) < j.at THEN "chunk" ELSE "end",
                                  !.lo = ChunkEnd(j), !.seq = j.seq + 1]
    [] OTHER         -> NoJob

\* sendCh, shared by every session, has a free slot.
QueueHasRoom == Len(sendCh) + others < SendCap

-----------------------------------------------------------------------------
(* The stream *)

\* closeConnection called by goroutine g: the first call closes connDone, then
\* the socket; a later one waits in sync.Once for the first to finish.
CloseConnection(g) ==
  /\ connDone' = TRUE
  /\ closing' = IF sock = "open" THEN closing \cup {g} ELSE closing
  /\ UNCHANGED sock

\* Mutant of Broadcast: a full subscriber channel drops the frame silently.
BroadcastDrops(j) ==
  IF subscribed /\ Len(events) < EventCap
    THEN events' = Append(events, j) /\ UNCHANGED <<connDone, closing, sock>>
    ELSE UNCHANGED <<events, connDone, closing, sock>>

\* broadcast: a full channel runs the overflow callback, which reconnects.
Broadcast(j) ==
  IF ~subscribed THEN UNCHANGED <<events, connDone, closing, sock>>
  ELSE IF Len(events) < EventCap
    THEN events' = Append(events, j) /\ UNCHANGED <<connDone, closing, sock>>
    ELSE UNCHANGED events /\ CloseConnection("emit")

\* The ring's oldest byte after n bytes are written to a ring that starts at from.
RingAfter(from, n) ==
  IF pos + n - from <= RingSize THEN from ELSE pos + n - RingSize

\* The stream's mu is held across the ring write, the broadcast and the
\* overflow callback, so nothing else of the stream runs until it returns.
MuFree == "emit" \notin closing

\* One PTY read: Emit, or EmitReset when the data redraws the screen.  A read
\* that completed before Close is still emitted, and is the last.
EmitFrom(from, n) ==
  /\ reading /\ MuFree
  /\ pos + n <= MaxPos
  /\ lo' = RingAfter(from, n)
  /\ pos' = pos + n
  /\ Broadcast(Job("out", NoClient, pos, pos + n, 0))
  /\ reading' = ~done
  /\ UNCHANGED <<done, catVars, subscribed, fwVars, chanVars, writer, mainVars, conns, emptied, view>>

Emit(n) == EmitFrom(lo, n)
EmitReset(n) == EmitFrom(pos, n)

\* The read loop meets an error (the process exited) and closes done.
ReadLoopExit ==
  /\ reading /\ MuFree
  /\ reading' = FALSE
  /\ done' = TRUE
  /\ UNCHANGED <<pos, lo, catVars, subscribed, events, fwVars, chanVars, connVars, mainVars, conns, emptied, view>>

\* A scan takes the session out of the catalog and publishes the removal: a
\* subscriber whose channel is full, or that is not there, does not get it.
CatalogRemove ==
  /\ ~removed
  /\ removed' = TRUE
  /\ change' \in BOOLEAN
  /\ UNCHANGED <<streamVars, subscribed, events, fwVars, chanVars, connVars, mainVars, conns, emptied, view>>

\* Once mu is released the scan has the registry close the PTY of a session it
\* removed, which may be long after the main loop has heard of the removal.
SessionClose ==
  /\ removed /\ ~done
  /\ done' = TRUE
  /\ UNCHANGED <<pos, lo, reading, catVars, subscribed, events, fwVars, chanVars, connVars, mainVars, conns, emptied, view>>

-----------------------------------------------------------------------------
(* The forwarder *)

\* case ev := <-outputCh
ForwarderTake ==
  /\ fw = "run" /\ job = NoJob /\ events # << >>
  /\ job' = Head(events)
  /\ events' = Tail(events)
  /\ UNCHANGED <<streamVars, catVars, subscribed, fw, ended, notified, chanVars, connVars, mainVars, conns, emptied, view>>

\* sendWait queues the next message of the output or snapshot.
ForwarderSend ==
  /\ fw = "run" /\ job # NoJob /\ QueueHasRoom
  /\ sendCh' = Append(sendCh, Message(job))
  /\ job' = Rest(job)
  /\ UNCHANGED <<streamVars, catVars, subscribed, events, fw, ended, notified, others, otherSent, connVars, mainVars, conns, emptied, view>>

\* Mutant of ForwarderGiveUp: sendWait does not select on connDone.
ForwarderNeverGivesUp == FALSE /\ UNCHANGED vars

\* sendWait returns false: the rest of the snapshot is not sent.
ForwarderGiveUp ==
  /\ fw = "run" /\ job # NoJob /\ connDone
  /\ job' = NoJob
  /\ UNCHANGED <<streamVars, catVars, subscribed, events, fw, ended, notified, chanVars, connVars, mainVars, conns, emptied, view>>

\* case <-connDone / case <-sess.Done(): select takes any ready case, so
\* events may be left in outputCh.
ForwarderStop ==
  /\ fw = "run" /\ job = NoJob
  /\ \/ connDone /\ UNCHANGED ended
     \/ done /\ ended' = TRUE
  /\ fw' = "stop"
  /\ UNCHANGED <<streamVars, catVars, subscribed, events, job, notified, chanVars, connVars, mainVars, conns, emptied, view>>

\* The deferred Unsubscribe and close(fw.exited).
ForwarderExit ==
  /\ fw = "stop"
  /\ fw' = "exited"
  /\ subscribed' = FALSE
  /\ UNCHANGED <<streamVars, catVars, events, job, ended, notified, chanVars, connVars, mainVars, conns, emptied, view>>

\* sessionEnded <- fw, abandoned when the connection is torn down.
ForwarderNotify ==
  /\ fw = "exited" /\ ended
  /\ ended' = FALSE
  /\ notified' \in IF connDone THEN BOOLEAN ELSE {TRUE}
  /\ UNCHANGED <<streamVars, catVars, subscribed, events, fw, job, chanVars, connVars, mainVars, conns, emptied, view>>

-----------------------------------------------------------------------------
(* The main loop *)

\* The main loop is not inside closeConnection.
MainRuns == "main" \notin closing

\* client_attach of c: finishIfEnded looks whether the PTY has ended.
AttachBegin(c) ==
  /\ MainRuns /\ main = "loop" /\ forwarding
  /\ view[c].st = "none"
  /\ view' = [view EXCEPT ![c].st = "waiting"]
  /\ mainClient' = c
  /\ main' = IF done THEN "finish" ELSE "request"
  /\ UNCHANGED <<streamVars, catVars, subscribed, events, fwVars, chanVars, connVars, mainJob, forwarding, conns, emptied>>

\* Mutant of RequestSnapshot: the ring is read before the lock is taken, so the
\* snapshot lacks a byte that is emitted before it is queued.
RequestSnapshotStale(c) == Job("start", c, lo, IF pos > lo THEN pos - 1 ELSE pos, 0)

\* The snapshot event RequestSnapshot queues: the ring at this point.
RequestSnapshot(c) == Job("start", c, lo, pos, 0)

\* Mutant of AnswerFromRing: a full channel is ignored.
AnswerFromRingOrNot ==
  /\ MainRuns /\ main = "request" /\ ~done /\ MuFree
  /\ events' = IF Len(events) < EventCap THEN Append(events, RequestSnapshot(mainClient)) ELSE events
  /\ main' = "loop" /\ mainClient' = NoClient
  /\ UNCHANGED <<streamVars, catVars, subscribed, fwVars, chanVars, connVars, mainJob, forwarding, conns, emptied, view>>

\* requestSnapshot for a live session: queued on the forwarder's channel under
\* the stream's mu; a full channel tears the connection down.
AnswerFromRing ==
  /\ MainRuns /\ main = "request" /\ ~done /\ MuFree
  /\ IF Len(events) < EventCap
       THEN events' = Append(events, RequestSnapshot(mainClient)) /\ UNCHANGED <<connDone, closing, sock>>
       ELSE UNCHANGED events /\ CloseConnection("main")
  /\ main' = "loop" /\ mainClient' = NoClient
  /\ UNCHANGED <<streamVars, catVars, subscribed, fwVars, chanVars, writer, mainJob, forwarding, conns, emptied, view>>

\* requestSnapshot when the PTY is not alive: an empty snapshot, sent from here.
AnswerEmpty ==
  /\ MainRuns /\ main = "request" /\ done
  /\ mainJob' = Job("start", mainClient, 0, 0, 0)
  /\ main' = "send" /\ mainClient' = NoClient
  /\ emptied' = emptied \cup {mainClient}
  /\ UNCHANGED <<streamVars, catVars, subscribed, events, fwVars, chanVars, connVars, forwarding, conns, view>>

\* Mutant of RetireReady: the main loop does not wait for the forwarder.
RetireReadyAtOnce == forwarding

\* finishSession may go on: the forwarder is still registered and has exited.
RetireReady == forwarding /\ fw = "exited"

\* The end of finishSession: the entry goes and session_remove is sent.  What
\* is left in outputCh is garbage.
Retire ==
  /\ RetireReady
  /\ forwarding' = FALSE
  /\ events' = << >>
  /\ mainJob' = Job("remove", NoClient, 0, 0, 0)
  /\ main' = "send" /\ mainClient' = NoClient

\* finishIfEnded from an attach: retire the session, or give up on connDone.
FinishAttach ==
  /\ MainRuns /\ main = "finish"
  /\ \/ Retire
     \/ /\ connDone /\ main' = "request"
        /\ UNCHANGED <<events, mainClient, mainJob, forwarding>>
  /\ UNCHANGED <<streamVars, catVars, subscribed, fwVars, chanVars, connVars, conns, emptied, view>>

\* case fw := <-sessionEnded; a forwarder already retired is ignored, and on a
\* connection being torn down finishSession's select may return instead.
SessionEnded ==
  /\ MainRuns /\ main = "loop" /\ notified
  /\ notified' = FALSE
  /\ \/ Retire
     \/ (~forwarding \/ connDone) /\ UNCHANGED <<events, mainVars>>
  /\ UNCHANGED <<streamVars, catVars, subscribed, fw, job, ended, chanVars, connVars, conns, emptied, view>>

\* case change := <-sessionChanges with a removal: session_remove is sent at
\* once.  The forwarder is neither stopped nor waited for: it is retired when
\* the PTY has been closed, and sends a second session_remove then.
MainRemove ==
  /\ MainRuns /\ main = "loop" /\ change
  /\ change' = FALSE
  /\ mainJob' = Job("remove", NoClient, 0, 0, 0)
  /\ main' = "send" /\ mainClient' = NoClient
  /\ UNCHANGED <<streamVars, removed, subscribed, events, fwVars, chanVars, connVars, forwarding, conns, emptied, view>>

\* send, non-blocking: queued, dropped on connDone, or, on a full queue,
\* dropped with the connection torn down.
MainSend ==
  /\ MainRuns /\ main = "send"
  /\ \/ /\ QueueHasRoom
        /\ sendCh' = Append(sendCh, Message(mainJob))
        /\ UNCHANGED <<connDone, closing, sock>>
     \/ connDone /\ UNCHANGED <<sendCh, connDone, closing, sock>>
     \/ /\ ~QueueHasRoom /\ ~connDone
        /\ UNCHANGED sendCh /\ CloseConnection("main")
  /\ mainJob' = Rest(mainJob)
  /\ main' = IF Rest(mainJob) = NoJob THEN "loop" ELSE "send"
  /\ UNCHANGED <<streamVars, catVars, subscribed, events, fwVars, others, otherSent, writer, mainClient, forwarding, conns, emptied, view>>

-----------------------------------------------------------------------------
(* The connection *)

\* Another session's forwarder (sendWait) or the main loop queues a message.
OtherSend ==
  /\ QueueHasRoom /\ otherSent < MaxOthers
  /\ others' = others + 1
  /\ otherSent' = otherSent + 1
  /\ UNCHANGED <<streamVars, catVars, subscribed, events, fwVars, sendCh, connVars, mainVars, conns, emptied, view>>

\* A message that carries output to client c.
Carries(m, c) == m.k = "out" \/ (m.k = "chunk" /\ m.c = c)

\* What the relay makes of a message for client c (external): live output is
\* dropped until snapshot_start, and everything after it is forwarded.  A
\* session_remove ends what a client receives; one that waits still waits, and
\* output that comes afterwards is late until another session_remove.
Deliver(v, c, m) ==
  CASE m.k = "start" /\ m.c = c -> [st |-> "replay", from |-> m.lo, upto |-> m.lo, n |-> 0, seq |-> 0, total |-> m.at - m.lo]
    [] m.k = "remove" /\ v.st \in {"replay", "live", "late"} -> [v EXCEPT !.st = "closed"]
    [] Carries(m, c) /\ v.st \in {"closed", "late"} -> [v EXCEPT !.st = "late"]
    [] m.k = "chunk" /\ m.c = c /\ v.st = "replay" -> [v EXCEPT !.upto = m.hi, !.n = @ + (m.hi - m.lo), !.seq = m.seq]
    [] m.k = "end" /\ m.c = c /\ v.st = "replay" -> [v EXCEPT !.st = IF v.n = v.total /\ v.seq = m.seq THEN "live" ELSE "broken"]
    [] m.k \in {"chunk", "end"} /\ m.c = c /\ v.st \notin {"replay", "closed", "late"} -> [v EXCEPT !.st = "broken"]
    [] m.k = "out" /\ v.st \in {"replay", "live"} -> [v EXCEPT !.upto = m.hi, !.n = @ + (m.hi - m.lo)]
    [] OTHER -> v

WriterRuns == writer = "run" /\ "writer" \notin closing

\* case data := <-sendCh, written to the open socket: a message of this session,
\* or one of another session.
WriteMessage ==
  /\ WriterRuns /\ sock = "open"
  /\ \/ /\ sendCh # << >>
        /\ sendCh' = Tail(sendCh)
        /\ view' = [c \in Clients |-> Deliver(view[c], c, Head(sendCh))]
        /\ UNCHANGED others
     \/ /\ others > 0
        /\ others' = others - 1
        /\ UNCHANGED <<sendCh, view>>
  /\ UNCHANGED <<streamVars, catVars, subscribed, events, fwVars, otherSent, connVars, mainVars, conns, emptied>>

\* A write or a ping fails: the writer closes the connection and exits.
WriteFails ==
  /\ WriterRuns
  /\ \/ sendCh # << >> /\ sendCh' = Tail(sendCh)
     \/ UNCHANGED sendCh
  /\ writer' = "exited"
  /\ CloseConnection("writer")
  /\ UNCHANGED <<streamVars, catVars, subscribed, events, fwVars, others, otherSent, mainVars, conns, emptied, view>>

\* case <-connDone in the writer.
WriterStop ==
  /\ WriterRuns /\ connDone
  /\ writer' = "exited"
  /\ UNCHANGED <<streamVars, catVars, subscribed, events, fwVars, chanVars, connDone, sock, closing, mainVars, conns, emptied, view>>

\* ReadMessage fails (the relay went away, or the read deadline passed).
ReadFails ==
  /\ sock = "open" /\ ~connDone
  /\ CloseConnection("reader")
  /\ UNCHANGED <<streamVars, catVars, subscribed, events, fwVars, chanVars, writer, mainVars, conns, emptied, view>>

\* conn.Close() returns, and with it every goroutine inside closeConnection.
SocketClosed ==
  /\ closing # {}
  /\ sock' = "closed"
  /\ closing' = {}
  /\ UNCHANGED <<streamVars, catVars, subscribed, events, fwVars, chanVars, connDone, writer, mainVars, conns, emptied, view>>

\* wg.Wait() has nothing left to wait for and the main loop is free to return.
TornDown ==
  /\ connDone /\ sock = "closed" /\ main = "loop"
  /\ writer = "exited" /\ fw \in {"none", "exited"} /\ ~ended

NewView == [st |-> "none", from |-> 0, upto |-> 0, n |-> 0, seq |-> 0, total |-> 0]

\* main's loop calls runAgent again: a session of the catalog whose PTY is alive
\* gets a new forwarder, and clients must attach again.
Reconnect ==
  /\ TornDown /\ conns < MaxConns
  /\ conns' = conns + 1
  /\ forwarding' = (~done /\ ~removed) /\ subscribed' = forwarding'
  /\ fw' = IF forwarding' THEN "run" ELSE "none"
  /\ change' = FALSE
  /\ events' = << >> /\ job' = NoJob /\ notified' = FALSE
  /\ sendCh' = << >> /\ others' = 0 /\ otherSent' = 0
  /\ connDone' = FALSE /\ sock' = "open" /\ writer' = "run"
  /\ view' = [c \in Clients |-> NewView]
  /\ emptied' = {}
  /\ UNCHANGED <<streamVars, removed, ended, closing, main, mainClient, mainJob>>

\* The bound on connections is reached: the behaviour ends here.
Halt == TornDown /\ conns = MaxConns /\ UNCHANGED vars

-----------------------------------------------------------------------------

Init ==
  /\ pos = 0 /\ lo = 0 /\ reading = TRUE /\ done = FALSE
  /\ removed = FALSE /\ change = FALSE
  /\ subscribed = TRUE /\ events = << >>
  /\ fw = "run" /\ job = NoJob /\ ended = FALSE /\ notified = FALSE
  /\ sendCh = << >> /\ others = 0 /\ otherSent = 0
  /\ connDone = FALSE /\ sock = "open" /\ closing = {} /\ writer = "run"
  /\ main = "loop" /\ mainClient = NoClient /\ mainJob = NoJob /\ forwarding = TRUE
  /\ conns = 1 /\ emptied = {}
  /\ view = [c \in Clients |-> NewView]

StreamStep == (\E n \in 1..MaxRead : Emit(n) \/ EmitReset(n)) \/ ReadLoopExit \/ CatalogRemove \/ SessionClose
ForwarderStep == ForwarderTake \/ ForwarderSend \/ ForwarderGiveUp \/ ForwarderStop \/ ForwarderExit \/ ForwarderNotify
MainStep == AnswerFromRing \/ AnswerEmpty \/ FinishAttach \/ SessionEnded \/ MainRemove \/ MainSend
WriterStep == WriteMessage \/ WriterStop
ConnStep == OtherSend \/ WriteFails \/ ReadFails \/ SocketClosed \/ Reconnect \/ Halt

Next ==
  \/ StreamStep \/ ForwarderStep
  \/ (\E c \in Clients : AttachBegin(c)) \/ MainStep
  \/ WriterStep \/ ConnStep

Spec == Init /\ [][Next]_vars

\* Every goroutine that can run eventually does: the forwarder, the main loop
\* inside a handler, the writer (a write deadline bounds each write), and the
\* close of the socket.  Nothing obliges the PTY, the relay or a client to act.
Fairness ==
  /\ WF_vars(ForwarderStep) /\ WF_vars(MainStep)
  /\ WF_vars(WriterStep) /\ WF_vars(SocketClosed)

FairSpec == Spec /\ Fairness

-----------------------------------------------------------------------------
(* Properties *)

JobKinds == {"none", "out", "start", "chunk", "end", "remove"}
Jobs == [k : JobKinds, c : Clients \cup {NoClient}, lo : Nat, at : Nat, seq : Nat]
Messages == [k : JobKinds \ {"none"}, c : Clients \cup {NoClient},
             lo : Nat, hi : Nat, at : Nat, seq : Nat]
Goroutines == {"emit", "main", "writer", "reader"}
Views == [st : {"none", "waiting", "replay", "live", "broken", "closed", "late"},
          from : Nat, upto : Nat, n : Nat, seq : Nat, total : Nat]

\* Types, with the two channels within their capacities and the ring within
\* its size (the buffered channels of runAgent and ring.Buffer).
TypeOK ==
  /\ pos \in Nat /\ lo \in 0..pos /\ pos - lo <= RingSize
  /\ reading \in BOOLEAN /\ done \in BOOLEAN
  /\ removed \in BOOLEAN /\ change \in BOOLEAN /\ subscribed \in BOOLEAN
  /\ events \in Seq(Jobs) /\ Len(events) <= EventCap
  /\ fw \in {"none", "run", "stop", "exited"} /\ job \in Jobs
  /\ ended \in BOOLEAN /\ notified \in BOOLEAN
  /\ sendCh \in Seq(Messages) /\ others \in Nat /\ otherSent \in Nat
  /\ Len(sendCh) + others <= SendCap
  /\ connDone \in BOOLEAN /\ sock \in {"open", "closed"}
  /\ closing \subseteq Goroutines /\ writer \in {"run", "exited"}
  /\ main \in {"loop", "finish", "request", "send"}
  /\ mainClient \in Clients \cup {NoClient} /\ mainJob \in Jobs
  /\ forwarding \in BOOLEAN
  /\ conns \in Nat /\ emptied \subseteq Clients
  /\ view \in [Clients -> Views]

Receiving(c) == view[c].st \in {"replay", "live"}

\* What a client has received is one unbroken run of the stream.
Unbroken(c) == view[c].n + view[c].from = view[c].upto

\* On an open connection every client whose snapshot came from the ring has
\* received its replay and the output after it with no byte missing and none
\* twice, and its snapshot_end agreed with what snapshot_start announced: the
\* contract of protocol.go, across emits, resets, overflows, other clients'
\* attaches and the session's end.
ReplayExact ==
  ~connDone => \A c \in Clients \ emptied :
                 /\ Receiving(c) => Unbroken(c)
                 /\ view[c].st # "broken"

\* Once the pipeline of a session has drained, its live clients have seen
\* everything the PTY wrote: no output is left behind anywhere.
LiveIsCurrent ==
  (~connDone /\ subscribed /\ events = << >> /\ job = NoJob /\ sendCh = << >>)
    => \A c \in Clients \ emptied : view[c].st = "live" => view[c].upto = pos

\* A session_remove is on its way to the relay.
RemovePending ==
  \/ mainJob.k = "remove"
  \/ \E i \in 1..Len(sendCh) : sendCh[i].k = "remove"

\* On an open connection no output of a session follows its last
\* session_remove, the one finishSession sends after it has waited for the
\* forwarder.  Output that follows an earlier one means that a scan removed the
\* session from the catalog (main.go sends that session_remove at once), and is
\* itself followed by finishSession's: no client is left with late output.
QuietAfterRemove ==
  \A c \in Clients :
    view[c].st = "late" => removed /\ (forwarding \/ connDone \/ RemovePending)

\* An attach is answered, unless the session or the connection ends first.
AttachAnswered ==
  \A c \in Clients :
    view[c].st = "waiting" ~> (view[c].st # "waiting" \/ ~forwarding \/ connDone)

\* A torn-down connection's goroutines all finish, whatever they were waiting
\* for: runAgent's wg.Wait() returns and the agent reconnects.
TeardownCompletes == connDone ~> TornDown
=============================================================================
