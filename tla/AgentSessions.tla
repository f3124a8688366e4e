--------------------------- MODULE AgentSessions ----------------------------
(***************************************************************************)
(* The session bookkeeping of runAgent's main loop (cmd/scomp/main.go) on  *)
(* top of the catalog: which sessions are advertised, which are lazy, which*)
(* have a mode and which have a forwarder, while PTYs exit, scans run,     *)
(* clients attach and the connection is torn down and made again.          *)
(*                                                                         *)
(* The main loop is one goroutine: a handler that looks at a PTY twice is  *)
(* split into steps between which the PTY may exit.  A control message is  *)
(* applied to the relay's list as it is sent; the queue in between is the  *)
(* subject of AttachReplay.                                                *)
(***************************************************************************)
EXTENDS SessionCatalog

CONSTANTS MaxAttaches   \* bound: client_attach messages in a behaviour

ASSUME AgentAssumption == MaxAttaches \in Nat

VARIABLES
  lazyMap,     \* ids that an attach activates
  modes,       \* ids with an entry in the mode table
  forwarders,  \* the forwarder registered for each id: its PTY, or NoPty
  running,     \* forwarder goroutines: [id, pty] of those that have not exited
  sessionEnded,\* notifications of forwarders whose PTY ended
  main,        \* main loop: "loop", "advertise", "finish", "lazy" or "forward"
  mainId,      \* the session whose attach or advertisement is handled
  todo,        \* ids of the initial snapshot still to be advertised
  attaches,    \* client_attach messages so far (bound)
  unserved,    \* ids whose PTY was gone when startForwarder looked (history)
  relay        \* the relay's list: "absent", "inactive" or "active" for each id

agentVars == <<lazyMap, modes, forwarders, running, sessionEnded, main, mainId,
               todo, attaches, unserved, relay>>
vars == <<catalogVars, agentVars>>

Fw(id, pty) == [id |-> id, pty |-> pty]

\* The forwarder goroutine of id's current registration has exited.
Exited(id) == Fw(id, forwarders[id]) \notin running

-----------------------------------------------------------------------------
(* Start of a connection *)

\* snapshotAndSubscribe, with a fresh main loop about to advertise the result.
Connect ==
  /\ Subscribe
  /\ todo' = KnownIds
  /\ main' = "advertise"
  /\ UNCHANGED <<lazyMap, modes, forwarders, running, sessionEnded, mainId, attaches, unserved, relay>>

\* The initial loop, for a session without a running PTY.
AdvertiseLazy ==
  /\ main = "advertise"
  /\ \E id \in todo :
       /\ live[id] = NoPty
       /\ lazyMap' = lazyMap \cup {id}
       /\ relay' = [relay EXCEPT ![id] = "inactive"]
       /\ todo' = todo \ {id}
  /\ UNCHANGED <<catalogVars, modes, forwarders, running, sessionEnded, main, mainId, attaches, unserved>>

\* ... and for one whose PTY outlived the last connection.
AdvertiseActive ==
  /\ main = "advertise"
  /\ \E id \in todo :
       /\ live[id] # NoPty
       /\ mainId' = id
       /\ todo' = todo \ {id}
  /\ main' = "forward"
  /\ UNCHANGED <<catalogVars, lazyMap, modes, forwarders, running, sessionEnded, attaches, unserved, relay>>

AdvertiseDone ==
  /\ main = "advertise" /\ todo = {}
  /\ main' = "loop"
  /\ UNCHANGED <<catalogVars, lazyMap, modes, forwarders, running, sessionEnded, mainId, todo, attaches, unserved, relay>>

\* The mode is set, startForwarder looks the PTY up again, and the session is
\* advertised as active, from the initial loop or from an attach.
StartForwarder ==
  /\ main = "forward"
  /\ modes' = modes \cup {mainId}
  /\ IF live[mainId] # NoPty
       THEN /\ forwarders' = [forwarders EXCEPT ![mainId] = live[mainId]]
            /\ running' = running \cup {Fw(mainId, live[mainId])}
            /\ UNCHANGED unserved
       ELSE /\ unserved' = unserved \cup {mainId}
            /\ UNCHANGED <<forwarders, running>>
  /\ relay' = [relay EXCEPT ![mainId] = "active"]
  /\ lazyMap' = lazyMap \ {mainId}
  /\ main' = IF todo = {} THEN "loop" ELSE "advertise"
  /\ UNCHANGED <<catalogVars, sessionEnded, mainId, todo, attaches>>

-----------------------------------------------------------------------------
(* Session changes and ended sessions *)

\* Mutant of ForgetSession: the mode of a removed session is kept.
ForgetSessionKeepsMode(id) ==
  /\ lazyMap' = lazyMap \ {id}
  /\ UNCHANGED modes
  /\ relay' = [relay EXCEPT ![id] = "absent"]

\* case change := <-sessionChanges with a removeID.
ForgetSession(id) ==
  /\ lazyMap' = lazyMap \ {id}
  /\ modes' = modes \ {id}
  /\ relay' = [relay EXCEPT ![id] = "absent"]

\* ... and with a session to add.
ListSession(id) ==
  /\ lazyMap' = lazyMap \cup {id}
  /\ relay' = [relay EXCEPT ![id] = "inactive"]
  /\ UNCHANGED modes

SessionChange ==
  /\ main = "loop" /\ TakeChange
  /\ IF Head(changes).op = "add" THEN ListSession(Head(changes).id)
                                 ELSE ForgetSession(Head(changes).id)
  /\ UNCHANGED <<muxVars, scanVars, ptyVars, forwarders, running, sessionEnded, main, mainId, todo, attaches, unserved>>

\* Mutant of RestoreLazy: an ended session is re-advertised but not restored.
RestoreLazyListOnly(id) ==
  /\ relay' = [relay EXCEPT ![id] = IF id \in available THEN "inactive" ELSE "absent"]
  /\ UNCHANGED lazyMap

\* Mutant of RestoreLazy: whether the catalog still has the session is not asked.
RestoreLazyAlways(id) ==
  /\ relay' = [relay EXCEPT ![id] = "inactive"]
  /\ lazyMap' = lazyMap \cup {id}

\* session_remove, then restoreLazySession and a session_add when the catalog
\* still has the session.
RestoreLazy(id) ==
  /\ relay' = [relay EXCEPT ![id] = IF id \in available THEN "inactive" ELSE "absent"]
  /\ lazyMap' = IF id \in available THEN lazyMap \cup {id} ELSE lazyMap

\* finishSession once the forwarder has exited.
FinishSession(id) ==
  /\ forwarders' = [forwarders EXCEPT ![id] = NoPty]
  /\ modes' = modes \ {id}
  /\ RestoreLazy(id)

\* A notification whose forwarder is no longer the registered one.
IsStale(fw) == forwarders[fw.id] # fw.pty

\* case fw := <-sessionEnded.
SessionEnded ==
  /\ main = "loop" /\ sessionEnded # << >>
  /\ sessionEnded' = Tail(sessionEnded)
  /\ LET fw == Head(sessionEnded)
     IN  IF IsStale(fw) THEN UNCHANGED <<forwarders, modes, lazyMap, relay>>
                        ELSE FinishSession(fw.id)
  /\ UNCHANGED <<catalogVars, running, main, mainId, todo, attaches, unserved>>

-----------------------------------------------------------------------------
(* client_attach *)

\* finishIfEnded: is there a forwarder whose PTY has ended?
AttachGuard(id) ==
  IF forwarders[id] # NoPty /\ live[id] = NoPty THEN "finish" ELSE "lazy"

\* A client attaches to a session it has seen listed at some time.
Attach(id) ==
  /\ main = "loop" /\ Subscribed /\ attaches < MaxAttaches
  /\ id < nextId
  /\ attaches' = attaches + 1
  /\ mainId' = id
  /\ main' = AttachGuard(id)
  /\ UNCHANGED <<catalogVars, lazyMap, modes, forwarders, running, sessionEnded, todo, unserved, relay>>

\* finishIfEnded waits for the forwarder and retires the session, or gives up
\* when the connection is closing.
AttachFinish ==
  /\ main = "finish"
  /\ \/ Exited(mainId) /\ FinishSession(mainId)
     \/ conn = "closing" /\ UNCHANGED <<forwarders, modes, lazyMap, relay>>
  /\ main' = "lazy"
  /\ UNCHANGED <<catalogVars, running, sessionEnded, mainId, todo, attaches, unserved>>

\* The session is not lazy, or its PTY runs already: the snapshot is requested.
AttachExisting ==
  /\ main = "lazy"
  /\ mainId \notin lazyMap \/ live[mainId] # NoPty
  /\ lazyMap' = lazyMap \ {mainId}
  /\ main' = "loop"
  /\ UNCHANGED <<catalogVars, modes, forwarders, running, sessionEnded, mainId, todo, attaches, unserved, relay>>

\* ls.activate spawns the PTY.
AttachActivate ==
  /\ main = "lazy" /\ mainId \in lazyMap
  /\ Activate(mainId)
  /\ main' = "forward"
  /\ UNCHANGED <<muxVars, scanVars, subVars, lazyMap, modes, forwarders, running, sessionEnded, mainId, todo, attaches, unserved, relay>>

\* ls.activate fails: rejectAttach removes the session and lists it again.
AttachRejected ==
  /\ main = "lazy" /\ mainId \in lazyMap /\ live[mainId] = NoPty
  /\ relay' = [relay EXCEPT ![mainId] = "inactive"]
  /\ main' = "loop"
  /\ UNCHANGED <<catalogVars, lazyMap, modes, forwarders, running, sessionEnded, mainId, todo, attaches, unserved>>

-----------------------------------------------------------------------------
(* input and resize: handlers that change nothing but the terminal *)

\* --mode: every session of a catalog has the mode the agent was started with.
Policies == {"full", "approved-only", "readonly"}
approvedSequences ==
  ({"y", "n"} \X {"cr", "lf"}) \cup {<<"ctrl-c">>, <<"cr">>, <<"tab">>, <<"esc">>}

\* The mode table as the handlers read it: no entry is the empty mode.
Mode(id, policy) == IF id \in modes THEN policy ELSE ""

isApproved(data) == data \in approvedSequences
inputAllowed(mode, data) == mode = "full" \/ (mode = "approved-only" /\ isApproved(data))
resizeAllowed(mode) == mode \in {"full", "approved-only"}

\* The PTYs that an input message writes to, and those a resize message resizes.
InputTo(id, policy, data) ==
  {pty \in {live[id]} \ {NoPty} : inputAllowed(Mode(id, policy), data)}
ResizeTo(id, policy) ==
  {pty \in {live[id]} \ {NoPty} : resizeAllowed(Mode(id, policy))}

-----------------------------------------------------------------------------
(* Forwarder goroutines and the end of the connection *)

\* Mutant of ForwarderExit: the main loop is not told that the PTY ended.
ForwarderExitSilent ==
  /\ \E fw \in running :
       /\ running' = running \ {fw}
       /\ live[fw.id] # fw.pty \/ conn = "closing"
  /\ UNCHANGED <<catalogVars, lazyMap, modes, forwarders, sessionEnded, main, mainId, todo, attaches, unserved, relay>>

\* A forwarder sees its PTY end and notifies the main loop; or it sees connDone.
ForwarderExit ==
  /\ \E fw \in running :
       /\ running' = running \ {fw}
       /\ \/ live[fw.id] # fw.pty /\ sessionEnded' = Append(sessionEnded, fw)
          \/ conn = "closing" /\ UNCHANGED sessionEnded
  /\ UNCHANGED <<catalogVars, lazyMap, modes, forwarders, main, mainId, todo, attaches, unserved, relay>>

\* closeConnection, for any reason.
CloseConnection ==
  /\ conn = "up" /\ conn' = "closing"
  /\ UNCHANGED <<muxVars, scanVars, ptyVars, conns, changes, dropped, available, agentVars>>

\* runAgent returns after wg.Wait(); its maps go with it, and the relay drops
\* the agent's sessions.
Return ==
  /\ conn = "closing" /\ main = "loop" /\ running = {}
  /\ Unsubscribe
  /\ lazyMap' = {} /\ modes' = {} /\ sessionEnded' = << >>
  /\ forwarders' = [id \in Ids |-> NoPty] /\ unserved' = {}
  /\ relay' = [id \in Ids |-> "absent"]
  /\ UNCHANGED <<muxVars, scanVars, ptyVars, running, main, mainId, todo, attaches>>

-----------------------------------------------------------------------------

Init ==
  /\ CatalogInit
  /\ lazyMap = {} /\ modes = {} /\ running = {} /\ sessionEnded = << >>
  /\ forwarders = [id \in Ids |-> NoPty]
  /\ main = "loop" /\ mainId = NoId /\ todo = {}
  /\ attaches = 0 /\ unserved = {}
  /\ relay = [id \in Ids |-> "absent"]

Outside == (Environment \/ Scanning \/ Dial) /\ UNCHANGED agentVars
MainStep ==
  \/ AdvertiseLazy \/ AdvertiseActive \/ AdvertiseDone \/ StartForwarder
  \/ SessionChange \/ SessionEnded
  \/ AttachFinish \/ AttachExisting \/ AttachActivate \/ AttachRejected
  \/ Return

Next ==
  \/ Outside \/ Connect \/ MainStep \/ ForwarderExit \/ CloseConnection
  \/ \E id \in Ids : Attach(id)

Spec == Init /\ [][Next]_vars

\* The main loop, the forwarders and the watcher keep running.
Fairness ==
  /\ WF_vars(MainStep) /\ WF_vars(ForwarderExit) /\ WF_vars(Connect)
  /\ \A s \in Scanners : WF_vars(ScanStep(s) /\ UNCHANGED agentVars)

FairSpec == Spec /\ Fairness

-----------------------------------------------------------------------------
(* Properties *)

TypeOK ==
  /\ CatalogTypeOK
  /\ lazyMap \subseteq Ids /\ modes \subseteq Ids /\ todo \subseteq Ids /\ unserved \subseteq Ids
  /\ forwarders \in [Ids -> 0..MaxSpawns]
  /\ running \subseteq [id : Ids, pty : 1..MaxSpawns]
  /\ sessionEnded \in Seq([id : Ids, pty : 1..MaxSpawns])
  /\ main \in {"loop", "advertise", "finish", "lazy", "forward"}
  /\ mainId \in Ids \cup {NoId} /\ attaches \in 0..MaxAttaches
  /\ relay \in [Ids -> {"absent", "inactive", "active"}]

\* Messages of clients: answers, and answers with more or less than an answer.
Answers == {<<"y", "cr">>, <<"n", "lf">>, <<"cr">>, <<"tab">>, <<"esc">>, <<"ctrl-c">>}
Messages ==
  Answers \cup {<< >>, <<"y">>, <<"y", "cr", "cr">>, <<"cr", "y">>, <<"esc", "[", "A">>}

\* Remote input and resizes reach exactly the running PTYs of sessions that the
\* relay has as active, and never under readonly; approved-only lets whole
\* answers through and nothing that only begins or ends with one.  A session that was
\* removed, has ended or was never opened finds no mode, although its PTY may
\* run (handleServerMsg).
InputConfined ==
  (Subscribed /\ main = "loop") =>
    \A id \in Ids, policy \in Policies :
      LET open == IF relay[id] = "active" THEN {live[id]} \ {NoPty} ELSE {}
          through(data) == policy = "full" \/ (policy = "approved-only" /\ data \in Answers)
      IN  /\ ResizeTo(id, policy) = IF policy = "readonly" THEN {} ELSE open
          /\ \A data \in Messages :
               InputTo(id, policy, data) = IF through(data) THEN open ELSE {}

Listed == {id \in Ids : relay[id] # "absent"}

\* With nothing in flight the relay lists exactly the catalog: duplicated and
\* late removals, retired and rejected sessions leave neither a ghost nor a
\* hole, unless the change channel overflowed.
ListingMatchesCatalog ==
  (conn = "up" /\ main = "loop" /\ changes = << >> /\ ~dropped) => Listed = KnownIds

\* Every session the main loop has in its catalog can be opened: an attach
\* finds its lazy entry or its forwarder.
Attachable(id) == id \in lazyMap \/ forwarders[id] # NoPty

\* It stays so through exits, retirements and reconnects, for every session
\* whose forwarder found its PTY running.
ServedStaysAttachable ==
  (conn = "up" /\ main = "loop") =>
    \A id \in available \ unserved : Attachable(id)

\* A session whose PTY ended does not stay listed as active while the
\* connection lasts: its forwarder's notification retires it.
EndedIsRetired ==
  \A id \in Ids :
    (relay[id] = "active" /\ live[id] = NoPty)
      ~> (relay[id] # "active" \/ live[id] # NoPty \/ id \in unserved \/ conn # "up")

\* finishSession's comment: a session that ends stays attachable as long as the
\* catalog has it.
StaysAttachable ==
  (conn = "up" /\ main = "loop") => \A id \in available : Attachable(id)
=============================================================================
