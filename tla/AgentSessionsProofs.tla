------------------------ MODULE AgentSessionsProofs -------------------------
(***************************************************************************)
(* The main loop's maps, the relay's list and the catalog stay in step:    *)
(* input is confined, the listing is exact and served sessions can be      *)
(* opened again, for any number of sessions, PTYs, connections, attaches.  *)
(***************************************************************************)
EXTENDS AgentSessions, SessionCatalogProofs

Fws == [id : Ids, pty : 1..MaxSpawns]

AgentType ==
  /\ lazyMap \subseteq Ids /\ modes \subseteq Ids /\ todo \subseteq Ids /\ unserved \subseteq Ids
  /\ forwarders \in [Ids -> 0..MaxSpawns]
  /\ running \subseteq Fws /\ sessionEnded \in Seq(Fws)
  /\ main \in {"loop", "advertise", "finish", "lazy", "forward"}
  /\ mainId \in Ids \cup {NoId} /\ attaches \in 0..MaxAttaches
  /\ relay \in [Ids -> {"absent", "inactive", "active"}]

\* The session that startForwarder is about to be called for.
InHand == IF main = "forward" THEN {mainId} ELSE {}

\* Where the main loop is, and that runAgent's maps do not outlive it.
Phase ==
  /\ main \in {"finish", "lazy", "forward"} => mainId \in Ids
  /\ main \notin {"advertise", "forward"} => todo = {}
  /\ main = "forward" => mainId \notin todo
  /\ ~Subscribed => /\ main = "loop" /\ lazyMap = {} /\ modes = {} /\ unserved = {}
                    /\ forwarders = [id \in Ids |-> NoPty]
                    /\ running = {} /\ sessionEnded = << >>
                    /\ changes = << >> /\ available = {}
                    /\ relay = [id \in Ids |-> "absent"]

\* The relay lists what the loop takes to be available, except what it has yet
\* to advertise; it has as active exactly the sessions with a mode.
Placed ==
  /\ available = Listed \cup todo \cup InHand
  /\ lazyMap \subseteq available
  /\ modes = {id \in Ids : relay[id] = "active"}
  /\ lazyMap \cap modes = {} /\ todo \cap modes = {}

\* Ids are taken in order: an add is the first change of its session.
Pending ==
  /\ \A id \in available : id < nextId
  /\ \A id \in Ids : id >= nextId => live[id] = NoPty
  /\ \A i \in 1..Len(changes) :
       /\ changes[i].id < nextId
       /\ changes[i].op = "add" =>
            /\ changes[i].id \notin available /\ live[changes[i].id] = NoPty
            /\ \A j \in 1..Len(changes) : j < i => changes[j].id # changes[i].id

\* Changes in the channel, by kind.
Queued(op) == {id \in Ids : \E i \in 1..Len(changes) : changes[i] = Change(op, id)}

\* No connection's own scan runs while it is subscribed; what the watcher's
\* scans did to the catalog since is in the channel.
Tracked ==
  /\ conn # "refresh" => scans["conn"].pc = "idle"
  /\ Subscribed /\ ~dropped => KnownIds = (available \cup Queued("add")) \ Queued("remove")

\* The PTYs that lazy entries, forwarders and notifications stand for.
Current ==
  /\ \A id \in Ids : live[id] <= spawned
  /\ \A id \in Ids \ InHand :
       /\ id \in lazyMap => live[id] = NoPty
       /\ forwarders[id] # NoPty => live[id] \in {NoPty, forwarders[id]}
  /\ \A fw \in running : fw.pty <= spawned
  /\ \A i \in 1..Len(sessionEnded) :
       sessionEnded[i].pty <= spawned /\ live[sessionEnded[i].id] # sessionEnded[i].pty
  /\ main = "finish" => live[mainId] = NoPty

Served ==
  \A id \in available \ unserved :
    id \in lazyMap \/ forwarders[id] # NoPty \/ id \in todo \/ id \in InHand

\* The inductive invariant, with that of the catalog.
AgentInv ==
  AgentType /\ Phase /\ Placed /\ Pending /\ Tracked /\ Current /\ Served

-----------------------------------------------------------------------------
(* The catalog under the main loop *)

\* A step that leaves the catalog alone keeps its invariant.
LEMMA CatalogKept == ASSUME CatalogInv, UNCHANGED catalogVars PROVE CatalogInv'
<1>1. ScanInv'
  BY ScanInvKept DEF CatalogInv, catalogVars, muxVars
<1> QED BY <1>1 DEF CatalogInv, RestType, RemovedPtyCloses, KnownIds, catalogVars, muxVars, scanVars,
                    ptyVars, subVars

\* Every step of the agent keeps the invariant of the catalog.
LEMMA AgentKeepsCatalog == ASSUME CatalogInv, AgentInv, Next PROVE CatalogInv'
<1>1. CASE Outside \/ Connect
  <2>1. ScanInv'
    BY <1>1, ScanInvStep DEF Outside, Connect, CatalogNext, Subscriber, CatalogInv
  <2>2. RestType' /\ RemovedPtyCloses'
    BY <1>1, <2>1, ScanStepRest, OtherRest DEF Outside, Connect, Scanning
  <2> QED BY <2>1, <2>2 DEF CatalogInv
<1>2. CASE SessionChange
  <2>1. ScanInv'
    BY <1>2, ScanInvKept DEF SessionChange, CatalogInv, muxVars
  <2> QED BY <1>2, <2>1, OtherRest DEF SessionChange, CatalogInv
<1>3. CASE AttachActivate
  <2>1. ScanInv'
    BY <1>3, ScanInvKept DEF AttachActivate, CatalogInv, muxVars
  <2> QED BY <1>3, <2>1, ActivateRest DEF AttachActivate, CatalogInv, AgentInv, AgentType
<1>4. CASE Return
  <2>1. ScanInv'
    BY <1>4, ScanInvKept DEF Return, CatalogInv, muxVars
  <2> QED BY <1>4, <2>1, OtherRest DEF Return, CatalogInv
<1>5. CASE CloseConnection
  <2>1. ScanInv'
    BY <1>5, ScanInvKept DEF CloseConnection, CatalogInv, muxVars
  <2> QED BY <1>5, <2>1
          DEF CloseConnection, CatalogInv, RestType, RemovedPtyCloses, KnownIds, muxVars, scanVars,
              ptyVars
<1>6. ASSUME UNCHANGED catalogVars PROVE CatalogInv'
  BY <1>6, CatalogKept
<1> QED BY <1>1, <1>2, <1>3, <1>4, <1>5, <1>6
        DEF Next, MainStep, AdvertiseLazy, AdvertiseActive, AdvertiseDone, StartForwarder,
            SessionEnded, AttachFinish, AttachExisting, AttachRejected, ForwarderExit, Attach

-----------------------------------------------------------------------------
(* Steps of the catalog *)

\* What the environment and the scans leave to the main loop: PTYs only end,
\* ids only advance and nothing is queued for a connection that is down.
LEMMA OutsideSteps ==
  ASSUME CatalogInv, CatalogInv', Outside
  PROVE  /\ \A id \in Ids : live'[id] \in {NoPty, live[id]}
         /\ spawned' = spawned /\ available' = available /\ UNCHANGED agentVars
         /\ (Subscribed' <=> Subscribed)
         /\ ~Subscribed => changes' = changes
<1>1. ASSUME NEW s \in Scanners, ScanApply(s) PROVE ~Subscribed => changes' = changes
  BY <1>1, ScanApplyPublishes DEF CatalogInv, RestType
<1>2. live \in [Ids -> 0..MaxSpawns]
  BY DEF CatalogInv, RestType
<1>3. \A id \in Ids : live'[id] \in {NoPty, live[id]}
  BY <1>2 DEF Outside, Environment, Scanning, ScanStep, MuxChange, PtyExit, ScanList, ScanApply,
              ScanClose, ScanReturn, Dial, ptyVars
<1>4. spawned' = spawned /\ available' = available /\ UNCHANGED agentVars
  BY DEF Outside, Environment, Scanning, ScanStep, MuxChange, PtyExit, ScanList, ScanApply,
         ScanClose, ScanReturn, Dial, ptyVars, subVars
<1>5. (Subscribed' <=> Subscribed)
  BY DEF Outside, Environment, Scanning, ScanStep, MuxChange, PtyExit, ScanList, ScanApply,
         ScanClose, ScanReturn, Dial, subVars, Subscribed
<1>6. ~Subscribed => changes' = changes
  BY <1>1 DEF Outside, Environment, Scanning, ScanStep, MuxChange, PtyExit, ScanList,
         ScanClose, ScanReturn, Dial, subVars
<1> QED BY <1>3, <1>4, <1>5, <1>6

\* Notifications name an id and a PTY.
LEMMA EndedTyped ==
  ASSUME AgentType
  PROVE  \A i \in 1..Len(sessionEnded) :
           /\ sessionEnded[i] \in Fws /\ sessionEnded[i].id \in Ids
           /\ sessionEnded[i].pty \in Nat \ {0}
<1> SUFFICES ASSUME NEW i \in 1..Len(sessionEnded)
             PROVE  /\ sessionEnded[i] \in Fws /\ sessionEnded[i].id \in Ids
                    /\ sessionEnded[i].pty \in Nat \ {0}
  OBVIOUS
<1>1. sessionEnded \in Seq(Fws)
  BY DEF AgentType
<1>2. sessionEnded[i] \in Fws
  BY <1>1
<1> QED BY <1>2 DEF Fws

\* The main loop's state is its own: what happens outside of it ends PTYs only.
LEMMA OutsideKeepsMain ==
  ASSUME CatalogInv, CatalogInv', AgentInv, Outside
  PROVE  AgentType' /\ Phase' /\ Placed' /\ Current' /\ Served'
<1>1. AgentType'
  BY OutsideSteps DEF AgentInv, AgentType, agentVars
<1>2. Phase'
  BY OutsideSteps DEF AgentInv, Phase, agentVars
<1>3. Placed'
  BY OutsideSteps DEF AgentInv, Placed, Listed, InHand, agentVars
<1>4. Current'
  <2>1. NoPty <= spawned /\ live \in [Ids -> 0..MaxSpawns]
    BY DEF CatalogInv, RestType, NoPty
  <2>2. \A id \in Ids : live'[id] <= spawned'
    BY <2>1, OutsideSteps DEF AgentInv, Current
  <2>3. \A i \in 1..Len(sessionEnded) :
          sessionEnded[i].id \in Ids /\ sessionEnded[i].pty # NoPty
    BY EndedTyped DEF AgentInv, NoPty
  <2>4. /\ UNCHANGED <<main, mainId, lazyMap, forwarders, running, sessionEnded, spawned>>
        /\ InHand' = InHand /\ \A id \in Ids : live'[id] \in {NoPty, live[id]}
    BY OutsideSteps DEF agentVars, InHand
  <2>5. \A id \in Ids \ InHand' :
          /\ id \in lazyMap' => live'[id] = NoPty
          /\ forwarders'[id] # NoPty => live'[id] \in {NoPty, forwarders'[id]}
    BY <2>4 DEF AgentInv, Current
  <2>6. \A i \in 1..Len(sessionEnded') :
          sessionEnded'[i].pty <= spawned' /\ live'[sessionEnded'[i].id] # sessionEnded'[i].pty
    BY <2>3, <2>4 DEF AgentInv, Current
  <2>7. main' = "finish" => live'[mainId'] = NoPty
    BY <2>4 DEF AgentInv, Phase, Current
  <2> QED BY <2>2, <2>4, <2>5, <2>6, <2>7 DEF AgentInv, Current
<1>5. Served'
  BY OutsideSteps DEF AgentInv, Served, InHand, agentVars
<1> QED BY <1>1, <1>2, <1>3, <1>4, <1>5

\* An id that is in use was issued.
LEMMA UsedIds ==
  ASSUME CatalogInv, AgentInv
  PROVE  /\ Ids \subseteq Nat /\ nextId \in Nat /\ KnownIds \subseteq Ids
         /\ \A id \in KnownIds : id < nextId
         /\ changes \in Seq(ChangeSet)
         /\ \A i \in 1..Len(changes) : changes[i] \in ChangeSet /\ changes[i].id \in Ids
<1>1. IdsUsed
  BY IdsInRange DEF CatalogInv
<1>2. changes \in Seq(ChangeSet)
  BY DEF CatalogInv, RestType
<1>3. Ids \subseteq Nat
  BY DEF Ids
<1>4. ASSUME NEW i \in 1..Len(changes) PROVE changes[i] \in ChangeSet /\ changes[i].id \in Ids
  <2>1. changes[i] \in ChangeSet
    BY <1>2
  <2> QED BY <2>1 DEF ChangeSet
<1>5. nextId \in Nat /\ KnownIds \subseteq Ids /\ \A id \in KnownIds : id < nextId
  BY <1>1 DEF IdsUsed, CatalogInv, ScanInv, ScanType, IdsFresh, KnownIds
<1> QED BY <1>2, <1>3, <1>4, <1>5

\* A scan's changes reach the channel behind those that wait there.
LEMMA ApplyKeepsChannel ==
  ASSUME CatalogInv, CatalogInv', AgentInv, NEW s \in Scanners, ScanApply(s)
  PROVE  Pending' /\ Tracked'
<1> DEFINE old == 1..Len(changes)
           added == (Len(changes) + 1)..Len(changes')
<1>1. /\ changes' \in Seq(ChangeSet) /\ Len(changes) <= Len(changes')
      /\ \A i \in old : changes'[i] = changes[i]
      /\ \A i \in added : Made(changes'[i])
      /\ \A i, j \in added : changes'[i].id = changes'[j].id => i = j
      /\ s = "watch" /\ Subscribed /\ ~dropped' =>
           \A c \in ChangeSet : Made(c) => \E i \in added : changes'[i] = c
      /\ dropped => dropped'
      /\ ~(s = "watch" /\ Subscribed) => UNCHANGED <<changes, dropped>>
  BY ScanApplyPublishes DEF CatalogInv, RestType
<1>2. /\ \A id \in KnownIds' \ KnownIds : id >= nextId /\ id < nextId'
      /\ \A k \in Keys : nextId <= nextId'
  BY ScanApplyRemoves DEF CatalogInv
<1>3. nextId <= nextId' /\ nextId' \in Nat
  <2>1. nextId' = nextId + Cardinality(scans[s].list \ KnownKeys)
        /\ Cardinality(scans[s].list \ KnownKeys) \in Nat
    BY ScanApplies DEF CatalogInv
  <2> QED BY <2>1, UsedIds
<1>4. UNCHANGED <<live, available, conn>> /\ scans[s].pc = "listed"
  BY DEF ScanApply, ptyVars
<1>5. \A i \in 1..Len(changes') : i \in old \/ i \in added
  BY <1>1, UsedIds
<1>6. Pending'
  <2>1. \A id \in available' : id < nextId'
    BY <1>3, <1>4, UsedIds, SMTT(20) DEF AgentInv, Pending, CatalogInv, RestType
  <2>2. \A id \in Ids : id >= nextId' => live'[id] = NoPty
    BY <1>3, <1>4, UsedIds DEF AgentInv, Pending
  <2>3. ASSUME NEW i \in 1..Len(changes')
        PROVE  /\ changes'[i].id < nextId'
               /\ changes'[i].op = "add" =>
                    /\ changes'[i].id \notin available' /\ live'[changes'[i].id] = NoPty
                    /\ \A j \in 1..Len(changes') : j < i => changes'[j].id # changes'[i].id
    <3>1. CASE i \in old
      <4>1. \A j \in 1..Len(changes') : j < i => j \in old
        BY <1>1, <3>1
      <4>2. changes'[i] = changes[i] /\ changes[i].id \in Ids /\ changes[i].id < nextId
        BY <1>1, <3>1, UsedIds DEF AgentInv, Pending
      <4>3. \A j \in 1..Len(changes') : j < i => changes'[j] = changes[j]
        BY <1>1, <4>1
      <4> QED BY <1>3, <1>4, <3>1, <4>1, <4>2, <4>3, UsedIds DEF AgentInv, Pending
    <3>2. CASE i \in added /\ changes'[i].op = "add"
      <4>0. changes'[i] \in ChangeSet
        BY <1>1
      <4>1. changes'[i].id >= nextId /\ changes'[i].id < nextId' /\ changes'[i].id \in Ids
        BY <1>1, <1>2, <3>2, <4>0 DEF Made, ChangeSet
      <4>2. changes'[i].id \notin available
        BY <4>1, UsedIds DEF AgentInv, Pending
      <4>3. \A j \in 1..Len(changes') : j < i => changes'[j].id # changes'[i].id
        <5> SUFFICES ASSUME NEW j \in 1..Len(changes'), j < i PROVE changes'[j].id # changes'[i].id
          OBVIOUS
        <5>1. CASE j \in added
          BY <1>1, <3>2, <5>1
        <5>2. CASE j \in old
          <6>1. changes'[j].id = changes[j].id /\ changes[j].id < nextId /\ changes[j].id \in Nat
            BY <1>1, <5>2, UsedIds DEF AgentInv, Pending
          <6> QED BY <4>1, <6>1, UsedIds
        <5> QED BY <1>5, <5>1, <5>2
      <4> QED BY <1>4, <4>1, <4>2, <4>3 DEF AgentInv, Pending
    <3>3. CASE i \in added /\ changes'[i].op # "add"
      <4>1. changes'[i].id \in KnownIds
        BY <1>1, <3>3 DEF Made
      <4> QED BY <1>3, <3>3, <4>1, UsedIds
    <3> QED BY <1>5, <3>1, <3>2, <3>3
  <2> QED BY <2>1, <2>2, <2>3 DEF Pending
<1>7. Tracked'
  <2>1. conn' # "refresh" => scans'["conn"].pc = "idle"
    BY <1>4 DEF ScanApply, AgentInv, Tracked, CatalogInv, ScanInv, ScanType, Scanners
  <2>2. ASSUME Subscribed', ~dropped'
        PROVE  KnownIds' = (available' \cup Queued("add")') \ Queued("remove")'
    <3>1. s = "watch" /\ Subscribed /\ ~dropped
      BY <1>1, <1>4, <2>2 DEF AgentInv, Tracked, Scanners, Subscribed
    <3>2. KnownIds = (available \cup Queued("add")) \ Queued("remove")
      BY <3>1 DEF AgentInv, Tracked
    <3>3. \A i \in old : i \in 1..Len(changes') /\ changes'[i] = changes[i]
      BY <1>1, UsedIds
    <3>4. \A i \in added : i \in 1..Len(changes')
      BY UsedIds
    <3>5. ASSUME NEW op \in {"add", "remove"}, NEW id \in Ids
          PROVE  id \in Queued(op)' <=> id \in Queued(op) \/ Made(Change(op, id))
      <4>1. Change(op, id) \in ChangeSet
        BY DEF Change, ChangeSet
      <4>2. Made(Change(op, id)) => \E i \in added : changes'[i] = Change(op, id)
        BY <1>1, <2>2, <3>1, <4>1
      <4> QED BY <1>1, <1>5, <3>3, <3>4, <4>2 DEF Queued
    <3>6. \A id \in Ids : /\ Made(Change("add", id)) <=> id \in KnownIds' \ KnownIds
                          /\ Made(Change("remove", id)) <=> id \in KnownIds \ KnownIds'
      BY DEF Made, Change
    <3>7. \A id \in Queued("remove") : id < nextId
      BY DEF Queued, Change, AgentInv, Pending
    <3>8. KnownIds' \subseteq Ids /\ available \subseteq Ids
      <4>1. ScanInv' => IdsUsed'
        BY IdsInRange, PTL
      <4> QED BY <4>1 DEF CatalogInv, RestType, IdsUsed, KnownIds
    <3>9. Queued("add") \subseteq Ids /\ Queued("remove") \subseteq Ids
          /\ Queued("add")' \subseteq Ids /\ available' = available
      BY <1>4 DEF Queued, ScanApply, subVars
    <3>10. ASSUME NEW id \in Ids
           PROVE  id \in KnownIds' <=> id \in (available' \cup Queued("add")') \ Queued("remove")'
      <4>1. /\ id \in Queued("add")' <=> id \in Queued("add") \/ id \in KnownIds' \ KnownIds
            /\ id \in Queued("remove")' <=> id \in Queued("remove") \/ id \in KnownIds \ KnownIds'
        BY <3>5, <3>6
      <4>2. id \in KnownIds' \ KnownIds => id \notin Queued("remove")
        BY <1>2, <3>7, UsedIds
      <4>3. id \in KnownIds <=> (id \in available \/ id \in Queued("add")) /\ id \notin Queued("remove")
        BY <3>2
      <4> QED BY <3>9, <4>1, <4>2, <4>3
    <3> QED BY <3>8, <3>9, <3>10
  <2> QED BY <2>1, <2>2 DEF Tracked
<1> QED BY <1>6, <1>7

\* The channel under steps that are no scan's critical section.
LEMMA QuietKeepsChannel ==
  ASSUME CatalogInv, CatalogInv', AgentInv,
         UNCHANGED <<known, nextId, changes, dropped, available>>,
         \A id \in Ids : live'[id] \in {NoPty, live[id]},
         Subscribed' => Subscribed,
         conn' # "refresh" => scans'["conn"].pc = "idle"
  PROVE  Pending' /\ Tracked'
<1>1. Pending'
  BY UsedIds DEF AgentInv, Pending
<1>2. KnownIds' = KnownIds /\ \A op : Queued(op)' = Queued(op)
  BY DEF KnownIds, Queued
<1> QED BY <1>1, <1>2 DEF AgentInv, Tracked

\* The channel under what happens outside of the main loop.
LEMMA OutsideKeepsChannel ==
  ASSUME CatalogInv, CatalogInv', AgentInv, Outside
  PROVE  Pending' /\ Tracked'
<1>1. /\ scans \in [Scanners -> [pc : {"idle", "listed", "close", "done"},
                                 list : SUBSET Keys, removed : SUBSET Nat]]
      /\ conn # "refresh" => scans["conn"].pc = "idle"
  BY DEF CatalogInv, ScanInv, ScanType, AgentInv, Tracked
<1>2. ASSUME NEW s \in Scanners, ScanList(s) \/ ScanClose(s) \/ ScanReturn(s)
      PROVE  /\ UNCHANGED <<known, nextId, changes, dropped, available, conn>>
             /\ conn' # "refresh" => scans'["conn"].pc = "idle"
  BY <1>1, <1>2 DEF ScanList, ScanMayBegin, ScanClose, ScanReturn, Scanners, subVars
<1>3. ASSUME Environment \/ Dial
      PROVE  /\ UNCHANGED <<known, nextId, changes, dropped, available>>
             /\ conn' # "refresh" => scans'["conn"].pc = "idle"
  BY <1>1, <1>3 DEF Environment, MuxChange, PtyExit, Dial, scanVars, subVars
<1>4. CASE \E s \in Scanners : ScanApply(s)
  BY <1>4, ApplyKeepsChannel
<1> QED BY <1>2, <1>3, <1>4, OutsideSteps, QuietKeepsChannel DEF Outside, Scanning, ScanStep

\* The main loop takes the first change.
LEMMA TakeKeepsChannel ==
  ASSUME CatalogInv, AgentInv, TakeChange, UNCHANGED <<muxVars, scanVars, ptyVars>>
  PROVE  Pending' /\ Tracked'
<1> DEFINE n == Len(changes)
           c == changes[1]
<1>1. changes \in Seq(ChangeSet) /\ changes # << >>
  BY UsedIds DEF TakeChange
<1>2. n \in Nat /\ n >= 1 /\ Head(changes) = c /\ c \in ChangeSet
  BY <1>1
<1>3. changes' = Tail(changes) /\ Len(changes') = n - 1
      /\ \A i \in 1..(n - 1) : changes'[i] = changes[i + 1]
  BY <1>1 DEF TakeChange
<1>4. available' = IF c.op = "add" THEN available \cup {c.id} ELSE available \ {c.id}
  BY <1>2 DEF TakeChange
<1>5. UNCHANGED <<known, nextId, scans, live, conn, dropped>>
  BY DEF TakeChange, scanVars, ptyVars
<1>6. /\ c.id < nextId
      /\ \A i \in 2..n : changes[i].op = "add" => changes[i].id # c.id
  <2>1. 1 \in 1..n /\ \A i \in 2..n : i \in 1..n /\ 1 < i
    BY <1>2
  <2> QED BY <2>1 DEF AgentInv, Pending
<1>7. Pending'
  <2>1. \A i \in 1..(n - 1) : i + 1 \in 1..n /\ i + 1 \in 2..n
    BY <1>2
  <2>2. \A id \in available' : id < nextId'
    BY <1>4, <1>5, <1>6 DEF AgentInv, Pending
  <2>3. ASSUME NEW i \in 1..(n - 1)
        PROVE  /\ changes'[i].id < nextId'
               /\ changes'[i].op = "add" =>
                    /\ changes'[i].id \notin available' /\ live'[changes'[i].id] = NoPty
                    /\ \A j \in 1..(n - 1) : j < i => changes'[j].id # changes'[i].id
    <3>1. \A j \in 1..(n - 1) : j < i => changes'[j] = changes[j + 1] /\ j + 1 < i + 1
      BY <1>2, <1>3
    <3> QED BY <1>3, <1>4, <1>5, <1>6, <2>1, <3>1 DEF AgentInv, Pending
  <2> QED BY <1>3, <1>5, <2>2, <2>3 DEF AgentInv, Pending
<1>8. Tracked'
  <2>1. KnownIds' = KnownIds
    BY <1>5 DEF KnownIds
  <2>2. \A id \in Ids, op \in {"add", "remove"} :
          id \in Queued(op) <=> id \in Queued(op)' \/ c = Change(op, id)
    <3> SUFFICES ASSUME NEW id \in Ids, NEW op \in {"add", "remove"}
                 PROVE  id \in Queued(op) <=> id \in Queued(op)' \/ c = Change(op, id)
      OBVIOUS
    <3>1. \A i \in 1..n : i = 1 \/ (i - 1 \in 1..(n - 1) /\ changes'[i - 1] = changes[i])
      BY <1>2, <1>3
    <3>2. 1 \in 1..n /\ \A i \in 1..(n - 1) : i + 1 \in 1..n
      BY <1>2
    <3> QED BY <1>3, <3>1, <3>2 DEF Queued
  <2>3. c.id \notin Queued("add")'
    <3>1. \A i \in 1..(n - 1) : i + 1 \in 2..n
      BY <1>2
    <3> QED BY <1>3, <1>6, <3>1 DEF Queued, Change
  <2>4. \A id \in Ids, op \in {"add", "remove"} : c = Change(op, id) <=> c.op = op /\ c.id = id
    BY <1>2 DEF Change, ChangeSet
  <2>5. c.op \in {"add", "remove"} /\ c.id \in Ids /\ available \subseteq Ids
    BY <1>2 DEF ChangeSet, CatalogInv, RestType
  <2>6. Subscribed /\ ~dropped => KnownIds = (available' \cup Queued("add")') \ Queued("remove")'
    BY <1>4, <2>2, <2>3, <2>4, <2>5 DEF AgentInv, Tracked, Queued
  <2> QED BY <1>5, <2>1, <2>6 DEF AgentInv, Tracked, Subscribed
<1> QED BY <1>7, <1>8

\* The channel under the steps of the main loop and the connection.
LEMMA MainKeepsChannel ==
  ASSUME CatalogInv, CatalogInv', AgentInv, Next, ~Outside
  PROVE  Pending' /\ Tracked'
<1>1. CASE Connect
  <2>1. /\ changes' = << >> /\ available' = KnownIds /\ conn' = "up"
        /\ UNCHANGED <<known, nextId, live>>
        /\ scans' = [scans EXCEPT !["conn"] = IdleScan]
    BY <1>1 DEF Connect, Subscribe, ptyVars
  <2>2. scans'["conn"].pc = "idle"
    BY <2>1 DEF CatalogInv, ScanInv, ScanType, Scanners, IdleScan
  <2>3. Len(changes') = 0 /\ \A op : Queued(op)' = {}
    BY <2>1 DEF Queued
  <2>4. KnownIds' = KnownIds
    BY <2>1 DEF KnownIds
  <2> QED BY <2>1, <2>2, <2>3, <2>4, UsedIds DEF AgentInv, Pending, Tracked
<1>2. CASE SessionChange
  BY <1>2, TakeKeepsChannel DEF SessionChange
<1>3. CASE AttachActivate
  <2>1. mainId \in available /\ mainId \in Ids
    BY <1>3 DEF AttachActivate, AgentInv, Placed, AgentType
  <2>2. /\ live' = [live EXCEPT ![mainId] = spawned + 1]
        /\ UNCHANGED <<known, nextId, scans, conn, changes, dropped, available>>
    BY <1>3 DEF AttachActivate, Activate, scanVars, subVars
  <2>3. \A id \in Ids : id # mainId => live'[id] = live[id]
    BY <2>2 DEF CatalogInv, RestType
  <2>4. mainId < nextId
    BY <2>1 DEF AgentInv, Pending
  <2>5. Pending'
    BY <2>1, <2>2, <2>3, <2>4, UsedIds DEF AgentInv, Pending
  <2>6. KnownIds' = KnownIds /\ \A op : Queued(op)' = Queued(op)
    BY <2>2 DEF KnownIds, Queued
  <2> QED BY <2>2, <2>5, <2>6 DEF AgentInv, Tracked, Subscribed
<1>4. CASE Return
  <2>1. /\ changes' = << >> /\ available' = {} /\ conn' = "down" /\ conn = "closing"
        /\ UNCHANGED <<nextId, live, scans>>
    BY <1>4 DEF Return, Unsubscribe, scanVars, ptyVars
  <2>2. Len(changes') = 0
    BY <2>1
  <2> QED BY <2>1, <2>2 DEF AgentInv, Pending, Tracked, Subscribed
<1>5. CASE CloseConnection
  <2>1. /\ UNCHANGED <<known, nextId, scans, changes, dropped, available, live>>
        /\ conn = "up" /\ conn' = "closing"
    BY <1>5 DEF CloseConnection, scanVars, ptyVars
  <2> QED BY <2>1, QuietKeepsChannel DEF AgentInv, Tracked, Subscribed
<1>6. ASSUME UNCHANGED catalogVars PROVE Pending' /\ Tracked'
  BY <1>6, QuietKeepsChannel
  DEF AgentInv, Tracked, Subscribed, catalogVars, scanVars, ptyVars, subVars
<1> QED BY <1>1, <1>2, <1>3, <1>4, <1>5, <1>6
        DEF Next, MainStep, AdvertiseLazy, AdvertiseActive, AdvertiseDone, StartForwarder,
            SessionEnded, AttachFinish, AttachExisting, AttachRejected, ForwarderExit, Attach

-----------------------------------------------------------------------------
(* Steps of the main loop *)

MainInv == AgentType /\ Phase /\ Placed /\ Current /\ Served

\* The types that every step of the main loop needs.
LEMMA MainTypes ==
  ASSUME CatalogInv
  PROVE  /\ live \in [Ids -> 0..MaxSpawns] /\ spawned \in 0..MaxSpawns /\ available \subseteq Ids
         /\ MaxSpawns \in Nat /\ MaxAttaches \in Nat /\ NoId \notin Ids /\ 0 \in 0..MaxSpawns
BY CatalogAssumption, AgentAssumption DEF CatalogInv, RestType, Ids, NoId

\* A new connection starts with empty maps and the whole catalog to advertise.
LEMMA ConnectKeeps ==
  ASSUME CatalogInv, CatalogInv', AgentInv, Connect
  PROVE  MainInv'
<1>1. /\ ~Subscribed /\ available' = KnownIds /\ todo' = KnownIds /\ main' = "advertise"
      /\ conn' = "up" /\ UNCHANGED <<lazyMap, modes, forwarders, running, sessionEnded, mainId,
                                     attaches, unserved, relay, live, spawned>>
  BY DEF Connect, Subscribe, Subscribed, ptyVars
<1>2. KnownIds \subseteq Ids
  BY UsedIds
<1>3. AgentType'
  BY <1>1, <1>2 DEF AgentInv, AgentType
<1>4. Phase'
  BY <1>1 DEF Phase, Subscribed
<1>5. Placed'
  BY <1>1, <1>2 DEF AgentInv, Phase, Placed, Listed, InHand
<1>6. Current'
  BY <1>1 DEF AgentInv, Phase, Current, InHand
<1>7. Served'
  BY <1>1 DEF Served
<1> QED BY <1>3, <1>4, <1>5, <1>6, <1>7 DEF MainInv

\* The initial loop and startForwarder.
LEMMA AdvertiseKeeps ==
  ASSUME CatalogInv, AgentInv,
         AdvertiseLazy \/ AdvertiseActive \/ AdvertiseDone \/ StartForwarder
  PROVE  MainInv'
<1>1. Subscribed' /\ UNCHANGED <<live, spawned, available>>
  BY DEF AdvertiseLazy, AdvertiseActive, AdvertiseDone, StartForwarder, AgentInv, Phase, Subscribed,
         catalogVars, ptyVars, subVars
<1>2. CASE AdvertiseLazy
  <2>1. PICK id \in todo : /\ live[id] = NoPty /\ lazyMap' = lazyMap \cup {id}
                           /\ relay' = [relay EXCEPT ![id] = "inactive"] /\ todo' = todo \ {id}
    BY <1>2 DEF AdvertiseLazy
  <2>2. /\ main = "advertise"
        /\ UNCHANGED <<modes, forwarders, running, sessionEnded, main, mainId, attaches, unserved>>
    BY <1>2 DEF AdvertiseLazy
  <2>3. AgentType'
    BY <2>1, <2>2 DEF AgentInv, AgentType
  <2>4. Phase'
    BY <1>1, <2>1, <2>2 DEF AgentInv, Phase
  <2>5. Placed'
    BY <1>1, <2>1, <2>2 DEF AgentInv, AgentType, Placed, Listed, InHand
  <2>6. Current'
    BY <1>1, <2>1, <2>2 DEF AgentInv, Current, InHand
  <2>7. Served'
    BY <1>1, <2>1, <2>2 DEF AgentInv, Served, InHand
  <2> QED BY <2>3, <2>4, <2>5, <2>6, <2>7 DEF MainInv
<1>3. CASE AdvertiseActive
  <2>1. PICK id \in todo : mainId' = id /\ todo' = todo \ {id}
    BY <1>3 DEF AdvertiseActive
  <2>2. /\ main = "advertise" /\ main' = "forward"
        /\ UNCHANGED <<lazyMap, modes, forwarders, running, sessionEnded, attaches, unserved, relay>>
    BY <1>3 DEF AdvertiseActive
  <2>3. AgentType'
    BY <2>1, <2>2 DEF AgentInv, AgentType
  <2>4. Phase'
    BY <1>1, <2>1, <2>2 DEF AgentInv, AgentType, Phase
  <2>5. Placed'
    BY <1>1, <2>1, <2>2 DEF AgentInv, AgentType, Placed, Listed, InHand
  <2>6. Current'
    BY <1>1, <2>1, <2>2 DEF AgentInv, Current, InHand
  <2>7. Served'
    BY <1>1, <2>1, <2>2 DEF AgentInv, Served, InHand
  <2> QED BY <2>3, <2>4, <2>5, <2>6, <2>7 DEF MainInv
<1>4. CASE AdvertiseDone
  <2>1. /\ main = "advertise" /\ main' = "loop" /\ todo = {}
        /\ UNCHANGED <<lazyMap, modes, forwarders, running, sessionEnded, mainId, todo, attaches,
                       unserved, relay>>
    BY <1>4 DEF AdvertiseDone
  <2> QED BY <1>1, <2>1 DEF MainInv, AgentInv, AgentType, Phase, Placed, Listed, InHand, Current, Served
<1>5. CASE StartForwarder
  <2>1. /\ main = "forward" /\ main' \in {"loop", "advertise"} /\ (main' = "loop" => todo = {})
        /\ modes' = modes \cup {mainId} /\ lazyMap' = lazyMap \ {mainId}
        /\ relay' = [relay EXCEPT ![mainId] = "active"]
        /\ UNCHANGED <<sessionEnded, mainId, todo, attaches>>
    BY <1>5 DEF StartForwarder
  <2>2. \/ /\ live[mainId] # NoPty /\ forwarders' = [forwarders EXCEPT ![mainId] = live[mainId]]
           /\ running' = running \cup {Fw(mainId, live[mainId])} /\ unserved' = unserved
        \/ /\ live[mainId] = NoPty /\ unserved' = unserved \cup {mainId}
           /\ UNCHANGED <<forwarders, running>>
    BY <1>5 DEF StartForwarder
  <2>3. mainId \in Ids /\ mainId \in available /\ mainId \notin todo
    BY <2>1 DEF AgentInv, Phase, Placed, InHand
  <2>4. AgentType'
    <3>1. live[mainId] # NoPty => Fw(mainId, live[mainId]) \in Fws /\ live[mainId] \in 0..MaxSpawns
      BY <2>3, MainTypes DEF Fws, Fw, NoPty
    <3>2. forwarders' \in [Ids -> 0..MaxSpawns] /\ running' \subseteq Fws /\ unserved' \subseteq Ids
      BY <2>2, <2>3, <3>1 DEF AgentInv, AgentType
    <3> QED BY <2>1, <2>3, <3>2 DEF AgentInv, AgentType
  <2>5. Phase'
    BY <1>1, <2>1 DEF AgentInv, Phase
  <2>6. Placed'
    BY <1>1, <2>1, <2>3 DEF AgentInv, AgentType, Placed, Listed, InHand
  <2>7. Current'
    <3>1. \A id \in Ids : id \in lazyMap' => id \notin InHand /\ live[id] = NoPty
      BY <2>1 DEF AgentInv, Current, InHand
    <3>2. \A id \in Ids : forwarders'[id] # NoPty => live[id] \in {NoPty, forwarders'[id]}
      BY <2>1, <2>2 DEF AgentInv, AgentType, Current, InHand
    <3>3. \A fw \in running' : fw.pty <= spawned
      BY <2>2, <2>3 DEF AgentInv, Current, Fw
    <3> QED BY <1>1, <2>1, <3>1, <3>2, <3>3 DEF AgentInv, Current
  <2>8. Served'
    <3> SUFFICES ASSUME NEW id \in available, id \notin unserved'
                 PROVE  id \in lazyMap' \/ forwarders'[id] # NoPty \/ id \in todo
      BY <1>1, <2>1 DEF Served
    <3>1. CASE id = mainId
      BY <2>2, <2>3, <3>1 DEF AgentInv, AgentType
    <3>2. CASE id # mainId
      <4>1. id \notin unserved /\ forwarders'[id] = forwarders[id] /\ id \notin InHand
        BY <2>1, <2>2, <3>2, MainTypes DEF AgentInv, AgentType, InHand
      <4> QED BY <2>1, <3>2, <4>1 DEF AgentInv, Served
    <3> QED BY <3>1, <3>2
  <2> QED BY <2>4, <2>5, <2>6, <2>7, <2>8 DEF MainInv
<1> QED BY <1>2, <1>3, <1>4, <1>5

\* A change that the main loop takes: a new session is listed and lazy, a
\* removed one leaves the list, the modes and the lazy entries.
LEMMA ChangeKeeps ==
  ASSUME CatalogInv, AgentInv, SessionChange
  PROVE  MainInv'
<1> DEFINE c == changes[1]
           id == c.id
<1>1. c = Head(changes) /\ 1 \in 1..Len(changes) /\ c \in ChangeSet /\ id \in Ids
  <2>1. changes \in Seq(ChangeSet) /\ changes # << >>
    BY UsedIds DEF SessionChange, TakeChange
  <2>2. c = Head(changes) /\ 1 \in 1..Len(changes)
    BY <2>1
  <2> QED BY <2>2, UsedIds
<1>2. /\ main = "loop" /\ Subscribed' /\ UNCHANGED <<live, spawned, forwarders, running, sessionEnded>>
      /\ UNCHANGED <<main, mainId, todo, attaches, unserved>>
  BY DEF SessionChange, TakeChange, Subscribed, ptyVars
<1>3. \/ /\ c.op = "add" /\ available' = available \cup {id} /\ lazyMap' = lazyMap \cup {id}
         /\ relay' = [relay EXCEPT ![id] = "inactive"] /\ modes' = modes
      \/ /\ c.op # "add" /\ available' = available \ {id} /\ lazyMap' = lazyMap \ {id}
         /\ relay' = [relay EXCEPT ![id] = "absent"] /\ modes' = modes \ {id}
  BY <1>1 DEF SessionChange, TakeChange, ListSession, ForgetSession
<1>4. c.op = "add" => id \notin available /\ live[id] = NoPty
  BY <1>1 DEF AgentInv, Pending
<1> HIDE DEF c, id
<1>5. todo = {} /\ InHand = {} /\ InHand' = {}
  BY <1>2 DEF AgentInv, Phase, InHand
<1>6. AgentType'
  BY <1>1, <1>2, <1>3 DEF AgentInv, AgentType
<1>7. Phase'
  BY <1>2 DEF AgentInv, Phase
<1>8. Placed'
  <2>1. Listed = available /\ Listed' = available'
    BY <1>1, <1>3, <1>5 DEF AgentInv, AgentType, Placed, Listed
  <2>2. modes' = {x \in Ids : relay'[x] = "active"}
    <3>1. c.op = "add" => id \notin modes
      BY <1>4, <2>1 DEF AgentInv, Placed, Listed
    <3> QED BY <1>1, <1>3, <3>1 DEF AgentInv, AgentType, Placed
  <2>3. lazyMap' \subseteq available' /\ lazyMap' \cap modes' = {}
    <3>1. c.op = "add" => id \notin modes
      BY <1>4, <2>1 DEF AgentInv, Placed, Listed
    <3> QED BY <1>3, <3>1 DEF AgentInv, Placed
  <2> QED BY <1>2, <1>5, <2>1, <2>2, <2>3 DEF Placed
<1>9. Current'
  BY <1>2, <1>3, <1>4, <1>5 DEF AgentInv, Current
<1>10. Served'
  BY <1>2, <1>3, <1>5 DEF AgentInv, Served
<1> QED BY <1>6, <1>7, <1>8, <1>9, <1>10 DEF MainInv

\* finishSession for a session whose PTY is gone, from either of its callers.
LEMMA FinishKeeps ==
  ASSUME CatalogInv, AgentInv, Subscribed, NEW id \in Ids, FinishSession(id), live[id] = NoPty,
         main \in {"loop", "finish"}, main' \in {"loop", "lazy"}, main' = "lazy" => mainId \in Ids,
         UNCHANGED <<catalogVars, running, mainId, todo, attaches, unserved>>,
         sessionEnded' \in Seq(Fws),
         \A i \in 1..Len(sessionEnded') : \E j \in 1..Len(sessionEnded) :
           sessionEnded'[i] = sessionEnded[j]
  PROVE  MainInv'
<1>1. UNCHANGED <<live, spawned, available>> /\ Subscribed'
  BY DEF catalogVars, ptyVars, subVars, Subscribed
<1>2. /\ forwarders' = [forwarders EXCEPT ![id] = NoPty] /\ modes' = modes \ {id}
      /\ relay' = [relay EXCEPT ![id] = IF id \in available THEN "inactive" ELSE "absent"]
      /\ lazyMap' = IF id \in available THEN lazyMap \cup {id} ELSE lazyMap
  BY DEF FinishSession, RestoreLazy
<1>3. todo = {} /\ InHand = {} /\ InHand' = {}
  BY DEF AgentInv, Phase, InHand
<1>4. AgentType'
  BY <1>2, MainTypes DEF AgentInv, AgentType, NoPty
<1>5. Phase'
  BY <1>1, <1>3 DEF Phase
<1>6. Placed'
  <2>1. Listed' = available'
    BY <1>1, <1>2, <1>3 DEF AgentInv, AgentType, Placed, Listed
  <2>2. modes' = {x \in Ids : relay'[x] = "active"}
    BY <1>2 DEF AgentInv, AgentType, Placed
  <2> QED BY <1>1, <1>2, <1>3, <2>1, <2>2 DEF AgentInv, Placed
<1>7. Current'
  <2>1. \A i \in 1..Len(sessionEnded') :
          sessionEnded'[i].pty <= spawned /\ live[sessionEnded'[i].id] # sessionEnded'[i].pty
    BY DEF AgentInv, Current
  <2>2. \A x \in Ids : x \in lazyMap' => live[x] = NoPty
    BY <1>2, <1>3 DEF AgentInv, Current
  <2>3. \A x \in Ids : forwarders'[x] # NoPty => live[x] \in {NoPty, forwarders'[x]}
    BY <1>2, <1>3 DEF AgentInv, AgentType, Current
  <2> QED BY <1>1, <2>1, <2>2, <2>3 DEF AgentInv, Current
<1>8. Served'
  BY <1>1, <1>2, <1>3, MainTypes DEF AgentInv, AgentType, Served
<1> QED BY <1>4, <1>5, <1>6, <1>7, <1>8 DEF MainInv

\* A notification is taken: stale, or of a session whose PTY has ended.
LEMMA EndedKeeps ==
  ASSUME CatalogInv, AgentInv, SessionEnded
  PROVE  MainInv'
<1> DEFINE fw == sessionEnded[1]
           n == Len(sessionEnded)
<1>1. sessionEnded \in Seq(Fws) /\ sessionEnded # << >>
  BY DEF SessionEnded, AgentInv, AgentType
<1>2. /\ fw = Head(sessionEnded) /\ 1 \in 1..n /\ fw \in Fws
      /\ sessionEnded' \in Seq(Fws) /\ Len(sessionEnded') = n - 1 /\ n \in Nat
      /\ \A i \in 1..(n - 1) : sessionEnded'[i] = sessionEnded[i + 1]
  BY <1>1 DEF SessionEnded
<1>3. \A i \in 1..Len(sessionEnded') : \E j \in 1..n : sessionEnded'[i] = sessionEnded[j]
  <2>1. \A i \in 1..(n - 1) : i + 1 \in 1..n
    BY <1>2
  <2> QED BY <1>2, <2>1
<1>4. /\ main = "loop" /\ UNCHANGED <<catalogVars, running, main, mainId, todo, attaches, unserved>>
      /\ IF IsStale(fw) THEN UNCHANGED <<forwarders, modes, lazyMap, relay>> ELSE FinishSession(fw.id)
  BY <1>2 DEF SessionEnded
<1>5. fw.id \in Ids /\ fw.pty \in Nat \ {0} /\ live[fw.id] # fw.pty
  BY <1>2, EndedTyped DEF AgentInv, Current
<1>6. Subscribed
  BY <1>1 DEF AgentInv, Phase
<1> HIDE DEF fw
<1>7. CASE ~IsStale(fw)
  <2>1. live[fw.id] = NoPty
    BY <1>4, <1>5, <1>7 DEF IsStale, AgentInv, Current, InHand, NoPty
  <2> QED BY <1>2, <1>3, <1>4, <1>5, <1>6, <1>7, <2>1, FinishKeeps
<1>8. CASE IsStale(fw)
  <2>1. /\ UNCHANGED <<forwarders, modes, lazyMap, relay, live, spawned, available, changes>>
        /\ Subscribed'
    BY <1>4, <1>6, <1>8 DEF catalogVars, ptyVars, subVars, Subscribed
  <2>2. AgentType'
    BY <1>2, <1>4, <2>1 DEF AgentInv, AgentType
  <2>3. Phase'
    BY <1>4, <2>1 DEF AgentInv, Phase
  <2>4. Placed' /\ Served'
    BY <1>4, <2>1 DEF AgentInv, Placed, Served, Listed, InHand
  <2>5. Current'
    BY <1>3, <1>4, <2>1 DEF AgentInv, Current, InHand
  <2> QED BY <2>2, <2>3, <2>4, <2>5 DEF MainInv
<1> QED BY <1>7, <1>8

\* The steps of a client_attach.
LEMMA AttachKeeps ==
  ASSUME CatalogInv, AgentInv,
         \/ \E id \in Ids : Attach(id)
         \/ AttachFinish \/ AttachExisting \/ AttachActivate \/ AttachRejected
  PROVE  MainInv'
<1>1. Subscribed /\ Subscribed' /\ UNCHANGED <<available, changes>>
  BY DEF Attach, AttachFinish, AttachExisting, AttachActivate, AttachRejected, AgentInv, Phase,
         Subscribed, catalogVars, subVars
<1>2. ASSUME NEW id \in Ids, Attach(id) PROVE MainInv'
  <2>1. /\ main = "loop" /\ attaches < MaxAttaches /\ attaches' = attaches + 1 /\ mainId' = id
        /\ main' \in {"lazy", "finish"} /\ (main' = "finish" => live[id] = NoPty)
        /\ UNCHANGED <<lazyMap, modes, forwarders, running, sessionEnded, todo, unserved, relay>>
        /\ UNCHANGED <<live, spawned>>
    BY <1>2 DEF Attach, AttachGuard, catalogVars, ptyVars
  <2>2. AgentType'
    BY <1>2, <2>1, MainTypes, SMTT(20) DEF AgentInv, AgentType
  <2>3. Phase'
    BY <1>1, <1>2, <2>1 DEF AgentInv, Phase
  <2> QED BY <1>1, <2>1, <2>2, <2>3
          DEF MainInv, AgentInv, Placed, Current, Served, Listed, InHand
<1>3. CASE AttachFinish
  <2>1. main = "finish" /\ main' = "lazy" /\ mainId \in Ids /\ live[mainId] = NoPty
    BY <1>3 DEF AttachFinish, AgentInv, Phase, Current
  <2>2. UNCHANGED <<catalogVars, running, sessionEnded, mainId, todo, attaches, unserved>>
    BY <1>3 DEF AttachFinish
  <2>3. CASE FinishSession(mainId)
    <3>1. sessionEnded' \in Seq(Fws)
      BY <2>2 DEF AgentInv, AgentType
    <3> QED BY <1>1, <2>1, <2>2, <2>3, <3>1, FinishKeeps
  <2>4. CASE UNCHANGED <<forwarders, modes, lazyMap, relay>>
    <3>1. UNCHANGED <<live, spawned>>
      BY <2>2 DEF catalogVars, ptyVars
    <3>2. AgentType' /\ Phase'
      BY <1>1, <2>1, <2>2, <2>4 DEF AgentInv, AgentType, Phase
    <3> QED BY <1>1, <2>1, <2>2, <2>4, <3>1, <3>2
            DEF MainInv, AgentInv, Placed, Current, Served, Listed, InHand
  <2> QED BY <1>3, <2>3, <2>4 DEF AttachFinish
<1>4. CASE AttachExisting
  <2>1. /\ main = "lazy" /\ main' = "loop" /\ lazyMap' = lazyMap \ {mainId} /\ mainId \in Ids
        /\ mainId \notin lazyMap \/ live[mainId] # NoPty
        /\ UNCHANGED <<modes, forwarders, running, sessionEnded, mainId, todo, attaches, unserved,
                       relay, live, spawned>>
    BY <1>4 DEF AttachExisting, AgentInv, Phase, catalogVars, ptyVars
  <2>2. mainId \notin lazyMap
    BY <2>1 DEF AgentInv, Current, InHand
  <2>3. lazyMap' = lazyMap
    BY <2>1, <2>2
  <2>4. AgentType' /\ Phase'
    BY <1>1, <2>1, <2>3 DEF AgentInv, AgentType, Phase
  <2> QED BY <1>1, <2>1, <2>3, <2>4
          DEF MainInv, AgentInv, Placed, Current, Served, Listed, InHand
<1>5. CASE AttachActivate
  <2>1. /\ main = "lazy" /\ main' = "forward" /\ mainId \in lazyMap /\ mainId \in Ids
        /\ live' = [live EXCEPT ![mainId] = spawned + 1] /\ spawned' = spawned + 1
        /\ UNCHANGED <<lazyMap, modes, forwarders, running, sessionEnded, mainId, todo, attaches,
                       unserved, relay>>
    BY <1>5 DEF AttachActivate, Activate, AgentInv, Phase
  <2>2. mainId \in available /\ todo = {} /\ InHand = {} /\ InHand' = {mainId}
    BY <2>1 DEF AgentInv, Placed, Phase, InHand
  <2>3. AgentType' /\ Phase'
    BY <1>1, <2>1, <2>2 DEF AgentInv, AgentType, Phase
  <2>4. Placed' /\ Served'
    BY <1>1, <2>1, <2>2 DEF AgentInv, Placed, Served, Listed
  <2>5. Current'
    <3>1. live'[mainId] = spawned + 1 /\ \A id \in Ids \ {mainId} : live'[id] = live[id]
      BY <2>1, MainTypes
    <3>2. spawned \in Nat /\ \A id \in Ids : live[id] \in Nat
      BY MainTypes
    <3>3. \A id \in Ids : live'[id] <= spawned'
      BY <2>1, <3>1, <3>2 DEF AgentInv, Current
    <3>4. \A fw \in running' : fw.pty <= spawned'
      BY <2>1, <3>2 DEF AgentInv, AgentType, Fws, Current
    <3>5. ASSUME NEW i \in 1..Len(sessionEnded)
          PROVE  /\ sessionEnded[i].pty <= spawned'
                 /\ live'[sessionEnded[i].id] # sessionEnded[i].pty
      <4>1. /\ sessionEnded[i].pty \in Nat /\ sessionEnded[i].id \in Ids
            /\ sessionEnded[i].pty <= spawned /\ live[sessionEnded[i].id] # sessionEnded[i].pty
        BY EndedTyped DEF AgentInv, Current
      <4> QED BY <2>1, <3>1, <3>2, <4>1
    <3> QED BY <2>1, <2>2, <3>1, <3>3, <3>4, <3>5 DEF AgentInv, Current
  <2> QED BY <2>3, <2>4, <2>5 DEF MainInv
<1>6. CASE AttachRejected
  <2>1. /\ main = "lazy" /\ main' = "loop" /\ mainId \in lazyMap /\ mainId \in Ids
        /\ relay' = [relay EXCEPT ![mainId] = "inactive"]
        /\ UNCHANGED <<lazyMap, modes, forwarders, running, sessionEnded, mainId, todo, attaches,
                       unserved, live, spawned>>
    BY <1>6 DEF AttachRejected, AgentInv, Phase, catalogVars, ptyVars
  <2>2. todo = {} /\ InHand = {} /\ InHand' = {} /\ mainId \notin modes
    BY <2>1 DEF AgentInv, Phase, Placed, InHand
  <2>3. AgentType' /\ Phase'
    BY <1>1, <2>1, <2>2 DEF AgentInv, AgentType, Phase
  <2>4. Listed' = available'
    BY <1>1, <2>1, <2>2 DEF AgentInv, AgentType, Placed, Listed
  <2>5. modes' = {id \in Ids : relay'[id] = "active"}
    BY <2>1, <2>2 DEF AgentInv, AgentType, Placed
  <2>6. Placed'
    BY <1>1, <2>1, <2>2, <2>4, <2>5 DEF AgentInv, Placed
  <2> QED BY <1>1, <2>1, <2>2, <2>3, <2>6 DEF MainInv, AgentInv, Current, Served
<1> QED BY <1>2, <1>3, <1>4, <1>5, <1>6

\* Forwarders that exit and connections that end.
LEMMA EndKeeps ==
  ASSUME CatalogInv, AgentInv, ForwarderExit \/ CloseConnection \/ Return
  PROVE  MainInv'
<1>1. CASE ForwarderExit
  <2>1. PICK fw \in running :
          /\ running' = running \ {fw}
          /\ \/ live[fw.id] # fw.pty /\ sessionEnded' = Append(sessionEnded, fw)
             \/ UNCHANGED sessionEnded
    BY <1>1 DEF ForwarderExit
  <2>2. /\ UNCHANGED <<lazyMap, modes, forwarders, main, mainId, todo, attaches, unserved, relay>>
        /\ UNCHANGED <<live, spawned, available, changes, conn>>
    BY <1>1 DEF ForwarderExit, catalogVars, ptyVars, subVars
  <2>3. Subscribed /\ Subscribed' /\ fw \in Fws /\ sessionEnded \in Seq(Fws)
    BY <2>1, <2>2 DEF AgentInv, AgentType, Phase, Subscribed
  <2>4. /\ sessionEnded' \in Seq(Fws)
        /\ \A i \in 1..Len(sessionEnded') :
             \/ sessionEnded'[i] = fw /\ live[fw.id] # fw.pty
             \/ i \in 1..Len(sessionEnded) /\ sessionEnded'[i] = sessionEnded[i]
    BY <2>1, <2>3
  <2>5. AgentType' /\ Phase'
    BY <2>1, <2>2, <2>3, <2>4 DEF AgentInv, AgentType, Phase
  <2>6. Placed' /\ Served'
    BY <2>2 DEF AgentInv, Placed, Served, Listed, InHand
  <2>7. Current'
    BY <2>1, <2>2, <2>4 DEF AgentInv, Current, InHand
  <2> QED BY <2>5, <2>6, <2>7 DEF MainInv
<1>2. CASE CloseConnection
  <2>1. Subscribed' /\ UNCHANGED <<live, spawned, available, agentVars>>
    BY <1>2 DEF CloseConnection, ptyVars, Subscribed
  <2> QED BY <2>1 DEF MainInv, AgentInv, AgentType, Phase, Placed, Current, Served, Listed, InHand,
                      agentVars
<1>3. CASE Return
  <2>1. /\ main = "loop" /\ main' = "loop" /\ running = {} /\ running' = {} /\ lazyMap' = {}
        /\ modes' = {} /\ sessionEnded' = << >> /\ forwarders' = [id \in Ids |-> NoPty]
        /\ unserved' = {} /\ relay' = [id \in Ids |-> "absent"] /\ available' = {}
        /\ changes' = << >> /\ UNCHANGED <<mainId, todo, attaches, live, spawned>>
    BY <1>3 DEF Return, Unsubscribe, ptyVars
  <2>2. todo' = {} /\ InHand' = {} /\ Len(sessionEnded') = 0
    BY <2>1 DEF AgentInv, Phase, InHand
  <2>3. AgentType'
    BY <2>1, <2>2, MainTypes DEF AgentInv, AgentType, NoPty
  <2>4. Phase' /\ Placed' /\ Served'
    BY <2>1, <2>2 DEF Phase, Placed, Served, Listed
  <2>5. Current'
    BY <2>1, <2>2 DEF AgentInv, Current
  <2> QED BY <2>3, <2>4, <2>5 DEF MainInv
<1> QED BY <1>1, <1>2, <1>3

-----------------------------------------------------------------------------
(* What the invariant says of the agent *)

\* Of the messages clients send, those approved are the whole answers.
LEMMA ApprovedAnswers == \A data \in Messages : isApproved(data) <=> data \in Answers
BY DEF Messages, Answers, isApproved, approvedSequences

\* Modes and the relay's list agree, so input goes where it may.
LEMMA InputFromPlaced == ASSUME Placed PROVE InputConfined
<1> SUFFICES ASSUME NEW id \in Ids, NEW policy \in Policies
             PROVE  LET open == IF relay[id] = "active" THEN {live[id]} \ {NoPty} ELSE {}
                        through(data) == policy = "full" \/ (policy = "approved-only" /\ data \in Answers)
                    IN  /\ ResizeTo(id, policy) = IF policy = "readonly" THEN {} ELSE open
                        /\ \A data \in Messages :
                             InputTo(id, policy, data) = IF through(data) THEN open ELSE {}
  BY DEF InputConfined
<1>1. id \in modes <=> relay[id] = "active"
  BY DEF Placed
<1> QED BY <1>1, ApprovedAnswers
        DEF Policies, ResizeTo, InputTo, Mode, inputAllowed, resizeAllowed

\* The agent's steps keep the invariant.
LEMMA AgentInvStep == CatalogInv /\ AgentInv /\ [Next]_vars => (CatalogInv /\ AgentInv)'
<1> SUFFICES ASSUME CatalogInv, AgentInv, [Next]_vars PROVE CatalogInv' /\ AgentInv'
  OBVIOUS
<1>1. CASE Next
  <2>1. CatalogInv'
    BY <1>1, AgentKeepsCatalog
  <2>2. Pending' /\ Tracked'
    BY <1>1, <2>1, OutsideKeepsChannel, MainKeepsChannel
  <2>3. MainInv'
    BY <1>1, <2>1, OutsideKeepsMain, ConnectKeeps, AdvertiseKeeps, ChangeKeeps, EndedKeeps,
       AttachKeeps, EndKeeps
    DEF Next, MainStep, MainInv
  <2> QED BY <2>1, <2>2, <2>3 DEF AgentInv, MainInv
<1>2. CASE UNCHANGED vars
  <2>1. UNCHANGED catalogVars /\ UNCHANGED agentVars
    BY <1>2 DEF vars
  <2>2. CatalogInv'
    BY <2>1, CatalogKept
  <2>3. Pending' /\ Tracked'
    BY <2>1, <2>2, QuietKeepsChannel
    DEF AgentInv, Tracked, Subscribed, catalogVars, scanVars, ptyVars, subVars
  <2>4. MainInv'
    BY <2>1 DEF MainInv, AgentInv, AgentType, Phase, Placed, Current, Served, Listed, InHand,
                Subscribed, agentVars, catalogVars, ptyVars, subVars
  <2> QED BY <2>2, <2>3, <2>4 DEF AgentInv, MainInv
<1> QED BY <1>1, <1>2

\* It holds at the start.
LEMMA AgentInvInit == Init => CatalogInv /\ AgentInv
<1> SUFFICES ASSUME Init PROVE CatalogInv /\ AgentInv
  OBVIOUS
<1>1. CatalogInv
  <2>1. RestType /\ RemovedPtyCloses
    BY EmptyTypes DEF Init, CatalogInit, RestType, RemovedPtyCloses, NoPty
  <2> QED BY <2>1, ScanInvInit DEF Init, CatalogInv
<1>2. AgentType
  BY <1>1, MainTypes, AgentAssumption DEF Init, AgentType, NoPty
<1>3. Phase /\ Placed /\ Served
  BY DEF Init, CatalogInit, Phase, Placed, Served, Listed, InHand, Subscribed
<1>4. Len(changes) = 0 /\ Len(sessionEnded) = 0 /\ scans["conn"].pc = "idle"
  BY DEF Init, CatalogInit, Scanners, IdleScan
<1>5. Pending /\ Tracked
  BY <1>4 DEF Init, CatalogInit, Pending, Tracked, Subscribed
<1>6. Current
  BY <1>4 DEF Init, CatalogInit, Current, NoPty
<1> QED BY <1>1, <1>2, <1>3, <1>5, <1>6 DEF AgentInv

\* Remote input and resizes reach exactly the running PTYs of sessions that the
\* relay has as active, by the mode in force (handleServerMsg), and the PTY of a
\* removed session is closed, whatever scans, exits, attaches and reconnects do.
THEOREM AgentConfined == Spec => [](TypeOK /\ InputConfined /\ RemovedPtyCloses)
<1>1. CatalogInv /\ AgentInv => TypeOK /\ InputConfined /\ RemovedPtyCloses
  <2> SUFFICES ASSUME CatalogInv, AgentInv PROVE TypeOK /\ InputConfined /\ RemovedPtyCloses
    OBVIOUS
  <2>1. TypeOK
    BY TypeFromParts DEF TypeOK, AgentInv, AgentType, Fws
  <2> QED BY <2>1, InputFromPlaced DEF AgentInv, CatalogInv
<1> QED BY <1>1, AgentInvInit, AgentInvStep, PTL DEF Spec

\* With nothing in flight and nothing dropped, the relay lists exactly the
\* catalog: every add and remove of runAgent's loop leaves neither a ghost nor
\* a hole.
THEOREM ListingExact == Spec => []ListingMatchesCatalog
<1>1. CatalogInv /\ AgentInv => ListingMatchesCatalog
  <2> SUFFICES ASSUME CatalogInv, AgentInv, conn = "up", main = "loop", changes = << >>, ~dropped
               PROVE  Listed = KnownIds
    BY DEF ListingMatchesCatalog
  <2>1. Listed = available
    BY DEF AgentInv, Phase, Placed, InHand
  <2>2. Len(changes) = 0 /\ \A op : Queued(op) = {}
    BY DEF Queued
  <2> QED BY <2>1, <2>2 DEF AgentInv, Tracked, Subscribed
<1> QED BY <1>1, AgentInvInit, AgentInvStep, PTL DEF Spec

\* A session whose forwarder found its PTY running can be opened again through
\* exits, retirements and reconnects (finishSession, finishIfEnded).
THEOREM ServedAttachable == Spec => []ServedStaysAttachable
<1>1. AgentInv => ServedStaysAttachable
  BY DEF AgentInv, Phase, Served, InHand, ServedStaysAttachable, Attachable
<1> QED BY <1>1, AgentInvInit, AgentInvStep, PTL DEF Spec
=============================================================================
