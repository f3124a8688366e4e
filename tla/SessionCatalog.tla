--------------------------- MODULE SessionCatalog ---------------------------
(***************************************************************************)
(* The catalog of multiplexer sessions (cmd/scomp/session_catalog.go) and  *)
(* its one subscriber, the current relay connection.  Scans run in two     *)
(* goroutines: the watcher scans and publishes when it hears of a change,  *)
(* and every connection refreshes before it subscribes.  A scan lists      *)
(* first, applies under mu later and closes the PTYs of removed sessions   *)
(* after that.                                                             *)
(*                                                                         *)
(* tmux and Screen are external: mux is the set of sessions they have.     *)
(* What the watcher hears of them is abstract here and detailed in Watcher,*)
(* which implements this module's specification.                           *)
(***************************************************************************)
EXTENDS Integers, Sequences, FiniteSets, SequencesExt

CONSTANTS Keys,        \* catalog keys, "tmux:<name>" and "screen:<name>"
          SubCap,      \* capacity of a subscriber channel (128)
          MaxEvents,   \* bound: changes of mux and failed listings
          MaxSpawns,   \* bound: PTYs spawned
          MaxConns,    \* bound: relay connections
          Rumours      \* bound: FALSE leaves out scans that no change leads to

ASSUME CatalogAssumption ==
  /\ IsFiniteSet(Keys)
  /\ SubCap \in Nat \ {0}
  /\ {MaxEvents, MaxSpawns, MaxConns} \subseteq Nat
  /\ Rumours \in BOOLEAN

VARIABLES
  mux,        \* the multiplexer sessions that exist
  eventCount, \* how many times mux changed or a listing failed (bound)
  dirty,      \* the watcher has an event it has not scanned for
  missed,     \* mux differs from the last listing and no event says so
  known,      \* c.entries: the id of each key, NoId when absent
  nextId,     \* the next id newSessionID returns (ids are never reused)
  scanMu,     \* holder of scanMu
  scans,      \* progress of each scanner
  live,       \* the running PTY of each id in the registry, NoPty when none
  spawned,    \* PTYs spawned so far: names the next one
  late,       \* ids activated after they left the catalog (history)
  conn,       \* connection: "down", "refresh", "up" or "closing"
  conns,      \* connections so far (bound)
  changes,    \* the subscriber channel
  dropped,    \* a change was dropped because the channel was full (history)
  available   \* the ids the subscriber takes to be in the catalog

muxVars == <<mux, eventCount, dirty, missed>>
scanVars == <<known, nextId, scanMu, scans>>
ptyVars == <<live, spawned, late>>
subVars == <<conn, conns, changes, dropped, available>>
catalogVars == <<muxVars, scanVars, ptyVars, subVars>>

NoId == 0
NoPty == 0
Free == "free"
Ids == 1..(Cardinality(Keys) * (MaxEvents + 1))  \* an event can renew every entry
Scanners == {"watch", "conn"}

IdleScan == [pc |-> "idle", list |-> {}, removed |-> {}]
IndexOf(seq, x) == CHOOSE i \in DOMAIN seq : seq[i] = x
Change(op, id) == [op |-> op, id |-> id]

\* The ids of the catalog's entries.
KnownIds == {known[k] : k \in Keys} \ {NoId}
KnownKeys == {k \in Keys : known[k] # NoId}

-----------------------------------------------------------------------------
(* The multiplexers (external) *)

\* A session is created or ends; the watcher hears of it, or misses it.
MuxChange(k) ==
  /\ eventCount < MaxEvents
  /\ eventCount' = eventCount + 1
  /\ mux' = IF k \in mux THEN mux \ {k} ELSE mux \cup {k}
  /\ \/ dirty' = TRUE /\ UNCHANGED missed
     \/ missed' = TRUE /\ UNCHANGED dirty
  /\ UNCHANGED <<scanVars, ptyVars, subVars>>

\* The watcher hears of something that is no change: a session of the agent's
\* own, a directory, its own control client.
Rumour ==
  /\ Rumours /\ ~dirty /\ dirty' = TRUE
  /\ UNCHANGED <<mux, eventCount, missed, scanVars, ptyVars, subVars>>

\* An attached PTY's process exits, for whatever reason.
PtyExit(id) ==
  /\ live[id] # NoPty
  /\ live' = [live EXCEPT ![id] = NoPty]
  /\ UNCHANGED <<muxVars, scanVars, spawned, late, subVars>>

-----------------------------------------------------------------------------
(* Scans *)

\* Mutant of ScanMayBegin: scans are not serialised.
ScanMayBeginUnlocked(s) ==
  /\ scans[s].pc = "idle"
  /\ IF s = "watch" THEN dirty ELSE conn = "refresh"

\* scanMu.Lock(): the watcher scans after an event, a connection refreshes.
ScanMayBegin(s) ==
  /\ scanMu = Free
  /\ scans[s].pc = "idle"
  /\ IF s = "watch" THEN dirty ELSE conn = "refresh"

\* listTmux and listScreen.  An error of the list command yields no sessions.
\* The scan answers one event; the watcher may have others.
ScanList(s) ==
  /\ ScanMayBegin(s)
  /\ scanMu' = s
  /\ dirty' \in IF s = "watch" THEN {FALSE, Rumours} ELSE {dirty}
  /\ \/ /\ scans' = [scans EXCEPT ![s] = [pc |-> "listed", list |-> mux, removed |-> {}]]
        /\ missed' = FALSE
        /\ UNCHANGED eventCount
     \/ /\ eventCount < MaxEvents /\ mux # {}
        /\ scans' = [scans EXCEPT ![s] = [pc |-> "listed", list |-> {}, removed |-> {}]]
        /\ missed' = TRUE
        /\ eventCount' = eventCount + 1
  /\ UNCHANGED <<mux, known, nextId, ptyVars, subVars>>

\* The non-blocking sends of scan: what does not fit is dropped.
Publish(batch) ==
  LET room == SubCap - Len(changes)
  IN  /\ changes' = changes \o SubSeq(batch, 1, IF Len(batch) <= room THEN Len(batch) ELSE room)
      /\ dropped' = (dropped \/ Len(batch) > room)

Subscribed == conn \in {"up", "closing"}

\* The critical section of scan: new keys get fresh ids, absent keys go, and
\* the watcher's scan publishes the changes.
ScanApply(s) ==
  /\ scans[s].pc = "listed"
  /\ LET new == SetToSeq(scans[s].list \ KnownKeys)
         gone == KnownKeys \ scans[s].list
         idOf(k) == nextId + IndexOf(new, k) - 1
         adds == [i \in DOMAIN new |-> Change("add", nextId + i - 1)]
     IN  /\ known' = [k \in Keys |-> IF k \in gone THEN NoId
                                     ELSE IF k \in scans[s].list \ KnownKeys THEN idOf(k)
                                     ELSE known[k]]
         /\ nextId' = nextId + Len(new)
         /\ scans' = [scans EXCEPT ![s] = [pc |-> "close", list |-> {},
                                           removed |-> {known[k] : k \in gone}]]
         /\ \E order \in SetToSeqs({known[k] : k \in gone}) :
              IF s = "watch" /\ Subscribed
                THEN Publish(adds \o [i \in DOMAIN order |-> Change("remove", order[i])])
                ELSE UNCHANGED <<changes, dropped>>
  /\ UNCHANGED <<muxVars, scanMu, ptyVars, conn, conns, available>>

\* Mutant of ScanClose: the PTY of a removed session is left running.
ScanCloseLeaks(s) ==
  /\ scans[s].pc = "close" /\ scans[s].removed # {}
  /\ \E id \in scans[s].removed :
       scans' = [scans EXCEPT ![s].removed = @ \ {id}]
  /\ UNCHANGED <<muxVars, known, nextId, scanMu, ptyVars, subVars>>

\* After mu is released: reg.Get, reg.Remove and KillLinkedSession for each
\* removed session.
ScanClose(s) ==
  /\ scans[s].pc = "close" /\ scans[s].removed # {}
  /\ \E id \in scans[s].removed :
       /\ scans' = [scans EXCEPT ![s].removed = @ \ {id}]
       /\ live' = [live EXCEPT ![id] = NoPty]
  /\ UNCHANGED <<muxVars, known, nextId, scanMu, spawned, late, subVars>>

\* scan returns; the refresh of a connection is over.
ScanReturn(s) ==
  /\ scans[s].pc = "close" /\ scans[s].removed = {}
  /\ scans' = [scans EXCEPT ![s] = IF s = "conn" THEN [IdleScan EXCEPT !.pc = "done"] ELSE IdleScan]
  /\ scanMu' = Free
  /\ UNCHANGED <<muxVars, known, nextId, ptyVars, subVars>>

ScanStep(s) == ScanList(s) \/ ScanApply(s) \/ ScanClose(s) \/ ScanReturn(s)

-----------------------------------------------------------------------------
(* The subscriber *)

\* runAgent starts: the handshake is done and source.refresh() is called.
Dial ==
  /\ conn = "down" /\ conns < MaxConns
  /\ conn' = "refresh"
  /\ conns' = conns + 1
  /\ UNCHANGED <<muxVars, scanVars, ptyVars, changes, dropped, available>>

\* snapshotAndSubscribe: one critical section.
Subscribe ==
  /\ conn = "refresh" /\ scans["conn"].pc = "done"
  /\ conn' = "up"
  /\ scans' = [scans EXCEPT !["conn"] = IdleScan]
  /\ changes' = << >> /\ dropped' = FALSE
  /\ available' = KnownIds
  /\ UNCHANGED <<muxVars, known, nextId, scanMu, ptyVars, conns>>

\* The subscriber takes the next change.
TakeChange ==
  /\ Subscribed /\ changes # << >>
  /\ changes' = Tail(changes)
  /\ available' = IF Head(changes).op = "add" THEN available \cup {Head(changes).id}
                  ELSE available \ {Head(changes).id}
  /\ UNCHANGED <<conn, conns, dropped>>

\* lazySession.activate: CreateWithID spawns a PTY for the id.
Activate(id) ==
  /\ live[id] = NoPty /\ spawned < MaxSpawns
  /\ spawned' = spawned + 1
  /\ live' = [live EXCEPT ![id] = spawned + 1]
  /\ late' = IF id \in KnownIds THEN late ELSE late \cup {id}

\* The connection ends: the deferred unsubscribe runs as runAgent returns.
Unsubscribe ==
  /\ conn' = "down"
  /\ changes' = << >> /\ dropped' = FALSE /\ available' = {}
  /\ UNCHANGED conns

\* newSessionCatalog scans before anything else runs.
CatalogInit ==
  /\ mux \in SUBSET Keys
  /\ eventCount = 0 /\ dirty = FALSE /\ missed = FALSE
  /\ known = [k \in Keys |-> IF k \in mux THEN IndexOf(SetToSeq(mux), k) ELSE NoId]
  /\ nextId = Cardinality(mux) + 1
  /\ scanMu = Free /\ scans = [s \in Scanners |-> IdleScan]
  /\ live = [id \in Ids |-> NoPty] /\ spawned = 0 /\ late = {}
  /\ conn = "down" /\ conns = 0
  /\ changes = << >> /\ dropped = FALSE /\ available = {}

\* The subscriber on its own: it activates what it takes to be available, and
\* its connection may end at any time.
SubscriberActivates ==
  /\ Subscribed
  /\ \E id \in available : Activate(id)
  /\ UNCHANGED <<muxVars, scanVars, subVars>>
SubscriberTakes == TakeChange /\ UNCHANGED <<muxVars, scanVars, ptyVars>>
SubscriberLeaves == conn = "up" /\ Unsubscribe /\ UNCHANGED <<muxVars, scanVars, ptyVars>>

Environment == (\E k \in Keys : MuxChange(k)) \/ (\E id \in Ids : PtyExit(id))
Scanning == \E s \in Scanners : ScanStep(s)
Subscriber == Dial \/ Subscribe \/ SubscriberActivates \/ SubscriberTakes \/ SubscriberLeaves

CatalogNext == Environment \/ Rumour \/ Scanning \/ Subscriber

CatalogSpec == CatalogInit /\ [][CatalogNext]_catalogVars

-----------------------------------------------------------------------------
(* Properties *)

CatalogTypeOK ==
  /\ mux \subseteq Keys /\ eventCount \in 0..MaxEvents
  /\ dirty \in BOOLEAN /\ missed \in BOOLEAN
  /\ known \in [Keys -> Ids \cup {NoId}] /\ nextId - 1 \in Ids \cup {0}
  /\ scanMu \in Scanners \cup {Free}
  /\ scans \in [Scanners -> [pc : {"idle", "listed", "close", "done"},
                             list : SUBSET Keys, removed : SUBSET Ids]]
  /\ live \in [Ids -> 0..MaxSpawns] /\ spawned \in 0..MaxSpawns /\ late \subseteq Ids
  /\ conn \in {"down", "refresh", "up", "closing"} /\ conns \in 0..MaxConns
  /\ changes \in Seq([op : {"add", "remove"}, id : Ids]) /\ Len(changes) <= SubCap
  /\ dropped \in BOOLEAN /\ available \subseteq Ids

NoScan == scanMu = Free /\ \A s \in Scanners : scans[s].pc \in {"idle", "done"}

\* A PTY outlives its catalog entry only until the scan that removed the entry
\* has closed it, except one that was activated after the removal, from a
\* connection that had not yet taken the change (scan, after mu.Unlock).
RemovedPtyCloses ==
  \A id \in Ids \ (KnownIds \cup late) :
    live[id] # NoPty => \E s \in Scanners : id \in scans[s].removed
=============================================================================
