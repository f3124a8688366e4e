-------------------------- MODULE SessionRegistry ---------------------------
(***************************************************************************)
(* The session registry (internal/sessions): the map from ids to running   *)
(* terminals, the index that finds a terminal by its multiplexer source,   *)
(* and one cleanup goroutine (forgetWhenDone) for each registration.       *)
(* Creation and removal release the lock in the middle, so each is two or  *)
(* three steps of its caller.  The program creates from one goroutine, the *)
(* main loop, which has just seen Get miss, and removes from the scanners. *)
(***************************************************************************)
EXTENDS Naturals, FiniteSets

CONSTANTS Ids, Sources, NoSource, NoId,
          SourceOf,    \* the source key of each id's command, or NoSource
          Creators,    \* goroutines that create sessions: the main loop, no other
          Removers,    \* goroutines that remove sessions
          MaxSpawns    \* bound: terminals started

ASSUME RegistryAssumption ==
  /\ NoSource \notin Sources /\ NoId \notin Ids
  /\ SourceOf \in [Ids -> Sources \cup {NoSource}]
  /\ MaxSpawns \in Nat
  /\ \A p, q \in Creators : p = q

VARIABLES
  entries,     \* r.entries: the terminal and the source of each id
  sourceToID,  \* r.sourceToID
  spawned,     \* terminals started so far; a terminal is its number
  done,        \* terminals whose Done channel is closed
  startedFor,  \* the source each terminal was started for (history)
  forgetters,  \* forgetWhenDone goroutines waiting: [id, term]
  caller       \* what each calling goroutine is in the middle of

vars == <<entries, sourceToID, spawned, done, startedFor, forgetters, caller>>

Terms == 1..MaxSpawns
NoTerm == 0
NoEntry == [term |-> NoTerm, source |-> NoSource]
Entry(t, src) == [term |-> t, source |-> src]
Idle == [pc |-> "idle", id |-> NoId, term |-> NoTerm]
Busy(pc, id, t) == [pc |-> pc, id |-> id, term |-> t]
Callers == Creators \cup Removers

\* alive and Get: a terminal that is done is missing, cleaned up or not.
Alive(t) == t # NoTerm /\ t \notin done
Got(id) == Alive(entries[id].term)

\* liveSourceLocked: the id whose running terminal serves src.
LiveSource(src) ==
  /\ src # NoSource
  /\ sourceToID[src] # NoId
  /\ Got(sourceToID[src])

\* Mutant of DropSource: the index entry goes whoever owns it.
DropSourceAny(id, src) ==
  IF src # NoSource THEN [sourceToID EXCEPT ![src] = NoId] ELSE sourceToID

\* The index without src, if id owns it.
DropSource(id, src) ==
  IF src # NoSource /\ sourceToID[src] = id
    THEN [sourceToID EXCEPT ![src] = NoId] ELSE sourceToID

-----------------------------------------------------------------------------
(* CreateWithID *)

\* The requested id becomes an alias of the terminal that serves its source;
\* the alias entry carries no source.
Alias(id) ==
  LET t == entries[sourceToID[SourceOf[id]]].term
  IN  /\ entries' = [entries EXCEPT ![id] = Entry(t, NoSource)]
      /\ forgetters' = forgetters \cup {[id |-> id, term |-> t]}

MustSpawn(id) == ~LiveSource(SourceOf[id])

\* The first critical section, entered after Get(id) missed.
CreateLookup(p, id) ==
  /\ caller[p] = Idle /\ ~Got(id)
  /\ IF MustSpawn(id)
       THEN /\ caller' = [caller EXCEPT ![p] = Busy("spawn", id, NoTerm)]
            /\ UNCHANGED <<entries, forgetters>>
       ELSE Alias(id) /\ UNCHANGED caller
  /\ UNCHANGED <<sourceToID, spawned, done, startedFor>>

\* pty.New, outside the lock; it may fail.
CreateSpawn(p) ==
  /\ caller[p].pc = "spawn"
  /\ \/ /\ spawned < MaxSpawns
        /\ spawned' = spawned + 1
        /\ startedFor' = [startedFor EXCEPT ![spawned + 1] = SourceOf[caller[p].id]]
        /\ caller' = [caller EXCEPT ![p] = Busy("insert", caller[p].id, spawned + 1)]
     \/ /\ caller' = [caller EXCEPT ![p] = Idle]
        /\ UNCHANGED <<spawned, startedFor>>
  /\ UNCHANGED <<entries, sourceToID, done, forgetters>>

\* The second critical section registers the terminal.
CreateInsert(p) ==
  /\ caller[p].pc = "insert"
  /\ LET id == caller[p].id
         t == caller[p].term
     IN  /\ entries' = [entries EXCEPT ![id] = Entry(t, SourceOf[id])]
         /\ sourceToID' = IF SourceOf[id] = NoSource THEN sourceToID
                          ELSE [sourceToID EXCEPT ![SourceOf[id]] = id]
         /\ forgetters' = forgetters \cup {[id |-> id, term |-> t]}
  /\ caller' = [caller EXCEPT ![p] = Idle]
  /\ UNCHANGED <<spawned, done, startedFor>>

-----------------------------------------------------------------------------
(* Add, Remove and cleanup *)

\* Mutant of Replaced: a replaced terminal is not closed.
ReplacedKept(t) == Idle

\* Add still has to close the terminal it replaced.
Replaced(t) == IF t = NoTerm THEN Idle ELSE Busy("close", NoId, t)

\* Add registers a running in-process terminal under an id of its own.
Add(p, id) ==
  /\ caller[p] = Idle /\ SourceOf[id] = NoSource
  /\ spawned < MaxSpawns
  /\ spawned' = spawned + 1
  /\ entries' = [entries EXCEPT ![id] = Entry(spawned + 1, NoSource)]
  /\ forgetters' = forgetters \cup {[id |-> id, term |-> spawned + 1]}
  /\ caller' = [caller EXCEPT ![p] = Replaced(entries[id].term)]
  /\ UNCHANGED <<sourceToID, done, startedFor>>

\* Remove's critical section.  Its caller's Get is an earlier step: by now the
\* terminal may have ended.
Remove(p, id) ==
  /\ caller[p] = Idle /\ entries[id] # NoEntry
  /\ entries' = [entries EXCEPT ![id] = NoEntry]
  /\ sourceToID' = DropSource(id, entries[id].source)
  /\ caller' = [caller EXCEPT ![p] = Busy("close", NoId, entries[id].term)]
  /\ UNCHANGED <<spawned, done, startedFor, forgetters>>

\* Close, after the lock is released.
Close(p) ==
  /\ caller[p].pc = "close"
  /\ done' = done \cup {caller[p].term}
  /\ caller' = [caller EXCEPT ![p] = Idle]
  /\ UNCHANGED <<entries, sourceToID, spawned, startedFor, forgetters>>

\* The terminal's process exits.
Exit ==
  /\ \E t \in 1..spawned : t \notin done /\ done' = done \cup {t}
  /\ UNCHANGED <<entries, sourceToID, spawned, startedFor, forgetters, caller>>

\* Mutant of Forgets: the cleanup does not look whether the id was reused.
ForgetsAny(f) == entries[f.id] # NoEntry

\* forgetWhenDone acts only while the id still refers to its terminal.
Forgets(f) == entries[f.id].term = f.term

\* forgetWhenDone wakes up.
Forget ==
  /\ \E f \in forgetters :
       /\ f.term \in done
       /\ forgetters' = forgetters \ {f}
       /\ IF Forgets(f)
            THEN /\ entries' = [entries EXCEPT ![f.id] = NoEntry]
                 /\ sourceToID' = DropSource(f.id, entries[f.id].source)
            ELSE UNCHANGED <<entries, sourceToID>>
  /\ UNCHANGED <<spawned, done, startedFor, caller>>

-----------------------------------------------------------------------------

Init ==
  /\ entries = [id \in Ids |-> NoEntry]
  /\ sourceToID = [s \in Sources |-> NoId]
  /\ spawned = 0 /\ done = {}
  /\ startedFor = [t \in Terms |-> NoSource]
  /\ forgetters = {}
  /\ caller = [p \in Callers |-> Idle]

Next ==
  \/ \E p \in Creators, id \in Ids : CreateLookup(p, id) \/ Add(p, id)
  \/ \E p \in Creators : CreateSpawn(p) \/ CreateInsert(p)
  \/ \E p \in Removers, id \in Ids : Remove(p, id)
  \/ \E p \in Callers : Close(p)
  \/ Exit \/ Forget

Spec == Init /\ [][Next]_vars

-----------------------------------------------------------------------------
(* Properties *)

Registered == {entries[id].term : id \in Ids}
InHand == {caller[p].term : p \in Callers}

\* No terminal runs unreachable: it is registered, or a goroutine is about to
\* register or to close it.  A leaked one would keep its process for good.
NoLeakedTerminal == \A t \in 1..spawned : t \notin done => t \in Registered \cup InHand

\* At rest a source has at most one running terminal: two ids of one
\* multiplexer session share it (dedup by source key).
OneTerminalPerSource ==
  (\A p \in Callers : caller[p] = Idle) =>
    \A t, u \in {t \in Registered : Alive(t)} :
      startedFor[t] # NoSource /\ startedFor[t] = startedFor[u] => t = u

\* A running terminal loses its registration only to Remove or Add, never to
\* the late cleanup of a terminal that had the id before (forgetWhenDone).
LateCleanupHarmless ==
  [][\A id \in Ids :
       (Got(id) /\ entries'[id] # entries[id])
         => \E p \in Callers : caller'[p] = Busy("close", NoId, entries[id].term)]_vars
=============================================================================
