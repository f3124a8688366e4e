--------------------------- MODULE LinkedSessions ---------------------------
(***************************************************************************)
(* The tmux sessions that the agent itself makes: activating tmux session  *)
(* X runs "tmux new-session -A -t =X -s scomp-X", whose session outlives   *)
(* the PTY it was made from.  A scan kills it after it removed X, and      *)
(* shutdown kills what activations have recorded                           *)
(* (cmd/scomp/session_catalog.go, cmd/scomp/multiplexer.go).  Registration *)
(* is SessionRegistry's.                                                   *)
(*                                                                         *)
(* tmux is external: its client needs a moment to make the session.        *)
(* Sources here are tmux's; a Screen session has nothing of this.          *)
(***************************************************************************)
EXTENDS SessionRegistry

VARIABLES
  linked,     \* sources X whose scomp-X exists
  starting,   \* terminals whose tmux client has not made its session yet
  activated,  \* the list of the same name
  owed,       \* source that a creator has activated and not recorded yet
  toKill,     \* source whose linked session a remover still has to kill
  names,      \* what cleanup still has to kill
  phase,      \* of the process: "up", "cleanup" or "exited"
  escaped     \* sources whose client made its session during cleanup, or whose
              \* kill failed there (history)

linkVars == <<linked, starting, escaped>>
listVars == <<activated, owed, toKill>>
shutVars == <<names, phase>>
lvars == <<vars, linkVars, listVars, shutVars>>

Runs == phase # "exited"

\* kill-session kills the session of that exact name, if there is one.
Killed(s) == linked' = linked \ {s}

-----------------------------------------------------------------------------
(* lazySession.activate *)

\* CreateWithID returns at once when the source has a terminal already.
ActivateLookup(p, id) ==
  /\ Runs /\ owed[p] = NoSource
  /\ CreateLookup(p, id)
  /\ owed' = [owed EXCEPT ![p] = IF MustSpawn(id) THEN NoSource ELSE SourceOf[id]]
  /\ UNCHANGED <<linkVars, activated, toKill, shutVars>>

\* pty.New starts the tmux client.
ActivateSpawn(p) ==
  /\ Runs /\ CreateSpawn(p)
  /\ starting' = starting \cup {t \in (spawned + 1)..spawned' : startedFor'[t] # NoSource}
  /\ UNCHANGED <<linked, escaped, listVars, shutVars>>

ActivateInsert(p) ==
  /\ Runs /\ CreateInsert(p)
  /\ owed' = [owed EXCEPT ![p] = SourceOf[caller[p].id]]
  /\ UNCHANGED <<linkVars, activated, toKill, shutVars>>

OnTmuxActivated(p) ==
  /\ Runs /\ owed[p] # NoSource
  /\ activated' = activated \cup {owed[p]}
  /\ owed' = [owed EXCEPT ![p] = NoSource]
  /\ UNCHANGED <<vars, linkVars, toKill, shutVars>>

AddFake(p, id) ==
  /\ Runs /\ owed[p] = NoSource
  /\ Add(p, id)
  /\ UNCHANGED <<linkVars, listVars, shutVars>>

-----------------------------------------------------------------------------
(* A scan removes a session *)

\* Only the catalog's sessions are removed, never a simulated one.
ScanRemoves(p, id) ==
  /\ Runs /\ toKill[p] = NoSource /\ SourceOf[id] # NoSource
  /\ Remove(p, id)
  /\ toKill' = [toKill EXCEPT ![p] = SourceOf[id]]
  /\ UNCHANGED <<linkVars, activated, owed, shutVars>>

CloseTerminal(p) ==
  /\ Runs /\ Close(p)
  /\ UNCHANGED <<linkVars, listVars, shutVars>>

\* KillLinkedSession after Remove has returned; its error is ignored.
ScanKills(p) ==
  /\ Runs /\ caller[p] = Idle /\ toKill[p] # NoSource
  /\ Killed(toKill[p]) \/ UNCHANGED linked
  /\ toKill' = [toKill EXCEPT ![p] = NoSource]
  /\ UNCHANGED <<vars, starting, escaped, activated, owed, shutVars>>

-----------------------------------------------------------------------------
(* Shutdown: the signal's goroutine, beside all the others *)

\* Mutant of TakeNames: the list is emptied before it is copied.
TakeNamesSwapped ==
  /\ phase = "up" /\ phase' = "cleanup"
  /\ activated' = {} /\ names' = activated'
  /\ UNCHANGED <<vars, linkVars, owed, toKill>>

\* cleanup takes the list under its lock ...
TakeNames ==
  /\ phase = "up" /\ phase' = "cleanup"
  /\ names' = activated /\ activated' = {}
  /\ UNCHANGED <<vars, linkVars, owed, toKill>>

\* ... kills what is on it ...
CleanupKills ==
  /\ phase = "cleanup"
  /\ \E s \in names :
       /\ \/ Killed(s) /\ UNCHANGED escaped
          \/ escaped' = escaped \cup {s} /\ UNCHANGED linked
       /\ names' = names \ {s}
  /\ UNCHANGED <<vars, starting, listVars, phase>>

\* ... and os.Exit ends the process wherever its goroutines are.
ExitProcess ==
  /\ phase = "cleanup" /\ names = {} /\ phase' = "exited"
  /\ UNCHANGED <<vars, linkVars, listVars, names>>

-----------------------------------------------------------------------------
(* tmux and its clients (external) *)

\* The client makes the session, or attaches to it if it is there (-A).  Close
\* returns before its client is dead; with the process all clients end.
ClientLinks ==
  /\ Runs
  /\ \E t \in starting :
       /\ starting' = starting \ {t}
       /\ linked' = linked \cup {startedFor[t]}
       /\ escaped' = IF phase = "up" THEN escaped ELSE escaped \cup {startedFor[t]}
  /\ UNCHANGED <<vars, listVars, shutVars>>

\* Somebody else kills the session.
LinkedEnds ==
  /\ Runs /\ \E s \in linked : Killed(s)
  /\ UNCHANGED <<vars, starting, escaped, listVars, shutVars>>

\* A PTY's process exits, and the registry forgets it.
TerminalEnds ==
  /\ Runs /\ (Exit \/ Forget)
  /\ starting' = starting \ (done' \ done)
  /\ UNCHANGED <<linked, escaped, listVars, shutVars>>

-----------------------------------------------------------------------------

LinkedInit ==
  /\ Init
  /\ linked = {} /\ starting = {} /\ escaped = {}
  /\ activated = {} /\ owed = [p \in Creators |-> NoSource]
  /\ toKill = [p \in Removers |-> NoSource]
  /\ names = {} /\ phase = "up"

LinkedNext ==
  \/ \E p \in Creators, id \in Ids : ActivateLookup(p, id) \/ AddFake(p, id)
  \/ \E p \in Creators : ActivateSpawn(p) \/ ActivateInsert(p) \/ OnTmuxActivated(p)
  \/ \E p \in Removers, id \in Ids : ScanRemoves(p, id)
  \/ \E p \in Removers : ScanKills(p)
  \/ \E p \in Callers : CloseTerminal(p)
  \/ TakeNames \/ CleanupKills \/ ExitProcess
  \/ ClientLinks \/ LinkedEnds \/ TerminalEnds

LinkedSpec == LinkedInit /\ [][LinkedNext]_lvars

-----------------------------------------------------------------------------
(* Properties *)

\* Sources whose activation is on its way to the list.
Unrecorded ==
  {owed[p] : p \in Creators}
    \cup {SourceOf[caller[p].id] : p \in {q \in Creators : caller[q].pc = "insert"}}

\* Every session the agent made in the user's tmux server is killed by the time
\* the process has exited, whatever scans, exits and reattachments came before,
\* except where the shutdown overtook the activation itself, its client, or
\* where the kill command failed (onTmuxActivated, cleanup).
LinkedAccounted == linked \subseteq activated \cup names \cup Unrecorded \cup escaped
=============================================================================
