------------------------------ MODULE Watcher -------------------------------
(***************************************************************************)
(* The session watcher (cmd/scomp/session_watch.go): one goroutine that    *)
(* turns file system events and the notifications of a tmux control client *)
(* into scans of the catalog.  It says which changes of the multiplexers   *)
(* the catalog hears of; that much SessionCatalog leaves open.             *)
(*                                                                         *)
(* External: tmux, which has one socket for all its sessions and tells an  *)
(* attached control client when they change; Screen, which has a socket    *)
(* for each session; the directories of the sockets; inotify, which watches*)
(* what exists and stops when it is removed.                               *)
(***************************************************************************)
EXTENDS SessionCatalog

CONSTANTS FsCap,     \* capacity of the file system's event queue
          MaxFaults, \* bound: failing calls, and ends of the control client
          TmuxSets   \* bound: which keys may be tmux sessions, the rest being Screen's

ASSUME WatcherAssumption ==
  /\ FsCap \in Nat \ {0} /\ MaxFaults \in Nat
  /\ TmuxSets \subseteq SUBSET Keys

VARIABLES
  tmuxKeys,  \* the keys that are tmux sessions; the others are Screen's
  server,    \* the tmux server runs and its socket exists
  there,     \* the socket directories that exist
  cleared,   \* those that were removed (bound: each once)
  watched,   \* the map of the same name
  hooked,    \* what inotify watches
  fsEvents,  \* watcher.Events
  lost,      \* an event found the queue full (history)
  tmuxChanged, \* there is a token in the channel
  monitor,   \* control client: "off", "starting", "attached" or "ended"
  target,    \* the session it attaches to
  pc,        \* what the watcher's goroutine does next
  cause,     \* what it handles: "setup", "fs" or "tmux"
  failed,    \* the last listing failed (history)
  covered,   \* a listing began after the directories were first watched (history)
  faults     \* failing calls so far (bound)

outsideVars == <<tmuxKeys, server, there, cleared>>
fsVars == <<watched, hooked, fsEvents, lost>>
monitorVars == <<tmuxChanged, monitor, target>>
loopVars == <<pc, cause, failed, covered, faults>>
watchVars == <<outsideVars, fsVars, monitorVars, loopVars>>
wvars == <<catalogVars, watchVars>>

Dirs == {"tmux", "screen"}
Parent == [tmux |-> "tmuxParent", screen |-> "screenParent"]
Event(op, name) == [op |-> op, name |-> name]
TmuxNow == mux \cap tmuxKeys
DirOf(k) == IF k \in tmuxKeys THEN "tmux" ELSE "screen"
UsedDirs == {DirOf(k) : k \in Keys}

\* The watcher is in or before watchDir, and scans afterwards.
Handling == cause = "fs" /\ pc \in Dirs \cup {Parent[d] : d \in Dirs}

\* A scan by the watcher is certain to come: events wait, or the control client
\* is on its way and will report, or end.
Pending ==
  \/ dirty \/ Handling \/ fsEvents # << >> \/ tmuxChanged
  \/ monitor \in {"starting", "ended"}

\* Events that inotify delivers, as far as they fit.
Deliver(events) ==
  LET room == FsCap - Len(fsEvents)
      n == IF Len(events) <= room THEN Len(events) ELSE room
  IN  /\ fsEvents' = fsEvents \o SubSeq(events, 1, n)
      /\ lost' = (lost \/ n < Len(events))

If(cond, seq) == IF cond THEN seq ELSE << >>
Fault == faults < MaxFaults /\ faults' = faults + 1

-----------------------------------------------------------------------------
(* The multiplexers and their directories (external) *)

\* A socket appears in d, which is made when it is missing.
SocketAppears(d) ==
  /\ there' = there \cup {d}
  /\ Deliver(If(d \in hooked, <<Event("create", "socket")>>)
             \o If(d \notin there /\ Parent[d] \in hooked, <<Event("create", d)>>))

\* The tmux server starts: its socket is there before its first session is.
ServerStart ==
  /\ ~server /\ eventCount < MaxEvents /\ tmuxKeys # {}
  /\ server' = TRUE
  /\ SocketAppears("tmux")
  /\ UNCHANGED <<catalogVars, tmuxKeys, cleared, watched, hooked, monitorVars, loopVars>>

Changes(newMux) ==
  /\ eventCount < MaxEvents /\ eventCount' = eventCount + 1
  /\ mux' = newMux
  /\ UNCHANGED <<dirty, scanVars, ptyVars, subVars, tmuxKeys, cleared, watched, hooked, monitor, target,
                 loopVars>>
  /\ missed' = (missed \/ ~Pending')

\* An attached control client hears %sessions-changed.
Notified == tmuxChanged' = (tmuxChanged \/ monitor = "attached")

SessionStart(k) ==
  /\ k \notin mux /\ (k \in tmuxKeys => server)
  /\ IF k \in tmuxKeys
       THEN Notified /\ UNCHANGED <<there, fsEvents, lost>>
       ELSE SocketAppears("screen") /\ UNCHANGED tmuxChanged
  /\ UNCHANGED server
  /\ Changes(mux \cup {k})

\* The last tmux session takes the server with it; its socket may stay.
SessionEnd(k) ==
  /\ k \in mux /\ UNCHANGED there
  /\ IF k \in tmuxKeys
       THEN /\ Notified
            /\ server' = (TmuxNow # {k})
            /\ \/ UNCHANGED <<fsEvents, lost>>
               \/ TmuxNow = {k} /\ "tmux" \in hooked /\ Deliver(<<Event("remove", "socket")>>)
       ELSE /\ Deliver(If("screen" \in hooked, <<Event("remove", "socket")>>))
            /\ UNCHANGED <<tmuxChanged, server>>
  /\ Changes(mux \ {k})

\* A directory without sessions is removed; both its own watch and its
\* parent's report it.
DirRemoved(d) ==
  /\ d \in (there \cap UsedDirs) \ cleared
  /\ IF d = "tmux" THEN ~server ELSE mux \subseteq tmuxKeys
  /\ there' = there \ {d} /\ hooked' = hooked \ {d} /\ cleared' = cleared \cup {d}
  /\ Deliver(If(d \in hooked, <<Event("remove", d)>>)
             \o If(Parent[d] \in hooked, <<Event("remove", d)>>))
  /\ UNCHANGED <<catalogVars, tmuxKeys, server, watched, monitorVars, loopVars>>

-----------------------------------------------------------------------------
(* The control client: monitorTmuxSessions in a goroutine of its own *)

\* Mutant of Attached: isTmuxSessionChange does not know %session-changed.
AttachedSilently == UNCHANGED tmuxChanged

\* It is told %session-changed as it attaches.
Attached == tmuxChanged' = TRUE

MonitorAttach ==
  /\ monitor = "starting" /\ target \in mux
  /\ monitor' = "attached" /\ Attached
  /\ UNCHANGED <<catalogVars, outsideVars, fsVars, target, loopVars>>

\* It ends with its server, when its session is gone already, or for any
\* other reason; the error is sent to tmuxDone.
MonitorEnd ==
  /\ \/ monitor = "starting" /\ target \notin mux /\ UNCHANGED faults
     \/ monitor = "attached" /\ ~server /\ UNCHANGED faults
     \/ monitor \in {"starting", "attached"} /\ Fault
  /\ monitor' = "ended"
  /\ UNCHANGED <<catalogVars, outsideVars, fsVars, tmuxChanged, target, pc, cause, failed, covered>>

-----------------------------------------------------------------------------
(* The watcher's goroutine *)

\* fsnotify.NewWatcher fails: nothing is watched at all.
NewWatcherFails ==
  /\ pc = "tmux" /\ cause = "setup" /\ watched = {} /\ Fault
  /\ pc' = "dead"
  /\ UNCHANGED <<catalogVars, outsideVars, fsVars, monitorVars, cause, failed, covered>>

\* Mutant of AfterDir: the scan is left to the control client while it runs.
AfterDirNoScan(d) ==
  /\ pc' = IF d = "tmux" THEN "screen" ELSE IF cause = "setup" \/ monitor = "attached" THEN "monitor" ELSE "scan"
  /\ dirty' = (d = "screen" /\ cause # "setup" /\ monitor # "attached")

\* watchDir(tmuxDir), then watchDir(screenDir), then a scan for an event.
AfterDir(d) ==
  /\ pc' = IF d = "tmux" THEN "screen" ELSE IF cause = "setup" THEN "monitor" ELSE "scan"
  /\ dirty' = (d = "screen" /\ cause # "setup")

\* watcher.Add succeeds.
Hook(n) == watched' = watched \cup {n} /\ hooked' = hooked \cup {n}

\* watchDir: nothing to do, a watch, an error, or the parent when d is missing.
WatchDir(d) ==
  /\ pc = d
  /\ \/ d \in watched /\ AfterDir(d) /\ UNCHANGED <<watched, hooked, faults>>
     \/ d \notin watched /\ d \in there /\ Hook(d) /\ AfterDir(d) /\ UNCHANGED faults
     \/ d \notin watched /\ d \in there /\ Fault /\ AfterDir(d) /\ UNCHANGED <<watched, hooked>>
     \/ /\ d \notin watched /\ d \notin there
        /\ pc' = Parent[d]
        /\ UNCHANGED <<dirty, watched, hooked, faults>>
  /\ UNCHANGED <<mux, eventCount, missed, scanVars, ptyVars, subVars, outsideVars, fsEvents, lost,
                 monitorVars, cause, failed, covered>>

\* ... whose own directory may be missing, too.
WatchParent(d) ==
  /\ pc = Parent[d] /\ AfterDir(d)
  /\ \/ Parent[d] \in watched /\ UNCHANGED <<watched, hooked, faults>>
     \/ Parent[d] \notin watched /\ Hook(Parent[d]) /\ UNCHANGED faults
     \/ Parent[d] \notin watched /\ Fault /\ UNCHANGED <<watched, hooked>>
  /\ UNCHANGED <<mux, eventCount, missed, scanVars, ptyVars, subVars, outsideVars, fsEvents, lost,
                 monitorVars, cause, failed, covered>>

\* Mutant of Unwatched: the map keeps a directory that was removed.
UnwatchedNever(ev) == watched

\* A directory that was removed leaves the map.
Unwatched(ev) == IF ev.op = "remove" THEN watched \ {ev.name} ELSE watched

\* case event := <-watcher.Events.
TakeFsEvent ==
  /\ pc = "select" /\ fsEvents # << >>
  /\ fsEvents' = Tail(fsEvents) /\ watched' = Unwatched(Head(fsEvents))
  /\ pc' = "tmux" /\ cause' = "fs"
  /\ UNCHANGED <<catalogVars, outsideVars, hooked, lost, monitorVars, failed, covered, faults>>

\* case <-tmuxChanged and case err := <-tmuxDone.
TakeTmux ==
  /\ pc = "select"
  /\ \/ tmuxChanged /\ tmuxChanged' = FALSE /\ UNCHANGED monitor
     \/ monitor = "ended" /\ monitor' = "off" /\ UNCHANGED tmuxChanged
  /\ dirty' = TRUE /\ pc' = "scan" /\ cause' = "tmux"
  /\ UNCHANGED <<mux, eventCount, missed, scanVars, ptyVars, subVars, outsideVars, fsVars, target,
                 failed, covered, faults>>

\* Mutant of ScanOver: the monitor is started once, at set-up.
ScanOverNoMonitor ==
  /\ pc = "scan" /\ ~dirty /\ scans["watch"].pc = "idle"
  /\ pc' = "select"
  /\ UNCHANGED <<catalogVars, outsideVars, fsVars, monitorVars, cause, failed, covered, faults>>

\* catalog.scan(true) has returned; after an event the monitor is started.
ScanOver ==
  /\ pc = "scan" /\ ~dirty /\ scans["watch"].pc = "idle"
  /\ pc' = IF cause = "fs" THEN "monitor" ELSE "select"
  /\ UNCHANGED <<catalogVars, outsideVars, fsVars, monitorVars, cause, failed, covered, faults>>

\* startTmuxMonitor, with a listing of its own that may fail.
StartTmuxMonitor ==
  /\ pc = "monitor" /\ pc' = "select"
  /\ \/ (monitor # "off" \/ TmuxNow = {}) /\ UNCHANGED <<monitor, target, faults>>
     \/ monitor = "off" /\ Fault /\ UNCHANGED <<monitor, target>>
     \/ /\ monitor = "off" /\ monitor' = "starting"
        /\ target' \in TmuxNow
        /\ UNCHANGED faults
  /\ UNCHANGED <<catalogVars, outsideVars, fsVars, tmuxChanged, cause, failed, covered>>

\* A scan by either goroutine, with the history of listings.
Scan(s) ==
  /\ ScanStep(s)
  /\ failed' = IF scanMu = Free THEN scans'[s].list # mux ELSE failed
  /\ covered' = (covered \/ (scanMu = Free /\ (cause # "setup" \/ pc \in {"monitor", "select"})))
  /\ UNCHANGED <<outsideVars, fsVars, monitorVars, pc, cause, faults>>

-----------------------------------------------------------------------------

WatcherInit ==
  /\ CatalogInit
  /\ tmuxKeys \in TmuxSets
  /\ server = (TmuxNow # {})
  /\ there \in {D \in SUBSET Dirs : (Dirs \ UsedDirs) \cup {DirOf(k) : k \in mux} \subseteq D} /\ cleared = {}
  /\ watched = {} /\ hooked = {} /\ fsEvents = << >> /\ lost = FALSE
  /\ tmuxChanged = FALSE /\ monitor = "off" /\ target = NoId
  /\ pc = "tmux" /\ cause = "setup"
  /\ failed = FALSE /\ covered = FALSE /\ faults = 0

Loop ==
  \/ (\E d \in Dirs : WatchDir(d) \/ WatchParent(d))
  \/ TakeFsEvent \/ TakeTmux \/ ScanOver \/ StartTmuxMonitor

\* The first connection's refresh; what it does with the result is its own.
Refresh == Dial /\ UNCHANGED watchVars

WatcherNext ==
  \/ ServerStart
  \/ (\E k \in Keys : SessionStart(k) \/ SessionEnd(k))
  \/ (\E d \in Dirs : DirRemoved(d))
  \/ MonitorAttach \/ MonitorEnd \/ NewWatcherFails \/ Loop
  \/ (\E s \in Scanners : Scan(s))
  \/ Refresh

WatcherSpec == WatcherInit /\ [][WatcherNext]_wvars

\* The goroutines run, and the control client attaches or ends.
WatcherFairness ==
  /\ WF_wvars(Loop) /\ WF_wvars(MonitorAttach \/ MonitorEnd)
  /\ \A s \in Scanners : WF_wvars(Scan(s))

WatcherFairSpec == WatcherSpec /\ WatcherFairness

-----------------------------------------------------------------------------
(* Properties *)

Quiet == NoScan /\ ~Pending /\ ~failed

\* While the control client is attached the catalog has the tmux sessions that
\* exist, once nothing is outstanding: also those that came between a scan and
\* the client's attach, of which no event told (monitorTmuxSessions).
AttachedIsCurrent ==
  (Quiet /\ monitor = "attached") => KnownKeys \cap tmuxKeys = TmuxNow

\* While its directory is watched the catalog has the Screen sessions that
\* exist, through removals and new directories, from the first listing after
\* set-up on (watchDir before scan).
WatchedIsCurrent ==
  (Quiet /\ covered /\ "screen" \in hooked) => KnownKeys \ tmuxKeys = mux \ tmuxKeys

\* The map never claims a watch that is gone for good: the event that clears it
\* is on its way, unless the queue overflowed (watched, watchDir).
WatchNotForgotten ==
  \A n \in watched \ hooked : lost \/ \E i \in DOMAIN fsEvents : fsEvents[i] = Event("remove", n)

Abstract == INSTANCE SessionCatalog WITH dirty <- Pending, Rumours <- TRUE

\* What the watcher hears is what the catalog's specification allows: a change
\* is announced or missed, a scan is owed until it lists, and none is forgotten.
ImplementsCatalog == Abstract!CatalogSpec

\* With no control client running, an event of the file system starts one as
\* long as there are tmux sessions (startTmuxMonitor, also after tmuxDone).  An
\* event that is taken between a client's end and tmuxDone starts none.
\* Only a call that fails from then on is an excuse: not a client that ended,
\* even by failing.
MonitorRetried ==
  \A n \in 0..MaxFaults :
    (monitor = "off" /\ fsEvents # << >> /\ TmuxNow # {} /\ faults = n)
      ~> (monitor = "starting" \/ TmuxNow = {} \/ faults > n)
=============================================================================
