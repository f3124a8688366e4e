---------------------------- MODULE WatcherProofs ----------------------------
(***************************************************************************)
(* What the watcher hears is enough: while the control client is attached, *)
(* or Screen's directory is watched, a quiet catalog is a current one; no  *)
(* watch is claimed that is gone; and the watcher implements the abstract  *)
(* events of the catalog's specification.  All of it holds for any number  *)
(* of sessions, of failing calls and of events that the queue can hold.    *)
(*                                                                         *)
(* The argument: a change that is heard makes the watcher Pending, which   *)
(* only a listing of its own ends, and what that listing saw is current.   *)
(***************************************************************************)
EXTENDS Watcher, SessionCatalogProofs, SequenceTheorems

Names == Dirs \cup {Parent[d] : d \in Dirs}
Events == [op : {"create", "remove"}, name : Dirs \cup {"socket"}]

WatchType ==
  /\ dirty \in BOOLEAN /\ missed \in BOOLEAN /\ tmuxChanged \in BOOLEAN
  /\ lost \in BOOLEAN /\ failed \in BOOLEAN /\ covered \in BOOLEAN
  /\ watched \subseteq Names /\ hooked \subseteq Names
  /\ fsEvents \in Seq(Events) /\ Len(fsEvents) <= FsCap

\* Where the watcher's goroutine is: a scan that is owed is the next thing it
\* does, and no listing counts as covering before the directories are set up.
Phase ==
  /\ dirty => pc = "scan"
  /\ pc \in Names => cause \in {"setup", "fs"}
  /\ covered => cause # "setup" \/ pc \in {"monitor", "select"}

\* The last listing, if nothing is outstanding and it did not fail, saw what is
\* there now, as far as the watcher is told of changes.
Current ==
  (~Pending /\ ~failed) =>
    /\ monitor = "attached" => Seen \cap tmuxKeys = TmuxNow
    /\ covered /\ "screen" \in hooked => Seen \ tmuxKeys = mux \ tmuxKeys

WatchInv == ScanInv /\ WatchType /\ Phase /\ Current /\ WatchNotForgotten

-----------------------------------------------------------------------------
(* The file system's events *)

\* The queue keeps what it has; the first of the new events fits or is lost.
LEMMA Delivered ==
  ASSUME WatchType, NEW evs \in Seq(Events), Deliver(evs)
  PROVE  /\ fsEvents' \in Seq(Events) /\ Len(fsEvents') <= FsCap
         /\ lost' \in BOOLEAN /\ (lost => lost')
         /\ \A i \in DOMAIN fsEvents : i \in DOMAIN fsEvents' /\ fsEvents'[i] = fsEvents[i]
         /\ fsEvents # << >> => fsEvents' # << >>
         /\ evs # << >> =>
              /\ fsEvents' # << >>
              /\ lost' \/ \E i \in DOMAIN fsEvents' : fsEvents'[i] = evs[1]
<1> DEFINE room == FsCap - Len(fsEvents)
           n == IF Len(evs) <= room THEN Len(evs) ELSE room
           fit == SubSeq(evs, 1, n)
<1>1. /\ fsEvents \in Seq(Events) /\ Len(fsEvents) \in Nat /\ Len(evs) \in Nat
      /\ FsCap \in Nat /\ FsCap >= 1 /\ Len(fsEvents) <= FsCap
  BY WatcherAssumption DEF WatchType
<1>2. /\ fsEvents' = fsEvents \o fit /\ lost' = (lost \/ n < Len(evs))
  BY DEF Deliver
<1>3. room \in Nat /\ n \in Nat /\ n <= Len(evs) /\ n <= room
  BY <1>1
<1>4. lost' \in BOOLEAN /\ (lost => lost') /\ (n < Len(evs) => lost')
  BY <1>2
<1> HIDE DEF n
<1>5. fit \in Seq(Events) /\ Len(fit) = n /\ \A i \in 1..n : fit[i] = evs[i]
  BY <1>3
<1> HIDE DEF fit
<1>6. /\ fsEvents' \in Seq(Events) /\ Len(fsEvents') = Len(fsEvents) + n
      /\ \A i \in 1..Len(fsEvents) : fsEvents'[i] = fsEvents[i]
      /\ \A i \in 1..n : fsEvents'[Len(fsEvents) + i] = fit[i]
  <2>1. /\ fsEvents \o fit \in Seq(Events) /\ Len(fsEvents \o fit) = Len(fsEvents) + Len(fit)
        /\ \A i \in 1..(Len(fsEvents) + Len(fit)) :
             (fsEvents \o fit)[i] = IF i <= Len(fsEvents) THEN fsEvents[i] ELSE fit[i - Len(fsEvents)]
    BY <1>1, <1>5, ConcatProperties
  <2>2. /\ fsEvents' \in Seq(Events) /\ Len(fsEvents') = Len(fsEvents) + n
        /\ \A i \in 1..(Len(fsEvents) + n) :
             fsEvents'[i] = IF i <= Len(fsEvents) THEN fsEvents[i] ELSE fit[i - Len(fsEvents)]
    BY <1>2, <1>5, <2>1
  <2>3. \A i \in 1..Len(fsEvents) : i \in 1..(Len(fsEvents) + n) /\ i <= Len(fsEvents)
    BY <1>1, <1>3
  <2>4. \A i \in 1..n : /\ Len(fsEvents) + i \in 1..(Len(fsEvents) + n)
                        /\ ~(Len(fsEvents) + i <= Len(fsEvents))
                        /\ (Len(fsEvents) + i) - Len(fsEvents) = i
    BY <1>1, <1>3
  <2>5. \A i \in 1..Len(fsEvents) : fsEvents'[i] = fsEvents[i]
    BY <2>2, <2>3
  <2>6. \A i \in 1..n : fsEvents'[Len(fsEvents) + i] = fit[i]
    BY <2>2, <2>4
  <2> QED BY <2>2, <2>5, <2>6
<1>7. DOMAIN fsEvents' = 1..(Len(fsEvents) + n) /\ DOMAIN fsEvents = 1..Len(fsEvents)
  BY <1>1, <1>6
<1>8. Len(fsEvents') <= FsCap
  BY <1>1, <1>3, <1>6
<1>9. \A i \in DOMAIN fsEvents : i \in DOMAIN fsEvents' /\ fsEvents'[i] = fsEvents[i]
  BY <1>1, <1>3, <1>6, <1>7
<1>10. fsEvents # << >> => fsEvents' # << >>
  <2>1. fsEvents # << >> => Len(fsEvents) > 0
    BY <1>1
  <2>2. fsEvents' = << >> => Len(fsEvents') = 0
    BY <1>6
  <2> QED BY <1>1, <1>3, <1>6, <2>1, <2>2
<1>11. ASSUME evs # << >>
       PROVE  /\ fsEvents' # << >>
              /\ lost' \/ \E i \in DOMAIN fsEvents' : fsEvents'[i] = evs[1]
  <2>1. Len(evs) >= 1
    BY <1>1, <1>11
  <2>2. CASE n = 0
    <3>1. fsEvents # << >> /\ n < Len(evs)
      BY <1>1, <2>1, <2>2 DEF n
    <3> QED BY <1>4, <1>10, <3>1
  <2>3. CASE n # 0
    <3>1. 1 \in 1..n /\ Len(fsEvents) + 1 \in DOMAIN fsEvents'
      BY <1>1, <1>3, <1>7, <2>3
    <3>2. fsEvents'[Len(fsEvents) + 1] = evs[1]
      BY <1>5, <1>6, <3>1
    <3>3. fsEvents' # << >>
      BY <3>1
    <3> QED BY <3>1, <3>2, <3>3
  <2> QED BY <2>2, <2>3
<1> QED BY <1>4, <1>6, <1>8, <1>9, <1>10, <1>11

\* Up to two events, each delivered if there is a watch that hears it.
LEMMA EventPairs ==
  ASSUME NEW e \in Events, NEW f \in Events
  PROVE  /\ << >> \in Seq(Events) /\ <<e>> \in Seq(Events)
         /\ <<e>> # << >> /\ <<e>>[1] = e
         /\ \A x, y \in {<< >>, <<e>>, <<f>>} :
              x \o y \in Seq(Events) /\ (x = <<e>> => x \o y # << >> /\ (x \o y)[1] = e)
<1>1. /\ <<e>> \in Seq(Events) /\ <<f>> \in Seq(Events) /\ << >> \in Seq(Events)
      /\ Len(<<e>>) = 1 /\ <<e>>[1] = e /\ <<e>> # << >>
  OBVIOUS
<1>2. ASSUME NEW x \in {<< >>, <<e>>, <<f>>}, NEW y \in {<< >>, <<e>>, <<f>>}
      PROVE  x \o y \in Seq(Events) /\ (x = <<e>> => x \o y # << >> /\ (x \o y)[1] = e)
  <2>1. x \in Seq(Events) /\ y \in Seq(Events)
    BY <1>1
  <2>2. /\ x \o y \in Seq(Events) /\ Len(x \o y) = Len(x) + Len(y)
        /\ \A i \in 1..(Len(x) + Len(y)) : (x \o y)[i] = IF i <= Len(x) THEN x[i] ELSE y[i - Len(x)]
    BY <2>1, ConcatProperties
  <2>3. Len(x) \in Nat /\ Len(y) \in Nat
    BY <2>1
  <2>4. ASSUME x = <<e>> PROVE x \o y # << >> /\ (x \o y)[1] = e
    <3>1. Len(x) = 1 /\ 1 \in 1..(Len(x) + Len(y)) /\ 1 <= Len(x)
      BY <1>1, <2>3, <2>4
    <3>2. (x \o y)[1] = x[1] /\ Len(x \o y) # 0
      BY <2>2, <2>3, <3>1
    <3> QED BY <1>1, <2>2, <2>4, <3>2
  <2> QED BY <2>2, <2>4
<1> QED BY <1>1, <1>2

\* Events that are delivered leave no watch forgotten, if the removal of a watch
\* that goes is the first of them.
LEMMA DeliveredNotForgotten ==
  ASSUME WatchType, WatchNotForgotten, NEW evs \in Seq(Events), Deliver(evs), watched' = watched,
         \A n \in (watched \cap hooked) \ hooked' : evs # << >> /\ evs[1] = Event("remove", n)
  PROVE  WatchNotForgotten'
<1> SUFFICES ASSUME NEW n \in watched' \ hooked'
             PROVE  lost' \/ \E i \in DOMAIN fsEvents' : fsEvents'[i] = Event("remove", n)
  BY DEF WatchNotForgotten, Event
<1>1. CASE n \in hooked
  BY <1>1, Delivered
<1>2. CASE n \notin hooked
  <2>1. lost \/ \E i \in DOMAIN fsEvents : fsEvents[i] = Event("remove", n)
    BY <1>2 DEF WatchNotForgotten
  <2> QED BY <2>1, Delivered
<1> QED BY <1>1, <1>2

-----------------------------------------------------------------------------
(* Steps that are not scans *)

\* The directories, their parents and the events about them.
LEMMA NamesAre ==
  /\ Names = {"tmux", "screen", "tmuxParent", "screenParent"}
  /\ Parent["tmux"] = "tmuxParent" /\ Parent["screen"] = "screenParent"
  /\ \A d \in Dirs : /\ d \in Names /\ Parent[d] \in Names \ Dirs
                     /\ Event("remove", d) \in Events /\ Event("create", d) \in Events
  /\ Event("remove", "socket") \in Events /\ Event("create", "socket") \in Events
BY DEF Names, Dirs, Parent, Event, Events

\* The last listing is as current as it was, if the multiplexers are the same
\* and what the watcher hears is still heard.
LEMMA CurrentKept ==
  ASSUME Current, UNCHANGED <<scanVars, mux, tmuxKeys, failed>>, Pending => Pending',
         monitor' = "attached" => monitor = "attached" \/ Pending',
         covered' => covered,
         covered' /\ "screen" \in hooked' => "screen" \in hooked \/ Pending'
  PROVE  Current'
<1>1. Seen' = Seen
  BY DEF Seen, KnownKeys, scanVars
<1>2. TmuxNow' = TmuxNow
  BY DEF TmuxNow
<1> SUFFICES ASSUME ~Pending', ~failed'
             PROVE  /\ monitor' = "attached" => Seen' \cap tmuxKeys' = TmuxNow'
                    /\ covered' /\ "screen" \in hooked' => Seen' \ tmuxKeys' = mux' \ tmuxKeys'
  BY DEF Current
<1>3. ~Pending /\ ~failed /\ mux' = mux /\ tmuxKeys' = tmuxKeys
  OBVIOUS
<1>4. /\ monitor = "attached" => Seen \cap tmuxKeys = TmuxNow
      /\ covered /\ "screen" \in hooked => Seen \ tmuxKeys = mux \ tmuxKeys
  BY <1>3 DEF Current
<1>5. monitor' = "attached" => monitor = "attached"
  OBVIOUS
<1>6. covered' /\ "screen" \in hooked' => covered /\ "screen" \in hooked
  OBVIOUS
<1> QED BY <1>1, <1>2, <1>3, <1>4, <1>5, <1>6

\* The server's socket appears, or a directory goes.
LEMMA OutsideSteps ==
  ASSUME WatchInv, ServerStart \/ (\E d \in Dirs : DirRemoved(d))
  PROVE  WatchInv' /\ (Pending => Pending') /\ UNCHANGED catalogVars
<1>1. PICK evs \in Seq(Events) :
        /\ Deliver(evs)
        /\ \A n \in (watched \cap hooked) \ hooked' : evs # << >> /\ evs[1] = Event("remove", n)
  <2>1. CASE ServerStart
    <3>1. /\ Deliver(If("tmux" \in hooked, <<Event("create", "socket")>>)
                     \o If("tmux" \notin there /\ Parent["tmux"] \in hooked, <<Event("create", "tmux")>>))
          /\ hooked' = hooked
      BY <2>1 DEF ServerStart, SocketAppears
    <3>2. If("tmux" \in hooked, <<Event("create", "socket")>>)
            \o If("tmux" \notin there /\ Parent["tmux"] \in hooked, <<Event("create", "tmux")>>)
              \in Seq(Events)
      BY NamesAre, EventPairs DEF Dirs, If
    <3> QED BY <3>1, <3>2
  <2>2. ASSUME NEW d \in Dirs, DirRemoved(d)
        PROVE  \E evs \in Seq(Events) :
                 /\ Deliver(evs)
                 /\ \A n \in (watched \cap hooked) \ hooked' :
                      evs # << >> /\ evs[1] = Event("remove", n)
    <3> DEFINE evs == If(d \in hooked, <<Event("remove", d)>>)
                      \o If(Parent[d] \in hooked, <<Event("remove", d)>>)
    <3>1. Deliver(evs) /\ hooked' = hooked \ {d}
      BY <2>2 DEF DirRemoved
    <3>2. /\ evs \in Seq(Events)
          /\ d \in hooked => evs # << >> /\ evs[1] = Event("remove", d)
      BY NamesAre, EventPairs DEF If
    <3> QED BY <3>1, <3>2
  <2> QED BY <2>1, <2>2
<1>2. /\ UNCHANGED <<catalogVars, tmuxKeys, watched, monitorVars, loopVars>> /\ hooked' \subseteq hooked
  BY DEF ServerStart, DirRemoved
<1>3. UNCHANGED <<mux, eventCount, missed, scanVars, dirty, tmuxChanged, monitor, pc, cause, failed, covered>>
  BY <1>2 DEF catalogVars, muxVars, monitorVars, loopVars
<1>4. /\ fsEvents' \in Seq(Events) /\ Len(fsEvents') <= FsCap /\ lost' \in BOOLEAN
      /\ fsEvents # << >> => fsEvents' # << >>
  BY <1>1, Delivered DEF WatchInv
<1>5. WatchType'
  BY <1>2, <1>3, <1>4 DEF WatchInv, WatchType
<1>6. Phase'
  BY <1>3 DEF WatchInv, Phase
<1>7. Pending => Pending'
  BY <1>3, <1>4 DEF Pending, Handling
<1>8. Current'
  BY <1>2, <1>3, <1>7, CurrentKept DEF WatchInv
<1>9. WatchNotForgotten'
  BY <1>1, <1>2, DeliveredNotForgotten DEF WatchInv
<1>10. ScanInv'
  BY <1>3, ScanInvKept DEF WatchInv
<1> QED BY <1>2, <1>5, <1>6, <1>7, <1>8, <1>9, <1>10 DEF WatchInv

\* A session starts or ends: it is heard, if anything is there to hear it.
LEMMA SessionSteps ==
  ASSUME WatchInv, NEW k \in Keys, SessionStart(k) \/ SessionEnd(k)
  PROVE  /\ WatchInv' /\ (Pending => Pending')
         /\ mux' = IF k \in mux THEN mux \ {k} ELSE mux \cup {k}
         /\ eventCount < MaxEvents /\ eventCount' = eventCount + 1
         /\ missed' = (missed \/ ~Pending') /\ UNCHANGED <<scanVars, ptyVars, subVars>>
<1>1. /\ mux' = IF k \in mux THEN mux \ {k} ELSE mux \cup {k}
      /\ eventCount < MaxEvents /\ eventCount' = eventCount + 1
      /\ missed' = (missed \/ ~Pending')
      /\ UNCHANGED <<dirty, scanVars, ptyVars, subVars, tmuxKeys, watched, hooked, monitor, loopVars>>
  BY DEF SessionStart, SessionEnd, Changes
<1>2. UNCHANGED <<pc, cause, failed, covered>>
  BY <1>1 DEF loopVars
<1>3. /\ tmuxChanged' \in {tmuxChanged, TRUE, tmuxChanged \/ monitor = "attached"}
      /\ k \in tmuxKeys => tmuxChanged' = (tmuxChanged \/ monitor = "attached")
  BY DEF SessionStart, SessionEnd, Notified
<1>4. \/ UNCHANGED <<fsEvents, lost>> /\ k \in tmuxKeys
      \/ \E evs \in Seq(Events) :
           /\ Deliver(evs)
           /\ k \notin tmuxKeys /\ "screen" \in hooked => evs # << >>
  <2>1. CASE SessionStart(k) /\ k \notin tmuxKeys
    <3> DEFINE evs == If("screen" \in hooked, <<Event("create", "socket")>>)
                      \o If("screen" \notin there /\ Parent["screen"] \in hooked,
                            <<Event("create", "screen")>>)
    <3>1. Deliver(evs)
      BY <2>1 DEF SessionStart, SocketAppears
    <3>2. evs \in Seq(Events) /\ ("screen" \in hooked => evs # << >>)
      BY NamesAre, EventPairs DEF Dirs, If
    <3> QED BY <3>1, <3>2
  <2>2. CASE SessionEnd(k) /\ k \notin tmuxKeys
    <3> DEFINE evs == If("screen" \in hooked, <<Event("remove", "socket")>>)
    <3>1. Deliver(evs)
      BY <2>2 DEF SessionEnd
    <3>2. evs \in Seq(Events) /\ ("screen" \in hooked => evs # << >>)
      BY NamesAre, EventPairs DEF If
    <3> QED BY <3>1, <3>2
  <2>3. CASE SessionEnd(k) /\ k \in tmuxKeys
    <3>1. UNCHANGED <<fsEvents, lost>> \/ Deliver(<<Event("remove", "socket")>>)
      BY <2>3 DEF SessionEnd
    <3>2. <<Event("remove", "socket")>> \in Seq(Events)
      BY NamesAre
    <3> QED BY <2>3, <3>1, <3>2
  <2>4. CASE SessionStart(k) /\ k \in tmuxKeys
    BY <2>4 DEF SessionStart
  <2> QED BY <2>1, <2>2, <2>3, <2>4
<1>5. /\ fsEvents' \in Seq(Events) /\ Len(fsEvents') <= FsCap /\ lost' \in BOOLEAN
      /\ fsEvents # << >> => fsEvents' # << >>
      /\ k \notin tmuxKeys /\ "screen" \in hooked => fsEvents' # << >>
      /\ WatchNotForgotten'
  <2>1. CASE UNCHANGED <<fsEvents, lost>> /\ k \in tmuxKeys
    <3>1. WatchNotForgotten'
      BY <1>1, <2>1 DEF WatchInv, WatchNotForgotten, Event
    <3> QED BY <2>1, <3>1 DEF WatchInv, WatchType
  <2>2. CASE \E evs \in Seq(Events) : /\ Deliver(evs)
                                      /\ k \notin tmuxKeys /\ "screen" \in hooked => evs # << >>
    <3> PICK evs \in Seq(Events) : /\ Deliver(evs)
                                   /\ k \notin tmuxKeys /\ "screen" \in hooked => evs # << >>
      BY <2>2
    <3>1. WatchNotForgotten'
      BY <1>1, DeliveredNotForgotten DEF WatchInv
    <3> QED BY <3>1, Delivered DEF WatchInv
  <2> QED BY <1>4, <2>1, <2>2
<1>6. tmuxChanged' \in BOOLEAN /\ (tmuxChanged => tmuxChanged')
      /\ (k \in tmuxKeys /\ monitor = "attached" => tmuxChanged')
  BY <1>3 DEF WatchInv, WatchType
<1>7. WatchType'
  <2>1. missed' \in BOOLEAN
    BY <1>1
  <2> QED BY <1>1, <1>2, <1>5, <1>6, <2>1 DEF WatchInv, WatchType
<1>8. Phase'
  BY <1>1, <1>2 DEF WatchInv, Phase
<1>9. /\ Pending => Pending'
      /\ k \in tmuxKeys /\ monitor = "attached" => Pending'
      /\ k \notin tmuxKeys /\ "screen" \in hooked => Pending'
  BY <1>1, <1>2, <1>5, <1>6 DEF Pending, Handling
<1>10. Current'
  <2> SUFFICES ASSUME ~Pending', ~failed'
               PROVE  /\ monitor' = "attached" => Seen' \cap tmuxKeys' = TmuxNow'
                      /\ covered' /\ "screen" \in hooked' => Seen' \ tmuxKeys' = mux' \ tmuxKeys'
    BY DEF Current
  <2>1. Seen' = Seen
    BY <1>1 DEF Seen, KnownKeys, scanVars
  <2>2. ~Pending /\ ~failed /\ tmuxKeys' = tmuxKeys
    BY <1>1, <1>2, <1>9
  <2>3. /\ monitor = "attached" => Seen \cap tmuxKeys = TmuxNow
        /\ covered /\ "screen" \in hooked => Seen \ tmuxKeys = mux \ tmuxKeys
    BY <2>2 DEF WatchInv, Current
  <2>4. k \notin tmuxKeys => TmuxNow' = TmuxNow
    BY <1>1 DEF TmuxNow
  <2>5. k \in tmuxKeys => mux' \ tmuxKeys = mux \ tmuxKeys
    BY <1>1
  <2>6. monitor' = "attached" => Seen' \cap tmuxKeys' = TmuxNow'
    BY <1>1, <1>9, <2>1, <2>2, <2>3, <2>4
  <2>7. covered' /\ "screen" \in hooked' => Seen' \ tmuxKeys' = mux' \ tmuxKeys'
    BY <1>1, <1>2, <1>9, <2>1, <2>2, <2>3, <2>5
  <2> QED BY <2>6, <2>7
<1>11. ScanInv'
  <2>1. mux' \subseteq Keys
    BY <1>1 DEF WatchInv, ScanInv, ScanType
  <2> QED BY <1>1, <2>1, MuxChangeKeeps DEF WatchInv
<1> QED BY <1>1, <1>5, <1>7, <1>8, <1>9, <1>10, <1>11 DEF WatchInv

\* The control client attaches or ends, or the watcher cannot start.
LEMMA MonitorSteps ==
  ASSUME WatchInv, MonitorAttach \/ MonitorEnd \/ NewWatcherFails \/ ScanOver \/ StartTmuxMonitor
  PROVE  WatchInv' /\ (Pending => Pending') /\ UNCHANGED catalogVars
<1>1. UNCHANGED <<catalogVars, outsideVars, fsVars, cause, failed, covered>>
  BY DEF MonitorAttach, MonitorEnd, NewWatcherFails, ScanOver, StartTmuxMonitor, loopVars
<1>2. UNCHANGED <<mux, eventCount, missed, scanVars, dirty, tmuxKeys, watched, hooked, fsEvents, lost>>
  BY <1>1 DEF catalogVars, muxVars, outsideVars, fsVars
<1>3. /\ \/ MonitorAttach /\ tmuxChanged' = TRUE /\ monitor' = "attached"
         \/ tmuxChanged' = tmuxChanged /\ monitor' \in {"ended", "starting", monitor}
      /\ monitor \in {"starting", "ended"} =>
           MonitorAttach \/ monitor' \in {"starting", "ended"}
  <2>1. CASE MonitorAttach
    BY <2>1 DEF MonitorAttach, Attached
  <2>2. CASE MonitorEnd
    BY <2>2 DEF MonitorEnd
  <2>3. CASE NewWatcherFails \/ ScanOver
    BY <2>3 DEF NewWatcherFails, ScanOver, monitorVars
  <2>4. CASE StartTmuxMonitor
    BY <2>4 DEF StartTmuxMonitor
  <2> QED BY <2>1, <2>2, <2>3, <2>4
<1>4. /\ \/ pc' = pc
         \/ pc = "tmux" /\ cause = "setup" /\ pc' = "dead"
         \/ pc = "scan" /\ ~dirty /\ pc' \in {"monitor", "select"}
         \/ pc = "monitor" /\ pc' = "select"
  BY DEF MonitorAttach, MonitorEnd, NewWatcherFails, ScanOver, StartTmuxMonitor, loopVars
<1>5. WatchType'
  <2>1. tmuxChanged' \in BOOLEAN
    BY <1>3 DEF WatchInv, WatchType
  <2> QED BY <1>1, <1>2, <2>1 DEF WatchInv, WatchType
<1>6. Phase'
  <2>1. dirty' => pc' = "scan"
    BY <1>2, <1>4 DEF WatchInv, Phase
  <2>2. pc' \in Names => cause' \in {"setup", "fs"}
    BY <1>1, <1>4, NamesAre DEF WatchInv, Phase
  <2>3. covered' => cause' # "setup" \/ pc' \in {"monitor", "select"}
    BY <1>1, <1>4 DEF WatchInv, Phase
  <2> QED BY <2>1, <2>2, <2>3 DEF Phase, Names, Dirs, Parent
<1>7. Handling => Handling'
  <2>1. Handling <=> cause = "fs" /\ pc \in Names
    BY DEF Handling, Names
  <2>2. Handling' <=> cause' = "fs" /\ pc' \in Names
    BY DEF Handling, Names, Dirs, Parent
  <2> QED BY <1>1, <1>4, <2>1, <2>2, NamesAre
<1>8. (Pending => Pending') /\ (monitor' = "attached" => monitor = "attached" \/ Pending')
  <2>1. MonitorAttach => Pending'
    BY <1>3 DEF Pending, MonitorAttach, Attached
  <2> QED BY <1>2, <1>3, <1>7, <2>1 DEF Pending
<1>9. Current'
  BY <1>1, <1>2, <1>8, CurrentKept DEF WatchInv
<1>10. WatchNotForgotten'
  BY <1>2 DEF WatchInv, WatchNotForgotten, Event
<1>11. ScanInv'
  BY <1>2, ScanInvKept DEF WatchInv
<1> QED BY <1>1, <1>5, <1>6, <1>8, <1>9, <1>10, <1>11 DEF WatchInv

\* watchDir for one of the directories, then the scan that an event asks for.
LEMMA WatchSteps ==
  ASSUME WatchInv, NEW d \in Dirs, WatchDir(d) \/ WatchParent(d)
  PROVE  /\ WatchInv' /\ (Pending => Pending')
         /\ UNCHANGED <<mux, eventCount, missed, scanVars, ptyVars, subVars>>
<1>1. UNCHANGED <<mux, eventCount, missed, scanVars, ptyVars, subVars, tmuxKeys, fsEvents, lost,
                  tmuxChanged, monitor, cause, failed, covered>>
  BY DEF WatchDir, WatchParent, outsideVars, monitorVars
<1>2. pc \in {d, Parent[d]} /\ d \in {"tmux", "screen"} /\ pc \in Names
  BY NamesAre DEF WatchDir, WatchParent, Dirs
<1>3. cause \in {"setup", "fs"} /\ ~dirty /\ (covered => cause # "setup")
  BY <1>2, NamesAre DEF WatchInv, Phase
<1>4. \/ pc' = Parent[d] /\ dirty' = dirty
      \/ AfterDir(d)
  BY DEF WatchDir, WatchParent
<1>5. \/ UNCHANGED <<watched, hooked>>
      \/ \E n \in Names : Hook(n) /\ (n = "screen" => AfterDir("screen"))
  BY NamesAre DEF WatchDir, WatchParent, Dirs
<1>6. /\ dirty' \in BOOLEAN /\ (dirty' => pc' = "scan") /\ (dirty' => cause # "setup")
      /\ cause = "fs" => dirty' \/ pc' \in Names
      /\ AfterDir("screen") /\ cause = "fs" => dirty'
  <2>1. CASE pc' = Parent[d] /\ dirty' = dirty
    <3>1. ~dirty' /\ dirty' \in BOOLEAN /\ pc' \in Names
      BY <1>3, <2>1, NamesAre DEF WatchInv, WatchType
    <3>2. AfterDir("screen") => pc' \in {"monitor", "scan"}
      BY DEF AfterDir
    <3>3. ~AfterDir("screen")
      BY <3>1, <3>2, NamesAre
    <3> QED BY <3>1, <3>3
  <2>2. CASE AfterDir(d) /\ d = "tmux"
    <3>1. pc' = "screen" /\ ~dirty' /\ dirty' \in BOOLEAN
      BY <2>2 DEF AfterDir
    <3>2. ~AfterDir("screen")
      BY <3>1 DEF AfterDir
    <3> QED BY <3>1, <3>2, NamesAre
  <2>3. CASE AfterDir(d) /\ d = "screen"
    <3>1. pc' = (IF cause = "setup" THEN "monitor" ELSE "scan") /\ dirty' = (cause # "setup")
      BY <2>3 DEF AfterDir
    <3> QED BY <1>3, <3>1
  <2> QED BY <1>2, <1>4, <2>1, <2>2, <2>3
<1>7. watched' \subseteq Names /\ hooked' \subseteq Names
  BY <1>5 DEF Hook, WatchInv, WatchType
<1>8. WatchType'
  BY <1>1, <1>6, <1>7 DEF WatchInv, WatchType, Names, Dirs, Parent
<1>9. Phase'
  BY <1>1, <1>3, <1>6 DEF Phase
<1>10. Handling' <=> cause' = "fs" /\ pc' \in Names
  BY DEF Handling, Names, Dirs, Parent
<1>11. cause = "fs" => Pending'
  BY <1>1, <1>6, <1>10 DEF Pending
<1>12. Pending => Pending'
  <2>1. cause # "fs" => ~Handling
    BY DEF Handling
  <2> QED BY <1>1, <1>3, <1>11, <2>1 DEF Pending
<1>13. covered' /\ "screen" \in hooked' => "screen" \in hooked \/ Pending'
  BY <1>1, <1>3, <1>11
<1>14. Current'
  BY <1>1, <1>12, <1>13, CurrentKept DEF WatchInv
<1>15. WatchNotForgotten'
  BY <1>1, <1>5 DEF Hook, WatchInv, WatchNotForgotten, Event
<1>16. ScanInv'
  BY <1>1, ScanInvKept DEF WatchInv
<1> QED BY <1>1, <1>8, <1>9, <1>12, <1>14, <1>15, <1>16 DEF WatchInv

\* An event of the file system or of the control client is taken.
LEMMA TakeSteps ==
  ASSUME WatchInv, TakeFsEvent \/ TakeTmux
  PROVE  /\ WatchInv' /\ Pending /\ Pending'
         /\ UNCHANGED <<mux, eventCount, missed, scanVars, ptyVars, subVars>>
<1>1. /\ UNCHANGED <<mux, eventCount, missed, scanVars, ptyVars, subVars, tmuxKeys, lost, hooked,
                     failed, covered>>
      /\ pc = "select"
  BY DEF TakeFsEvent, TakeTmux, catalogVars, muxVars, outsideVars, fsVars
<1>2. CASE TakeFsEvent
  <2>1. /\ fsEvents # << >> /\ fsEvents' = Tail(fsEvents) /\ watched' = Unwatched(Head(fsEvents))
        /\ pc' = "tmux" /\ cause' = "fs" /\ UNCHANGED <<dirty, tmuxChanged, monitor>>
    BY <1>2 DEF TakeFsEvent, catalogVars, muxVars, monitorVars
  <2>2. ~dirty
    BY <1>1 DEF WatchInv, Phase
  <2>3. Pending /\ Pending'
    BY <2>1 DEF Pending, Handling, Dirs
  <2>4. /\ fsEvents \in Seq(Events) /\ Len(fsEvents) \in Nat /\ Len(fsEvents) # 0
        /\ fsEvents' \in Seq(Events) /\ Len(fsEvents') = Len(fsEvents) - 1
        /\ Head(fsEvents) = fsEvents[1]
        /\ \A i \in 1..(Len(fsEvents) - 1) : fsEvents'[i] = fsEvents[i + 1]
    <3>1. fsEvents \in Seq(Events) /\ fsEvents # << >>
      BY <2>1 DEF WatchInv, WatchType
    <3> QED BY <2>1, <3>1
  <2>5. Len(fsEvents') <= FsCap /\ watched' \subseteq watched
    BY <2>1, <2>4, WatcherAssumption DEF WatchInv, WatchType, Unwatched
  <2>6. WatchType'
    BY <1>1, <2>1, <2>4, <2>5 DEF WatchInv, WatchType, Names, Dirs, Parent
  <2>7. Phase'
    BY <1>1, <2>1, <2>2 DEF Phase
  <2>8. Current'
    BY <2>3 DEF Current
  <2>9. WatchNotForgotten'
    <3> SUFFICES ASSUME NEW n \in watched' \ hooked', ~lost'
                 PROVE  \E i \in DOMAIN fsEvents' : fsEvents'[i] = Event("remove", n)
      BY DEF WatchNotForgotten, Event
    <3>1. PICK i \in DOMAIN fsEvents : fsEvents[i] = Event("remove", n)
      BY <1>1, <2>5 DEF WatchInv, WatchNotForgotten
    <3>2. i # 1
      <4>1. ASSUME i = 1 PROVE FALSE
        <5>1. Head(fsEvents).op = "remove" /\ Head(fsEvents).name = n
          BY <2>4, <3>1, <4>1 DEF Event
        <5>2. watched' = watched \ {n}
          BY <2>1, <5>1 DEF Unwatched
        <5> QED BY <5>2
      <4> QED BY <4>1
    <3>3. /\ DOMAIN fsEvents = 1..Len(fsEvents) /\ DOMAIN fsEvents' = 1..(Len(fsEvents) - 1)
      BY <2>4
    <3>4. i - 1 \in 1..(Len(fsEvents) - 1) /\ (i - 1) + 1 = i
      BY <2>4, <3>2, <3>3
    <3> QED BY <2>4, <3>1, <3>3, <3>4
  <2>10. ScanInv'
    BY <1>1, ScanInvKept DEF WatchInv
  <2> QED BY <1>1, <2>3, <2>6, <2>7, <2>8, <2>9, <2>10 DEF WatchInv
<1>3. CASE TakeTmux
  <2>1. /\ dirty' = TRUE /\ pc' = "scan" /\ cause' = "tmux" /\ UNCHANGED <<fsEvents, watched>>
        /\ \/ tmuxChanged /\ tmuxChanged' = FALSE
           \/ monitor = "ended" /\ tmuxChanged' = tmuxChanged
    BY <1>3 DEF TakeTmux, fsVars
  <2>2. Pending /\ Pending'
    BY <2>1 DEF Pending
  <2>3. WatchType'
    <3>1. tmuxChanged' \in BOOLEAN /\ dirty' \in BOOLEAN
      BY <2>1 DEF WatchInv, WatchType
    <3> QED BY <1>1, <2>1, <3>1 DEF WatchInv, WatchType, Names, Dirs, Parent
  <2>4. Phase'
    BY <2>1, NamesAre DEF Phase, Names, Dirs, Parent
  <2>5. Current'
    BY <2>2 DEF Current
  <2>6. WatchNotForgotten'
    BY <1>1, <2>1 DEF WatchInv, WatchNotForgotten, Event
  <2>7. ScanInv'
    BY <1>1, ScanInvKept DEF WatchInv
  <2> QED BY <1>1, <2>2, <2>3, <2>4, <2>5, <2>6, <2>7 DEF WatchInv
<1> QED BY <1>2, <1>3

-----------------------------------------------------------------------------
(* Scans *)

\* Once a scan has listed, what it saw stays what the catalog knows or will.
LEMMA ScanKeepsSeen ==
  ASSUME ScanInv, NEW s \in Scanners, ScanApply(s) \/ ScanClose(s) \/ ScanReturn(s)
  PROVE  Seen' = Seen /\ scanMu = s
<1>1. scans[s].pc \in {"listed", "close"} /\ scanMu = s
  BY DEF ScanApply, ScanClose, ScanReturn, ScanInv, Serial
<1>2. CASE ScanApply(s)
  <2>1. KnownKeys' = scans[s].list
    BY <1>2, ScanApplies
  <2>2. scanMu' = s /\ scans'[s].pc = "close" /\ scans[s].pc = "listed"
    BY <1>1, <1>2 DEF ScanApply, ScanInv, ScanType
  <2> QED BY <1>1, <2>1, <2>2 DEF Seen
<1>3. CASE ScanClose(s) \/ ScanReturn(s)
  <2>1. KnownKeys' = KnownKeys /\ scans[s].pc = "close"
    BY <1>3 DEF ScanClose, ScanReturn, KnownKeys
  <2>2. Seen = KnownKeys
    BY <1>1, <2>1 DEF Seen
  <2>3. Seen' = KnownKeys'
    <3>1. CASE ScanClose(s)
      BY <1>1, <3>1 DEF ScanClose, Seen, ScanInv, ScanType
    <3>2. CASE ScanReturn(s)
      BY <3>2 DEF ScanReturn, Seen, Free, Scanners
    <3> QED BY <1>3, <3>1, <3>2
  <2> QED BY <1>1, <2>1, <2>2, <2>3
<1> QED BY <1>2, <1>3

\* A scan by either goroutine.  What it lists is current, or it failed.
LEMMA ScanSteps ==
  ASSUME WatchInv, NEW s \in Scanners, Scan(s)
  PROVE  /\ WatchInv'
         /\ s = "conn" \/ scanMu # Free => Pending' = Pending
<1>1. /\ UNCHANGED <<tmuxKeys, watched, hooked, fsEvents, lost, tmuxChanged, monitor, pc, cause>>
      /\ ScanStep(s)
      /\ failed' = IF scanMu = Free THEN scans'[s].list # mux ELSE failed
      /\ covered' = (covered \/ (scanMu = Free /\ (cause # "setup" \/ pc \in {"monitor", "select"})))
  BY DEF Scan, outsideVars, fsVars, monitorVars
<1>2. ScanInv'
  BY <1>1, ScanListKeeps, ScanApplyKeeps, ScanEndKeeps DEF ScanStep, WatchInv
<1>3. /\ mux' = mux /\ dirty' \in BOOLEAN /\ missed' \in BOOLEAN /\ (dirty' => dirty)
      /\ s = "conn" => dirty' = dirty
  <2>1. CASE ScanList(s)
    BY <2>1, CatalogAssumption DEF ScanList, ScanMayBegin, WatchInv, WatchType
  <2>2. CASE ScanApply(s) \/ ScanClose(s) \/ ScanReturn(s)
    BY <2>2 DEF ScanApply, ScanClose, ScanReturn, muxVars, WatchInv, WatchType
  <2> QED BY <1>1, <2>1, <2>2 DEF ScanStep
<1>4. failed' \in BOOLEAN /\ covered' \in BOOLEAN
  BY <1>1 DEF WatchInv, WatchType
<1>5. WatchType'
  BY <1>1, <1>3, <1>4 DEF WatchInv, WatchType, Names, Dirs, Parent
<1>6. Phase'
  BY <1>1, <1>3 DEF WatchInv, Phase, Names, Dirs, Parent
<1>7. dirty' = dirty => Pending' = Pending
  BY <1>1 DEF Pending, Handling, Dirs, Parent
<1>8. WatchNotForgotten'
  BY <1>1 DEF WatchInv, WatchNotForgotten, Event
<1>9. CASE ScanList(s)
  <2>1. scanMu = Free /\ Seen' = scans'[s].list
    <3>1. scanMu = Free /\ scanMu' = s /\ scans'[s].pc = "listed"
      BY <1>9 DEF ScanList, ScanMayBegin, WatchInv, ScanInv, ScanType
    <3> QED BY <3>1 DEF Seen
  <2>2. ~failed' => Seen' = mux'
    BY <1>1, <1>3, <2>1
  <2>3. Current'
    BY <2>2 DEF Current, TmuxNow
  <2> QED BY <1>2, <1>3, <1>5, <1>6, <1>7, <1>8, <2>1, <2>3 DEF WatchInv
<1>10. CASE ScanApply(s) \/ ScanClose(s) \/ ScanReturn(s)
  <2>1. Seen' = Seen /\ scanMu # Free
    BY <1>10, ScanKeepsSeen DEF WatchInv, Scanners, Free
  <2>2. dirty' = dirty /\ failed' = failed /\ covered' = covered
    BY <1>1, <1>10, <2>1 DEF ScanApply, ScanClose, ScanReturn, muxVars, WatchInv, WatchType
  <2>3. Current'
    BY <1>1, <1>3, <1>7, <2>1, <2>2 DEF WatchInv, Current, TmuxNow
  <2> QED BY <1>2, <1>5, <1>6, <1>7, <1>8, <2>1, <2>2, <2>3 DEF WatchInv
<1> QED BY <1>1, <1>9, <1>10 DEF ScanStep

\* A connection begins; the watcher has no part in it.
LEMMA RefreshKeeps ==
  ASSUME WatchInv, Refresh \/ UNCHANGED wvars
  PROVE  WatchInv' /\ Pending' = Pending
<1>1. /\ UNCHANGED <<mux, eventCount, missed, scanVars, dirty, tmuxKeys, watched, hooked, fsEvents, lost>>
      /\ UNCHANGED <<tmuxChanged, monitor, pc, cause, failed, covered>>
  BY DEF Refresh, Dial, wvars, catalogVars, muxVars, watchVars, outsideVars, fsVars, monitorVars, loopVars
<1>2. Pending' = Pending
  BY <1>1 DEF Pending, Handling, Dirs, Parent
<1>3. WatchType' /\ Phase' /\ WatchNotForgotten'
  BY <1>1 DEF WatchInv, WatchType, Phase, WatchNotForgotten, Event, Names, Dirs, Parent
<1>4. Current'
  BY <1>1, <1>2, CurrentKept DEF WatchInv
<1>5. ScanInv'
  BY <1>1, ScanInvKept DEF WatchInv
<1> QED BY <1>2, <1>3, <1>4, <1>5 DEF WatchInv

\* The catalog has listed before the watcher starts, and nothing is heard yet.
LEMMA WatchInvInit == WatcherInit => WatchInv /\ ~Pending /\ CatalogInit
<1> SUFFICES ASSUME WatcherInit PROVE WatchInv /\ ~Pending /\ CatalogInit
  OBVIOUS
<1>1. /\ CatalogInit /\ dirty = FALSE /\ missed = FALSE
      /\ watched = {} /\ hooked = {} /\ fsEvents = << >> /\ lost = FALSE
      /\ tmuxChanged = FALSE /\ monitor = "off" /\ pc = "tmux" /\ cause = "setup"
      /\ failed = FALSE /\ covered = FALSE
  BY DEF WatcherInit, CatalogInit
<1>2. ScanInv
  BY <1>1, ScanInvInit
<1>3. WatchType
  <2>1. fsEvents \in Seq(Events) /\ Len(fsEvents) = 0
    BY <1>1
  <2>2. Len(fsEvents) <= FsCap
    BY <2>1, WatcherAssumption
  <2>3. watched \subseteq Names /\ hooked \subseteq Names
    BY <1>1
  <2> QED BY <1>1, <2>1, <2>2, <2>3 DEF WatchType
<1>4. Phase
  BY <1>1 DEF Phase
<1>5. Current
  BY <1>1 DEF Current
<1>6. WatchNotForgotten
  BY <1>1 DEF WatchNotForgotten
<1>7. ~Pending
  BY <1>1 DEF Pending, Handling
<1> QED BY <1>1, <1>2, <1>3, <1>4, <1>5, <1>6, <1>7 DEF WatchInv

\* The inductive invariant is kept by every step.
LEMMA WatchInvStep == WatchInv /\ [WatcherNext]_wvars => WatchInv'
BY OutsideSteps, SessionSteps, MonitorSteps, WatchSteps, TakeSteps, ScanSteps, RefreshKeeps
   DEF WatcherNext, Loop

\* What was listed last is what the catalog knows, when no scan runs.
LEMMA QuietKnows == WatchInv => AttachedIsCurrent /\ WatchedIsCurrent
<1> SUFFICES ASSUME WatchInv, Quiet
             PROVE  /\ monitor = "attached" => KnownKeys \cap tmuxKeys = TmuxNow
                    /\ covered /\ "screen" \in hooked => KnownKeys \ tmuxKeys = mux \ tmuxKeys
  BY DEF AttachedIsCurrent, WatchedIsCurrent
<1>1. Seen = KnownKeys /\ ~Pending /\ ~failed
  BY DEF Quiet, NoScan, Seen, Free, Scanners
<1> QED BY <1>1 DEF WatchInv, Current

\* While the control client is attached, a quiet catalog has the tmux sessions
\* that exist (monitorTmuxSessions).
THEOREM AttachedCurrent == WatcherSpec => []AttachedIsCurrent
BY WatchInvInit, WatchInvStep, QuietKnows, PTL DEF WatcherSpec

\* While its directory is watched, a quiet catalog has the Screen sessions that
\* exist, from the first listing after set-up on (watchDir before scan).
THEOREM WatchedCurrent == WatcherSpec => []WatchedIsCurrent
BY WatchInvInit, WatchInvStep, QuietKnows, PTL DEF WatcherSpec

\* The map claims no watch that is gone for good, unless the event queue
\* overflowed (the map watched of watchSessions).
THEOREM WatchKept == WatcherSpec => []WatchNotForgotten
<1>1. WatchInv => WatchNotForgotten
  BY DEF WatchInv
<1> QED BY <1>1, WatchInvInit, WatchInvStep, PTL DEF WatcherSpec

-----------------------------------------------------------------------------
(* The refinement: a scan is owed, to the catalog, while the watcher is Pending *)

\* The first listing.
LEMMA AbstractInit == WatcherInit => Abstract!CatalogInit
<1> SUFFICES ASSUME CatalogInit, ~Pending PROVE Abstract!CatalogInit
  BY WatchInvInit
<1>1. Pending = FALSE
  BY DEF Pending
<1> QED BY <1>1
     DEF CatalogInit, Abstract!CatalogInit, Cardinality, Abstract!Cardinality,
         SetToSeq, Abstract!SetToSeq, IsInjective, Abstract!IsInjective,
         IndexOf, Abstract!IndexOf, NoId, Abstract!NoId, Free, Abstract!Free,
         IdleScan, Abstract!IdleScan, Scanners, Abstract!Scanners, Ids, Abstract!Ids,
         NoPty, Abstract!NoPty

\* A change that is heard, or is not.
LEMMA AbstractChange ==
  ASSUME WatchInv, NEW k \in Keys, SessionStart(k) \/ SessionEnd(k)
  PROVE  Abstract!CatalogNext
<1>1. /\ Pending => Pending'
      /\ mux' = IF k \in mux THEN mux \ {k} ELSE mux \cup {k}
      /\ eventCount < MaxEvents /\ eventCount' = eventCount + 1
      /\ missed' = (missed \/ ~Pending') /\ UNCHANGED <<scanVars, ptyVars, subVars>>
  BY SessionSteps
<1>2. Pending \in BOOLEAN /\ Pending' \in BOOLEAN /\ missed \in BOOLEAN
  BY DEF Pending, WatchInv, WatchType
<1>3. \/ Pending' = TRUE /\ missed' = missed
      \/ missed' = TRUE /\ Pending' = Pending
  BY <1>1, <1>2
<1>4. Abstract!MuxChange(k)
  BY <1>1, <1>3 DEF Abstract!MuxChange, scanVars, Abstract!scanVars, ptyVars, Abstract!ptyVars,
                    subVars, Abstract!subVars
<1> QED BY <1>4 DEF Abstract!CatalogNext, Abstract!Environment

\* What the watcher does between scans is a rumour to the catalog, or nothing.
LEMMA AbstractRumour ==
  ASSUME WatchInv, Pending => Pending',
         UNCHANGED <<mux, eventCount, missed, scanVars, ptyVars, subVars>>
  PROVE  Abstract!CatalogNext \/ UNCHANGED Abstract!catalogVars
<1>1. Pending \in BOOLEAN /\ Pending' \in BOOLEAN
  BY DEF Pending, WatchInv, WatchType
<1>2. CASE Pending' = Pending
  BY <1>2 DEF Abstract!catalogVars, Abstract!muxVars, scanVars, Abstract!scanVars, ptyVars,
              Abstract!ptyVars, subVars, Abstract!subVars
<1>3. CASE ~Pending /\ Pending' = TRUE
  <2>1. Abstract!Rumour
    BY <1>3 DEF Abstract!Rumour, scanVars, Abstract!scanVars, ptyVars, Abstract!ptyVars,
                subVars, Abstract!subVars
  <2> QED BY <2>1 DEF Abstract!CatalogNext
<1> QED BY <1>1, <1>2, <1>3

\* A scan is the catalog's scan.
LEMMA AbstractScan ==
  ASSUME WatchInv, NEW s \in Scanners, Scan(s)
  PROVE  Abstract!CatalogNext
<1>1. /\ ScanStep(s) /\ WatchInv' /\ (s = "conn" \/ scanMu # Free => Pending' = Pending)
      /\ UNCHANGED <<outsideVars, fsVars, monitorVars, pc, cause>>
  BY ScanSteps DEF Scan
<1>2. Pending \in BOOLEAN /\ Pending' \in BOOLEAN
  BY <1>1 DEF Pending, WatchInv, WatchType
<1>3. CASE ScanList(s)
  <2>1. ScanMayBegin(s) /\ scanMu = Free /\ (s = "watch" => Pending)
    BY <1>3 DEF ScanList, ScanMayBegin, Pending
  <2>2. Abstract!ScanMayBegin(s)
    BY <2>1 DEF ScanMayBegin, Abstract!ScanMayBegin, Free, Abstract!Free
  <2>3. Pending' \in IF s = "watch" THEN {FALSE, TRUE} ELSE {Pending}
    BY <1>1, <1>2 DEF Scanners
  <2>4. Abstract!ScanList(s)
    BY <1>3, <2>2, <2>3 DEF ScanList, Abstract!ScanList, ptyVars, Abstract!ptyVars, subVars, Abstract!subVars
  <2> QED BY <2>4 DEF Abstract!CatalogNext, Abstract!Scanning, Abstract!ScanStep, Scanners, Abstract!Scanners
<1>4. CASE ScanApply(s) \/ ScanClose(s) \/ ScanReturn(s)
  <2>1. Pending' = Pending
    BY <1>1, <1>4, ScanKeepsSeen DEF WatchInv, Scanners, Free
  <2>2. ScanApply(s) => Abstract!ScanApply(s)
    BY <2>1 DEF ScanApply, Abstract!ScanApply, SetToSeq, Abstract!SetToSeq,
         SetToSeqs, Abstract!SetToSeqs, Cardinality, Abstract!Cardinality,
         IsInjective, Abstract!IsInjective, IndexOf, Abstract!IndexOf, KnownKeys, Abstract!KnownKeys,
         Change, Abstract!Change, NoId, Abstract!NoId, Subscribed, Abstract!Subscribed,
         Publish, Abstract!Publish, muxVars, Abstract!muxVars, ptyVars, Abstract!ptyVars
  <2>3. ScanClose(s) => Abstract!ScanClose(s)
    BY <2>1 DEF ScanClose, Abstract!ScanClose, muxVars, Abstract!muxVars, subVars, Abstract!subVars,
         NoPty, Abstract!NoPty
  <2>4. ScanReturn(s) => Abstract!ScanReturn(s)
    BY <2>1 DEF ScanReturn, Abstract!ScanReturn, muxVars, Abstract!muxVars, ptyVars, Abstract!ptyVars,
         subVars, Abstract!subVars, IdleScan, Abstract!IdleScan, Free, Abstract!Free
  <2> QED BY <1>4, <2>2, <2>3, <2>4
       DEF Abstract!CatalogNext, Abstract!Scanning, Abstract!ScanStep, Scanners, Abstract!Scanners
<1> QED BY <1>1, <1>3, <1>4 DEF ScanStep

\* A connection begins.
LEMMA AbstractDial ==
  ASSUME WatchInv, Refresh
  PROVE  Abstract!CatalogNext
<1>1. Pending' = Pending /\ Dial
  BY RefreshKeeps DEF Refresh
<1>2. Abstract!Dial
  BY <1>1 DEF Dial, Abstract!Dial, muxVars, Abstract!muxVars, scanVars, Abstract!scanVars,
              ptyVars, Abstract!ptyVars
<1> QED BY <1>2 DEF Abstract!CatalogNext, Abstract!Subscriber

\* Every step of the watcher is a step of the catalog's specification, or none.
LEMMA AbstractStep ==
  WatchInv /\ [WatcherNext]_wvars => [Abstract!CatalogNext]_(Abstract!catalogVars)
<1> SUFFICES ASSUME WatchInv, [WatcherNext]_wvars
             PROVE  Abstract!CatalogNext \/ UNCHANGED Abstract!catalogVars
  OBVIOUS
<1>1. CASE ServerStart \/ (\E d \in Dirs : DirRemoved(d))
  <2>1. (Pending => Pending') /\ UNCHANGED catalogVars
    BY <1>1, OutsideSteps
  <2> QED BY <2>1, AbstractRumour DEF catalogVars, muxVars
<1>2. CASE MonitorAttach \/ MonitorEnd \/ NewWatcherFails \/ ScanOver \/ StartTmuxMonitor
  <2>1. (Pending => Pending') /\ UNCHANGED catalogVars
    BY <1>2, MonitorSteps
  <2> QED BY <2>1, AbstractRumour DEF catalogVars, muxVars
<1>3. CASE (\E d \in Dirs : WatchDir(d) \/ WatchParent(d)) \/ TakeFsEvent \/ TakeTmux
  BY <1>3, WatchSteps, TakeSteps, AbstractRumour
<1>4. CASE UNCHANGED wvars
  <2>1. Pending' = Pending /\ UNCHANGED catalogVars
    BY <1>4, RefreshKeeps DEF wvars
  <2> QED BY <2>1, AbstractRumour DEF catalogVars, muxVars
<1> QED BY <1>1, <1>2, <1>3, <1>4, AbstractChange, AbstractScan, AbstractDial DEF WatcherNext, Loop

\* The watcher implements the catalog's specification: a change is announced or
\* missed, a scan is owed until it lists, and none is forgotten (watchSessions).
THEOREM WatcherImplements == WatcherSpec => ImplementsCatalog
<1>1. WatcherInit => WatchInv /\ Abstract!CatalogInit
  BY WatchInvInit, AbstractInit
<1>2. WatchInv /\ [WatcherNext]_wvars => WatchInv'
  BY WatchInvStep
<1>3. WatchInv /\ [WatcherNext]_wvars => [Abstract!CatalogNext]_(Abstract!catalogVars)
  BY AbstractStep
<1> QED BY <1>1, <1>2, <1>3, PTL DEF WatcherSpec, ImplementsCatalog, Abstract!CatalogSpec
=============================================================================
