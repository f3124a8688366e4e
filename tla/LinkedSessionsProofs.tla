------------------------ MODULE LinkedSessionsProofs ------------------------
(***************************************************************************)
(* The registry leaks no terminal and shares one per source, and the tmux  *)
(* sessions it links are all accounted for, for any number of ids,         *)
(* sources, removers and terminals.                                        *)
(***************************************************************************)
EXTENDS LinkedSessions, TLAPS

TypeInv ==
  /\ spawned \in Nat /\ spawned <= MaxSpawns
  /\ entries \in [Ids -> [term : 0..spawned, source : Sources \cup {NoSource}]]
  /\ sourceToID \in [Sources -> Ids \cup {NoId}]
  /\ startedFor \in [Terms -> Sources \cup {NoSource}]
  /\ forgetters \subseteq [id : Ids, term : 0..spawned]
  /\ caller \in [Callers -> [pc : {"idle", "spawn", "insert", "close"},
                             id : Ids \cup {NoId}, term : 0..spawned]]

\* Between CreateWithID's critical sections nobody can register its id or its
\* source: the terminal that it started is the only one that will have them.
CreatorAlone ==
  \A p \in Callers : caller[p].pc \in {"spawn", "insert"} =>
    /\ p \in Creators /\ caller[p].id \in Ids
    /\ ~Got(caller[p].id) /\ MustSpawn(caller[p].id)
    /\ caller[p].pc = "spawn" => caller[p].term = NoTerm
    /\ caller[p].pc = "insert" =>
         caller[p].term # NoTerm /\ startedFor[caller[p].term] = SourceOf[caller[p].id]

\* The index names an id of the source, and only that id's command.
IndexSound == \A s \in Sources : sourceToID[s] # NoId => SourceOf[sourceToID[s]] = s

\* A goroutine in the middle of nothing has nothing in hand.
IdleEmpty == \A p \in Callers : caller[p].pc = "idle" => caller[p] = Idle

\* A terminal not started yet was started for nothing.
Unstarted == \A t \in Terms : t > spawned => startedFor[t] = NoSource

Indexed(t) ==
  sourceToID[startedFor[t]] # NoId /\ entries[sourceToID[startedFor[t]]].term = t

\* A running terminal of a source is found by the index, or is in hand.
SourceFound ==
  \A t \in 1..spawned : t \notin done /\ startedFor[t] # NoSource =>
    Indexed(t) \/ t \in InHand

\* The inductive invariant of the registry.
Inv ==
  /\ TypeInv /\ CreatorAlone /\ IndexSound /\ IdleEmpty /\ Unstarted
  /\ NoLeakedTerminal /\ SourceFound

LinkTypeInv ==
  /\ linked \subseteq Sources /\ starting \subseteq 1..spawned
  /\ \A t \in starting : startedFor[t] \in Sources
  /\ owed \in [Creators -> Sources \cup {NoSource}]

\* A client that has not made its session yet belongs to an activation that
\* shutdown will find on the list.
StartingRecorded ==
  phase = "up" =>
    names = {} /\ \A t \in starting : startedFor[t] \in activated \cup Unrecorded

\* A creator records one activation before it starts the next.
OweOnce == \A p \in Creators : caller[p].pc \in {"spawn", "insert"} => owed[p] = NoSource

\* The inductive invariant of the linked sessions.
LinkedInv == Inv /\ LinkTypeInv /\ StartingRecorded /\ OweOnce /\ LinkedAccounted

-----------------------------------------------------------------------------
(* The registry *)

\* What leaves the index was the id's own.
LEMMA DropSourceOwn ==
  ASSUME TypeInv, NEW id, NEW src
  PROVE  /\ DropSource(id, src) \in [Sources -> Ids \cup {NoId}]
         /\ \A s \in Sources :
              \/ DropSource(id, src)[s] = sourceToID[s]
              \/ DropSource(id, src)[s] = NoId /\ sourceToID[s] = id
<1>1. CASE src # NoSource /\ sourceToID[src] = id
  BY <1>1 DEF DropSource, TypeInv
<1>2. CASE ~(src # NoSource /\ sourceToID[src] = id)
  BY <1>2 DEF DropSource, TypeInv
<1> QED BY <1>1, <1>2

\* A step of the registry keeps the types.
LEMMA TypeStep == TypeInv /\ CreatorAlone /\ [Next]_vars => TypeInv'
<1> SUFFICES ASSUME TypeInv, CreatorAlone, [Next]_vars PROVE TypeInv'
  OBVIOUS
<1> USE RegistryAssumption DEF TypeInv, Callers, Terms, Idle, Busy, Entry, NoEntry, NoTerm
<1>1. CASE UNCHANGED vars
  BY <1>1 DEF vars
<1>2. ASSUME NEW p \in Creators, NEW id \in Ids, CreateLookup(p, id) PROVE TypeInv'
  <2>1. CASE MustSpawn(id)
    BY <1>2, <2>1 DEF CreateLookup
  <2>2. CASE ~MustSpawn(id)
    <3>1. sourceToID[SourceOf[id]] \in Ids
      BY <2>2 DEF MustSpawn, LiveSource
    <3>2. entries[sourceToID[SourceOf[id]]].term \in 0..spawned
      BY <3>1
    <3> DEFINE t == entries[sourceToID[SourceOf[id]]].term
    <3>3. /\ entries' = [entries EXCEPT ![id] = Entry(t, NoSource)]
          /\ forgetters' = forgetters \cup {[id |-> id, term |-> t]}
          /\ UNCHANGED <<caller, sourceToID, spawned, startedFor>>
      BY <1>2, <2>2 DEF CreateLookup, Alias
    <3> HIDE DEF t
    <3> QED BY <3>2, <3>3 DEF t
  <2> QED BY <2>1, <2>2
<1>3. ASSUME NEW p \in Creators, NEW id \in Ids, Add(p, id) PROVE TypeInv'
  BY <1>3 DEF Add, Replaced
<1>4. ASSUME NEW p \in Creators, CreateSpawn(p) PROVE TypeInv'
  BY <1>4 DEF CreateSpawn, CreatorAlone
<1>5. ASSUME NEW p \in Creators, CreateInsert(p) PROVE TypeInv'
  BY <1>5 DEF CreateInsert, CreatorAlone
<1>6. ASSUME NEW p \in Removers, NEW id \in Ids, Remove(p, id) PROVE TypeInv'
  BY <1>6, DropSourceOwn DEF Remove
<1>7. ASSUME NEW p \in Callers, Close(p) PROVE TypeInv'
  BY <1>7 DEF Close
<1>8. CASE Exit
  BY <1>8 DEF Exit
<1>9. CASE Forget
  <2>1. PICK f \in forgetters :
          /\ forgetters' = forgetters \ {f}
          /\ IF Forgets(f)
               THEN /\ entries' = [entries EXCEPT ![f.id] = NoEntry]
                    /\ sourceToID' = DropSource(f.id, entries[f.id].source)
               ELSE UNCHANGED <<entries, sourceToID>>
    BY <1>9 DEF Forget
  <2>2. UNCHANGED <<spawned, startedFor, caller>>
    BY <1>9 DEF Forget
  <2>3. entries' \in [Ids -> [term : 0..spawned, source : Sources \cup {NoSource}]]
    <3>1. NoEntry \in [term : 0..spawned, source : Sources \cup {NoSource}]
      OBVIOUS
    <3>2. CASE Forgets(f)
      BY <2>1, <3>1, <3>2
    <3>3. CASE ~Forgets(f)
      BY <2>1, <3>3
    <3> QED BY <3>2, <3>3
  <2>4. sourceToID' \in [Sources -> Ids \cup {NoId}]
    <3>1. DropSource(f.id, entries[f.id].source) \in [Sources -> Ids \cup {NoId}]
      BY DropSourceOwn
    <3> QED BY <2>1, <3>1
  <2> QED BY <2>1, <2>2, <2>3, <2>4
<1> QED BY <1>1, <1>2, <1>3, <1>4, <1>5, <1>6, <1>7, <1>8, <1>9 DEF Next

\* A step of the registry keeps the inductive invariant.
LEMMA InvStep == Inv /\ [Next]_vars => Inv'
<1> SUFFICES ASSUME Inv, [Next]_vars PROVE Inv'
  OBVIOUS
<1>0. TypeInv'
  BY TypeStep DEF Inv
<1> USE RegistryAssumption DEF Inv, TypeInv, Callers, Terms, Idle, Busy, Entry, NoEntry, NoTerm
<1>1. CASE UNCHANGED vars
  <2>1. CreatorAlone'
    BY <1>1 DEF vars, CreatorAlone, Got, Alive, MustSpawn, LiveSource
  <2>2. IndexSound' /\ IdleEmpty' /\ Unstarted'
    BY <1>1 DEF vars, IndexSound, IdleEmpty, Unstarted
  <2>3. NoLeakedTerminal' /\ SourceFound'
    BY <1>1 DEF vars, NoLeakedTerminal, SourceFound, Indexed, Registered, InHand
  <2> QED BY <1>0, <2>1, <2>2, <2>3
<1>2. ASSUME NEW p \in Creators, NEW id \in Ids, CreateLookup(p, id) PROVE Inv'
  <2>1. CreatorAlone'
    <3>1. /\ caller[p] = Idle /\ ~Got(id) /\ UNCHANGED <<sourceToID, spawned, done, startedFor>>
          /\ \/ /\ MustSpawn(id) /\ UNCHANGED entries
                /\ caller' = [caller EXCEPT ![p] = Busy("spawn", id, NoTerm)]
             \/ caller' = caller
      BY <1>2 DEF CreateLookup
    <3>2. ASSUME NEW q \in Callers, caller'[q].pc \in {"spawn", "insert"} PROVE q = p
      BY <3>1, <3>2 DEF CreatorAlone
    <3>3. CASE caller' = caller
      BY <3>1, <3>2, <3>3 DEF CreatorAlone
    <3>4. CASE /\ MustSpawn(id) /\ UNCHANGED entries
               /\ caller' = [caller EXCEPT ![p] = Busy("spawn", id, NoTerm)]
      <4>1. caller'[p] = [pc |-> "spawn", id |-> id, term |-> NoTerm] /\ p \in Callers
        BY <3>4
      <4>2. Got(id)' = Got(id) /\ MustSpawn(id)' = MustSpawn(id)
        BY <3>1, <3>4 DEF Got, Alive, MustSpawn, LiveSource
      <4> QED BY <3>1, <3>2, <3>4, <4>1, <4>2 DEF CreatorAlone
    <3> QED BY <3>1, <3>3, <3>4
  <2>2. IndexSound'
    BY <1>0, <1>2, DropSourceOwn DEF CreateLookup, Alias, CreatorAlone, IndexSound
  <2>3. IdleEmpty' /\ Unstarted'
    BY <1>0, <1>2 DEF CreateLookup, Alias, CreatorAlone, IdleEmpty, Unstarted
  <2>4. NoLeakedTerminal'
    <3> SUFFICES ASSUME NEW t \in 1..spawned, t \notin done
                 PROVE  (t \in Registered \cup InHand)'
      BY <1>2 DEF CreateLookup, NoLeakedTerminal
    <3>1. CASE \E i \in Ids : entries[i].term = t
      <4>1. PICK i \in Ids : entries[i].term = t
        BY <3>1
      <4>2. i # id \/ UNCHANGED entries
        BY <1>2, <4>1 DEF CreateLookup, Got, Alive
      <4>3. entries'[i].term = t
        BY <1>2, <4>1, <4>2 DEF CreateLookup, Alias
      <4> QED BY <4>3 DEF Registered
    <3>2. CASE \E q \in Callers : caller[q].term = t
      <4>1. PICK q \in Callers : caller[q].term = t
        BY <3>2
      <4>2. caller'[q].term = t
        BY <1>2, <4>1 DEF CreateLookup
      <4> QED BY <4>2 DEF InHand
    <3>3. (\E i \in Ids : entries[i].term = t) \/ \E q \in Callers : caller[q].term = t
      BY DEF NoLeakedTerminal, Registered, InHand
    <3> QED BY <3>1, <3>2, <3>3
  <2>5. SourceFound'
    <3> SUFFICES ASSUME NEW t \in 1..spawned, t \notin done, startedFor[t] # NoSource
                 PROVE  (Indexed(t) \/ t \in InHand)'
      BY <1>2 DEF CreateLookup, SourceFound
    <3>1. CASE Indexed(t)
      <4>1. sourceToID[startedFor[t]] \in Ids
        BY <3>1 DEF Indexed
      <4>2. sourceToID[startedFor[t]] # id
        BY <1>2, <3>1, <4>1 DEF CreateLookup, Got, Alive, Indexed
      <4> QED BY <1>2, <3>1, <4>1, <4>2 DEF CreateLookup, Alias, Indexed
    <3>2. CASE \E q \in Callers : caller[q].term = t
      <4>1. PICK q \in Callers : caller[q].term = t
        BY <3>2
      <4>2. caller'[q].term = t
        BY <1>2, <4>1 DEF CreateLookup
      <4> QED BY <4>2 DEF InHand
    <3> QED BY <3>1, <3>2 DEF SourceFound, InHand
  <2> QED BY <1>0, <2>1, <2>2, <2>3, <2>4, <2>5
<1>3. ASSUME NEW p \in Creators, NEW id \in Ids, Add(p, id) PROVE Inv'
  <2>1. CreatorAlone'
    BY <1>3 DEF Add, Replaced, CreatorAlone
  <2>2. IndexSound'
    BY <1>0, <1>3, DropSourceOwn DEF Add, Replaced, CreatorAlone, IndexSound
  <2>3. IdleEmpty' /\ Unstarted'
    BY <1>0, <1>3 DEF Add, Replaced, CreatorAlone, IdleEmpty, Unstarted
  <2>4. NoLeakedTerminal'
    BY <1>0, <1>3 DEF Add, Replaced, CreatorAlone, IdleEmpty, NoLeakedTerminal, Registered, InHand
  <2>5. SourceFound'
    BY <1>3 DEF Add, IndexSound, Unstarted, SourceFound, Indexed, InHand
  <2> QED BY <1>0, <2>1, <2>2, <2>3, <2>4, <2>5
<1>4. ASSUME NEW p \in Creators, CreateSpawn(p) PROVE Inv'
  <2>1. CreatorAlone'
    <3>1. /\ caller[p].pc = "spawn" /\ UNCHANGED <<entries, sourceToID, done>>
          /\ \A i \in Ids : Got(i)' = Got(i) /\ MustSpawn(i)' = MustSpawn(i)
      BY <1>4 DEF CreateSpawn, Got, Alive, MustSpawn, LiveSource
    <3>2. ASSUME NEW q \in Callers, caller'[q].pc \in {"spawn", "insert"} PROVE q = p
      BY <1>4, <3>2 DEF CreateSpawn, CreatorAlone
    <3>3. CASE caller'[p].pc \in {"spawn", "insert"}
      <4>1. /\ caller'[p].pc = "insert" /\ caller'[p].id = caller[p].id
            /\ caller'[p].term = spawned + 1 /\ caller'[p].term # NoTerm
            /\ startedFor'[caller'[p].term] = SourceOf[caller[p].id]
        BY <1>4, <3>3 DEF CreateSpawn, CreatorAlone
      <4> QED BY <3>1, <3>2, <4>1 DEF CreatorAlone
    <3>4. CASE caller'[p].pc \notin {"spawn", "insert"}
      BY <3>2, <3>4 DEF CreatorAlone
    <3> QED BY <3>3, <3>4
  <2>2. IndexSound'
    BY <1>0, <1>4, DropSourceOwn DEF CreateSpawn, CreatorAlone, IndexSound
  <2>3. IdleEmpty' /\ Unstarted'
    <3>1. IdleEmpty'
      <4>1. \A q \in Callers : q # p => caller'[q] = caller[q]
        BY <1>4 DEF CreateSpawn
      <4>2. caller'[p] = Idle \/ caller'[p].pc = "insert"
        BY <1>4 DEF CreateSpawn
      <4> QED BY <4>1, <4>2 DEF IdleEmpty
    <3>2. Unstarted'
      <4>1. CASE UNCHANGED <<spawned, startedFor>>
        BY <4>1 DEF Unstarted
      <4>2. CASE spawned' = spawned + 1
        BY <1>4, <4>2 DEF CreateSpawn, Unstarted
      <4> QED BY <1>4, <4>1, <4>2 DEF CreateSpawn
    <3> QED BY <3>1, <3>2
  <2>4. NoLeakedTerminal'
    <3> SUFFICES ASSUME NEW t \in 1..spawned', t \notin done
                 PROVE  (t \in Registered \cup InHand)'
      BY <1>4 DEF CreateSpawn, NoLeakedTerminal
    <3>1. CASE t \in 1..spawned
      <4>1. t \in Registered \/ \E q \in Callers : caller[q].term = t
        BY <3>1 DEF NoLeakedTerminal, InHand
      <4>2. CASE t \in Registered
        BY <1>4, <4>2 DEF CreateSpawn, Registered
      <4>3. ASSUME NEW q \in Callers, caller[q].term = t PROVE t \in InHand'
        <5>1. q # p
          BY <1>4, <4>3 DEF CreateSpawn, CreatorAlone
        <5>2. caller'[q].term = t
          BY <1>4, <4>3, <5>1 DEF CreateSpawn
        <5> QED BY <5>2 DEF InHand
      <4> QED BY <4>1, <4>2, <4>3
    <3>2. CASE t \notin 1..spawned
      <4>1. t = spawned + 1 /\ caller'[p].term = t
        BY <1>4, <3>2 DEF CreateSpawn
      <4> QED BY <4>1 DEF InHand
    <3> QED BY <3>1, <3>2
  <2>5. SourceFound'
    <3> SUFFICES ASSUME NEW t \in 1..spawned', t \notin done, startedFor'[t] # NoSource
                 PROVE  (Indexed(t) \/ t \in InHand)'
      BY <1>4 DEF CreateSpawn, SourceFound
    <3>1. CASE t \in 1..spawned
      <4>1. startedFor'[t] = startedFor[t]
        BY <1>4, <3>1 DEF CreateSpawn
      <4>2. CASE Indexed(t)
        BY <1>4, <4>1, <4>2 DEF CreateSpawn, Indexed
      <4>3. ASSUME NEW q \in Callers, caller[q].term = t PROVE t \in InHand'
        <5>1. q # p
          BY <1>4, <3>1, <4>3 DEF CreateSpawn, CreatorAlone
        <5>2. caller'[q].term = t
          BY <1>4, <4>3, <5>1 DEF CreateSpawn
        <5> QED BY <5>2 DEF InHand
      <4> QED BY <3>1, <4>1, <4>2, <4>3 DEF SourceFound, InHand
    <3>2. CASE t \notin 1..spawned
      <4>1. t = spawned + 1 /\ caller'[p].term = t
        BY <1>4, <3>2 DEF CreateSpawn
      <4> QED BY <4>1 DEF InHand
    <3> QED BY <3>1, <3>2
  <2> QED BY <1>0, <2>1, <2>2, <2>3, <2>4, <2>5
<1>5. ASSUME NEW p \in Creators, CreateInsert(p) PROVE Inv'
  <2>1. CreatorAlone'
    <3> SUFFICES ASSUME NEW q \in Callers, caller'[q].pc \in {"spawn", "insert"}
                 PROVE  FALSE
      BY DEF CreatorAlone
    <3>1. q # p /\ caller[q].pc \in {"spawn", "insert"}
      BY <1>5 DEF CreateInsert
    <3> QED BY <3>1 DEF CreatorAlone
  <2>2. IndexSound'
    BY <1>0, <1>5, DropSourceOwn DEF CreateInsert, CreatorAlone, IndexSound
  <2>3. IdleEmpty' /\ Unstarted'
    BY <1>0, <1>5 DEF CreateInsert, CreatorAlone, IdleEmpty, Unstarted
  <2>4. NoLeakedTerminal'
    BY <1>0, <1>5 DEF CreateInsert, CreatorAlone, NoLeakedTerminal, Registered, InHand, Got, Alive
  <2>5. SourceFound'
    <3> DEFINE id == caller[p].id
               u == caller[p].term
               src == SourceOf[id]
    <3> SUFFICES ASSUME NEW t \in 1..spawned, t \notin done, startedFor[t] # NoSource
                 PROVE  Indexed(t)' \/ t \in InHand'
      BY <1>5 DEF CreateInsert, SourceFound
    <3>1. /\ id \in Ids /\ ~Got(id) /\ ~LiveSource(src) /\ u # NoTerm /\ startedFor[u] = src
      BY <1>5 DEF CreateInsert, CreatorAlone, MustSpawn
    <3>2. /\ entries'[id].term = u /\ \A i \in Ids : i # id => entries'[i] = entries[i]
          /\ src # NoSource => sourceToID'[src] = id
          /\ \A s \in Sources : s # src => sourceToID'[s] = sourceToID[s]
          /\ startedFor' = startedFor /\ \A q \in Callers : q # p => caller'[q] = caller[q]
      BY <1>5, <3>1 DEF CreateInsert
    <3>3. startedFor[t] \in Sources /\ id # NoId
      BY <3>1
    <3>4. CASE t = u
      BY <3>1, <3>2, <3>3, <3>4 DEF Indexed
    <3>5. CASE t # u /\ t \in InHand
      <4>1. PICK q \in Callers : caller[q].term = t
        BY <3>5 DEF InHand
      <4>2. q # p
        BY <3>5, <4>1
      <4>3. caller'[q].term = t
        BY <3>2, <4>1, <4>2
      <4> QED BY <4>3 DEF InHand
    <3>6. CASE t # u /\ Indexed(t)
      <4> DEFINE i == sourceToID[startedFor[t]]
      <4>1. i \in Ids /\ entries[i].term = t /\ Got(i)
        BY <3>3, <3>6 DEF Indexed, Got, Alive
      <4>2. i # id /\ startedFor[t] # src
        BY <3>1, <3>3, <4>1 DEF LiveSource
      <4> QED BY <3>2, <3>3, <3>6, <4>1, <4>2 DEF Indexed
    <3> QED BY <3>4, <3>5, <3>6 DEF SourceFound
  <2> QED BY <1>0, <2>1, <2>2, <2>3, <2>4, <2>5
<1>6. ASSUME NEW p \in Removers, NEW id \in Ids, Remove(p, id) PROVE Inv'
  <2>1. CreatorAlone'
    <3> SUFFICES ASSUME NEW q \in Callers, caller'[q].pc \in {"spawn", "insert"}
                 PROVE  /\ caller[q].pc \in {"spawn", "insert"} /\ caller'[q] = caller[q]
                        /\ ~Got(caller[q].id)' /\ MustSpawn(caller[q].id)'
      BY <1>6 DEF CreatorAlone, Remove
    <3>1. caller'[q] = caller[q]
      BY <1>6 DEF Remove
    <3>2. \A i \in Ids : Got(i)' => Got(i)
      BY <1>6 DEF Remove, Got, Alive
    <3>3. \A s \in Sources : LiveSource(s)' => LiveSource(s)
      BY <1>0, <1>6, <3>2, DropSourceOwn DEF Remove, LiveSource
    <3> QED BY <3>1, <3>2, <3>3 DEF CreatorAlone, MustSpawn, LiveSource
  <2>2. IndexSound'
    BY <1>0, <1>6, DropSourceOwn DEF Remove, CreatorAlone, IndexSound
  <2>3. IdleEmpty' /\ Unstarted'
    BY <1>0, <1>6 DEF Remove, CreatorAlone, IdleEmpty, Unstarted
  <2>4. NoLeakedTerminal'
    BY <1>0, <1>6 DEF Remove, CreatorAlone, NoLeakedTerminal, Registered, InHand, Got, Alive
  <2>5. SourceFound'
    BY <1>6, DropSourceOwn DEF Remove, Unstarted, SourceFound, Indexed, InHand
  <2> QED BY <1>0, <2>1, <2>2, <2>3, <2>4, <2>5
<1>7. ASSUME NEW p \in Callers, Close(p) PROVE Inv'
  <2>1. CreatorAlone'
    BY <1>0, <1>7, DropSourceOwn DEF Close, CreatorAlone, Got, Alive, MustSpawn, LiveSource
  <2>2. IndexSound'
    BY <1>0, <1>7, DropSourceOwn DEF Close, CreatorAlone, IndexSound
  <2>3. IdleEmpty' /\ Unstarted'
    BY <1>0, <1>7 DEF Close, CreatorAlone, IdleEmpty, Unstarted
  <2>4. NoLeakedTerminal'
    BY <1>0, <1>7 DEF Close, CreatorAlone, NoLeakedTerminal, Registered, InHand, Got, Alive
  <2>5. SourceFound'
    BY <1>7 DEF Close, SourceFound, Indexed, InHand
  <2> QED BY <1>0, <2>1, <2>2, <2>3, <2>4, <2>5
<1>8. ASSUME Exit PROVE Inv'
  <2>1. CreatorAlone'
    BY <1>0, <1>8, DropSourceOwn DEF Exit, CreatorAlone, Got, Alive, MustSpawn, LiveSource
  <2>2. IndexSound'
    BY <1>0, <1>8, DropSourceOwn DEF Exit, CreatorAlone, IndexSound
  <2>3. IdleEmpty' /\ Unstarted'
    BY <1>0, <1>8 DEF Exit, CreatorAlone, IdleEmpty, Unstarted
  <2>4. NoLeakedTerminal'
    BY <1>0, <1>8 DEF Exit, CreatorAlone, NoLeakedTerminal, Registered, InHand, Got, Alive
  <2>5. SourceFound'
    BY <1>8 DEF Exit, SourceFound, Indexed, InHand
  <2> QED BY <1>0, <2>1, <2>2, <2>3, <2>4, <2>5
<1>9. ASSUME Forget PROVE Inv'
  <2>1. CreatorAlone'
    <3>1. \A i \in Ids : Got(i)' => Got(i)
      <4>1. \A i \in Ids : entries'[i] \in {entries[i], NoEntry}
        BY <1>9 DEF Forget
      <4> QED BY <1>9, <4>1 DEF Forget, Got, Alive
    <3>2. \A s \in Sources : sourceToID'[s] \in {sourceToID[s], NoId}
      BY <1>9, DropSourceOwn DEF Forget
    <3>3. \A s \in Sources : LiveSource(s)' => LiveSource(s)
      BY <1>0, <3>1, <3>2 DEF LiveSource
    <3> QED BY <1>9, <3>1, <3>3 DEF Forget, CreatorAlone, MustSpawn, LiveSource
  <2>2. IndexSound'
    BY <1>0, <1>9, DropSourceOwn, SMTT(20) DEF Forget, Forgets, CreatorAlone, IndexSound
  <2>3. IdleEmpty' /\ Unstarted'
    BY <1>0, <1>9 DEF Forget, Forgets, CreatorAlone, IdleEmpty, Unstarted
  <2>4. NoLeakedTerminal'
    <3> SUFFICES ASSUME NEW i \in Ids, entries[i].term \notin done
                 PROVE  entries'[i] = entries[i]
      BY <1>9, SMTT(20) DEF Forget, NoLeakedTerminal, Registered, InHand
    <3> QED BY <1>9 DEF Forget, Forgets
  <2>5. SourceFound'
    BY <1>0, <1>9, DropSourceOwn, SMTT(20)
    DEF Forget, Forgets, CreatorAlone, IndexSound, SourceFound, Indexed, InHand
  <2> QED BY <1>0, <2>1, <2>2, <2>3, <2>4, <2>5
<1> QED BY <1>1, <1>2, <1>3, <1>4, <1>5, <1>6, <1>7, <1>8, <1>9 DEF Next

\* The inductive invariant holds of an empty registry.
LEMMA InvInit == Init => Inv
BY RegistryAssumption
DEF Init, Inv, TypeInv, CreatorAlone, IndexSound, IdleEmpty, Unstarted, NoLeakedTerminal,
    SourceFound, Callers, Terms, Idle, NoEntry, NoTerm

\* No terminal runs unreachable, however the critical sections of CreateWithID,
\* Add, Remove and the cleanup goroutines interleave, for every set of ids,
\* sources and removers.
THEOREM RegistrySafe == Spec => []NoLeakedTerminal
<1>1. Inv => NoLeakedTerminal
  BY DEF Inv
<1> QED BY <1>1, InvInit, InvStep, PTL DEF Spec

\* At rest a source has one terminal at most, which CreateWithID finds for every
\* later id of that source (liveSourceLocked).
THEOREM SourceServedOnce == Spec => []OneTerminalPerSource
<1>1. Inv => OneTerminalPerSource
  <2> SUFFICES ASSUME Inv, \A p \in Callers : caller[p] = Idle,
                      NEW t \in Registered, NEW u \in Registered, Alive(t), Alive(u),
                      startedFor[t] # NoSource, startedFor[t] = startedFor[u]
               PROVE  t = u
    BY DEF OneTerminalPerSource
  <2>1. t \in 1..spawned /\ u \in 1..spawned
    BY DEF Inv, TypeInv, Registered, Alive, NoTerm
  <2>2. t \notin InHand /\ u \notin InHand
    BY <2>1 DEF InHand, Idle, NoTerm
  <2>3. Indexed(t) /\ Indexed(u)
    BY <2>1, <2>2 DEF Inv, SourceFound, Alive
  <2> QED BY <2>3 DEF Indexed
<1> QED BY <1>1, InvInit, InvStep, PTL DEF Spec

\* A running terminal is unregistered only by a goroutine that then closes it:
\* the cleanup of a terminal that had the id before never does it.
THEOREM CleanupHarmless == Spec => LateCleanupHarmless
<1> DEFINE Harmless ==
      \A id \in Ids : (Got(id) /\ entries'[id] # entries[id])
        => \E p \in Callers : caller'[p] = Busy("close", NoId, entries[id].term)
<1>1. Init => Inv
  BY InvInit
<1>2. Inv /\ [Next]_vars => Inv'
  BY InvStep
<1>3. Inv /\ [Next]_vars => [Harmless]_vars
  <2> SUFFICES ASSUME Inv, Next, NEW i \in Ids, Got(i), entries'[i] # entries[i]
               PROVE  \E p \in Callers : caller'[p] = Busy("close", NoId, entries[i].term)
    OBVIOUS
  <2>1. ASSUME NEW p \in Creators, NEW id \in Ids, CreateLookup(p, id) PROVE FALSE
    BY <2>1 DEF CreateLookup, Alias, Inv, TypeInv
  <2>2. ASSUME NEW p \in Creators, NEW id \in Ids, Add(p, id)
        PROVE  caller'[p] = Busy("close", NoId, entries[i].term)
    BY <2>2 DEF Add, Replaced, Inv, TypeInv, Callers, Got, Alive, NoTerm
  <2>3. ASSUME NEW p \in Creators, CreateInsert(p) PROVE FALSE
    BY <2>3 DEF CreateInsert, Inv, TypeInv, CreatorAlone, Callers
  <2>4. ASSUME NEW p \in Removers, NEW id \in Ids, Remove(p, id)
        PROVE  caller'[p] = Busy("close", NoId, entries[i].term)
    BY <2>4 DEF Remove, Inv, TypeInv, Callers
  <2>5. CASE Forget
    BY <2>5 DEF Forget, Forgets, Got, Alive, Inv, TypeInv
  <2> QED BY <2>1, <2>2, <2>3, <2>4, <2>5 DEF Next, Callers, CreateSpawn, Close, Exit
<1> QED BY <1>1, <1>2, <1>3, PTL DEF Spec, LateCleanupHarmless

-----------------------------------------------------------------------------
(* The linked sessions *)

\* A step with the linked sessions is a step of the registry, or none.
LEMMA RegistryStep == [LinkedNext]_lvars => [Next]_vars
BY DEF LinkedNext, lvars, Next, ActivateLookup, AddFake, ActivateSpawn, ActivateInsert,
       OnTmuxActivated, ScanRemoves, ScanKills, CloseTerminal, TakeNames, CleanupKills,
       ExitProcess, ClientLinks, LinkedEnds, TerminalEnds

\* Activation, scans and shutdown use the registry only through its operations.
THEOREM LinkedImplementsRegistry == LinkedSpec => Spec
<1>1. LinkedInit => Init
  BY DEF LinkedInit
<1>2. [LinkedNext]_lvars => [Next]_vars
  BY RegistryStep
<1> QED BY <1>1, <1>2, PTL DEF LinkedSpec, Spec

\* A step that changes no activation in progress keeps what is unrecorded.
LEMMA UnrecordedKept == UNCHANGED <<caller, owed>> => Unrecorded' = Unrecorded
BY DEF Unrecorded

\* Every step keeps the inductive invariant of the linked sessions.
LEMMA LinkedStep == LinkedInv /\ [LinkedNext]_lvars => LinkedInv'
<1> SUFFICES ASSUME LinkedInv, [LinkedNext]_lvars PROVE LinkedInv'
  OBVIOUS
<1>0. Inv /\ Inv'
  BY InvStep, RegistryStep DEF LinkedInv
<1> USE RegistryAssumption DEF LinkedInv, LinkTypeInv, linkVars, listVars, shutVars
<1>1. CASE UNCHANGED lvars
  BY <1>0, <1>1, UnrecordedKept DEF lvars, vars, StartingRecorded, OweOnce, LinkedAccounted
<1>2. ASSUME NEW p \in Creators, NEW id \in Ids, ActivateLookup(p, id) PROVE LinkedInv'
  <2>1. Unrecorded \ {NoSource} \subseteq Unrecorded'
    BY <1>0, <1>2 DEF Inv, TypeInv, ActivateLookup, CreateLookup, Unrecorded, Idle, Busy, Callers
  <2>2. UNCHANGED <<linkVars, activated, shutVars, spawned, startedFor>>
    BY <1>2 DEF ActivateLookup, CreateLookup
  <2>3. LinkTypeInv' /\ OweOnce'
    BY <1>0, <1>2 DEF Inv, TypeInv, ActivateLookup, CreateLookup, OweOnce, Idle, Busy, Callers
  <2> QED BY <1>0, <2>1, <2>2, <2>3 DEF StartingRecorded, LinkedAccounted
<1>3. ASSUME NEW p \in Creators, NEW id \in Ids, AddFake(p, id) PROVE LinkedInv'
  <2>1. Unrecorded \subseteq Unrecorded'
    BY <1>0, <1>3 DEF Inv, TypeInv, AddFake, Add, Unrecorded, Idle, Callers
  <2>2. UNCHANGED <<linkVars, listVars, shutVars, startedFor>> /\ spawned' = spawned + 1
    BY <1>3 DEF AddFake, Add
  <2>3. LinkTypeInv' /\ OweOnce'
    BY <1>0, <1>3, <2>2 DEF Inv, TypeInv, AddFake, Add, Replaced, OweOnce, Idle, Busy, Callers
  <2> QED BY <1>0, <2>1, <2>2, <2>3 DEF StartingRecorded, LinkedAccounted
<1>4. ASSUME NEW p \in Creators, ActivateSpawn(p) PROVE LinkedInv'
  <2>1. caller[p].pc = "spawn" /\ p \in Callers /\ caller[p].id \in Ids
    BY <1>0, <1>4 DEF Inv, CreatorAlone, ActivateSpawn, CreateSpawn, Callers
  <2>2. Unrecorded \subseteq Unrecorded'
    BY <1>0, <1>4, <2>1 DEF Inv, TypeInv, ActivateSpawn, CreateSpawn, Unrecorded, Callers
  <2>3. UNCHANGED <<linked, escaped, listVars, shutVars>>
    BY <1>4 DEF ActivateSpawn
  <2>4. OweOnce'
    BY <1>0, <1>4, <2>1 DEF Inv, TypeInv, ActivateSpawn, CreateSpawn, OweOnce, Callers, Idle, Busy
  <2>5. CASE UNCHANGED <<spawned, startedFor>>
    <3>1. starting' = starting
      BY <1>0, <1>4, <2>5 DEF Inv, TypeInv, ActivateSpawn
    <3> QED BY <1>0, <2>2, <2>3, <2>4, <2>5, <3>1 DEF StartingRecorded, LinkedAccounted
  <2>6. CASE spawned' = spawned + 1
    <3> DEFINE s == SourceOf[caller[p].id]
    <3>1. /\ startedFor' = [startedFor EXCEPT ![spawned + 1] = s]
          /\ caller' = [caller EXCEPT ![p] = Busy("insert", caller[p].id, spawned + 1)]
          /\ spawned + 1 \in Terms /\ spawned \in Nat
      BY <1>0, <1>4, <2>6 DEF Inv, TypeInv, ActivateSpawn, CreateSpawn, Terms
    <3>2. s \in Unrecorded'
      BY <1>0, <2>1, <3>1 DEF Inv, TypeInv, Unrecorded, Busy, Callers
    <3>3. \A t \in 1..spawned : startedFor'[t] = startedFor[t]
      BY <1>0, <3>1 DEF Inv, TypeInv, Terms
    <3>4. startedFor'[spawned + 1] = s /\ s \in Sources \cup {NoSource}
      BY <1>0, <2>1, <3>1 DEF Inv, TypeInv
    <3>5. starting \subseteq starting' /\ \A t \in starting' \ starting : t = spawned + 1 /\ s # NoSource
      BY <1>4, <2>6, <3>1, <3>4 DEF ActivateSpawn
    <3> HIDE DEF s
    <3>6. LinkTypeInv'
      <4>1. (starting \subseteq 1..spawned)'
        BY <2>6, <3>1, <3>5
      <4>2. \A t \in starting' : startedFor'[t] \in Sources
        BY <3>3, <3>4, <3>5
      <4> QED BY <2>3, <4>1, <4>2
    <3> QED BY <1>0, <2>2, <2>3, <2>4, <3>2, <3>3, <3>4, <3>5, <3>6
            DEF StartingRecorded, LinkedAccounted
  <2> QED BY <1>4, <2>5, <2>6 DEF ActivateSpawn, CreateSpawn
<1>5. ASSUME NEW p \in Creators, ActivateInsert(p) PROVE LinkedInv'
  <2>1. caller[p].pc = "insert" /\ p \in Callers /\ caller[p].id \in Ids
    BY <1>0, <1>5 DEF Inv, CreatorAlone, ActivateInsert, CreateInsert, Callers
  <2>2. Unrecorded \ {NoSource} \subseteq Unrecorded'
    <3>1. owed[p] = NoSource /\ owed'[p] = SourceOf[caller[p].id]
      BY <1>5, <2>1 DEF OweOnce, ActivateInsert
    <3>2. \A q \in Creators : q # p => owed'[q] = owed[q] /\ caller'[q] = caller[q]
      BY <1>0, <1>5 DEF Inv, TypeInv, ActivateInsert, CreateInsert, Callers
    <3> QED BY <3>1, <3>2 DEF Unrecorded
  <2>3. UNCHANGED <<linkVars, activated, shutVars, spawned, startedFor>>
    BY <1>5 DEF ActivateInsert, CreateInsert
  <2>4. LinkTypeInv' /\ OweOnce'
    BY <1>0, <1>5, <2>1 DEF Inv, TypeInv, ActivateInsert, CreateInsert, OweOnce, Idle, Callers
  <2> QED BY <1>0, <2>2, <2>3, <2>4 DEF StartingRecorded, LinkedAccounted
<1>6. ASSUME NEW p \in Creators, OnTmuxActivated(p) PROVE LinkedInv'
  <2>1. Unrecorded \subseteq Unrecorded' \cup activated'
    BY <1>6 DEF OnTmuxActivated, vars, Unrecorded
  <2>2. LinkTypeInv' /\ OweOnce'
    BY <1>0, <1>6 DEF OnTmuxActivated, vars, OweOnce
  <2> QED BY <1>0, <1>6, <2>1, <2>2 DEF OnTmuxActivated, vars, StartingRecorded, LinkedAccounted
<1>7. ASSUME NEW p \in Removers, NEW id \in Ids, ScanRemoves(p, id) PROVE LinkedInv'
  <2>1. Unrecorded \subseteq Unrecorded' /\ OweOnce'
    BY <1>0, <1>7
    DEF Inv, TypeInv, ScanRemoves, Remove, Unrecorded, OweOnce, Idle, Busy, Callers
  <2>2. UNCHANGED <<linkVars, activated, owed, shutVars, spawned, startedFor>>
    BY <1>7 DEF ScanRemoves, Remove
  <2> QED BY <1>0, <2>1, <2>2 DEF StartingRecorded, LinkedAccounted
<1>8. ASSUME NEW p \in Removers, ScanKills(p) PROVE LinkedInv'
  <2>1. UNCHANGED <<vars, starting, escaped, activated, owed, shutVars>> /\ linked' \subseteq linked
    BY <1>8 DEF ScanKills, Killed
  <2> QED BY <1>0, <2>1, UnrecordedKept DEF vars, StartingRecorded, OweOnce, LinkedAccounted
<1>9. ASSUME NEW p \in Callers, CloseTerminal(p) PROVE LinkedInv'
  <2>1. Unrecorded \subseteq Unrecorded' /\ OweOnce'
    BY <1>0, <1>9 DEF Inv, TypeInv, CloseTerminal, Close, Unrecorded, OweOnce, Idle, Callers
  <2>2. UNCHANGED <<linkVars, listVars, shutVars, spawned, startedFor>>
    BY <1>9 DEF CloseTerminal, Close
  <2> QED BY <1>0, <2>1, <2>2 DEF StartingRecorded, LinkedAccounted
<1>10. CASE TakeNames
  BY <1>0, <1>10, UnrecordedKept
  DEF TakeNames, vars, StartingRecorded, OweOnce, LinkedAccounted
<1>11. CASE CleanupKills
  BY <1>0, <1>11, UnrecordedKept
  DEF CleanupKills, Killed, vars, StartingRecorded, OweOnce, LinkedAccounted
<1>12. CASE ExitProcess
  BY <1>0, <1>12, UnrecordedKept
  DEF ExitProcess, vars, StartingRecorded, OweOnce, LinkedAccounted
<1>13. CASE ClientLinks
  BY <1>0, <1>13, UnrecordedKept
  DEF ClientLinks, vars, StartingRecorded, OweOnce, LinkedAccounted
<1>14. CASE LinkedEnds
  BY <1>0, <1>14, UnrecordedKept
  DEF LinkedEnds, Killed, vars, StartingRecorded, OweOnce, LinkedAccounted
<1>15. CASE TerminalEnds
  BY <1>0, <1>15, UnrecordedKept
  DEF TerminalEnds, Exit, Forget, StartingRecorded, OweOnce, LinkedAccounted
<1> QED BY <1>1, <1>2, <1>3, <1>4, <1>5, <1>6, <1>7, <1>8, <1>9, <1>10, <1>11, <1>12, <1>13,
           <1>14, <1>15 DEF LinkedNext

\* Whatever scans, exits and reattachments come before, and wherever shutdown
\* finds the goroutines, a linked tmux session that outlives the process is one
\* whose activation the shutdown overtook or whose kill failed.
THEOREM LinkedSafe == LinkedSpec => []LinkedAccounted
<1>1. LinkedInit => LinkedInv
  BY InvInit, RegistryAssumption
  DEF LinkedInit, LinkedInv, LinkTypeInv, StartingRecorded, OweOnce, LinkedAccounted, Init,
      Callers, Idle
<1>2. LinkedInv /\ [LinkedNext]_lvars => LinkedInv'
  BY LinkedStep
<1>3. LinkedInv => LinkedAccounted
  BY DEF LinkedInv
<1> QED BY <1>1, <1>2, <1>3, PTL DEF LinkedSpec
=============================================================================
