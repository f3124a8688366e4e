--------------------------- MODULE PairingProofs ----------------------------
(*****************************************************************************)
(* The identity files are kept, agree between agents and fail closed, for   *)
(* any number of agents and of starts; and every pairing request is         *)
(* answered at most once, by the prompt and within the time that is its     *)
(* own.                                                                     *)
(*****************************************************************************)
EXTENDS Identity, PairPrompter, TLAPS

-----------------------------------------------------------------------------
(* Identity files *)

Contents == {"absent", "partial", "whole"}
Phases == Over \cup Creating \cup {"look", "read", "create", "running"}

TypeInv ==
  /\ file \in [Files -> Contents] /\ synced \subseteq Files
  /\ made \in [Files -> Nat] /\ value \in [Files -> Nat]
  /\ completed \in [Files -> SUBSET Nat]
  /\ pc \in [Agents -> Phases] /\ at \in [Agents -> Files]
  /\ got \in [Agents -> [Files -> Nat]] /\ early \subseteq Agents

\* A file has one creator at a time, and only that one may withdraw it.
OneCreator ==
  \A p, q \in Agents :
    pc[p] \in Creating /\ pc[q] \in Creating /\ at[p] = at[q] => p = q

\* What the creator has done so far is what the file holds.
CreatorOwns ==
  \A p \in Agents : pc[p] \in Creating =>
    /\ file[at[p]] # "absent"
    /\ pc[p] \in {"sync", "close"} =>
         file[at[p]] = "whole" /\ value[at[p]] = got[p][at[p]]
    /\ pc[p] = "close" => at[p] \in synced

\* A value whose creation returned is on disk, in a file nobody may withdraw.
CompletedStays ==
  \A f \in Files : \A v \in completed[f] :
    file[f] = "whole" /\ value[f] = v /\ f \in synced /\ ~Withdrawable(f)

\* The agent p is past the file f.
Past(p, f) == pc[p] \notin Over /\ (pc[p] = "running" \/ (f = "uid" /\ at[p] = "key"))

\* A file an agent went past, not early, still holds what the agent has.
LoadedStays ==
  \A p \in Agents \ early : \A f \in Files :
    Past(p, f) => file[f] = "whole" /\ value[f] = got[p][f] /\ ~Withdrawable(f)

\* An agent runs once it has the key.
RunsLast == \A p \in Agents : pc[p] = "running" => at[p] = "key"

\* The inductive invariant.
Inv == TypeInv /\ OneCreator /\ CreatorOwns /\ CompletedStays /\ LoadedStays /\ RunsLast

\* Every step keeps the types.
LEMMA TypeStep == TypeInv /\ [Next]_vars => TypeInv'
<1> SUFFICES ASSUME TypeInv, [Next]_vars PROVE TypeInv'
  OBVIOUS
<1> USE DEF TypeInv, diskVars, procVars, Phases, Over, Creating, Contents, None
<1>1. CASE PowerLoss
  BY <1>1 DEF PowerLoss
<1>2. CASE UNCHANGED vars
  BY <1>2 DEF vars
<1>3. ASSUME NEW p \in Agents,
             Start(p) \/ Step(p) \/ CallFails(p) \/ Kill(p)
      PROVE  TypeInv'
  <2>1. CASE Start(p)
    BY <2>1 DEF Start, Unloaded, Files
  <2>2. CASE Look(p)
    BY <2>2 DEF Look
  <2>3. CASE Read(p)
    <3>1. CASE file[at[p]] = "whole"
      <4>1. value[at[p]] \in Nat /\ Loaded(p, value[at[p]]) /\ early' \subseteq Agents
            /\ UNCHANGED diskVars
        BY <2>3, <3>1 DEF Read
      <4> QED BY <4>1 DEF Loaded, Files
    <3>2. CASE file[at[p]] # "whole"
      BY <2>3, <3>2 DEF Read
    <3> QED BY <3>1, <3>2
  <2>4. CASE Create(p)
    <3>1. made[at[p]] + 1 \in Nat
      OBVIOUS
    <3>2. CASE pc'[p] = "write"
      <4>1. /\ file' = [file EXCEPT ![at[p]] = "partial"]
            /\ synced' = synced \ {at[p]} /\ pc' = [pc EXCEPT ![p] = "write"]
            /\ made' = [made EXCEPT ![at[p]] = made[at[p]] + 1]
            /\ got' = [got EXCEPT ![p][at[p]] = made[at[p]] + 1]
            /\ UNCHANGED <<value, completed, at, early>>
        BY <2>4, <3>2 DEF Create
      <4> QED BY <3>1, <4>1
    <3>3. CASE pc'[p] # "write"
      BY <2>4, <3>3 DEF Create
    <3> QED BY <3>2, <3>3
  <2>5. CASE Write(p)
    BY <2>5 DEF Write
  <2>6. CASE Sync(p)
    BY <2>6 DEF Sync
  <2>7. CASE CloseFile(p)
    BY <2>7 DEF CloseFile, Loaded, Files
  <2>8. CASE Cleanup(p)
    BY <2>8 DEF Cleanup
  <2>9. CASE CallFails(p)
    BY <2>9 DEF CallFails
  <2>10. CASE Kill(p)
    BY <2>10 DEF Kill
  <2> QED BY <1>3, <2>1, <2>2, <2>3, <2>4, <2>5, <2>6, <2>7, <2>8, <2>9, <2>10 DEF Step
<1> QED BY <1>1, <1>2, <1>3 DEF Next

\* Every step keeps the inductive invariant.
LEMMA InvStep == Inv /\ [Next]_vars => Inv'
<1> SUFFICES ASSUME Inv, [Next]_vars PROVE Inv'
  OBVIOUS
<1>0. TypeInv'
  BY TypeStep DEF Inv
<1> USE DEF Inv, TypeInv, OneCreator, CreatorOwns, CompletedStays, LoadedStays, RunsLast,
            Past, Withdrawable, diskVars, procVars, Over, Creating
<1>1. CASE PowerLoss
  BY <1>0, <1>1 DEF PowerLoss
<1>2. CASE UNCHANGED vars
  BY <1>2 DEF vars
<1>3. ASSUME NEW p \in Agents,
             Start(p) \/ Step(p) \/ CallFails(p) \/ Kill(p)
      PROVE  Inv'
  <2>1. CASE Start(p)
    BY <1>0, <2>1 DEF Start, Unloaded, Files
  <2>2. CASE Look(p)
    BY <1>0, <2>2 DEF Look
  <2>3. CASE Read(p)
    BY <1>0, <2>3 DEF Read, Loaded, Files
  <2>4. CASE Create(p)
    <3>1. CASE pc'[p] = "write"
      <4>1. /\ file[at[p]] = "absent" /\ file' = [file EXCEPT ![at[p]] = "partial"]
            /\ synced' = synced \ {at[p]} /\ pc' = [pc EXCEPT ![p] = "write"]
            /\ got' = [got EXCEPT ![p][at[p]] = made[at[p]] + 1]
            /\ UNCHANGED <<value, completed, at, early>>
        BY <2>4, <3>1 DEF Create, MayCreate
      <4>2. completed[at[p]] = {} /\ ~Withdrawable(at[p])
        BY <4>1
      <4>3. OneCreator' /\ CreatorOwns' /\ RunsLast'
        BY <1>0, <4>1, <4>2
      <4>4. CompletedStays'
        BY <1>0, <4>1, <4>2
      <4>5. LoadedStays'
        <5> SUFFICES ASSUME NEW q \in Agents, q \notin early, NEW f \in Files, Past(q, f)'
                     PROVE  (file[f] = "whole" /\ value[f] = got[q][f] /\ ~Withdrawable(f))'
          BY <4>1
        <5>1. Past(q, f)
          BY <2>4, <4>1 DEF Create
        <5>2. file[f] = "whole" /\ value[f] = got[q][f] /\ ~Withdrawable(f) /\ f # at[p]
          BY <5>1, <4>1
        <5>3. got'[q][f] = got[q][f] /\ file'[f] = file[f]
          BY <4>1, <5>2
        <5>4. ~Withdrawable(f)'
          BY <4>1, <5>2
        <5> QED BY <4>1, <5>2, <5>3, <5>4
      <4> QED BY <1>0, <4>3, <4>4, <4>5
    <3>2. CASE pc'[p] # "write"
      <4>1. /\ UNCHANGED <<file, synced, got, value, completed, at, early>>
            /\ pc[p] = "create"
            /\ pc' = [pc EXCEPT ![p] = "look"] \/ pc' = [pc EXCEPT ![p] = "failed"]
        BY <2>4, <3>2 DEF Create
      <4>2. OneCreator' /\ CreatorOwns' /\ RunsLast'
        <5>1. OneCreator'
          BY <4>1
        <5>2. CreatorOwns'
          BY <4>1
        <5>3. RunsLast'
          BY <4>1
        <5> QED BY <5>1, <5>2, <5>3
      <4>3. CompletedStays'
        BY <4>1
      <4>4. LoadedStays'
        BY <4>1
      <4> QED BY <1>0, <4>2, <4>3, <4>4
    <3> QED BY <3>1, <3>2
  <2>5. CASE Write(p)
    BY <1>0, <2>5 DEF Write
  <2>6. CASE Sync(p)
    BY <1>0, <2>6 DEF Sync
  <2>7. CASE CloseFile(p)
    BY <1>0, <2>7 DEF CloseFile, Loaded, Files
  <2>8. CASE Cleanup(p)
    BY <1>0, <2>8 DEF Cleanup
  <2>9. CASE CallFails(p)
    <3>1. OneCreator' /\ CreatorOwns' /\ RunsLast'
      BY <1>0, <2>9 DEF CallFails
    <3>2. CompletedStays' /\ LoadedStays'
      BY <1>0, <2>9 DEF CallFails
    <3> QED BY <1>0, <3>1, <3>2
  <2>10. CASE Kill(p)
    BY <1>0, <2>10 DEF Kill
  <2> QED BY <1>3, <2>1, <2>2, <2>3, <2>4, <2>5, <2>6, <2>7, <2>8, <2>9, <2>10 DEF Step
<1> QED BY <1>1, <1>2, <1>3 DEF Next

\* The files of an empty directory satisfy the inductive invariant.
LEMMA InvInit == Init => Inv
BY DEF Init, Inv, TypeInv, OneCreator, CreatorOwns, CompletedStays, LoadedStays, RunsLast,
       Past, Withdrawable, Over, Creating, Files, Contents, Phases, None, Unloaded

\* A saved identity is kept: no interleaving of starts, failed calls, kills and
\* losses of power can lose, truncate or replace what createPrivateFile
\* returned, for every number of agents and starts.
THEOREM IdentitySafe == Spec => []IdentityKept
<1>1. Inv => IdentityKept
  BY DEF Inv, CompletedStays, IdentityKept
<1> QED BY <1>1, InvInit, InvStep, PTL DEF Spec

\* The agents that run have the same identity, whichever of them created it
\* (LoadOrCreateUID, LoadOrCreateKey).
THEOREM RunsShareIdentity == Spec => []RunsAgree
<1>1. Inv => RunsAgree
  BY DEF Inv, TypeInv, LoadedStays, Past, Over, RunsAgree
<1> QED BY <1>1, InvInit, InvStep, PTL DEF Spec

\* Malformed material fails closed (LoadOrCreateUID, LoadOrCreateKey): no agent
\* loads a partial file or takes over its creation, and no step writes, replaces
\* or removes one that nobody is creating; only the loss of power may.
THEOREM PartialFailsClosed == Spec => FailsClosed
<1>1. Init => TypeInv
  BY DEF Init, TypeInv, Files, Contents, Phases, Over, None, Unloaded
<1>2. TypeInv /\ [Next]_vars => TypeInv'
  BY TypeStep
<1>3. TypeInv /\ [Next]_vars =>
        [\A f \in Files : file[f] = "partial" =>
          /\ \A p \in Agents :
               at[p] = f /\ pc[p] \in Loading =>
                 at'[p] = f /\ got'[p] = got[p] /\ pc'[p] \in Loading \cup Over
          /\ Withdrawable(f) \/ file'[f] = "partial" \/ \A p \in Agents : pc'[p] = "down"]_vars
  <2> SUFFICES ASSUME TypeInv, Next, NEW f \in Files, file[f] = "partial"
               PROVE  /\ \A p \in Agents :
                           at[p] = f /\ pc[p] \in Loading =>
                             at'[p] = f /\ got'[p] = got[p] /\ pc'[p] \in Loading \cup Over
                      /\ \/ Withdrawable(f) \/ file'[f] = "partial"
                         \/ \A p \in Agents : pc'[p] = "down"
    OBVIOUS
  <2> USE DEF Loading, Over
  <2>1. CASE PowerLoss
    BY <2>1 DEF PowerLoss, TypeInv
  <2>2. ASSUME NEW q \in Agents, Start(q) \/ Step(q) \/ CallFails(q) \/ Kill(q)
        PROVE  /\ \A p \in Agents :
                    at[p] = f /\ pc[p] \in Loading =>
                      at'[p] = f /\ got'[p] = got[p] /\ pc'[p] \in Loading \cup Over
               /\ Withdrawable(f) \/ file'[f] = "partial"
    <3> USE DEF TypeInv, Withdrawable, Creating
    <3>1. CASE Start(q) \/ Look(q) \/ CallFails(q) \/ Kill(q)
      BY <3>1 DEF Start, Look, CallFails, Kill, diskVars
    <3>2. CASE Read(q)
      BY <3>2 DEF Read, Loaded, diskVars
    <3>3. CASE Create(q)
      BY <3>3 DEF Create, MayCreate
    <3>4. CASE Write(q) \/ Sync(q) \/ CloseFile(q) \/ Cleanup(q)
      BY <3>4 DEF Write, Sync, CloseFile, Loaded, Cleanup
    <3> QED BY <2>2, <3>1, <3>2, <3>3, <3>4 DEF Step
  <2> QED BY <2>1, <2>2 DEF Next
<1> QED BY <1>1, <1>2, <1>3, PTL DEF Spec, FailsClosed

-----------------------------------------------------------------------------
(* Pairing prompt *)

Submissions == [pair : Nat, via : Nat]

PairTypes ==
  /\ requests \in Seq(Nat) /\ received \in Nat /\ prompt \in Nat /\ fired \subseteq Nat
  /\ submit \in Nat /\ conns \in Nat /\ sent \subseteq Submissions
  /\ sending = << >> \/ \E s \in Submissions : sending = <<s>>

\* The pairings whose PIN was taken: submitted, or being submitted.
Taken == sent \cup {sending[i] : i \in DOMAIN sending}

\* The loop selects on the timer of the prompt that shows and on no other.
TimerOfPrompt == expired = prompt

\* Requests are shown and answered in the order they came in: the pairings whose
\* PIN was taken are older than the prompt, which is older than the queue.
InOrder ==
  /\ \A i \in DOMAIN requests : prompt < requests[i] /\ requests[i] <= received
  /\ \A i, j \in DOMAIN requests : i < j => requests[i] < requests[j]
  /\ \A s \in Taken : 0 < s.pair /\ s.pair <= received
  /\ \A s \in Taken, i \in DOMAIN requests : s.pair < requests[i]
  /\ \A s \in Taken : prompt # Nil => s.pair < prompt
  /\ \A s \in sent, i \in DOMAIN sending : s.pair < sending[i].pair
  /\ prompt <= received

OneEach == \A s, t \in sent : s.pair = t.pair => s = t

PairInv == PairTypes /\ TimerOfPrompt /\ InOrder /\ OneEach

\* The variables PairInv speaks of.
pairCore == <<requests, received, prompt, expired, sending, sent>>

LEMMA PairInvInit == PairInit => PairInv
BY DEF PairInit, PairInv, PairTypes, TimerOfPrompt, InOrder, OneEach, Taken, Nil

\* What happens beside the loop leaves the order alone.
LEMMA PairInvBeside ==
  ASSUME PairInv, UNCHANGED pairCore,
         submit' \in Nat, conns' \in Nat, fired' \subseteq Nat
  PROVE  PairInv'
BY DEF pairCore, PairInv, PairTypes, TimerOfPrompt, InOrder, OneEach, Taken

\* A new request is younger than everything; it may find the queue full.
LEMMA PairInvRequest ==
  ASSUME PairInv, Request
  PROVE  PairInv'
<1>1. /\ received \in Nat /\ received' = received + 1 /\ requests \in Seq(Nat)
      /\ requests' = requests \/ requests' = Append(requests, received + 1)
      /\ UNCHANGED <<prompt, expired, fired, sending, sent, submit, conns>>
  BY DEF Request, PairInv, PairTypes, promptVars, connVars
<1>2. Taken' = Taken
  BY <1>1 DEF Taken
<1>3. PairTypes' /\ TimerOfPrompt' /\ OneEach'
  BY <1>1 DEF PairInv, PairTypes, TimerOfPrompt, OneEach
<1>4. CASE requests' = requests
  BY <1>1, <1>2, <1>3, <1>4 DEF PairInv, InOrder, PairTypes, Submissions, Taken
<1>5. CASE requests' = Append(requests, received + 1)
  <2>1. /\ DOMAIN requests = 1..Len(requests) /\ Len(requests) \in Nat
        /\ DOMAIN requests' = 1..(Len(requests) + 1)
        /\ requests'[Len(requests) + 1] = received + 1
        /\ \A i \in DOMAIN requests : requests'[i] = requests[i] /\ requests[i] \in Nat
    BY <1>1, <1>5
  <2>2. \A i \in DOMAIN requests' : i \in DOMAIN requests \/ i = Len(requests) + 1
    BY <2>1
  <2>3. \A s \in Taken : s.pair \in Nat
    BY DEF Taken, PairInv, PairTypes, Submissions
  <2>4. prompt \in Nat /\ prompt <= received /\ InOrder
    BY DEF PairInv, PairTypes, InOrder
  <2>5. \A i \in DOMAIN requests' : prompt' < requests'[i] /\ requests'[i] <= received'
    BY <1>1, <2>1, <2>2, <2>4 DEF InOrder
  <2>6. \A i, j \in DOMAIN requests' : i < j => requests'[i] < requests'[j]
    BY <1>1, <2>1, <2>2, <2>4 DEF InOrder
  <2>7. \A s \in Taken' : 0 < s.pair /\ s.pair <= received'
    BY <1>1, <1>2, <2>3, <2>4 DEF InOrder
  <2>8. \A s \in Taken', i \in DOMAIN requests' : s.pair < requests'[i]
    BY <1>1, <1>2, <2>1, <2>2, <2>3, <2>4 DEF InOrder
  <2>9. \A s \in Taken' : prompt' # Nil => s.pair < prompt'
    BY <1>1, <1>2, <2>4 DEF InOrder
  <2>10. (\A s \in sent', i \in DOMAIN sending' : s.pair < sending'[i].pair) /\ prompt' <= received'
    BY <1>1, <2>4 DEF InOrder
  <2>11. InOrder'
    BY <2>5, <2>6, <2>7, <2>8, <2>9, <2>10 DEF InOrder
  <2> QED BY <1>3, <2>11 DEF PairInv
<1> QED BY <1>1, <1>4, <1>5

\* The oldest request replaces the prompt and its timer.
LEMMA PairInvShow ==
  ASSUME PairInv, ShowPrompt
  PROVE  PairInv'
<1>1. /\ requests \in Seq(Nat) /\ requests # << >> /\ requests' = Tail(requests)
      /\ \/ prompt' = prompt /\ expired' = expired
         \/ prompt' = requests[1] /\ expired' = requests[1]
      /\ UNCHANGED <<received, fired, sending, sent, submit, conns>>
  <2>1. requests \in Seq(Nat) /\ requests # << >>
    BY DEF ShowPrompt, PairInv, PairTypes
  <2>2. Head(requests) = requests[1]
    BY <2>1
  <2> QED BY <2>1, <2>2 DEF ShowPrompt, connVars
<1>2. /\ Len(requests) \in Nat \ {0} /\ requests' \in Seq(Nat)
      /\ DOMAIN requests = 1..Len(requests) /\ DOMAIN requests' = 1..(Len(requests) - 1)
      /\ \A i \in DOMAIN requests' : requests'[i] = requests[i + 1] /\ i + 1 \in DOMAIN requests
      /\ \A i \in DOMAIN requests : requests[i] \in Nat
  BY <1>1
<1>3. Taken' = Taken /\ \A s \in Taken : s.pair \in Nat
  BY <1>1 DEF Taken, PairInv, PairTypes, Submissions
<1>4. PairTypes' /\ TimerOfPrompt' /\ OneEach'
  BY <1>1, <1>2 DEF PairInv, PairTypes, TimerOfPrompt, OneEach
<1>5. 1 \in DOMAIN requests
  BY <1>2
<1>6. InOrder'
  <2>1. /\ prompt \in Nat /\ InOrder
        /\ \A i \in DOMAIN requests : requests[i] \in Nat /\ requests[i] <= received
    BY <1>2 DEF PairInv, PairTypes, InOrder
  <2>2. ASSUME NEW i \in DOMAIN requests' PROVE requests[1] < requests[i + 1]
    <3>1. i + 1 \in DOMAIN requests /\ 1 < i + 1
      BY <1>2
    <3> QED BY <1>5, <2>1, <3>1 DEF InOrder
  <2>3. prompt' \in Nat /\ prompt' <= received'
    BY <1>1, <1>2, <1>5, <2>1 DEF InOrder
  <2>4. \A i \in DOMAIN requests' : prompt' < requests'[i] /\ requests'[i] <= received'
    BY <1>1, <1>2, <2>1, <2>2 DEF InOrder
  <2>5. \A i, j \in DOMAIN requests' : i < j => requests'[i] < requests'[j]
    BY <1>2, <2>1 DEF InOrder
  <2>6. \A s \in Taken' : 0 < s.pair /\ s.pair <= received'
    BY <1>1, <1>3, <2>1 DEF InOrder
  <2>7. \A s \in Taken', i \in DOMAIN requests' : s.pair < requests'[i]
    BY <1>2, <1>3, <2>1 DEF InOrder
  <2>8. \A s \in Taken' : prompt' # Nil => s.pair < prompt'
    BY <1>1, <1>3, <1>5, <2>1 DEF InOrder
  <2>9. \A s \in sent', i \in DOMAIN sending' : s.pair < sending'[i].pair
    BY <1>1, <2>1 DEF InOrder
  <2> QED BY <2>3, <2>4, <2>5, <2>6, <2>7, <2>8, <2>9 DEF InOrder
<1> QED BY <1>4, <1>6 DEF PairInv

\* A prompt that ends without a PIN.
LEMMA PairInvStop ==
  ASSUME PairInv, prompt' = Nil, expired' = Nil,
         UNCHANGED <<requests, received, fired, sending, sent, submit, conns>>
  PROVE  PairInv'
<1>1. Taken' = Taken /\ \A i \in DOMAIN requests : requests[i] \in Nat
  BY DEF Taken, PairInv, PairTypes
<1>2. PairTypes' /\ TimerOfPrompt' /\ OneEach'
  BY DEF PairInv, PairTypes, TimerOfPrompt, OneEach, Nil
<1>3. InOrder'
  BY <1>1 DEF PairInv, PairTypes, InOrder, Nil
<1> QED BY <1>2, <1>3 DEF PairInv

\* The PIN for the prompt is taken: the prompt becomes the youngest of Taken.
LEMMA PairInvTake ==
  ASSUME PairInv, TakeLine
  PROVE  PairInv'
<1>1. UNCHANGED <<requests, received, fired, sent, submit, conns>> /\ sending = << >>
  BY DEF TakeLine, connVars, InSelect
<1>2. CASE prompt = Nil
  <2>1. UNCHANGED pairCore
    BY <1>1, <1>2 DEF TakeLine, pairCore
  <2> QED BY <1>1, <2>1, PairInvBeside DEF PairInv, PairTypes
<1>3. CASE prompt # Nil /\ sending' = << >>
  <2>1. prompt' = Nil /\ expired' = Nil /\ UNCHANGED sending
    BY <1>1, <1>3 DEF TakeLine, Stop
  <2> QED BY <1>1, <2>1, PairInvStop
<1>4. CASE prompt # Nil /\ sending' # << >>
  <2>1. prompt' = Nil /\ expired' = Nil /\ sending' = <<[pair |-> prompt, via |-> Nil]>>
    BY <1>4 DEF TakeLine, Stop
  <2>2. Taken = sent /\ Taken' = sent \cup {[pair |-> prompt, via |-> Nil]}
    BY <1>1, <2>1 DEF Taken
  <2>3. /\ \A s \in sent : s.pair \in Nat /\ s.pair < prompt
        /\ \A i \in DOMAIN requests : requests[i] \in Nat /\ prompt < requests[i]
        /\ prompt \in Nat \ {0} /\ received \in Nat /\ prompt <= received
    BY <1>4, <2>2 DEF PairInv, PairTypes, Submissions, InOrder, Nil
  <2>4. PairTypes' /\ TimerOfPrompt' /\ OneEach'
    BY <1>1, <2>1 DEF PairInv, PairTypes, TimerOfPrompt, OneEach, Nil, Submissions
  <2>5. DOMAIN sending' = {1} /\ sending'[1].pair = prompt
    BY <2>1
  <2>6. InOrder'
    BY <1>1, <2>1, <2>2, <2>3, <2>5 DEF PairInv, InOrder, Nil
  <2> QED BY <2>4, <2>6 DEF PairInv
<1> QED BY <1>2, <1>3, <1>4

\* The sender of a connection is loaded, or there is none.
LEMMA PairInvLoad ==
  ASSUME PairInv, SendLoad
  PROVE  PairInv'
<1>1. UNCHANGED <<requests, received, prompt, expired, fired, sent, submit, conns>>
  BY DEF SendLoad, promptVars, connVars
<1>2. PICK s \in Submissions : sending = <<s>>
  BY DEF SendLoad, PairInv, PairTypes
<1>3. sending' = << >> \/ \E t \in Submissions : sending' = <<t>> /\ t.pair = s.pair
  BY <1>2 DEF SendLoad, PairInv, PairTypes, Submissions
<1>4. PairTypes' /\ TimerOfPrompt' /\ OneEach'
  BY <1>1, <1>3 DEF PairInv, PairTypes, TimerOfPrompt, OneEach
<1>5. Taken = sent \cup {s} /\ DOMAIN sending = {1} /\ sending[1] = s
  BY <1>2 DEF Taken
<1>6. CASE sending' = << >>
  <2>1. Taken' = sent /\ DOMAIN sending' = {}
    BY <1>1, <1>6 DEF Taken
  <2>2. InOrder'
    BY <1>1, <1>5, <2>1 DEF PairInv, InOrder
  <2> QED BY <1>4, <2>2 DEF PairInv
<1>7. ASSUME NEW t \in Submissions, sending' = <<t>>, t.pair = s.pair PROVE PairInv'
  <2>1. Taken' = sent \cup {t} /\ DOMAIN sending' = {1} /\ sending'[1] = t
    BY <1>1, <1>7 DEF Taken
  <2>2. InOrder'
    BY <1>1, <1>5, <1>7, <2>1 DEF PairInv, InOrder
  <2> QED BY <1>4, <2>2 DEF PairInv
<1> QED BY <1>3, <1>6, <1>7

\* The submission is queued on its connection, or lost with it.
LEMMA PairInvQueue ==
  ASSUME PairInv, SendQueue
  PROVE  PairInv'
<1>1. /\ UNCHANGED <<requests, received, prompt, expired, fired, submit, conns>>
      /\ sending' = << >>
  BY DEF SendQueue, promptVars
<1>2. PICK s \in Submissions : sending = <<s>>
  BY DEF SendQueue, PairInv, PairTypes
<1>3. sent' = sent \/ sent' = sent \cup {s}
  BY <1>2 DEF SendQueue
<1>4. Taken = sent \cup {s} /\ DOMAIN sending = {1} /\ sending[1] = s
  BY <1>2 DEF Taken
<1>5. Taken' = sent' /\ DOMAIN sending' = {}
  BY <1>1 DEF Taken
<1>6. \A t \in sent : t.pair < s.pair /\ t.pair \in Nat /\ s.pair \in Nat
  BY <1>4 DEF PairInv, InOrder, PairTypes, Submissions
<1>7. PairTypes' /\ TimerOfPrompt'
  BY <1>1, <1>3 DEF PairInv, PairTypes, TimerOfPrompt
<1>8. OneEach'
  BY <1>3, <1>6 DEF PairInv, OneEach
<1>9. InOrder'
  BY <1>1, <1>3, <1>4, <1>5 DEF PairInv, InOrder
<1> QED BY <1>7, <1>8, <1>9 DEF PairInv

LEMMA PairInvNext ==
  ASSUME PairInv, [PairNext]_pairVars
  PROVE  PairInv'
<1> USE DEF PairInv, PairTypes
<1>1. CASE Request
  BY <1>1, PairInvRequest
<1>2. CASE Connected \/ ConnDone \/ Disconnected
  <2>1. UNCHANGED pairCore /\ submit' \in Nat /\ conns' \in Nat /\ fired' = fired
    BY <1>2 DEF Connected, ConnDone, Disconnected, promptVars, pairCore, Nil
  <2> QED BY <2>1, PairInvBeside
<1>3. CASE Type("pin") \/ Type("empty") \/ Eof \/ ReadLine \/ ReadEof
  <2>1. UNCHANGED pairCore /\ UNCHANGED <<submit, conns, fired>>
    BY <1>3 DEF Type, Eof, ReadLine, ReadEof, promptVars, connVars, pairCore
  <2> QED BY <2>1, PairInvBeside
<1>4. CASE TimerFires
  <2>1. UNCHANGED pairCore /\ UNCHANGED <<submit, conns>> /\ fired' = fired \cup {expired}
    BY <1>4 DEF TimerFires, connVars, pairCore
  <2> QED BY <2>1, PairInvBeside DEF TimerOfPrompt
<1>5. CASE StdinClosed \/ Expire
  <2>1. /\ prompt' = Nil /\ expired' = Nil
        /\ UNCHANGED <<requests, received, fired, sending, sent, submit, conns>>
    BY <1>5 DEF StdinClosed, Expire, Stop, connVars
  <2> QED BY <2>1, PairInvStop
<1>6. CASE ShowPrompt \/ TakeLine \/ SendLoad \/ SendQueue
  BY <1>6, PairInvShow, PairInvTake, PairInvLoad, PairInvQueue
<1>7. CASE UNCHANGED pairVars
  <2>1. UNCHANGED pairCore /\ UNCHANGED <<submit, conns, fired>>
    BY <1>7 DEF pairVars, promptVars, connVars, pairCore
  <2> QED BY <2>1, PairInvBeside
<1> QED BY <1>1, <1>2, <1>3, <1>4, <1>5, <1>6, <1>7 DEF PairNext, LoopStep

\* For any number of requests, lines and connections and any capacity of the
\* queue, no pairing is answered twice: neither type-ahead nor a reconnect in
\* the middle of a submission does it (pairing_prompt.go run, send).
THEOREM PairedOnce == PairSpec => []AnsweredOnce
<1>1. PairInv => AnsweredOnce
  <2> SUFFICES ASSUME PairInv PROVE AnsweredOnce
    OBVIOUS
  <2>1. \A s \in sent : s \in Taken /\ s.pair \in Nat
    BY DEF Taken, PairInv, PairTypes, Submissions
  <2>2. \A s \in sent : prompt # s.pair
    BY <2>1 DEF PairInv, PairTypes, InOrder, Nil
  <2>3. ASSUME NEW s \in sent, sending # << >> PROVE Head(sending).pair # s.pair
    <3>1. PICK t \in Submissions : sending = <<t>>
      BY <2>3 DEF PairInv, PairTypes
    <3>2. 1 \in DOMAIN sending /\ sending[1] = t /\ Head(sending) = t
      BY <3>1
    <3>3. s.pair < t.pair /\ t.pair \in Nat
      BY <3>2 DEF PairInv, InOrder, Submissions
    <3> QED BY <2>1, <3>2, <3>3
  <2> QED BY <2>2, <2>3 DEF AnsweredOnce, PairInv, OneEach
<1> QED BY <1>1, PairInvInit, PairInvNext, PTL DEF PairSpec

\* A prompt that ends without a line or the end of stdin was ended by its own
\* timer, whatever older timers had fired (run: the expired channel follows the
\* prompt).
THEOREM TimerIsOwn == PairSpec => OwnTimer
<1> DEFINE Own == (prompt # Nil /\ prompt' = Nil /\ UNCHANGED <<held, noStdin>>) => prompt \in fired
<1>1. ASSUME PairInv, [PairNext]_pairVars PROVE [Own]_pairVars
  <2> SUFFICES ASSUME PairNext, prompt # Nil, prompt' = Nil, UNCHANGED <<held, noStdin>>
               PROVE  prompt \in fired
    BY <1>1
  <2>1. CASE Expire
    BY <1>1, <2>1 DEF Expire, PairInv, TimerOfPrompt
  <2>2. CASE ShowPrompt
    <3>1. requests \in Seq(Nat) /\ requests # << >> /\ Head(requests) = requests[1]
          /\ 1 \in DOMAIN requests /\ prompt \in Nat
      BY <1>1, <2>2 DEF ShowPrompt, PairInv, PairTypes
    <3>2. requests[1] \in Nat /\ prompt < requests[1]
      BY <1>1, <3>1 DEF PairInv, InOrder
    <3> QED BY <2>2, <3>1, <3>2 DEF ShowPrompt, Nil
  <2>3. CASE TakeLine \/ StdinClosed
    BY <2>3 DEF TakeLine, StdinClosed
  <2>4. CASE SendLoad \/ SendQueue \/ Request \/ TimerFires
    BY <2>4 DEF SendLoad, SendQueue, Request, TimerFires, promptVars
  <2>5. CASE Connected \/ ConnDone \/ Disconnected
    BY <2>5 DEF Connected, ConnDone, Disconnected, promptVars
  <2>6. CASE Type("pin") \/ Type("empty") \/ Eof \/ ReadLine \/ ReadEof
    BY <2>6 DEF Type, Eof, ReadLine, ReadEof, promptVars
  <2> QED BY <2>1, <2>2, <2>3, <2>4, <2>5, <2>6 DEF PairNext, LoopStep
<1> QED BY <1>1, PairInvInit, PairInvNext, PTL DEF PairSpec, OwnTimer
=============================================================================
