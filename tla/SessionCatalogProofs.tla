------------------------ MODULE SessionCatalogProofs ------------------------
(***************************************************************************)
(* The catalog never reuses an id or runs out of them, scans are serial,   *)
(* and a removed session's PTY is closed, for any set of sessions.         *)
(***************************************************************************)
EXTENDS SessionCatalog, FiniteSetTheorems, TLAPS

ScanType ==
  /\ mux \subseteq Keys /\ eventCount \in Nat /\ eventCount <= MaxEvents
  /\ known \in [Keys -> Nat] /\ nextId \in Nat \ {0}
  /\ scanMu \in Scanners \cup {Free}
  /\ scans \in [Scanners -> [pc : {"idle", "listed", "close", "done"},
                             list : SUBSET Keys, removed : SUBSET Nat]]

\* scanMu: one scan at a time is between its listing and its end.
Serial == \A s \in Scanners : scans[s].pc \in {"listed", "close"} => scanMu = s

\* Ids in use are below the next one, and no two entries share one.
IdsFresh ==
  /\ \A k \in Keys : known[k] < nextId
  /\ \A k, l \in Keys : known[k] = known[l] /\ known[k] # NoId => k = l

\* Removed ids are out of the catalog for good.
RemovedOut ==
  \A s \in Scanners :
    /\ scans[s].pc # "close" => scans[s].removed = {}
    /\ \A id \in scans[s].removed : id # NoId /\ id < nextId /\ id \notin KnownIds

\* The sessions of the last listing.
Seen ==
  IF scanMu \in Scanners /\ scans[scanMu].pc = "listed" THEN scans[scanMu].list ELSE KnownKeys

Size == Cardinality(Keys)

\* Ids are used up by events: what was issued, what the unknown keys and those
\* about to go may yet need, and what a session that ended since the last
\* listing may cost, is paid for by the events so far.
Budget ==
  (nextId - 1) + Cardinality(Keys \ KnownKeys) + Cardinality(KnownKeys \ Seen)
    + (IF Seen \subseteq mux THEN 0 ELSE Size)
      <= Size * (eventCount + 1)

ScanInv == ScanType /\ Serial /\ IdsFresh /\ RemovedOut /\ Budget

-----------------------------------------------------------------------------
(* Sets as sequences *)

\* SetToSeq lists every element of a finite set once.
LEMMA SetToSeqLists ==
  ASSUME NEW S, IsFiniteSet(S)
  PROVE  /\ Cardinality(S) \in Nat
         /\ SetToSeq(S) \in [1..Cardinality(S) -> S]
         /\ SetToSeq(S) \in Seq(S) /\ Len(SetToSeq(S)) = Cardinality(S)
         /\ IsInjective(SetToSeq(S))
         /\ \A x \in S : \E i \in 1..Cardinality(S) : SetToSeq(S)[i] = x
<1> DEFINE n == Cardinality(S)
           f == SetToSeq(S)
<1>1. n \in Nat /\ ExistsBijection(1..n, S)
  BY FS_CardinalityType
<1>2. \E g \in [1..n -> S] : IsInjective(g)
  BY <1>1 DEF ExistsBijection, Bijection, Injection
<1>3. f \in [1..n -> S] /\ IsInjective(f)
  BY <1>2 DEF SetToSeq
<1>4. f \in Seq(S) /\ Len(f) = n
  BY <1>1, <1>3
<1>5. f \in Injection(1..n, S)
  BY <1>3 DEF Injection
<1>6. IsFiniteSet(1..n) /\ Cardinality(1..n) = n
  BY <1>1, FS_Interval
<1>7. f \in Surjection(1..n, S)
  BY <1>1, <1>5, <1>6, FS_Injection
<1> QED BY <1>1, <1>3, <1>4, <1>7 DEF Surjection

\* IndexOf finds the place of an element.
LEMMA IndexOfFinds ==
  ASSUME NEW S, IsFiniteSet(S), NEW x \in S
  PROVE  /\ IndexOf(SetToSeq(S), x) \in 1..Cardinality(S)
         /\ SetToSeq(S)[IndexOf(SetToSeq(S), x)] = x
<1>1. DOMAIN SetToSeq(S) = 1..Cardinality(S)
  BY SetToSeqLists
<1>2. \E i \in DOMAIN SetToSeq(S) : SetToSeq(S)[i] = x
  BY <1>1, SetToSeqLists
<1> QED BY <1>1, <1>2 DEF IndexOf

-----------------------------------------------------------------------------
(* Scans *)

\* What the critical section of a scan does to the catalog: the keys are those
\* of the listing, new ones with new ids of their own, the others with theirs.
LEMMA ScanApplies ==
  ASSUME ScanInv, NEW s \in Scanners, ScanApply(s)
  PROVE  LET new == scans[s].list \ KnownKeys
         IN  /\ Cardinality(new) \in Nat /\ nextId' = nextId + Cardinality(new)
             /\ known' \in [Keys -> Nat]
             /\ \A k \in Keys :
                  /\ k \notin scans[s].list => known'[k] = NoId
                  /\ k \in scans[s].list /\ k \notin new => known'[k] = known[k]
                  /\ k \in new => known'[k] >= nextId /\ known'[k] < nextId'
             /\ \A k \in new : known'[k] = nextId + IndexOf(SetToSeq(new), k) - 1
             /\ \A k, l \in new : known'[k] = known'[l] => k = l
             /\ KnownKeys' = scans[s].list
<1> DEFINE new == scans[s].list \ KnownKeys
           seq == SetToSeq(new)
<1>1. new \subseteq Keys /\ IsFiniteSet(new)
  BY CatalogAssumption, FS_Subset DEF ScanInv, ScanType
<1>2. /\ Cardinality(new) \in Nat /\ Len(seq) = Cardinality(new)
      /\ seq \in [1..Cardinality(new) -> new] /\ IsInjective(seq)
  BY <1>1, SetToSeqLists
<1>3. \A k \in new : IndexOf(seq, k) \in 1..Cardinality(new) /\ seq[IndexOf(seq, k)] = k
  BY <1>1, IndexOfFinds
<1>4. /\ nextId' = nextId + Cardinality(new)
      /\ known' = [k \in Keys |-> IF k \in KnownKeys \ scans[s].list THEN NoId
                                  ELSE IF k \in new THEN nextId + IndexOf(seq, k) - 1
                                  ELSE known[k]]
  BY <1>2 DEF ScanApply
<1> HIDE DEF seq
<1>5. nextId \in Nat \ {0} /\ known \in [Keys -> Nat] /\ scans[s].list \subseteq Keys
  BY DEF ScanInv, ScanType
<1>6. \A k \in new : /\ nextId + IndexOf(seq, k) - 1 \in Nat
                     /\ nextId + IndexOf(seq, k) - 1 >= nextId
                     /\ nextId + IndexOf(seq, k) - 1 < nextId'
  <2> DEFINE n == Cardinality(new)
  <2>1. n \in Nat /\ nextId' = nextId + n
    BY <1>2, <1>4
  <2>2. \A k \in new : IndexOf(seq, k) \in 1..n
    BY <1>3
  <2> HIDE DEF n, new
  <2> QED BY <2>1, <2>2, <1>5
<1>7. \A k \in Keys \ scans[s].list : known'[k] = NoId
  BY <1>4, <1>5 DEF KnownKeys
<1>8. \A k \in scans[s].list \ new : known'[k] = known[k] /\ known[k] # NoId
  BY <1>4, <1>5 DEF KnownKeys
<1>9. \A k \in new : known'[k] = nextId + IndexOf(seq, k) - 1
  BY <1>1, <1>4
<1>10. known' \in [Keys -> Nat]
  BY <1>4, <1>5, <1>6 DEF NoId
<1>11. \A k, l \in new : known'[k] = known'[l] => k = l
  BY <1>3, <1>5, <1>9
<1>12. KnownKeys' = scans[s].list
  BY <1>5, <1>6, <1>7, <1>8, <1>9 DEF KnownKeys, NoId
<1> QED BY <1>2, <1>4, <1>5, <1>6, <1>7, <1>8, <1>9, <1>10, <1>11, <1>12 DEF seq

\* A step that leaves the multiplexers and the scans alone keeps the invariant.
LEMMA ScanInvKept ==
  ASSUME ScanInv, UNCHANGED <<mux, eventCount, scanVars>>
  PROVE  ScanInv'
BY DEF ScanInv, ScanType, Serial, IdsFresh, RemovedOut, Budget, Seen, KnownKeys, KnownIds, scanVars

\* The subsets of Keys are finite, and no larger.
LEMMA KeysFinite ==
  /\ IsFiniteSet(Keys) /\ Size \in Nat
  /\ \A K \in SUBSET Keys : IsFiniteSet(K) /\ Cardinality(K) \in Nat /\ Cardinality(K) <= Size
<1>1. IsFiniteSet(Keys) /\ Size \in Nat
  BY CatalogAssumption, FS_CardinalityType DEF Size
<1>2. \A K \in SUBSET Keys : IsFiniteSet(K) /\ Cardinality(K) <= Size
  BY <1>1, FS_Subset DEF Size
<1> QED BY <1>1, <1>2, FS_CardinalityType

\* A session that starts or ends keeps the invariant; its event pays for it.
LEMMA MuxChangeKeeps ==
  ASSUME ScanInv, UNCHANGED scanVars, mux' \subseteq Keys,
         eventCount < MaxEvents, eventCount' = eventCount + 1
  PROVE  ScanInv'
<1>1. ScanType' /\ Serial' /\ IdsFresh' /\ RemovedOut'
  BY CatalogAssumption
  DEF ScanInv, ScanType, Serial, IdsFresh, RemovedOut, KnownIds, scanVars
<1>2. Seen' = Seen /\ KnownKeys' = KnownKeys /\ nextId' = nextId
  BY DEF Seen, KnownKeys, scanVars
<1>3. Budget'
  <2> DEFINE a == nextId - 1
             b == Cardinality(Keys \ KnownKeys)
             c == Cardinality(KnownKeys \ Seen)
             x == IF Seen \subseteq mux THEN 0 ELSE Size
             y == IF Seen \subseteq mux' THEN 0 ELSE Size
  <2>1. a \in Nat /\ b \in Nat /\ c \in Nat /\ eventCount \in Nat /\ Size \in Nat
    BY KeysFinite DEF ScanInv, ScanType, KnownKeys
  <2>2. x \in Nat /\ y \in Nat /\ y <= Size
    BY <2>1
  <2>3. a + b + c + x <= Size * (eventCount + 1)
    BY DEF ScanInv, Budget
  <2>4. Size * (eventCount' + 1) = Size * (eventCount + 1) + Size
    BY <2>1
  <2> HIDE DEF a, b, c, x, y
  <2>5. a + b + c + y <= Size * (eventCount' + 1)
    BY <2>1, <2>2, <2>3, <2>4
  <2> QED BY <1>2, <2>5 DEF Budget, a, b, c, y, Size
<1> QED BY <1>1, <1>3 DEF ScanInv

\* A scan that lists keeps the invariant: only a listing that fails, or one
\* after a change of the multiplexers, has entries to remove.
LEMMA ScanListKeeps ==
  ASSUME ScanInv, NEW s \in Scanners, ScanList(s)
  PROVE  ScanInv'
<1>1. PICK L \in {mux, {}} :
        /\ scans' = [scans EXCEPT ![s] = [pc |-> "listed", list |-> L, removed |-> {}]]
        /\ \/ L = mux /\ eventCount' = eventCount
           \/ L = {} /\ eventCount < MaxEvents /\ eventCount' = eventCount + 1
  BY DEF ScanList
<1>2. scanMu = Free /\ scanMu' = s /\ UNCHANGED <<mux, known, nextId>> /\ L \subseteq Keys
  BY <1>1 DEF ScanList, ScanMayBegin, ScanInv, ScanType
<1>3. ScanType'
  BY <1>1, <1>2, CatalogAssumption DEF ScanInv, ScanType
<1>4. Serial'
  BY <1>1, <1>2 DEF ScanInv, ScanType, Serial, Scanners, Free
<1>5. IdsFresh' /\ RemovedOut'
  BY <1>1, <1>2 DEF ScanInv, ScanType, IdsFresh, RemovedOut, KnownIds
<1>6. KnownKeys' = KnownKeys /\ Seen = KnownKeys /\ Seen' = L
  BY <1>1, <1>2 DEF ScanInv, ScanType, Seen, KnownKeys, Scanners, Free
<1>7. Budget'
  <2> DEFINE a == nextId - 1
             b == Cardinality(Keys \ KnownKeys)
             c == Cardinality(KnownKeys \ L)
  <2>1. a \in Nat /\ b \in Nat /\ c \in Nat /\ c <= Size /\ eventCount \in Nat /\ Size \in Nat
    BY KeysFinite DEF ScanInv, ScanType, KnownKeys
  <2>2. KnownKeys \subseteq L => c = 0
    <3>1. KnownKeys \subseteq L => KnownKeys \ L = {}
      OBVIOUS
    <3> QED BY <3>1, FS_EmptySet
  <2>3. a + b + (IF KnownKeys \subseteq mux THEN 0 ELSE Size) <= Size * (eventCount + 1)
    <3>1. Cardinality(KnownKeys \ Seen) = 0
      BY <1>6, FS_EmptySet
    <3> QED BY <1>6, <2>1, <3>1 DEF ScanInv, Budget
  <2>4. Size * (eventCount + 1 + 1) = Size * (eventCount + 1) + Size
    BY <2>1
  <2>5. L \subseteq mux
    BY <1>1
  <2> HIDE DEF a, b, c
  <2>6. CASE L = mux /\ eventCount' = eventCount
    <3>1. a + b + c <= Size * (eventCount' + 1)
      BY <2>1, <2>2, <2>3, <2>6
    <3> QED BY <1>2, <1>6, <2>1, <2>5, <3>1 DEF Budget, a, b, c
  <2>7. CASE L = {} /\ eventCount' = eventCount + 1
    <3>1. a + b <= Size * (eventCount + 1)
      BY <2>1, <2>3
    <3>2. a + b + c <= Size * (eventCount' + 1)
      BY <2>1, <2>4, <2>7, <3>1
    <3> QED BY <1>2, <1>6, <2>1, <2>5, <3>2 DEF Budget, a, b, c
  <2> QED BY <1>1, <2>6, <2>7
<1> QED BY <1>3, <1>4, <1>5, <1>7 DEF ScanInv

\* The ids that leave the catalog are those that the scan will close.
LEMMA ScanApplyRemoves ==
  ASSUME ScanInv, NEW s \in Scanners, ScanApply(s)
  PROVE  /\ scans' = [scans EXCEPT ![s] = [pc |-> "close", list |-> {},
                                           removed |-> KnownIds \ KnownIds']]
         /\ \A id \in KnownIds' \ KnownIds : id >= nextId /\ id < nextId'
         /\ \A k \in Keys : known'[k] < nextId' /\ nextId <= nextId'
<1> DEFINE new == scans[s].list \ KnownKeys
           gone == KnownKeys \ scans[s].list
<1>1. /\ nextId' \in Nat /\ nextId \in Nat /\ nextId <= nextId'
      /\ known \in [Keys -> Nat] /\ known' \in [Keys -> Nat] /\ scans[s].list \subseteq Keys
  <2>1. Cardinality(new) \in Nat /\ nextId' = nextId + Cardinality(new) /\ known' \in [Keys -> Nat]
    BY ScanApplies
  <2>2. nextId \in Nat /\ known \in [Keys -> Nat] /\ scans[s].list \subseteq Keys
    BY DEF ScanInv, ScanType
  <2> QED BY <2>1, <2>2
<1>2. \A k \in Keys : /\ k \notin scans[s].list => known'[k] = NoId
                      /\ k \in scans[s].list /\ k \notin new => known'[k] = known[k]
                      /\ k \in new => known'[k] >= nextId /\ known'[k] < nextId'
  BY ScanApplies
<1>3. \A k \in Keys : known'[k] < nextId'
  BY <1>1, <1>2 DEF ScanInv, IdsFresh, ScanType, NoId
<1>4. {known[k] : k \in gone} = KnownIds \ KnownIds'
  <2>1. ASSUME NEW k \in gone PROVE known[k] \in KnownIds /\ known[k] \notin KnownIds'
    <3>1. known[k] # NoId /\ known[k] < nextId /\ k \in Keys
      BY <2>1 DEF KnownKeys, ScanInv, IdsFresh
    <3>2. ASSUME NEW l \in Keys, known'[l] = known[k] PROVE FALSE
      <4>1. l \in scans[s].list /\ l \notin new
        BY <1>1, <1>2, <3>1, <3>2
      <4>2. known[l] = known[k]
        BY <1>2, <3>2, <4>1
      <4> QED BY <2>1, <3>1, <4>1, <4>2 DEF ScanInv, IdsFresh
    <3> QED BY <3>1, <3>2 DEF KnownIds
  <2>2. ASSUME NEW id \in KnownIds, id \notin KnownIds' PROVE \E k \in gone : known[k] = id
    <3>1. PICK k \in Keys : known[k] = id /\ id # NoId
      BY DEF KnownIds
    <3>2. known'[k] # id
      BY <2>2, <3>1 DEF KnownIds
    <3> QED BY <1>2, <3>1, <3>2 DEF KnownKeys
  <2> QED BY <2>1, <2>2
<1>5. \A id \in KnownIds' \ KnownIds : id >= nextId /\ id < nextId'
  BY <1>2 DEF KnownIds, KnownKeys
<1>6. scans' = [scans EXCEPT ![s] = [pc |-> "close", list |-> {},
                                     removed |-> {known[k] : k \in gone}]]
  BY DEF ScanApply
<1> QED BY <1>1, <1>3, <1>4, <1>5, <1>6

\* Two finite sets without a common element.
LEMMA DisjointUnion ==
  ASSUME NEW A, NEW B, IsFiniteSet(A), IsFiniteSet(B), A \cap B = {}
  PROVE  Cardinality(A \cup B) = Cardinality(A) + Cardinality(B)
<1>1. Cardinality(A) \in Nat /\ Cardinality(B) \in Nat
  BY FS_CardinalityType
<1>2. Cardinality(A \cup B) = Cardinality(A) + Cardinality(B) - Cardinality(A \cap B)
  BY FS_Union
<1>3. Cardinality(A \cap B) = 0
  BY FS_EmptySet
<1> QED BY <1>1, <1>2, <1>3

\* The critical section of a scan keeps the invariant: the new ids were set
\* aside for the keys that had none.
LEMMA ScanApplyKeeps ==
  ASSUME ScanInv, NEW s \in Scanners, ScanApply(s)
  PROVE  ScanInv'
<1> DEFINE L == scans[s].list
           new == L \ KnownKeys
<1>1. /\ scans' = [scans EXCEPT ![s] = [pc |-> "close", list |-> {},
                                        removed |-> KnownIds \ KnownIds']]
      /\ \A k \in Keys : known'[k] < nextId' /\ nextId <= nextId'
  BY ScanApplyRemoves
<1>2. /\ Cardinality(new) \in Nat /\ nextId' = nextId + Cardinality(new)
      /\ known' \in [Keys -> Nat] /\ KnownKeys' = L
      /\ \A k, l \in new : known'[k] = known'[l] => k = l
  BY ScanApplies
<1>3. \A k \in Keys : /\ k \notin L => known'[k] = NoId
                      /\ k \in L /\ k \notin new => known'[k] = known[k]
                      /\ k \in new => known'[k] >= nextId /\ known'[k] < nextId'
  BY ScanApplies
<1>4. scans[s].pc = "listed" /\ UNCHANGED <<mux, eventCount, scanMu>>
  BY DEF ScanApply, muxVars
<1>5. scanMu = s /\ L \subseteq Keys /\ nextId \in Nat /\ known \in [Keys -> Nat]
  BY <1>4 DEF ScanInv, ScanType, Serial
<1>6. ScanType'
  <2>1. KnownIds \subseteq Nat /\ nextId' \in Nat \ {0}
    <3> HIDE DEF new
    <3> QED BY <1>2, <1>5 DEF KnownIds, ScanInv, ScanType
  <2> QED BY <1>1, <1>2, <1>4, <2>1 DEF ScanInv, ScanType
<1>7. Serial'
  BY <1>1, <1>4, <1>5 DEF ScanInv, ScanType, Serial
<1>8. IdsFresh'
  <2> SUFFICES ASSUME NEW k \in Keys, NEW l \in Keys, known'[k] = known'[l], known'[k] # NoId
               PROVE  k = l
    BY <1>1 DEF IdsFresh
  <2>1. k \in L /\ l \in L
    BY <1>3
  <2>2. (k \in new /\ l \in new) \/ (k \notin new /\ l \notin new)
    BY <1>3, <1>5, <2>1 DEF ScanInv, IdsFresh
  <2> QED BY <1>2, <1>3, <2>1, <2>2 DEF ScanInv, IdsFresh
<1>9. RemovedOut'
  <2>1. ASSUME NEW t \in Scanners, t # s PROVE scans'[t].removed = {}
    BY <1>1, <1>5, <2>1 DEF ScanInv, ScanType, Serial, RemovedOut
  <2>2. ASSUME NEW id \in KnownIds \ KnownIds' PROVE id # NoId /\ id < nextId'
    BY <1>1, <1>2, <1>5 DEF KnownIds, ScanInv, IdsFresh
  <2> QED BY <1>1, <1>6, <2>1, <2>2 DEF ScanInv, ScanType, RemovedOut
<1>10. Seen = L /\ Seen' = L
  BY <1>1, <1>2, <1>4, <1>5 DEF Seen, ScanInv, ScanType
<1>11. Budget'
  <2> DEFINE b == Cardinality(Keys \ KnownKeys)
             c == Cardinality(KnownKeys \ L)
             d == Cardinality(Keys \ L)
             n == Cardinality(new)
             x == IF L \subseteq mux THEN 0 ELSE Size
  <2>1. /\ KnownKeys \subseteq Keys /\ new \subseteq Keys
        /\ b \in Nat /\ c \in Nat /\ d \in Nat /\ n \in Nat /\ x \in Nat
    BY <1>5, KeysFinite DEF KnownKeys
  <2>2. b + c = d + n
    <3>1. (Keys \ KnownKeys) \cup (KnownKeys \ L) = (Keys \ L) \cup new
      BY <1>5, <2>1
    <3>2. (Keys \ KnownKeys) \cap (KnownKeys \ L) = {} /\ (Keys \ L) \cap new = {}
      OBVIOUS
    <3>3. /\ IsFiniteSet(Keys \ KnownKeys) /\ IsFiniteSet(KnownKeys \ L)
          /\ IsFiniteSet(Keys \ L) /\ IsFiniteSet(new)
      BY <2>1, KeysFinite
    <3>4. Cardinality((Keys \ KnownKeys) \cup (KnownKeys \ L)) = b + c
      BY <3>2, <3>3, DisjointUnion
    <3>5. Cardinality((Keys \ L) \cup new) = d + n
      BY <3>2, <3>3, DisjointUnion
    <3> QED BY <3>1, <3>4, <3>5
  <2>3. (nextId - 1) + b + c + x <= Size * (eventCount + 1)
    BY <1>10 DEF ScanInv, Budget
  <2>4. nextId' = nextId + n
    BY <1>2
  <2>5. Cardinality(L \ L) = 0
    BY FS_EmptySet
  <2>6. Size * (eventCount + 1) \in Nat
    BY KeysFinite DEF ScanInv, ScanType
  <2> HIDE DEF b, c, d, n, x
  <2>7. (nextId' - 1) + d + 0 + x <= Size * (eventCount + 1)
    BY <1>5, <2>1, <2>2, <2>3, <2>4, <2>6
  <2> QED BY <1>2, <1>4, <1>10, <2>5, <2>7 DEF Budget, d, x
<1> QED BY <1>6, <1>7, <1>8, <1>9, <1>11 DEF ScanInv

\* The end of a scan, and the subscription after it, keep the invariant.
LEMMA ScanEndKeeps ==
  ASSUME ScanInv,
         (\E s \in Scanners : ScanClose(s) \/ ScanReturn(s)) \/ Subscribe
  PROVE  ScanInv'
<1>1. UNCHANGED <<mux, eventCount, known, nextId>>
  BY DEF ScanClose, ScanReturn, Subscribe, muxVars
<1>2. KnownIds' = KnownIds /\ KnownKeys' = KnownKeys /\ IdsFresh'
  BY <1>1 DEF KnownIds, KnownKeys, ScanInv, IdsFresh
<1>3. ASSUME NEW s \in Scanners, ScanClose(s) PROVE ScanInv'
  <2>1. ScanType' /\ Serial' /\ RemovedOut'
    BY <1>1, <1>2, <1>3 DEF ScanClose, ScanInv, ScanType, Serial, RemovedOut
  <2>2. Seen' = Seen
    BY <1>2, <1>3 DEF ScanClose, Seen, ScanInv, ScanType
  <2> QED BY <1>1, <1>2, <2>1, <2>2 DEF ScanInv, Budget
<1>4. ASSUME NEW s \in Scanners, ScanReturn(s) PROVE ScanInv'
  <2>1. ScanType' /\ Serial' /\ RemovedOut'
    BY <1>1, <1>2, <1>4
    DEF ScanReturn, ScanInv, ScanType, Serial, RemovedOut, IdleScan, Scanners, Free
  <2>2. Seen' = Seen
    BY <1>2, <1>4 DEF ScanReturn, Seen, ScanInv, ScanType, Serial, Scanners, Free, IdleScan
  <2> QED BY <1>1, <1>2, <2>1, <2>2 DEF ScanInv, Budget
<1>5. CASE Subscribe
  <2>1. ScanType' /\ Serial' /\ RemovedOut'
    BY <1>1, <1>2, <1>5
    DEF Subscribe, ScanInv, ScanType, Serial, RemovedOut, IdleScan, Scanners
  <2>2. Seen' = Seen
    BY <1>2, <1>5 DEF Subscribe, Seen, ScanInv, ScanType, Scanners, IdleScan
  <2> QED BY <1>1, <1>2, <2>1, <2>2 DEF ScanInv, Budget
<1> QED BY <1>3, <1>4, <1>5

\* The invariant holds of newSessionCatalog's first scan.
LEMMA ScanInvInit == CatalogInit => ScanInv
<1> SUFFICES ASSUME CatalogInit PROVE ScanInv
  OBVIOUS
<1>1. mux \subseteq Keys /\ IsFiniteSet(mux) /\ Cardinality(mux) \in Nat
  BY KeysFinite DEF CatalogInit
<1>2. \A k \in mux : IndexOf(SetToSeq(mux), k) \in 1..Cardinality(mux)
                     /\ SetToSeq(mux)[IndexOf(SetToSeq(mux), k)] = k
  BY <1>1, IndexOfFinds
<1>3. known = [k \in Keys |-> IF k \in mux THEN IndexOf(SetToSeq(mux), k) ELSE NoId]
      /\ nextId = Cardinality(mux) + 1
  BY DEF CatalogInit
<1>4. \A k \in Keys \ mux : known[k] = 0
  BY <1>3 DEF NoId
<1>5. \A k \in mux : /\ known[k] \in Nat /\ known[k] # 0 /\ known[k] < nextId
                     /\ SetToSeq(mux)[known[k]] = k
  BY <1>1, <1>2, <1>3
<1>6. KnownKeys = mux
  BY <1>1, <1>4, <1>5 DEF KnownKeys, NoId
<1>7. scans = [s \in Scanners |-> IdleScan] /\ scanMu = Free /\ eventCount = 0
  BY DEF CatalogInit
<1>8. ScanType
  <2>1. known \in [Keys -> Nat]
    BY <1>3, <1>4, <1>5
  <2>2. IdleScan \in [pc : {"idle", "listed", "close", "done"},
                      list : SUBSET Keys, removed : SUBSET Nat]
    BY DEF IdleScan
  <2>3. scans \in [Scanners -> [pc : {"idle", "listed", "close", "done"},
                                list : SUBSET Keys, removed : SUBSET Nat]]
    BY <1>7, <2>2
  <2> QED BY <1>1, <1>3, <1>7, <2>1, <2>3, CatalogAssumption DEF ScanType
<1>9. Serial /\ RemovedOut
  BY <1>7 DEF Serial, RemovedOut, IdleScan
<1>10. IdsFresh
  <2>1. \A k \in Keys : known[k] < nextId
    BY <1>1, <1>3, <1>4, <1>5
  <2>2. \A k, l \in Keys : known[k] = known[l] /\ known[k] # NoId => k = l
    BY <1>4, <1>5 DEF NoId
  <2> QED BY <2>1, <2>2 DEF IdsFresh
<1>11. Budget
  <2>1. Seen = mux
    BY <1>6, <1>7 DEF Seen, Scanners, Free
  <2>2. Cardinality(mux \ mux) = 0
    BY FS_EmptySet
  <2>3. Cardinality(Keys \ mux) + Cardinality(mux) = Size
    <3>1. (Keys \ mux) \cup mux = Keys /\ (Keys \ mux) \cap mux = {} /\ IsFiniteSet(Keys \ mux)
      BY <1>1, KeysFinite
    <3> QED BY <1>1, <3>1, DisjointUnion DEF Size
  <2>4. Cardinality(Keys \ mux) \in Nat /\ Size \in Nat
    BY KeysFinite
  <2>5. Size * (0 + 1) = Size
    BY <2>4
  <2> QED BY <1>1, <1>3, <1>6, <1>7, <2>1, <2>2, <2>3, <2>4, <2>5 DEF Budget
<1> QED BY <1>8, <1>9, <1>10, <1>11 DEF ScanInv

\* Every step of the catalog or its subscriber keeps the scans' invariant.
LEMMA ScanInvStep == ScanInv /\ CatalogNext => ScanInv'
<1> SUFFICES ASSUME ScanInv, CatalogNext PROVE ScanInv'
  OBVIOUS
<1>1. ASSUME NEW k \in Keys, MuxChange(k) PROVE ScanInv'
  <2>1. mux' \subseteq Keys
    BY <1>1 DEF MuxChange, ScanInv, ScanType
  <2> QED BY <1>1, <2>1, MuxChangeKeeps DEF MuxChange
<1>2. ASSUME UNCHANGED <<mux, eventCount, scanVars>> PROVE ScanInv'
  BY <1>2, ScanInvKept
<1>3. ASSUME NEW s \in Scanners, ScanStep(s) PROVE ScanInv'
  BY <1>3, ScanListKeeps, ScanApplyKeeps, ScanEndKeeps DEF ScanStep
<1> QED BY <1>1, <1>2, <1>3, ScanEndKeeps
        DEF CatalogNext, Environment, Scanning, Subscriber, PtyExit, Rumour, Dial, SubscriberActivates,
            SubscriberTakes, SubscriberLeaves, muxVars

IdsUsed ==
  /\ \A id \in Nat \ {0} : id < nextId => id \in Ids
  /\ nextId - 1 \in Ids \cup {0} /\ KnownIds \subseteq Ids
  /\ known \in [Keys -> Ids \cup {NoId}]

\* The ids issued, and so all those in use, are within Ids.
LEMMA IdsInRange == ScanInv => IdsUsed
<1> SUFFICES ASSUME ScanInv PROVE IdsUsed
  OBVIOUS
<1> DEFINE b == Cardinality(Keys \ KnownKeys) + Cardinality(KnownKeys \ Seen)
                  + (IF Seen \subseteq mux THEN 0 ELSE Size)
<1>1. Cardinality(Keys \ KnownKeys) \in Nat /\ Cardinality(KnownKeys \ Seen) \in Nat /\ Size \in Nat
  BY KeysFinite DEF KnownKeys
<1>2. b \in Nat /\ nextId \in Nat \ {0} /\ eventCount \in Nat /\ eventCount <= MaxEvents
      /\ MaxEvents \in Nat /\ known \in [Keys -> Nat]
  BY <1>1, CatalogAssumption DEF ScanInv, ScanType
<1>3. Size * (eventCount + 1) <= Size * (MaxEvents + 1)
  <2>1. PICK d \in Nat : MaxEvents = eventCount + d
    <3>1. MaxEvents - eventCount \in Nat /\ MaxEvents = eventCount + (MaxEvents - eventCount)
      BY <1>2
    <3> QED BY <3>1
  <2>2. Size * (MaxEvents + 1) = Size * (eventCount + 1) + Size * d
    BY <1>1, <1>2, <2>1
  <2>3. Size * d \in Nat /\ Size * (eventCount + 1) \in Nat
    BY <1>1, <1>2, <2>1
  <2> QED BY <2>2, <2>3
<1>4. (nextId - 1) + b <= Size * (eventCount + 1)
  BY <1>1, <1>2 DEF ScanInv, Budget
<1>5. Size * (eventCount + 1) \in Nat /\ Size * (MaxEvents + 1) \in Nat
  BY <1>1, <1>2
<1> HIDE DEF b
<1>6. nextId - 1 <= Size * (MaxEvents + 1)
  BY <1>2, <1>3, <1>4, <1>5
<1>7. Ids = 1..(Size * (MaxEvents + 1))
  BY DEF Ids, Size
<1>8. \A id \in Nat \ {0} : id < nextId => id \in Ids
  BY <1>2, <1>5, <1>6, <1>7
<1>9. KnownIds \subseteq Ids
  BY <1>2, <1>8 DEF KnownIds, ScanInv, IdsFresh, NoId
<1>10. nextId - 1 \in Ids \cup {0}
  BY <1>2, <1>5, <1>6, <1>7
<1> QED BY <1>2, <1>8, <1>9, <1>10 DEF IdsUsed, KnownIds

-----------------------------------------------------------------------------
(* The subscriber's channel *)

ChangeSet == [op : {"add", "remove"}, id : Ids]

\* c is a change that the step from one catalog to the next makes.
Made(c) ==
  \/ c.op = "add" /\ c.id \in KnownIds' \ KnownIds
  \/ c.op = "remove" /\ c.id \in KnownIds \ KnownIds'

\* A scan appends changes it made, each once, and when none is dropped all.
LEMMA ScanApplyPublishes ==
  ASSUME ScanInv, ScanInv', changes \in Seq(ChangeSet), Len(changes) <= SubCap,
         NEW s \in Scanners, ScanApply(s)
  PROVE  LET old == 1..Len(changes)
             added == (Len(changes) + 1)..Len(changes')
         IN  /\ changes' \in Seq(ChangeSet) /\ Len(changes) <= Len(changes')
             /\ Len(changes') <= SubCap
             /\ \A i \in old : changes'[i] = changes[i]
             /\ \A i \in added : Made(changes'[i])
             /\ \A i, j \in added : changes'[i].id = changes'[j].id => i = j
             /\ dropped => dropped'
             /\ dropped \in BOOLEAN => dropped' \in BOOLEAN
             /\ s = "watch" /\ Subscribed /\ ~dropped' =>
                  \A c \in ChangeSet : Made(c) => \E i \in added : changes'[i] = c
             /\ ~(s = "watch" /\ Subscribed) => UNCHANGED <<changes, dropped>>
<1> DEFINE new == scans[s].list \ KnownKeys
           gone == KnownKeys \ scans[s].list
           seq == SetToSeq(new)
           n == Cardinality(new)
           lost == KnownIds \ KnownIds'
           adds == [i \in DOMAIN seq |-> Change("add", nextId + i - 1)]
<1>1. {known[k] : k \in gone} = lost
  <2>1. scans' = [scans EXCEPT ![s] = [pc |-> "close", list |-> {}, removed |-> lost]]
    BY ScanApplyRemoves
  <2>2. scans' = [scans EXCEPT ![s] = [pc |-> "close", list |-> {},
                                       removed |-> {known[k] : k \in gone}]]
    BY DEF ScanApply
  <2>3. scans'[s].removed = lost /\ scans'[s].removed = {known[k] : k \in gone}
    BY <2>1, <2>2 DEF ScanInv, ScanType
  <2> QED BY <2>3
<1>2. PICK order \in SetToSeqs(lost) :
        IF s = "watch" /\ Subscribed
          THEN Publish(adds \o [i \in DOMAIN order |-> Change("remove", order[i])])
          ELSE UNCHANGED <<changes, dropped>>
  BY <1>1 DEF ScanApply
<1> DEFINE m == Cardinality(lost)
           removes == [i \in DOMAIN order |-> Change("remove", order[i])]
<1>3. new \subseteq Keys /\ IsFiniteSet(new) /\ n \in Nat
  BY KeysFinite DEF ScanInv, ScanType
<1>4. /\ seq \in [1..n -> new] /\ IsInjective(seq)
      /\ \A k \in new : \E i \in 1..n : seq[i] = k
  BY <1>3, SetToSeqLists
<1>5. IsFiniteSet(lost) /\ m \in Nat
  <2>1. lost \in SUBSET (1..nextId) /\ nextId \in Nat
    BY DEF KnownIds, ScanInv, ScanType, IdsFresh, NoId
  <2>2. IsFiniteSet(1..nextId)
    BY <2>1, FS_Interval
  <2> QED BY <2>1, <2>2, FS_Subset, FS_CardinalityType
<1>6. /\ order \in [1..m -> lost] /\ \A i, j \in 1..m : i # j => order[i] # order[j]
  BY DEF SetToSeqs
<1>7. \A id \in lost : \E i \in 1..m : order[i] = id
  <2>1. order \in Injection(1..m, lost)
    BY <1>6 DEF Injection, IsInjective
  <2>2. Cardinality(1..m) = Cardinality(lost)
    BY <1>5, FS_Interval
  <2> HIDE DEF m, lost
  <2>3. order \in Surjection(1..m, lost)
    BY <1>5, <2>1, <2>2, FS_Injection
  <2> QED BY <2>3 DEF Surjection
<1>8. /\ DOMAIN seq = 1..n /\ \A i \in 1..n : nextId + i - 1 \in KnownIds' \ KnownIds
      /\ \A id \in KnownIds' \ KnownIds : \E i \in 1..n : id = nextId + i - 1
  <2>1. \A k \in new : IndexOf(seq, k) \in 1..n /\ seq[IndexOf(seq, k)] = k
    BY <1>3, IndexOfFinds
  <2>7. DOMAIN seq = 1..n
    BY <1>4
  <2>2. \A k \in new : known'[k] = nextId + IndexOf(seq, k) - 1 /\ known'[k] >= nextId
    BY <1>3, ScanApplies
  <2>3. \A k \in Keys : k \notin new => known'[k] \in {known[k], NoId}
    BY ScanApplies
  <2>4. nextId \in Nat \ {0} /\ \A id \in KnownIds : id < nextId
    BY DEF ScanInv, ScanType, IdsFresh, KnownIds
  <2>5. ASSUME NEW i \in 1..n PROVE nextId + i - 1 \in KnownIds' \ KnownIds
    <3> HIDE DEF seq, new, n
    <3>1. seq[i] \in new /\ IndexOf(seq, seq[i]) = i
      BY <1>4, <2>1, <2>7 DEF IsInjective
    <3>2. known'[seq[i]] = nextId + i - 1 /\ known'[seq[i]] >= nextId /\ seq[i] \in Keys
      BY <1>3, <2>2, <3>1
    <3>3. nextId + i - 1 # 0 /\ ~(nextId + i - 1 < nextId)
      BY <1>3, <2>4
    <3> QED BY <2>4, <3>2, <3>3 DEF KnownIds, NoId
  <2>6. ASSUME NEW id \in KnownIds', id \notin KnownIds
        PROVE  \E i \in 1..n : id = nextId + i - 1
    <3>1. PICK k \in Keys : known'[k] = id /\ id # NoId
      BY DEF KnownIds
    <3>2. k \in new
      BY <2>3, <2>6, <3>1 DEF KnownIds
    <3> QED BY <2>1, <2>2, <3>1, <3>2
  <2> HIDE DEF seq, new, n
  <2> QED BY <2>5, <2>6, <2>7
<1>9. KnownIds \subseteq Ids /\ KnownIds' \subseteq Ids /\ nextId \in Nat
  <2>1. (ScanInv => IdsUsed)'
    BY IdsInRange, PTL
  <2> QED BY <2>1, IdsInRange DEF IdsUsed, ScanInv, ScanType
<1> DEFINE batch == adds \o removes
<1> HIDE DEF seq, new, n, m, lost
<1>10. /\ adds \in Seq(ChangeSet) /\ Len(adds) = n
       /\ \A i \in 1..n : adds[i] = [op |-> "add", id |-> nextId + i - 1]
  <2>1. adds = [i \in 1..n |-> [op |-> "add", id |-> nextId + i - 1]]
    BY <1>8 DEF Change
  <2>2. \A i \in 1..n : [op |-> "add", id |-> nextId + i - 1] \in ChangeSet
    BY <1>8, <1>9 DEF ChangeSet
  <2>3. n \in Nat
    BY <1>3 DEF n
  <2> HIDE DEF adds
  <2>4. adds \in [1..n -> ChangeSet]
    BY <2>1, <2>2
  <2>5. adds \in Seq(ChangeSet) /\ Len(adds) = n
    BY <2>3, <2>4
  <2> QED BY <2>1, <2>5
<1>11. /\ removes \in Seq(ChangeSet) /\ Len(removes) = m
       /\ \A i \in 1..m : removes[i] = [op |-> "remove", id |-> order[i]]
  <2>1. lost \subseteq Ids
    BY <1>9 DEF lost
  <2> QED BY <1>5, <1>6, <2>1 DEF ChangeSet, Change
<1> HIDE DEF adds, removes
<1>12. /\ batch \in Seq(ChangeSet) /\ Len(batch) = n + m /\ n \in Nat /\ m \in Nat
       /\ \A i \in 1..n : batch[i] = adds[i]
       /\ \A i \in (n + 1)..(n + m) : batch[i] = removes[i - n]
  <2>1. n \in Nat /\ m \in Nat
    BY <1>10, <1>11
  <2>2. batch \in Seq(ChangeSet) /\ Len(batch) = n + m
    <3>1. adds \in Seq(ChangeSet) /\ removes \in Seq(ChangeSet)
      BY <1>10, <1>11
    <3>2. batch \in Seq(ChangeSet) /\ Len(batch) = Len(adds) + Len(removes)
      BY <3>1
    <3> QED BY <1>10, <1>11, <3>2
  <2>3. \A i \in 1..n : batch[i] = adds[i]
    BY <1>10, <1>11, <2>1
  <2>4. \A i \in (n + 1)..(n + m) : batch[i] = removes[i - n]
    BY <1>10, <1>11, <2>1
  <2> QED BY <2>1, <2>2, <2>3, <2>4
<1>13. \A i \in 1..(n + m) : Made(batch[i])
  <2> SUFFICES ASSUME NEW i \in 1..(n + m) PROVE Made(batch[i])
    OBVIOUS
  <2>1. CASE i \in 1..n
    BY <1>8, <1>10, <1>12, <2>1 DEF Made
  <2>2. CASE i \in (n + 1)..(n + m)
    <3>1. i - n \in 1..m
      BY <1>12, <2>2
    <3>2. order[i - n] \in lost /\ batch[i] = [op |-> "remove", id |-> order[i - n]]
      BY <1>6, <1>11, <1>12, <2>2, <3>1
    <3> QED BY <3>2 DEF Made, lost
  <2> QED BY <1>12, <2>1, <2>2
<1>14. \A i, j \in 1..(n + m) : batch[i].id = batch[j].id => i = j
  <2> SUFFICES ASSUME NEW i \in 1..(n + m), NEW j \in 1..(n + m), batch[i].id = batch[j].id
               PROVE  i = j
    OBVIOUS
  <2>1. CASE i \in 1..n /\ j \in 1..n
    BY <1>9, <1>10, <1>12, <2>1
  <2>2. CASE i \in (n + 1)..(n + m) /\ j \in (n + 1)..(n + m)
    <3>1. i - n \in 1..m /\ j - n \in 1..m
      BY <1>12, <2>2
    <3>2. order[i - n] = order[j - n]
      BY <1>11, <1>12, <2>2, <3>1, SMTT(20)
    <3>3. i - n = j - n
      BY <1>6, <3>1, <3>2
    <3> QED BY <1>12, <3>3
  <2>3. CASE batch[i].op # batch[j].op
    BY <1>13, <2>3 DEF Made
  <2>4. \A k \in 1..(n + m) : /\ k \in 1..n => batch[k].op = "add"
                              /\ k \in (n + 1)..(n + m) => batch[k].op = "remove"
    <3> SUFFICES ASSUME NEW k \in (n + 1)..(n + m) PROVE batch[k].op = "remove"
      BY <1>10, <1>12, SMTT(20)
    <3>1. k - n \in 1..m
      BY <1>12
    <3> QED BY <1>11, <1>12, <3>1
  <2>5. (i \in 1..n \/ i \in (n + 1)..(n + m)) /\ (j \in 1..n \/ j \in (n + 1)..(n + m))
    BY <1>12
  <2> QED BY <2>1, <2>2, <2>3, <2>4, <2>5
<1>15. \A c \in ChangeSet : Made(c) => \E i \in 1..(n + m) : batch[i] = c
  <2> SUFFICES ASSUME NEW c \in ChangeSet, Made(c) PROVE \E i \in 1..(n + m) : batch[i] = c
    OBVIOUS
  <2>1. c = [op |-> c.op, id |-> c.id]
    BY DEF ChangeSet
  <2>2. CASE c.op = "add" /\ c.id \in KnownIds' \ KnownIds
    <3>1. PICK i \in 1..n : c.id = nextId + i - 1
      BY <1>8, <2>2
    <3>2. batch[i] = c
      BY <1>10, <1>12, <2>1, <2>2, <3>1
    <3> QED BY <1>12, <3>2
  <2>3. CASE c.op = "remove" /\ c.id \in lost
    <3>1. PICK i \in 1..m : c.id = order[i]
      BY <1>7, <2>3
    <3>2. n + i \in (n + 1)..(n + m) /\ (n + i) - n = i
      BY <1>12
    <3>3. batch[n + i] = c
      BY <1>11, <1>12, <2>1, <2>3, <3>1, <3>2
    <3> QED BY <1>12, <3>2, <3>3
  <2> QED BY <2>2, <2>3 DEF Made, lost
<1> HIDE DEF batch
<1>16. CASE ~(s = "watch" /\ Subscribed)
  BY <1>2, <1>16
<1>17. CASE s = "watch" /\ Subscribed
  <2> DEFINE room == SubCap - Len(changes)
             k == IF Len(batch) <= room THEN Len(batch) ELSE room
  <2>1. changes' = changes \o SubSeq(batch, 1, k) /\ dropped' = (dropped \/ Len(batch) > room)
    BY <1>2, <1>17 DEF Publish, batch, removes
  <2>2. k \in Nat /\ k <= Len(batch) /\ k <= room /\ room \in Nat /\ (~dropped' => k = Len(batch))
    <3>1. SubCap \in Nat /\ Len(changes) \in Nat /\ room \in Nat /\ Len(batch) \in Nat
      BY <1>12, CatalogAssumption
    <3>2. ~dropped' => ~(Len(batch) > room)
      BY <2>1, Zenon
    <3> HIDE DEF room
    <3> QED BY <3>1, <3>2
  <2> HIDE DEF k, room
  <2>3. /\ SubSeq(batch, 1, k) \in Seq(ChangeSet) /\ Len(SubSeq(batch, 1, k)) = k
        /\ \A i \in 1..k : SubSeq(batch, 1, k)[i] = batch[i]
    BY <1>12, <2>2
  <2>4. /\ changes' \in Seq(ChangeSet) /\ Len(changes') = Len(changes) + k
        /\ \A i \in 1..Len(changes) : changes'[i] = changes[i]
        /\ \A i \in 1..k : changes'[Len(changes) + i] = batch[i]
    BY <2>1, <2>2, <2>3
  <2>5. \A i \in (Len(changes) + 1)..Len(changes') :
          i - Len(changes) \in 1..k /\ changes'[i] = batch[i - Len(changes)]
    <3> SUFFICES ASSUME NEW i \in (Len(changes) + 1)..Len(changes')
                 PROVE  i - Len(changes) \in 1..k /\ changes'[i] = batch[i - Len(changes)]
      OBVIOUS
    <3>1. i - Len(changes) \in 1..k /\ i = Len(changes) + (i - Len(changes))
      BY <2>2, <2>4
    <3> QED BY <2>4, <3>1
  <2>6. Len(changes') <= SubCap /\ Len(changes) <= Len(changes')
    BY <2>2, <2>4, CatalogAssumption DEF room
  <2>7. \A i \in (Len(changes) + 1)..Len(changes') : Made(changes'[i])
    BY <1>12, <1>13, <2>2, <2>5
  <2>8. \A i, j \in (Len(changes) + 1)..Len(changes') : changes'[i].id = changes'[j].id => i = j
    <3> SUFFICES ASSUME NEW i \in (Len(changes) + 1)..Len(changes'),
                        NEW j \in (Len(changes) + 1)..Len(changes'), changes'[i].id = changes'[j].id
                 PROVE  i = j
      OBVIOUS
    <3> DEFINE x == i - Len(changes)
               y == j - Len(changes)
    <3>1. x \in 1..k /\ changes'[i] = batch[x] /\ y \in 1..k /\ changes'[j] = batch[y]
      BY <2>5
    <3>2. i = Len(changes) + x /\ j = Len(changes) + y
      BY <2>4
    <3> HIDE DEF x, y
    <3>3. x \in 1..(n + m) /\ y \in 1..(n + m)
      BY <1>12, <2>2, <3>1
    <3>4. x = y
      BY <1>14, <3>1, <3>3
    <3> QED BY <3>2, <3>4
  <2>9. ASSUME ~dropped', NEW c \in ChangeSet, Made(c)
        PROVE  \E i \in (Len(changes) + 1)..Len(changes') : changes'[i] = c
    <3>1. PICK i \in 1..(n + m) : batch[i] = c
      BY <1>15, <2>9
    <3>2. i \in 1..k /\ Len(changes) + i \in (Len(changes) + 1)..Len(changes')
      BY <1>12, <2>2, <2>4, <2>9
    <3> QED BY <2>4, <3>1, <3>2
  <2>10. (dropped => dropped') /\ (dropped \in BOOLEAN => dropped' \in BOOLEAN)
    BY <2>1
  <2> QED BY <1>17, <2>4, <2>6, <2>7, <2>8, <2>9, <2>10
<1> QED BY <1>16, <1>17

-----------------------------------------------------------------------------
(* The catalog with its PTYs and its subscriber *)

RestType ==
  /\ dirty \in BOOLEAN /\ missed \in BOOLEAN
  /\ live \in [Ids -> 0..MaxSpawns] /\ spawned \in 0..MaxSpawns /\ late \subseteq Ids
  /\ conn \in {"down", "refresh", "up", "closing"} /\ conns \in 0..MaxConns
  /\ changes \in Seq(ChangeSet) /\ Len(changes) <= SubCap
  /\ dropped \in BOOLEAN /\ available \subseteq Ids

\* What an empty channel and an unused count are.
LEMMA EmptyTypes ==
  << >> \in Seq(ChangeSet) /\ Len(<< >>) <= SubCap /\ 0 \in 0..MaxSpawns /\ 0 \in 0..MaxConns
BY CatalogAssumption

\* The inductive invariant of the catalog.
CatalogInv == ScanInv /\ RestType /\ RemovedPtyCloses

\* Its parts are the types of all variables.
LEMMA TypeFromParts == CatalogInv => CatalogTypeOK
<1> SUFFICES ASSUME CatalogInv PROVE CatalogTypeOK
  OBVIOUS
<1>1. IdsUsed
  BY IdsInRange DEF CatalogInv
<1>2. \A s \in Scanners : scans[s].removed \subseteq Ids
  BY <1>1 DEF CatalogInv, ScanInv, ScanType, RemovedOut, IdsUsed, NoId
<1>3. scans \in [Scanners -> [pc : {"idle", "listed", "close", "done"},
                              list : SUBSET Keys, removed : SUBSET Ids]]
  BY <1>2 DEF CatalogInv, ScanInv, ScanType
<1>4. eventCount \in 0..MaxEvents /\ mux \subseteq Keys /\ scanMu \in Scanners \cup {Free}
  BY CatalogAssumption DEF CatalogInv, ScanInv, ScanType
<1> QED BY <1>1, <1>3, <1>4 DEF CatalogInv, RestType, CatalogTypeOK, IdsUsed, ChangeSet

\* A scan's step keeps types and PTYs: what leaves the catalog is owed a close.
LEMMA ScanStepRest ==
  ASSUME CatalogInv, ScanInv', NEW s \in Scanners, ScanStep(s)
  PROVE  RestType' /\ RemovedPtyCloses'
<1>1. CASE ScanList(s)
  <2>1. RestType'
    BY <1>1, CatalogAssumption DEF ScanList, CatalogInv, RestType, ptyVars, subVars
  <2>2. \A t \in Scanners : scans[t].removed \subseteq scans'[t].removed
    BY <1>1 DEF ScanList, ScanMayBegin, CatalogInv, ScanInv, ScanType, RemovedOut
  <2>3. KnownIds' = KnownIds /\ UNCHANGED <<live, late>>
    BY <1>1 DEF ScanList, KnownIds, ptyVars
  <2> QED BY <2>1, <2>2, <2>3 DEF CatalogInv, RemovedPtyCloses
<1>2. CASE ScanApply(s)
  <2>1. /\ changes' \in Seq(ChangeSet) /\ Len(changes') <= SubCap /\ dropped' \in BOOLEAN
    BY <1>2, ScanApplyPublishes DEF CatalogInv, RestType
  <2>2. RestType'
    BY <1>2, <2>1 DEF ScanApply, CatalogInv, RestType, muxVars, ptyVars
  <2>3. scans' = [scans EXCEPT ![s] = [pc |-> "close", list |-> {},
                                       removed |-> KnownIds \ KnownIds']]
    BY <1>2, ScanApplyRemoves DEF CatalogInv
  <2>4. \A t \in Scanners : scans[t].removed \subseteq scans'[t].removed
    BY <1>2, <2>3 DEF ScanApply, CatalogInv, ScanInv, ScanType, RemovedOut
  <2>5. \A id \in KnownIds \ KnownIds' : id \in scans'[s].removed
    BY <2>3 DEF CatalogInv, ScanInv, ScanType
  <2>6. UNCHANGED <<live, late>>
    BY <1>2 DEF ScanApply, ptyVars
  <2> QED BY <2>2, <2>4, <2>5, <2>6 DEF CatalogInv, RemovedPtyCloses
<1>3. CASE ScanClose(s)
  <2>1. PICK id \in scans[s].removed :
          /\ scans' = [scans EXCEPT ![s].removed = @ \ {id}]
          /\ live' = [live EXCEPT ![id] = NoPty]
    BY <1>3 DEF ScanClose
  <2>2. KnownIds' = KnownIds /\ UNCHANGED <<late, spawned, muxVars, subVars>>
    BY <1>3 DEF ScanClose, KnownIds
  <2>3. live' \in [Ids -> 0..MaxSpawns]
    BY <2>1, EmptyTypes DEF CatalogInv, RestType, NoPty
  <2>4. RestType'
    BY <2>2, <2>3 DEF CatalogInv, RestType, muxVars, subVars
  <2> QED BY <2>1, <2>2, <2>4
          DEF CatalogInv, RemovedPtyCloses, ScanInv, ScanType, RestType, NoPty
<1>4. CASE ScanReturn(s)
  <2>1. \A t \in Scanners : scans[t].removed \subseteq scans'[t].removed
    BY <1>4 DEF ScanReturn, CatalogInv, ScanInv, ScanType
  <2> QED BY <1>4, <2>1
          DEF ScanReturn, CatalogInv, RestType, RemovedPtyCloses, KnownIds, muxVars, ptyVars, subVars
<1> QED BY <1>1, <1>2, <1>3, <1>4 DEF ScanStep

\* Activating an id keeps types and PTYs: if it has left the catalog, it is late.
LEMMA ActivateRest ==
  ASSUME CatalogInv, NEW id \in Ids, Activate(id), UNCHANGED <<muxVars, scanVars, subVars>>
  PROVE  RestType' /\ RemovedPtyCloses'
<1>1. KnownIds' = KnownIds /\ UNCHANGED scans
  BY DEF KnownIds, scanVars
<1>2. spawned \in Nat /\ spawned + 1 \in 0..MaxSpawns /\ MaxSpawns \in Nat
  BY CatalogAssumption DEF Activate, CatalogInv, RestType
<1>3. RestType'
  BY <1>2 DEF Activate, CatalogInv, RestType, muxVars, subVars
<1> QED BY <1>1, <1>3 DEF Activate, CatalogInv, RestType, RemovedPtyCloses

\* Steps outside the scans and the activations keep types and PTYs.
LEMMA OtherRest ==
  ASSUME CatalogInv,
         \/ Environment \/ Rumour \/ Dial \/ Subscribe
         \/ TakeChange /\ UNCHANGED <<muxVars, scanVars, ptyVars>>
         \/ Unsubscribe /\ UNCHANGED <<muxVars, scanVars, ptyVars>>
  PROVE  RestType' /\ RemovedPtyCloses'
<1>1. IdsUsed
  BY IdsInRange DEF CatalogInv
<1>2. ASSUME UNCHANGED <<ptyVars, scanVars>> PROVE RemovedPtyCloses'
  BY <1>2 DEF CatalogInv, RemovedPtyCloses, KnownIds, ptyVars, scanVars
<1>3. ASSUME NEW k \in Keys, MuxChange(k) PROVE RestType' /\ RemovedPtyCloses'
  BY <1>2, <1>3 DEF MuxChange, CatalogInv, RestType, ptyVars, subVars
<1>4. ASSUME NEW id \in Ids, PtyExit(id) PROVE RestType' /\ RemovedPtyCloses'
  <2>1. RestType'
    BY <1>4, CatalogAssumption DEF PtyExit, CatalogInv, RestType, muxVars, subVars, NoPty
  <2> QED BY <1>4, <2>1
          DEF PtyExit, CatalogInv, RestType, RemovedPtyCloses, KnownIds, scanVars
<1>5. CASE Rumour
  BY <1>2, <1>5 DEF Rumour, CatalogInv, RestType, ptyVars, subVars
<1>6. CASE Dial
  BY <1>2, <1>6, CatalogAssumption DEF Dial, CatalogInv, RestType, muxVars, ptyVars
<1>7. CASE Subscribe
  <2>1. RestType'
    BY <1>1, <1>7, EmptyTypes DEF Subscribe, CatalogInv, RestType, IdsUsed, muxVars, ptyVars
  <2>2. \A t \in Scanners : scans[t].removed \subseteq scans'[t].removed
    BY <1>7 DEF Subscribe, CatalogInv, ScanInv, ScanType, RemovedOut, Scanners
  <2> QED BY <1>7, <2>1, <2>2 DEF Subscribe, CatalogInv, RemovedPtyCloses, KnownIds, ptyVars
<1>8. CASE TakeChange /\ UNCHANGED <<muxVars, scanVars, ptyVars>>
  <2>1. changes' \in Seq(ChangeSet) /\ Len(changes') <= SubCap /\ Head(changes).id \in Ids
    <3>1. changes \in Seq(ChangeSet) /\ changes # << >> /\ Len(changes) <= SubCap /\ SubCap \in Nat
      BY <1>8, CatalogAssumption DEF TakeChange, CatalogInv, RestType
    <3>2. Tail(changes) \in Seq(ChangeSet) /\ Len(Tail(changes)) = Len(changes) - 1
          /\ Head(changes) \in ChangeSet /\ Len(changes) \in Nat
      BY <3>1
    <3> QED BY <1>8, <3>1, <3>2 DEF TakeChange, ChangeSet
  <2> QED BY <1>2, <1>8, <2>1 DEF TakeChange, CatalogInv, RestType, muxVars, ptyVars
<1>9. CASE Unsubscribe /\ UNCHANGED <<muxVars, scanVars, ptyVars>>
  BY <1>2, <1>9, EmptyTypes DEF Unsubscribe, CatalogInv, RestType, muxVars, ptyVars
<1> QED BY <1>3, <1>4, <1>5, <1>6, <1>7, <1>8, <1>9 DEF Environment

\* The catalog and its subscriber: ids stay within the bound that the events
\* pay for, and a PTY outlives its entry only until the scan that removed the
\* entry has closed it, for every number of sessions.
THEOREM CatalogSafe == CatalogSpec => [](CatalogTypeOK /\ RemovedPtyCloses)
<1>1. CatalogInit => CatalogInv
  <2> SUFFICES ASSUME CatalogInit PROVE CatalogInv
    OBVIOUS
  <2>1. RestType
    BY EmptyTypes DEF CatalogInit, RestType, NoPty
  <2>2. RemovedPtyCloses
    BY DEF CatalogInit, RemovedPtyCloses
  <2> QED BY <2>1, <2>2, ScanInvInit DEF CatalogInv
<1>2. CatalogInv /\ [CatalogNext]_catalogVars => CatalogInv'
  <2> SUFFICES ASSUME CatalogInv, [CatalogNext]_catalogVars PROVE CatalogInv'
    OBVIOUS
  <2>1. CASE CatalogNext
    <3>1. ScanInv'
      BY <2>1, ScanInvStep DEF CatalogInv
    <3>2. ASSUME SubscriberActivates PROVE RestType' /\ RemovedPtyCloses'
      BY <3>2, ActivateRest DEF SubscriberActivates, CatalogInv, RestType
    <3>3. RestType' /\ RemovedPtyCloses'
      BY <2>1, <3>1, <3>2, ScanStepRest, OtherRest
      DEF CatalogNext, Scanning, Subscriber, SubscriberTakes, SubscriberLeaves
    <3> QED BY <3>1, <3>3 DEF CatalogInv
  <2>2. CASE UNCHANGED catalogVars
    <3>1. ScanInv'
      BY <2>2, ScanInvKept DEF CatalogInv, catalogVars, muxVars
    <3> QED BY <2>2, <3>1
            DEF CatalogInv, RestType, RemovedPtyCloses, KnownIds, catalogVars, muxVars, scanVars,
                ptyVars, subVars
  <2> QED BY <2>1, <2>2
<1>3. CatalogInv => CatalogTypeOK /\ RemovedPtyCloses
  BY TypeFromParts DEF CatalogInv
<1> QED BY <1>1, <1>2, <1>3, PTL DEF CatalogSpec
=============================================================================
