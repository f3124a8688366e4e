--------------------------- MODULE TerminalProofs ---------------------------
(***************************************************************************)
(* Proofs about the terminals.  For every ring size and every sequence of  *)
(* writes and resets, Snapshot returns exactly the retained tail of the    *)
(* stream, and the ring implements the sliding window.  For every number   *)
(* of reads, writes and keystrokes, LF returns the carriage, arrow keys    *)
(* come in the form asked for, the key decoder finds its way back and the  *)
(* keys it returns are those that were typed.                              *)
(***************************************************************************)
EXTENDS Terminal, Integers, SequenceTheorems, FiniteSetTheorems,
        WellFoundedInduction, TLAPS

-----------------------------------------------------------------------------
(* The replay ring *)

\* Which bytes lie where in the array: below head the newest ones, and, once
\* the array has wrapped, from head on the oldest ones.
Layout ==
  /\ full => pos - since >= Size /\ Size > 0
  /\ ~full => (Size > 0 => head = pos - since)
  /\ head <= pos
  /\ \A j \in 0..(Size - 1) : j < head => buf[j] = (pos - head) + j
  /\ full => \A j \in 0..(Size - 1) : j >= head => buf[j] = (pos - Size) + (j - head)

Inv == TypeOK /\ Layout

\* New establishes the layout (an empty array holds nothing).
LEMMA InitInv == Init => Inv
<1> SUFFICES ASSUME Init PROVE Inv
  OBVIOUS
<1> USE RingAssumption DEF Init
<1>1. buf \in [0..(Size - 1) -> Nat]
  OBVIOUS
<1>2. head = 0 /\ pos = 0 /\ since \in 0..pos
  OBVIOUS
<1>3. full \in BOOLEAN
  OBVIOUS
<1>4. TypeOK
  BY <1>1, <1>2, <1>3 DEF TypeOK
<1>5. Layout
  BY DEF Layout
<1> QED BY <1>4, <1>5 DEF Inv

\* A write of n bytes, in each of Write's branches, preserves the layout.
LEMMA WriteInv ==
  ASSUME Inv, NEW n \in Nat, Write(n)
  PROVE  Inv'
<1> USE RingAssumption
<1>1. CASE n = 0 \/ Size = 0
  <2>1. UNCHANGED <<buf, head, full, since>> /\ pos' = pos + n
    BY <1>1 DEF Write
  <2>2. pos' = pos \/ Size = 0
    BY <1>1, <2>1 DEF Inv, TypeOK
  <2>3. TypeOK'
    BY <2>1 DEF Inv, TypeOK
  <2>4. Layout'
    BY <2>1, <2>2 DEF Inv, TypeOK, Layout
  <2> QED BY <2>3, <2>4 DEF Inv
<1>2. CASE ~(n = 0 \/ Size = 0)
  <2>0. pos' = pos + n /\ since' = since /\ n \in Nat /\ n > 0 /\ Size > 0
    BY <1>2 DEF Write, Inv, TypeOK
  <2>1. CASE WriteOversized(n)
    <3>1. TypeOK'
      BY <2>0, <2>1 DEF WriteOversized, Inv, TypeOK, Layout
    <3>2. Layout'
      BY <2>0, <2>1 DEF WriteOversized, Inv, TypeOK, Layout
    <3> QED BY <3>1, <3>2 DEF Inv
  <2>2. CASE WriteFits(n)
    <3>1. TypeOK'
      BY <2>0, <2>2 DEF WriteFits, Inv, TypeOK, Layout
    <3>2. Layout'
      <4>1. CASE head + n = Size
        <5>1. head' = 0 /\ full'
          BY <2>2, <4>1 DEF WriteFits
        <5>0. \A j \in 0..(Size - 1) :
                buf'[j] = IF j >= head /\ j < head + n THEN pos + j - head ELSE buf[j]
          BY <2>0, <2>2 DEF WriteFits
        <5>2. ASSUME NEW j \in 0..(Size - 1) PROVE buf'[j] = (pos' - Size) + j
          <6>0. pos \in Nat /\ head \in Nat /\ n \in Nat
            BY <2>0 DEF Inv, TypeOK
          <6>1. CASE j >= head
            <7>1. buf'[j] = pos + j - head
              BY <4>1, <5>0, <6>0, <6>1
            <7> QED BY <2>0, <4>1, <6>0, <7>1
          <6>2. CASE j < head
            <7>1. buf'[j] = (pos - head) + j
              BY <5>0, <6>0, <6>2 DEF Inv, Layout
            <7> QED BY <2>0, <4>1, <6>0, <7>1
          <6> QED BY <6>0, <6>1, <6>2
        <5>3. pos' - since' >= Size
          BY <2>0, <2>2, <4>1 DEF WriteFits, Inv, TypeOK, Layout
        <5> QED BY <2>0, <5>1, <5>2, <5>3 DEF Layout, Inv, TypeOK
      <4>2. CASE head + n # Size
        <5>1. head' = head + n /\ full' = full
          BY <2>2, <4>2 DEF WriteFits, Inv, TypeOK
        <5>2. \A j \in 0..(Size - 1) :
                buf'[j] = IF j >= head /\ j < head + n THEN pos + j - head ELSE buf[j]
          BY <2>0, <2>2 DEF WriteFits
        <5> QED BY <2>0, <2>2, <4>2, <5>1, <5>2 DEF WriteFits, Inv, TypeOK, Layout
      <4> QED BY <4>1, <4>2
    <3> QED BY <3>1, <3>2 DEF Inv
  <2>3. CASE WriteWraps(n)
    <3>1. TypeOK'
      BY <2>0, <2>3 DEF WriteWraps, Inv, TypeOK, Layout
    <3>2. Layout'
      BY <2>0, <2>3 DEF WriteWraps, Inv, TypeOK, Layout
    <3> QED BY <3>1, <3>2 DEF Inv
  <2> QED BY <1>2, <2>1, <2>2, <2>3 DEF Write
<1> QED BY <1>1, <1>2

\* What is written or reset, by whom and however often, preserves the layout.
LEMMA StepInv ==
  ASSUME Inv, (\E n \in Nat : Write(n)) \/ Reset \/ UNCHANGED vars
  PROVE  Inv'
<1>1. ASSUME NEW n \in Nat, Write(n) PROVE Inv'
  BY <1>1, WriteInv
<1>2. CASE Reset
  <2>1. TypeOK'
    <3>1. full' \in BOOLEAN
      BY <1>2 DEF Reset
    <3>2. head' = 0 /\ pos' \in Nat /\ since' \in 0..pos'
      BY <1>2 DEF Reset, Inv, TypeOK
    <3>3. buf' \in [0..(Size - 1) -> Nat]
      BY <1>2 DEF Reset, Inv, TypeOK
    <3> QED BY <3>1, <3>2, <3>3 DEF TypeOK
  <2>2. Layout'
    BY <1>2, RingAssumption DEF Reset, Inv, TypeOK, Layout
  <2> QED BY <2>1, <2>2 DEF Inv
<1>3. CASE UNCHANGED vars
  BY <1>3 DEF vars, Inv, TypeOK, Layout
<1> QED BY <1>1, <1>2, <1>3

\* Every step preserves the layout.
LEMMA NextInv == Inv /\ [Next]_vars => Inv'
<1> SUFFICES ASSUME Inv, [Next]_vars PROVE Inv'
  OBVIOUS
<1>1. ASSUME NEW n \in 0..(MaxPos - pos), Write(n) PROVE n \in Nat /\ Write(n)
  BY <1>1 DEF Inv, TypeOK
<1> QED BY <1>1, StepInv DEF Next

\* Seen through Snapshot, the layout is the retained tail of the stream.
LEMMA LayoutSnapshot == Inv => SnapshotExact
<1> SUFFICES ASSUME Inv PROVE SnapshotExact
  OBVIOUS
<1> USE RingAssumption
<1>1. CASE full
  <2>1. Held = Size
    BY <1>1 DEF Held, Inv, TypeOK, Layout
  <2>2. Snapshot = [i \in 1..Size |-> IF i <= Size - head THEN buf[head + i - 1]
                          ELSE buf[i - 1 - (Size - head)]]
    BY <1>1 DEF Snapshot
  <2>3. ASSUME NEW i \in 1..Size
        PROVE  (IF i <= Size - head THEN buf[head + i - 1]
                          ELSE buf[i - 1 - (Size - head)]) = (pos - Size) + i - 1
    BY <1>1 DEF Inv, TypeOK, Layout
  <2> QED BY <2>1, <2>2, <2>3 DEF SnapshotExact
<1>2. CASE ~full
  <2>1. Held = head
    BY <1>2 DEF Held, Inv, TypeOK, Layout
  <2>2. Snapshot = [i \in 1..head |-> buf[i - 1]]
    BY <1>2 DEF Snapshot, Inv, TypeOK
  <2>3. ASSUME NEW i \in 1..head
        PROVE  buf[i - 1] = (pos - head) + i - 1
    BY <1>2 DEF Inv, TypeOK, Layout
  <2> QED BY <2>1, <2>2, <2>3 DEF SnapshotExact
<1> QED BY <1>1, <1>2

\* The array is never indexed outside its bounds and Snapshot is always the
\* last Size bytes since the last reset (ring.go Write, Reset, Snapshot).
THEOREM RingSafe == Spec => [](TypeOK /\ SnapshotExact)
<1>1. Init => Inv BY InitInv
<1>2. Inv /\ [Next]_vars => Inv' BY NextInv
<1>3. Inv => TypeOK /\ SnapshotExact BY LayoutSnapshot DEF Inv
<1> QED BY <1>1, <1>2, <1>3, PTL DEF Spec

-----------------------------------------------------------------------------
(* The ring implements the sliding window *)

\* The h bytes of the stream that end at position p.
Ending(p, h) == [i \in 1..h |-> (p - h) + i - 1]

\* Appending n bytes to the h newest ones gives the h + n newest ones.
LEMMA EndingAppend ==
  ASSUME NEW p \in Nat, NEW h \in 0..p, NEW n \in Nat
  PROVE  Ending(p, h) \o Window!Bytes(p, n) = Ending(p + n, h + n)
<1> DEFINE a == Ending(p, h)
           b == Window!Bytes(p, n)
           c == Ending(p + n, h + n)
           ab == a \o b
<1>1. a \in Seq(Int) /\ Len(a) = h /\ b \in Seq(Int) /\ Len(b) = n
  BY DEF Ending, Window!Bytes
<1>2. ab \in Seq(Int) /\ Len(ab) = h + n
  BY <1>1, SMTT(20)
<1>3. c \in Seq(Int) /\ Len(c) = h + n
  BY DEF Ending
<1>4. ASSUME NEW i \in 1..(h + n) PROVE ab[i] = c[i]
  <2>1. c[i] = (p - h) + i - 1
    BY DEF Ending
  <2>2. CASE i <= h
    BY <1>1, <2>1, <2>2 DEF Ending
  <2>3. CASE i > h
    <3>1. ab[i] = b[i - h]
      <4> HIDE DEF a, b
      <4> QED BY <1>1, <2>3
    <3>2. i - h \in 1..n
      BY <2>3
    <3>3. b[i - h] = p + (i - h) - 1
      BY <3>2 DEF Window!Bytes
    <3> QED BY <2>1, <3>1, <3>3
  <2> HIDE DEF a, b, c, ab
  <2>4. i <= h \/ i > h
    OBVIOUS
  <2> QED BY <2>2, <2>3, <2>4
<1> HIDE DEF a, b, c, ab
<1>5. ab = c
  BY <1>2, <1>3, <1>4
<1> QED BY <1>5 DEF a, b, c, ab

\* Cutting the h newest bytes down to k gives the k newest ones.
LEMMA EndingCut ==
  ASSUME NEW p \in Nat, NEW h \in 0..p, NEW k \in Nat
  PROVE  Window!LastOf(Ending(p, h), k) = Ending(p, IF h <= k THEN h ELSE k)
<1> DEFINE a == Ending(p, h)
<1>1. a \in Seq(Int) /\ Len(a) = h
  BY DEF Ending
<1>2. CASE h <= k
  BY <1>1, <1>2 DEF Window!LastOf
<1>3. CASE h > k
  <2> DEFINE s == SubSeq(a, h - k + 1, h)
             c == Ending(p, k)
  <2>1. Window!LastOf(a, k) = s
    BY <1>1, <1>3 DEF Window!LastOf
  <2>2. s \in Seq(Int) /\ Len(s) = k
    BY <1>1, <1>3
  <2>3. c \in Seq(Int) /\ Len(c) = k
    BY DEF Ending
  <2>4. ASSUME NEW i \in 1..k PROVE s[i] = c[i]
    <3>1. s[i] = a[h - k + i]
      <4>1. \A j \in (h - k + 1)..h : a[j] \in Int
        BY <1>1, <1>3, ElementOfSeq
      <4>2. i \in 1..(h - (h - k + 1) + 1) /\ h - k + 1 + i - 1 = h - k + i
            /\ h - k + 1 \in Int /\ h \in Int
        BY <1>3
      <4> HIDE DEF a
      <4>3. \A j \in 1..(h - (h - k + 1) + 1) : s[j] = a[h - k + 1 + j - 1]
        BY <4>1, <4>2, SubSeqProperties
      <4> QED BY <4>2, <4>3
    <3> QED BY <3>1, <1>3 DEF Ending
  <2> HIDE DEF s, c
  <2>5. s = c
    BY <2>2, <2>3, <2>4
  <2> QED BY <1>3, <2>1, <2>5 DEF c
<1> QED BY <1>2, <1>3

\* Every step of the ring is a step of the window, or leaves it unchanged.
LEMMA StepRefines == Inv /\ Inv' /\ [Next]_vars => [Window!WindowNext]_(Window!windowVars)
<1> SUFFICES ASSUME Inv, Inv', [Next]_vars
             PROVE  [Window!WindowNext]_(Window!windowVars)
  OBVIOUS
<1> USE RingAssumption
<1>0. Held \in 0..pos /\ Held <= Size /\ pos \in Nat
  BY DEF Inv, TypeOK, Held
<1>1. Snapshot = Ending(pos, Held)
  BY LayoutSnapshot DEF SnapshotExact, Ending
<1>2. Snapshot' = Ending(pos', Held')
  <2>1. Inv' => SnapshotExact'
    BY LayoutSnapshot, PTL
  <2> QED BY <2>1 DEF SnapshotExact, Ending
<1>3. ASSUME NEW n \in 0..(MaxPos - pos), Write(n) PROVE Window!WindowNext
  <2>1. n \in Nat /\ pos' = pos + n /\ since' = since
    BY <1>3, <1>0 DEF Write
  <2>2. Window!LastOf(Snapshot \o Window!Bytes(pos, n), Size)
          = Ending(pos + n, IF Held + n <= Size THEN Held + n ELSE Size)
    <3>1. Snapshot \o Window!Bytes(pos, n) = Ending(pos + n, Held + n)
      BY <1>0, <1>1, <2>1, EndingAppend
    <3>2. Held + n \in 0..(pos + n) /\ pos + n \in Nat
      BY <1>0, <2>1
    <3> QED BY <3>1, <3>2, EndingCut
  <2>3. Held' = IF Held + n <= Size THEN Held + n ELSE Size
    BY <2>1 DEF Held, Inv, TypeOK
  <2>4. Window!WindowWrite(n)
    BY <1>2, <2>1, <2>2, <2>3 DEF Window!WindowWrite
  <2> QED BY <2>4 DEF Window!WindowNext
<1>4. CASE Reset
  <2>1. head' = 0 /\ full' = FALSE /\ pos' = pos
    BY <1>4 DEF Reset
  <2>2. Snapshot' = << >>
    BY <2>1 DEF Snapshot
  <2> QED BY <2>1, <2>2 DEF Window!WindowNext, Window!WindowReset
<1>5. CASE UNCHANGED vars
  BY <1>5 DEF vars, Snapshot, Window!windowVars
<1> QED BY <1>3, <1>4, <1>5 DEF Next

\* The ring of ring.go, observed through Snapshot, implements the sliding
\* window: no sequence of Write and Reset loses, repeats or reorders a byte.
THEOREM RingImplementsWindow == Spec => ImplementsWindow
<1>1. Init => Window!WindowInit
  BY DEF Init, Window!WindowInit, Snapshot
<1>2. Inv /\ Inv' /\ [Next]_vars => [Window!WindowNext]_(Window!windowVars)
  BY StepRefines
<1>3. Init => Inv BY InitInv
<1>4. Inv /\ [Next]_vars => Inv' BY NextInv
<1> QED BY <1>1, <1>2, <1>3, <1>4, PTL DEF Spec, ImplementsWindow, Window!WindowSpec

-----------------------------------------------------------------------------
(* Folds over bytes *)

\* A set of naturals that is not empty has a least element.
LEMMA LeastNatural ==
  ASSUME NEW T, T \subseteq Nat, T # {}
  PROVE  \E x \in T : \A y \in T : x <= y
<1>1. PICK x \in T : \A y \in T : ~(<<y, x>> \in OpToRel(<, Nat))
  BY NatLessThanWellFounded, WFMin
<1>2. \A y \in T : ~(y < x)
  BY <1>1 DEF OpToRel
<1> QED BY <1>2

\* Induction up to n, on the set of the numbers of which something holds.
LEMMA UpTo ==
  ASSUME NEW n \in Nat, NEW T, 0 \in T,
         \A k \in 0..(n - 1) : k \in T => k + 1 \in T
  PROVE  \A k \in 0..n : k \in T
<1> SUFFICES ASSUME NEW j \in 0..n, j \notin T PROVE FALSE
  OBVIOUS
<1> DEFINE Bad == {k \in 0..n : k \notin T}
<1>1. Bad \subseteq Nat /\ Bad # {}
  OBVIOUS
<1>2. PICK k \in Bad : \A m \in Bad : k <= m
  <2> HIDE DEF Bad
  <2> QED BY <1>1, LeastNatural
<1>3. k # 0 /\ k \in 0..n /\ k \notin T
  BY <1>2
<1>4. k - 1 \in 0..(n - 1) /\ (k - 1) + 1 = k /\ k - 1 \in 0..n
  BY <1>3
<1>5. k - 1 \notin Bad
  BY <1>2, <1>4
<1> QED BY <1>3, <1>4, <1>5

-----------------------------------------------------------------------------
(* Folds, one step after another *)

\* Max of the sets that a fold from the left goes through.
LEMMA MaxIsLast ==
  ASSUME NEW k \in Nat, NEW s, s \subseteq 1..(k + 1), k + 1 \in s
  PROVE  Max(s) = k + 1
<1>1. k + 1 \in s /\ \A y \in s : k + 1 >= y
  OBVIOUS
<1>2. \A x \in s : (\A y \in s : x >= y) => x = k + 1
  BY <1>1
<1> QED BY <1>1, <1>2 DEF Max

LEMMA MaxInside ==
  ASSUME NEW n \in Nat, NEW s, s \subseteq 1..n, s # {}
  PROVE  Max(s) \in s
<1> DEFINE Below == {k \in Nat : \E x \in s : k = n - x}
<1>1. \A x \in s : x \in Nat /\ x <= n /\ n - x \in Nat /\ n - x \in Below
  OBVIOUS
<1>2. Below \subseteq Nat /\ Below # {}
  BY <1>1
<1> HIDE DEF Below
<1>3. PICK k \in Below : \A m \in Below : k <= m
  BY <1>2, LeastNatural
<1>4. PICK x \in s : k = n - x
  BY <1>3 DEF Below
<1>5. \A y \in s : x >= y
  BY <1>1, <1>3, <1>4
<1> QED BY <1>1, <1>4, <1>5 DEF Max

\* The table of the values that a fold from the left over n elements goes
\* through, from v, when the element i takes x to f[i][x].
FoldValues(g, n, v, f) ==
  \A s \in SUBSET (1..n) : g[s] = IF s = {} THEN v ELSE f[Max(s)][g[s \ {Max(s)}]]

\* There is one: an element more extends it to the sets with that element.
LEMMA FoldsExist ==
  ASSUME NEW n \in Nat, NEW V, NEW v \in V, NEW f \in [1..n -> [V -> V]]
  PROVE  \E g \in [SUBSET (1..n) -> V] : FoldValues(g, n, v, f)
<1> DEFINE T == {k \in Nat : \E g \in [SUBSET (1..k) -> V] : FoldValues(g, k, v, f)}
<1>1. 0 \in T
  <2> DEFINE g == [s \in SUBSET (1..0) |-> v]
  <2>1. SUBSET (1..0) = {{}}
    OBVIOUS
  <2>2. FoldValues(g, 0, v, f) /\ g \in [SUBSET (1..0) -> V]
    BY <2>1 DEF FoldValues
  <2> QED BY <2>2
<1>2. ASSUME NEW k \in 0..(n - 1), k \in T PROVE k + 1 \in T
  <2>1. PICK g \in [SUBSET (1..k) -> V] : FoldValues(g, k, v, f)
    BY <1>2
  <2>2. k \in Nat /\ k + 1 \in 1..n /\ f[k + 1] \in [V -> V]
    BY <1>2
  <2> DEFINE G == [s \in SUBSET (1..(k + 1)) |->
                     IF k + 1 \in s THEN f[k + 1][g[s \ {k + 1}]] ELSE g[s]]
  <2>6. \A s \in SUBSET (1..(k + 1)) :
          (k + 1 \in s => s \ {k + 1} \in SUBSET (1..k)) /\ (k + 1 \notin s => s \in SUBSET (1..k))
    BY <2>2
  <2>7. G \in [SUBSET (1..(k + 1)) -> V]
    BY <2>1, <2>2, <2>6
  <2>3. ASSUME NEW s \in SUBSET (1..(k + 1))
        PROVE  G[s] = IF s = {} THEN v ELSE f[Max(s)][G[s \ {Max(s)}]]
    <3>1. CASE k + 1 \in s
      <4> DEFINE r == s \ {k + 1}
      <4>1. Max(s) = k + 1
        BY <2>2, <3>1, MaxIsLast
      <4>2. r \in SUBSET (1..(k + 1)) /\ k + 1 \notin r
        BY <2>2
      <4>3. G[r] = g[r]
        BY <4>2
      <4>4. G[s] = f[k + 1][g[r]]
        BY <3>1
      <4> HIDE DEF G
      <4> QED BY <3>1, <4>1, <4>3, <4>4
    <3>2. CASE k + 1 \notin s
      <4>1. s \in SUBSET (1..k)
        BY <2>6, <3>2
      <4>2. G[s] = g[s] /\ g[s] = IF s = {} THEN v ELSE f[Max(s)][g[s \ {Max(s)}]]
        BY <2>1, <3>2, <4>1 DEF FoldValues
      <4>3. CASE s = {}
        BY <4>2, <4>3
      <4>4. CASE s # {}
        <5> DEFINE r == s \ {Max(s)}
        <5>1. r \in SUBSET (1..(k + 1)) /\ k + 1 \notin r
          BY <2>2, <3>2
        <5>2. G[r] = g[r]
          BY <5>1
        <5> HIDE DEF G
        <5> QED BY <4>2, <4>4, <5>2
      <4> QED BY <4>3, <4>4
    <3> QED BY <3>1, <3>2
  <2>5. FoldValues(G, k + 1, v, f)
    <3> HIDE DEF G
    <3> QED BY <2>3 DEF FoldValues
  <2> HIDE DEF G
  <2> QED BY <2>2, <2>5, <2>7
<1> HIDE DEF T
<1>3. \A k \in 0..n : k \in T
  BY <1>1, <1>2, UpTo
<1>4. n \in T
  BY <1>3
<1> QED BY <1>4 DEF T

-----------------------------------------------------------------------------
(* The mode tracker *)

Bytes == {"x", "esc", "cr", "lf", "bs", "lead", "cont",
          "[", "?", ";", "~", "O", "h", "l", "1", "2", "3", "A", "B", "C", "D"}


Trackers == [state : {"normal", "esc", "csi", "csiQ", "csiQN"}, param : Seq(Bytes), DECCKM : BOOLEAN]

\* Every byte takes a tracker to a tracker.
LEMMA TrackByteType ==
  ASSUME NEW t \in Trackers, NEW b \in Bytes
  PROVE  TrackByte(t, b) \in Trackers
<1>1. t.param \in Seq(Bytes) /\ << >> \in Seq(Bytes) /\ Append(t.param, b) \in Seq(Bytes)
  BY AppendProperties, EmptySeq DEF Trackers
<1>2. \A st \in {"normal", "esc", "csi", "csiQ", "csiQN"} :
        Goto(t, st) \in Trackers /\ Restart(t, st) \in Trackers
  BY <1>1 DEF Trackers, Goto, Restart
<1>3. Digest(t, b) \in Trackers
  BY <1>1 DEF Trackers, Digest
<1>4. EndOfMode(t, b) \in Trackers
  <2>1. Restart(t, "normal") \in Trackers
    BY <1>2
  <2> QED BY <2>1 DEF EndOfMode, Trackers
<1>5. t.state \in {"normal", "esc", "csi", "csiQ", "csiQN"}
  BY DEF Trackers
<1>6. CASE t.state \in {"normal", "esc", "csi"}
  BY <1>2, <1>6 DEF TrackByte
<1>7. CASE t.state = "csiQ"
  BY <1>2, <1>3, <1>7 DEF TrackByte
<1>8. CASE t.state = "csiQN"
  BY <1>2, <1>3, <1>4, <1>8 DEF TrackByte
<1> QED BY <1>5, <1>6, <1>7, <1>8

\* process goes through one tracker after another.
LEMMA ProcessSteps ==
  ASSUME NEW t \in Trackers, NEW p \in Seq(Bytes)
  PROVE  \E h : /\ h[0] = t /\ process(t, p) = h[Len(p)]
                /\ \A k \in 0..Len(p) : h[k] \in Trackers
                /\ \A k \in 0..(Len(p) - 1) : h[k + 1] = TrackByte(h[k], p[k + 1])
<1> DEFINE n == Len(p)
           f == [i \in 1..n |-> [x \in Trackers |-> TrackByte(x, p[i])]]
           step(e, s) == IF s = {} THEN t ELSE TrackByte(e[s \ {Max(s)}], p[Max(s)])
           Table(e) == e = [s \in SUBSET (1..n) |-> step(e, s)]
           g == CHOOSE e : Table(e)
           h == [k \in 0..n |-> g[1..k]]
<1>1. n \in Nat /\ DOMAIN p = 1..n /\ \A i \in 1..n : p[i] \in Bytes
  BY ElementOfSeq
<1> HIDE DEF n
<1>2. \E e : Table(e)
  <2>1. f \in [1..n -> [Trackers -> Trackers]]
    BY <1>1, TrackByteType
  <2> HIDE DEF f
  <2>2. PICK e \in [SUBSET (1..n) -> Trackers] : FoldValues(e, n, t, f)
    BY <1>1, <2>1, FoldsExist
  <2>3. ASSUME NEW s \in SUBSET (1..n) PROVE e[s] = step(e, s)
    <3>1. e[s] = IF s = {} THEN t ELSE f[Max(s)][e[s \ {Max(s)}]]
      BY <2>2 DEF FoldValues
    <3>2. ASSUME s # {} PROVE Max(s) \in 1..n /\ e[s \ {Max(s)}] \in Trackers
      BY <1>1, <2>2, <3>2, MaxInside
    <3>3. s # {} => f[Max(s)][e[s \ {Max(s)}]] = TrackByte(e[s \ {Max(s)}], p[Max(s)])
      BY <3>2 DEF f
    <3> QED BY <3>1, <3>3
  <2>4. e = [s \in SUBSET (1..n) |-> e[s]]
    BY <2>2
  <2>5. Table(e)
    <3> HIDE DEF step
    <3> QED BY <2>3, <2>4
  <2> QED BY <2>5
<1>3. Table(g)
  BY <1>2
<1>4. process(t, p) = g[1..n]
  BY <1>1 DEF process, FoldLeft, MapThenFoldSet
<1> HIDE DEF g
<1>5. \A s \in SUBSET (1..n) : g[s] = step(g, s)
  <2> HIDE DEF step
  <2> QED BY <1>3
<1>6. h[0] = t
  <2>1. 1..0 = {} /\ {} \in SUBSET (1..n)
    OBVIOUS
  <2>2. g[{}] = t
    BY <1>5, <2>1
  <2> QED BY <1>1, <2>1, <2>2
<1>7. ASSUME NEW k \in 0..(n - 1) PROVE h[k + 1] = TrackByte(h[k], p[k + 1])
  <2> DEFINE s == 1..(k + 1)
  <2>1. k \in Nat /\ k + 1 <= n /\ k + 1 \in 0..n /\ k \in 0..n
    BY <1>1
  <2>2. s \in SUBSET (1..n) /\ k + 1 \in s /\ s # {} /\ s \subseteq 1..(k + 1)
    <3>1. \A i \in s : i \in 1..n
      BY <1>1, <2>1
    <3>2. k + 1 \in s
      BY <2>1
    <3> QED BY <3>1, <3>2
  <2>3. s \ {k + 1} = 1..k
    BY <2>1
  <2> HIDE DEF s
  <2>4. Max(s) = k + 1
    BY <2>1, <2>2, MaxIsLast
  <2>5. g[s] = TrackByte(g[1..k], p[k + 1])
    BY <1>5, <2>2, <2>3, <2>4
  <2> QED BY <2>1, <2>5 DEF s
<1> HIDE DEF h
<1>8. process(t, p) = h[n]
  BY <1>1, <1>4 DEF h
<1>9. \A k \in 0..n : h[k] \in Trackers
  <2> DEFINE T == {k \in 0..n : h[k] \in Trackers}
  <2>1. 0 \in T
    BY <1>1, <1>6
  <2>2. \A k \in 0..(n - 1) : k \in T => k + 1 \in T
    <3> SUFFICES ASSUME NEW k \in 0..(n - 1), h[k] \in Trackers PROVE k + 1 \in T
      OBVIOUS
    <3>1. k + 1 \in 0..n /\ k + 1 \in 1..n
      BY <1>1
    <3> QED BY <1>1, <1>7, <3>1, TrackByteType
  <2> HIDE DEF T
  <2>3. \A k \in 0..n : k \in T
    BY <1>1, <2>1, <2>2, UpTo
  <2> QED BY <2>3 DEF T
<1> QED BY <1>6, <1>7, <1>8, <1>9 DEF n

-----------------------------------------------------------------------------
(* The key decoder *)

Keys == Bytes \cup {"enter", "up", "delete", "unknown", "backspace", "rune"}

Decoders == [state : {"ground", "esc", "csi", "discard", "ss3"}, params : Seq(Bytes),
             utf : {<< >>, <<"lead">>, <<"lead", "cont">>}, lastCR : BOOLEAN]
Results == [dec : Decoders, keys : Seq(Keys)]

\* Every byte takes a decoder to a decoder: no more of a rune is kept than its
\* beginning.
LEMMA GroundType ==
  ASSUME NEW d \in Decoders, NEW ks \in Seq(Keys), NEW b \in Bytes
  PROVE  ground(d, ks, b) \in Results
<1>1. \A key \in Keys : Append(ks, key) \in Seq(Keys)
  BY AppendProperties
<1> DEFINE clear == [d EXCEPT !.lastCR = FALSE]
           u == Append(d.utf, b)
<1>2. clear \in Decoders /\ [d EXCEPT !.lastCR = TRUE] \in Decoders
  BY DEF Decoders
<1>3. ~FullRune(u) => [clear EXCEPT !.utf = u] \in Decoders
  BY <1>2 DEF FullRune, Decoders
<1>4. [clear EXCEPT !.utf = << >>] \in Decoders
  BY <1>2 DEF Decoders
<1>5. \A e \in Decoders, k \in Seq(Keys) : Result(e, k) \in Results
  BY DEF Result, Results
<1>6. PlainKey(b) \in Keys
  BY DEF PlainKey, Keys
<1>7. Append(ks, "rune") \in Seq(Keys) /\ Append(ks, "enter") \in Seq(Keys)
      /\ Append(ks, PlainKey(b)) \in Seq(Keys)
  BY <1>1, <1>6 DEF Keys
<1> HIDE DEF clear, u
<1>8. CASE d.utf # << >> \/ b \in {"lead", "cont"}
  <2>1. ground(d, ks, b) =
          IF ~FullRune(u) THEN Result([clear EXCEPT !.utf = u], ks)
          ELSE Result([clear EXCEPT !.utf = << >>],
                      IF u = <<"lead", "cont", "cont">> THEN Append(ks, "rune") ELSE ks)
    BY <1>8 DEF ground, clear, u
  <2> QED BY <2>1, <1>3, <1>4, <1>5, <1>7
<1>9. CASE d.utf = << >> /\ b \notin {"lead", "cont"}
  <2>1. ground(d, ks, b) =
          IF b = "cr" THEN Result([d EXCEPT !.lastCR = TRUE], Append(ks, "enter"))
          ELSE IF b = "lf" THEN Result(clear, IF d.lastCR THEN ks ELSE Append(ks, "enter"))
          ELSE Result(clear, Append(ks, PlainKey(b)))
    BY <1>9 DEF ground, clear
  <2> QED BY <2>1, <1>2, <1>5, <1>7
<1> QED BY <1>8, <1>9

LEMMA FeedByteType ==
  ASSUME NEW d \in Decoders, NEW ks \in Seq(Keys), NEW b \in Bytes, NEW last \in BOOLEAN
  PROVE  FeedByte(d, ks, b, last) \in Results
<1>1. \A key \in Keys : Append(ks, key) \in Seq(Keys)
  BY AppendProperties
<1>2. d.params \in Seq(Bytes) /\ Append(d.params, b) \in Seq(Bytes) /\ << >> \in Seq(Bytes)
  BY AppendProperties, EmptySeq DEF Decoders
<1>3. \A st \in {"ground", "esc", "csi", "discard", "ss3"} : [d EXCEPT !.state = st] \in Decoders
  BY DEF Decoders
<1>4. \A e \in Decoders, k \in Seq(Keys) : Result(e, k) \in Results
  BY DEF Result, Results
<1>5. ground(d, ks, b) \in Results
  BY GroundType
<1>6. CASE d.state = "esc"
  <2>1. [d EXCEPT !.state = "csi", !.params = << >>] \in Decoders
    BY <1>2 DEF Decoders
  <2>2. ground([d EXCEPT !.state = "ground"], Append(ks, "esc"), b) \in Results
    <3>1. [d EXCEPT !.state = "ground"] \in Decoders /\ Append(ks, "esc") \in Seq(Keys)
      BY <1>1, <1>3 DEF Keys, Bytes
    <3> QED BY <3>1, GroundType
  <2>3. AfterEsc(d, ks, b) \in Results
    <3>1. AfterEsc(d, ks, b) =
            IF b = "[" THEN Result([d EXCEPT !.state = "csi", !.params = << >>], ks)
            ELSE IF b = "O" THEN Result([d EXCEPT !.state = "ss3"], ks)
            ELSE ground([d EXCEPT !.state = "ground"], Append(ks, "esc"), b)
      BY DEF AfterEsc
    <3> QED BY <3>1, <1>3, <1>4, <2>1, <2>2
  <2> QED BY <1>6, <2>3 DEF FeedByte
<1>7. CASE d.state = "csi"
  <2>1. [d EXCEPT !.params = Append(@, b)] \in Decoders
    BY <1>2 DEF Decoders
  <2>2. csiKey(d.params, b) \in Keys
    BY DEF csiKey, Keys
  <2>3. Append(ks, csiKey(d.params, b)) \in Seq(Keys)
    BY <1>1, <2>2
  <2>4. InCsi(d, ks, b) \in Results
    BY <1>3, <1>4, <2>1, <2>3 DEF InCsi
  <2> QED BY <1>7, <2>4 DEF FeedByte
<1>8. CASE d.state = "discard"
  <2>1. Append(ks, "unknown") \in Seq(Keys)
    BY <1>1 DEF Keys
  <2>2. InDiscard(d, ks, b) \in Results
    BY <1>3, <1>4, <2>1 DEF InDiscard
  <2> QED BY <1>8, <2>2 DEF FeedByte
<1>9. CASE d.state = "ss3"
  <2>1. Append(ks, ss3Key(b)) \in Seq(Keys)
    BY <1>1 DEF ss3Key, Keys
  <2> QED BY <1>3, <1>4, <1>9, <2>1 DEF FeedByte
<1>10. CASE d.state = "ground"
  <2>1. InGround(d, ks, b, last) \in Results
    <3>1. Append(ks, "esc") \in Seq(Keys)
      BY <1>1 DEF Keys, Bytes
    <3> QED BY <1>3, <1>4, <1>5, <3>1 DEF InGround
  <2> QED BY <1>10, <2>1 DEF FeedByte
<1> QED BY <1>6, <1>7, <1>8, <1>9, <1>10 DEF Decoders

\* Feed goes through one result after another.
LEMMA FeedSteps ==
  ASSUME NEW d \in Decoders, NEW p \in Seq(Bytes)
  PROVE  \E h : /\ h[0] = Result(d, << >>) /\ Feed(d, p) = h[Len(p)]
                /\ \A k \in 0..Len(p) : h[k] \in Results
                /\ \A k \in 0..(Len(p) - 1) :
                     h[k + 1] = FeedByte(h[k].dec, h[k].keys, p[k + 1], k + 1 = Len(p))
<1> DEFINE n == Len(p)
           v == Result(d, << >>)
           ix == [i \in DOMAIN p |-> i]
           next(x, i) == FeedByte(x.dec, x.keys, p[i], i = n)
           f == [i \in 1..n |-> [x \in Results |-> next(x, i)]]
           step(e, s) == IF s = {} THEN v ELSE next(e[s \ {Max(s)}], ix[Max(s)])
           Table(e) == e = [s \in SUBSET (1..n) |-> step(e, s)]
           g == CHOOSE e : Table(e)
           h == [k \in 0..n |-> g[1..k]]
<1>1. /\ n \in Nat /\ DOMAIN p = 1..n /\ (\A i \in 1..n : p[i] \in Bytes)
      /\ DOMAIN ix = 1..n /\ (\A i \in 1..n : ix[i] = i)
  BY ElementOfSeq
<1>0. v \in Results
  BY EmptySeq DEF Result, Results
<1>2. \A x \in Results, i \in 1..n : next(x, i) \in Results
  BY <1>1, FeedByteType DEF Results
<1>4. Feed(d, p) = g[1..n]
  BY <1>1 DEF Feed, FoldLeft, MapThenFoldSet
<1> HIDE DEF n, next, v, ix
<1>3. \E e : Table(e)
  <2>1. f \in [1..n -> [Results -> Results]]
    BY <1>2
  <2> HIDE DEF f
  <2>2. PICK e \in [SUBSET (1..n) -> Results] : FoldValues(e, n, v, f)
    BY <1>0, <1>1, <2>1, FoldsExist
  <2>3. ASSUME NEW s \in SUBSET (1..n) PROVE e[s] = step(e, s)
    <3>1. e[s] = IF s = {} THEN v ELSE f[Max(s)][e[s \ {Max(s)}]]
      BY <2>2 DEF FoldValues
    <3>2. ASSUME s # {} PROVE Max(s) \in 1..n /\ e[s \ {Max(s)}] \in Results
      BY <1>1, <2>2, <3>2, MaxInside
    <3>3. s # {} => f[Max(s)][e[s \ {Max(s)}]] = next(e[s \ {Max(s)}], ix[Max(s)])
      BY <1>1, <3>2 DEF f
    <3> QED BY <3>1, <3>3
  <2>4. e = [s \in SUBSET (1..n) |-> e[s]]
    BY <2>2
  <2>5. Table(e)
    <3> HIDE DEF step
    <3> QED BY <2>3, <2>4
  <2> QED BY <2>5
<1>5. Table(g)
  BY <1>3
<1> HIDE DEF g
<1>6. \A s \in SUBSET (1..n) : g[s] = step(g, s)
  <2> HIDE DEF step
  <2> QED BY <1>5
<1>7. h[0] = v
  <2>1. 1..0 = {} /\ {} \in SUBSET (1..n)
    OBVIOUS
  <2>2. g[{}] = v
    BY <1>6, <2>1
  <2> QED BY <1>1, <2>1, <2>2
<1>8. ASSUME NEW k \in 0..(n - 1) PROVE h[k + 1] = next(h[k], k + 1)
  <2> DEFINE s == 1..(k + 1)
  <2>1. k \in Nat /\ k + 1 <= n /\ k + 1 \in 0..n /\ k \in 0..n /\ k + 1 \in 1..n
    BY <1>1
  <2>2. s \in SUBSET (1..n) /\ k + 1 \in s /\ s # {} /\ s \subseteq 1..(k + 1)
    <3>1. \A i \in s : i \in 1..n
      BY <1>1, <2>1
    <3>2. k + 1 \in s
      BY <2>1
    <3> QED BY <3>1, <3>2
  <2>3. s \ {k + 1} = 1..k
    BY <2>1
  <2> HIDE DEF s
  <2>4. Max(s) = k + 1
    BY <2>1, <2>2, MaxIsLast
  <2>5. g[s] = next(g[1..k], k + 1)
    BY <1>1, <1>6, <2>1, <2>2, <2>3, <2>4
  <2> QED BY <2>1, <2>5 DEF s
<1> HIDE DEF h
<1>9. Feed(d, p) = h[n]
  BY <1>1, <1>4 DEF h
<1>10. \A k \in 0..n : h[k] \in Results
  <2> DEFINE T == {k \in 0..n : h[k] \in Results}
  <2>1. 0 \in T
    BY <1>0, <1>1, <1>7
  <2>2. \A k \in 0..(n - 1) : k \in T => k + 1 \in T
    <3> SUFFICES ASSUME NEW k \in 0..(n - 1), h[k] \in Results PROVE k + 1 \in T
      OBVIOUS
    <3>1. k + 1 \in 0..n /\ k + 1 \in 1..n
      BY <1>1
    <3> QED BY <1>2, <1>8, <3>1
  <2> HIDE DEF T
  <2>3. \A k \in 0..n : k \in T
    BY <1>1, <2>1, <2>2, UpTo
  <2> QED BY <2>3 DEF T
<1> QED BY <1>7, <1>8, <1>9, <1>10 DEF n, v, next

\* A letter ends every escape sequence, then every rune, and is then itself.
LEMMA LetterEndsSequence ==
  ASSUME NEW d \in Decoders, NEW ks, NEW last
  PROVE  FeedByte(d, ks, "x", last).dec.state = "ground"
<1>1. \A e \in Decoders : \A k : ground(e, k, "x").dec.state = e.state
  BY DEF ground, Result, Decoders
<1>2. [d EXCEPT !.state = "ground"] \in Decoders /\ FinalByte("x")
  BY DEF Decoders, FinalByte
<1>3. CASE d.state = "esc"
  <2>1. AfterEsc(d, ks, "x").dec.state = "ground"
    BY <1>1, <1>2 DEF AfterEsc, Decoders
  <2> QED BY <1>3, <2>1 DEF FeedByte
<1>4. CASE d.state \in {"csi", "discard", "ss3"}
  BY <1>2, <1>4 DEF FeedByte, InCsi, InDiscard, Result, Decoders
<1>5. CASE d.state = "ground"
  <2>1. InGround(d, ks, "x", last).dec.state = "ground"
    BY <1>1, <1>5 DEF InGround
  <2> QED BY <1>5, <2>1 DEF FeedByte
<1> QED BY <1>3, <1>4, <1>5 DEF Decoders

LEMMA LetterEndsRune ==
  ASSUME NEW d \in Decoders, d.state = "ground", NEW ks, NEW last
  PROVE  /\ FeedByte(d, ks, "x", last).dec.state = "ground"
         /\ FeedByte(d, ks, "x", last).dec.utf = << >>
         /\ FeedByte(d, ks, "x", last).dec.lastCR = FALSE
<1>1. FeedByte(d, ks, "x", last) = ground(d, ks, "x")
  BY DEF FeedByte, InGround
<1>2. FullRune(Append(d.utf, "x"))
  <2>1. Append(d.utf, "x")[Len(d.utf) + 1] = "x" /\ Len(Append(d.utf, "x")) = Len(d.utf) + 1
    BY DEF Decoders
  <2>2. d.utf \in {<< >>, <<"lead">>, <<"lead", "cont">>}
    BY DEF Decoders
  <2>3. Append(d.utf, "x") # <<"lead">>
    <3> SUFFICES ASSUME Append(d.utf, "x") = <<"lead">> PROVE FALSE
      OBVIOUS
    <3>1. Len(d.utf) + 1 = 1 /\ <<"lead">>[Len(d.utf) + 1] = "x"
      BY <2>1
    <3> QED BY <3>1
  <2>4. Append(d.utf, "x") # <<"lead", "cont">>
    <3> SUFFICES ASSUME Append(d.utf, "x") = <<"lead", "cont">> PROVE FALSE
      OBVIOUS
    <3>1. Len(d.utf) + 1 = 2 /\ <<"lead", "cont">>[Len(d.utf) + 1] = "x"
      BY <2>1
    <3> QED BY <3>1
  <2> QED BY <2>3, <2>4 DEF FullRune
<1>3. CASE d.utf # << >>
  <2> DEFINE clear == [d EXCEPT !.lastCR = FALSE]
             u == Append(d.utf, "x")
             e == [clear EXCEPT !.utf = << >>]
  <2>1. ground(d, ks, "x") =
          IF ~FullRune(u) THEN Result([clear EXCEPT !.utf = u], ks)
          ELSE Result(e, IF u = <<"lead", "cont", "cont">> THEN Append(ks, "rune") ELSE ks)
    BY <1>3 DEF ground
  <2>2. ground(d, ks, "x").dec = e
    BY <1>2, <2>1 DEF Result
  <2>3. e.state = "ground" /\ e.utf = << >> /\ e.lastCR = FALSE
    BY DEF Decoders
  <2> HIDE DEF e
  <2> QED BY <1>1, <2>2, <2>3
<1>4. CASE d.utf = << >>
  <2>1. ground(d, ks, "x") = Result([d EXCEPT !.lastCR = FALSE], Append(ks, PlainKey("x")))
    BY <1>4 DEF ground
  <2> QED BY <1>1, <1>4, <2>1 DEF Result, Decoders
<1> QED BY <1>3, <1>4

LEMMA LetterIsRead ==
  ASSUME NEW d \in Decoders, d.state = "ground", d.utf = << >>, NEW ks, NEW last
  PROVE  FeedByte(d, ks, "x", last).keys = Append(ks, "x")
BY DEF FeedByte, InGround, ground, Result, PlainKey, Decoders

\* Three letters bring every decoder back.
LEMMA ThreeLetters ==
  ASSUME dec \in Decoders
  PROVE  DecoderResyncs
<1> DEFINE p == <<"x", "x", "x">>
           no == FALSE
           yes == TRUE
<1>1. p \in Seq(Bytes) /\ Len(p) = 3 /\ p[1] = "x" /\ p[2] = "x" /\ p[3] = "x"
  BY DEF Bytes
<1> HIDE DEF p
<1>2. PICK h : /\ h[0] = Result(dec, << >>) /\ Feed(dec, p) = h[Len(p)]
               /\ \A k \in 0..Len(p) : h[k] \in Results
               /\ \A k \in 0..(Len(p) - 1) :
                    h[k + 1] = FeedByte(h[k].dec, h[k].keys, p[k + 1], k + 1 = Len(p))
  BY <1>1, FeedSteps
<1>3. /\ h[0].dec \in Decoders /\ h[1].dec \in Decoders /\ h[2].dec \in Decoders
      /\ h[2].keys \in Seq(Keys)
  BY <1>1, <1>2 DEF Results
<1>4. /\ h[1] = FeedByte(h[0].dec, h[0].keys, "x", no)
      /\ h[2] = FeedByte(h[1].dec, h[1].keys, "x", no)
      /\ h[3] = FeedByte(h[2].dec, h[2].keys, "x", yes)
  <2>1. 0 \in 0..(3 - 1) /\ 1 \in 0..(3 - 1) /\ 2 \in 0..(3 - 1)
    OBVIOUS
  <2>2. h[0 + 1] = FeedByte(h[0].dec, h[0].keys, p[0 + 1], 0 + 1 = 3)
    BY <1>1, <1>2, <2>1
  <2>3. h[1 + 1] = FeedByte(h[1].dec, h[1].keys, p[1 + 1], 1 + 1 = 3)
    BY <1>1, <1>2, <2>1
  <2>4. h[2 + 1] = FeedByte(h[2].dec, h[2].keys, p[2 + 1], 2 + 1 = 3)
    BY <1>1, <1>2, <2>1
  <2>5. (0 + 1 = 3) = FALSE /\ (1 + 1 = 3) = FALSE /\ (2 + 1 = 3) = TRUE
        /\ 0 + 1 = 1 /\ 1 + 1 = 2 /\ 2 + 1 = 3
    OBVIOUS
  <2> QED BY <1>1, <2>2, <2>3, <2>4, <2>5
<1> HIDE DEF no, yes
<1>5. h[1].dec.state = "ground"
  BY <1>3, <1>4, LetterEndsSequence
<1>6. h[2].dec.state = "ground" /\ h[2].dec.utf = << >>
  <2> DEFINE d == h[1].dec
             ks == h[1].keys
  <2>1. d \in Decoders /\ d.state = "ground" /\ h[2] = FeedByte(d, ks, "x", no)
    BY <1>3, <1>4, <1>5
  <2> HIDE DEF d, ks
  <2> QED BY <2>1, LetterEndsRune
<1>7. h[3].dec.state = "ground" /\ h[3].dec.utf = << >> /\ ~h[3].dec.lastCR
  <2> DEFINE d == h[2].dec
             ks == h[2].keys
  <2>1. d \in Decoders /\ d.state = "ground" /\ h[3] = FeedByte(d, ks, "x", yes)
    BY <1>3, <1>4, <1>6
  <2> HIDE DEF d, ks
  <2> QED BY <2>1, LetterEndsRune
<1>8. h[3].keys = Append(h[2].keys, "x")
  <2> DEFINE d == h[2].dec
             ks == h[2].keys
  <2>1. d \in Decoders /\ d.state = "ground" /\ d.utf = << >> /\ h[3] = FeedByte(d, ks, "x", yes)
    BY <1>3, <1>4, <1>6
  <2>2. h[3].keys = Append(ks, "x")
    <3> HIDE DEF d, ks
    <3> QED BY <2>1, LetterIsRead
  <2> QED BY <2>2
<1>9. Last(h[3].keys) = "x"
  <2>1. "x" \in Keys
    BY DEF Keys, Bytes
  <2> QED BY <1>3, <1>8, <2>1, AppendProperties DEF Last
<1>10. Feed(dec, p) = h[3]
  BY <1>1, <1>2
<1> QED BY <1>7, <1>9, <1>10 DEF DecoderResyncs, p

-----------------------------------------------------------------------------
(* Flattening, one part after another *)

\* FlattenSeq goes through the beginnings.
LEMMA FlattenSteps ==
  ASSUME NEW V, NEW q \in Seq(Seq(V)), q # << >>
  PROVE  \E h : /\ h[1] = q[1] /\ FlattenSeq(q) = h[Len(q)]
                /\ \A i \in 1..(Len(q) - 1) : h[i + 1] = h[i] \o q[i + 1]
<1> DEFINE n == Len(q)
           step(e, i) == IF i = 1 THEN q[i] ELSE e[i - 1] \o q[i]
           Table(e, k) == e = [i \in 1..k |-> step(e, i)]
           g == CHOOSE e : Table(e, n)
           T == {k \in Nat : \E e : Table(e, k)}
<1>1. n \in Nat /\ n >= 1 /\ n # 0
  BY EmptySeq
<1>2. FlattenSeq(q) = g[n]
  BY <1>1 DEF FlattenSeq
<1> HIDE DEF n
<1>3. 0 \in T
  <2> DEFINE e == [i \in 1..0 |-> q]
  <2>1. Table(e, 0)
    OBVIOUS
  <2> QED BY <2>1
<1>4. ASSUME NEW k \in 0..(n - 1), k \in T PROVE k + 1 \in T
  <2>1. PICK e : Table(e, k)
    BY <1>4
  <2>2. k \in Nat
    OBVIOUS
  <2> DEFINE E == [i \in 1..(k + 1) |-> IF i = k + 1 THEN step(e, i) ELSE e[i]]
  <2>3. ASSUME NEW i \in 1..(k + 1) PROVE E[i] = step(E, i)
    <3>1. CASE i = k + 1
      <4>1. E[i] = step(e, i)
        BY <3>1
      <4>2. i # 1 => i - 1 \in 1..(k + 1) /\ i - 1 # k + 1
        BY <2>2, <3>1
      <4>3. i # 1 => E[i - 1] = e[i - 1]
        BY <4>2
      <4> HIDE DEF E
      <4> QED BY <4>1, <4>3
    <3>2. CASE i # k + 1
      <4>1. i \in 1..k
        BY <2>2, <3>2
      <4>2. E[i] = e[i] /\ e[i] = step(e, i)
        <5>1. e[i] = step(e, i)
          <6> HIDE DEF step
          <6> QED BY <2>1, <4>1
        <5> QED BY <3>2, <5>1
      <4>3. i # 1 => i - 1 \in 1..(k + 1) /\ i - 1 # k + 1
        BY <2>2, <4>1
      <4>4. i # 1 => E[i - 1] = e[i - 1]
        BY <4>3
      <4> HIDE DEF E
      <4> QED BY <4>2, <4>4
    <3> QED BY <3>1, <3>2
  <2>4. E = [i \in 1..(k + 1) |-> E[i]]
    OBVIOUS
  <2>5. Table(E, k + 1)
    <3> HIDE DEF E, step
    <3> QED BY <2>3, <2>4
  <2> HIDE DEF E, Table
  <2> QED BY <2>2, <2>5
<1>5. \A k \in 0..n : k \in T
  <2> HIDE DEF T
  <2> QED BY <1>1, <1>3, <1>4, UpTo
<1>6. Table(g, n)
  <2>0. n \in 0..n
    BY <1>1
  <2>1. n \in T
    <3> HIDE DEF T
    <3> QED BY <1>5, <2>0
  <2>2. \E e : Table(e, n)
    BY <2>1
  <2> HIDE DEF Table
  <2> QED BY <2>2
<1> HIDE DEF g, T
<1>7. \A i \in 1..n : g[i] = step(g, i)
  <2> HIDE DEF step
  <2> QED BY <1>6
<1>8. g[1] = q[1]
  BY <1>1, <1>7
<1>9. ASSUME NEW i \in 1..(n - 1) PROVE g[i + 1] = g[i] \o q[i + 1]
  <2> DEFINE j == i + 1
  <2>1. j \in 1..n /\ j # 1 /\ j - 1 = i
    BY <1>1
  <2> HIDE DEF j
  <2>2. g[j] = g[j - 1] \o q[j]
    BY <1>7, <2>1
  <2>3. g[j] = g[i] \o q[j]
    BY <2>1, <2>2
  <2> QED BY <2>3 DEF j
<1> QED BY <1>2, <1>8, <1>9 DEF n

\* What is flattened part by part is a sequence.
LEMMA FlattenType ==
  ASSUME NEW V, NEW q \in Seq(Seq(V))
  PROVE  FlattenSeq(q) \in Seq(V)
<1>1. CASE q = << >>
  BY <1>1, EmptySeq DEF FlattenSeq
<1>2. CASE q # << >>
  <2> DEFINE n == Len(q)
  <2>1. PICK h : /\ h[1] = q[1] /\ FlattenSeq(q) = h[n]
                 /\ \A i \in 1..(n - 1) : h[i + 1] = h[i] \o q[i + 1]
    BY <1>2, FlattenSteps
  <2>2. n \in Nat /\ n >= 1 /\ \A i \in 1..n : q[i] \in Seq(V)
    BY <1>2, EmptySeq, ElementOfSeq
  <2> HIDE DEF n
  <2> DEFINE T == {k \in Nat : h[k + 1] \in Seq(V)}
  <2>3. 0 \in T
    BY <2>1, <2>2
  <2>4. \A k \in 0..(n - 1 - 1) : k \in T => k + 1 \in T
    <3> SUFFICES ASSUME NEW k \in 0..(n - 1 - 1), h[k + 1] \in Seq(V) PROVE k + 1 \in T
      OBVIOUS
    <3>1. k + 1 \in 1..(n - 1) /\ k + 1 + 1 \in 1..n /\ k + 1 \in Nat
      BY <2>2
    <3>2. h[k + 1 + 1] = h[k + 1] \o q[k + 1 + 1] /\ q[k + 1 + 1] \in Seq(V)
      BY <2>1, <2>2, <3>1
    <3>3. h[k + 1 + 1] \in Seq(V)
      BY <3>2, ConcatProperties
    <3> QED BY <3>1, <3>3
  <2> HIDE DEF T
  <2>5. n - 1 \in Nat /\ n - 1 \in 0..(n - 1)
    BY <2>2
  <2>6. \A k \in 0..(n - 1) : k \in T
    BY <2>3, <2>4, <2>5, UpTo
  <2>7. n - 1 \in T
    BY <2>5, <2>6
  <2>8. h[n] \in Seq(V)
    <3>1. n - 1 + 1 = n
      BY <2>2
    <3> QED BY <2>7, <3>1 DEF T
  <2> QED BY <2>1, <2>8
<1> QED BY <1>1, <1>2

\* One part more.
LEMMA FlattenAppend ==
  ASSUME NEW V, NEW q \in Seq(Seq(V)), NEW x \in Seq(V)
  PROVE  FlattenSeq(Append(q, x)) = FlattenSeq(q) \o x
<1> DEFINE r == Append(q, x)
           n == Len(q)
<1>1. /\ r \in Seq(Seq(V)) /\ Len(r) = n + 1 /\ n \in Nat /\ r[n + 1] = x
      /\ r # << >> /\ \A i \in 1..n : r[i] = q[i]
  BY AppendProperties
<1>2. PICK h : /\ h[1] = r[1] /\ FlattenSeq(r) = h[n + 1]
               /\ \A i \in 1..(n + 1 - 1) : h[i + 1] = h[i] \o r[i + 1]
  <2> HIDE DEF r, n
  <2>1. PICK h : /\ h[1] = r[1] /\ FlattenSeq(r) = h[Len(r)]
                 /\ \A i \in 1..(Len(r) - 1) : h[i + 1] = h[i] \o r[i + 1]
    BY <1>1, FlattenSteps
  <2>2. FlattenSeq(r) = h[n + 1] /\ Len(r) - 1 = n + 1 - 1
    BY <1>1, <2>1
  <2>3. \A i \in 1..(n + 1 - 1) : h[i + 1] = h[i] \o r[i + 1]
    BY <2>1, <2>2
  <2> QED BY <2>1, <2>2, <2>3
<1> HIDE DEF r
<1>3. CASE q = << >>
  <2>1. n = 0
    BY <1>3, EmptySeq
  <2>2. FlattenSeq(r) = x
    <3> HIDE DEF n
    <3> QED BY <1>1, <1>2, <2>1
  <2>3. FlattenSeq(q) = << >>
    BY <1>3 DEF FlattenSeq
  <2> QED BY <2>2, <2>3, ConcatEmptySeq DEF r
<1>4. CASE q # << >>
  <2>1. PICK e : /\ e[1] = q[1] /\ FlattenSeq(q) = e[n]
                 /\ \A i \in 1..(n - 1) : e[i + 1] = e[i] \o q[i + 1]
    BY <1>4, FlattenSteps
  <2>2. n >= 1
    BY <1>4, EmptySeq
  <2> HIDE DEF n
  <2> DEFINE T == {k \in Nat : h[k + 1] = e[k + 1]}
  <2>3. 0 \in T
    BY <1>1, <1>2, <2>1, <2>2
  <2>4. \A k \in 0..(n - 1 - 1) : k \in T => k + 1 \in T
    <3> SUFFICES ASSUME NEW k \in 0..(n - 1 - 1), h[k + 1] = e[k + 1] PROVE k + 1 \in T
      OBVIOUS
    <3>1. /\ k + 1 \in 1..(n - 1) /\ k + 1 + 1 \in 1..n /\ k + 1 \in Nat
          /\ k + 1 \in 1..(n + 1 - 1)
      BY <1>1, <2>2
    <3>2. h[k + 1 + 1] = h[k + 1] \o r[k + 1 + 1] /\ e[k + 1 + 1] = e[k + 1] \o q[k + 1 + 1]
          /\ r[k + 1 + 1] = q[k + 1 + 1]
      BY <1>1, <1>2, <2>1, <3>1
    <3> QED BY <3>1, <3>2
  <2> HIDE DEF T
  <2>5. n - 1 \in Nat /\ n - 1 \in 0..(n - 1) /\ n - 1 + 1 = n
    BY <1>1, <2>2
  <2>6. \A k \in 0..(n - 1) : k \in T
    BY <2>3, <2>4, <2>5, UpTo
  <2>7. h[n - 1 + 1] = e[n - 1 + 1]
    BY <2>5, <2>6 DEF T
  <2>8. h[n + 1] = h[n] \o x
    <3>1. n \in 1..(n + 1 - 1)
      BY <1>1, <2>2
    <3> QED BY <1>1, <1>2, <3>1
  <2>9. FlattenSeq(r) = FlattenSeq(q) \o x
    BY <1>2, <2>1, <2>5, <2>7, <2>8
  <2> QED BY <2>9 DEF r
<1> QED BY <1>3, <1>4

-----------------------------------------------------------------------------
(* Keys *)

LEMMA StrokeBytes ==
  ASSUME NEW st \in Strokes
  PROVE  st.bytes \in Seq(Bytes)
<1> DEFINE Good(x) == x.bytes \in Seq(Bytes)
<1>1. Good(Enter) /\ Good(LineFeed) /\ Good(Escape)
  BY DEF Enter, LineFeed, Escape, Stroke, Bytes
<1>2. Good(Alt) /\ Good(Stroke(<<"x">>, <<"x">>)) /\ Good(Stroke(<<"bs">>, <<"backspace">>))
  BY DEF Alt, Stroke, Bytes
<1>3. Good(Stroke(<<"lead", "cont", "cont">>, <<"rune">>))
  BY DEF Stroke, Bytes
<1>4. Good(Stroke(<<"esc", "[", "A">>, <<"up">>)) /\ Good(Stroke(<<"esc", "O", "A">>, <<"up">>))
  BY DEF Stroke, Bytes
<1>5. Good(Stroke(<<"esc", "[", "3", "~">>, <<"delete">>))
  BY DEF Stroke, Bytes
<1>6. Good(Stroke(<<"esc", "[", "3", "3", "3", "3", "~">>, <<"unknown">>))
  BY DEF Stroke, Bytes
<1> HIDE DEF Good
<1>7. Good(st)
  BY <1>1, <1>2, <1>3, <1>4, <1>5, <1>6 DEF Strokes, Special
<1> QED BY <1>7 DEF Good

LEMMA InputType ==
  ASSUME typed \in Seq(Strokes)
  PROVE  Input \in Seq(Bytes)
<1> DEFINE q == [i \in DOMAIN typed |-> typed[i].bytes]
<1>1. DOMAIN typed = 1..Len(typed) /\ Len(typed) \in Nat
      /\ \A i \in 1..Len(typed) : typed[i] \in Strokes
  BY ElementOfSeq
<1>2. \A i \in 1..Len(typed) : typed[i].bytes \in Seq(Bytes)
  BY <1>1, StrokeBytes
<1>3. q \in Seq(Seq(Bytes))
  <2>1. q \in [1..Len(typed) -> Seq(Bytes)]
    BY <1>1, <1>2
  <2> HIDE DEF q
  <2> QED BY <1>1, <2>1, SeqDef
<1> HIDE DEF q
<1>4. FlattenSeq(q) \in Seq(Bytes)
  BY <1>3, FlattenType
<1> QED BY <1>4 DEF Input, BytesOf, q

KeyInv == typed \in Seq(Strokes) /\ fed \in 0..Len(Input) /\ dec \in Decoders

LEMMA KeyInvInit == TermInit => KeyInv
<1> SUFFICES ASSUME TermInit PROVE KeyInv
  OBVIOUS
<1>1. typed \in SeqOf(Strokes, MaxTyped) \/ typed = << >>
  BY DEF TermInit
<1>2. typed \in Seq(Strokes)
  <2>1. ASSUME typed \in SeqOf(Strokes, MaxTyped) PROVE typed \in Seq(Strokes)
    <3>1. PICK m \in 0..MaxTyped : typed \in [1..m -> Strokes]
      BY <2>1 DEF SeqOf
    <3>2. m \in Nat
      BY TerminalAssumption
    <3> QED BY <3>1, <3>2, SeqDef
  <2> QED BY <1>1, <2>1, EmptySeq
<1>3. fed \in 0..Len(Input)
  <2>1. Input \in Seq(Bytes)
    BY <1>2, InputType
  <2>2. Len(Input) \in Nat
    BY <2>1, LenProperties
  <2> QED BY <2>2 DEF TermInit
<1>4. dec \in Decoders
  BY EmptySeq DEF TermInit, NewDecoder, Decoders
<1> QED BY <1>2, <1>3, <1>4 DEF KeyInv

LEMMA KeyInvNext ==
  ASSUME KeyInv, [TermNext]_termVars
  PROVE  KeyInv'
<1>1. CASE UNCHANGED <<typed, fed, dec>>
  BY <1>1 DEF KeyInv, Input, BytesOf
<1>2. ASSUME NEW n \in 1..(Len(Input) - fed), KeyWrite(n) PROVE KeyInv'
  <2> DEFINE cut == IF n <= MaxInput THEN n ELSE MaxInput
             p == SubSeq(Input, fed + 1, fed + cut)
  <2>1. Input \in Seq(Bytes) /\ Len(Input) \in Nat /\ fed \in Nat /\ n \in Nat /\ MaxInput \in Nat
        /\ fed + n <= Len(Input)
    BY InputType, TerminalAssumption DEF KeyInv
  <2>2. cut \in Nat /\ fed + cut <= Len(Input)
    BY <2>1
  <2> HIDE DEF cut
  <2>3. p \in Seq(Bytes)
    <3>1. \A i \in (fed + 1)..(fed + cut) : Input[i] \in Bytes
      BY <2>1, <2>2, ElementOfSeq
    <3> QED BY <2>1, <2>2, <3>1, SubSeqProperties
  <2> HIDE DEF p
  <2>4. Feed(dec, p).dec \in Decoders
    <3>1. PICK h : Feed(dec, p) = h[Len(p)] /\ \A k \in 0..Len(p) : h[k] \in Results
      BY <2>3, FeedSteps DEF KeyInv
    <3>2. Len(p) \in 0..Len(p)
      BY <2>3
    <3> QED BY <3>1, <3>2 DEF Results
  <2>5. dec' = Feed(dec, p).dec /\ typed' = typed /\ fed' = fed + n
    BY <1>2 DEF KeyWrite, cut, p
  <2>6. Input' = Input /\ fed' \in 0..Len(Input)
    BY <2>1, <2>5 DEF Input, BytesOf
  <2> QED BY <2>4, <2>5, <2>6 DEF KeyInv
<1>3. CASE \E data \in Reads : PtyRead(data)
  BY <1>1, <1>3 DEF PtyRead, inVars
<1>4. CASE RingWrite
  BY <1>1, <1>4 DEF RingWrite, inVars
<1>5. CASE (\E p \in Texts : TtyWrite(p)) \/ (\E p \in Frames : Frame(p)) \/ ClearScreen
  BY <1>1, <1>5 DEF TtyWrite, Frame, ClearScreen, TtyEmits, inVars
<1>6. CASE UNCHANGED termVars
  BY <1>1, <1>6 DEF termVars, inVars
<1> QED BY <1>2, <1>3, <1>4, <1>5, <1>6 DEF TermNext

\* Whatever was typed, cut off or torn apart, three letters bring the decoder
\* back (Decoder, stCSIDiscard, ground).
THEOREM DecoderAlwaysResyncs == TermSpec => []DecoderResyncs
<1>1. KeyInv => DecoderResyncs
  BY ThreeLetters DEF KeyInv
<1>2. KeyInv /\ [TermNext]_termVars => KeyInv'
  BY KeyInvNext
<1> QED BY <1>1, <1>2, KeyInvInit, PTL DEF TermSpec

-----------------------------------------------------------------------------
(* Lines *)

\* All but the last byte of a text, without the CRs that stand before an LF.
Parts(text) ==
  [i \in 1..(Len(text) - 1) |->
     IF text[i] = "cr" /\ text[i + 1] = "lf" THEN << >> ELSE <<text[i]>>]
Core(text) == FlattenSeq(Parts(text))

LEMMA PartsType ==
  ASSUME NEW text \in Seq(Bytes), text # << >>
  PROVE  Parts(text) \in Seq(Seq(Bytes)) /\ Len(Parts(text)) = Len(text) - 1
<1>1. Len(text) \in Nat /\ Len(text) >= 1 /\ Len(text) - 1 \in Nat
      /\ \A i \in 1..Len(text) : text[i] \in Bytes
  BY EmptySeq, ElementOfSeq
<1>2. \A i \in 1..(Len(text) - 1) : <<text[i]>> \in Seq(Bytes) /\ << >> \in Seq(Bytes)
  BY <1>1
<1>3. Parts(text) \in [1..(Len(text) - 1) -> Seq(Bytes)]
  BY <1>2 DEF Parts
<1> QED BY <1>1, <1>3, SeqDef, LenProperties

\* The last byte of a text always stays.
LEMMA LastStays ==
  ASSUME NEW text \in Seq(Bytes), text # << >>
  PROVE  WithoutReturns(text) = Core(text) \o <<Last(text)>>
<1> DEFINE n == Len(text)
           q == [i \in DOMAIN text |->
                   IF text[i] = "cr" /\ i < n /\ text[i + 1] = "lf" THEN << >> ELSE <<text[i]>>]
           a == Parts(text)
           x == <<text[n]>>
<1>1. n \in Nat /\ n >= 1 /\ DOMAIN text = 1..n /\ n \in 1..n /\ \A i \in 1..n : text[i] \in Bytes
  BY EmptySeq, ElementOfSeq
<1>2. a \in Seq(Seq(Bytes)) /\ Len(a) = n - 1 /\ x \in Seq(Bytes)
  <2>1. a \in Seq(Seq(Bytes)) /\ Len(a) = n - 1
    BY PartsType
  <2>2. text[n] \in Bytes
    BY <1>1
  <2>3. x \in Seq(Bytes)
    BY <2>2
  <2> QED BY <2>1, <2>3
<1>3. Append(a, x) \in Seq(Seq(Bytes)) /\ Len(Append(a, x)) = n /\ Append(a, x)[n] = x
      /\ \A i \in 1..(n - 1) : Append(a, x)[i] = a[i]
  <2> HIDE DEF a, x, n
  <2>1. Len(a) + 1 = n
    BY <1>1, <1>2
  <2> QED BY <1>2, <2>1, AppendProperties
<1>4. q \in [1..n -> Seq(Bytes)] /\ q[n] = x
  <2>1. \A i \in 1..n : <<text[i]>> \in Seq(Bytes) /\ << >> \in Seq(Bytes)
    BY <1>1
  <2>2. q \in [1..n -> Seq(Bytes)]
    BY <1>1, <2>1
  <2>3. q[n] = x
    BY <1>1
  <2> QED BY <2>2, <2>3
<1>5. \A i \in 1..(n - 1) : q[i] = a[i]
  BY <1>1 DEF Parts
<1>6. q = Append(a, x)
  <2> HIDE DEF q, a, x, n
  <2>1. q \in Seq(Seq(Bytes)) /\ Len(q) = n
    BY <1>1, <1>4, SeqDef, LenProperties
  <2>2. \A i \in 1..n : q[i] = Append(a, x)[i]
    <3> SUFFICES ASSUME NEW i \in 1..n PROVE q[i] = Append(a, x)[i]
      OBVIOUS
    <3>1. i = n \/ i \in 1..(n - 1)
      BY <1>1
    <3> QED BY <1>3, <1>4, <1>5, <3>1
  <2> QED BY <1>3, <2>1, <2>2, SeqEqual
<1>7. FlattenSeq(Append(a, x)) = FlattenSeq(a) \o x
  <2> HIDE DEF a, x
  <2> QED BY <1>2, FlattenAppend
<1>8. WithoutReturns(text) = FlattenSeq(q)
  BY DEF WithoutReturns
<1> HIDE DEF q
<1> QED BY <1>6, <1>7, <1>8 DEF Core, Last

\* A byte more: the last one stays, unless the two are CR LF.
LEMMA CoreAppend ==
  ASSUME NEW text \in Seq(Bytes), NEW b \in Bytes
  PROVE  /\ text = << >> => Core(Append(text, b)) = << >>
         /\ text # << >> => Core(Append(text, b))
              = Core(text) \o (IF Last(text) = "cr" /\ b = "lf" THEN << >> ELSE <<Last(text)>>)
<1> DEFINE n == Len(text)
           t == Append(text, b)
<1>1. /\ t \in Seq(Bytes) /\ Len(t) = n + 1 /\ n \in Nat /\ t[n + 1] = b /\ t # << >>
      /\ \A i \in 1..n : t[i] = text[i] /\ text[i] \in Bytes
  BY AppendProperties, ElementOfSeq
<1> HIDE DEF t
<1>2. CASE text = << >>
  <2>1. n = 0
    BY <1>2, EmptySeq
  <2>2. Parts(t) \in Seq(Seq(Bytes)) /\ Len(Parts(t)) = 0
    <3>1. Parts(t) \in Seq(Seq(Bytes)) /\ Len(Parts(t)) = Len(t) - 1
      BY <1>1, PartsType
    <3>2. Len(t) - 1 = 0
      BY <1>1, <2>1
    <3> QED BY <3>1, <3>2
  <2>3. Parts(t) = << >>
    BY <2>2, EmptySeq
  <2>4. Core(t) = << >>
    BY <2>3, EmptySeq DEF Core, FlattenSeq
  <2> QED BY <1>2, <2>4 DEF t
<1>3. CASE text # << >>
  <2> DEFINE a == Parts(text)
             x == IF text[n] = "cr" /\ b = "lf" THEN << >> ELSE <<text[n]>>
             c == Parts(t)
  <2>1. n >= 1 /\ n \in 1..n
    BY <1>3, EmptySeq
  <2>2. a \in Seq(Seq(Bytes)) /\ Len(a) = n - 1
    BY <1>3, PartsType
  <2>3. c \in Seq(Seq(Bytes)) /\ Len(c) = n
    <3>1. c \in Seq(Seq(Bytes)) /\ Len(c) = Len(t) - 1
      BY <1>1, PartsType
    <3> HIDE DEF c
    <3> QED BY <1>1, <3>1
  <2>4. x \in Seq(Bytes)
    <3>1. text[n] \in Bytes
      BY <1>1, <2>1
    <3> QED BY <3>1
  <2> HIDE DEF n
  <2>5. c[n] = x
    <3>1. n \in 1..(Len(t) - 1)
      BY <1>1, <2>1
    <3>2. c[n] = IF t[n] = "cr" /\ t[n + 1] = "lf" THEN << >> ELSE <<t[n]>>
      BY <3>1 DEF Parts
    <3>3. t[n] = text[n] /\ t[n + 1] = b
      BY <1>1, <2>1
    <3> QED BY <3>2, <3>3
  <2>6. ASSUME NEW i \in 1..(n - 1) PROVE c[i] = a[i]
    <3>1. i \in 1..(Len(t) - 1) /\ i \in 1..n /\ i + 1 \in 1..n
      BY <1>1, <2>1
    <3>2. c[i] = IF t[i] = "cr" /\ t[i + 1] = "lf" THEN << >> ELSE <<t[i]>>
      BY <3>1 DEF Parts
    <3>3. a[i] = IF text[i] = "cr" /\ text[i + 1] = "lf" THEN << >> ELSE <<text[i]>>
      BY DEF Parts, n
    <3>4. t[i] = text[i] /\ t[i + 1] = text[i + 1]
      BY <1>1, <3>1
    <3> QED BY <3>2, <3>3, <3>4
  <2> HIDE DEF a, x, c
  <2>7. Append(a, x) \in Seq(Seq(Bytes)) /\ Len(Append(a, x)) = n /\ Append(a, x)[n] = x
        /\ \A i \in 1..(n - 1) : Append(a, x)[i] = a[i]
    <3>1. Len(a) + 1 = n
      BY <1>1, <2>2
    <3> QED BY <2>2, <2>4, <3>1, AppendProperties
  <2>8. c = Append(a, x)
    <3>1. \A i \in 1..n : c[i] = Append(a, x)[i]
      <4> SUFFICES ASSUME NEW i \in 1..n PROVE c[i] = Append(a, x)[i]
        OBVIOUS
      <4>1. i = n \/ i \in 1..(n - 1)
        BY <1>1
      <4> QED BY <2>5, <2>6, <2>7, <4>1
    <3> QED BY <2>3, <2>7, <3>1, SeqEqual
  <2>9. FlattenSeq(c) = FlattenSeq(a) \o x
    BY <2>2, <2>4, <2>8, FlattenAppend
  <2>10. Core(t) = Core(text) \o x
    BY <2>9 DEF Core, a, c
  <2> QED BY <1>3, <2>10 DEF t, x, Last, n
<1> QED BY <1>2, <1>3

LEMMA CoreType ==
  ASSUME NEW text \in Seq(Bytes), text # << >>
  PROVE  Core(text) \in Seq(Bytes)
<1>1. Parts(text) \in Seq(Seq(Bytes))
  BY PartsType
<1> QED BY <1>1, FlattenType DEF Core

\* CR was the last byte.
EndsCR(text) == text # << >> /\ Last(text) = "cr"

\* What was output says the same as what was written, line by line.
Agree(o, w) ==
  /\ o \in Seq(Bytes) /\ w \in Seq(Bytes)
  /\ o = << >> <=> w = << >>
  /\ o # << >> => Last(o) = Last(w) /\ Core(o) = Core(w)
  /\ \A i \in 1..Len(o) : o[i] = "lf" => i > 1 /\ o[i - 1] = "cr"

\* What translate makes of a byte.
Piece(cr, b) == IF b = "lf" /\ ~cr THEN <<"cr", "lf">> ELSE <<b>>

LEMMA LastOfAppend ==
  ASSUME NEW text \in Seq(Bytes), NEW b \in Bytes
  PROVE  /\ Append(text, b) \in Seq(Bytes) /\ Append(text, b) # << >>
         /\ Last(Append(text, b)) = b
BY AppendProperties DEF Last

\* Each byte is translated so that the two still agree.
LEMMA AgreeByte ==
  ASSUME NEW o, NEW w, Agree(o, w), NEW b \in Bytes
  PROVE  Agree(o \o Piece(EndsCR(w), b), Append(w, b))
<1> DEFINE w1 == Append(w, b)
           o1 == o \o Piece(EndsCR(w), b)
<1>1. o \in Seq(Bytes) /\ w \in Seq(Bytes) /\ (o = << >> <=> w = << >>)
      /\ (o # << >> => Last(o) = Last(w) /\ Core(o) = Core(w))
      /\ \A i \in 1..Len(o) : o[i] = "lf" => i > 1 /\ o[i - 1] = "cr"
  BY DEF Agree
<1>2. w1 \in Seq(Bytes) /\ w1 # << >> /\ Last(w1) = b
  BY <1>1, LastOfAppend
<1>3. Len(o) \in Nat
  BY <1>1, LenProperties
<1>4. CASE ~(b = "lf" /\ ~EndsCR(w))
  <2>1. o1 = Append(o, b)
    BY <1>1, <1>4, AppendIsConcat DEF Piece
  <2>2. o1 \in Seq(Bytes) /\ o1 # << >> /\ Last(o1) = b
    BY <1>1, <2>1, LastOfAppend
  <2>3. Core(o1) = Core(w1)
    <3>1. CASE o = << >>
      <4>1. Core(Append(o, b)) = << >> /\ Core(Append(w, b)) = << >>
        BY <1>1, <3>1, CoreAppend
      <4> QED BY <2>1, <4>1
    <3>2. CASE o # << >>
      <4> DEFINE y(u) == IF Last(u) = "cr" /\ b = "lf" THEN << >> ELSE <<Last(u)>>
      <4>1. Core(Append(o, b)) = Core(o) \o y(o) /\ Core(Append(w, b)) = Core(w) \o y(w)
        BY <1>1, <3>2, CoreAppend
      <4>2. y(o) = y(w)
        BY <1>1, <3>2
      <4> QED BY <1>1, <2>1, <3>2, <4>1, <4>2
    <3> QED BY <3>1, <3>2
  <2>4. ASSUME NEW i \in 1..Len(o1), o1[i] = "lf"
        PROVE  i > 1 /\ o1[i - 1] = "cr"
    <3>1. Len(o1) = Len(o) + 1 /\ o1[Len(o) + 1] = b /\ \A k \in 1..Len(o) : o1[k] = o[k]
      BY <1>1, <2>1, AppendProperties
    <3>2. CASE i \in 1..Len(o)
      <4>1. i > 1 /\ o[i - 1] = "cr" /\ i - 1 \in 1..Len(o)
        BY <1>1, <1>3, <2>4, <3>1, <3>2
      <4> QED BY <3>1, <4>1
    <3>3. CASE i = Len(o) + 1
      <4>1. EndsCR(w)
        BY <1>4, <2>4, <3>1, <3>3
      <4>2. o # << >> /\ Last(o) = "cr"
        BY <1>1, <4>1 DEF EndsCR
      <4>3. Len(o) >= 1 /\ o[Len(o)] = "cr"
        BY <1>1, <4>2, EmptySeq DEF Last
      <4>4. i - 1 = Len(o) /\ Len(o) \in 1..Len(o)
        BY <1>3, <3>3, <4>3
      <4> QED BY <1>3, <3>1, <3>3, <4>3, <4>4
    <3> QED BY <1>3, <3>1, <3>2, <3>3
  <2> HIDE DEF o1, w1
  <2> QED BY <1>2, <2>2, <2>3, <2>4 DEF Agree, o1, w1
<1>5. CASE b = "lf" /\ ~EndsCR(w)
  <2> DEFINE c == Append(o, "cr")
  <2>0. "cr" \in Bytes /\ "lf" \in Bytes
    BY DEF Bytes
  <2>1. o1 = Append(c, "lf")
    <3>1. o1 = o \o <<"cr", "lf">>
      BY <1>5 DEF Piece
    <3>2. <<"cr">> \in Seq(Bytes) /\ <<"lf">> \in Seq(Bytes)
      BY <2>0
    <3>3. <<"cr", "lf">> = <<"cr">> \o <<"lf">>
      OBVIOUS
    <3>4. (o \o <<"cr">>) \o <<"lf">> = o \o (<<"cr">> \o <<"lf">>)
      BY <1>1, <3>2, ConcatAssociative
    <3>5. c = o \o <<"cr">> /\ c \in Seq(Bytes)
      BY <1>1, <2>0, AppendIsConcat, LastOfAppend
    <3> HIDE DEF c
    <3>6. Append(c, "lf") = c \o <<"lf">>
      BY <2>0, <3>5, AppendIsConcat
    <3> QED BY <3>1, <3>3, <3>4, <3>5, <3>6
  <2>2. c \in Seq(Bytes) /\ c # << >> /\ Last(c) = "cr"
    BY <1>1, <2>0, LastOfAppend
  <2>3. o1 \in Seq(Bytes) /\ o1 # << >> /\ Last(o1) = "lf"
    <3> HIDE DEF c, o1
    <3> QED BY <2>0, <2>1, <2>2, LastOfAppend
  <2>4. Core(o1) = Core(c)
    <3>1. Core(c) \in Seq(Bytes)
      BY <2>2, CoreType
    <3> HIDE DEF c, o1
    <3>2. Core(Append(c, "lf")) = Core(c) \o << >>
      BY <2>0, <2>2, CoreAppend
    <3>3. Core(c) \o << >> = Core(c)
      BY <3>1, ConcatEmptySeq
    <3> QED BY <2>1, <3>2, <3>3
  <2>5. Core(c) = Core(w1)
    <3>1. CASE o = << >>
      <4>1. Core(c) = << >> /\ Core(w1) = << >>
        BY <1>1, <2>0, <3>1, CoreAppend
      <4> QED BY <4>1
    <3>2. CASE o # << >>
      <4>1. Core(c) = Core(o) \o <<Last(o)>>
        BY <1>1, <2>0, <3>2, CoreAppend
      <4>2. Core(w1) = Core(w) \o (IF Last(w) = "cr" /\ b = "lf" THEN << >> ELSE <<Last(w)>>)
        BY <1>1, <3>2, CoreAppend
      <4>3. Last(w) # "cr"
        BY <1>1, <1>5, <3>2 DEF EndsCR
      <4> HIDE DEF c, w1
      <4> QED BY <1>1, <3>2, <4>1, <4>2, <4>3
    <3> QED BY <3>1, <3>2
  <2>6. ASSUME NEW i \in 1..Len(o1), o1[i] = "lf"
        PROVE  i > 1 /\ o1[i - 1] = "cr"
    <3>1. Len(c) = Len(o) + 1 /\ c[Len(o) + 1] = "cr" /\ \A k \in 1..Len(o) : c[k] = o[k]
      BY <1>1, <2>0, AppendProperties
    <3> HIDE DEF c
    <3>2. Len(Append(c, "lf")) = Len(c) + 1 /\ \A k \in 1..Len(c) : Append(c, "lf")[k] = c[k]
      BY <2>0, <2>2, AppendProperties
    <3>3. Len(o1) = Len(o) + 2 /\ \A k \in 1..(Len(o) + 1) : o1[k] = c[k]
      BY <1>3, <2>1, <3>1, <3>2
    <3> HIDE DEF o1
    <3>4. CASE i \in 1..Len(o)
      <4>1. o[i] = "lf"
        BY <1>3, <2>6, <3>1, <3>3, <3>4
      <4>2. i > 1 /\ o[i - 1] = "cr" /\ i - 1 \in 1..Len(o) /\ i - 1 \in 1..(Len(o) + 1)
        BY <1>1, <1>3, <3>4, <4>1
      <4> QED BY <3>1, <3>3, <4>2
    <3>5. i # Len(o) + 1
      <4>1. Len(o) + 1 \in 1..(Len(o) + 1)
        BY <1>3
      <4> QED BY <2>6, <3>1, <3>3, <4>1
    <3>6. CASE i = Len(o) + 2
      <4>1. i - 1 = Len(o) + 1 /\ Len(o) + 1 \in 1..(Len(o) + 1) /\ i > 1
        BY <1>3, <3>6
      <4> QED BY <3>1, <3>3, <4>1
    <3> QED BY <1>3, <3>3, <3>4, <3>5, <3>6
  <2> HIDE DEF o1, w1, c
  <2> QED BY <1>2, <1>5, <2>3, <2>4, <2>5, <2>6 DEF Agree, o1, w1
<1> QED BY <1>4, <1>5

LEMMA Regroup ==
  ASSUME NEW r \in Seq(Bytes), NEW s \in Seq(Bytes), NEW t \in Seq(Bytes)
  PROVE  (r \o s) \o t = r \o (s \o t)
BY ConcatAssociative

LEMMA PieceType ==
  ASSUME NEW cr, NEW b \in Bytes
  PROVE  Piece(cr, b) \in Seq(Bytes)
<1>1. "cr" \in Bytes /\ "lf" \in Bytes
  BY DEF Bytes
<1>2. <<"cr", "lf">> \in Seq(Bytes) /\ <<b>> \in Seq(Bytes)
  BY <1>1
<1> QED BY <1>2 DEF Piece

\* A text is translated byte by byte, whatever was written before it.
LEMMA AgreeText ==
  ASSUME NEW o, NEW w, Agree(o, w), NEW p \in Seq(Bytes), NEW c, c <=> EndsCR(w)
  PROVE  Agree(o \o Translated(c, p), w \o p)
<1> DEFINE n == Len(p)
           before(i) == IF i = 1 THEN c ELSE p[i - 1] = "cr"
           q == [i \in DOMAIN p |->
                   IF p[i] = "lf" /\ ~(IF i = 1 THEN c ELSE p[i - 1] = "cr")
                     THEN <<"cr", "lf">> ELSE <<p[i]>>]
           oo(k) == o \o FlattenSeq(SubSeq(q, 1, k))
           ww(k) == w \o SubSeq(p, 1, k)
           T == {k \in 0..n : Agree(oo(k), ww(k))}
<1>1. n \in Nat /\ DOMAIN p = 1..n /\ (\A i \in 1..n : p[i] \in Bytes)
      /\ o \in Seq(Bytes) /\ w \in Seq(Bytes)
  BY ElementOfSeq DEF Agree
<1>2. \A i \in 1..n : q[i] = Piece(before(i), p[i])
  BY <1>1 DEF Piece
<1>3. q \in Seq(Seq(Bytes)) /\ Len(q) = n /\ \A i \in 1..n : q[i] \in Seq(Bytes)
  <2>1. ASSUME NEW i \in 1..n PROVE q[i] \in Seq(Bytes)
    <3> HIDE DEF before, q
    <3>1. Piece(before(i), p[i]) \in Seq(Bytes)
      BY <1>1, PieceType
    <3> QED BY <1>2, <3>1
  <2>2. DOMAIN q = 1..n /\ q = [i \in 1..n |-> q[i]]
    BY <1>1
  <2> HIDE DEF q
  <2>3. q \in [1..n -> Seq(Bytes)]
    BY <2>1, <2>2
  <2> QED BY <1>1, <2>1, <2>3, SeqDef, LenProperties
<1>4. Translated(c, p) = FlattenSeq(q)
  BY DEF Translated
<1> HIDE DEF q
<1>5. 0 \in T
  <2>1. SubSeq(q, 1, 0) = << >> /\ SubSeq(p, 1, 0) = << >>
    BY SubSeqEmpty
  <2>2. FlattenSeq(<< >>) = << >>
    BY EmptySeq DEF FlattenSeq
  <2>3. o \o << >> = o /\ w \o << >> = w
    BY <1>1, ConcatEmptySeq
  <2>4. oo(0) = o /\ ww(0) = w
    BY <2>1, <2>2, <2>3
  <2>5. 0 \in 0..n
    BY <1>1
  <2> HIDE DEF oo, ww
  <2> QED BY <2>4, <2>5
<1>6. ASSUME NEW k \in 0..(n - 1), k \in T PROVE k + 1 \in T
  <2> DEFINE q1 == SubSeq(q, 1, k)
             p1 == SubSeq(p, 1, k)
  <2>1. k + 1 \in 1..n /\ k \in 0..n /\ 1 \in 1..n /\ k + 1 \in 0..n /\ k + 1 - 1 = k
    BY <1>1
  <2>2. q1 \in Seq(Seq(Bytes)) /\ p1 \in Seq(Bytes) /\ Len(p1) = k
        /\ \A i \in 1..k : p1[i] = p[i]
    <3>1. \A i \in 1..k : q[i] \in Seq(Bytes) /\ p[i] \in Bytes
      BY <1>1, <1>3
    <3>2. q1 \in Seq(Seq(Bytes))
      BY <3>1, SubSeqProperties
    <3>3. p1 \in Seq(Bytes) /\ Len(p1) = (IF 1 <= k THEN k - 1 + 1 ELSE 0)
          /\ \A i \in 1..(k - 1 + 1) : p1[i] = p[1 + i - 1]
      BY <3>1, SubSeqProperties
    <3> HIDE DEF p1, q1
    <3> QED BY <2>1, <3>2, <3>3
  <2>3. SubSeq(q, 1, k + 1) = Append(q1, q[k + 1]) /\ q[k + 1] \in Seq(Bytes)
    <3>1. k + 1 \in 1..Len(q) /\ 1 \in 1..Len(q) /\ q[k + 1] \in Seq(Bytes)
      BY <1>3, <2>1
    <3>2. SubSeq(q, 1, k + 1) = SubSeq(q, 1, k + 1 - 1) \o <<q[k + 1]>>
      BY <1>3, <3>1, SubSeqRecursiveSecond
    <3>3. Append(q1, q[k + 1]) = q1 \o <<q[k + 1]>>
      BY <2>2, <3>1, AppendIsConcat
    <3> QED BY <2>1, <3>1, <3>2, <3>3
  <2>4. SubSeq(p, 1, k + 1) = Append(p1, p[k + 1]) /\ p[k + 1] \in Bytes
    <3>1. k + 1 \in 1..Len(p) /\ 1 \in 1..Len(p) /\ p[k + 1] \in Bytes
      BY <1>1, <2>1
    <3>2. SubSeq(p, 1, k + 1) = SubSeq(p, 1, k + 1 - 1) \o <<p[k + 1]>>
      BY <3>1, SubSeqRecursiveSecond
    <3>3. Append(p1, p[k + 1]) = p1 \o <<p[k + 1]>>
      BY <2>2, <3>1, AppendIsConcat
    <3> QED BY <2>1, <3>1, <3>2, <3>3
  <2>5. oo(k + 1) = oo(k) \o q[k + 1]
    <3> DEFINE f == FlattenSeq(q1)
    <3>1. FlattenSeq(Append(q1, q[k + 1])) = f \o q[k + 1]
      <4> HIDE DEF q1
      <4> QED BY <2>2, <2>3, FlattenAppend
    <3>2. f \in Seq(Bytes)
      <4> HIDE DEF q1
      <4> QED BY <2>2, FlattenType
    <3>3. oo(k) = o \o f /\ oo(k + 1) = o \o (f \o q[k + 1])
      BY <2>3, <3>1
    <3> HIDE DEF f, oo, q1
    <3>4. (o \o f) \o q[k + 1] = o \o (f \o q[k + 1])
      <4> DEFINE y == q[k + 1]
      <4>1. o \in Seq(Bytes) /\ f \in Seq(Bytes) /\ y \in Seq(Bytes)
        BY <1>1, <2>3, <3>2
      <4> HIDE DEF y
      <4>2. (o \o f) \o y = o \o (f \o y)
        BY <4>1, Regroup
      <4> QED BY <4>2 DEF y
    <3> QED BY <3>3, <3>4
  <2>6. ww(k + 1) = Append(ww(k), p[k + 1]) /\ ww(k) \in Seq(Bytes)
    <3> HIDE DEF p1
    <3>1. ww(k) = w \o p1 /\ ww(k + 1) = w \o Append(p1, p[k + 1])
      BY <2>4 DEF p1
    <3>2. <<p[k + 1]>> \in Seq(Bytes)
      BY <2>4
    <3>3. Append(p1, p[k + 1]) = p1 \o <<p[k + 1]>>
      BY <2>2, <2>4, AppendIsConcat
    <3>4. w \o p1 \in Seq(Bytes)
      BY <1>1, <2>2, ConcatProperties
    <3>5. Append(w \o p1, p[k + 1]) = (w \o p1) \o <<p[k + 1]>>
      BY <2>4, <3>4, AppendIsConcat
    <3>6. (w \o p1) \o <<p[k + 1]>> = w \o (p1 \o <<p[k + 1]>>)
      <4> DEFINE y == <<p[k + 1]>>
      <4>1. w \in Seq(Bytes) /\ p1 \in Seq(Bytes) /\ y \in Seq(Bytes)
        BY <1>1, <2>2, <3>2
      <4> HIDE DEF y
      <4>2. (w \o p1) \o y = w \o (p1 \o y)
        BY <4>1, Regroup
      <4> QED BY <4>2 DEF y
    <3> HIDE DEF ww
    <3> QED BY <3>1, <3>3, <3>4, <3>5, <3>6
  <2>7. before(k + 1) <=> EndsCR(ww(k))
    <3>1. CASE k = 0
      <4>1. SubSeq(p, 1, 0) = << >> /\ w \o << >> = w
        BY <1>1, SubSeqEmpty, ConcatEmptySeq
      <4>2. ww(k) = w
        BY <3>1, <4>1
      <4>3. before(k + 1) <=> c
        BY <3>1
      <4> HIDE DEF ww, before
      <4> QED BY <4>2, <4>3
    <3>2. CASE k # 0
      <4> HIDE DEF p1
      <4> DEFINE u == w \o p1
      <4>1. ww(k) = u
        BY DEF p1
      <4>2. u \in Seq(Bytes) /\ Len(u) = Len(w) + k /\ Len(w) \in Nat
            /\ \A i \in 1..(Len(w) + k) : u[i] = IF i <= Len(w) THEN w[i] ELSE p1[i - Len(w)]
        BY <1>1, <2>2, ConcatProperties, LenProperties
      <4> HIDE DEF u
      <4>3. Len(w) + k \in 1..(Len(w) + k) /\ ~(Len(w) + k <= Len(w)) /\ Len(w) + k - Len(w) = k
            /\ k \in 1..k /\ Len(w) + k # 0
        BY <2>1, <3>2, <4>2
      <4>4. u[Len(u)] = p[k]
        BY <2>2, <4>2, <4>3
      <4>5. u # << >>
        BY <4>2, <4>3, EmptySeq
      <4>6. EndsCR(u) <=> p[k] = "cr"
        BY <4>4, <4>5 DEF EndsCR, Last
      <4>7. before(k + 1) <=> p[k] = "cr"
        BY <2>1, <3>2
      <4> HIDE DEF before, ww
      <4> QED BY <4>1, <4>6, <4>7
    <3> QED BY <3>1, <3>2
  <2>8. Agree(oo(k) \o Piece(EndsCR(ww(k)), p[k + 1]), Append(ww(k), p[k + 1]))
    <3>1. Agree(oo(k), ww(k))
      BY <1>6
    <3> HIDE DEF oo, ww
    <3> QED BY <2>4, <3>1, AgreeByte
  <2>9. q[k + 1] = Piece(EndsCR(ww(k)), p[k + 1])
    <3>1. q[k + 1] = Piece(before(k + 1), p[k + 1])
      BY <1>2, <2>1
    <3> HIDE DEF before, ww
    <3> QED BY <2>7, <3>1 DEF Piece
  <2> HIDE DEF oo, ww
  <2> QED BY <2>1, <2>5, <2>6, <2>8, <2>9
<1>7. n \in T
  <2> HIDE DEF T
  <2>1. n \in 0..n
    BY <1>1
  <2> QED BY <1>1, <1>5, <1>6, <2>1, UpTo
<1>8. SubSeq(q, 1, n) = q /\ SubSeq(p, 1, n) = p
  BY <1>3, SubSeqFull
<1> QED BY <1>4, <1>7, <1>8

LEMMA EndOfText ==
  ASSUME NEW w \in Seq(Bytes), NEW p \in Seq(Bytes), p # << >>
  PROVE  EndsCR(w \o p) <=> Last(p) = "cr"
<1>1. Len(w) \in Nat /\ Len(p) \in Nat /\ Len(p) >= 1
  BY EmptySeq, LenProperties
<1>2. w \o p \in Seq(Bytes) /\ Len(w \o p) = Len(w) + Len(p)
      /\ \A i \in 1..(Len(w) + Len(p)) : (w \o p)[i] = IF i <= Len(w) THEN w[i] ELSE p[i - Len(w)]
  BY ConcatProperties
<1>3. Len(w) + Len(p) \in 1..(Len(w) + Len(p)) /\ ~(Len(w) + Len(p) <= Len(w))
      /\ Len(w) + Len(p) - Len(w) = Len(p) /\ Len(w) + Len(p) # 0
  BY <1>1
<1>4. (w \o p)[Len(w \o p)] = p[Len(p)]
  BY <1>2, <1>3
<1>5. w \o p # << >>
  BY <1>2, <1>3, EmptySeq
<1> QED BY <1>4, <1>5 DEF EndsCR, Last

\* The inductive invariant of LinesReturn.
LinesInv ==
  side = "tty" => Agree(out, wrote) /\ (tty.lastCR <=> EndsCR(wrote))

LEMMA LinesInvInit == TermInit => LinesInv
<1> SUFFICES ASSUME TermInit PROVE LinesInv
  OBVIOUS
<1>1. out = << >> /\ wrote = << >> /\ tty.lastCR = FALSE
  BY DEF TermInit
<1>2. << >> \in Seq(Bytes) /\ Len(<< >>) = 0
  BY EmptySeq
<1> QED BY <1>1, <1>2 DEF LinesInv, Agree, EndsCR

LEMMA TextTypes ==
  ASSUME NEW p \in Texts \cup Frames \cup {<<"x">>}
  PROVE  p \in Seq(Bytes) /\ p # << >>
<1>1. "x" \in Bytes /\ "cr" \in Bytes /\ "lf" \in Bytes
  BY DEF Bytes
<1>2. /\ <<"x">> \in Seq(Bytes) /\ <<"lf">> \in Seq(Bytes) /\ <<"cr">> \in Seq(Bytes)
      /\ <<"x", "lf">> \in Seq(Bytes) /\ <<"cr", "lf", "x", "lf">> \in Seq(Bytes)
      /\ <<"cr", "lf", "x", "x", "cr">> \in Seq(Bytes)
  BY <1>1
<1>3. /\ <<"x">> # << >> /\ <<"lf">> # << >> /\ <<"cr">> # << >>
      /\ <<"x", "lf">> # << >> /\ <<"cr", "lf", "x", "lf">> # << >>
      /\ <<"cr", "lf", "x", "x", "cr">> # << >>
  OBVIOUS
<1>4. p \in {<<"x">>, <<"lf">>, <<"cr">>, <<"x", "lf">>, <<"cr", "lf", "x", "lf">>,
             <<"cr", "lf", "x", "x", "cr">>}
  BY DEF Texts, Frames
<1> QED BY <1>2, <1>3, <1>4

LEMMA LinesInvEmits ==
  ASSUME LinesInv, NEW p \in Texts \cup Frames \cup {<<"x">>}, TtyEmits(p),
         tty'.lastCR <=> Last(p) = "cr"
  PROVE  LinesInv'
<1>1. p \in Seq(Bytes) /\ p # << >>
  BY TextTypes
<1>2. side = "tty" /\ side' = side /\ wrote' = wrote \o p
      /\ out' = out \o Translated(tty.lastCR, p)
  BY DEF TtyEmits
<1>3. Agree(out, wrote) /\ (tty.lastCR <=> EndsCR(wrote))
  BY <1>2 DEF LinesInv
<1>4. Agree(out', wrote')
  <2> DEFINE c == tty.lastCR
  <2> HIDE DEF c
  <2>1. Agree(out \o Translated(c, p), wrote \o p)
    BY <1>1, <1>3, AgreeText DEF c
  <2> QED BY <1>2, <2>1 DEF c
<1>5. EndsCR(wrote') <=> Last(p) = "cr"
  <2>1. wrote \in Seq(Bytes)
    BY <1>3 DEF Agree
  <2> QED BY <1>1, <1>2, <2>1, EndOfText
<1> QED BY <1>4, <1>5 DEF LinesInv

LEMMA LinesInvNext ==
  ASSUME LinesInv, [TermNext]_termVars
  PROVE  LinesInv'
<1>1. CASE (\E p \in Texts : TtyWrite(p)) \/ (\E p \in Frames : Frame(p))
  <2>1. PICK p \in Texts \cup Frames : TtyEmits(p) /\ tty' = AfterText(p)
    BY <1>1 DEF TtyWrite, Frame
  <2>2. tty'.lastCR <=> Last(p) = "cr"
    BY <2>1 DEF AfterText
  <2> QED BY <2>1, <2>2, LinesInvEmits
<1>2. CASE ClearScreen
  <2>1. TtyEmits(<<"x">>) /\ tty'.lastCR = FALSE
    BY <1>2 DEF ClearScreen
  <2>2. Last(<<"x">>) # "cr"
    BY DEF Last
  <2>3. <<"x">> \in Texts \cup Frames \cup {<<"x">>}
    OBVIOUS
  <2> DEFINE p == <<"x">>
  <2> HIDE DEF p
  <2>4. p \in Texts \cup Frames \cup {<<"x">>} /\ TtyEmits(p) /\ (tty'.lastCR <=> Last(p) = "cr")
    BY <2>1, <2>2, <2>3 DEF p
  <2> QED BY <2>4, LinesInvEmits
<1>3. CASE \E data \in Reads : PtyRead(data)
  BY <1>3 DEF PtyRead, LinesInv
<1>4. CASE RingWrite \/ (\E n \in 1..(Len(Input) - fed) : KeyWrite(n)) \/ UNCHANGED termVars
  <2>1. UNCHANGED <<side, out, wrote, tty>>
    BY <1>4 DEF RingWrite, KeyWrite, termVars, outVars
  <2> QED BY <2>1 DEF LinesInv
<1> QED BY <1>1, <1>2, <1>3, <1>4 DEF TermNext

\* Whatever the writes and frames a program's text is cut into, each LF that
\* reaches the terminal has its CR, and nothing else was added (translate).
THEOREM LinesAlwaysReturn == TermSpec => []LinesReturn
<1>1. LinesInv => LinesReturn
  <2> SUFFICES ASSUME LinesInv, side = "tty"
               PROVE  /\ \A i \in DOMAIN out : out[i] = "lf" => i > 1 /\ out[i - 1] = "cr"
                      /\ WithoutReturns(out) = WithoutReturns(wrote)
    BY DEF LinesReturn
  <2>1. Agree(out, wrote)
    BY DEF LinesInv
  <2>2. out \in Seq(Bytes) /\ wrote \in Seq(Bytes) /\ DOMAIN out = 1..Len(out)
    BY <2>1, LenProperties DEF Agree
  <2>3. CASE out = << >>
    BY <2>1, <2>2, <2>3 DEF Agree
  <2>4. CASE out # << >>
    <3>1. wrote # << >> /\ Last(out) = Last(wrote) /\ Core(out) = Core(wrote)
      BY <2>1, <2>4 DEF Agree
    <3>2. WithoutReturns(out) = Core(out) \o <<Last(out)>>
      BY <2>2, <2>4, LastStays
    <3>3. WithoutReturns(wrote) = Core(wrote) \o <<Last(wrote)>>
      BY <2>2, <3>1, LastStays
    <3> QED BY <2>1, <2>2, <3>1, <3>2, <3>3 DEF Agree
  <2> QED BY <2>3, <2>4
<1>2. LinesInv /\ [TermNext]_termVars => LinesInv'
  BY LinesInvNext
<1> QED BY <1>1, <1>2, LinesInvInit, PTL DEF TermSpec

-----------------------------------------------------------------------------
(* Arrow keys *)

\* A sequence of known length, element by element.
LEMMA ShortTuples ==
  ASSUME NEW s \in Seq(Bytes), NEW a \in Bytes, NEW b \in Bytes, NEW c \in Bytes, NEW d \in Bytes
  PROVE  /\ s = <<a>> <=> Len(s) = 1 /\ s[1] = a
         /\ s = <<a, b>> <=> Len(s) = 2 /\ s[1] = a /\ s[2] = b
         /\ s = <<a, b, c>> <=> Len(s) = 3 /\ s[1] = a /\ s[2] = b /\ s[3] = c
         /\ s = <<a, b, c, d>> <=> Len(s) = 4 /\ s[1] = a /\ s[2] = b /\ s[3] = c /\ s[4] = d
<1>1. s = <<a>> <=> Len(s) = 1 /\ s[1] = a
  <2>1. <<a>> \in Seq(Bytes) /\ Len(<<a>>) = 1 /\ <<a>>[1] = a
    OBVIOUS
  <2> QED BY <2>1, SeqEqual
<1>2. s = <<a, b>> <=> Len(s) = 2 /\ s[1] = a /\ s[2] = b
  <2>1. <<a, b>> \in Seq(Bytes) /\ Len(<<a, b>>) = 2 /\ <<a, b>>[1] = a /\ <<a, b>>[2] = b
    OBVIOUS
  <2> QED BY <2>1, SeqEqual
<1>3. s = <<a, b, c>> <=> Len(s) = 3 /\ s[1] = a /\ s[2] = b /\ s[3] = c
  <2>1. <<a, b, c>> \in Seq(Bytes) /\ Len(<<a, b, c>>) = 3
        /\ <<a, b, c>>[1] = a /\ <<a, b, c>>[2] = b /\ <<a, b, c>>[3] = c
    OBVIOUS
  <2> QED BY <2>1, SeqEqual
<1>4. s = <<a, b, c, d>> <=> Len(s) = 4 /\ s[1] = a /\ s[2] = b /\ s[3] = c /\ s[4] = d
  <2>1. <<a, b, c, d>> \in Seq(Bytes) /\ Len(<<a, b, c, d>>) = 4
        /\ <<a, b, c, d>>[1] = a /\ <<a, b, c, d>>[2] = b /\ <<a, b, c, d>>[3] = c
        /\ <<a, b, c, d>>[4] = d
    OBVIOUS
  <2> QED BY <2>1, SeqEqual
<1> QED BY <1>1, <1>2, <1>3, <1>4

LEMMA OneTuple ==
  ASSUME NEW s \in Seq(Bytes), NEW a \in Bytes
  PROVE  s = <<a>> <=> Len(s) = 1 /\ s[1] = a
BY ShortTuples

LEMMA FourTuple ==
  ASSUME NEW s \in Seq(Bytes), NEW a \in Bytes, NEW b \in Bytes, NEW c \in Bytes, NEW d \in Bytes
  PROVE  s = <<a, b, c, d>> <=> Len(s) = 4 /\ s[1] = a /\ s[2] = b /\ s[3] = c /\ s[4] = d
BY ShortTuples

LEMMA PairTuple ==
  ASSUME NEW s \in Seq(Bytes), NEW a \in Bytes, NEW b \in Bytes
  PROVE  s = <<a, b>> <=> Len(s) = 2 /\ s[1] = a /\ s[2] = b
BY ShortTuples

\* ESC [ ? is at i.
Intro(o, i) == o[i] = "esc" /\ o[i + 1] = "[" /\ o[i + 2] = "?"

\* SwitchAt and Unfinished, element by element.
Switch(o, i) == i + 4 <= Len(o) /\ Intro(o, i) /\ o[i + 3] = "1" /\ o[i + 4] \in {"h", "l"}
PartAt(o, j, i) ==
  \/ j = i - 1 /\ o[j] = "esc"
  \/ j = i - 2 /\ o[j] = "esc" /\ o[j + 1] = "["
  \/ j <= i - 3 /\ Intro(o, j) /\ \A m \in (j + 3)..(i - 1) : o[m] \in Digits \cup {";"}
Amid(o, i) == \E j \in 1..(i - 1) : PartAt(o, j, i)

LEMMA PartOne ==
  ASSUME NEW o, NEW j \in Int, NEW i \in Int, j = i - 1, o[j] = "esc"
  PROVE  PartAt(o, j, i)
BY DEF PartAt

LEMMA PartTwo ==
  ASSUME NEW o, NEW j \in Int, NEW i \in Int, j = i - 2, o[j] = "esc", o[j + 1] = "["
  PROVE  PartAt(o, j, i)
BY DEF PartAt

LEMMA PartMore ==
  ASSUME NEW o, NEW j \in Int, NEW i \in Int, j <= i - 3, Intro(o, j),
         \A m \in (j + 3)..(i - 1) : o[m] \in Digits \cup {";"}
  PROVE  PartAt(o, j, i)
BY DEF PartAt

LEMMA SwitchIs ==
  ASSUME NEW o \in Seq(Bytes), NEW i \in 1..Len(o)
  PROVE  SwitchAt(o, i) <=> Switch(o, i)
<1>1. Len(o) \in Nat /\ \A k \in 1..Len(o) : o[k] \in Bytes
  BY ElementOfSeq
<1>2. SUFFICES ASSUME i + 4 <= Len(o)
               PROVE  SubSeq(o, i, i + 3) = <<"esc", "[", "?", "1">>
                        <=> Intro(o, i) /\ o[i + 3] = "1"
  BY DEF SwitchAt, Switch
<1> DEFINE s == SubSeq(o, i, i + 3)
<1>3. s \in Seq(Bytes) /\ Len(s) = 4 /\ s[1] = o[i] /\ s[2] = o[i + 1] /\ s[3] = o[i + 2]
      /\ s[4] = o[i + 3]
  <2>1. \A k \in i..(i + 3) : o[k] \in Bytes
    BY <1>1, <1>2
  <2>2. s \in Seq(Bytes) /\ Len(s) = (IF i <= i + 3 THEN i + 3 - i + 1 ELSE 0)
        /\ \A k \in 1..(i + 3 - i + 1) : s[k] = o[i + k - 1]
    BY <2>1, SubSeqProperties
  <2> HIDE DEF s
  <2>3. i + 3 - i + 1 = 4 /\ i <= i + 3 /\ i + 1 - 1 = i /\ i + 2 - 1 = i + 1
        /\ i + 3 - 1 = i + 2 /\ i + 4 - 1 = i + 3
    OBVIOUS
  <2>4. 1 \in 1..4 /\ 2 \in 1..4 /\ 3 \in 1..4 /\ 4 \in 1..4
    OBVIOUS
  <2> QED BY <2>2, <2>3, <2>4
<1>4. "esc" \in Bytes /\ "[" \in Bytes /\ "?" \in Bytes /\ "1" \in Bytes
  BY DEF Bytes
<1> HIDE DEF s
<1>5. s = <<"esc", "[", "?", "1">>
        <=> Len(s) = 4 /\ s[1] = "esc" /\ s[2] = "[" /\ s[3] = "?" /\ s[4] = "1"
  <2>1. s \in Seq(Bytes)
    BY <1>3
  <2> QED BY <1>4, <2>1, FourTuple
<1> QED BY <1>3, <1>5 DEF s, Intro

LEMMA AmidIs ==
  ASSUME NEW o \in Seq(Bytes), NEW i \in 1..(Len(o) + 1)
  PROVE  Unfinished(o, i) <=> Amid(o, i)
<1>1. Len(o) \in Nat /\ \A k \in 1..Len(o) : o[k] \in Bytes
  BY ElementOfSeq
<1> DEFINE s(j) == SubSeq(o, j, i - 1)
           part(j) == \/ s(j) \in {<<"esc">>, <<"esc", "[">>}
                      \/ /\ Len(s(j)) >= 3 /\ SubSeq(s(j), 1, 3) = <<"esc", "[", "?">>
                         /\ \A n \in 4..Len(s(j)) : s(j)[n] \in Digits \cup {";"}
<1>2. "esc" \in Bytes /\ "[" \in Bytes /\ "?" \in Bytes
  BY DEF Bytes
<1>3. ASSUME NEW j \in 1..(i - 1) PROVE part(j) <=> PartAt(o, j, i)
  <2> DEFINE u == s(j)
  <2>1. u \in Seq(Bytes) /\ Len(u) = i - j /\ \A k \in 1..(i - j) : u[k] = o[j + k - 1]
    <3>1. \A k \in j..(i - 1) : o[k] \in Bytes
      BY <1>1
    <3>2. u \in Seq(Bytes) /\ Len(u) = (IF j <= i - 1 THEN i - 1 - j + 1 ELSE 0)
          /\ \A k \in 1..(i - 1 - j + 1) : u[k] = o[j + k - 1]
      BY <3>1, SubSeqProperties
    <3> HIDE DEF u
    <3>3. j <= i - 1 /\ i - 1 - j + 1 = i - j
      BY <1>1
    <3> QED BY <3>2, <3>3
  <2>2. part(j) <=> \/ u = <<"esc">> \/ u = <<"esc", "[">>
                    \/ /\ Len(u) >= 3 /\ SubSeq(u, 1, 3) = <<"esc", "[", "?">>
                       /\ \A n \in 4..Len(u) : u[n] \in Digits \cup {";"}
    OBVIOUS
  <2> HIDE DEF part, s, u
  <2>3. i - j \in Nat /\ i - j >= 1 /\ j + 1 - 1 = j /\ j + 2 - 1 = j + 1 /\ j + 3 - 1 = j + 2
    BY <1>1
  <2>4. u = <<"esc">> <=> j = i - 1 /\ o[j] = "esc"
    <3>1. u = <<"esc">> <=> Len(u) = 1 /\ u[1] = "esc"
      <4>1. u \in Seq(Bytes)
        BY <2>1
      <4> QED BY <1>2, <4>1, OneTuple
    <3>2. u[1] = o[j]
      BY <2>1, <2>3
    <3> QED BY <2>1, <3>1, <3>2
  <2>5. u = <<"esc", "[">> <=> j = i - 2 /\ o[j] = "esc" /\ o[j + 1] = "["
    <3>1. u = <<"esc", "[">> <=> Len(u) = 2 /\ u[1] = "esc" /\ u[2] = "["
      <4>1. u \in Seq(Bytes)
        BY <2>1
      <4> QED BY <1>2, <4>1, PairTuple
    <3>2. ASSUME Len(u) = 2 PROVE u[1] = o[j] /\ u[2] = o[j + 1]
      <4>0. i - j = 2
        BY <2>1, <3>2
      <4>1. 1 \in 1..(i - j) /\ 2 \in 1..(i - j)
        BY <4>0
      <4> QED BY <2>1, <2>3, <4>1
    <3> QED BY <2>1, <3>1, <3>2
  <2>6. ASSUME i - j >= 3
        PROVE  /\ SubSeq(u, 1, 3) = <<"esc", "[", "?">> <=> Intro(o, j)
               /\ (\A n \in 4..Len(u) : u[n] \in Digits \cup {";"})
                    <=> \A m \in (j + 3)..(i - 1) : o[m] \in Digits \cup {";"}
    <3> DEFINE v == SubSeq(u, 1, 3)
    <3>1. u[1] = o[j] /\ u[2] = o[j + 1] /\ u[3] = o[j + 2]
      BY <2>1, <2>3, <2>6
    <3>2. \A k \in 1..3 : u[k] \in Bytes
      BY <2>1, <2>6, ElementOfSeq
    <3>3. v \in Seq(Bytes) /\ Len(v) = 3 /\ v[1] = u[1] /\ v[2] = u[2] /\ v[3] = u[3]
      BY <3>2, SubSeqProperties
    <3>4. v = <<"esc", "[", "?">> <=> Len(v) = 3 /\ v[1] = "esc" /\ v[2] = "[" /\ v[3] = "?"
      <4> HIDE DEF v
      <4> QED BY <1>2, <3>3, ShortTuples
    <3>5. v = <<"esc", "[", "?">> <=> Intro(o, j)
      <4> HIDE DEF v
      <4> QED BY <3>1, <3>3, <3>4 DEF Intro
    <3>6. ASSUME \A n \in 4..Len(u) : u[n] \in Digits \cup {";"}, NEW m \in (j + 3)..(i - 1)
          PROVE  o[m] \in Digits \cup {";"}
      <4> DEFINE n == m - j + 1
      <4>1. n \in 4..(i - j) /\ n \in 1..(i - j) /\ j + n - 1 = m
        BY <1>1
      <4> HIDE DEF n
      <4>2. u[n] = o[m]
        BY <2>1, <4>1
      <4> QED BY <2>1, <3>6, <4>1, <4>2
    <3>7. ASSUME \A m \in (j + 3)..(i - 1) : o[m] \in Digits \cup {";"}, NEW n \in 4..Len(u)
          PROVE  u[n] \in Digits \cup {";"}
      <4>1. n \in 1..(i - j) /\ j + n - 1 \in (j + 3)..(i - 1)
        BY <1>1, <2>1
      <4>2. u[n] = o[j + n - 1]
        BY <2>1, <4>1
      <4> QED BY <3>7, <4>1, <4>2
    <3> QED BY <3>5, <3>6, <3>7
  <2>7. i - j >= 3 <=> j <= i - 3
    BY <1>1
  <2> QED BY <2>1, <2>2, <2>4, <2>5, <2>6, <2>7 DEF PartAt
<1>4. Unfinished(o, i) <=> \E j \in 1..(i - 1) : part(j)
  BY DEF Unfinished
<1> HIDE DEF part
<1> QED BY <1>3, <1>4 DEF Amid

\* A byte more changes nothing that came before it.
LEMMA AmidStays ==
  ASSUME NEW o \in Seq(Bytes), NEW b \in Bytes, NEW i \in 1..(Len(o) + 1)
  PROVE  Amid(Append(o, b), i) <=> Amid(o, i)
<1> DEFINE o1 == Append(o, b)
<1>1. Len(o) \in Nat /\ \A k \in 1..Len(o) : o1[k] = o[k]
  BY AppendProperties, LenProperties
<1> HIDE DEF o1
<1>2. ASSUME NEW j \in 1..(i - 1) PROVE PartAt(o1, j, i) <=> PartAt(o, j, i)
  <2>1. j \in 1..Len(o) /\ o1[j] = o[j]
    BY <1>1
  <2>2. j = i - 2 => o1[j + 1] = o[j + 1]
    BY <1>1
  <2>3. j <= i - 3 => (Intro(o1, j) <=> Intro(o, j))
    <3> SUFFICES ASSUME j <= i - 3 PROVE Intro(o1, j) <=> Intro(o, j)
      OBVIOUS
    <3>1. j + 1 \in 1..Len(o) /\ j + 2 \in 1..Len(o)
      BY <1>1
    <3> QED BY <1>1, <2>1, <3>1 DEF Intro
  <2>4. j <= i - 3 => \A m \in (j + 3)..(i - 1) : o1[m] = o[m]
    BY <1>1
  <2> QED BY <2>1, <2>2, <2>3, <2>4 DEF PartAt
<1> QED BY <1>2 DEF Amid, o1

\* The byte that ends a switch.
Ends(o, b) ==
  /\ Len(o) >= 4 /\ Intro(o, Len(o) - 3) /\ o[Len(o)] = "1" /\ b \in {"h", "l"}

LEMMA SwitchGrows ==
  ASSUME NEW o \in Seq(Bytes), NEW b \in Bytes, NEW i \in 1..(Len(o) + 1)
  PROVE  /\ i + 4 <= Len(o) => (Switch(Append(o, b), i) <=> Switch(o, i))
                               /\ Append(o, b)[i + 4] = o[i + 4]
         /\ i + 4 = Len(o) + 1 => (Switch(Append(o, b), i) <=> Ends(o, b))
                                  /\ Append(o, b)[i + 4] = b
         /\ i + 4 > Len(o) + 1 => ~Switch(Append(o, b), i)
         /\ i + 4 > Len(o) => ~Switch(o, i)
<1> DEFINE o1 == Append(o, b)
<1>1. Len(o) \in Nat /\ (\A k \in 1..Len(o) : o1[k] = o[k]) /\ Len(o1) = Len(o) + 1
      /\ o1[Len(o) + 1] = b
  BY AppendProperties, LenProperties
<1> HIDE DEF o1
<1>2. ASSUME i + 4 <= Len(o)
      PROVE  (Switch(o1, i) <=> Switch(o, i)) /\ o1[i + 4] = o[i + 4]
  <2>1. i \in 1..Len(o) /\ i + 1 \in 1..Len(o) /\ i + 2 \in 1..Len(o) /\ i + 3 \in 1..Len(o)
        /\ i + 4 \in 1..Len(o) /\ i + 4 <= Len(o) + 1
    BY <1>1, <1>2
  <2> QED BY <1>1, <1>2, <2>1 DEF Switch, Intro
<1>3. ASSUME i + 4 = Len(o) + 1
      PROVE  (Switch(o1, i) <=> Ends(o, b)) /\ o1[i + 4] = b
  <2>1. i \in 1..Len(o) /\ i + 1 \in 1..Len(o) /\ i + 2 \in 1..Len(o) /\ i + 3 \in 1..Len(o)
        /\ i = Len(o) - 3 /\ i + 3 = Len(o) /\ Len(o) >= 4
    BY <1>1, <1>3
  <2>2. o1[i] = o[i] /\ o1[i + 1] = o[i + 1] /\ o1[i + 2] = o[i + 2] /\ o1[i + 3] = o[Len(o)]
        /\ o1[i + 4] = b
    BY <1>1, <1>3, <2>1
  <2>3. Intro(o1, i) <=> Intro(o, Len(o) - 3)
    BY <2>1, <2>2 DEF Intro
  <2>4. i + 4 <= Len(o1)
    BY <1>1, <1>3
  <2> QED BY <2>1, <2>2, <2>3, <2>4 DEF Switch, Ends
<1>4. i + 4 > Len(o) + 1 => ~Switch(o1, i)
  BY <1>1 DEF Switch
<1>5. i + 4 > Len(o) => ~Switch(o, i)
  BY <1>1 DEF Switch
<1> QED BY <1>2, <1>3, <1>4, <1>5 DEF o1

\* Where the tracker is in a sequence is where the output ends.
StateIsEnd(o, t) ==
  LET n == Len(o)
      m == Len(t.param)
  IN  /\ t.state = "esc" => n >= 1 /\ o[n] = "esc"
      /\ t.state = "csi" => n >= 2 /\ o[n - 1] = "esc" /\ o[n] = "["
      /\ t.state = "csiQ" => n >= 3 /\ Intro(o, n - 2) /\ t.param = << >>
      /\ t.state = "csiQN" => /\ m >= 1 /\ n >= m + 3 /\ Intro(o, n - m - 2)
                              /\ \A i \in 1..m : o[n - m + i] = t.param[i]
                                                 /\ t.param[i] \in Digits \cup {";"}

\* A switch that begins outside any other sequence is followed byte by byte.
FollowsSwitch(o, t) ==
  LET n == Len(o)
  IN  /\ (n >= 1 /\ o[n] = "esc" /\ ~Amid(o, n)) => t.state = "esc"
      /\ (n >= 2 /\ o[n - 1] = "esc" /\ o[n] = "[" /\ ~Amid(o, n - 1)) => t.state = "csi"
      /\ (n >= 3 /\ Intro(o, n - 2) /\ ~Amid(o, n - 2)) => t.state = "csiQ"
      /\ (n >= 4 /\ Intro(o, n - 3) /\ o[n] = "1" /\ ~Amid(o, n - 3))
           => t.state = "csiQN" /\ t.param = <<"1">>

\* AskedModes, element by element.
Plain(o, i) == i \in 1..Len(o) /\ Switch(o, i) /\ ~Amid(o, i)
Asked(o, v) ==
  \/ \E i \in 1..Len(o) : /\ Switch(o, i) /\ (v <=> o[i + 4] = "h")
                          /\ \A k \in 1..Len(o) : Plain(o, k) => k <= i
  \/ v = FALSE /\ \A k \in 1..Len(o) : ~Plain(o, k)

Tracks(o, t) ==
  /\ o \in Seq(Bytes) /\ t \in Trackers
  /\ StateIsEnd(o, t) /\ FollowsSwitch(o, t) /\ Asked(o, t.DECCKM)

LEMMA AskedIs ==
  ASSUME NEW o \in Seq(Bytes), NEW v \in BOOLEAN, Asked(o, v)
  PROVE  v \in AskedModes(o)
<1> DEFINE sw == {i \in DOMAIN o : SwitchAt(o, i)}
           pl == {i \in sw : ~Unfinished(o, i)}
<1>1. Len(o) \in Nat /\ DOMAIN o = 1..Len(o)
  BY LenProperties
<1>2. \A i : i \in sw <=> i \in 1..Len(o) /\ Switch(o, i)
  BY <1>1, SwitchIs
<1>3. ASSUME NEW i PROVE i \in pl <=> i \in 1..Len(o) /\ Plain(o, i)
  <2>1. i \in 1..Len(o) => i \in 1..(Len(o) + 1)
    BY <1>1
  <2>2. i \in 1..Len(o) => (Unfinished(o, i) <=> Amid(o, i))
    BY <2>1, AmidIs
  <2> HIDE DEF sw
  <2> QED BY <1>2, <2>2 DEF Plain
<1>4. AskedModes(o) = {o[i + 4] = "h" : i \in {j \in sw : \A k \in pl : k <= j}}
                        \cup (IF pl = {} THEN {FALSE} ELSE {})
  BY DEF AskedModes
<1> HIDE DEF sw, pl
<1>5. CASE \E i \in 1..Len(o) : /\ Switch(o, i) /\ (v <=> o[i + 4] = "h")
                                /\ \A k \in 1..Len(o) : Plain(o, k) => k <= i
  <2>1. PICK i \in 1..Len(o) : /\ Switch(o, i) /\ (v <=> o[i + 4] = "h")
                               /\ \A k \in 1..Len(o) : Plain(o, k) => k <= i
    BY <1>5
  <2>2. i \in {j \in sw : \A k \in pl : k <= j}
    BY <1>2, <1>3, <2>1
  <2>3. v = (o[i + 4] = "h")
    BY <2>1
  <2> QED BY <1>4, <2>2, <2>3
<1>6. CASE v = FALSE /\ \A k \in 1..Len(o) : ~Plain(o, k)
  <2>1. pl = {}
    BY <1>3, <1>6
  <2> QED BY <1>4, <1>6, <2>1
<1> QED BY <1>5, <1>6 DEF Asked

\* What a byte does to the tracker, field by field.
LEMMA TrackFields ==
  ASSUME NEW t \in Trackers, NEW b \in Bytes
  PROVE  LET t1 == TrackByte(t, b)
         IN  /\ t.state = "normal" => /\ t1.state = IF b = "esc" THEN "esc" ELSE "normal"
                                      /\ t1.DECCKM = t.DECCKM
             /\ t.state = "esc" => /\ t1.state = IF b = "[" THEN "csi" ELSE "normal"
                                   /\ t1.DECCKM = t.DECCKM
             /\ t.state = "csi" => /\ t1.state = IF b = "?" THEN "csiQ" ELSE "normal"
                                   /\ b = "?" => t1.param = << >>
                                   /\ t1.DECCKM = t.DECCKM
             /\ t.state = "csiQ" => /\ t1.state = IF b \in Digits THEN "csiQN" ELSE "normal"
                                    /\ b \in Digits => t1.param = Append(t.param, b)
                                    /\ t1.DECCKM = t.DECCKM
             /\ t.state = "csiQN" =>
                  /\ t1.state = IF b \in Digits \cup {";"} THEN "csiQN" ELSE "normal"
                  /\ b \in Digits \cup {";"} => t1.param = Append(t.param, b)
                  /\ b \in {"h", "l"} /\ t.param = <<"1">> => (t1.DECCKM <=> b = "h")
                  /\ ~(b \in {"h", "l"} /\ t.param = <<"1">>) => t1.DECCKM = t.DECCKM
<1> DEFINE t1 == TrackByte(t, b)
<1>1. CASE t.state = "normal"
  BY <1>1 DEF TrackByte, Goto, Trackers
<1>2. CASE t.state = "esc"
  BY <1>2 DEF TrackByte, Goto, Trackers
<1>3. CASE t.state = "csi"
  BY <1>3 DEF TrackByte, Goto, Restart, Trackers
<1>4. CASE t.state = "csiQ"
  BY <1>4 DEF TrackByte, Goto, Digest, Trackers
<1>5. CASE t.state = "csiQN"
  <2>1. t1 = IF b \in Digits \cup {";"} THEN Digest(t, b)
             ELSE IF b \in {"h", "l"} THEN EndOfMode(t, b) ELSE Restart(t, "normal")
    BY <1>5 DEF TrackByte
  <2>2. Digest(t, b).state = "csiQN" /\ Digest(t, b).param = Append(t.param, b)
        /\ Digest(t, b).DECCKM = t.DECCKM
    BY DEF Digest, Trackers
  <2>3. Restart(t, "normal").state = "normal" /\ Restart(t, "normal").DECCKM = t.DECCKM
    BY DEF Restart, Trackers
  <2>4. EndOfMode(t, b).state = "normal"
        /\ EndOfMode(t, b).DECCKM = IF t.param = <<"1">> THEN b = "h" ELSE t.DECCKM
    BY DEF EndOfMode, Restart, Trackers
  <2>5. b \in {"h", "l"} => b \notin Digits \cup {";"}
    BY DEF Digits
  <2> HIDE DEF t1
  <2> QED BY <1>5, <2>1, <2>2, <2>3, <2>4, <2>5 DEF t1
<1>6. t.state \in {"normal", "esc", "csi", "csiQ", "csiQN"}
  BY DEF Trackers
<1> QED BY <1>1, <1>2, <1>3, <1>4, <1>5, <1>6

\* Within a sequence, the output ends in the middle of one.
LEMMA StateIsAmid ==
  ASSUME NEW o \in Seq(Bytes), NEW t \in Trackers, StateIsEnd(o, t), t.state # "normal"
  PROVE  Amid(o, Len(o) + 1)
<1> DEFINE n == Len(o)
<1>1. n \in Nat /\ n + 1 - 1 = n /\ n + 1 - 2 = n - 1 /\ n + 1 - 3 = n - 2
  BY LenProperties
<1>2. SUFFICES \E j \in 1..n : PartAt(o, j, n + 1)
  BY <1>1 DEF Amid
<1>3. CASE t.state = "esc"
  <2>1. n >= 1 /\ o[n] = "esc"
    BY <1>3 DEF StateIsEnd
  <2> HIDE DEF n
  <2>2. n \in 1..n
    BY <1>1, <2>1
  <2>3. PartAt(o, n, n + 1)
    <3> DEFINE i == n + 1
    <3>1. i \in Int /\ n \in Int /\ n = i - 1
      BY <1>1
    <3> HIDE DEF i
    <3>2. PartAt(o, n, i)
      BY <2>1, <3>1, PartOne
    <3> QED BY <3>2 DEF i
  <2> QED BY <2>2, <2>3
<1>4. CASE t.state = "csi"
  <2>1. n >= 2 /\ o[n - 1] = "esc" /\ o[n] = "["
    BY <1>4 DEF StateIsEnd
  <2> HIDE DEF n
  <2>2. n - 1 \in 1..n /\ n - 1 + 1 = n
    BY <1>1, <2>1
  <2>3. PartAt(o, n - 1, n + 1)
    <3> DEFINE i == n + 1
               j == n - 1
    <3>1. i \in Int /\ j \in Int /\ j = i - 2
      BY <1>1
    <3>2. o[j] = "esc" /\ o[j + 1] = "["
      BY <2>1, <2>2
    <3> HIDE DEF i, j
    <3>3. PartAt(o, j, i)
      BY <3>1, <3>2, PartTwo
    <3> QED BY <3>3 DEF i, j
  <2> QED BY <2>2, <2>3
<1>5. CASE t.state = "csiQ"
  <2>1. n >= 3 /\ Intro(o, n - 2)
    BY <1>5 DEF StateIsEnd
  <2> HIDE DEF n
  <2>2. n - 2 \in 1..n /\ (n - 2 + 3)..(n + 1 - 1) = {} /\ n - 2 <= n + 1 - 3
    BY <1>1, <2>1
  <2>3. PartAt(o, n - 2, n + 1)
    <3> DEFINE j == n - 2
               i == n + 1
    <3>1. j \in Int /\ i \in Int /\ j <= i - 3 /\ Intro(o, j) /\ (j + 3)..(i - 1) = {}
      BY <1>1, <2>1, <2>2
    <3> HIDE DEF i, j
    <3>2. PartAt(o, j, i)
      BY <3>1, PartMore
    <3> QED BY <3>2 DEF i, j
  <2> QED BY <2>2, <2>3
<1>6. CASE t.state = "csiQN"
  <2> DEFINE m == Len(t.param)
             j == n - m - 2
             i == n + 1
  <2>1. m >= 1 /\ n >= m + 3 /\ Intro(o, n - m - 2)
        /\ \A a \in 1..m : o[n - m + a] = t.param[a] /\ t.param[a] \in Digits \cup {";"}
    BY <1>6 DEF StateIsEnd
  <2>2. m \in Nat
    BY LenProperties DEF Trackers
  <2> HIDE DEF m, n
  <2>3. m >= 1 /\ n >= m + 3 /\ n \in Nat
    BY <1>1, <2>1
  <2>4. j \in 1..n /\ j <= n + 1 - 3
    BY <2>2, <2>3
  <2>5. ASSUME NEW k \in (j + 3)..(i - 1) PROVE o[k] \in Digits \cup {";"}
    <3> DEFINE a == k - n + m
    <3>1. a \in 1..m /\ n - m + a = k
      BY <2>2, <2>3
    <3> HIDE DEF a
    <3>2. o[n - m + a] \in Digits \cup {";"}
      BY <2>1, <3>1
    <3> QED BY <3>1, <3>2
  <2>6. Intro(o, j)
    BY <2>1
  <2> HIDE DEF j
  <2>7. PartAt(o, j, n + 1)
    <3>1. i \in Int /\ j \in Int /\ j <= i - 3
      BY <2>3, <2>4
    <3> HIDE DEF i
    <3>3. PartAt(o, j, i)
      BY <2>5, <2>6, <3>1, PartMore
    <3> QED BY <3>3 DEF i
  <2> QED BY <2>4, <2>7
<1> QED BY <1>3, <1>4, <1>5, <1>6 DEF Trackers

LEMMA StateIsEndByte ==
  ASSUME NEW o \in Seq(Bytes), NEW t \in Trackers, StateIsEnd(o, t), NEW b \in Bytes
  PROVE  StateIsEnd(Append(o, b), TrackByte(t, b))
<1> DEFINE n == Len(o)
           o1 == Append(o, b)
           t1 == TrackByte(t, b)
<1>1. n \in Nat /\ Len(o1) = n + 1 /\ o1[n + 1] = b /\ \A k \in 1..n : o1[k] = o[k]
  BY AppendProperties, LenProperties
<1>2. /\ t1.state = "esc" => t.state = "normal" /\ b = "esc"
      /\ t1.state = "csi" => t.state = "esc" /\ b = "["
      /\ t1.state = "csiQ" => t.state = "csi" /\ b = "?" /\ t1.param = << >>
      /\ t1.state = "csiQN" => /\ t.state = "csiQ" \/ t.state = "csiQN"
                               /\ b \in Digits \cup {";"} /\ t1.param = Append(t.param, b)
  <2>1. t.state \in {"normal", "esc", "csi", "csiQ", "csiQN"}
    BY DEF Trackers
  <2> QED BY <2>1, TrackFields
<1>3. /\ t.state = "esc" => n >= 1 /\ o[n] = "esc"
      /\ t.state = "csi" => n >= 2 /\ o[n - 1] = "esc" /\ o[n] = "["
      /\ t.state = "csiQ" => n >= 3 /\ Intro(o, n - 2) /\ t.param = << >>
      /\ t.state = "csiQN" =>
           /\ Len(t.param) >= 1 /\ n >= Len(t.param) + 3 /\ Intro(o, n - Len(t.param) - 2)
           /\ \A i \in 1..Len(t.param) : o[n - Len(t.param) + i] = t.param[i]
                                         /\ t.param[i] \in Digits \cup {";"}
  BY DEF StateIsEnd
<1>4. t.param \in Seq(Bytes) /\ Len(t.param) \in Nat
  BY LenProperties DEF Trackers
<1>5. /\ Len(Append(t.param, b)) = Len(t.param) + 1
      /\ Append(t.param, b)[Len(t.param) + 1] = b
      /\ \A i \in 1..Len(t.param) : Append(t.param, b)[i] = t.param[i]
  BY <1>4, AppendProperties
<1> HIDE DEF o1, t1, n
<1>6. t1.state = "esc" => n + 1 >= 1 /\ o1[n + 1] = "esc"
  BY <1>1, <1>2
<1>7. t1.state = "csi" => n + 1 >= 2 /\ o1[n + 1 - 1] = "esc" /\ o1[n + 1] = "["
  <2> SUFFICES ASSUME t1.state = "csi" PROVE n + 1 >= 2 /\ o1[n + 1 - 1] = "esc" /\ o1[n + 1] = "["
    OBVIOUS
  <2>1. n >= 1 /\ o[n] = "esc" /\ b = "["
    BY <1>2, <1>3
  <2>2. n \in 1..n /\ n + 1 - 1 = n /\ n + 1 >= 2
    BY <1>1, <2>1
  <2> QED BY <1>1, <2>1, <2>2
<1>8. t1.state = "csiQ" => n + 1 >= 3 /\ Intro(o1, n + 1 - 2) /\ t1.param = << >>
  <2> SUFFICES ASSUME t1.state = "csiQ" PROVE n + 1 >= 3 /\ Intro(o1, n + 1 - 2) /\ t1.param = << >>
    OBVIOUS
  <2>1. n >= 2 /\ o[n - 1] = "esc" /\ o[n] = "[" /\ b = "?" /\ t1.param = << >>
    BY <1>2, <1>3
  <2>2. n \in 1..n /\ n - 1 \in 1..n /\ n + 1 - 2 = n - 1 /\ n + 1 >= 3 /\ n - 1 + 1 = n
        /\ n - 1 + 2 = n + 1
    BY <1>1, <2>1
  <2> QED BY <1>1, <2>1, <2>2 DEF Intro
<1>9. ASSUME t1.state = "csiQN"
      PROVE  LET m1 == Len(t1.param)
             IN  /\ m1 >= 1 /\ n + 1 >= m1 + 3 /\ Intro(o1, n + 1 - m1 - 2)
                 /\ \A i \in 1..m1 : o1[n + 1 - m1 + i] = t1.param[i]
                                     /\ t1.param[i] \in Digits \cup {";"}
  <2> DEFINE m == Len(t.param)
  <2>1. b \in Digits \cup {";"} /\ t1.param = Append(t.param, b)
    BY <1>2, <1>9
  <2>2. /\ n >= m + 3 /\ Intro(o, n - m - 2)
        /\ \A i \in 1..m : o[n - m + i] = t.param[i] /\ t.param[i] \in Digits \cup {";"}
    <3>1. CASE t.state = "csiQ"
      <4>1. n >= 3 /\ Intro(o, n - 2) /\ m = 0
        BY <1>3, <3>1, EmptySeq
      <4>2. n - m - 2 = n - 2 /\ 1..m = {}
        BY <1>1, <4>1
      <4> QED BY <1>1, <4>1, <4>2
    <3>2. CASE t.state = "csiQN"
      BY <1>3, <3>2
    <3> QED BY <1>2, <1>9, <3>1, <3>2
  <2> DEFINE m1 == Len(t1.param)
  <2>3. m \in Nat /\ m1 = m + 1 /\ t1.param[m + 1] = b /\ \A i \in 1..m : t1.param[i] = t.param[i]
    BY <1>4, <1>5, <2>1
  <2> HIDE DEF m, m1
  <2>0. n \in Nat /\ m \in Nat /\ n >= m + 3 /\ m1 = m + 1
    BY <1>1, <2>2, <2>3
  <2>4. m1 >= 1 /\ n + 1 >= m1 + 3 /\ n + 1 - m1 - 2 = n - m - 2 /\ n + 1 - m1 = n - m
    BY <2>0
  <2>5. Intro(o1, n - m - 2)
    <3> DEFINE j == n - m - 2
    <3>1. j \in 1..n /\ j + 1 \in 1..n /\ j + 2 \in 1..n
      BY <2>0
    <3>2. Intro(o, j)
      BY <2>2
    <3> HIDE DEF j
    <3>3. Intro(o1, j)
      BY <1>1, <3>1, <3>2 DEF Intro
    <3> QED BY <3>3 DEF j
  <2>6. ASSUME NEW i \in 1..m1
        PROVE  o1[n - m + i] = t1.param[i] /\ t1.param[i] \in Digits \cup {";"}
    <3>1. CASE i \in 1..m
      <4>1. n - m + i \in 1..n
        BY <2>0, <3>1
      <4>2. o1[n - m + i] = o[n - m + i]
        BY <1>1, <4>1
      <4> QED BY <2>2, <2>3, <3>1, <4>2
    <3>2. CASE i = m + 1
      <4>1. n - m + i = n + 1
        BY <1>1, <2>3, <3>2
      <4> QED BY <1>1, <2>1, <2>3, <3>2, <4>1
    <3>3. i \in 1..m \/ i = m + 1
      BY <2>3
    <3> QED BY <3>1, <3>2, <3>3
  <2> QED BY <2>4, <2>5, <2>6 DEF m1
<1>10. Len(o1) = n + 1
  BY <1>1
<1>11. StateIsEnd(o1, t1)
  <2> DEFINE n1 == Len(o1)
  <2>1. n1 = n + 1
    BY <1>10
  <2> DEFINE k1 == n + 1
  <2>0. n1 = k1 /\ n \in Nat
    BY <1>1, <2>1
  <2> HIDE DEF n1, k1
  <2>2. /\ t1.state = "esc" => n1 >= 1 /\ o1[n1] = "esc"
        /\ t1.state = "csi" => n1 >= 2 /\ o1[n1 - 1] = "esc" /\ o1[n1] = "["
        /\ t1.state = "csiQ" => n1 >= 3 /\ Intro(o1, n1 - 2) /\ t1.param = << >>
    <3>1. /\ t1.state = "esc" => k1 >= 1 /\ o1[k1] = "esc"
          /\ t1.state = "csi" => k1 >= 2 /\ o1[k1 - 1] = "esc" /\ o1[k1] = "["
          /\ t1.state = "csiQ" => k1 >= 3 /\ Intro(o1, k1 - 2) /\ t1.param = << >>
      BY <1>6, <1>7, <1>8, <2>0 DEF k1
    <3> QED BY <2>0, <3>1
  <2>3. ASSUME t1.state = "csiQN"
        PROVE  /\ Len(t1.param) >= 1 /\ n1 >= Len(t1.param) + 3 /\ Intro(o1, n1 - Len(t1.param) - 2)
               /\ \A i \in 1..Len(t1.param) : o1[n1 - Len(t1.param) + i] = t1.param[i]
                                              /\ t1.param[i] \in Digits \cup {";"}
    <3>1. LET m1 == Len(t1.param)
          IN  /\ m1 >= 1 /\ k1 >= m1 + 3 /\ Intro(o1, k1 - m1 - 2)
              /\ \A i \in 1..m1 : o1[k1 - m1 + i] = t1.param[i]
                                  /\ t1.param[i] \in Digits \cup {";"}
      <4> DEFINE m1 == Len(t1.param)
      <4>1. m1 \in Nat
        <5>1. t1.param = Append(t.param, b)
          BY <1>2, <2>3
        <5> QED BY <1>4, <1>5, <5>1
      <4>2. m1 >= 1 /\ n + 1 >= m1 + 3 /\ Intro(o1, n + 1 - m1 - 2)
        BY <1>9, <2>3
      <4>3. \A i \in 1..m1 : o1[n + 1 - m1 + i] = t1.param[i] /\ t1.param[i] \in Digits \cup {";"}
        BY <1>9, <2>3
      <4> HIDE DEF m1
      <4>4. m1 >= 1 /\ k1 >= m1 + 3 /\ Intro(o1, k1 - m1 - 2)
        BY <2>0, <4>1, <4>2 DEF k1
      <4>5. ASSUME NEW i \in 1..m1
            PROVE  o1[k1 - m1 + i] = t1.param[i] /\ t1.param[i] \in Digits \cup {";"}
        <5>1. k1 - m1 + i = n + 1 - m1 + i
          BY <2>0, <4>1 DEF k1
        <5> QED BY <4>3, <5>1
      <4> QED BY <4>4, <4>5 DEF m1
    <3> QED BY <2>0, <3>1
  <2> QED BY <2>2, <2>3 DEF StateIsEnd, n1
<1> QED BY <1>11 DEF o1, t1

LEMMA FollowsSwitchByte ==
  ASSUME NEW o, NEW t, Tracks(o, t), NEW b \in Bytes
  PROVE  FollowsSwitch(Append(o, b), TrackByte(t, b))
<1> DEFINE n == Len(o)
           o1 == Append(o, b)
           n1 == Len(o1)
           t1 == TrackByte(t, b)
<1>1. o \in Seq(Bytes) /\ t \in Trackers /\ StateIsEnd(o, t) /\ FollowsSwitch(o, t)
  BY DEF Tracks
<1>2. n \in Nat /\ n1 = n + 1 /\ o1[n + 1] = b /\ \A k \in 1..n : o1[k] = o[k]
  BY <1>1, AppendProperties, LenProperties
<1>3. \A i \in 1..(n + 1) : Amid(o1, i) <=> Amid(o, i)
  BY <1>1, AmidStays
<1>4. /\ (n >= 1 /\ o[n] = "esc" /\ ~Amid(o, n)) => t.state = "esc"
      /\ (n >= 2 /\ o[n - 1] = "esc" /\ o[n] = "[" /\ ~Amid(o, n - 1)) => t.state = "csi"
      /\ (n >= 3 /\ Intro(o, n - 2) /\ ~Amid(o, n - 2)) => t.state = "csiQ"
  BY <1>1 DEF FollowsSwitch
<1>5. /\ t.state = "normal" /\ b = "esc" => t1.state = "esc"
      /\ t.state = "esc" /\ b = "[" => t1.state = "csi"
      /\ t.state = "csi" /\ b = "?" => t1.state = "csiQ"
      /\ t.state = "csiQ" /\ b = "1" => t1.state = "csiQN" /\ t1.param = Append(t.param, b)
  <2>1. b = "1" => b \in Digits
    BY DEF Digits
  <2>2. t \in Trackers
    BY <1>1
  <2>3. t.state = "normal" /\ b = "esc" => t1.state = "esc"
    BY <2>2, TrackFields
  <2>4. t.state = "esc" /\ b = "[" => t1.state = "csi"
    BY <2>2, TrackFields
  <2>5. t.state = "csi" /\ b = "?" => t1.state = "csiQ"
    BY <2>2, TrackFields
  <2>6. t.state = "csiQ" /\ b = "1" => t1.state = "csiQN" /\ t1.param = Append(t.param, b)
    BY <2>1, <2>2, TrackFields
  <2> HIDE DEF t1
  <2> QED BY <2>3, <2>4, <2>5, <2>6
<1>6. t.state = "csiQ" => t.param = << >>
  BY <1>1 DEF StateIsEnd
<1>7. t.state # "normal" => Amid(o, n + 1)
  BY <1>1, StateIsAmid
<1>8. n1 = n + 1 /\ n \in Nat
  BY <1>2
<1> HIDE DEF n, o1, n1, t1
<1>9. ASSUME n1 >= 1, o1[n1] = "esc", ~Amid(o1, n1) PROVE t1.state = "esc"
  <2>1. b = "esc"
    BY <1>2, <1>9
  <2>2. n + 1 \in 1..(n + 1)
    BY <1>8
  <2>3. ~Amid(o, n + 1)
    BY <1>3, <1>8, <1>9, <2>2
  <2> QED BY <1>5, <1>7, <2>1, <2>3
<1>10. ASSUME n1 >= 2, o1[n1 - 1] = "esc", o1[n1] = "[", ~Amid(o1, n1 - 1)
       PROVE  t1.state = "csi"
  <2>1. n >= 1 /\ n1 - 1 = n /\ n \in 1..n /\ n \in 1..(n + 1)
    BY <1>8, <1>10
  <2>2. o[n] = "esc" /\ b = "["
    BY <1>2, <1>10, <2>1
  <2>3. ~Amid(o, n)
    BY <1>3, <1>10, <2>1
  <2> QED BY <1>4, <1>5, <2>1, <2>2, <2>3
<1>11. ASSUME n1 >= 3, Intro(o1, n1 - 2), ~Amid(o1, n1 - 2)
       PROVE  t1.state = "csiQ"
  <2>1. n >= 2 /\ n1 - 2 = n - 1 /\ n \in 1..n /\ n - 1 \in 1..n /\ n - 1 \in 1..(n + 1)
        /\ n - 1 + 1 = n /\ n - 1 + 2 = n + 1
    BY <1>8, <1>11
  <2>2. o1[n - 1] = "esc" /\ o1[n] = "[" /\ o1[n + 1] = "?"
    BY <1>11, <2>1 DEF Intro
  <2>3. o[n - 1] = "esc" /\ o[n] = "[" /\ b = "?"
    BY <1>2, <2>1, <2>2
  <2>4. ~Amid(o, n - 1)
    BY <1>3, <1>11, <2>1
  <2> QED BY <1>4, <1>5, <2>1, <2>3, <2>4
<1>12. ASSUME n1 >= 4, Intro(o1, n1 - 3), o1[n1] = "1", ~Amid(o1, n1 - 3)
       PROVE  t1.state = "csiQN" /\ t1.param = <<"1">>
  <2>1. n >= 3 /\ n1 - 3 = n - 2 /\ n \in 1..n /\ n - 1 \in 1..n /\ n - 2 \in 1..n
        /\ n - 2 \in 1..(n + 1) /\ n - 2 + 1 = n - 1 /\ n - 2 + 2 = n
    BY <1>8, <1>12
  <2>2. o1[n - 2] = "esc" /\ o1[n - 1] = "[" /\ o1[n] = "?" /\ b = "1"
    BY <1>2, <1>12, <2>1 DEF Intro
  <2>3. o[n - 2] = "esc" /\ o[n - 1] = "[" /\ o[n] = "?"
    BY <1>2, <2>1, <2>2
  <2>4. Intro(o, n - 2)
    BY <2>1, <2>3 DEF Intro
  <2>5. ~Amid(o, n - 2)
    BY <1>3, <1>12, <2>1
  <2>6. t.state = "csiQ"
    BY <1>4, <2>1, <2>4, <2>5
  <2>7. Append(<< >>, "1") = <<"1">>
    OBVIOUS
  <2> QED BY <1>5, <1>6, <2>2, <2>6, <2>7
<1>13. FollowsSwitch(o1, t1)
  BY <1>9, <1>10, <1>11, <1>12 DEF FollowsSwitch, n1
<1> QED BY <1>13 DEF o1, t1

LEMMA AskedByte ==
  ASSUME NEW o, NEW t, Tracks(o, t), NEW b \in Bytes
  PROVE  Asked(Append(o, b), TrackByte(t, b).DECCKM)
<1> DEFINE n == Len(o)
           o1 == Append(o, b)
           t1 == TrackByte(t, b)
           v == t.DECCKM
           v1 == t1.DECCKM
           hit == t.state = "csiQN" /\ t.param = <<"1">> /\ b \in {"h", "l"}
<1>1. o \in Seq(Bytes) /\ t \in Trackers /\ StateIsEnd(o, t) /\ FollowsSwitch(o, t) /\ Asked(o, v)
  BY DEF Tracks
<1>2. n \in Nat /\ Len(o1) = n + 1 /\ 1..Len(o1) = 1..(n + 1)
  BY <1>1, AppendProperties, LenProperties
<1>3. ASSUME NEW i \in 1..(n + 1)
      PROVE  /\ i + 4 <= n => (Switch(o1, i) <=> Switch(o, i)) /\ o1[i + 4] = o[i + 4]
             /\ i + 4 = n + 1 => (Switch(o1, i) <=> Ends(o, b)) /\ o1[i + 4] = b
             /\ i + 4 > n + 1 => ~Switch(o1, i)
             /\ i + 4 > n => ~Switch(o, i)
             /\ Amid(o1, i) <=> Amid(o, i)
  <2>1. Amid(o1, i) <=> Amid(o, i)
    BY <1>1, AmidStays
  <2> QED BY <1>1, <2>1, SwitchGrows
<1>4. (hit => (v1 <=> b = "h")) /\ (~hit => v1 = v)
  <2>1. t.state \in {"normal", "esc", "csi", "csiQ", "csiQN"}
    BY <1>1 DEF Trackers
  <2> QED BY <1>1, <2>1, TrackFields
<1>5. hit => Ends(o, b)
  <2> SUFFICES ASSUME hit PROVE Ends(o, b)
    OBVIOUS
  <2>1. Len(<<"1">>) = 1 /\ <<"1">>[1] = "1"
    OBVIOUS
  <2>2. n >= 1 + 3 /\ Intro(o, n - 1 - 2) /\ \A i \in 1..1 : o[n - 1 + i] = <<"1">>[i]
    BY <1>1, <2>1 DEF StateIsEnd
  <2>3. n - 1 - 2 = n - 3 /\ n - 1 + 1 = n /\ 1 \in 1..1
    BY <1>2
  <2>4. n >= 4 /\ Intro(o, n - 3) /\ o[n] = "1"
    BY <2>1, <2>2, <2>3
  <2> QED BY <2>4 DEF Ends
<1>6. Ends(o, b) => n >= 4 /\ n - 3 \in 1..n /\ n - 3 \in 1..(n + 1) /\ n - 3 + 4 = n + 1
  BY <1>2 DEF Ends
<1>7. Ends(o, b) /\ ~hit => Amid(o, n - 3)
  BY <1>1, <1>6 DEF Ends, FollowsSwitch
<1> HIDE DEF n, o1, t1, v, v1, hit
\* The switches that were plain are, and the new one if the tracker took it.
<1>8. ASSUME NEW k \in 1..(n + 1), Plain(o1, k)
      PROVE  (Plain(o, k) /\ k \in 1..n) \/ (hit /\ k = n - 3)
  <2>1. Switch(o1, k) /\ ~Amid(o, k)
    BY <1>3, <1>8 DEF Plain
  <2>2. CASE k + 4 <= n
    <3>1. k \in 1..n
      BY <1>2, <2>2
    <3>2. Switch(o, k)
      BY <1>3, <2>1, <2>2
    <3>3. Plain(o, k)
      BY <2>1, <3>1, <3>2 DEF Plain, n
    <3> QED BY <3>1, <3>3
  <2>3. CASE k + 4 = n + 1
    <3>1. Ends(o, b) /\ k = n - 3
      BY <1>2, <1>3, <2>1, <2>3
    <3> QED BY <1>7, <2>1, <3>1
  <2>4. CASE k + 4 > n + 1
    BY <1>3, <2>1, <2>4
  <2> QED BY <1>2, <2>2, <2>3, <2>4
<1>9. CASE hit
  <2>1. n - 3 \in 1..(n + 1) /\ n - 3 \in 1..n /\ n - 3 + 4 = n + 1 /\ Ends(o, b)
    BY <1>5, <1>6, <1>9
  <2>2. Switch(o1, n - 3) /\ o1[n - 3 + 4] = b
    BY <1>3, <2>1
  <2>3. ASSUME NEW k \in 1..(n + 1), Plain(o1, k) PROVE k <= n - 3
    <3>1. CASE Plain(o, k) /\ k \in 1..n
      <4>1. Switch(o, k)
        BY <3>1 DEF Plain
      <4>2. ~(k + 4 > n)
        BY <1>3, <4>1
      <4> QED BY <1>2, <4>2
    <3>2. CASE k = n - 3
      BY <1>2, <3>2
    <3> QED BY <1>8, <2>3, <3>1, <3>2
  <2>4. v1 <=> o1[n - 3 + 4] = "h"
    BY <1>4, <1>9, <2>2
  <2>5. Asked(o1, v1)
    BY <1>2, <2>1, <2>2, <2>3, <2>4 DEF Asked
  <2> QED BY <2>5 DEF o1, v1, t1
<1>10. CASE ~hit
  <2>1. v1 = v
    BY <1>4, <1>10
  <2>2. CASE \E i \in 1..Len(o) : /\ Switch(o, i) /\ (v <=> o[i + 4] = "h")
                                  /\ \A k \in 1..Len(o) : Plain(o, k) => k <= i
    <3>1. PICK i \in 1..n : /\ Switch(o, i) /\ (v <=> o[i + 4] = "h")
                            /\ \A k \in 1..n : Plain(o, k) => k <= i
      BY <2>2 DEF n
    <3>2. i \in 1..(n + 1)
      BY <1>2
    <3>3. i + 4 <= n
      <4>1. ~(i + 4 > n)
        BY <1>3, <3>1, <3>2
      <4> QED BY <1>2, <4>1
    <3>4. Switch(o1, i) /\ o1[i + 4] = o[i + 4]
      BY <1>3, <3>1, <3>2, <3>3
    <3>5. ASSUME NEW k \in 1..(n + 1), Plain(o1, k) PROVE k <= i
      BY <1>8, <1>10, <3>1, <3>5
    <3>6. Asked(o1, v1)
      BY <1>2, <2>1, <3>1, <3>2, <3>4, <3>5 DEF Asked
    <3> QED BY <3>6 DEF o1, v1, t1
  <2>3. CASE v = FALSE /\ \A k \in 1..Len(o) : ~Plain(o, k)
    <3>1. \A k \in 1..n : ~Plain(o, k)
      BY <2>3 DEF n
    <3>2. \A k \in 1..(n + 1) : ~Plain(o1, k)
      BY <1>8, <1>10, <3>1
    <3>3. Asked(o1, v1)
      BY <1>2, <2>1, <2>3, <3>2 DEF Asked
    <3> QED BY <3>3 DEF o1, v1, t1
  <2> QED BY <1>1, <2>2, <2>3 DEF Asked
<1> QED BY <1>9, <1>10

LEMMA TracksByte ==
  ASSUME NEW o, NEW t, Tracks(o, t), NEW b \in Bytes
  PROVE  Tracks(Append(o, b), TrackByte(t, b))
<1>1. o \in Seq(Bytes) /\ t \in Trackers /\ StateIsEnd(o, t)
  BY DEF Tracks
<1>2. Append(o, b) \in Seq(Bytes)
  BY <1>1, AppendProperties
<1>3. TrackByte(t, b) \in Trackers
  BY <1>1, TrackByteType
<1>4. StateIsEnd(Append(o, b), TrackByte(t, b))
  BY <1>1, StateIsEndByte
<1>5. FollowsSwitch(Append(o, b), TrackByte(t, b)) /\ Asked(Append(o, b), TrackByte(t, b).DECCKM)
  BY FollowsSwitchByte, AskedByte
<1> QED BY <1>2, <1>3, <1>4, <1>5 DEF Tracks

\* A read is followed byte by byte, wherever it was cut.
LEMMA TracksText ==
  ASSUME NEW o, NEW t, Tracks(o, t), NEW p \in Seq(Bytes)
  PROVE  Tracks(o \o p, process(t, p))
<1> DEFINE n == Len(p)
           oo(k) == o \o SubSeq(p, 1, k)
<1>1. n \in Nat /\ (\A i \in 1..n : p[i] \in Bytes) /\ o \in Seq(Bytes) /\ t \in Trackers
  BY ElementOfSeq DEF Tracks
<1>2. PICK h : /\ h[0] = t /\ process(t, p) = h[n]
               /\ \A k \in 0..n : h[k] \in Trackers
               /\ \A k \in 0..(n - 1) : h[k + 1] = TrackByte(h[k], p[k + 1])
  BY <1>1, ProcessSteps
<1> DEFINE T == {k \in 0..n : Tracks(oo(k), h[k])}
<1>3. 0 \in T
  <2>1. SubSeq(p, 1, 0) = << >> /\ o \o << >> = o
    BY <1>1, SubSeqEmpty, ConcatEmptySeq
  <2>2. oo(0) = o /\ 0 \in 0..n
    BY <1>1, <2>1
  <2> HIDE DEF oo
  <2> QED BY <1>2, <2>2
<1>4. ASSUME NEW k \in 0..(n - 1), k \in T PROVE k + 1 \in T
  <2> DEFINE p1 == SubSeq(p, 1, k)
             b == p[k + 1]
  <2>1. k + 1 \in 1..n /\ 1 \in 1..n /\ k + 1 \in 0..n /\ k + 1 - 1 = k /\ b \in Bytes
    BY <1>1
  <2>2. p1 \in Seq(Bytes)
    <3>1. \A i \in 1..k : p[i] \in Bytes
      BY <1>1
    <3> QED BY <3>1, SubSeqProperties
  <2>3. SubSeq(p, 1, k + 1) = p1 \o <<b>>
    <3>1. SubSeq(p, 1, k + 1) = SubSeq(p, 1, k + 1 - 1) \o <<p[k + 1]>>
      BY <2>1, SubSeqRecursiveSecond
    <3> QED BY <2>1, <3>1
  <2> HIDE DEF p1, b
  <2>4. oo(k + 1) = Append(oo(k), b)
    <3> DEFINE y == <<b>>
    <3>1. oo(k) = o \o p1 /\ oo(k + 1) = o \o (p1 \o y) /\ y \in Seq(Bytes)
      BY <2>1, <2>3 DEF p1
    <3>2. Append(o \o p1, b) = (o \o p1) \o y
      <4>1. o \o p1 \in Seq(Bytes)
        BY <1>1, <2>2, ConcatProperties
      <4> QED BY <2>1, <4>1, AppendIsConcat
    <3> HIDE DEF y, oo
    <3>3. (o \o p1) \o y = o \o (p1 \o y)
      BY <1>1, <2>2, <3>1, Regroup
    <3> QED BY <3>1, <3>2, <3>3
  <2>5. Tracks(oo(k), h[k])
    BY <1>4
  <2>6. h[k + 1] = TrackByte(h[k], b)
    BY <1>2 DEF b
  <2> HIDE DEF oo
  <2>7. Tracks(oo(k + 1), h[k + 1])
    <3> DEFINE u == h[k]
               w == oo(k)
    <3>1. Tracks(w, u)
      BY <2>5
    <3> HIDE DEF u, w
    <3>2. Tracks(Append(w, b), TrackByte(u, b))
      BY <2>1, <3>1, TracksByte
    <3> QED BY <2>4, <2>6, <3>2 DEF u, w
  <2> QED BY <2>1, <2>7
<1>5. n \in T
  <2> HIDE DEF T
  <2>1. n \in 0..n
    BY <1>1
  <2> QED BY <1>1, <1>3, <1>4, <2>1, UpTo
<1>6. SubSeq(p, 1, n) = p
  BY SubSeqFull
<1> QED BY <1>2, <1>5, <1>6

\* The bytes that begin no sequence.
Silent == Bytes \ {"esc"}

\* The inductive invariant of ArrowsAsAsked: only a PTY has a tracker.
ArrowInv ==
  IF side = "pty" THEN Tracks(out, tracker)
                  ELSE tracker = NewTracker /\ out \in Seq(Silent)

LEMMA ArrowInvInit == TermInit => ArrowInv
<1> SUFFICES ASSUME TermInit PROVE ArrowInv
  OBVIOUS
<1>1. out = << >> /\ tracker = NewTracker
  BY DEF TermInit
<1>2. << >> \in Seq(Bytes) /\ << >> \in Seq(Silent) /\ Len(<< >>) = 0
  BY EmptySeq
<1>3. NewTracker \in Trackers /\ NewTracker.state = "normal" /\ NewTracker.DECCKM = FALSE
  BY <1>2 DEF NewTracker, Trackers
<1>4. StateIsEnd(<< >>, NewTracker)
  BY <1>3 DEF StateIsEnd
<1>5. FollowsSwitch(<< >>, NewTracker)
  BY <1>2 DEF FollowsSwitch
<1>6. Asked(<< >>, NewTracker.DECCKM)
  <2>1. 1..Len(<< >>) = {}
    BY <1>2
  <2> QED BY <1>3, <2>1 DEF Asked
<1>7. Tracks(<< >>, NewTracker)
  BY <1>2, <1>3, <1>4, <1>5, <1>6 DEF Tracks
<1> QED BY <1>1, <1>2, <1>7 DEF ArrowInv

LEMMA ReadTypes ==
  ASSUME NEW data \in Reads
  PROVE  data \in Seq(Bytes) /\ Len(data) # 3
<1> DEFINE semi == ";"
<1>1. /\ "esc" \in Bytes /\ "[" \in Bytes /\ "?" \in Bytes /\ "1" \in Bytes
      /\ "h" \in Bytes /\ "l" \in Bytes /\ "x" \in Bytes
  BY DEF Bytes
<1>2. semi \in Bytes
  BY Zenon DEF Bytes
<1> DEFINE Good(d) == d \in Seq(Bytes) /\ Len(d) # 3
<1>3. data \in {<<"esc">>, <<"[", "?">>, <<"1">>, <<semi, "1">>, <<"h">>, <<"l", "x">>,
          <<"esc", "[", "?", "1", "h">>, <<"x", "esc", "[", "?", "1", "l">>}
  BY DEF Reads
<1> HIDE DEF semi
<1>4. Good(<<"esc">>) /\ Good(<<"1">>) /\ Good(<<"h">>)
  BY <1>1
<1>5. Good(<<"[", "?">>) /\ Good(<<semi, "1">>) /\ Good(<<"l", "x">>)
  BY <1>1, <1>2
<1>6. Good(<<"esc", "[", "?", "1", "h">>)
  BY <1>1
<1>7. Good(<<"x", "esc", "[", "?", "1", "l">>)
  BY <1>1
<1> HIDE DEF Good
<1>8. Good(data)
  BY <1>3, <1>4, <1>5, <1>6, <1>7
<1> QED BY <1>8 DEF Good

\* A simulated program's text begins no sequence, nor does what becomes of it.
LEMMA SilentText ==
  ASSUME NEW p \in Texts \cup Frames \cup {<<"x">>}, NEW c
  PROVE  Translated(c, p) \in Seq(Silent)
<1>1. "x" \in Silent /\ "cr" \in Silent /\ "lf" \in Silent
  BY DEF Silent, Bytes
<1>2. p \in Seq(Silent)
  <2>1. /\ <<"x">> \in Seq(Silent) /\ <<"lf">> \in Seq(Silent) /\ <<"cr">> \in Seq(Silent)
        /\ <<"x", "lf">> \in Seq(Silent) /\ <<"cr", "lf", "x", "lf">> \in Seq(Silent)
        /\ <<"cr", "lf", "x", "x", "cr">> \in Seq(Silent)
    BY <1>1
  <2>2. p \in {<<"x">>, <<"lf">>, <<"cr">>, <<"x", "lf">>, <<"cr", "lf", "x", "lf">>,
               <<"cr", "lf", "x", "x", "cr">>}
    BY DEF Texts, Frames
  <2> QED BY <2>1, <2>2
<1> DEFINE n == Len(p)
           q == [i \in DOMAIN p |->
                   IF p[i] = "lf" /\ ~(IF i = 1 THEN c ELSE p[i - 1] = "cr")
                     THEN <<"cr", "lf">> ELSE <<p[i]>>]
<1>3. n \in Nat /\ DOMAIN p = 1..n /\ \A i \in 1..n : p[i] \in Silent
  BY <1>2, ElementOfSeq
<1>4. <<"cr", "lf">> \in Seq(Silent) /\ \A i \in 1..n : <<p[i]>> \in Seq(Silent)
  BY <1>1, <1>3
<1>5. q \in [1..n -> Seq(Silent)]
  BY <1>3, <1>4
<1>6. Translated(c, p) = FlattenSeq(q)
  BY DEF Translated
<1> HIDE DEF q
<1>7. q \in Seq(Seq(Silent))
  BY <1>3, <1>5, SeqDef
<1> QED BY <1>6, <1>7, FlattenType

LEMMA ArrowInvNext ==
  ASSUME ArrowInv, [TermNext]_termVars
  PROVE  ArrowInv'
<1>1. CASE \E data \in Reads : PtyRead(data)
  <2>1. PICK data \in Reads : PtyRead(data)
    BY <1>1
  <2>2. side = "pty" /\ side' = side /\ tracker' = process(tracker, data) /\ out' = out \o data
    BY <2>1 DEF PtyRead
  <2>3. Tracks(out, tracker) /\ data \in Seq(Bytes)
    BY <2>2, ReadTypes DEF ArrowInv
  <2>4. Tracks(out \o data, process(tracker, data))
    BY <2>3, TracksText
  <2> QED BY <2>2, <2>4 DEF ArrowInv
<1>2. CASE (\E p \in Texts : TtyWrite(p)) \/ (\E p \in Frames : Frame(p)) \/ ClearScreen
  <2>1. PICK p \in Texts \cup Frames \cup {<<"x">>} : TtyEmits(p)
    <3>1. ASSUME ClearScreen PROVE \E p \in {<<"x">>} : TtyEmits(p)
      BY <3>1 DEF ClearScreen
    <3>2. ASSUME (\E p \in Texts : TtyWrite(p)) \/ (\E p \in Frames : Frame(p))
          PROVE  \E p \in Texts \cup Frames : TtyEmits(p)
      BY <3>2 DEF TtyWrite, Frame
    <3> QED BY <1>2, <3>1, <3>2
  <2>2. side = "tty" /\ side' = side /\ tracker' = tracker /\ out' = out \o Translated(tty.lastCR, p)
    BY <2>1 DEF TtyEmits
  <2>3. tracker = NewTracker /\ out \in Seq(Silent)
    BY <2>2 DEF ArrowInv
  <2>4. out' \in Seq(Silent)
    <3> DEFINE y == Translated(tty.lastCR, p)
    <3>1. y \in Seq(Silent)
      <4> DEFINE c == tty.lastCR
      <4> HIDE DEF c
      <4>1. Translated(c, p) \in Seq(Silent)
        BY SilentText
      <4> QED BY <4>1 DEF c
    <3> HIDE DEF y
    <3>2. out \o y \in Seq(Silent)
      BY <2>3, <3>1, ConcatProperties
    <3> QED BY <2>2, <3>2 DEF y
  <2> QED BY <2>2, <2>3, <2>4 DEF ArrowInv
<1>3. CASE RingWrite \/ (\E n \in 1..(Len(Input) - fed) : KeyWrite(n)) \/ UNCHANGED termVars
  <2>1. UNCHANGED <<side, out, tracker>>
    BY <1>3 DEF RingWrite, KeyWrite, termVars, outVars
  <2> QED BY <2>1 DEF ArrowInv
<1> QED BY <1>1, <1>2, <1>3 DEF TermNext

\* However a program's output is cut into reads, an arrow key comes to it in
\* the form that it asked for last (process, transformInput).
THEOREM ArrowsAlwaysAsAsked == TermSpec => []ArrowsAsAsked
<1> DEFINE arrow == <<"esc", "[", "A">>
           inForm(app) == IF app THEN <<"esc", "O", "A">> ELSE arrow
<1>1. ArrowInv => ArrowsAsAsked
  <2> SUFFICES ASSUME ArrowInv
               PROVE  /\ transformInput(tracker, arrow) \in {inForm(app) : app \in AskedModes(out)}
                      /\ \A data \in Reads \cup {arrow \o arrow} : transformInput(tracker, data) = data
    BY DEF ArrowsAsAsked
  <2>1. tracker.DECCKM \in AskedModes(out)
    <3>1. CASE side = "pty"
      <4>1. out \in Seq(Bytes) /\ tracker.DECCKM \in BOOLEAN /\ Asked(out, tracker.DECCKM)
        BY <3>1 DEF ArrowInv, Tracks, Trackers
      <4> DEFINE v == tracker.DECCKM
      <4> HIDE DEF v
      <4>2. v \in AskedModes(out)
        BY <4>1, AskedIs DEF v
      <4> QED BY <4>2 DEF v
    <3>2. CASE side # "pty"
      <4>1. tracker.DECCKM = FALSE /\ out \in Seq(Silent)
        BY <3>2 DEF ArrowInv, NewTracker
      <4>2. out \in Seq(Bytes)
        BY <4>1, SeqMonotonic DEF Silent
      <4>3. \A i \in 1..Len(out) : out[i] # "esc"
        BY <4>1, ElementOfSeq DEF Silent
      <4>4. \A i \in 1..Len(out) : ~Plain(out, i)
        BY <4>3 DEF Plain, Switch, Intro
      <4> DEFINE v == FALSE
      <4>5. v \in BOOLEAN /\ Asked(out, v)
        BY <4>4 DEF Asked
      <4> HIDE DEF v
      <4>6. v \in AskedModes(out)
        BY <4>2, <4>5, AskedIs
      <4> QED BY <4>1, <4>6 DEF v
    <3> QED BY <3>1, <3>2
  <2>2. transformInput(tracker, arrow) = inForm(tracker.DECCKM)
    <3>1. Len(arrow) = 3 /\ arrow[1] = "esc" /\ arrow[2] = "[" /\ arrow[3] = "A" /\ "A" \in Arrows
      BY DEF Arrows
    <3>2. LoneArrow(arrow)
      BY <3>1 DEF LoneArrow
    <3> QED BY <3>1, <3>2 DEF transformInput
  <2>3. ASSUME NEW data \in Reads \cup {arrow \o arrow} PROVE transformInput(tracker, data) = data
    <3>1. Len(data) # 3
      <4>1. Len(arrow \o arrow) = 6
        OBVIOUS
      <4> QED BY <4>1, ReadTypes
    <3> QED BY <3>1 DEF transformInput, LoneArrow
  <2> QED BY <2>1, <2>2, <2>3
<1>2. ArrowInv /\ [TermNext]_termVars => ArrowInv'
  BY ArrowInvNext
<1> QED BY <1>1, <1>2, ArrowInvInit, PTL DEF TermSpec

-----------------------------------------------------------------------------
(* The terminals' replay ring *)

\* What waits to be written to the ring is a text.
PendInv == Inv /\ pend \in Seq(Bytes)

LEMMA TranslatedType ==
  ASSUME NEW p \in Texts \cup Frames \cup {<<"x">>}, NEW c
  PROVE  Translated(c, p) \in Seq(Bytes) /\ Len(Translated(c, p)) \in Nat
<1>1. Translated(c, p) \in Seq(Silent)
  BY SilentText
<1>2. Translated(c, p) \in Seq(Bytes)
  BY <1>1, SeqMonotonic DEF Silent
<1> QED BY <1>2, LenProperties

LEMMA PendInvNext ==
  ASSUME PendInv, [TermNext]_termVars
  PROVE  PendInv'
<1> DEFINE Turns == (\E n \in Nat : Write(n)) \/ Reset \/ UNCHANGED vars
<1>0. Turns => Inv'
  BY StepInv DEF PendInv
<1>1. CASE \E data \in Reads : PtyRead(data)
  <2>1. PICK data \in Reads : PtyRead(data)
    BY <1>1
  <2>2. pend' = data /\ UNCHANGED vars
    BY <2>1 DEF PtyRead, ringVars
  <2> QED BY <1>0, <2>2, ReadTypes DEF PendInv
<1>2. CASE RingWrite
  <2>1. Len(pend) \in Nat /\ << >> \in Seq(Bytes)
    BY LenProperties, EmptySeq DEF PendInv
  <2>2. Write(Len(pend)) /\ pend' = << >>
    BY <1>2 DEF RingWrite
  <2>3. Inv'
    BY <1>0, <2>1, <2>2
  <2> QED BY <2>1, <2>2, <2>3 DEF PendInv
<1>3. CASE \E p \in Texts : TtyWrite(p)
  <2>1. PICK p \in Texts : TtyWrite(p)
    BY <1>3
  <2> DEFINE c == tty.lastCR
             m == Len(Translated(c, p))
  <2>2. Write(m) /\ pend' = pend
    BY <2>1 DEF TtyWrite
  <2>3. m \in Nat
    <3> HIDE DEF c
    <3> QED BY TranslatedType
  <2> HIDE DEF m
  <2>4. Inv'
    BY <1>0, <2>2, <2>3
  <2> QED BY <2>2, <2>4 DEF PendInv
<1>4. CASE \E p \in Frames : Frame(p)
  <2>1. PICK p \in Frames : Frame(p)
    BY <1>4
  <2> DEFINE c == tty.lastCR
             y == Translated(c, p)
  <2>2. Reset /\ pend' = y
    BY <2>1 DEF Frame
  <2>3. y \in Seq(Bytes)
    <3> HIDE DEF c
    <3> QED BY TranslatedType
  <2> HIDE DEF y
  <2> QED BY <1>0, <2>2, <2>3 DEF PendInv
<1>5. CASE ClearScreen
  <2>1. Reset /\ pend' = <<"x">>
    BY <1>5 DEF ClearScreen
  <2>2. <<"x">> \in Texts \cup Frames \cup {<<"x">>}
    OBVIOUS
  <2>3. <<"x">> \in Seq(Bytes)
    BY <2>2, TextTypes
  <2> QED BY <1>0, <2>1, <2>3 DEF PendInv
<1>6. CASE (\E n \in 1..(Len(Input) - fed) : KeyWrite(n)) \/ UNCHANGED termVars
  <2>1. UNCHANGED vars /\ pend' = pend
    BY <1>6 DEF KeyWrite, termVars, ringVars, outVars
  <2> QED BY <1>0, <2>1 DEF PendInv
<1> QED BY <1>1, <1>2, <1>3, <1>4, <1>5, <1>6 DEF TermNext

\* In a terminal too the replay ring holds the last Size bytes of the output
\* since the last frame, whatever reads, writes and frames came before (emit,
\* EmitReset, TTY.Frame).
THEOREM TerminalRingExact == TermSpec => []SnapshotExact
<1>1. TermInit => PendInv
  BY InitInv, EmptySeq DEF TermInit, PendInv
<1>2. PendInv /\ [TermNext]_termVars => PendInv'
  BY PendInvNext
<1>3. PendInv => SnapshotExact
  BY LayoutSnapshot DEF PendInv
<1> QED BY <1>1, <1>2, <1>3, PTL DEF TermSpec

-----------------------------------------------------------------------------
(* Keys as typed *)

\* The decoder after the first r bytes of a stroke, and whether it remembers
\* a CR in front of it; a rune's first byte makes it forget.
Partway(d, st, r) ==
  IF r = 0 THEN d.state = "ground" /\ d.utf = << >>
  ELSE IF st.bytes[1] = "lead"
    THEN d.state = "ground" /\ d.utf = IF r = 1 THEN <<"lead">> ELSE <<"lead", "cont">>
  ELSE d.utf = << >> /\
    IF r = 1 THEN d.state = "esc"
    ELSE IF st.bytes[2] = "O" THEN d.state = "ss3"
    ELSE \/ d.state = "csi" /\ Len(d.params) = r - 2 /\ (r = 3 => d.params = <<"3">>)
         \/ d.state = "discard" /\ r >= 4
Remembers(d, st, r, cr) == (r = 0 \/ st.bytes[1] # "lead") => d.lastCR = cr

\* What a stroke is read as after a CR or not, and whether a CR is remembered
\* after it.
KeysFor(st, cr) == IF st = LineFeed /\ cr THEN << >> ELSE st.keys
CRAfter(st, cr) == st = Enter \/ (cr /\ st \in Special \cup {Escape})

\* The stroke's next byte is read as a byte of that stroke.
ReadsNext(d, ks, st, r, last, cr) ==
  LET e == FeedByte(d, ks, st.bytes[r + 1], last)
  IN  IF r + 1 < Len(st.bytes)
        THEN Partway(e.dec, st, r + 1) /\ Remembers(e.dec, st, r + 1, cr) /\ e.keys = ks
        ELSE /\ Partway(e.dec, st, 0) /\ e.dec.lastCR = CRAfter(st, cr)
             /\ e.keys = ks \o KeysFor(st, cr)

\* Appending a key keeps a sequence of keys.
LEMMA KeyAppended ==
  ASSUME NEW ks \in Seq(Keys), NEW key \in Keys
  PROVE  /\ Append(ks, key) = ks \o <<key>> /\ Append(ks, key) \in Seq(Keys)
         /\ \A k \in Keys : Append(Append(ks, key), k) = ks \o <<key, k>>
OBVIOUS

\* What the decoder does with a byte in the ground state (feedByte).
LEMMA GroundReads ==
  ASSUME NEW d \in Decoders, d.state = "ground", d.utf = << >>, NEW ks \in Seq(Keys),
         NEW last \in BOOLEAN
  PROVE  /\ FeedByte(d, ks, "cr", last) = Result([d EXCEPT !.lastCR = TRUE], Append(ks, "enter"))
         /\ FeedByte(d, ks, "lf", last) = Result([d EXCEPT !.lastCR = FALSE],
                                                 IF d.lastCR THEN ks ELSE Append(ks, "enter"))
         /\ FeedByte(d, ks, "x", last) = Result([d EXCEPT !.lastCR = FALSE], Append(ks, "x"))
         /\ FeedByte(d, ks, "bs", last) = Result([d EXCEPT !.lastCR = FALSE], Append(ks, "backspace"))
         /\ FeedByte(d, ks, "lead", last)
              = Result([[d EXCEPT !.lastCR = FALSE] EXCEPT !.utf = <<"lead">>], ks)
         /\ last => FeedByte(d, ks, "esc", last) = Result(d, Append(ks, "esc"))
         /\ ~last => FeedByte(d, ks, "esc", last) = Result([d EXCEPT !.state = "esc"], ks)
<1>1. \A b : FeedByte(d, ks, b, last) = InGround(d, ks, b, last)
  BY DEF FeedByte
<1>2. /\ last => InGround(d, ks, "esc", last) = Result(d, Append(ks, "esc"))
      /\ ~last => InGround(d, ks, "esc", last) = Result([d EXCEPT !.state = "esc"], ks)
  BY DEF InGround
<1>3. \A b \in {"cr", "lf", "x", "bs", "lead"} : InGround(d, ks, b, last) = ground(d, ks, b)
  BY DEF InGround
<1>4. ground(d, ks, "cr") = Result([d EXCEPT !.lastCR = TRUE], Append(ks, "enter"))
  BY DEF ground
<1>5. ground(d, ks, "lf") = Result([d EXCEPT !.lastCR = FALSE],
                                   IF d.lastCR THEN ks ELSE Append(ks, "enter"))
  BY DEF ground
<1>6. ground(d, ks, "x") = Result([d EXCEPT !.lastCR = FALSE], Append(ks, "x"))
  BY DEF ground, PlainKey
<1>7. ground(d, ks, "bs") = Result([d EXCEPT !.lastCR = FALSE], Append(ks, "backspace"))
  BY DEF ground, PlainKey
<1>8. ground(d, ks, "lead") = Result([[d EXCEPT !.lastCR = FALSE] EXCEPT !.utf = <<"lead">>], ks)
  <2>1. Append(d.utf, "lead") = <<"lead">>
    OBVIOUS
  <2>2. ~FullRune(<<"lead">>)
    BY DEF FullRune
  <2> QED BY <2>1, <2>2 DEF ground
<1> QED BY <1>1, <1>2, <1>3, <1>4, <1>5, <1>6, <1>7, <1>8

\* The beginnings of a rune differ in length.
LEMMA RuneLengths ==
  <<"lead">> # << >> /\ <<"lead", "cont">> # << >> /\ <<"lead">> # <<"lead", "cont">>
<1>1. Len(<< >>) = 0 /\ Len(<<"lead">>) = 1 /\ Len(<<"lead", "cont">>) = 2
  OBVIOUS
<1> QED BY <1>1

\* A tuple with a byte more.
LEMMA PairGrows ==
  ASSUME NEW a \in Bytes, NEW b \in Bytes, NEW v \in Seq(Bytes), v = <<a>>
  PROVE  Append(v, b) = <<a, b>>
<1>1. Len(v) = 1 /\ v[1] = a
  OBVIOUS
<1>2. Append(v, b) \in Seq(Bytes) /\ Len(Append(v, b)) = Len(v) + 1
  BY AppendProperties
<1>3. Append(v, b)[Len(v) + 1] = b
  BY AppendProperties
<1>4. \A i \in 1..Len(v) : Append(v, b)[i] = v[i]
  BY AppendProperties
<1> DEFINE t == Append(v, b)
<1>5. t \in Seq(Bytes) /\ Len(t) = 2 /\ t[1] = a /\ t[2] = b
  BY <1>1, <1>2, <1>3, <1>4
<1> HIDE DEF t
<1>6. t = <<a, b>>
  BY <1>5, ShortTuples
<1> QED BY <1>6 DEF t

\* A pair with a byte more is a triple.
LEMMA TripleGrows ==
  ASSUME NEW a \in Bytes, NEW b \in Bytes, NEW c \in Bytes, NEW v \in Seq(Bytes), v = <<a, b>>
  PROVE  Append(v, c) = <<a, b, c>>
<1>1. Len(v) = 2 /\ v[1] = a /\ v[2] = b
  OBVIOUS
<1>2. Append(v, c) \in Seq(Bytes) /\ Len(Append(v, c)) = Len(v) + 1
  BY AppendProperties
<1>3. Append(v, c)[Len(v) + 1] = c
  BY AppendProperties
<1>4. \A i \in 1..Len(v) : Append(v, c)[i] = v[i]
  BY AppendProperties
<1> DEFINE t == Append(v, c)
<1>5. t \in Seq(Bytes) /\ Len(t) = 3 /\ t[1] = a /\ t[2] = b /\ t[3] = c
  BY <1>1, <1>2, <1>3, <1>4
<1> HIDE DEF t
<1>6. t = <<a, b, c>>
  BY <1>5, ShortTuples
<1> QED BY <1>6 DEF t
\* A byte of a rune is kept until the rune is whole (feedByte, utf8).
LEMMA RuneReads ==
  ASSUME NEW d \in Decoders, d.state = "ground", NEW ks \in Seq(Keys), NEW last \in BOOLEAN
  PROVE  /\ d.utf = <<"lead">> => FeedByte(d, ks, "cont", last)
              = Result([[d EXCEPT !.lastCR = FALSE] EXCEPT !.utf = <<"lead", "cont">>], ks)
         /\ d.utf = <<"lead", "cont">> => FeedByte(d, ks, "cont", last)
              = Result([[d EXCEPT !.lastCR = FALSE] EXCEPT !.utf = << >>], Append(ks, "rune"))
<1>1. FeedByte(d, ks, "cont", last) = ground(d, ks, "cont")
  BY DEF FeedByte, InGround
<1>2. CASE d.utf = <<"lead">>
  <2>1. Append(d.utf, "cont") = <<"lead", "cont">> /\ d.utf # << >> /\ d.utf # <<"lead", "cont">>
    <3>1. Append(<<"lead">>, "cont") = <<"lead", "cont">>
      <4>1. <<"lead">> \in Seq(Bytes) /\ "lead" \in Bytes /\ "cont" \in Bytes
        BY DEF Bytes
      <4> QED BY <4>1, PairGrows
    <3> QED BY <1>2, <3>1, RuneLengths
  <2>2. ~FullRune(<<"lead", "cont">>)
    BY DEF FullRune
  <2> QED BY <1>1, <1>2, <2>1, <2>2 DEF ground
<1>3. CASE d.utf = <<"lead", "cont">>
  <2> DEFINE u == <<"lead", "cont", "cont">>
  <2>1. Append(d.utf, "cont") = u /\ d.utf # << >> /\ d.utf # <<"lead">>
    <3>1. Append(<<"lead", "cont">>, "cont") = u
      <4>1. <<"lead", "cont">> \in Seq(Bytes) /\ "lead" \in Bytes /\ "cont" \in Bytes
        BY DEF Bytes
      <4> QED BY <4>1, TripleGrows
    <3> QED BY <1>3, <3>1, RuneLengths
  <2>2. FullRune(u)
    BY DEF FullRune
  <2>3. u = <<"lead", "cont", "cont">>
    OBVIOUS
  <2> HIDE DEF u
  <2> QED BY <1>1, <1>3, <2>1, <2>2, <2>3 DEF ground
<1> QED BY <1>2, <1>3

\* What the decoder does with a byte inside an escape sequence.
LEMMA SequenceReads ==
  ASSUME NEW d \in Decoders, NEW ks \in Seq(Keys), NEW last \in BOOLEAN
  PROVE  /\ d.state = "esc" => FeedByte(d, ks, "[", last)
              = Result([d EXCEPT !.state = "csi", !.params = << >>], ks)
         /\ d.state = "esc" => FeedByte(d, ks, "O", last) = Result([d EXCEPT !.state = "ss3"], ks)
         /\ (d.state = "esc" /\ d.utf = << >>) => FeedByte(d, ks, "x", last)
              = Result([[d EXCEPT !.state = "ground"] EXCEPT !.lastCR = FALSE],
                       Append(Append(ks, "esc"), "x"))
         /\ d.state = "ss3" => FeedByte(d, ks, "A", last)
              = Result([d EXCEPT !.state = "ground"], Append(ks, "up"))
         /\ d.state = "csi" => FeedByte(d, ks, "A", last)
              = Result([d EXCEPT !.state = "ground"], Append(ks, "up"))
         /\ d.state = "csi" => FeedByte(d, ks, "~", last)
              = Result([d EXCEPT !.state = "ground"],
                       Append(ks, IF d.params = <<"3">> THEN "delete" ELSE "unknown"))
         /\ (d.state = "csi" /\ Len(d.params) >= MaxCsi) => FeedByte(d, ks, "3", last)
              = Result([d EXCEPT !.state = "discard"], ks)
         /\ (d.state = "csi" /\ ~(Len(d.params) >= MaxCsi)) => FeedByte(d, ks, "3", last)
              = Result([d EXCEPT !.params = Append(d.params, "3")], ks)
         /\ d.state = "discard" => FeedByte(d, ks, "3", last) = Result(d, ks)
         /\ d.state = "discard" => FeedByte(d, ks, "~", last)
              = Result([d EXCEPT !.state = "ground"], Append(ks, "unknown"))
<1>1. CASE d.state = "esc"
  <2>1. \A b : FeedByte(d, ks, b, last) = AfterEsc(d, ks, b)
    BY <1>1 DEF FeedByte
  <2>2. AfterEsc(d, ks, "[") = Result([d EXCEPT !.state = "csi", !.params = << >>], ks)
        /\ AfterEsc(d, ks, "O") = Result([d EXCEPT !.state = "ss3"], ks)
    BY DEF AfterEsc
  <2>3. AfterEsc(d, ks, "x") = ground([d EXCEPT !.state = "ground"], Append(ks, "esc"), "x")
    BY DEF AfterEsc
  <2>4. ASSUME d.utf = << >>
        PROVE  ground([d EXCEPT !.state = "ground"], Append(ks, "esc"), "x")
                 = Result([[d EXCEPT !.state = "ground"] EXCEPT !.lastCR = FALSE],
                          Append(Append(ks, "esc"), "x"))
    <3> DEFINE e == [d EXCEPT !.state = "ground"]
    <3>1. e \in Decoders /\ e.utf = << >> /\ PlainKey("x") = "x"
      BY <2>4 DEF Decoders, PlainKey
    <3> HIDE DEF e
    <3>2. \A k : ground(e, k, "x") = Result([e EXCEPT !.lastCR = FALSE], Append(k, PlainKey("x")))
      BY <3>1 DEF ground
    <3> QED BY <3>1, <3>2 DEF e
  <2> QED BY <1>1, <2>1, <2>2, <2>3, <2>4
<1>2. CASE d.state = "ss3"
  BY <1>2 DEF FeedByte, ss3Key
<1>3. CASE d.state = "csi"
  <2>1. \A b : FeedByte(d, ks, b, last) = InCsi(d, ks, b)
    BY <1>3 DEF FeedByte
  <2>2. csiKey(d.params, "A") = "up"
        /\ csiKey(d.params, "~") = IF d.params = <<"3">> THEN "delete" ELSE "unknown"
    BY DEF csiKey
  <2>3. FinalByte("A") /\ FinalByte("~") /\ ~FinalByte("3")
    BY DEF FinalByte
  <2>4. \A b : FinalByte(b) =>
          InCsi(d, ks, b) = Result([d EXCEPT !.state = "ground"], Append(ks, csiKey(d.params, b)))
    BY DEF InCsi
  <2>5. InCsi(d, ks, "3") = IF Len(d.params) >= MaxCsi
                              THEN Result([d EXCEPT !.state = "discard"], ks)
                              ELSE Result([d EXCEPT !.params = Append(d.params, "3")], ks)
    BY <2>3 DEF InCsi
  <2> QED BY <1>3, <2>1, <2>2, <2>3, <2>4, <2>5
<1>4. CASE d.state = "discard"
  <2>1. FinalByte("~") /\ ~FinalByte("3")
    BY DEF FinalByte
  <2> QED BY <1>4, <2>1 DEF FeedByte, InDiscard
<1> QED BY <1>1, <1>2, <1>3, <1>4

\* Strokes by their bytes.
LEMMA StrokeNames ==
  ASSUME NEW st
  PROVE  /\ st = Enter => st.bytes[1] = "cr"
         /\ st = LineFeed => st.bytes[1] = "lf"
         /\ st = Escape => st.bytes[1] = "esc" /\ Len(st.bytes) = 1
         /\ st \in Special => st.bytes[1] = "esc" /\ Len(st.bytes) > 2
<1>1. (st = Enter => st.bytes[1] = "cr") /\ (st = LineFeed => st.bytes[1] = "lf")
  BY DEF Enter, LineFeed, Stroke
<1>2. st = Escape => st.bytes[1] = "esc" /\ Len(st.bytes) = 1
  BY DEF Escape, Stroke
<1>3. st = Stroke(<<"esc", "[", "A">>, <<"up">>) => st.bytes[1] = "esc" /\ Len(st.bytes) > 2
  BY DEF Stroke
<1>4. st = Stroke(<<"esc", "O", "A">>, <<"up">>) => st.bytes[1] = "esc" /\ Len(st.bytes) > 2
  BY DEF Stroke
<1>5. st = Stroke(<<"esc", "[", "3", "~">>, <<"delete">>)
        => st.bytes[1] = "esc" /\ Len(st.bytes) > 2
  BY DEF Stroke
<1>6. st = Stroke(<<"esc", "[", "3", "3", "3", "3", "~">>, <<"unknown">>)
        => st.bytes[1] = "esc" /\ Len(st.bytes) > 2
  BY DEF Stroke
<1> QED BY <1>1, <1>2, <1>3, <1>4, <1>5, <1>6 DEF Special

\* Escape is one byte, the escape sequences are more than two.
LEMMA StrokeLengths ==
  Len(Escape.bytes) = 1 /\ \A st \in Special : Len(st.bytes) > 2
<1>1. Len(Escape.bytes) = 1
  BY DEF Escape, Stroke
<1>2. ASSUME NEW st \in Special PROVE Len(st.bytes) > 2
  BY StrokeNames
<1> QED BY <1>1, <1>2

\* A stroke that is not an escape sequence is one byte in the ground state.
LEMMA ReadsOneByte ==
  ASSUME NEW d \in Decoders, NEW ks \in Seq(Keys), NEW last \in BOOLEAN, NEW cr \in BOOLEAN,
         NEW st \in {Enter, LineFeed, Escape, Stroke(<<"x">>, <<"x">>), Stroke(<<"bs">>, <<"backspace">>)},
         Partway(d, st, 0), Remembers(d, st, 0, cr), st = Escape => last
  PROVE  ReadsNext(d, ks, st, 0, last, cr) /\ Len(st.bytes) = 1
<1> DEFINE e == FeedByte(d, ks, st.bytes[1], last)
<1>1. d.state = "ground" /\ d.utf = << >> /\ d.lastCR = cr
  BY DEF Partway, Remembers
<1>2. \A x \in {"enter", "x", "backspace", "esc"} : Append(ks, x) = ks \o <<x>>
  BY KeyAppended DEF Keys, Bytes
<1>3. ks = ks \o << >>
  OBVIOUS
<1>4. ASSUME Len(st.bytes) = 1, e.dec.state = "ground", e.dec.utf = << >>,
             e.dec.lastCR = CRAfter(st, cr), e.keys = ks \o KeysFor(st, cr)
      PROVE  ReadsNext(d, ks, st, 0, last, cr)
  BY <1>4 DEF ReadsNext, Partway
<1>5. CASE st = Enter
  <2>1. st.bytes[1] = "cr" /\ Len(st.bytes) = 1 /\ st.keys = <<"enter">> /\ st # LineFeed
    BY <1>5, StrokeNames DEF Enter, Stroke
  <2>2. e = Result([d EXCEPT !.lastCR = TRUE], Append(ks, "enter"))
    BY <1>1, <2>1, GroundReads, ZenonT(40)
  <2>3. e.dec.state = "ground" /\ e.dec.utf = << >> /\ e.dec.lastCR = TRUE
        /\ e.keys = ks \o <<"enter">>
    BY <1>1, <1>2, <2>2 DEF Result, Decoders
  <2> HIDE DEF e
  <2> QED BY <1>4, <1>5, <2>1, <2>3 DEF CRAfter, KeysFor
<1>6. CASE st = LineFeed
  <2>1. st.bytes[1] = "lf" /\ Len(st.bytes) = 1 /\ st.keys = <<"enter">>
        /\ st # Enter /\ st \notin Special \cup {Escape}
    BY <1>6, StrokeNames DEF LineFeed, Stroke
  <2> DEFINE ls == IF d.lastCR THEN ks ELSE Append(ks, "enter")
  <2>2. e = Result([d EXCEPT !.lastCR = FALSE], ls)
    <3>1. FeedByte(d, ks, "lf", last) = Result([d EXCEPT !.lastCR = FALSE], ls)
      BY <1>1, GroundReads
    <3> QED BY <2>1, <3>1
  <2>3. ls = IF cr THEN ks ELSE ks \o <<"enter">>
    BY <1>1, <1>2
  <2> HIDE DEF ls
  <2>4. e.dec.state = "ground" /\ e.dec.utf = << >> /\ e.dec.lastCR = FALSE /\ e.keys = ls
    <3> HIDE DEF e
    <3> QED BY <1>1, <2>2 DEF Result, Decoders
  <2> HIDE DEF e
  <2> QED BY <1>3, <1>4, <1>6, <2>1, <2>3, <2>4 DEF CRAfter, KeysFor
<1>7. CASE st = Escape
  <2>1. st.bytes[1] = "esc" /\ Len(st.bytes) = 1 /\ st.keys = <<"esc">> /\ st # LineFeed /\ st # Enter
    BY <1>7, StrokeNames DEF Escape, Stroke
  <2>2. e = Result(d, Append(ks, "esc"))
    BY <1>1, <1>7, <2>1, GroundReads, ZenonT(40)
  <2>3. e.dec = d /\ e.keys = ks \o <<"esc">>
    BY <1>1, <1>2, <2>2 DEF Result
  <2> HIDE DEF e
  <2> QED BY <1>1, <1>4, <1>7, <2>1, <2>3 DEF CRAfter, KeysFor
<1>8. ASSUME NEW b, NEW x, st = Stroke(<<b>>, <<x>>), <<b, x>> \in {<<"x", "x">>, <<"bs", "backspace">>}
      PROVE  ReadsNext(d, ks, st, 0, last, cr) /\ Len(st.bytes) = 1
  <2>1. st.bytes[1] = b /\ Len(st.bytes) = 1 /\ st.keys = <<x>>
    BY <1>8 DEF Stroke
  <2>2. b \notin {"lf", "cr", "esc"} /\ x \in {"x", "backspace"}
    BY <1>8
  <2>3. st # LineFeed /\ st # Enter /\ st \notin Special \cup {Escape}
    BY <2>1, <2>2, StrokeNames
  <2>4. e = Result([d EXCEPT !.lastCR = FALSE], Append(ks, x))
    <3>1. FeedByte(d, ks, "x", last) = Result([d EXCEPT !.lastCR = FALSE], Append(ks, "x"))
          /\ FeedByte(d, ks, "bs", last) = Result([d EXCEPT !.lastCR = FALSE], Append(ks, "backspace"))
      BY <1>1, GroundReads, ZenonT(40)
    <3>2. (b = "x" /\ x = "x") \/ (b = "bs" /\ x = "backspace")
      BY <1>8
    <3> QED BY <2>1, <3>1, <3>2
  <2>5. e.dec.state = "ground" /\ e.dec.utf = << >> /\ e.dec.lastCR = FALSE /\ e.keys = ks \o <<x>>
    <3>1. Append(ks, x) = ks \o <<x>>
      BY <1>2, <2>2
    <3> HIDE DEF e
    <3> QED BY <1>1, <2>4, <3>1 DEF Result, Decoders
  <2> HIDE DEF e
  <2> QED BY <1>4, <2>1, <2>3, <2>5 DEF CRAfter, KeysFor
<1>9. Len(Enter.bytes) = 1 /\ Len(LineFeed.bytes) = 1 /\ Len(Escape.bytes) = 1
  BY DEF Enter, LineFeed, Escape, Stroke
<1> QED BY <1>5, <1>6, <1>7, <1>8, <1>9

\* An escape sequence: its first two bytes, its digits and its last byte.
LEMMA ReadsEscape ==
  ASSUME NEW d \in Decoders, NEW ks \in Seq(Keys), NEW last \in BOOLEAN, NEW cr \in BOOLEAN,
         NEW st, st.bytes[1] = "esc", Len(st.bytes) \in Nat, Len(st.bytes) > 1,
         Partway(d, st, 0), Remembers(d, st, 0, cr), ~last
  PROVE  ReadsNext(d, ks, st, 0, last, cr)
<1> DEFINE e == FeedByte(d, ks, "esc", last)
<1>1. d.state = "ground" /\ d.utf = << >> /\ d.lastCR = cr
  BY DEF Partway, Remembers
<1>2. e = Result([d EXCEPT !.state = "esc"], ks)
  BY <1>1, GroundReads
<1>3. FeedByte(d, ks, st.bytes[0 + 1], last) = e /\ 0 + 1 < Len(st.bytes)
  OBVIOUS
<1> HIDE DEF e
<1>4. e.dec.state = "esc" /\ e.dec.utf = << >> /\ e.dec.lastCR = cr /\ e.keys = ks
  BY <1>1, <1>2 DEF Result, Decoders
<1> QED BY <1>3, <1>4 DEF ReadsNext, Partway, Remembers

\* The second byte of an escape sequence introduces it.
LEMMA ReadsIntroducer ==
  ASSUME NEW d \in Decoders, NEW ks \in Seq(Keys), NEW last \in BOOLEAN, NEW cr \in BOOLEAN,
         NEW st, st.bytes[1] = "esc", st.bytes[2] \in {"[", "O"},
         Len(st.bytes) \in Nat, Len(st.bytes) > 2,
         Partway(d, st, 1), Remembers(d, st, 1, cr)
  PROVE  ReadsNext(d, ks, st, 1, last, cr)
<1> DEFINE e == FeedByte(d, ks, st.bytes[2], last)
<1>1. d.state = "esc" /\ d.utf = << >> /\ d.lastCR = cr
  BY DEF Partway, Remembers
<1>2. st.bytes[2] = "[" => e = Result([d EXCEPT !.state = "csi", !.params = << >>], ks)
  BY <1>1, SequenceReads, ZenonT(40)
<1>3. st.bytes[2] = "O" => e = Result([d EXCEPT !.state = "ss3"], ks)
  BY <1>1, SequenceReads, ZenonT(40)
<1>4. FeedByte(d, ks, st.bytes[1 + 1], last) = e /\ 1 + 1 < Len(st.bytes) /\ 1 + 1 = 2
  OBVIOUS
<1> HIDE DEF e
<1>9. ASSUME st.bytes[2] = "["
      PROVE  e.dec.utf = << >> /\ e.dec.lastCR = cr /\ e.keys = ks
             /\ e.dec.state = "csi" /\ e.dec.params = << >>
  <2>1. e = Result([d EXCEPT !.state = "csi", !.params = << >>], ks)
    BY <1>2, <1>9
  <2> QED BY <1>1, <2>1 DEF Result, Decoders
<1>10. ASSUME st.bytes[2] = "O"
       PROVE  e.dec.utf = << >> /\ e.dec.lastCR = cr /\ e.keys = ks /\ e.dec.state = "ss3"
  <2>1. e = Result([d EXCEPT !.state = "ss3"], ks)
    BY <1>3, <1>10
  <2> QED BY <1>1, <2>1 DEF Result, Decoders
<1>5. e.dec.utf = << >> /\ e.dec.lastCR = cr /\ e.keys = ks
  BY <1>9, <1>10
<1>6. /\ st.bytes[2] = "[" => e.dec.state = "csi" /\ e.dec.params = << >>
      /\ st.bytes[2] = "O" => e.dec.state = "ss3"
  BY <1>9, <1>10
<1>7. Partway(e.dec, st, 2)
  <2>1. st.bytes[2] = "[" => Len(e.dec.params) = 2 - 2
    BY <1>6
  <2> QED BY <1>5, <1>6, <2>1 DEF Partway
<1>8. Remembers(e.dec, st, 2, cr)
  BY <1>5 DEF Remembers
<1> QED BY <1>4, <1>5, <1>7, <1>8 DEF ReadsNext

\* A parameter digit is kept, or the sequence is discarded past MaxCsi.
LEMMA ReadsDigit ==
  ASSUME NEW d \in Decoders, NEW ks \in Seq(Keys), NEW last \in BOOLEAN, NEW cr \in BOOLEAN,
         NEW st, st.bytes[1] = "esc", st.bytes[2] = "[", Len(st.bytes) \in Nat,
         NEW r \in Nat, r >= 2, r + 1 < Len(st.bytes), st.bytes[r + 1] = "3",
         Partway(d, st, r), Remembers(d, st, r, cr)
  PROVE  ReadsNext(d, ks, st, r, last, cr)
<1> DEFINE e == FeedByte(d, ks, "3", last)
<1>1. d.utf = << >> /\ d.lastCR = cr
      /\ \/ d.state = "csi" /\ Len(d.params) = r - 2
         \/ d.state = "discard" /\ r >= 4
  BY DEF Partway, Remembers
<1>0. MaxCsi \in Nat /\ MaxCsi >= 1 /\ d.params \in Seq(Bytes) /\ "3" \in Bytes
  <2>1. MaxCsi \in Nat /\ MaxCsi >= 1
    BY DecoderAssumption
  <2>2. d.params \in Seq(Bytes)
    BY DEF Decoders
  <2>3. "3" \in Bytes
    BY DEF Bytes
  <2> QED BY <2>1, <2>2, <2>3
<1>2. Append(d.params, "3") \in Seq(Bytes) /\ Len(Append(d.params, "3")) = Len(d.params) + 1
  BY <1>0, AppendProperties
<1>3. Len(d.params) = 0 => Append(d.params, "3") = <<"3">>
  <2> SUFFICES ASSUME Len(d.params) = 0 PROVE Append(d.params, "3") = <<"3">>
    OBVIOUS
  <2>1. d.params = << >>
    BY <1>0, EmptySeq
  <2> QED BY <2>1
<1> DEFINE Next1 == /\ e.dec.utf = << >> /\ e.dec.lastCR = cr /\ e.keys = ks
                    /\ \/ e.dec.state = "csi" /\ Len(e.dec.params) = (r + 1) - 2
                                             /\ (r + 1 = 3 => e.dec.params = <<"3">>)
                       \/ e.dec.state = "discard" /\ r + 1 >= 4
<1>4. Next1
  <2>1. CASE d.state = "csi" /\ ~(Len(d.params) >= MaxCsi)
    <3>1. e = Result([d EXCEPT !.params = Append(d.params, "3")], ks)
      BY <2>1, SequenceReads
    <3> HIDE DEF e
    <3>2. e.dec.utf = << >> /\ e.dec.lastCR = cr /\ e.keys = ks /\ e.dec.state = "csi"
          /\ e.dec.params = Append(d.params, "3")
      BY <1>1, <2>1, <3>1 DEF Result, Decoders
    <3>3. Len(d.params) = r - 2
      BY <1>1, <2>1
    <3> QED BY <1>2, <1>3, <3>2, <3>3
  <2>2. CASE d.state = "csi" /\ Len(d.params) >= MaxCsi
    <3>1. e = Result([d EXCEPT !.state = "discard"], ks)
      BY <2>2, SequenceReads
    <3> HIDE DEF e
    <3>2. e.dec.utf = << >> /\ e.dec.lastCR = cr /\ e.keys = ks /\ e.dec.state = "discard"
      BY <1>1, <2>2, <3>1 DEF Result, Decoders
    <3>3. r + 1 >= 4
      BY <1>0, <1>1, <2>2
    <3> QED BY <3>2, <3>3
  <2>3. CASE d.state = "discard"
    <3>1. e = Result(d, ks)
      BY <2>3, SequenceReads
    <3> HIDE DEF e
    <3>2. e.dec = d /\ e.keys = ks
      BY <3>1 DEF Result
    <3> QED BY <1>1, <2>3, <3>2
  <2> HIDE DEF Next1
  <2> QED BY <1>1, <2>1, <2>2, <2>3
<1>5. FeedByte(d, ks, st.bytes[r + 1], last) = e
  OBVIOUS
<1> HIDE DEF e
<1>6. Partway(e.dec, st, r + 1) /\ Remembers(e.dec, st, r + 1, cr)
  BY <1>4 DEF Partway, Remembers
<1> QED BY <1>4, <1>5, <1>6 DEF ReadsNext

\* The last byte of an escape sequence ends it and yields its keys.
LEMMA ReadsFinal ==
  ASSUME NEW d \in Decoders, NEW ks \in Seq(Keys), NEW last \in BOOLEAN, NEW cr \in BOOLEAN,
         NEW st \in Special, NEW r \in Nat, r >= 2, Len(st.bytes) = r + 1,
         \/ st.bytes[2] = "O" /\ st.bytes[r + 1] = "A" /\ st.keys = <<"up">>
         \/ st.bytes[2] = "[" /\ r = 2 /\ st.bytes[r + 1] = "A" /\ st.keys = <<"up">>
         \/ st.bytes[2] = "[" /\ r = 3 /\ st.bytes[r + 1] = "~" /\ st.keys = <<"delete">>
         \/ st.bytes[2] = "[" /\ r >= 4 /\ st.bytes[r + 1] = "~" /\ st.keys = <<"unknown">>,
         Partway(d, st, r), Remembers(d, st, r, cr)
  PROVE  ReadsNext(d, ks, st, r, last, cr)
<1> DEFINE e == FeedByte(d, ks, st.bytes[r + 1], last)
<1>0. st.bytes[1] = "esc" /\ st # LineFeed /\ st # Enter
  BY StrokeNames
<1>1. d.utf = << >> /\ d.lastCR = cr
      /\ (st.bytes[2] = "O" => d.state = "ss3")
      /\ (st.bytes[2] # "O" => \/ d.state = "csi" /\ Len(d.params) = r - 2
                                                 /\ (r = 3 => d.params = <<"3">>)
                               \/ d.state = "discard" /\ r >= 4)
  BY <1>0 DEF Partway, Remembers
<1>2. \A x \in {"up", "delete", "unknown"} : Append(ks, x) = ks \o <<x>>
  BY KeyAppended DEF Keys
<1>3. (r >= 4 /\ Len(d.params) = r - 2) => d.params # <<"3">>
  <2> DEFINE v == <<"3">>
  <2>1. Len(v) = 1
    OBVIOUS
  <2> HIDE DEF v
  <2>2. ASSUME r >= 4, Len(d.params) = r - 2, d.params = v PROVE FALSE
    <3>1. Len(d.params) = 1
      BY <2>1, <2>2
    <3>2. r - 2 = 1
      BY <2>2, <3>1
    <3> QED BY <2>2, <3>2
  <2> QED BY <2>2 DEF v
<1>4. \E x \in {"up", "delete", "unknown"} :
        st.keys = <<x>> /\ e = Result([d EXCEPT !.state = "ground"], Append(ks, x))
  <2>1. CASE st.bytes[2] = "O" /\ st.bytes[r + 1] = "A" /\ st.keys = <<"up">>
    <3>1. d.state = "ss3"
      BY <1>1, <2>1
    <3>2. FeedByte(d, ks, "A", last) = Result([d EXCEPT !.state = "ground"], Append(ks, "up"))
      BY <3>1, SequenceReads
    <3> QED BY <2>1, <3>2
  <2>2. CASE st.bytes[2] = "[" /\ r = 2 /\ st.bytes[r + 1] = "A" /\ st.keys = <<"up">>
    <3>1. d.state = "csi"
      BY <1>1, <2>2
    <3>2. FeedByte(d, ks, "A", last) = Result([d EXCEPT !.state = "ground"], Append(ks, "up"))
      BY <3>1, SequenceReads
    <3> QED BY <2>2, <3>2
  <2>3. CASE st.bytes[2] = "[" /\ r = 3 /\ st.bytes[r + 1] = "~" /\ st.keys = <<"delete">>
    <3>1. d.state = "csi" /\ d.params = <<"3">>
      BY <1>1, <2>3
    <3>2. FeedByte(d, ks, "~", last) = Result([d EXCEPT !.state = "ground"], Append(ks, "delete"))
      BY <3>1, SequenceReads
    <3> QED BY <2>3, <3>2
  <2>4. CASE st.bytes[2] = "[" /\ r >= 4 /\ st.bytes[r + 1] = "~" /\ st.keys = <<"unknown">>
    <3>1. (d.state = "csi" /\ d.params # <<"3">>) \/ d.state = "discard"
      BY <1>1, <1>3, <2>4
    <3>2. FeedByte(d, ks, "~", last) = Result([d EXCEPT !.state = "ground"], Append(ks, "unknown"))
      BY <3>1, SequenceReads
    <3> QED BY <2>4, <3>2
  <2> QED BY <2>1, <2>2, <2>3, <2>4
<1>5. PICK x \in {"up", "delete", "unknown"} :
        st.keys = <<x>> /\ e = Result([d EXCEPT !.state = "ground"], Append(ks, x))
  BY <1>4
<1> HIDE DEF e
<1>6. e.dec.state = "ground" /\ e.dec.utf = << >> /\ e.dec.lastCR = cr /\ e.keys = ks \o st.keys
  <2>1. Append(ks, x) = ks \o st.keys
    BY <1>2, <1>5
  <2> QED BY <1>1, <1>5, <2>1 DEF Result, Decoders
<1>7. Partway(e.dec, st, 0) /\ CRAfter(st, cr) = cr /\ KeysFor(st, cr) = st.keys
  BY <1>0, <1>6 DEF Partway, CRAfter, KeysFor
<1> QED BY <1>6, <1>7 DEF ReadsNext, e

\* Alt with a letter is none of the strokes with rules of their own.
LEMMA AltIsNot == Alt # Enter /\ Alt # LineFeed /\ Alt # Escape /\ Alt \notin Special
<1>1. Alt.bytes[1] = "esc" /\ Len(Alt.bytes) = 2
  BY DEF Alt, Stroke
<1>2. Alt # Enter /\ Alt # LineFeed
  BY <1>1, StrokeNames
<1>3. Alt # Escape
  BY <1>1, StrokeLengths
<1>4. Alt \notin Special
  <2> SUFFICES ASSUME Alt \in Special PROVE FALSE
    OBVIOUS
  <2>1. Len(Alt.bytes) > 2
    BY StrokeLengths, Zenon
  <2> QED BY <1>1, <2>1
<1> QED BY <1>2, <1>3, <1>4

\* Alt with a letter: ESC and a byte that introduces nothing.
LEMMA ReadsAlt ==
  ASSUME NEW d \in Decoders, NEW ks \in Seq(Keys), NEW last \in BOOLEAN, NEW cr \in BOOLEAN,
         Partway(d, Alt, 1)
  PROVE  ReadsNext(d, ks, Alt, 1, last, cr)
<1> DEFINE e == FeedByte(d, ks, "x", last)
<1>0. Alt.bytes[1] = "esc" /\ Alt.bytes[2] = "x" /\ Len(Alt.bytes) = 2 /\ Alt.keys = <<"esc", "x">>
  BY DEF Alt, Stroke
<1>1. d.state = "esc" /\ d.utf = << >>
  BY <1>0 DEF Partway
<1>2. Append(Append(ks, "esc"), "x") = ks \o <<"esc", "x">>
  BY KeyAppended DEF Keys, Bytes
<1>3. e = Result([[d EXCEPT !.state = "ground"] EXCEPT !.lastCR = FALSE], ks \o <<"esc", "x">>)
  <2>1. e = Result([[d EXCEPT !.state = "ground"] EXCEPT !.lastCR = FALSE],
                   Append(Append(ks, "esc"), "x"))
    BY <1>1, SequenceReads
  <2> QED BY <1>2, <2>1
<1>4. FeedByte(d, ks, Alt.bytes[1 + 1], last) = e /\ ~(1 + 1 < Len(Alt.bytes))
  BY <1>0
<1> HIDE DEF e
<1>5. e.dec.state = "ground" /\ e.dec.utf = << >> /\ e.dec.lastCR = FALSE
      /\ e.keys = ks \o <<"esc", "x">>
  BY <1>1, <1>3 DEF Result, Decoders
<1>6. Alt # Enter /\ Alt # LineFeed /\ Alt \notin Special \cup {Escape}
  BY AltIsNot
<1>7. CRAfter(Alt, cr) = FALSE /\ KeysFor(Alt, cr) = <<"esc", "x">>
  BY <1>0, <1>6 DEF CRAfter, KeysFor
<1> QED BY <1>4, <1>5, <1>7 DEF ReadsNext, Partway

Rune == Stroke(<<"lead", "cont", "cont">>, <<"rune">>)

\* A rune of several bytes yields one key, with its last byte.
LEMMA ReadsRune ==
  ASSUME NEW d \in Decoders, NEW ks \in Seq(Keys), NEW last \in BOOLEAN, NEW cr \in BOOLEAN,
         NEW r \in 0..2, Partway(d, Rune, r)
  PROVE  ReadsNext(d, ks, Rune, r, last, cr)
<1>0. /\ Rune.bytes[1] = "lead" /\ Rune.bytes[2] = "cont" /\ Rune.bytes[3] = "cont"
      /\ Len(Rune.bytes) = 3 /\ Rune.keys = <<"rune">>
  BY DEF Rune, Stroke
<1>1. Rune # Enter /\ Rune # LineFeed /\ Rune \notin Special \cup {Escape}
  BY <1>0, StrokeNames
<1>2. CASE r = 0
  <2> DEFINE e == FeedByte(d, ks, "lead", last)
  <2>1. d.state = "ground" /\ d.utf = << >>
    BY <1>2 DEF Partway
  <2>2. e = Result([[d EXCEPT !.lastCR = FALSE] EXCEPT !.utf = <<"lead">>], ks)
    BY <2>1, GroundReads
  <2>3. FeedByte(d, ks, Rune.bytes[r + 1], last) = e /\ r + 1 < Len(Rune.bytes) /\ r + 1 = 1
    BY <1>0, <1>2
  <2> HIDE DEF e
  <2>4. e.dec.state = "ground" /\ e.dec.utf = <<"lead">> /\ e.keys = ks
    BY <2>1, <2>2 DEF Result, Decoders
  <2> QED BY <1>0, <2>3, <2>4 DEF ReadsNext, Partway, Remembers
<1>3. CASE r = 1
  <2> DEFINE e == FeedByte(d, ks, "cont", last)
  <2>1. d.state = "ground" /\ d.utf = <<"lead">>
    BY <1>0, <1>3 DEF Partway
  <2>2. e = Result([[d EXCEPT !.lastCR = FALSE] EXCEPT !.utf = <<"lead", "cont">>], ks)
    BY <2>1, RuneReads
  <2>3. FeedByte(d, ks, Rune.bytes[r + 1], last) = e /\ r + 1 < Len(Rune.bytes) /\ r + 1 = 2
    BY <1>0, <1>3
  <2> HIDE DEF e
  <2>4. e.dec.state = "ground" /\ e.dec.utf = <<"lead", "cont">> /\ e.keys = ks
    BY <2>1, <2>2 DEF Result, Decoders
  <2> QED BY <1>0, <2>3, <2>4 DEF ReadsNext, Partway, Remembers
<1>4. CASE r = 2
  <2> DEFINE e == FeedByte(d, ks, "cont", last)
  <2>1. d.state = "ground" /\ d.utf = <<"lead", "cont">>
    BY <1>0, <1>4 DEF Partway
  <2>2. Append(ks, "rune") = ks \o <<"rune">>
    BY KeyAppended DEF Keys
  <2>3. e = Result([[d EXCEPT !.lastCR = FALSE] EXCEPT !.utf = << >>], ks \o <<"rune">>)
    BY <2>1, <2>2, RuneReads
  <2>4. FeedByte(d, ks, Rune.bytes[r + 1], last) = e /\ ~(r + 1 < Len(Rune.bytes))
    BY <1>0, <1>4
  <2> HIDE DEF e
  <2>5. e.dec.state = "ground" /\ e.dec.utf = << >> /\ e.dec.lastCR = FALSE
        /\ e.keys = ks \o <<"rune">>
    BY <2>1, <2>3 DEF Result, Decoders
  <2>6. CRAfter(Rune, cr) = FALSE /\ KeysFor(Rune, cr) = <<"rune">>
    BY <1>0, <1>1 DEF CRAfter, KeysFor
  <2> QED BY <2>4, <2>5, <2>6 DEF ReadsNext, Partway
<1> QED BY <1>2, <1>3, <1>4

\* Whatever the stroke and however much of it was read, its next byte is read
\* as a byte of that stroke: ESC must end the message just when it is the
\* Escape key.
LEMMA ReadsStroke ==
  ASSUME NEW d \in Decoders, NEW ks \in Seq(Keys), NEW last \in BOOLEAN, NEW cr \in BOOLEAN,
         NEW st \in Strokes, NEW r \in 0..(Len(st.bytes) - 1),
         Partway(d, st, r), Remembers(d, st, r, cr),
         st.bytes[r + 1] = "esc" => (last <=> st = Escape)
  PROVE  ReadsNext(d, ks, st, r, last, cr)
<1>1. CASE st \in {Enter, LineFeed, Escape, Stroke(<<"x">>, <<"x">>), Stroke(<<"bs">>, <<"backspace">>)}
  <2>1. Len(st.bytes) = 1
    BY <1>1 DEF Enter, LineFeed, Escape, Stroke
  <2>2. r = 0
    BY <2>1
  <2>3. st = Escape => last
    BY <2>2, StrokeNames
  <2> QED BY <1>1, <2>2, <2>3, ReadsOneByte
<1>2. CASE st = Alt
  <2>1. st.bytes[1] = "esc" /\ Len(st.bytes) = 2
    BY <1>2 DEF Alt, Stroke
  <2>2. st # Escape
    <3>1. Alt # Escape
      BY AltIsNot
    <3> QED BY <1>2, <3>1, Zenon
  <2>3. r = 0 => ReadsNext(d, ks, st, r, last, cr)
    <3> SUFFICES ASSUME r = 0 PROVE ReadsNext(d, ks, st, 0, last, cr)
      OBVIOUS
    <3>1. ~last /\ Len(st.bytes) \in Nat /\ Len(st.bytes) > 1 /\ Partway(d, st, 0)
          /\ Remembers(d, st, 0, cr)
      BY <2>1, <2>2
    <3> QED BY <2>1, <3>1, ReadsEscape
  <2>4. r = 1 => ReadsNext(d, ks, st, r, last, cr)
    BY <1>2, ReadsAlt
  <2> QED BY <2>1, <2>3, <2>4
<1>3. CASE st = Rune
  <2>1. Len(st.bytes) = 3
    BY <1>3 DEF Rune, Stroke
  <2> QED BY <1>3, <2>1, ReadsRune
<1>4. CASE st \in Special
  <2>1. st.bytes[1] = "esc" /\ Len(st.bytes) \in Nat /\ Len(st.bytes) > 2 /\ st # Escape
    <3>1. st.bytes \in Seq(Bytes)
      BY StrokeBytes
    <3>2. st.bytes[1] = "esc"
      BY <1>4, StrokeNames
    <3>3. Len(st.bytes) > 2 /\ Len(st.bytes) \in Nat
      BY <1>4, <3>1, StrokeLengths
    <3>4. st # Escape
      <4> SUFFICES ASSUME st = Escape PROVE FALSE
        OBVIOUS
      <4>1. Len(st.bytes) = 1
        BY StrokeLengths, Zenon
      <4> QED BY <3>3, <4>1
    <3> QED BY <3>2, <3>3, <3>4
  <2>2. r = 0 => ReadsNext(d, ks, st, r, last, cr)
    BY <2>1, ReadsEscape
  <2>3. (st.bytes[2] \in {"[", "O"} /\ r = 1) => ReadsNext(d, ks, st, r, last, cr)
    BY <2>1, ReadsIntroducer
  <2>4. (r \in Nat /\ r >= 2 /\ st.bytes[2] = "[" /\ st.bytes[r + 1] = "3" /\ r + 1 < Len(st.bytes))
          => ReadsNext(d, ks, st, r, last, cr)
    BY <2>1, ReadsDigit
  <2>5. CASE st = Stroke(<<"esc", "[", "A">>, <<"up">>)
    <3>1. st.bytes[2] = "[" /\ st.bytes[3] = "A" /\ Len(st.bytes) = 3 /\ st.keys = <<"up">>
      BY <2>5 DEF Stroke
    <3>2. r = 2 => ReadsNext(d, ks, st, r, last, cr)
      BY <1>4, <3>1, ReadsFinal
    <3> QED BY <2>2, <2>3, <3>1, <3>2
  <2>6. CASE st = Stroke(<<"esc", "O", "A">>, <<"up">>)
    <3>1. st.bytes[2] = "O" /\ st.bytes[3] = "A" /\ Len(st.bytes) = 3 /\ st.keys = <<"up">>
      BY <2>6 DEF Stroke
    <3>2. r = 2 => ReadsNext(d, ks, st, r, last, cr)
      BY <1>4, <3>1, ReadsFinal
    <3> QED BY <2>2, <2>3, <3>1, <3>2
  <2>7. CASE st = Stroke(<<"esc", "[", "3", "~">>, <<"delete">>)
    <3>1. st.bytes[2] = "[" /\ st.bytes[3] = "3" /\ st.bytes[4] = "~" /\ Len(st.bytes) = 4
          /\ st.keys = <<"delete">>
      BY <2>7 DEF Stroke
    <3>2. r = 3 => ReadsNext(d, ks, st, r, last, cr)
      <4> SUFFICES ASSUME r = 3 PROVE ReadsNext(d, ks, st, r, last, cr)
        OBVIOUS
      <4>1. r \in Nat /\ r >= 2 /\ Len(st.bytes) = r + 1 /\ st.bytes[r + 1] = "~"
        BY <3>1
      <4> QED BY <1>4, <3>1, <4>1, ReadsFinal
    <3>3. r = 2 => ReadsNext(d, ks, st, r, last, cr)
      BY <2>4, <3>1
    <3> QED BY <2>2, <2>3, <3>1, <3>2, <3>3
  <2>8. CASE st = Stroke(<<"esc", "[", "3", "3", "3", "3", "~">>, <<"unknown">>)
    <3>1. st.bytes[2] = "[" /\ st.bytes[3] = "3" /\ st.bytes[4] = "3" /\ st.bytes[5] = "3"
          /\ st.bytes[6] = "3" /\ st.bytes[7] = "~" /\ Len(st.bytes) = 7 /\ st.keys = <<"unknown">>
      BY <2>8 DEF Stroke
    <3>2. r = 6 => ReadsNext(d, ks, st, r, last, cr)
      <4> SUFFICES ASSUME r = 6 PROVE ReadsNext(d, ks, st, r, last, cr)
        OBVIOUS
      <4>1. r \in Nat /\ r >= 4 /\ r >= 2 /\ Len(st.bytes) = r + 1 /\ st.bytes[r + 1] = "~"
        BY <3>1
      <4> QED BY <1>4, <3>1, <4>1, ReadsFinal
    <3>3. r \in 2..5 => ReadsNext(d, ks, st, r, last, cr)
      BY <2>4, <3>1
    <3> QED BY <2>2, <2>3, <3>1, <3>2, <3>3
  <2> QED BY <1>4, <2>5, <2>6, <2>7, <2>8 DEF Special
<1> QED BY <1>1, <1>2, <1>3, <1>4 DEF Strokes, Rune

\* The bytes of a stroke more.
LEMMA BytesOfAppend ==
  ASSUME NEW s \in Seq(Strokes), NEW st \in Strokes
  PROVE  /\ BytesOf(s) \in Seq(Bytes) /\ st.bytes \in Seq(Bytes)
         /\ BytesOf(Append(s, st)) = BytesOf(s) \o st.bytes
<1> DEFINE n == Len(s)
           x == st.bytes
           t == Append(s, st)
           a == [i \in DOMAIN s |-> s[i].bytes]
           q == [i \in DOMAIN t |-> t[i].bytes]
<1>1. n \in Nat /\ DOMAIN s = 1..n /\ \A i \in 1..n : s[i] \in Strokes
  BY ElementOfSeq
<1>2. t \in Seq(Strokes) /\ Len(t) = n + 1 /\ t[n + 1] = st
  BY AppendProperties
<1>3. \A i \in 1..n : t[i] = s[i]
  BY AppendProperties
<1>4. DOMAIN t = 1..(n + 1)
  BY <1>2
<1>5. x \in Seq(Bytes) /\ \A i \in 1..n : s[i].bytes \in Seq(Bytes)
  BY <1>1, StrokeBytes
<1>6. a \in Seq(Seq(Bytes)) /\ Len(a) = n
  <2>1. a \in [1..n -> Seq(Bytes)]
    BY <1>1, <1>5
  <2> HIDE DEF a
  <2> QED BY <1>1, <2>1, SeqDef, LenProperties
<1>7. q \in [1..(n + 1) -> Seq(Bytes)] /\ q[n + 1] = x /\ \A i \in 1..n : q[i] = a[i]
  <2> HIDE DEF t
  <2>1. q[n + 1] = x
    BY <1>1, <1>2, <1>4
  <2>2. \A i \in 1..n : q[i] = a[i]
    BY <1>1, <1>3, <1>4
  <2>3. \A i \in 1..(n + 1) : t[i].bytes \in Seq(Bytes)
    <3> SUFFICES ASSUME NEW i \in 1..(n + 1) PROVE t[i].bytes \in Seq(Bytes)
      OBVIOUS
    <3>1. i = n + 1 \/ i \in 1..n
      BY <1>1
    <3> QED BY <1>2, <1>3, <1>5, <3>1
  <2>4. q \in [1..(n + 1) -> Seq(Bytes)]
    BY <1>4, <2>3
  <2> QED BY <2>1, <2>2, <2>4
<1>8. q = Append(a, x)
  <2> HIDE DEF q, a, x, t
  <2>1. q \in Seq(Seq(Bytes)) /\ Len(q) = n + 1
    BY <1>1, <1>7, SeqDef, LenProperties
  <2>2. Append(a, x) \in Seq(Seq(Bytes)) /\ Len(Append(a, x)) = n + 1
    BY <1>5, <1>6, AppendProperties
  <2>3. Append(a, x)[n + 1] = x
    BY <1>5, <1>6, AppendProperties
  <2>4. \A i \in 1..n : Append(a, x)[i] = a[i]
    BY <1>5, <1>6, AppendProperties
  <2>5. \A i \in 1..(n + 1) : q[i] = Append(a, x)[i]
    <3> SUFFICES ASSUME NEW i \in 1..(n + 1) PROVE q[i] = Append(a, x)[i]
      OBVIOUS
    <3>1. i = n + 1 \/ i \in 1..n
      BY <1>1
    <3> QED BY <1>7, <2>3, <2>4, <3>1
  <2> QED BY <2>1, <2>2, <2>5, SeqEqual
<1> HIDE DEF a, q, x, t
<1>9. FlattenSeq(q) = FlattenSeq(a) \o x
  BY <1>5, <1>6, <1>8, FlattenAppend
<1>10. FlattenSeq(a) \in Seq(Bytes)
  BY <1>6, FlattenType
<1> QED BY <1>5, <1>9, <1>10 DEF BytesOf, a, q, x, t

\* The bytes of the first i strokes.
Upto(i) == BytesOf(SubSeq(typed, 1, i))

\* The first i strokes and the next one.
LEMMA UptoSteps ==
  ASSUME typed \in Seq(Strokes)
  PROVE  /\ Upto(0) = << >> /\ Upto(Len(typed)) = Input
         /\ \A i \in 0..Len(typed) : Upto(i) \in Seq(Bytes)
         /\ \A i \in 0..(Len(typed) - 1) :
              typed[i + 1].bytes \in Seq(Bytes) /\ Upto(i + 1) = Upto(i) \o typed[i + 1].bytes
<1>1. Len(typed) \in Nat /\ \A i \in 1..Len(typed) : typed[i] \in Strokes
  BY ElementOfSeq
<1>2. Upto(0) = << >>
  <2>1. SubSeq(typed, 1, 0) = << >>
    BY SubSeqEmpty
  <2>2. BytesOf(<< >>) = << >>
    <3> DEFINE q == [i \in DOMAIN << >> |-> << >>[i].bytes]
    <3>1. DOMAIN q = {}
      OBVIOUS
    <3>2. q = << >>
      OBVIOUS
    <3>3. BytesOf(<< >>) = FlattenSeq(q)
      BY DEF BytesOf
    <3> HIDE DEF q
    <3>4. FlattenSeq(<< >>) = << >>
      BY EmptySeq DEF FlattenSeq
    <3> QED BY <3>2, <3>3, <3>4
  <2> QED BY <2>1, <2>2 DEF Upto
<1>3. Upto(Len(typed)) = Input
  BY SubSeqFull DEF Upto, Input
<1>4. ASSUME NEW i \in 0..(Len(typed) - 1)
      PROVE  /\ Upto(i) \in Seq(Bytes) /\ typed[i + 1].bytes \in Seq(Bytes)
             /\ Upto(i + 1) = Upto(i) \o typed[i + 1].bytes
  <2> DEFINE s == SubSeq(typed, 1, i)
             st == typed[i + 1]
  <2>1. i + 1 \in 1..Len(typed) /\ 1 \in 1..Len(typed) /\ (i + 1) - 1 = i /\ st \in Strokes
    BY <1>1
  <2>2. s \in Seq(Strokes)
    <3>1. \A k \in 1..i : typed[k] \in Strokes
      BY <1>1
    <3> QED BY <3>1, SubSeqProperties
  <2>3. SubSeq(typed, 1, i + 1) = SubSeq(typed, 1, (i + 1) - 1) \o <<typed[i + 1]>>
    <3>1. i + 1 \in 1..Len(typed)
      BY <2>1
    <3> QED BY <2>1, <3>1, SubSeqRecursiveSecond
  <2>4. SubSeq(typed, 1, i + 1) = s \o <<st>>
    BY <2>1, <2>3
  <2> HIDE DEF s, st
  <2>5. Append(s, st) = s \o <<st>>
    BY <2>1, <2>2, AppendIsConcat
  <2>6. /\ BytesOf(s) \in Seq(Bytes) /\ st.bytes \in Seq(Bytes)
        /\ BytesOf(Append(s, st)) = BytesOf(s) \o st.bytes
    BY <2>1, <2>2, BytesOfAppend
  <2> QED BY <2>4, <2>5, <2>6 DEF Upto, s, st
<1>5. ASSUME NEW i \in 0..Len(typed) PROVE Upto(i) \in Seq(Bytes)
  <2>1. i = Len(typed) \/ i \in 0..(Len(typed) - 1)
    BY <1>1
  <2> QED BY <1>3, <1>4, <2>1, InputType
<1> QED BY <1>2, <1>3, <1>4, <1>5

\* Every stroke has a byte.
LEMMA StrokesNotEmpty ==
  ASSUME NEW st \in Strokes
  PROVE  Len(st.bytes) \in Nat /\ Len(st.bytes) >= 1
<1>1. st.bytes \in Seq(Bytes)
  BY StrokeBytes
<1>2. st \in Special => Len(st.bytes) >= 1
  BY StrokeLengths
<1>3. /\ Len(Enter.bytes) = 1 /\ Len(LineFeed.bytes) = 1 /\ Len(Escape.bytes) = 1 /\ Len(Alt.bytes) = 2
      /\ Len(Stroke(<<"x">>, <<"x">>).bytes) = 1 /\ Len(Stroke(<<"bs">>, <<"backspace">>).bytes) = 1
      /\ Len(Stroke(<<"lead", "cont", "cont">>, <<"rune">>).bytes) = 3
  BY DEF Enter, LineFeed, Escape, Alt, Stroke
<1> QED BY <1>1, <1>2, <1>3 DEF Strokes

\* Where the strokes end in the input, and which bytes lie in between.
LEMMA StrokeEnds ==
  ASSUME typed \in Seq(Strokes)
  PROVE  /\ EndOf(0) = 0 /\ EndOf(Len(typed)) = Len(Input)
         /\ \A i \in 0..Len(typed) : EndOf(i) \in Nat
         /\ \A i \in 0..(Len(typed) - 1) : EndOf(i + 1) = EndOf(i) + Len(typed[i + 1].bytes)
         /\ \A j \in 0..Len(typed) : \A i \in 0..j : i < j => EndOf(i) < EndOf(j)
         /\ \A i \in 0..(Len(typed) - 1) : \A r \in 1..Len(typed[i + 1].bytes) :
              Input[EndOf(i) + r] = typed[i + 1].bytes[r]
<1> DEFINE m == Len(typed)
           L(i) == Len(typed[i].bytes)
<1>0. m \in Nat /\ \A i \in 1..m : typed[i] \in Strokes
  BY ElementOfSeq
<1>1. /\ Upto(0) = << >> /\ Upto(m) = Input
      /\ \A i \in 0..m : Upto(i) \in Seq(Bytes)
      /\ \A i \in 0..(m - 1) :
           typed[i + 1].bytes \in Seq(Bytes) /\ Upto(i + 1) = Upto(i) \o typed[i + 1].bytes
  BY UptoSteps
<1>2. \A i : EndOf(i) = Len(Upto(i))
  BY DEF EndOf, Upto
<1>3. \A i \in 1..m : L(i) \in Nat /\ L(i) >= 1
  BY <1>0, StrokesNotEmpty
<1> HIDE DEF m, L
<1>4. EndOf(0) = 0 /\ EndOf(m) = Len(Input) /\ \A i \in 0..m : EndOf(i) \in Nat
  BY <1>1, <1>2, LenProperties, EmptySeq
<1>5. ASSUME NEW i \in 0..(m - 1)
      PROVE  /\ EndOf(i + 1) = EndOf(i) + L(i + 1) /\ i + 1 \in 1..m /\ i \in 0..m /\ i + 1 \in 0..m
             /\ EndOf(i) < EndOf(i + 1)
             /\ \A k \in 1..EndOf(i) : Upto(i + 1)[k] = Upto(i)[k]
             /\ \A r \in 1..L(i + 1) : Upto(i + 1)[EndOf(i) + r] = typed[i + 1].bytes[r]
  <2> DEFINE a == Upto(i)
             b == typed[i + 1].bytes
  <2>1. i + 1 \in 1..m /\ i \in 0..m /\ i + 1 \in 0..m
    BY <1>0
  <2>2. a \in Seq(Bytes) /\ b \in Seq(Bytes) /\ Upto(i + 1) = a \o b
    BY <1>1, <2>1
  <2>3. EndOf(i) = Len(a) /\ L(i + 1) = Len(b) /\ EndOf(i + 1) = Len(a \o b)
        /\ L(i + 1) \in Nat /\ L(i + 1) >= 1 /\ EndOf(i) \in Nat
    BY <1>2, <1>3, <1>4, <2>1, <2>2 DEF L
  <2> HIDE DEF a, b
  <2>4. Len(a \o b) = Len(a) + Len(b)
        /\ \A k \in 1..(Len(a) + Len(b)) : (a \o b)[k] = IF k <= Len(a) THEN a[k] ELSE b[k - Len(a)]
    BY <2>2, ConcatProperties
  <2>5. \A k \in 1..EndOf(i) : (a \o b)[k] = a[k]
    BY <2>3, <2>4
  <2>6. ASSUME NEW r \in 1..L(i + 1) PROVE (a \o b)[EndOf(i) + r] = b[r]
    <3>1. EndOf(i) + r \in 1..(Len(a) + Len(b)) /\ ~(EndOf(i) + r <= Len(a))
          /\ (EndOf(i) + r) - Len(a) = r
      BY <2>3
    <3> QED BY <2>4, <3>1
  <2>7. \A k \in 1..EndOf(i) : Upto(i + 1)[k] = a[k]
    BY <2>2, <2>5
  <2>8. \A r \in 1..L(i + 1) : Upto(i + 1)[EndOf(i) + r] = b[r]
    BY <2>2, <2>6
  <2>9. EndOf(i + 1) = EndOf(i) + L(i + 1)
    BY <2>3, <2>4
  <2>10. EndOf(i) < EndOf(i + 1)
    BY <2>3, <2>9
  <2> QED BY <2>1, <2>7, <2>8, <2>9, <2>10 DEF a, b
<1> DEFINE T == {j \in 0..m :
                   /\ \A i \in 0..j : i < j => EndOf(i) < EndOf(j)
                   /\ \A i \in 0..(j - 1) : \A r \in 1..L(i + 1) :
                        Upto(j)[EndOf(i) + r] = typed[i + 1].bytes[r]}
<1>6. 0 \in T
  BY <1>0
<1>7. \A j \in 0..(m - 1) : j \in T => j + 1 \in T
  <2> SUFFICES ASSUME NEW j \in 0..(m - 1), j \in T PROVE j + 1 \in T
    OBVIOUS
  <2>1. /\ \A i \in 0..j : i < j => EndOf(i) < EndOf(j)
        /\ \A i \in 0..(j - 1) : \A r \in 1..L(i + 1) :
             Upto(j)[EndOf(i) + r] = typed[i + 1].bytes[r]
    OBVIOUS
  <2> HIDE DEF T
  <2>0. /\ j \in 0..m /\ j + 1 \in 0..m /\ EndOf(j) < EndOf(j + 1) /\ EndOf(j) \in Nat /\ EndOf(j + 1) \in Nat
        /\ \A k \in 1..EndOf(j) : Upto(j + 1)[k] = Upto(j)[k]
        /\ \A r \in 1..L(j + 1) : Upto(j + 1)[EndOf(j) + r] = typed[j + 1].bytes[r]
    BY <1>4, <1>5
  <2>2. ASSUME NEW i \in 0..(j + 1), i < j + 1 PROVE EndOf(i) < EndOf(j + 1)
    <3>1. i \in 0..m /\ EndOf(i) \in Nat /\ i \in 0..j /\ (i < j \/ i = j)
      BY <1>0, <1>4, <2>2
    <3>2. EndOf(i) <= EndOf(j)
      BY <2>0, <2>1, <3>1
    <3> QED BY <2>0, <3>1, <3>2
  <2>3. ASSUME NEW i \in 0..((j + 1) - 1), NEW r \in 1..L(i + 1)
        PROVE  Upto(j + 1)[EndOf(i) + r] = typed[i + 1].bytes[r]
    <3>1. CASE i = j
      <4>1. r \in 1..L(j + 1)
        BY <3>1
      <4>2. Upto(j + 1)[EndOf(j) + r] = typed[j + 1].bytes[r]
        BY <2>0, <4>1
      <4> QED BY <3>1, <4>2
    <3>2. CASE i # j
      <4>1. i \in 0..(j - 1) /\ i \in 0..(m - 1) /\ i + 1 \in 0..j /\ i + 1 \in 1..m
        BY <1>0, <3>2
      <4>2. EndOf(i + 1) = EndOf(i) + L(i + 1) /\ EndOf(i) \in Nat /\ EndOf(i + 1) \in Nat
            /\ L(i + 1) \in Nat
        BY <1>3, <1>4, <1>5, <4>1
      <4>3. EndOf(i + 1) <= EndOf(j)
        <5>1. i + 1 = j \/ i + 1 < j
          BY <4>1
        <5> QED BY <2>0, <2>1, <4>1, <4>2, <5>1
      <4>4. EndOf(i) + r \in 1..EndOf(j)
        BY <2>0, <4>2, <4>3
      <4> QED BY <2>0, <2>1, <4>1, <4>4
    <3> QED BY <3>1, <3>2
  <2> QED BY <2>0, <2>2, <2>3 DEF T
<1> HIDE DEF T
<1>8. \A j \in 0..m : j \in T
  BY <1>0, <1>6, <1>7, UpTo
<1>9. \A j \in 0..m : \A i \in 0..j : i < j => EndOf(i) < EndOf(j)
  BY <1>8 DEF T
<1>10. \A i \in 0..(m - 1) : \A r \in 1..L(i + 1) : Input[EndOf(i) + r] = typed[i + 1].bytes[r]
  <2>1. m \in 0..m
    BY <1>0
  <2>2. m \in T
    BY <1>8, <2>1
  <2>3. \A i \in 0..(m - 1) : \A r \in 1..L(i + 1) : Upto(m)[EndOf(i) + r] = typed[i + 1].bytes[r]
    BY <2>2 DEF T
  <2> QED BY <1>1, <2>3
<1>11. \A i \in 0..(m - 1) : EndOf(i + 1) = EndOf(i) + L(i + 1)
  BY <1>5
<1> QED BY <1>4, <1>9, <1>10, <1>11 DEF m, L

\* A CR that an LF after the first c strokes would belong to.
CRBefore(c) ==
  \E j \in 1..c : typed[j] = Enter /\ \A k \in (j + 1)..c : typed[k] \in Special \cup {Escape}

\* The keys of the first c strokes.
KeysUpto(c) == FlattenSeq([i \in 1..c |-> KeysOf(i)])

\* Which CR an LF would belong to, from stroke to stroke.
LEMMA CRSteps ==
  ASSUME NEW c \in Nat
  PROVE  /\ ~CRBefore(0)
         /\ CRBefore(c + 1) <=> CRAfter(typed[c + 1], CRBefore(c))
         /\ KeysOf(c + 1) = KeysFor(typed[c + 1], CRBefore(c))
<1>1. ~CRBefore(0)
  BY DEF CRBefore
<1>2. ASSUME CRBefore(c + 1) PROVE CRAfter(typed[c + 1], CRBefore(c))
  <2>1. PICK j \in 1..(c + 1) :
          typed[j] = Enter /\ \A k \in (j + 1)..(c + 1) : typed[k] \in Special \cup {Escape}
    BY <1>2 DEF CRBefore
  <2>2. CASE j = c + 1
    BY <2>1, <2>2 DEF CRAfter
  <2>3. CASE j # c + 1
    <3>1. j \in 1..c /\ c + 1 \in (j + 1)..(c + 1)
      BY <2>3
    <3>2. \A k \in (j + 1)..c : k \in (j + 1)..(c + 1)
      OBVIOUS
    <3>3. CRBefore(c)
      BY <2>1, <3>1, <3>2 DEF CRBefore
    <3> QED BY <2>1, <3>1, <3>3 DEF CRAfter
  <2> QED BY <2>2, <2>3
<1>3. ASSUME CRAfter(typed[c + 1], CRBefore(c)) PROVE CRBefore(c + 1)
  <2>1. CASE typed[c + 1] = Enter
    <3>1. c + 1 \in 1..(c + 1) /\ (c + 1 + 1)..(c + 1) = {}
      OBVIOUS
    <3> QED BY <2>1, <3>1 DEF CRBefore
  <2>2. CASE CRBefore(c) /\ typed[c + 1] \in Special \cup {Escape}
    <3>1. PICK j \in 1..c :
            typed[j] = Enter /\ \A k \in (j + 1)..c : typed[k] \in Special \cup {Escape}
      BY <2>2 DEF CRBefore
    <3>2. j \in 1..(c + 1) /\ \A k \in (j + 1)..(c + 1) : k = c + 1 \/ k \in (j + 1)..c
      OBVIOUS
    <3>3. \A k \in (j + 1)..(c + 1) : typed[k] \in Special \cup {Escape}
      BY <2>2, <3>1, <3>2
    <3> QED BY <3>1, <3>2, <3>3 DEF CRBefore
  <2> QED BY <1>3, <2>1, <2>2 DEF CRAfter
<1>4. KeysOf(c + 1) = KeysFor(typed[c + 1], CRBefore(c))
  <2>1. (c + 1) - 1 = c
    OBVIOUS
  <2>2. (\E j \in 1..((c + 1) - 1) :
           typed[j] = Enter /\ \A k \in (j + 1)..((c + 1) - 1) : typed[k] \in Special \cup {Escape})
          <=> CRBefore(c)
    BY <2>1 DEF CRBefore
  <2> QED BY <2>2 DEF KeysOf, KeysFor
<1> QED BY <1>1, <1>2, <1>3, <1>4

\* The keys of a stroke.
LEMMA StrokeKeys ==
  ASSUME NEW st \in Strokes
  PROVE  st.keys \in Seq(Keys)
<1> DEFINE Good(x) == x.keys \in Seq(Keys)
<1>1. Good(Enter) /\ Good(LineFeed) /\ Good(Escape)
  BY DEF Enter, LineFeed, Escape, Stroke, Keys, Bytes
<1>2. Good(Alt) /\ Good(Stroke(<<"x">>, <<"x">>)) /\ Good(Stroke(<<"bs">>, <<"backspace">>))
  BY DEF Alt, Stroke, Keys, Bytes
<1>3. Good(Stroke(<<"lead", "cont", "cont">>, <<"rune">>))
  BY DEF Stroke, Keys
<1>4. Good(Stroke(<<"esc", "[", "A">>, <<"up">>)) /\ Good(Stroke(<<"esc", "O", "A">>, <<"up">>))
  BY DEF Stroke, Keys
<1>5. Good(Stroke(<<"esc", "[", "3", "~">>, <<"delete">>))
  BY DEF Stroke, Keys
<1>6. Good(Stroke(<<"esc", "[", "3", "3", "3", "3", "~">>, <<"unknown">>))
  BY DEF Stroke, Keys
<1> HIDE DEF Good
<1>7. Good(st)
  BY <1>1, <1>2, <1>3, <1>4, <1>5, <1>6 DEF Strokes, Special
<1> QED BY <1>7 DEF Good

\* The keys of a stroke more.
LEMMA KeysUptoSteps ==
  ASSUME typed \in Seq(Strokes)
  PROVE  /\ KeysUpto(0) = << >>
         /\ \A c \in 0..(Len(typed) - 1) :
              /\ KeysUpto(c) \in Seq(Keys) /\ KeysOf(c + 1) \in Seq(Keys)
              /\ KeysUpto(c + 1) = KeysUpto(c) \o KeysOf(c + 1)
<1>1. Len(typed) \in Nat /\ \A i \in 1..Len(typed) : typed[i] \in Strokes
  BY ElementOfSeq
<1>2. KeysUpto(0) = << >>
  <2> DEFINE q == [i \in 1..0 |-> KeysOf(i)]
  <2>1. q = << >>
    <3>1. 1..0 = {}
      OBVIOUS
    <3> QED BY <3>1
  <2>2. FlattenSeq(<< >>) = << >>
    BY EmptySeq DEF FlattenSeq
  <2>3. KeysUpto(0) = FlattenSeq(q)
    BY DEF KeysUpto
  <2> HIDE DEF q
  <2> QED BY <2>1, <2>2, <2>3
<1>3. ASSUME NEW i \in 1..Len(typed) PROVE KeysOf(i) \in Seq(Keys)
  <2>1. typed[i].keys \in Seq(Keys) /\ << >> \in Seq(Keys)
    BY <1>1, StrokeKeys, EmptySeq
  <2> QED BY <2>1 DEF KeysOf
<1>4. ASSUME NEW c \in 0..(Len(typed) - 1)
      PROVE  /\ KeysUpto(c) \in Seq(Keys) /\ KeysOf(c + 1) \in Seq(Keys)
             /\ KeysUpto(c + 1) = KeysUpto(c) \o KeysOf(c + 1)
  <2> DEFINE a == [i \in 1..c |-> KeysOf(i)]
             x == KeysOf(c + 1)
             q == [i \in 1..(c + 1) |-> KeysOf(i)]
  <2>1. c \in Nat /\ c + 1 \in 1..Len(typed) /\ \A i \in 1..(c + 1) : i \in 1..Len(typed)
    BY <1>1
  <2>2. x \in Seq(Keys) /\ \A i \in 1..(c + 1) : KeysOf(i) \in Seq(Keys)
    BY <1>3, <2>1
  <2>3. q \in [1..(c + 1) -> Seq(Keys)] /\ a \in [1..c -> Seq(Keys)]
        /\ q[c + 1] = x /\ \A i \in 1..c : q[i] = a[i]
    BY <2>1, <2>2
  <2> HIDE DEF a, x, q
  <2>4. a \in Seq(Seq(Keys)) /\ Len(a) = c /\ q \in Seq(Seq(Keys)) /\ Len(q) = c + 1
    BY <2>1, <2>3, SeqDef, LenProperties
  <2>5. Append(a, x) \in Seq(Seq(Keys)) /\ Len(Append(a, x)) = c + 1
    BY <2>2, <2>4, AppendProperties
  <2>6. Append(a, x)[c + 1] = x
    BY <2>2, <2>4, AppendProperties
  <2>7. \A i \in 1..c : Append(a, x)[i] = a[i]
    BY <2>2, <2>4, AppendProperties
  <2>8. \A i \in 1..(c + 1) : q[i] = Append(a, x)[i]
    <3> SUFFICES ASSUME NEW i \in 1..(c + 1) PROVE q[i] = Append(a, x)[i]
      OBVIOUS
    <3>1. i = c + 1 \/ i \in 1..c
      BY <2>1
    <3> QED BY <2>3, <2>6, <2>7, <3>1
  <2>9. q = Append(a, x)
    BY <2>4, <2>5, <2>8, SeqEqual
  <2>10. FlattenSeq(q) = FlattenSeq(a) \o x /\ FlattenSeq(a) \in Seq(Keys)
    BY <2>2, <2>4, <2>9, FlattenAppend, FlattenType
  <2> QED BY <2>2, <2>10 DEF KeysUpto, a, x, q
<1> QED BY <1>2, <1>4

\* The decoder d has read the first f bytes of the input, and g are its keys:
\* those of c strokes, and r bytes of the next stroke are behind it.
HasRead(f, d, g) ==
  \E c \in 0..Len(typed), r \in Nat :
    /\ f = EndOf(c) + r
    /\ r > 0 => c < Len(typed) /\ r < Len(typed[c + 1].bytes)
    /\ Partway(d, typed[c + 1], r) /\ Remembers(d, typed[c + 1], r, CRBefore(c))
    /\ g = KeysUpto(c)

\* The byte at p is the Escape key.
EscapeAt(p) == \E i \in DOMAIN typed : typed[i] = Escape /\ EndOf(i) = p

\* The next byte of the input is read as its stroke's.
LEMMA ReadsByte ==
  ASSUME typed \in Seq(Strokes), NEW f \in 0..(Len(Input) - 1), NEW d \in Decoders,
         NEW g \in Seq(Keys), NEW ks \in Seq(Keys), NEW last \in BOOLEAN,
         HasRead(f, d, g \o ks), Input[f + 1] = "esc" => (last <=> EscapeAt(f + 1))
  PROVE  LET e == FeedByte(d, ks, Input[f + 1], last) IN HasRead(f + 1, e.dec, g \o e.keys)
<1> DEFINE m == Len(typed)
<1>0. m \in Nat /\ DOMAIN typed = 1..m /\ \A i \in 1..m : typed[i] \in Strokes
  BY ElementOfSeq
<1>1. /\ EndOf(0) = 0 /\ EndOf(m) = Len(Input)
      /\ \A i \in 0..m : EndOf(i) \in Nat
      /\ \A i \in 0..(m - 1) : EndOf(i + 1) = EndOf(i) + Len(typed[i + 1].bytes)
      /\ \A j \in 0..m : \A i \in 0..j : i < j => EndOf(i) < EndOf(j)
      /\ \A i \in 0..(m - 1) : \A r \in 1..Len(typed[i + 1].bytes) :
           Input[EndOf(i) + r] = typed[i + 1].bytes[r]
  BY StrokeEnds
<1>2. PICK c \in 0..m, r \in Nat :
        /\ f = EndOf(c) + r
        /\ r > 0 => c < m /\ r < Len(typed[c + 1].bytes)
        /\ Partway(d, typed[c + 1], r) /\ Remembers(d, typed[c + 1], r, CRBefore(c))
        /\ g \o ks = KeysUpto(c)
  BY DEF HasRead
<1> HIDE DEF m
<1> DEFINE st == typed[c + 1]
           n == Len(st.bytes)
           b == Input[f + 1]
           e == FeedByte(d, ks, b, last)
<1>3. c \in 0..(m - 1) /\ c + 1 \in 1..m /\ c + 1 \in 0..m /\ c \in Nat
  <2>1. c # m
    <3> SUFFICES ASSUME c = m PROVE FALSE
      OBVIOUS
    <3>1. r = 0
      BY <1>0, <1>2
    <3>2. f = Len(Input) /\ Len(Input) \in Nat
      BY <1>0, <1>1, <1>2, <3>1
    <3> QED BY <3>2
  <2> QED BY <1>0, <2>1
<1>4. st \in Strokes /\ n \in Nat /\ n >= 1 /\ r \in 0..(n - 1) /\ r + 1 \in 1..n
  <2>1. st \in Strokes
    BY <1>0, <1>3
  <2> HIDE DEF st
  <2>2. n \in Nat /\ n >= 1
    BY <2>1, StrokesNotEmpty
  <2>3. r > 0 => r < n
    BY <1>2 DEF st
  <2> HIDE DEF n
  <2> QED BY <2>1, <2>2, <2>3
<1>5. f + 1 = EndOf(c) + (r + 1) /\ EndOf(c) \in Nat /\ EndOf(c + 1) = EndOf(c) + n /\ EndOf(c + 1) \in Nat
      /\ b = st.bytes[r + 1]
  <2>1. f + 1 = EndOf(c) + (r + 1) /\ EndOf(c) \in Nat /\ EndOf(c + 1) \in Nat
    BY <1>1, <1>2, <1>3, SMTT(30)
  <2>2. EndOf(c + 1) = EndOf(c) + n
    BY <1>1, <1>3
  <2>3. Input[EndOf(c) + (r + 1)] = st.bytes[r + 1]
    BY <1>1, <1>3, <1>4
  <2> QED BY <2>1, <2>2, <2>3
<1>6. b = "esc" => (last <=> st = Escape)
  <2> SUFFICES ASSUME b = "esc" PROVE last <=> st = Escape
    OBVIOUS
  <2>1. last <=> EscapeAt(f + 1)
    OBVIOUS
  <2>2. ASSUME st = Escape PROVE EscapeAt(f + 1)
    <3>1. n = 1
      BY <2>2, StrokeLengths
    <3>2. EndOf(c + 1) = f + 1
      BY <1>4, <1>5, <3>1
    <3> QED BY <1>0, <1>3, <2>2, <3>2 DEF EscapeAt
  <2>3. ASSUME EscapeAt(f + 1) PROVE st = Escape
    <3>1. PICK i \in 1..m : typed[i] = Escape /\ EndOf(i) = f + 1
      BY <1>0, <2>3 DEF EscapeAt
    <3>2. i \in 0..m /\ EndOf(i) > EndOf(c) /\ EndOf(i) <= EndOf(c + 1)
      <4>1. i \in 0..m
        BY <1>0
      <4>2. EndOf(i) = EndOf(c) + (r + 1) /\ EndOf(c + 1) = EndOf(c) + n /\ EndOf(c) \in Nat
            /\ n \in Nat /\ r + 1 <= n
        BY <1>4, <1>5, <3>1
      <4> HIDE DEF n
      <4> QED BY <4>1, <4>2
    <3>3. ~(i < c) /\ i # c
      <4>1. i < c => EndOf(i) < EndOf(c)
        BY <1>0, <1>1, <1>3, <3>1
      <4> QED BY <1>1, <1>5, <3>2, <4>1
    <3>4. ~(i > c + 1)
      <4>1. c + 1 < i => EndOf(c + 1) < EndOf(i)
        BY <1>0, <1>1, <1>3, <3>1
      <4> QED BY <1>0, <1>1, <1>3, <1>5, <3>2, <4>1, SMTT(30)
    <3>5. i = c + 1
      BY <1>0, <1>3, <3>3, <3>4
    <3> QED BY <3>1, <3>5
  <2> QED BY <2>1, <2>2, <2>3
<1> DEFINE cr == CRBefore(c)
<1>7. cr \in BOOLEAN
  BY DEF CRBefore
<1>8. ReadsNext(d, ks, st, r, last, cr)
  <2>1. Partway(d, st, r) /\ Remembers(d, st, r, cr)
    BY <1>2
  <2>2. st.bytes[r + 1] = "esc" => (last <=> st = Escape)
    BY <1>5, <1>6
  <2> HIDE DEF st, cr
  <2> QED BY <1>4, <1>7, <2>1, <2>2, ReadsStroke
<1>9. e = FeedByte(d, ks, st.bytes[r + 1], last)
  BY <1>5
<1> HIDE DEF e, b
<1>10. CASE r + 1 < n
  <2>1. Partway(e.dec, st, r + 1) /\ Remembers(e.dec, st, r + 1, cr) /\ e.keys = ks
    BY <1>8, <1>9, <1>10 DEF ReadsNext
  <2>2. r + 1 \in Nat /\ c < m /\ r + 1 < Len(typed[c + 1].bytes)
    BY <1>0, <1>3, <1>10
  <2>3. HasRead(f + 1, e.dec, g \o e.keys)
    BY <1>0, <1>2, <1>5, <2>1, <2>2 DEF HasRead, m
  <2> QED BY <2>3 DEF e, b
<1>11. CASE ~(r + 1 < n)
  <2>1. /\ Partway(e.dec, st, 0) /\ e.dec.lastCR = CRAfter(st, cr)
        /\ e.keys = ks \o KeysFor(st, cr)
    BY <1>8, <1>9, <1>11 DEF ReadsNext
  <2>2. /\ CRBefore(c + 1) <=> CRAfter(st, cr)
        /\ KeysOf(c + 1) = KeysFor(st, cr)
    BY <1>3, CRSteps
  <2>3. KeysOf(c + 1) \in Seq(Keys) /\ KeysUpto(c + 1) = KeysUpto(c) \o KeysOf(c + 1)
    BY <1>3, KeysUptoSteps DEF m
  <2>4. g \o e.keys = KeysUpto(c + 1)
    <3>1. (g \o ks) \o KeysOf(c + 1) = g \o (ks \o KeysOf(c + 1))
      <4> DEFINE x == KeysOf(c + 1)
      <4>1. x \in Seq(Keys)
        BY <2>3
      <4> HIDE DEF x
      <4>2. (g \o ks) \o x = g \o (ks \o x)
        BY <4>1, ConcatAssociative, SMTT(30)
      <4> QED BY <4>2 DEF x
    <3> QED BY <1>2, <2>1, <2>2, <2>3, <3>1
  <2>5. f + 1 = EndOf(c + 1) + 0
    BY <1>4, <1>5, <1>11, SMTT(30)
  <2>6. \A s : Partway(e.dec, s, 0)
    BY <2>1 DEF Partway
  <2>7. \A s : Remembers(e.dec, s, 0, CRBefore(c + 1))
    <3>1. e.dec.lastCR = CRBefore(c + 1)
      BY <2>1, <2>2 DEF CRAfter, CRBefore
    <3> QED BY <3>1 DEF Remembers
  <2>8. HasRead(f + 1, e.dec, g \o e.keys)
    <3>1. c + 1 \in 0..Len(typed) /\ 0 \in Nat /\ ~(0 > 0)
      BY <1>3 DEF m
    <3> QED BY <2>4, <2>5, <2>6, <2>7, <3>1 DEF HasRead
  <2> QED BY <2>8 DEF e, b
<1> QED BY <1>10, <1>11

\* A message whose ESCs are what their places say is read byte by byte.
LEMMA ReadsMessage ==
  ASSUME KeyInv, got \in Seq(Keys), HasRead(fed, dec, got),
         NEW n \in 1..(Len(Input) - fed), ~TornBy(fed + n),
         NEW p, p = SubSeq(Input, fed + 1, fed + n)
  PROVE  HasRead(fed + n, Feed(dec, p).dec, got \o Feed(dec, p).keys)
<1>1. /\ typed \in Seq(Strokes) /\ Input \in Seq(Bytes) /\ Len(Input) \in Nat /\ fed \in Nat /\ n \in Nat
      /\ n >= 1 /\ fed + n <= Len(Input) /\ dec \in Decoders
  BY InputType DEF KeyInv
<1>2. p \in Seq(Bytes) /\ Len(p) = n
  <2>1. \A i \in (fed + 1)..(fed + n) : Input[i] \in Bytes
    BY <1>1, ElementOfSeq
  <2>2. SubSeq(Input, fed + 1, fed + n) \in Seq(Bytes)
    BY <1>1, <2>1, SubSeqProperties
  <2>3. Len(SubSeq(Input, fed + 1, fed + n))
          = IF fed + 1 <= fed + n THEN (fed + n) - (fed + 1) + 1 ELSE 0
    BY <1>1, <2>1, SubSeqProperties
  <2> QED BY <1>1, <2>2, <2>3
<1>3. ASSUME NEW k \in 0..(n - 1) PROVE p[k + 1] = Input[fed + k + 1]
  <2>1. \A i \in (fed + 1)..(fed + n) : Input[i] \in Bytes
    BY <1>1, ElementOfSeq
  <2>2. \A i \in 1..((fed + n) - (fed + 1) + 1) :
          SubSeq(Input, fed + 1, fed + n)[i] = Input[(fed + 1) + i - 1]
    BY <1>1, <2>1, SubSeqProperties
  <2>3. k + 1 \in 1..((fed + n) - (fed + 1) + 1) /\ (fed + 1) + (k + 1) - 1 = fed + k + 1
    BY <1>1
  <2> QED BY <2>2, <2>3
<1>4. PICK h : /\ h[0] = Result(dec, << >>) /\ Feed(dec, p) = h[Len(p)]
               /\ \A k \in 0..Len(p) : h[k] \in Results
               /\ \A k \in 0..(Len(p) - 1) :
                    h[k + 1] = FeedByte(h[k].dec, h[k].keys, p[k + 1], k + 1 = Len(p))
  BY <1>1, <1>2, FeedSteps
<1> DEFINE T == {k \in 0..n : HasRead(fed + k, h[k].dec, got \o h[k].keys)}
<1>5. 0 \in T
  <2>1. h[0].dec = dec /\ h[0].keys = << >>
    BY <1>4 DEF Result
  <2>2. got \o << >> = got /\ fed + 0 = fed
    BY <1>1, ConcatEmptySeq
  <2>3. HasRead(fed + 0, h[0].dec, got \o h[0].keys)
    <3> DEFINE f == fed + 0
               g == got \o h[0].keys
    <3>1. f = fed /\ g = got
      BY <2>1, <2>2
    <3> HIDE DEF f, g
    <3>2. HasRead(f, h[0].dec, g)
      BY <2>1, <3>1
    <3> QED BY <3>2 DEF f, g
  <2>4. 0 \in 0..n
    BY <1>1
  <2> QED BY <2>3, <2>4
<1>6. \A k \in 0..(n - 1) : k \in T => k + 1 \in T
  <2> SUFFICES ASSUME NEW k \in 0..(n - 1), HasRead(fed + k, h[k].dec, got \o h[k].keys)
               PROVE  k + 1 \in T
    OBVIOUS
  <2> DEFINE d == h[k].dec
             ks == h[k].keys
             f == fed + k
             last == (k + 1 = Len(p))
             e == FeedByte(d, ks, Input[f + 1], last)
  <2>1. f \in 0..(Len(Input) - 1) /\ f + 1 \in (fed + 1)..(fed + n) /\ last \in BOOLEAN
        /\ (last <=> f + 1 = fed + n) /\ k + 1 \in 0..n /\ k \in 0..n /\ fed + (k + 1) = f + 1
    BY <1>1, <1>2
  <2>2. d \in Decoders /\ ks \in Seq(Keys)
    BY <1>2, <1>4, <2>1 DEF Results
  <2>3. Input[f + 1] = "esc" => (last <=> EscapeAt(f + 1))
    BY <2>1 DEF TornBy, EscapeAt
  <2>4. h[k + 1] = e
    <3>1. k \in 0..(Len(p) - 1) /\ p[k + 1] = Input[fed + k + 1]
      BY <1>2, <1>3
    <3>2. h[k + 1] = FeedByte(h[k].dec, h[k].keys, p[k + 1], k + 1 = Len(p))
      BY <1>4, <3>1
    <3> QED BY <3>1, <3>2
  <2>5. HasRead(f + 1, e.dec, got \o e.keys)
    <3>1. HasRead(f, d, got \o ks)
      OBVIOUS
    <3> HIDE DEF d, ks, f, last
    <3> QED BY <1>1, <2>1, <2>2, <2>3, <3>1, ReadsByte
  <2>6. HasRead(fed + (k + 1), h[k + 1].dec, got \o h[k + 1].keys)
    <3> HIDE DEF e, f
    <3> QED BY <2>1, <2>4, <2>5
  <2> QED BY <2>1, <2>6
<1> HIDE DEF T
<1>7. \A k \in 0..n : k \in T
  BY <1>1, <1>5, <1>6, UpTo
<1>8. n \in T
  BY <1>1, <1>7
<1> QED BY <1>2, <1>4, <1>8 DEF T

\* The inductive invariant of KeysAsTyped.
TypedInv ==
  /\ KeyInv /\ got \in Seq(Keys) /\ torn \in BOOLEAN
  /\ (side = "keys" /\ ~torn) => HasRead(fed, dec, got)

\* A new decoder has read nothing.
LEMMA TypedInvInit == TermInit => TypedInv
<1> SUFFICES ASSUME TermInit PROVE TypedInv
  OBVIOUS
<1>1. KeyInv
  BY KeyInvInit
<1>2. typed \in Seq(Strokes) /\ Len(typed) \in Nat
  BY <1>1, LenProperties DEF KeyInv
<1>3. fed = 0 /\ dec = NewDecoder /\ got = << >> /\ torn = FALSE
  BY DEF TermInit
<1>4. EndOf(0) = 0 /\ KeysUpto(0) = << >> /\ ~CRBefore(0)
  BY <1>2, StrokeEnds, KeysUptoSteps, CRSteps
<1>5. \A s : Partway(dec, s, 0) /\ Remembers(dec, s, 0, CRBefore(0))
  <2>1. dec.state = "ground" /\ dec.utf = << >> /\ dec.lastCR = FALSE
    BY <1>3 DEF NewDecoder
  <2>2. CRBefore(0) = FALSE
    BY <1>4 DEF CRBefore
  <2> QED BY <2>1, <2>2 DEF Partway, Remembers
<1>6. HasRead(fed, dec, got)
  <2>1. 0 \in 0..Len(typed) /\ 0 \in Nat /\ ~(0 > 0) /\ fed = EndOf(0) + 0
    BY <1>2, <1>3, <1>4
  <2> QED BY <1>3, <1>4, <1>5, <2>1 DEF HasRead
<1> QED BY <1>1, <1>3, <1>6, EmptySeq DEF TypedInv

\* Every step keeps the decoder in step with the strokes.
LEMMA TypedInvNext ==
  ASSUME TypedInv, [TermNext]_termVars
  PROVE  TypedInv'
<1>0. KeyInv'
  BY KeyInvNext DEF TypedInv
<1>1. ASSUME typed' = typed
      PROVE  HasRead(fed', dec', got') => HasRead(fed, dec, got)'
  BY <1>1 DEF HasRead, EndOf, BytesOf, KeysUpto, KeysOf, CRBefore
<1>2. CASE UNCHANGED inVars /\ side' = side
  <2>1. typed' = typed /\ fed' = fed /\ dec' = dec /\ got' = got /\ torn' = torn
    BY <1>2 DEF inVars
  <2> QED BY <1>0, <1>1, <1>2, <2>1 DEF TypedInv
<1>3. ASSUME NEW n \in 1..(Len(Input) - fed), KeyWrite(n) PROVE TypedInv'
  <2> DEFINE cut == IF n <= MaxInput THEN n ELSE MaxInput
             p == SubSeq(Input, fed + 1, fed + cut)
             r == Feed(dec, p)
  <2>1. /\ dec' = r.dec /\ got' = got \o r.keys /\ torn' = (torn \/ cut # n \/ TornBy(fed + n))
        /\ fed' = fed + n /\ typed' = typed /\ side' = side /\ side = "keys"
    BY <1>3 DEF KeyWrite
  <2>2. /\ Input \in Seq(Bytes) /\ Len(Input) \in Nat /\ fed \in Nat /\ n \in Nat /\ MaxInput \in Nat
        /\ fed + n <= Len(Input) /\ dec \in Decoders /\ got \in Seq(Keys)
    BY InputType, TerminalAssumption DEF TypedInv, KeyInv
  <2>3. cut \in Nat /\ fed + cut <= Len(Input)
    BY <2>2
  <2> HIDE DEF cut
  <2>4. p \in Seq(Bytes)
    <3>1. \A i \in (fed + 1)..(fed + cut) : Input[i] \in Bytes
      BY <2>2, <2>3, ElementOfSeq
    <3> QED BY <2>2, <2>3, <3>1, SubSeqProperties
  <2>5. r.keys \in Seq(Keys)
    <3> HIDE DEF p
    <3>1. PICK h : Feed(dec, p) = h[Len(p)] /\ \A k \in 0..Len(p) : h[k] \in Results
      BY <2>2, <2>4, FeedSteps
    <3>2. Len(p) \in 0..Len(p)
      BY <2>4
    <3> QED BY <3>1, <3>2 DEF Results
  <2>6. got' \in Seq(Keys)
    <3> HIDE DEF r
    <3> QED BY <2>1, <2>2, <2>5, ConcatProperties
  <2>7. torn' \in BOOLEAN
    BY <2>1 DEF TornBy
  <2>8. ASSUME ~torn' PROVE HasRead(fed, dec, got)'
    <3>1. ~torn /\ cut = n /\ ~TornBy(fed + n)
      BY <2>1, <2>8
    <3>2. HasRead(fed, dec, got)
      BY <2>1, <3>1 DEF TypedInv
    <3>3. p = SubSeq(Input, fed + 1, fed + n)
      BY <3>1
    <3>4. HasRead(fed + n, r.dec, got \o r.keys)
      <4> HIDE DEF p
      <4> QED BY <2>2, <3>1, <3>2, <3>3, ReadsMessage DEF TypedInv
    <3>5. HasRead(fed', dec', got')
      <4> HIDE DEF r
      <4> QED BY <2>1, <3>4
    <3> QED BY <1>1, <2>1, <3>5
  <2> QED BY <1>0, <2>1, <2>6, <2>7, <2>8 DEF TypedInv
<1>4. CASE \E data \in Reads : PtyRead(data)
  BY <1>2, <1>4 DEF PtyRead
<1>5. CASE RingWrite
  BY <1>2, <1>5 DEF RingWrite
<1>6. CASE (\E p \in Texts : TtyWrite(p)) \/ (\E p \in Frames : Frame(p)) \/ ClearScreen
  BY <1>2, <1>6 DEF TtyWrite, Frame, ClearScreen, TtyEmits
<1>7. CASE UNCHANGED termVars
  BY <1>2, <1>7 DEF termVars
<1> QED BY <1>3, <1>4, <1>5, <1>6, <1>7 DEF TermNext

\* The strokes that were read are those that end where the reading is.
LEMMA StrokesRead ==
  ASSUME typed \in Seq(Strokes), NEW c \in 0..Len(typed), NEW r \in Nat,
         r > 0 => c < Len(typed) /\ r < Len(typed[c + 1].bytes)
  PROVE  Cardinality({j \in DOMAIN typed : EndOf(j) <= EndOf(c) + r}) = c
<1> DEFINE m == Len(typed)
           S == {j \in DOMAIN typed : EndOf(j) <= EndOf(c) + r}
<1>0. m \in Nat /\ DOMAIN typed = 1..m
  BY LenProperties
<1>1. /\ \A i \in 0..m : EndOf(i) \in Nat
      /\ \A i \in 0..(m - 1) : EndOf(i + 1) = EndOf(i) + Len(typed[i + 1].bytes)
      /\ \A j \in 0..m : \A i \in 0..j : i < j => EndOf(i) < EndOf(j)
  BY StrokeEnds
<1>2. r > 0 => c < m /\ r < Len(typed[c + 1].bytes)
  OBVIOUS
<1>3. \A i \in 1..m : typed[i] \in Strokes
  BY ElementOfSeq
<1> HIDE DEF m
<1>9. c \in 0..m
  BY DEF m
<1>4. ASSUME NEW j \in 1..m, j <= c PROVE EndOf(j) <= EndOf(c) + r
  <2>1. j \in 0..m /\ j \in 0..c /\ EndOf(j) \in Nat /\ EndOf(c) \in Nat
    BY <1>0, <1>1, <1>4, <1>9
  <2>2. j < c => EndOf(j) < EndOf(c)
    BY <1>1, <1>9, <2>1
  <2>3. j = c \/ j < c
    BY <1>4, <1>9
  <2> QED BY <2>1, <2>2, <2>3
<1>5. ASSUME NEW j \in 1..m, j > c PROVE ~(EndOf(j) <= EndOf(c) + r)
  <2>1. j \in 0..m /\ c \in 0..j /\ EndOf(j) \in Nat /\ EndOf(c) \in Nat /\ c \in 0..(m - 1)
        /\ c + 1 \in 0..j /\ c + 1 \in 1..m /\ c + 1 \in 0..m
    BY <1>0, <1>1, <1>5, <1>9
  <2>2. EndOf(c) < EndOf(j)
    BY <1>1, <1>5, <2>1
  <2>3. CASE r = 0
    BY <2>1, <2>2, <2>3
  <2>4. CASE r > 0
    <3> DEFINE n == Len(typed[c + 1].bytes)
    <3>1. n \in Nat /\ r < n
      BY <1>2, <1>3, <2>1, <2>4, StrokesNotEmpty
    <3>2. EndOf(c + 1) = EndOf(c) + n /\ EndOf(c + 1) \in Nat
      BY <1>1, <2>1
    <3> HIDE DEF n
    <3>3. EndOf(c + 1) <= EndOf(j)
      <4>1. c + 1 = j \/ c + 1 < j
        BY <2>1
      <4>2. c + 1 < j => EndOf(c + 1) < EndOf(j)
        BY <1>1, <2>1
      <4> QED BY <2>1, <3>2, <4>1, <4>2
    <3> QED BY <2>1, <3>1, <3>2, <3>3
  <2> QED BY <2>3, <2>4
<1>6. S = 1..c
  <2>1. \A j \in 1..c : j \in 1..m /\ j <= c
    BY <1>0, <1>9
  <2>2. \A j \in 1..m : j <= c \/ j > c
    BY <1>9
  <2>3. \A j \in 1..m : j <= c => j \in 1..c
    BY <1>9
  <2> QED BY <1>0, <1>4, <1>5, <2>1, <2>2, <2>3
<1> HIDE DEF S
<1>7. Cardinality(1..c) = c
  BY <1>9, FS_Interval
<1>8. Cardinality(S) = c
  BY <1>6, <1>7
<1> QED BY <1>8 DEF S

\* However the messages cut the bytes, for any number of keystrokes and any
\* bound on the parameters, the keys are those that were typed, each with its
\* last byte (Decoder, Feed).
THEOREM KeysAlwaysAsTyped == TermSpec => []KeysAsTyped
<1>1. TypedInv => KeysAsTyped
  <2> SUFFICES ASSUME TypedInv, side = "keys", ~torn
               PROVE  got = FlattenSeq([i \in 1..Cardinality({j \in DOMAIN typed : EndOf(j) <= fed})
                                          |-> KeysOf(i)])
    BY DEF KeysAsTyped
  <2>1. typed \in Seq(Strokes) /\ HasRead(fed, dec, got)
    BY DEF TypedInv, KeyInv
  <2>2. PICK c \in 0..Len(typed), r \in Nat :
          /\ fed = EndOf(c) + r
          /\ r > 0 => c < Len(typed) /\ r < Len(typed[c + 1].bytes)
          /\ got = KeysUpto(c)
    BY <2>1 DEF HasRead
  <2>3. Cardinality({j \in DOMAIN typed : EndOf(j) <= EndOf(c) + r}) = c
    BY <2>1, <2>2, StrokesRead
  <2> QED BY <2>2, <2>3 DEF KeysUpto
<1>2. TypedInv /\ [TermNext]_termVars => TypedInv'
  BY TypedInvNext
<1> QED BY <1>1, <1>2, TypedInvInit, PTL DEF TermSpec
=============================================================================
