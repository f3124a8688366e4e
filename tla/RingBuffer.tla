----------------------------- MODULE RingBuffer -----------------------------
(***************************************************************************)
(* The circular byte buffer of internal/ring/ring.go: an array, the next   *)
(* write position and a flag that says the array has wrapped.  Every       *)
(* operation runs under the buffer's mutex, so each is one step.           *)
(***************************************************************************)
EXTENDS Naturals, Sequences

CONSTANTS Size,    \* len(b.buf), fixed by New
          MaxPos   \* bound on the length of the output stream

ASSUME RingAssumption == Size \in Nat /\ MaxPos \in Nat

VARIABLES buf,     \* the array, indexed 0..Size-1
          head,    \* next write position
          full,    \* the buffer has wrapped at least once
          pos,     \* number of bytes written so far; names the next byte
          since    \* value of pos at the last Reset (history)

vars == <<buf, head, full, pos, since>>

\* New(size): make([]byte, size) is zeroed.
Init ==
  /\ buf = [j \in 0..(Size - 1) |-> 0]
  /\ head = 0
  /\ full = FALSE
  /\ pos = 0
  /\ since = 0

\* len(p) >= size: only the last Size bytes of p are kept.
WriteOversized(n) ==
  /\ n >= Size
  /\ buf' = [j \in 0..(Size - 1) |-> pos + n - Size + j]
  /\ head' = 0
  /\ full' = TRUE

\* p fits between head and the end of the array.
WriteFits(n) ==
  /\ n < Size
  /\ n <= Size - head
  /\ buf' = [j \in 0..(Size - 1) |->
               IF j >= head /\ j < head + n THEN pos + j - head ELSE buf[j]]
  /\ head' = IF head + n = Size THEN 0 ELSE head + n
  /\ full' = (full \/ head + n = Size)

\* Mutant of WriteWraps: the rest of p is copied from the wrong offset of p.
WriteWrapsFromStart(n) ==
  /\ n < Size
  /\ n > Size - head
  /\ buf' = [j \in 0..(Size - 1) |->
               IF j >= head THEN pos + j - head
               ELSE IF j < n - (Size - head) THEN pos + j
               ELSE buf[j]]
  /\ head' = n - (Size - head)
  /\ full' = TRUE

\* p is split: its first Size - head bytes go to the end of the array.
WriteWraps(n) ==
  /\ n < Size
  /\ n > Size - head
  /\ buf' = [j \in 0..(Size - 1) |->
               IF j >= head THEN pos + j - head
               ELSE IF j < n - (Size - head) THEN pos + (Size - head) + j
               ELSE buf[j]]
  /\ head' = n - (Size - head)
  /\ full' = TRUE

\* Write(p) with len(p) = n.
Write(n) ==
  /\ pos' = pos + n
  /\ UNCHANGED since
  /\ IF n = 0 \/ Size = 0
       THEN UNCHANGED <<buf, head, full>>
       ELSE WriteOversized(n) \/ WriteFits(n) \/ WriteWraps(n)

\* Mutant of Reset: the wrapped flag survives.
ResetKeepsFull ==
  /\ head' = 0
  /\ since' = pos
  /\ UNCHANGED <<buf, full, pos>>

\* Reset leaves the array alone: only head and full say what is buffered.
Reset ==
  /\ head' = 0
  /\ full' = FALSE
  /\ since' = pos
  /\ UNCHANGED <<buf, pos>>

\* Snapshot(): the buffered bytes, oldest first.
Snapshot ==
  IF head = 0 /\ ~full THEN << >>
  ELSE IF ~full THEN [i \in 1..head |-> buf[i - 1]]
  ELSE [i \in 1..Size |-> IF i <= Size - head THEN buf[head + i - 1]
                          ELSE buf[i - 1 - (Size - head)]]

Next == (\E n \in 0..(MaxPos - pos) : Write(n)) \/ Reset

Spec == Init /\ [][Next]_vars

-----------------------------------------------------------------------------
(* Properties *)

\* Types: head always indexes the array (it is 0 in an empty array).
TypeOK ==
  /\ buf \in [0..(Size - 1) -> Nat]
  /\ head \in Nat
  /\ head < Size \/ head = 0
  /\ full \in BOOLEAN
  /\ pos \in Nat
  /\ since \in 0..pos

\* How many bytes the ring holds: everything since the reset, at most Size.
Held == IF pos - since <= Size THEN pos - since ELSE Size

\* Snapshot returns exactly the last Size bytes written since the last Reset,
\* each once and in stream order, whatever mix of short, exactly filling,
\* wrapping and oversized writes led there (ring.go Write and Snapshot).
SnapshotExact == Snapshot = [i \in 1..Held |-> (pos - Held) + i - 1]

Window == INSTANCE SlidingWindow WITH kept <- Snapshot

\* The array, head and full implement the sliding window: seen through
\* Snapshot, every Write and Reset is a write to or a reset of the window.
ImplementsWindow == Window!WindowSpec
=============================================================================
