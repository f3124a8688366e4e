--------------------------- MODULE SlidingWindow ---------------------------
(***************************************************************************)
(* What a replay ring promises: it keeps the last Size bytes written since *)
(* the last reset, oldest first.  A byte is named by its position in the   *)
(* output stream, so two different bytes are never confused.  RingBuffer   *)
(* (internal/ring) is shown to implement this specification.               *)
(***************************************************************************)
EXTENDS Naturals, Sequences

CONSTANTS Size,    \* capacity given to ring.New
          MaxPos   \* bound on the length of the output stream

VARIABLES pos,     \* number of bytes written so far
          kept     \* the bytes a snapshot returns, oldest first

windowVars == <<pos, kept>>

\* The n bytes that a write at stream position p appends.
Bytes(p, n) == [i \in 1..n |-> p + i - 1]

\* The last k elements of s (all of s when it is shorter).
LastOf(s, k) == IF Len(s) <= k THEN s ELSE SubSeq(s, Len(s) - k + 1, Len(s))

WindowInit == pos = 0 /\ kept = << >>

WindowWrite(n) ==
  /\ pos' = pos + n
  /\ kept' = LastOf(kept \o Bytes(pos, n), Size)

WindowReset == kept' = << >> /\ UNCHANGED pos

WindowNext == (\E n \in 0..(MaxPos - pos) : WindowWrite(n)) \/ WindowReset

WindowSpec == WindowInit /\ [][WindowNext]_windowVars
=============================================================================
