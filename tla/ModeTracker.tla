---------------------------- MODULE ModeTracker -----------------------------
(***************************************************************************)
(* The modeTracker of internal/pty/session.go: a state machine over the    *)
(* bytes a program writes that remembers whether the program asked for     *)
(* application cursor keys (DECCKM), and the translation of arrow keys     *)
(* that depends on it.  A byte is named by what it is; "x" stands for      *)
(* every byte that the code does not mention.                              *)
(***************************************************************************)
EXTENDS Naturals, Sequences, SequencesExt

Digits == {"1", "2"}
Arrows == {"A", "B", "C", "D"}

NewTracker == [state |-> "normal", param |-> << >>, DECCKM |-> FALSE]

\* The param is emptied with the state, or left alone.
Goto(t, state) == [t EXCEPT !.state = state]
Restart(t, state) == [t EXCEPT !.state = state, !.param = << >>]
Digest(t, b) == [t EXCEPT !.state = "csiQN", !.param = Append(@, b)]

\* h or l: only a parameter that is exactly "1" is DECCKM.
EndOfMode(t, b) ==
  IF t.param = <<"1">> THEN [Restart(t, "normal") EXCEPT !.DECCKM = b = "h"]
                       ELSE Restart(t, "normal")

TrackByte(t, b) ==
  CASE t.state = "normal" -> IF b = "esc" THEN Goto(t, "esc") ELSE t
    [] t.state = "esc"    -> Goto(t, IF b = "[" THEN "csi" ELSE "normal")
    [] t.state = "csi"    -> IF b = "?" THEN Restart(t, "csiQ") ELSE Goto(t, "normal")
    [] t.state = "csiQ"   -> IF b \in Digits THEN Digest(t, b) ELSE Goto(t, "normal")
    [] t.state = "csiQN"  -> IF b \in Digits \cup {";"} THEN Digest(t, b)
                             ELSE IF b \in {"h", "l"} THEN EndOfMode(t, b)
                             ELSE Restart(t, "normal")

\* Mutant of process: every read is parsed from the start.
processAfresh(t, p) == FoldLeft(TrackByte, Restart(t, "normal"), p)

\* The state is carried from one read to the next.
process(t, p) == FoldLeft(TrackByte, t, p)

\* A message that is one arrow key in its normal form, and nothing else.
LoneArrow(data) ==
  /\ Len(data) = 3 /\ data[1] = "esc" /\ data[2] = "[" /\ data[3] \in Arrows

transformInput(t, data) ==
  IF t.DECCKM /\ LoneArrow(data) THEN <<"esc", "O", data[3]>> ELSE data

-----------------------------------------------------------------------------
(* Reference: what a program asked for, from all it has written.           *)

\* CSI ? 1 h or CSI ? 1 l begins at i.
SwitchAt(out, i) ==
  /\ i + 4 <= Len(out)
  /\ SubSeq(out, i, i + 3) = <<"esc", "[", "?", "1">>
  /\ out[i + 4] \in {"h", "l"}

\* The bytes before i end in the middle of another sequence.
Unfinished(out, i) ==
  \E j \in 1..(i - 1) :
    LET tail == SubSeq(out, j, i - 1)
    IN  \/ tail \in {<<"esc">>, <<"esc", "[">>}
        \/ /\ Len(tail) >= 3 /\ SubSeq(tail, 1, 3) = <<"esc", "[", "?">>
           /\ \A n \in 4..Len(tail) : tail[n] \in Digits \cup {";"}

\* The modes that the output may have left: that of the last switch that
\* begins outside any other sequence, or of one after it.
AskedModes(out) ==
  LET switches == {i \in DOMAIN out : SwitchAt(out, i)}
      plain == {i \in switches : ~Unfinished(out, i)}
  IN  {out[i + 4] = "h" : i \in {j \in switches : \A k \in plain : k <= j}}
        \cup (IF plain = {} THEN {FALSE} ELSE {})
=============================================================================
