----------------------------- MODULE LineZipper -----------------------------
(***************************************************************************)
(* What a line editor promises: the text before the cursor and the text    *)
(* after it, and what each key does to the two.  LineEditor (the loop of   *)
(* fakeshell/term/editor.go, with its slices and index arithmetic) is shown*)
(* to implement this specification.                                        *)
(***************************************************************************)
EXTENDS Naturals, Sequences

CONSTANTS Chars,    \* printable characters
          Space,    \* the one among them that is white space
          MaxLen    \* length of the longest line

VARIABLES before, after,   \* the text on either side of the cursor
          key              \* the key that was handled last

zipVars == <<before, after, key>>

Cut(s, n) == SubSeq(s, 1, n)
Blank(s) == \A i \in DOMAIN s : s[i] = Space
Solid(s) == \A i \in DOMAIN s : s[i] # Space

\* rest is s without its last word and the white space after that word.
WordErased(s, rest) ==
  \E i, j \in 0..Len(s) :
    /\ i <= j /\ rest = Cut(s, i)
    /\ Solid(SubSeq(s, i + 1, j)) /\ Blank(SubSeq(s, j + 1, Len(s)))
    /\ i = 0 \/ (s[i] = Space /\ i < j)

Keep(b, a) == before' = b /\ after' = a

\* The effect of each key.
ZipInsert(ch) ==
  /\ key' = "char"
  /\ IF Len(before) + Len(after) < MaxLen THEN Keep(Append(before, ch), after)
                                          ELSE Keep(before, after)
ZipLeft ==
  /\ key' = "left"
  /\ IF before = << >> THEN Keep(before, after)
     ELSE Keep(Cut(before, Len(before) - 1), <<before[Len(before)]>> \o after)
ZipRight ==
  /\ key' = "right"
  /\ IF after = << >> THEN Keep(before, after) ELSE Keep(Append(before, Head(after)), Tail(after))
ZipBackspace ==
  /\ key' = "backspace"
  /\ Keep(IF before = << >> THEN before ELSE Cut(before, Len(before) - 1), after)
ZipDelete == key' = "delete" /\ Keep(before, IF after = << >> THEN after ELSE Tail(after))
ZipHome == key' = "home" /\ Keep(<< >>, before \o after)
ZipEnd == key' = "end" /\ Keep(before \o after, << >>)
ZipKillBefore == key' = "ctrl-u" /\ Keep(<< >>, after)
ZipKillAfter == key' = "ctrl-k" /\ Keep(before, << >>)
ZipEraseWord ==
  /\ key' = "ctrl-w" /\ after' = after
  /\ \E n \in 0..Len(before) : before' = Cut(before, n) /\ WordErased(before, before')

\* A completion extends the word before the cursor.
ZipComplete ==
  /\ key' = "tab" /\ after' = after
  /\ Len(before') + Len(after) <= MaxLen
  /\ Len(before) <= Len(before') /\ before = Cut(before', Len(before))

\* Recalled lines come from outside; a line is read or given up.
ZipOutside ==
  \/ key' \in {"up", "down"} /\ (UNCHANGED <<before, after>> \/ after' = << >>)
  \/ key' \in {"clear", "other"} /\ Keep(before, after)
  \/ key' = "none" /\ Keep(<< >>, << >>)

ZipInit == before = << >> /\ after = << >> /\ key = "none"

ZipNext ==
  \/ \E ch \in Chars : ZipInsert(ch)
  \/ ZipLeft \/ ZipRight \/ ZipBackspace \/ ZipDelete \/ ZipHome \/ ZipEnd
  \/ ZipKillBefore \/ ZipKillAfter \/ ZipEraseWord \/ ZipComplete \/ ZipOutside

ZipSpec == ZipInit /\ [][ZipNext]_zipVars
=============================================================================
