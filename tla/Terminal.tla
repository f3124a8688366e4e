------------------------------ MODULE Terminal ------------------------------
(***************************************************************************)
(* The two implementations of sessions.Terminal, byte by byte: what a PTY  *)
(* session (internal/pty/session.go) and a simulated one                   *)
(* (fakeshell/session.go) do to output on its way to the replay ring and   *)
(* to input on its way to the program.                                     *)
(*                                                                         *)
(* A PTY's output, a simulated terminal's output and a simulated           *)
(* terminal's input share no state, so a behaviour exercises one of them.  *)
(***************************************************************************)
EXTENDS RingBuffer, ModeTracker, KeyDecoder, FiniteSets

CONSTANTS MaxOps,    \* bound: reads of a PTY or writes of a program
          MaxTyped,  \* bound: keystrokes
          MaxInput   \* bytes of a message that are read (maxInputBytes, 64 KiB)

ASSUME TerminalAssumption == {MaxOps, MaxTyped, MaxInput} \subseteq Nat

VARIABLES
  side,    \* "pty", "tty" or "keys"
  ops,     \* reads or writes so far (bound)
  out,     \* every byte that was output (history)
  pend,    \* output that is still to be written to the ring
  tracker, \* the PTY's modeTracker
  tty,     \* the TTY's lastCR and atLineStart
  wrote,   \* every byte the simulated program wrote (history)
  typed,   \* the keystrokes of the client
  fed,     \* how many bytes of them were sent
  dec,     \* the simulated session's Decoder
  got,     \* the keys it returned (history)
  torn     \* a message broke the rule that TornBy states, or was cut (history)

ringVars == vars
outVars == <<ops, out, pend, tracker, tty, wrote>>
inVars == <<typed, fed, dec, got, torn>>
termVars == <<side, ringVars, outVars, inVars>>

-----------------------------------------------------------------------------
(* Output of a PTY *)

Reads == {<<"esc">>, <<"[", "?">>, <<"1">>, <<";", "1">>, <<"h">>, <<"l", "x">>,
          <<"esc", "[", "?", "1", "h">>, <<"x", "esc", "[", "?", "1", "l">>}

\* emit, first half: the tracker sees one read, under trackerMu.
PtyRead(data) ==
  /\ side = "pty" /\ pend = << >> /\ ops < MaxOps
  /\ tracker' = process(tracker, data)
  /\ ops' = ops + 1 /\ out' = out \o data /\ pend' = data
  /\ UNCHANGED <<side, ringVars, tty, wrote, inVars>>

\* ... second half, and the second half of EmitReset: the ring is written.
RingWrite ==
  /\ pend # << >>
  /\ Write(Len(pend)) /\ pend' = << >>
  /\ UNCHANGED <<side, ops, out, tracker, tty, wrote, inVars>>

-----------------------------------------------------------------------------
(* Output of a simulated program *)

Texts == {<<"x">>, <<"lf">>, <<"cr">>, <<"x", "lf">>, <<"cr", "lf", "x", "lf">>}
Frames == {<<"x">>, <<"x", "lf">>, <<"cr", "lf", "x", "x", "cr">>}

\* Mutant of Translated: whether the last write ended in CR is not remembered.
TranslatedAfresh(cr, p) ==
  FlattenSeq([i \in DOMAIN p |->
    IF p[i] = "lf" /\ (i = 1 \/ p[i - 1] # "cr")
      THEN <<"cr", "lf">> ELSE <<p[i]>>])

\* translate: LF becomes CR LF, unless CR came just before, in this write or
\* at the end of the last.
Translated(cr, p) ==
  FlattenSeq([i \in DOMAIN p |->
    IF p[i] = "lf" /\ ~(IF i = 1 THEN cr ELSE p[i - 1] = "cr")
      THEN <<"cr", "lf">> ELSE <<p[i]>>])

\* translate keeps what the next write and AtLineStart need.
TtyEmits(p) ==
  /\ side = "tty" /\ pend = << >> /\ ops < MaxOps
  /\ ops' = ops + 1 /\ wrote' = wrote \o p
  /\ out' = out \o Translated(tty.lastCR, p)
  /\ UNCHANGED <<side, tracker, inVars>>

AfterText(p) == [lastCR |-> Last(p) = "cr", atLineStart |-> Last(p) \in {"cr", "lf"}]

\* TTY.Write.
TtyWrite(p) ==
  /\ TtyEmits(p)
  /\ tty' = AfterText(p)
  /\ Write(Len(Translated(tty.lastCR, p)))
  /\ UNCHANGED pend

\* TTY.Frame: EmitReset empties the ring, then writes.
Frame(p) ==
  /\ TtyEmits(p)
  /\ tty' = AfterText(p)
  /\ Reset /\ pend' = Translated(tty.lastCR, p)

\* TTY.ClearScreen: a frame that leaves the cursor at the start of a line.
ClearScreen ==
  /\ TtyEmits(<<"x">>)
  /\ tty' = [lastCR |-> FALSE, atLineStart |-> TRUE]
  /\ Reset /\ pend' = <<"x">>

-----------------------------------------------------------------------------
(* Input of a simulated session *)

Stroke(bytes, keys) == [bytes |-> bytes, keys |-> keys]
Enter == Stroke(<<"cr">>, <<"enter">>)
LineFeed == Stroke(<<"lf">>, <<"enter">>)
Escape == Stroke(<<"esc">>, <<"esc">>)
Alt == Stroke(<<"esc", "x">>, <<"esc", "x">>)
Special == {Stroke(<<"esc", "[", "A">>, <<"up">>),
            Stroke(<<"esc", "O", "A">>, <<"up">>),
            Stroke(<<"esc", "[", "3", "~">>, <<"delete">>),
            Stroke(<<"esc", "[", "3", "3", "3", "3", "~">>, <<"unknown">>)}
Strokes == {Enter, LineFeed, Escape, Alt, Stroke(<<"x">>, <<"x">>), Stroke(<<"bs">>, <<"backspace">>),
            Stroke(<<"lead", "cont", "cont">>, <<"rune">>)} \cup Special

BytesOf(strokes) == FlattenSeq([i \in DOMAIN strokes |-> strokes[i].bytes])
Input == BytesOf(typed)
EndOf(i) == Len(BytesOf(SubSeq(typed, 1, i)))

\* ESC at the end of a message is the Escape key, and nothing else is: a
\* message that ends in another key's ESC, or has the Escape key before its
\* end, is read differently from how it was typed.
TornBy(to) ==
  \E p \in (fed + 1)..to :
    Input[p] = "esc" /\ ((p = to) # (\E i \in DOMAIN typed : typed[i] = Escape /\ EndOf(i) = p))

\* Session.Write of the next n bytes: they are cut at MaxInput and decoded.
KeyWrite(n) ==
  /\ side = "keys"
  /\ LET cut == IF n <= MaxInput THEN n ELSE MaxInput
         r == Feed(dec, SubSeq(Input, fed + 1, fed + cut))
     IN  /\ dec' = r.dec
         /\ got' = got \o r.keys
         /\ torn' = (torn \/ cut # n \/ TornBy(fed + n))
  /\ fed' = fed + n
  /\ UNCHANGED <<side, ringVars, outVars, typed>>

-----------------------------------------------------------------------------

TermInit ==
  /\ Init
  /\ side \in {"pty", "tty", "keys"}
  /\ ops = 0 /\ out = << >> /\ pend = << >> /\ wrote = << >>
  /\ tracker = NewTracker
  /\ tty = [lastCR |-> FALSE, atLineStart |-> TRUE]
  /\ typed \in IF side = "keys" THEN SeqOf(Strokes, MaxTyped) ELSE {<< >>}
  /\ fed = 0 /\ dec = NewDecoder /\ got = << >> /\ torn = FALSE

TermNext ==
  \/ \E data \in Reads : PtyRead(data)
  \/ RingWrite
  \/ \E p \in Texts : TtyWrite(p)
  \/ \E p \in Frames : Frame(p)
  \/ ClearScreen
  \/ \E n \in 1..(Len(Input) - fed) : KeyWrite(n)

TermSpec == TermInit /\ [][TermNext]_termVars

-----------------------------------------------------------------------------
(* Properties *)

\* An arrow key reaches the program in the form it asked for with its last
\* CSI ? 1 h or l, wherever the reads cut that sequence; every other message
\* reaches it as it came (process, transformInput).
ArrowsAsAsked ==
  LET arrow == <<"esc", "[", "A">>
      inForm(app) == IF app THEN <<"esc", "O", "A">> ELSE arrow
  IN  /\ transformInput(tracker, arrow) \in {inForm(app) : app \in AskedModes(out)}
      /\ \A data \in Reads \cup {arrow \o arrow} : transformInput(tracker, data) = data

\* A text without the CRs that stand just before an LF.
WithoutReturns(text) ==
  FlattenSeq([i \in DOMAIN text |->
    IF text[i] = "cr" /\ i < Len(text) /\ text[i + 1] = "lf" THEN << >> ELSE <<text[i]>>])

\* LF takes the terminal to the start of the next line: whatever the writes
\* and frames it is cut into, the output is the program's text with CR before
\* each LF, and no CR twice (translate).
LinesReturn ==
  side = "tty" =>
    /\ \A i \in DOMAIN out : out[i] = "lf" => i > 1 /\ out[i - 1] = "cr"
    /\ WithoutReturns(out) = WithoutReturns(wrote)

\* The keys a stroke stands for: LF after CR is the same Enter, and keys that
\* are escape sequences do not come between the two.
KeysOf(i) ==
  IF /\ typed[i] = LineFeed
     /\ \E j \in 1..(i - 1) :
          typed[j] = Enter /\ \A m \in (j + 1)..(i - 1) : typed[m] \in Special \cup {Escape}
    THEN << >> ELSE typed[i].keys

\* However the messages cut the bytes, the keys are those that were typed, and
\* a key comes with its last byte: a sequence or a rune split between two
\* messages still decodes (Decoder, Feed).
KeysAsTyped ==
  (side = "keys" /\ ~torn) =>
    got = FlattenSeq([i \in 1..Cardinality({j \in DOMAIN typed : EndOf(j) <= fed}) |-> KeysOf(i)])

\* Whatever was cut off or torn apart before, two letters bring the decoder
\* back and the third is read as itself (stCSIDiscard, ground).
DecoderResyncs ==
  LET r == Feed(dec, <<"x", "x", "x">>)
  IN  /\ r.dec.state = "ground" /\ r.dec.utf = << >> /\ ~r.dec.lastCR
      /\ Last(r.keys) = "x"
=============================================================================
