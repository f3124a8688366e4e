----------------------------- MODULE KeyDecoder -----------------------------
(***************************************************************************)
(* The Decoder of fakeshell/term/keys.go: input bytes to keys, with the    *)
(* state it keeps between messages.  A byte is named by what it is:        *)
(* "lead" begins a rune of three bytes and "cont" continues one, "x" is a  *)
(* letter, "3" a digit.                                                    *)
(***************************************************************************)
EXTENDS Naturals, Sequences, SequencesExt

CONSTANTS MaxCsi   \* parameter bytes of an escape sequence (maxCSI, 16)

ASSUME DecoderAssumption == MaxCsi \in Nat \ {0}

\* 0x40..0x7e ends a sequence.
FinalByte(b) == b \in {"[", "O", "A", "~", "x"}

NewDecoder == [state |-> "ground", params |-> << >>, utf |-> << >>, lastCR |-> FALSE]

\* The decoder and the keys it has returned so far.
Result(d, keys) == [dec |-> d, keys |-> keys]

\* Mutant of FullRune: bytes that cannot be a rune are waited for.
FullRuneValid(u) == u = <<"lead", "cont", "cont">>

\* utf8.FullRune: a whole rune, or bytes that can be none.
FullRune(u) == u \notin {<<"lead">>, <<"lead", "cont">>}

csiKey(params, final) ==
  CASE final = "A" -> "up"
    [] final = "~" /\ params = <<"3">> -> "delete"
    [] OTHER -> "unknown"

ss3Key(b) == IF b = "A" THEN "up" ELSE "unknown"

PlainKey(b) == IF b = "bs" THEN "backspace" ELSE b

\* ground: a rune is collected; CR LF is one Enter; 0x08 is Backspace.
ground(d, out, b) ==
  LET clear == [d EXCEPT !.lastCR = FALSE]
      u == Append(d.utf, b)
  IN  CASE d.utf # << >> \/ b \in {"lead", "cont"} ->
             IF ~FullRune(u) THEN Result([clear EXCEPT !.utf = u], out)
             ELSE Result([clear EXCEPT !.utf = << >>],
                         IF u = <<"lead", "cont", "cont">> THEN Append(out, "rune") ELSE out)
        [] d.utf = << >> /\ b = "cr" ->
             Result([d EXCEPT !.lastCR = TRUE], Append(out, "enter"))
        [] d.utf = << >> /\ b = "lf" ->
             Result(clear, IF d.lastCR THEN out ELSE Append(out, "enter"))
        [] OTHER -> Result(clear, Append(out, PlainKey(b)))

AfterEsc(d, out, b) ==
  CASE b = "[" -> Result([d EXCEPT !.state = "csi", !.params = << >>], out)
    [] b = "O" -> Result([d EXCEPT !.state = "ss3"], out)
    [] OTHER -> ground([d EXCEPT !.state = "ground"], Append(out, "esc"), b)

InCsi(d, out, b) ==
  CASE FinalByte(b) -> Result([d EXCEPT !.state = "ground"], Append(out, csiKey(d.params, b)))
    [] ~FinalByte(b) /\ Len(d.params) >= MaxCsi -> Result([d EXCEPT !.state = "discard"], out)
    [] OTHER -> Result([d EXCEPT !.params = Append(@, b)], out)

InDiscard(d, out, b) ==
  IF FinalByte(b) THEN Result([d EXCEPT !.state = "ground"], Append(out, "unknown"))
                  ELSE Result(d, out)

InGround(d, out, b, last) ==
  CASE b = "esc" /\ last -> Result(d, Append(out, "esc"))
    [] b = "esc" /\ ~last -> Result([d EXCEPT !.state = "esc"], out)
    [] OTHER -> ground(d, out, b)

\* One byte of the loop; last says that it ends the message.
FeedByte(d, out, b, last) ==
  CASE d.state = "esc" -> AfterEsc(d, out, b)
    [] d.state = "csi" -> InCsi(d, out, b)
    [] d.state = "discard" -> InDiscard(d, out, b)
    [] d.state = "ss3" -> Result([d EXCEPT !.state = "ground"], Append(out, ss3Key(b)))
    [] d.state = "ground" -> InGround(d, out, b, last)

\* Mutant of Feed: a message starts in the ground state.
FeedAfresh(d, p) ==
  FoldLeft(LAMBDA r, i : FeedByte(r.dec, r.keys, p[i], i = Len(p)),
           Result([d EXCEPT !.state = "ground"], << >>), [i \in DOMAIN p |-> i])

Feed(d, p) ==
  FoldLeft(LAMBDA r, i : FeedByte(r.dec, r.keys, p[i], i = Len(p)),
           Result(d, << >>), [i \in DOMAIN p |-> i])
=============================================================================
