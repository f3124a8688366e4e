----------------------------- MODULE LineEditor -----------------------------
(***************************************************************************)
(* The line editor of the simulated shell (fakeshell/term/editor.go):      *)
(* ReadLine's loop, one action for each key, with the history and the      *)
(* redraw.  The terminal that shows the line is external: it is the row    *)
(* and the column of its cursor, the row counted from the one where the    *)
(* prompt starts, and it wraps late, as terminals do: text that ends at    *)
(* the right margin leaves the cursor on that row.                         *)
(***************************************************************************)
EXTENDS Integers, Sequences, SequencesExt, FiniteSetsExt

CONSTANTS Chars, Space,   \* printable characters, and the white space among them
          MaxLen,         \* e.MaxLen (1024)
          MaxHistory,     \* maxHistory (200)
          PromptLen,      \* VisibleLen(prompt)
          Widths          \* window widths the terminal may have

ASSUME EditorAssumption ==
  /\ Space \in Chars
  /\ {MaxLen, MaxHistory, PromptLen} \subseteq Nat
  /\ Widths \subseteq Nat \ {0}

VARIABLES
  reading,   \* ReadLine is running
  width,     \* e.Width(), constant while a line is read
  line, pos, \* the line and the cursor
  history, histIdx, draft,
  cursorRow, \* e.cursorRow
  term,      \* the terminal's cursor
  key,       \* the key handled last (history)
  typed      \* the line below the history, as the keys pressed there left it (history)

lineVars == <<line, pos, typed>>
histVars == <<history, histIdx, draft>>
callVars == <<reading, width>>
editVars == <<callVars, lineVars, histVars, cursorRow, term, key>>

Home == [row |-> 0, col |-> 0]
Before == SubSeq(line, 1, pos)
After == SubSeq(line, pos + 1, Len(line))

-----------------------------------------------------------------------------
(* render *)

\* Mutant of EndsAtMargin: the terminal's late wrap is forgotten.
EndsAtMarginNever(end) == FALSE

\* The text ends at the right margin: render adds "\r\n".
EndsAtMargin(end) == end > 0 /\ end % width = 0

\* The row the terminal's cursor is on once n characters are written from the
\* first column of row r (external).
RowAfterText(r, n) == r + (IF n > 0 /\ n % width = 0 THEN n \div width - 1 ELSE n \div width)

\* render(prompt, l, p) on a terminal whose cursor is at t, with e.cursorRow = c.
Painted(l, p, t, c) ==
  LET end == PromptLen + Len(l)
      target == PromptLen + p
      textRow == RowAfterText(t.row - c, end)
      endRow == IF EndsAtMargin(end) THEN textRow + 1 ELSE textRow
  IN  [row |-> endRow - (end \div width - target \div width), col |-> target % width]

Render(l, p, t, c) ==
  /\ term' = Painted(l, p, t, c)
  /\ cursorRow' = (PromptLen + p) \div width

-----------------------------------------------------------------------------
(* Keys *)

\* A key that changes the line to l and the cursor to p, and redraws.
Edit(k, l, p) ==
  /\ reading /\ key' = k
  /\ line' = l /\ pos' = p
  /\ typed' = IF histIdx = Len(history) THEN l ELSE typed
  /\ Render(l, p, term, cursorRow)
  /\ UNCHANGED <<callVars, histVars>>

\* A key the loop ignores: continue, without a redraw.
Ignore(k) ==
  /\ reading /\ key' = k
  /\ UNCHANGED <<callVars, lineVars, histVars, cursorRow, term>>

Without(i) == RemoveAt(line, i)

Insert(ch) ==
  IF Len(line) >= MaxLen THEN Ignore("char")
  ELSE Edit("char", InsertAt(line, pos + 1, ch), pos + 1)

Backspace ==
  IF pos > 0 THEN Edit("backspace", Without(pos), pos - 1) ELSE Edit("backspace", line, pos)

\* Delete, and Ctrl-D on a line that is not empty.
DeleteKey == Edit("delete", IF pos < Len(line) THEN Without(pos + 1) ELSE line, pos)

Left == Edit("left", line, IF pos > 0 THEN pos - 1 ELSE pos)
Right == Edit("right", line, IF pos < Len(line) THEN pos + 1 ELSE pos)
LineHome == Edit("home", line, 0)
LineEnd == Edit("end", line, Len(line))
CtrlU == Edit("ctrl-u", After, 0)
CtrlK == Edit("ctrl-k", Before, pos)

\* Mutant of WordStart: only the white space is skipped backwards, then one
\* character.
WordStartOne ==
  LET solid == Max({0} \cup {i \in 1..pos : line[i] # Space})
  IN  IF solid = 0 THEN 0 ELSE solid - 1

\* Ctrl-W's two loops: back over white space, then back over the word.
WordStart ==
  LET solid == Max({0} \cup {i \in 1..pos : line[i] # Space})
  IN  Max({0} \cup {i \in 1..solid : line[i] = Space})

CtrlW == Edit("ctrl-w", SubSeq(line, 1, WordStart) \o After, WordStart)

\* e.Clear homes the terminal's cursor.
CtrlL ==
  /\ reading /\ key' = "clear"
  /\ Render(line, pos, Home, 0)
  /\ UNCHANGED <<callVars, lineVars, histVars>>

\* A key the editor has no use for.
OtherKey == Ignore("other")

\* A history line is shown with the cursor at its end.
Recall(k, l) ==
  /\ key' = k
  /\ line' = l /\ pos' = Len(l)
  /\ Render(l, Len(l), term, cursorRow)
  /\ UNCHANGED typed

\* Mutant of Up: whatever line is shown becomes the draft.
UpDraftsAny ==
  IF histIdx = 0 THEN Ignore("up")
  ELSE /\ reading
       /\ draft' = line
       /\ histIdx' = histIdx - 1
       /\ Recall("up", history[histIdx])
       /\ UNCHANGED <<callVars, history>>

Up ==
  IF histIdx = 0 THEN Ignore("up")
  ELSE /\ reading
       /\ draft' = IF histIdx = Len(history) THEN line ELSE draft
       /\ histIdx' = histIdx - 1
       /\ Recall("up", history[histIdx])
       /\ UNCHANGED <<callVars, history>>

Down ==
  IF histIdx >= Len(history) THEN Ignore("down")
  ELSE /\ reading
       /\ histIdx' = histIdx + 1
       /\ Recall("down", IF histIdx + 1 = Len(history) THEN draft ELSE history[histIdx + 2])
       /\ UNCHANGED <<callVars, history, draft>>

\* The shell's complete extends the word before the cursor by ext; a line that
\* becomes too long is not taken.
Completed(ext) ==
  IF Len(line) + Len(ext) <= MaxLen
    THEN [line |-> Before \o ext \o After, pos |-> pos + Len(ext)]
    ELSE [line |-> line, pos |-> pos]

\* Nothing, or one name or a common beginning is found.
Tab(ext) == Edit("tab", Completed(ext).line, Completed(ext).pos)

\* Several names are found: they are listed, and the prompt is shown below them.
TabChoices ==
  /\ reading /\ key' = "tab"
  /\ Render(line, pos, Home, 0)
  /\ UNCHANGED <<callVars, lineVars, histVars>>

-----------------------------------------------------------------------------
(* ReadLine *)

\* ReadLine is called with the cursor in column 0 and shows the prompt.
Begin ==
  /\ ~reading /\ reading' = TRUE
  /\ histIdx' = Len(history) /\ draft' = << >>
  /\ line' = << >> /\ pos' = 0 /\ key' = "none" /\ typed' = << >>
  /\ Render(<< >>, 0, Home, 0)
  /\ UNCHANGED <<width, history>>

\* The client resizes the window between two lines.
NewWidth ==
  /\ ~reading /\ width' \in Widths
  /\ UNCHANGED <<reading, lineVars, histVars, cursorRow, term, key>>

\* addHistory: no blank line, no repetition, and the oldest lines go.
Recorded(l) ==
  IF \/ \A i \in DOMAIN l : l[i] = Space
     \/ history # << >> /\ Last(history) = l
    THEN history
    ELSE LET longer == Append(history, l)
         IN  SubSeq(longer, Max({1, Len(longer) - MaxHistory + 1}), Len(longer))

\* ReadLine returns: the next prompt starts in column 0 of another row.
Finish(h) ==
  /\ reading /\ reading' = FALSE
  /\ history' = h
  /\ line' = << >> /\ pos' = 0 /\ histIdx' = Len(h) /\ draft' = << >>
  /\ cursorRow' = 0 /\ term' = Home /\ key' = "none" /\ typed' = << >>
  /\ UNCHANGED width

Enter == Finish(Recorded(line))

\* Ctrl-C, Ctrl-D on an empty line, a closed key channel, the idle timeout or a
\* cancelled context: nothing is recorded.  The last two leave cursorRow as it
\* is; the next call sets it to 0.
GiveUp == Finish(history)

\* ResetHistory, between two lines.
ResetHistory ==
  /\ ~reading /\ history # << >>
  /\ history' = << >> /\ histIdx' = 0
  /\ UNCHANGED <<callVars, lineVars, draft, cursorRow, term, key>>

EditInit ==
  /\ reading = FALSE /\ width \in Widths
  /\ line = << >> /\ pos = 0
  /\ history = << >> /\ histIdx = 0 /\ draft = << >>
  /\ cursorRow = 0 /\ term = Home /\ key = "none"
  /\ typed = << >>

Extensions == SeqOf(Chars, 2)

EditNext ==
  \/ Begin \/ NewWidth \/ Enter \/ GiveUp \/ ResetHistory
  \/ \E ch \in Chars : Insert(ch)
  \/ Backspace \/ DeleteKey \/ Left \/ Right \/ LineHome \/ LineEnd
  \/ CtrlU \/ CtrlK \/ CtrlW \/ CtrlL \/ OtherKey \/ Up \/ Down
  \/ (\E ext \in Extensions : Tab(ext)) \/ TabChoices

EditSpec == EditInit /\ [][EditNext]_editVars

-----------------------------------------------------------------------------
(* Properties *)

\* After every key the terminal's cursor is on the character at pos, and the
\* prompt has not moved: late wrapping at the margin, exactly full rows and
\* shrinking lines never let the redraw drift (render).
CursorInPlace ==
  reading => /\ term.row = cursorRow
             /\ term.row * width + term.col = PromptLen + pos

Zipper == INSTANCE LineZipper WITH before <- Before, after <- After

\* The slices and the cursor implement the text before and after the cursor:
\* every key does to the two what it should.
ImplementsZipper == Zipper!ZipSpec

\* Below the newest history line stands the line that was being typed: however
\* far the history was walked up and down in between, and whatever was edited of
\* the recalled lines on the way (the "up" and "down" cases of ReadLine).
DraftComesBack == (reading /\ histIdx = Len(history)) => line = typed
=============================================================================
