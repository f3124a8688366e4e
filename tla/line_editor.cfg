\* Lines of up to two characters after a prompt of one, on windows of one, two
\* and three columns: lines that end before, at and after the margin.  The
\* history holds two lines, so it is walked, trimmed and refilled.
SPECIFICATION EditSpec
CONSTANTS
  Chars = {x, sp}
  Space = sp
  MaxLen = 2
  MaxHistory = 2
  PromptLen = 1
  Widths = {1, 2, 3}
INVARIANTS CursorInPlace DraftComesBack
PROPERTY ImplementsZipper
