\* Two ids of one tmux session and a simulated one, three terminals, and a
\* shutdown at any time.
SPECIFICATION LinkedSpec
CONSTANTS
  a = a
  b = b
  fake = fake
  src = src
  NoSource = NoSource
  NoId = NoId
  Ids <- MCIds
  Sources <- MCSources
  SourceOf <- MCSourceOf
  Creators = {main}
  Removers = {scan}
  MaxSpawns = 3
SYMMETRY NameSymmetry
INVARIANTS NoLeakedTerminal OneTerminalPerSource LinkedAccounted
PROPERTY LateCleanupHarmless
CHECK_DEADLOCK FALSE
