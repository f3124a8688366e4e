\* Two attaches are enough: the PTY of the first exits between its start and
\* the second lookup, and the second finds nothing to do.
SPECIFICATION Spec
CONSTANTS
  Keys = {k1}
  SubCap = 2
  MaxEvents = 2
  MaxSpawns = 2
  MaxConns = 1
  MaxAttaches = 2
  Rumours = FALSE
INVARIANT StaysAttachable
CHECK_DEADLOCK FALSE
