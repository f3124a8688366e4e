\* Two agents of one user, three starts between them: a start can race another
\* and a third can find what they left.
SPECIFICATION Spec
CONSTANTS
  Agents = {p1, p2}
  MaxStarts = 3
INVARIANTS IdentityKept RunsAgree
PROPERTY FailsClosed
CHECK_DEADLOCK FALSE
