SPECIFICATION Spec
CONSTANTS
  Clients = {c1, c2}
  NoClient = NoClient
  RingSize = 2
  ChunkBytes = 1
  EventCap = 2
  SendCap = 2
  MaxRead = 2
  MaxPos = 4
  MaxOthers = 0
  MaxConns = 1
CONSTRAINT ConnOpen
SYMMETRY ClientSymmetry
INVARIANTS ReplayExact LiveIsCurrent QuietAfterRemove
