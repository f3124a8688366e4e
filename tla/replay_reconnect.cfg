SPECIFICATION FairSpec
CONSTANTS
  Clients = {c1}
  NoClient = NoClient
  RingSize = 1
  ChunkBytes = 1
  EventCap = 1
  SendCap = 1
  MaxRead = 1
  MaxPos = 1
  MaxOthers = 1
  MaxConns = 2
PROPERTIES AttachAnswered TeardownCompletes
