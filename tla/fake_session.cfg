\* Four keys in messages of one or two, a queue of two, so that a message is
\* cut short; timed commands of up to two waits and one panic.
SPECIFICATION FakeFairSpec
CONSTANTS
  KeyCap = 2
  MaxKeys = 4
  MaxSteps = 2
  MaxPanics = 1
INVARIANT CleanUnlessDirty
PROPERTIES IdleResets CloseStops
