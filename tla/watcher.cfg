\* Two sessions of Screen or of tmux; two changes; one failing
\* call or control client; an event queue of two; one connection.
SPECIFICATION WatcherFairSpec
CONSTANTS
  Keys = {k1, k2}
  SubCap = 1
  MaxEvents = 2
  MaxSpawns = 0
  MaxConns = 1
  Rumours = FALSE
  FsCap = 2
  MaxFaults = 1
  TmuxSets = {{}, {k1, k2}}
INVARIANTS AttachedIsCurrent WatchedIsCurrent WatchNotForgotten
PROPERTIES ImplementsCatalog MonitorRetried
CHECK_DEADLOCK FALSE
