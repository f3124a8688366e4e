\* One multiplexer session that comes and goes, two PTYs, two connections and
\* two attaches: ids 1..4, so that a session can be removed and replaced.
SPECIFICATION FairSpec
CONSTANTS
  Keys = {k1}
  SubCap = 2
  MaxEvents = 3
  MaxSpawns = 2
  MaxConns = 2
  MaxAttaches = 2
  Rumours = FALSE
INVARIANTS InputConfined ListingMatchesCatalog ServedStaysAttachable RemovedPtyCloses
PROPERTY EndedIsRetired
CHECK_DEADLOCK FALSE
