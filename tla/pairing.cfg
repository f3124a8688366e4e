\* A queue of one, so that a second request waits or is dropped; two lines typed
\* at any moment; a connection that ends and one that follows it.
SPECIFICATION PairFairSpec
CONSTANTS
  RequestCap = 1
  MaxRequests = 2
  MaxLines = 2
  MaxConns = 2
INVARIANT AnsweredOnce
PROPERTIES OwnTimer QueuedIsShown
CHECK_DEADLOCK FALSE
