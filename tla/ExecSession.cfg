\* One chunk of output, before or after the exit; the reorder buffer holds one event of the
\* three, every chunk is retained, and the client reconnects once.
SPECIFICATION FairSpec
CONSTANTS
  Streams = {"stdout"}
  MaxConns = 2
  MaxOut = 1
  Retain = 2
  MaxPending = 1
INVARIANTS TypeOK PublishedInOrder NoSilentLoss InUseIsWatched
PROPERTIES SessionEnds FailureIsTold
\* A process that has ended and a client that has failed rest.
CHECK_DEADLOCK FALSE
