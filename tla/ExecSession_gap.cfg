\* Closed is published though a chunk was lost: the property does not hold.
\* Two chunks, one retained, so that a reconnecting client misses one for good.
SPECIFICATION Spec
CONSTANTS
  Streams = {"stdout"}
  MaxConns = 2
  MaxOut = 2
  Retain = 1
  MaxPending = 2
INVARIANT NoSilentLoss
CHECK_DEADLOCK FALSE
