\* Two threads, each updated once more, two workers of which one may run, and one fault: a
\* failed or dead worker, a lease that runs out under a slow one, or a reset.
SPECIFICATION FairSpec
CONSTANTS
  Threads = {t1, t2}
  Extractors = {e1, e2}
  MaxUpdates = 1
  MaxRunning = 1
  Retries = 1
  MaxFaults = 1
INVARIANTS RunningBounded
PROPERTIES NewestMemoryKept 
\* Threads that are caught up or deleted leave nothing to do.
CHECK_DEADLOCK FALSE
