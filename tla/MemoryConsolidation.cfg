\* One thread, extracted twice, two workers and one fault: an error, a crash, a stalled lease,
\* an agent that does not shut down, or a reset.
SPECIFICATION FairSpec
CONSTANTS
  Threads = {t1}
  Consolidators = {c1, c2}
  MaxUpdates = 2
  MaxFaults = 1
INVARIANTS TypeOK OneConsolidation FlagsMatchBaseline
PROPERTIES Forgotten
\* With nothing extracted and the cooldown running, everybody waits.
CHECK_DEADLOCK FALSE
