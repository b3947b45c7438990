\* Two callers, two items, two failing I/O operations, one restart; the ordinals run out.
SPECIFICATION FairSpec
CONSTANTS
  Callers = {c1, c2}
  Modes = {"legacy", "paginated"}
  FirstOrdinal = 0
  MaxOrdinal = 1
  Capacity = 2
  MaxItems = 2
  MaxFaults = 2
  MaxRestarts = 1
INVARIANTS TypeOK  RecordsInOrder OrdinalsIdentify MetaLeads
PROPERTIES  BarriersAnswered 
\* A recorder that has ended and is not resumed rests.
CHECK_DEADLOCK FALSE
