SPECIFICATION FairSpec
CONSTANTS
  i1 = i1
  Ids <- MCIds
  Tables <- MCTables
  Ops <- MCOps
  Producers = {p1, p2}
  InPartitions = {q1}
  OutPartitions = {o1}
  Inputs <- UpdateOrTombstone
  None = None
  MaxAttempts = 2
  MaxInput = 2
  MaxFaults = 1
PROPERTIES EventuallySettled
CHECK_DEADLOCK FALSE
