SPECIFICATION FairSpec
CONSTANTS
  i1 = i1
  Ids <- MCIds
  Tables <- MCTables
  Ops <- MCOps
  Producers = {p1}
  InPartitions = {q1, q2}
  OutPartitions = {o1, o2}
  Inputs <- UpdateOrTombstone
  None = None
  MaxAttempts = 2
  MaxInput = 2
  MaxFaults = 2
INVARIANTS NothingSkipped OneProducerInOrder OneProducerCopies
PROPERTIES ShutdownCompletes
CHECK_DEADLOCK FALSE
