SPECIFICATION Spec
CONSTANTS
  i1 = i1
  Ids <- MCIds
  Tables <- MCTables
  Ops <- MCOps
  Producers = {p1, p2}
  InPartitions = {q1}
  OutPartitions = {o1}
  Inputs <- OnlyUpdates
  None = None
  MaxAttempts = 2
  MaxInput = 2
  MaxFaults = 2
SYMMETRY Symmetry
INVARIANTS TypeOK AccountingInv LossBounded NoGaps
PROPERTIES ClosedIsQuiet ImplementsFeed
CHECK_DEADLOCK FALSE
