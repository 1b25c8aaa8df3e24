SPECIFICATION PipelineSpec
CONSTANTS
  i1 = i1
  Ids <- MCIds
  Tables <- MCTables
  Ops <- MCOps
  Producers = {p1}
  InPartitions = {q1}
  OutPartitions = {o1, o2}
  PartitionZero = o1
  Inputs <- MCInputs
  None = None
  MaxAttempts = 2
  MaxInput = 2
  MaxFaults = 1
  Words <- MCWords
  Magic <- MCMagic
  Text <- MCText
  Encrypt <- MCEncrypt
  Decrypt <- MCDecrypt
  ToText <- MCToText
  FromText <- MCFromText
  NotBase32 = NotBase32
  WrongSize = WrongSize
  Invalid = Invalid
  Garbage = {}
  Clients = {c1}
  Anonymous = {}
  Closed = Closed
  MaxEvents = 4
  MaxRequests = 1
  MaxChanges = 0
INVARIANTS NoSilentGap HeardOfIsReal HeardInOrder RepetitionsArePaid
PROPERTIES EventuallyDelivered
CHECK_DEADLOCK FALSE
