SPECIFICATION Spec
CONSTANTS
  Ids = {i1, i2}
  Tables <- MCTables
  Ops <- MCOps
  Pending = Pending
  NoChange = NoChange
INVARIANTS MeetsReference RowChangesGetThrough
CHECK_DEADLOCK FALSE
