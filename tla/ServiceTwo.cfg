SPECIFICATION Spec
CONSTANTS
  o1 = o1
  Words <- MCWords
  Magic <- MCMagic
  Text <- MCText
  Encrypt <- MCEncrypt
  Decrypt <- MCDecrypt
  ToText <- MCToText
  FromText <- MCFromText
  NotBase32 = NotBase32
  WrongSize = WrongSize
  Invalid = Invalid
  Garbage = {}
  Objects <- MCObjects
  Clients = {c1, c2, c3}
  Anonymous = {c3}
  Events <- ClusterOrSubscription
  Closed = Closed
  MaxEvents = 1
  MaxRequests = 1
  MaxChanges = 1
PROPERTIES DeliveredPermitted
SYMMETRY Symmetry
CHECK_DEADLOCK FALSE
