SPECIFICATION FairSpec
CONSTANTS
  o1 = o1
  Words <- MCWords
  Magic <- MCMagic
  Text <- MCText
  Encrypt <- MCEncrypt
  Decrypt <- MCDecrypt
  ToText <- MCToText
  FromText <- MCFromText
  NotBase32 = NotBase32
  WrongSize = WrongSize
  Invalid = Invalid
  Garbage <- MCGarbage
  Objects <- MCObjects
  Clients = {c1}
  Anonymous = {}
  Events <- AnyEvent
  Closed = Closed
  MaxEvents = 3
  MaxRequests = 2
  MaxChanges = 1
INVARIANTS TypeOK NothingMissed ReceivedInOrder
PROPERTIES ImplementsSubscription DeliveredPermitted EventuallyReceived
CHECK_DEADLOCK FALSE
