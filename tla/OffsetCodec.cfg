SPECIFICATION Spec
CONSTANTS
  Words <- MCWords
  Magic <- MCMagic
  Text <- MCText
  Encrypt <- MCEncrypt
  Decrypt <- MCDecrypt
  ToText <- MCToText
  FromText <- MCFromText
  NotBase32 = NotBase32
  WrongSize = WrongSize
  Invalid = Invalid
INVARIANTS RoundTrip OnlyIdentifiers AllIdentifiers
CHECK_DEADLOCK FALSE
