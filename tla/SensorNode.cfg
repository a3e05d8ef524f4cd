SPECIFICATION Spec
CONSTANTS
  Byte = {0, 1}
  Capacity = 4
  Crc <- MCCrc
  Response <- MCResponse
INVARIANTS
  TypeOK
  ReadyToReply
  ClockSafe
  TxAgrees
PROPERTIES
  
  KeepsPromise
  RestartHappens
CHECK_DEADLOCK TRUE
