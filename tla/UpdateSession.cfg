SPECIFICATION Spec
CONSTANTS
  WordMod = 16
  ByteMod = 16
  Capacity = 9
  MaxRead = 2
  MaxWrite = 3
  VersionReg = 4
  ResetReg = 5
  FwBase = 8
  FwCommand = 7
  Raw <- MCRaw
  PageSize = 2
  SlotPages = 3
  Erased = 15
  Garbled = 16
  BufferSize = 2
  Image <- MCImage
  Factory <- MCFactory
  VersionOf <- MCVersionOf
  Chunk = 3
  MaxFaults = 4
INVARIANTS
  TypeOK
  AnsweredIsReceived
  DoneIsDurable
PROPERTIES
  AnsweredIsMarked
  NotBeforeAsked
  KeepsPromise
  UpdateSucceeds
CHECK_DEADLOCK TRUE
