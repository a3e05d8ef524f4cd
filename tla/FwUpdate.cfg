SPECIFICATION MCSpec
CONSTANTS
  a = a
  b = b
  Erased = Erased
  Garbled = Garbled
  PageSize = 2
  SlotPages = 2
  BufferSize = 2
  MaxWords = 6
  Word <- MCWord
  Image <- MCImage
  Factory <- MCFactory
INVARIANTS
  TypeOK
  WholePages
  SlotHoldsSession
PROPERTIES
  MarkedWhenComplete
  UpdateTakesEffect
CHECK_DEADLOCK TRUE
