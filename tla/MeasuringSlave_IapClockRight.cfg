SPECIFICATION UnitSpec
CONSTANTS
  WordMod = 8
  ByteMod = 8
  Capacity = 11
  MaxRead = 3
  MaxWrite = 2
  VersionReg = 4
  ResetReg = 5
  FwBase = 6
  FwCommand = 1
  Version = 7
  Raw <- MCRaw
  Request <- MCRequest
INVARIANTS
  IapClockRight
CHECK_DEADLOCK TRUE
