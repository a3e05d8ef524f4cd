SPECIFICATION Spec
CONSTANTS
  Byte = {0, 1}
  Capacity = 4
  Crc <- MCCrc
  Response <- MCResponse
PROPERTY
  DamagedByteIgnored
