SPECIFICATION MCSpec
CONSTANTS
  Byte = {0, 1}
  Capacity = 5
  MaxRun = 7
  Crc <- MCCrc
  Response <- MCResponse
PROPERTY
  MissedFrameIgnored
