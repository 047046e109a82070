\* A transfer that ends with an incomplete block, on the Arasan host.
SPECIFICATION PeripheralSpec
CONSTANTS
  Scenes = {"sdhc"}
  Lengths = {1}
  Fifo = 1
  AuxDepth = 1
  AuxLengths = {1}
  AuxModes = {0}
  SpiTargets = {"t1"}
  SpiRequests = {}
  SpiFifo = 1
  SpiLockedRequests = 0
  SdBlocks = 1
  SdhcLengths = {1, 3}
  SdhcRequests = 1
  EmmcLengths = {1}
  EmmcPages = 1
  EmmcThreshold = 1
  ClockBases = {10}
  ClockTargets = {1}
  ClockLimit = 16
  UartClocks = {250000000}
  UartBauds = {115200, 921600}
INVARIANTS
  SdhcTailMoved
CHECK_DEADLOCK FALSE
