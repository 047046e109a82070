\* I2C and main SPI transfers longer than the FIFO, auxiliary SPI transfers in
\* all modes of its FIFOs, SD transfers of one and several blocks and with an
\* incomplete one; errors, timeouts and cancellation at any moment.
SPECIFICATION PeripheralSpec
CONSTANTS
  Scenes = {"i2c", "aux", "spi", "sd", "sdhc", "emmc", "clock"}
  Lengths = {1, 2, 5}
  Fifo = 2
  AuxDepth = 1
  AuxLengths = {1, 4, 6}
  AuxModes = {0, 1}
  SpiTargets = {"t1", "t2"}
  SpiRequests <- Requests
  SpiFifo = 2
  SpiLockedRequests = 2
  SdBlocks = 2
  SdhcLengths = {1, 2, 3, 4}
  SdhcRequests = 2
  EmmcLengths = {1, 3, 6}
  EmmcPages = 1
  EmmcThreshold = 1
  ClockBases = {50, 64, 97, 100}
  ClockTargets = {1, 2, 3, 7, 10, 16, 24, 25, 31, 33, 49, 50, 51, 99, 100, 120}
  ClockLimit = 16
  UartClocks = {250000000, 48000000}
  UartBauds = {300, 9600, 115200, 921600, 1500000}
INVARIANTS
  RequestsCompletedOnce
  InterruptsOff
  TransfersTruthful
  ChipSelectHeld
  AssertionsHold
  SettingsMatch
PROPERTIES
  RequestsAreEnded
\* The auxiliary SPI driver may lose a request, and then the bus is quiet.
CHECK_DEADLOCK FALSE
