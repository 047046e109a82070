\* Two or three requests of each kind at the UARTs; an audio buffer of four packets played to
\* its end, paused and stopped at any moment; Ethernet queues stopped once each, with a packet
\* each or with timer and filter.
SPECIFICATION DeviceSpec
CONSTANTS
  MtxLength <- WriteSizes
  MtxImmediates = {"i1"}
  MtxXoffs <- CounterSizes
  MtxLoads <- TxLoads
  MtxTxFifoAmount = 1
  MtxTimeouts = TRUE
  MtxXoffTimeout = FALSE
  MrxLength <- ReadSizes
  MrxSizes <- BufferSizes
  MrxBufferSize = 3
  MrxXonLimit = 1
  MrxXoffLimit = 1
  MrxChars = 4
  MrxLoads <- RxLoads
  MwtWaits = {"x1", "x2"}
  MwtMasks <- Masks
  MwtEvents = {"rx", "tx"}
  MlnOpens = 2
  MlnStopIdleFails = FALSE
  PltSize = 2
  PltFifo = 1
  PltTrigger = 0
  PltWrites <- PioWrites
  PltEndings = {"cancel", "drain"}
  PlrSize = 2
  PlrFifo = 2
  PlrTrigger = 2
  PlrReads <- PioReads
  PlrBytes = 3
  PwaNum = 4
  PwaPackets = 5
  PwaStreams = 1
  GniPackets = 1
  GniStops = 1
INVARIANTS
  AssertionsHold
  IsrHoldsReference
  CharactersKept
  MrxHoldReleased
  ReadyIsExpected
  CloseLeavesNothing
  AudioInOrder
  EventsSeen
PROPERTIES
  MtxImplementsWriter
  RequestsEnd
\* Clients may stop sending requests, the packets run out, and a lost race ends the behaviour.
CHECK_DEADLOCK FALSE
