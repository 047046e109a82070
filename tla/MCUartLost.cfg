SPECIFICATION ReadSpec
\* The clients may stop sending requests.
CHECK_DEADLOCK FALSE
CONSTANTS
  MtxLength <- WriteSizes
  MtxImmediates = {"i1"}
  MtxXoffs <- CounterSizes
  MtxLoads <- QueuedWrites
  MtxTxFifoAmount = 1
  MtxTimeouts = FALSE
  MtxXoffTimeout = FALSE
  MrxLength <- ReadSizes
  MrxSizes <- BufferSizes
  MrxBufferSize = 3
  MrxXonLimit = 1
  MrxXoffLimit = 1
  MrxChars = 4
  MrxLoads <- RxLoads
  MwtWaits = {"x1", "x2"}
  MwtMasks <- Masks
  MwtEvents = {"rx", "tx"}
  MlnOpens = 2
  MlnStopIdleFails = FALSE
  PltSize = 2
  PltFifo = 1
  PltTrigger = 0
  PltWrites <- PioWrites
  PltEndings = {"cancel", "drain"}
  PlrSize = 2
  PlrFifo = 2
  PlrTrigger = 2
  PlrReads <- PioReads
  PlrBytes = 3
  PwaNum = 4
  PwaPackets = 5
  PwaStreams = 1
  GniPackets = 1
  GniStops = 1
PROPERTY PlrRingIsRead
