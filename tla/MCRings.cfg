\* Two senders that interleave, two slots of two message units, each used twice; rings of three
\* descriptors that wrap around; two users of the PWM registers and the audio driver.
SPECIFICATION RingSpec
CONSTANTS
  Senders = {s1, s2}
  SlotFirst = 5
  SlotLast = 6
  SlotSize = 16
  RingSize = 3
  Requests = {8, 13}
  MaxSlot = 4
  GnrDescs = 3
  GnrIndex = 6
  GnrFragments <- Fragments
  GnrFrames <- Frames
  GnrBuffers = 5
  PwrUsers = {"u1", "u2"}
  PwrSources = {"PLLD"}
  PwrDivisors = {500}
  PwrRanges = {1, 4096}
  PwrEvents = {"e1"}
  GpioPins = {"p1", "p2"}
  GpioIoPins = {"p1"}
  GpioReset = 2
  UbBuffers = 2
  UbTransfers = {"t1", "t2", "t3"}
  PlcClients = {"c1", "c2"}
  PlcOwners = {"c1"}
  PlcOpens = 1
  PlcRates = {1, 2}
  PlcSettable = {1}
  PlcLines = {"8N1"}
  LibClients = {"a", "b"}
  LibServices <- LibUses
  LibSlots = 2
  LibHandles = 2
  LibMessages = 2
  LibBatch = 1
  LibBuffers = 2
  VpBlocks = 1
  VpExtensions = 2
  VpExtended = 1
  VpNames = {1, 2, 3, 4}
  VpUsers = {"u1", "u2", "u3", "u4"}
  VqClients = {1, 2}
  VqMessages = 2
  VqSends = 3
  SbClocks = {1, 2}
  SbModes = {"SDR12", "SDR50"}
  SbWidths = {1, 4}
  SbVolts = {"3.3", "off"}
  SbEvents = {"request", "card"}
  MupRates = {9600, 115200, 1}
  MupSettable = {9600, 115200}
  MupSleeps = 1
INVARIANTS
  PacketsInOrder
  SettingsKept
  TypeOK
  SemaphoreWithinLimit
  SlotAccounting
PROPERTIES
  UnparsedNeverOverwritten
