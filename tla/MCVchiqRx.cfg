SPECIFICATION RxSpec
CONSTANTS
  f1 = f1
  f2 = f2
  b1 = b1
  b2 = b2
  b3 = b3
  Files = {f1, f2}
  VchiFiles = {f2}
  LateFiles = {}
  Kinds = {"data"}
  SlotFirst = 1
  SlotLast = 2
  MsgsPerSlot = 2
  RingSize = 4
  MsgBufCount = 2
  Ahead = 6
  DequeuesAhead = 1
  MaxRequests = 2
  MaxSlot = 3
  Bulks = {b1, b2, b3}
  BulkUpsets = {"cancel", "fail", "abort"}
  ServiceFiles = {f1, f2}
  LastPort = 2
  ServiceUpsets = {"abrupt", "full"}
INVARIANTS
  RxNoEarlyRecycle
  RxRecycledOnce
  RxNoSlotLeak
  RxDeliveredIsPosted
  RxNoStrandedMessage
  BulkTransfersOwn
  ServicesApart
PROPERTIES
  RxPostedIsDelivered
  RxRequestsAreServed
\* The stream of the model is finite.
CHECK_DEADLOCK FALSE
