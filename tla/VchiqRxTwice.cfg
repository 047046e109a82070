\* What VchiqRecycleSlot says of the last reference, with a client that sends
\* requests at any time.
SPECIFICATION Spec
CONSTANTS
  f1 = f1
  Files = {f1}
  VchiFiles = {}
  LateFiles = {f1}
  Kinds = {"data"}
  SlotFirst = 1
  SlotLast = 2
  MsgsPerSlot = 2
  RingSize = 4
  MsgBufCount = 2
  Ahead = 0
  DequeuesAhead = 0
  MaxRequests = 1
  MaxSlot = 4
INVARIANTS
  RecycledOnce
\* The stream of the model is finite.
CHECK_DEADLOCK FALSE
