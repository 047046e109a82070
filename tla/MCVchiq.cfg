\* A processing thread, three posted items, a release at any moment; one
\* sender, three slots of two message units each, a stream that reuses every
\* slot.  Two clients of the mailbox and everything that can happen to them.
SPECIFICATION VchiqSpec
CONSTANTS
  c1 = c1
  c2 = c2
  a1 = a1
  a2 = a2
  Clients = {c1, c2}
  Addresses = {a1, a2}
  FifoSize = 1
  MaxPoll = 1
  MacRetries = 1
  Upsets = {"cancel", "slow_boot", "release"}
  MaxPosted = 3
  Senders = {s1}
  SlotFirst = 5
  SlotLast = 7
  SlotSize = 16
  RingSize = 3
  Requests = {8, 13}
  MaxSlot = 4
INVARIANTS
  NoLostWakeup
  FirmwareFindsHeader
  TxPosCoversMessages
  MailboxNeverOverflows
  AnswersMatch
  MemoryUndisturbed
PROPERTIES
  ParkedThreadNeverFaults
  VchiqMovesOn
\* After a release the thread has terminated and nothing more happens.
CHECK_DEADLOCK FALSE
