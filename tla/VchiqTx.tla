------------------------------ MODULE VchiqTx -------------------------------
(***************************************************************************)
(* The transmit side of VCHIQ: several threads send messages to the        *)
(* firmware through the ring of slave slots (VchiqQueueMessageAsync,       *)
(* VchiqQueueMultiElementAsync, VchiqAcquireTxSpace), the firmware parses  *)
(* the stream and hands slots back, and the recycle thread                 *)
(* (VchiqProcessRecycleTxSlot) turns them into units of the AvailableTxSlot*)
(* semaphore.                                                              *)
(*                                                                         *)
(* How the recycle thread is woken (Armed, doorbell, DPC, thread event) is *)
(* the subject of VchiqThread, which shows that Fired = 1 always leads to  *)
(* a pass of the thread.  Here the thread may start a pass at any time,    *)
(* and must when Fired is set.                                             *)
(*                                                                         *)
(* A byte position p of the stream is kept as                              *)
(*    [slot |-> p \div VCHIQ_SLOT_SIZE, off |-> p % VCHIQ_SLOT_SIZE]       *)
(* because the code only ever uses these two parts of it.  The content of  *)
(* a message is the position it was written for: the firmware, parsing at  *)
(* position rxPos, must find a message written for rxPos; whatever else is *)
(* in the slot is left over from an earlier use of it.                     *)
(***************************************************************************)
EXTENDS Integers, FiniteSets

CONSTANTS
  Senders,    \* threads inside VchiqQueueMessageAsync / ...MultiElementAsync
  SlotFirst,  \* Slave.SlotFirst
  SlotLast,   \* Slave.SlotLast
  SlotSize,   \* VCHIQ_SLOT_SIZE
  RingSize,   \* VCHIQ_MAX_SLOTS_PER_SIDE, entries of Slave.SlotQueue
  Requests,   \* message sizes, header included, before alignment
  MaxSlot     \* bound: no message is started in this slot of the stream

NumSlots == SlotLast - SlotFirst + 1
HeaderSize == 8  \* sizeof(VCHIQ_HEADER)

(* SlotQueue holds every slot at once.  Callers respect VCHIQ_MAX_MSG_SIZE, *)
(* so a message fits in one slot.                                           *)
ASSUME SlotAssumption ==
  /\ SlotFirst \in Nat \ {0}
  /\ SlotLast \in Nat
  /\ SlotLast > SlotFirst
  /\ SlotSize \in Nat
  /\ SlotSize >= HeaderSize
  /\ SlotSize % HeaderSize = 0
  /\ RingSize \in Nat
  /\ RingSize >= NumSlots
  /\ MaxSlot \in Nat

ASSUME RequestAssumption == Requests \subseteq HeaderSize..SlotSize

Slots == SlotFirst..SlotLast
Offsets == {o \in 0..(SlotSize - 1) : o % HeaderSize = 0}
NoSlot == 0
None == "none"

ASSUME NoneAssumption == None \notin Senders

\* Tx slots the driver may hold at once; VchiqInit keeps one back.
TotalTxSlot == NumSlots - 1

Positions == [slot : Nat, off : Offsets]

\* A message in slot memory: the slot it lies in, the position it was written
\* for, the position after it, and whether it is VCHIQ_MSGID_PADDING.
Headers ==
  [at : Slots \cup {NoSlot}, pos : Positions, next : Positions, padding : BOOLEAN]

VARIABLES
  (* driver *)
  txMutex,             \* holder of TxSlotMutex
  pc,                  \* where each sender is
  request,             \* the RequestSize of each sender
  header,              \* the header position granted to each sender
  loaded,              \* CurrentTxPos as the sender read it after the unlock
  currentTxPos,        \* CurrentTxPos
  slaveCurrentSlot,    \* SlaveCurrentSlot, as a slot number
  availableTxSlot,     \* count of the AvailableTxSlot semaphore
  recycleTxSlotIndex,  \* RecycleTxSlotIndex
  recPc,               \* where the recycle thread is
  recIndex,            \* its local currentAvailableSlot
  (* slot zero and slot memory, shared with the firmware *)
  txPos,               \* Slave.TxPos
  slotQueue,           \* Slave.SlotQueue
  slotQueueRecycle,    \* Slave.SlotQueueRecycle
  memory,              \* messages in the slave slots, not parsed yet
  triggerFired,        \* Master.Trigger.Fired
  recycleFired,        \* Slave.Recycle.Fired
  (* firmware *)
  fwPc,                \* "sleep", "parse", or "lost" after a stale header
  fwSigPc,             \* signalling Slave.Recycle: "idle" or "fire"
  rxPos,               \* position of the next header to parse
  rxSlot,              \* slot being parsed
  held                 \* slots parsed to their end and not recycled yet

sendVars == <<txMutex, pc, request, header, loaded, currentTxPos,
              slaveCurrentSlot>>
recVars == <<recycleTxSlotIndex, recPc, recIndex>>
fwVars == <<fwPc, fwSigPc, rxPos, rxSlot, held>>
vars == <<sendVars, recVars, fwVars, recycleFired, availableTxSlot, txPos,
          slotQueue, slotQueueRecycle, memory, triggerFired>>

-----------------------------------------------------------------------------
(* Stream positions. *)

StartPos == [slot |-> 0, off |-> 0]

Less(p, q) == p.slot < q.slot \/ (p.slot = q.slot /\ p.off < q.off)
Leq(p, q) == p = q \/ Less(p, q)

\* Mutant of Advance: the offset is not carried into the slot number.
AdvanceNoCarry(p, n) == [slot |-> p.slot, off |-> p.off + n]

\* p + n, for n no larger than what is left of the slot of p.
Advance(p, n) ==
  IF p.off + n = SlotSize
  THEN [slot |-> p.slot + 1, off |-> 0]
  ELSE [slot |-> p.slot, off |-> p.off + n]

\* VCHIQ_GET_SLOT_ALIGN_SIZE
AlignSize(n) == ((n + HeaderSize - 1) \div HeaderSize) * HeaderSize

\* Slave.SlotQueue[(pos / VCHIQ_SLOT_SIZE) & VCHIQ_SLOT_QUEUE_MASK]
QueuedSlot(p) == slotQueue[p.slot % RingSize]

\* Slot memory after h is written: a message at the same place is gone.
Put(h) == {g \in memory : ~(g.at = h.at /\ g.pos.off = h.pos.off)} \cup {h}

-----------------------------------------------------------------------------
SenderPc == {"idle", "wait", "write", "load", "store", "signal"}
RecyclePc == {"idle", "loop"}

TypeOK ==
  /\ txMutex \in Senders \cup {None}
  /\ pc \in [Senders -> SenderPc]
  /\ request \in [Senders -> Requests \cup {0}]
  /\ header \in [Senders -> Positions]
  /\ loaded \in [Senders -> Positions]
  /\ currentTxPos \in Positions
  /\ slaveCurrentSlot \in Slots \cup {NoSlot}
  /\ availableTxSlot \in Nat
  /\ recycleTxSlotIndex \in Nat
  /\ recPc \in RecyclePc
  /\ recIndex \in Nat
  /\ txPos \in Positions
  /\ slotQueue \in [0..(RingSize - 1) -> Slots \cup {NoSlot}]
  /\ slotQueueRecycle \in Nat
  /\ memory \subseteq Headers
  /\ triggerFired \in BOOLEAN
  /\ recycleFired \in BOOLEAN
  /\ fwPc \in {"sleep", "parse", "lost"}
  /\ fwSigPc \in {"idle", "fire"}
  /\ rxPos \in Positions
  /\ rxSlot \in Slots \cup {NoSlot}
  /\ held \subseteq Slots \cup {NoSlot}

\* VchiqInit
Init ==
  /\ txMutex = None
  /\ pc = [s \in Senders |-> "idle"]
  /\ request = [s \in Senders |-> 0]
  /\ header = [s \in Senders |-> StartPos]
  /\ loaded = [s \in Senders |-> StartPos]
  /\ currentTxPos = StartPos
  /\ slaveCurrentSlot = NoSlot
  /\ availableTxSlot = TotalTxSlot
  /\ recycleTxSlotIndex = TotalTxSlot
  /\ recPc = "idle"
  /\ recIndex = TotalTxSlot
  /\ txPos = StartPos
  /\ slotQueue = [i \in 0..(RingSize - 1) |->
                    IF i < NumSlots THEN SlotFirst + i ELSE NoSlot]
  /\ slotQueueRecycle = TotalTxSlot
  /\ memory = {}
  /\ triggerFired = FALSE
  /\ recycleFired = FALSE
  /\ fwPc = "sleep"
  /\ fwSigPc = "idle"
  /\ rxPos = StartPos
  /\ rxSlot = NoSlot
  /\ held = {}

-----------------------------------------------------------------------------
(* A sender.  Its locals are cleared once the code has no more use for them. *)

\* The end of VchiqAcquireTxSpace: the header is at p and CurrentTxPos moves
\* on, before anything is written there.
Grant(s, p, n) ==
  /\ header' = [header EXCEPT ![s] = p]
  /\ currentTxPos' = Advance(p, AlignSize(n))
  /\ pc' = [pc EXCEPT ![s] = "write"]

\* Take TxSlotMutex and enter VchiqAcquireTxSpace for a message of size n.
Lock(s, n) ==
  /\ pc[s] = "idle"
  /\ txMutex = None
  /\ currentTxPos.slot < MaxSlot
  /\ txMutex' = s
  /\ request' = [request EXCEPT ![s] = n]
  /\ UNCHANGED <<loaded, slaveCurrentSlot, recVars, fwVars, recycleFired,
                 availableTxSlot, txPos, slotQueue, slotQueueRecycle,
                 triggerFired>>

AvailSlotSpace == SlotSize - currentTxPos.off
NextSlotPos == [slot |-> currentTxPos.slot + 1, off |-> 0]
PaddingHeader == [at |-> slaveCurrentSlot, pos |-> currentTxPos,
                  next |-> NextSlotPos, padding |-> TRUE]

\* Mutant of SenderPad: the rest of the slot is skipped without a message.
SenderSkip(s, n) ==
  /\ Lock(s, n)
  /\ AlignSize(n) > AvailSlotSpace
  /\ currentTxPos' = NextSlotPos
  /\ pc' = [pc EXCEPT ![s] = "wait"]
  /\ UNCHANGED <<header, memory>>

\* The message does not fit in the rest of the slot: a padding message fills
\* it and the sender waits for the next slot.
SenderPad(s, n) ==
  /\ Lock(s, n)
  /\ AlignSize(n) > AvailSlotSpace
  /\ memory' = Put(PaddingHeader)
  /\ currentTxPos' = NextSlotPos
  /\ pc' = [pc EXCEPT ![s] = "wait"]
  /\ UNCHANGED header

\* The previous slot is full: the sender waits for the next one.
SenderNewSlot(s, n) ==
  /\ Lock(s, n)
  /\ currentTxPos.off = 0
  /\ pc' = [pc EXCEPT ![s] = "wait"]
  /\ UNCHANGED <<header, currentTxPos, memory>>

\* The message fits behind the previous one.
SenderFit(s, n) ==
  /\ Lock(s, n)
  /\ currentTxPos.off # 0
  /\ AlignSize(n) <= AvailSlotSpace
  /\ Grant(s, currentTxPos, n)
  /\ UNCHANGED memory

\* The wait returns with a unit of the semaphore.
SenderTakeSlot(s) ==
  /\ pc[s] = "wait"
  /\ availableTxSlot > 0
  /\ availableTxSlot' = availableTxSlot - 1
  /\ slaveCurrentSlot' = QueuedSlot(currentTxPos)
  /\ Grant(s, currentTxPos, request[s])
  /\ UNCHANGED <<txMutex, request, loaded, recVars, fwVars, recycleFired, txPos,
                 slotQueue, slotQueueRecycle, memory, triggerFired>>

\* Mutant of SenderFail: the status of the wait is not looked at.
SenderFailProceeds(s) ==
  /\ pc[s] = "wait"
  /\ availableTxSlot = 0
  /\ slaveCurrentSlot' = QueuedSlot(currentTxPos)
  /\ Grant(s, currentTxPos, request[s])
  /\ UNCHANGED <<txMutex, request, loaded, recVars, fwVars, recycleFired,
                 availableTxSlot, txPos, slotQueue, slotQueueRecycle, memory,
                 triggerFired>>

\* No unit within 100 ms, or FileEventStop was set: the send fails.  A padding
\* message written before stays, and CurrentTxPos stays at the slot boundary.
SenderFail(s) ==
  /\ pc[s] = "wait"
  /\ availableTxSlot = 0
  /\ txMutex' = None
  /\ request' = [request EXCEPT ![s] = 0]
  /\ pc' = [pc EXCEPT ![s] = "idle"]
  /\ UNCHANGED <<header, loaded, currentTxPos, slaveCurrentSlot,
                 recVars, fwVars, recycleFired, availableTxSlot, txPos, slotQueue,
                 slotQueueRecycle, memory, triggerFired>>

\* Header and data are copied to the slot and TxSlotMutex is released.
SenderWrite(s) ==
  /\ pc[s] = "write"
  /\ memory' = Put([at |-> slaveCurrentSlot, pos |-> header[s],
                     next |-> Advance(header[s], AlignSize(request[s])),
                     padding |-> FALSE])
  /\ txMutex' = None
  /\ request' = [request EXCEPT ![s] = 0]
  /\ header' = [header EXCEPT ![s] = StartPos]
  /\ pc' = [pc EXCEPT ![s] = "load"]
  /\ UNCHANGED <<loaded, currentTxPos, slaveCurrentSlot, recVars, fwVars,
                 recycleFired, availableTxSlot, txPos, slotQueue, slotQueueRecycle,
                 triggerFired>>

\* Mutant of SenderLoad: only whole slots are published.
SenderLoadWholeSlots(s) ==
  /\ pc[s] = "load"
  /\ loaded' = [loaded EXCEPT ![s] = [slot |-> currentTxPos.slot, off |-> 0]]
  /\ pc' = [pc EXCEPT ![s] = "store"]
  /\ UNCHANGED <<txMutex, request, header, currentTxPos, slaveCurrentSlot,
                 recVars, fwVars, recycleFired, availableTxSlot, txPos,
                 slotQueue, slotQueueRecycle, memory, triggerFired>>

\* slotZeroPtr->Slave.TxPos = DeviceContextPtr->CurrentTxPos, outside the
\* mutex: a load of one word and a store of another.
SenderLoad(s) ==
  /\ pc[s] = "load"
  /\ loaded' = [loaded EXCEPT ![s] = currentTxPos]
  /\ pc' = [pc EXCEPT ![s] = "store"]
  /\ UNCHANGED <<txMutex, request, header, currentTxPos, slaveCurrentSlot,
                 recVars, fwVars, recycleFired, availableTxSlot, txPos, slotQueue,
                 slotQueueRecycle, memory, triggerFired>>

SenderStore(s) ==
  /\ pc[s] = "store"
  /\ txPos' = loaded[s]
  /\ loaded' = [loaded EXCEPT ![s] = StartPos]
  /\ pc' = [pc EXCEPT ![s] = "signal"]
  /\ UNCHANGED <<txMutex, request, header, currentTxPos,
                 slaveCurrentSlot, recVars, fwVars, recycleFired,
                 availableTxSlot, slotQueue, slotQueueRecycle, memory,
                 triggerFired>>

\* Mutant of SenderSignal: the firmware is told of full slots only.
SenderSignalFullSlot(s) ==
  /\ pc[s] = "signal"
  /\ triggerFired' = (triggerFired \/ txPos.off = 0)
  /\ pc' = [pc EXCEPT ![s] = "idle"]
  /\ UNCHANGED <<txMutex, request, header, loaded, currentTxPos,
                 slaveCurrentSlot, recVars, fwVars, recycleFired,
                 availableTxSlot, txPos, slotQueue, slotQueueRecycle, memory>>

\* VchiqSignalVC(Master.Trigger); the firmware sees Fired or the doorbell.
SenderSignal(s) ==
  /\ pc[s] = "signal"
  /\ triggerFired' = TRUE
  /\ pc' = [pc EXCEPT ![s] = "idle"]
  /\ UNCHANGED <<txMutex, request, header, loaded, currentTxPos,
                 slaveCurrentSlot, recVars, fwVars, recycleFired,
                 availableTxSlot, txPos, slotQueue, slotQueueRecycle, memory>>

Sender(s) ==
  \/ \E n \in Requests : SenderPad(s, n) \/ SenderNewSlot(s, n) \/ SenderFit(s, n)
  \/ SenderTakeSlot(s)
  \/ SenderFail(s)
  \/ SenderWrite(s)
  \/ SenderLoad(s)
  \/ SenderStore(s)
  \/ SenderSignal(s)

-----------------------------------------------------------------------------
(* The firmware (external): it parses the slave stream as the driver parses *)
(* the master stream, and recycles a slot once nothing in it is in use any  *)
(* more, in any order, one at a time.                                       *)

FwWake ==
  /\ fwPc = "sleep"
  /\ triggerFired
  /\ triggerFired' = FALSE
  /\ fwPc' = "parse"
  /\ UNCHANGED <<sendVars, recVars, fwSigPc, rxPos, rxSlot, held, recycleFired,
                 availableTxSlot, txPos, slotQueue, slotQueueRecycle, memory>>

FwParse ==
  /\ fwPc = "parse"
  /\ Less(rxPos, txPos)
  /\ LET slot == IF rxPos.off = 0 THEN QueuedSlot(rxPos) ELSE rxSlot
         found == {h \in memory : h.at = slot /\ h.pos = rxPos}
     IN  /\ rxSlot' = slot
         /\ \/ \E h \in found :
                 /\ rxPos' = h.next
                 /\ memory' = memory \ {h}
                 /\ held' = IF h.next.off = 0 THEN held \cup {slot} ELSE held
                 /\ UNCHANGED fwPc
            \/ /\ found = {}
               /\ fwPc' = "lost"
               /\ UNCHANGED <<rxPos, memory, held>>
  /\ UNCHANGED <<sendVars, recVars, fwSigPc, recycleFired, availableTxSlot, txPos,
                 slotQueue, slotQueueRecycle, triggerFired>>

FwSleep ==
  /\ fwPc = "parse"
  /\ ~Less(rxPos, txPos)
  /\ fwPc' = "sleep"
  /\ UNCHANGED <<sendVars, recVars, fwSigPc, rxPos, rxSlot, held, recycleFired,
                 availableTxSlot, txPos, slotQueue, slotQueueRecycle, memory,
                 triggerFired>>

FwRecycle ==
  /\ fwSigPc = "idle"
  /\ \E slot \in held :
       /\ slotQueue' = [slotQueue EXCEPT ![slotQueueRecycle % RingSize] = slot]
       /\ held' = held \ {slot}
  /\ slotQueueRecycle' = slotQueueRecycle + 1
  /\ fwSigPc' = "fire"
  /\ UNCHANGED <<sendVars, recVars, fwPc, rxPos, rxSlot, recycleFired,
                 availableTxSlot, txPos, memory, triggerFired>>

FwSignal ==
  /\ fwSigPc = "fire"
  /\ recycleFired' = TRUE
  /\ fwSigPc' = "idle"
  /\ UNCHANGED <<sendVars, recVars, fwPc, rxPos, rxSlot, held, availableTxSlot,
                 txPos, slotQueue, slotQueueRecycle, memory, triggerFired>>

Firmware == FwWake \/ FwParse \/ FwSleep \/ FwRecycle \/ FwSignal

-----------------------------------------------------------------------------
(* The recycle thread: VchiqProcessRecycleTxSlot. *)

RecBegin ==
  /\ recPc = "idle"
  /\ recPc' = "loop"
  /\ recIndex' = recycleTxSlotIndex
  /\ UNCHANGED <<sendVars, recycleTxSlotIndex, fwVars, recycleFired,
                 availableTxSlot, txPos, slotQueue, slotQueueRecycle, memory,
                 triggerFired>>

\* Mutant of RecRelease: one slot per pass.
RecReleaseOne ==
  /\ recPc = "loop"
  /\ recIndex # slotQueueRecycle
  /\ availableTxSlot' = availableTxSlot + 1
  /\ recIndex' = recIndex + 1
  /\ recycleTxSlotIndex' = recIndex + 1
  /\ recPc' = "idle"
  /\ recycleFired' = FALSE
  /\ UNCHANGED <<sendVars, fwVars, txPos, slotQueue, slotQueueRecycle, memory,
                 triggerFired>>

\* One turn of the loop: a unit of the semaphore per recycled slot, and Fired
\* is reset.
RecRelease ==
  /\ recPc = "loop"
  /\ recIndex # slotQueueRecycle
  /\ availableTxSlot' = availableTxSlot + 1
  /\ recIndex' = recIndex + 1
  /\ recycleFired' = FALSE
  /\ UNCHANGED <<sendVars, recycleTxSlotIndex, recPc, fwVars, txPos,
                 slotQueue, slotQueueRecycle, memory, triggerFired>>

\* Mutant of RecEnd: RecycleTxSlotIndex is not written back.
RecEndForgets ==
  /\ recPc = "loop"
  /\ recIndex = slotQueueRecycle
  /\ recPc' = "idle"
  /\ UNCHANGED <<sendVars, recycleTxSlotIndex, recIndex, fwVars, recycleFired,
                 availableTxSlot, txPos, slotQueue, slotQueueRecycle, memory,
                 triggerFired>>

RecEnd ==
  /\ recPc = "loop"
  /\ recIndex = slotQueueRecycle
  /\ recycleTxSlotIndex' = recIndex
  /\ recPc' = "idle"
  /\ UNCHANGED <<sendVars, recIndex, fwVars, recycleFired, availableTxSlot,
                 txPos, slotQueue, slotQueueRecycle, memory, triggerFired>>

RecycleThread == RecBegin \/ RecRelease \/ RecEnd

-----------------------------------------------------------------------------
Next ==
  \/ \E s \in Senders : Sender(s)
  \/ Firmware
  \/ RecycleThread

(* The processor runs a sender that has begun and the recycle thread when   *)
(* Fired is set; the firmware parses what it was signalled and gives back   *)
(* the slots it is done with.  Nothing makes a sender send.                 *)
Fairness ==
  /\ \A s \in Senders : WF_vars(pc[s] # "idle" /\ Sender(s))
  /\ WF_vars(FwWake \/ FwParse \/ FwSleep)
  /\ WF_vars(FwRecycle \/ FwSignal)
  /\ WF_vars(recycleFired /\ RecBegin)
  /\ WF_vars(RecRelease \/ RecEnd)

Spec == Init /\ [][Next]_vars /\ Fairness

-----------------------------------------------------------------------------
(* Properties. *)

\* Slots of the stream the senders have entered.
SlotsEntered ==
  IF currentTxPos.off = 0 THEN currentTxPos.slot ELSE currentTxPos.slot + 1

\* How many recycled slots the recycle thread has seen, counting the pass it
\* is in the middle of.
SlotsSeen ==
  IF recPc = "loop" THEN recIndex ELSE recycleTxSlotIndex

\* KeReleaseSemaphore never exceeds the limit KeInitializeSemaphore was given
\* (it would raise STATUS_SEMAPHORE_LIMIT_EXCEEDED in the recycle thread).
SemaphoreWithinLimit == availableTxSlot <= TotalTxSlot

\* Every unit taken from AvailableTxSlot entered exactly one slot of the
\* stream: padding, a send that timed out and a recycle pass in progress
\* neither lose a slot nor invent one.
SlotAccounting == SlotsEntered + availableTxSlot = SlotsSeen

\* No sender writes over a message the firmware has not parsed yet: a message
\* leaves slot memory only when the firmware parses it.
UnparsedNeverOverwritten ==
  [][\A h \in memory \ memory' : h.pos = rxPos /\ rxPos' = h.next]_vars

\* The inductive strengthening of SemaphoreWithinLimit.  One sender at a time
\* is between the lock and the unlock, and what it holds agrees with
\* CurrentTxPos; nothing that was loaded, published, written or parsed is
\* ahead of CurrentTxPos; slots are recycled only after they were parsed.
MutexInv ==
  \A s \in Senders :
    /\ pc[s] \in {"wait", "write"} <=> txMutex = s
    /\ pc[s] \in {"wait", "write"} => request[s] \in Requests
    /\ pc[s] = "wait" => currentTxPos.off = 0
    /\ pc[s] = "write" =>
         /\ header[s].off + AlignSize(request[s]) <= SlotSize
         /\ currentTxPos = Advance(header[s], AlignSize(request[s]))

PositionInv ==
  /\ Leq(rxPos, currentTxPos)
  /\ Leq(txPos, currentTxPos)
  /\ \A s \in Senders : Leq(loaded[s], currentTxPos)
  /\ \A h \in memory :
       /\ Leq(h.next, currentTxPos)
       /\ h.next.slot = IF h.next.off = 0 THEN h.pos.slot + 1 ELSE h.pos.slot

RecycleInv ==
  /\ SlotsSeen <= slotQueueRecycle
  /\ slotQueueRecycle + Cardinality(held) <= TotalTxSlot + rxPos.slot

TxInv ==
  /\ TypeOK
  /\ MutexInv
  /\ PositionInv
  /\ RecycleInv
  /\ SlotAccounting

\* "Safe to release mutex once we copied all the data over": wherever the
\* firmware parses below TxPos it finds the message written for that position.
FirmwareFindsHeader == fwPc # "lost"

\* "Indicates the byte position within the stream where the next message will
\* be written" (VCHIQ_SHARED_STATE.TxPos): when no send is in progress every
\* message written lies below TxPos.
TxPosCoversMessages ==
  (\A s \in Senders : pc[s] = "idle") =>
    \A h \in memory : h.padding \/ Less(h.pos, txPos)
=============================================================================
