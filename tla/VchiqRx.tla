------------------------------ MODULE VchiqRx -------------------------------
(***************************************************************************)
(* The receive side of VCHIQ: the trigger thread (VchiqProcessRxSlot)      *)
(* walks through the slots the firmware fills and queues each message on   *)
(* the file it is for; AWAIT_COMPLETION and DEQUEUE_MESSAGE requests take  *)
(* messages off; a slot whose messages are all gone returns to the         *)
(* firmware (VchiqRecycleSlot).                                            *)
(*                                                                         *)
(* A message is kept in its slot while a list points at it.  RefCount is   *)
(* the number of those pointers and SlotInUse says that the trigger thread *)
(* is still in the slot.  Both are touched by the trigger thread and by    *)
(* every thread that runs an ioctl, so the steps of VchiqReleaseMsg and    *)
(* VchiqRecycleSlot are single accesses of them.  What runs under a mutex  *)
(* and touches nothing else is one step.                                   *)
(*                                                                         *)
(* Messages have one size here, MsgsPerSlot of them fill a slot, and a     *)
(* stream position counts messages.  How the thread is woken is the        *)
(* subject of VchiqThread; here it runs whenever TxPos is ahead.           *)
(***************************************************************************)
EXTENDS Integers, SequencesExt

CONSTANTS
  Files,        \* files (services) that are open
  VchiFiles,    \* the ones with IsVchi set: their messages are tracked
  LateFiles,    \* the ones whose client sends requests at any time
  Kinds,        \* kinds of messages the firmware sends to a file
  SlotFirst,    \* Master.SlotFirst
  SlotLast,     \* Master.SlotLast
  MsgsPerSlot,  \* messages in a slot
  RingSize,     \* VCHIQ_MAX_SLOTS_PER_SIDE, entries of Master.SlotQueue
  MsgBufCount,  \* messages an AWAIT_COMPLETION request has room for
  Ahead,        \* AWAIT_COMPLETION requests a client has queued at the start
  DequeuesAhead,\* DEQUEUE_MESSAGE requests a vchi client has queued at the start
  MaxRequests,  \* bound: requests of a kind queued at once by a late client
  MaxSlot       \* bound: slots of the stream the firmware fills

NoSlot == 0
Slots == SlotFirst..SlotLast
NumSlots == SlotLast - SlotFirst + 1
None == "none"
Trigger == <<"trigger", None>>
NoThread == <<"none", None>>
Awaiter(f) == <<"await", f>>
Dequeuer(f) == <<"dequeue", f>>
Threads == {Trigger} \cup {Awaiter(f) : f \in Files}
                     \cup {Dequeuer(f) : f \in Files}

(* VCHIQ_MSG_DATA; VCHIQ_MSG_BULK_*_DONE of a transfer whose mode is        *)
(* blocking or without callback: that one is consumed, never returned; and  *)
(* a VCHIQ_MSG_DATA larger than the MsgBufSize of the requests.             *)
AllKinds == {"data", "done", "big"}

ASSUME RxAssumption ==
  /\ VchiFiles \subseteq Files
  /\ LateFiles \subseteq Files
  /\ Kinds \subseteq AllKinds
  /\ SlotFirst \in Nat \ {NoSlot}
  /\ SlotLast \in Nat
  /\ SlotLast > SlotFirst
  /\ MsgsPerSlot \in Nat \ {0}
  /\ RingSize \in Nat
  /\ RingSize >= NumSlots
  /\ MsgBufCount \in Nat \ {0}
  /\ Ahead \in Nat
  /\ DequeuesAhead \in Nat
  /\ MaxRequests \in Nat
  /\ MaxSlot \in Nat
  /\ None \notin Files

VARIABLES
  (* slot zero and slot memory, shared with the firmware *)
  slotQueue,    \* Master.SlotQueue
  recycle,      \* Master.SlotQueueRecycle
  txPos,        \* Master.TxPos
  memory,       \* the messages in the slots
  (* device context *)
  rxPos,        \* CurrentRxPos
  current,      \* MasterCurrentSlotIndex, NoSlot when MasterCurrentSlot is NULL
  inUse,        \* RxSlotInfo[].SlotInUse
  refCount,     \* RxSlotInfo[].RefCount
  (* file contexts *)
  data,         \* PendingDataMsgList
  vchi,         \* PendingVchiMsgList
  dataLock,     \* holder of PendingDataMsgMutex
  vchiLock,     \* holder of PendingVchiMsgMutex
  requests,     \* requests in FILE_QUEUE_PENDING_MSG
  dequeues,     \* requests in FILE_QUEUE_PENDING_VCHI_MSG
  (* locals of the threads *)
  pc,
  file,         \* the file a thread works for
  rel,          \* the SlotNumber of its VchiqReleaseMsg / VchiqRecycleSlot
  seen,         \* the reference count it read there
  ret,          \* where it goes on after VchiqRecycleSlot
  total,        \* *totalMsgPtr
  (* what the clients were sent and what they got, by stream position *)
  posted,
  delivered,
  dequeued

sharedVars == <<slotQueue, recycle, txPos, memory>>
slotVars == <<inUse, refCount>>
fileVars == <<data, vchi, dataLock, vchiLock, requests, dequeues>>
localVars == <<pc, file, rel, seen, ret, total>>
clientVars == <<posted, delivered, dequeued>>
vars == <<sharedVars, rxPos, current, slotVars, fileVars, localVars, clientVars>>

Indexes == 0..(MsgsPerSlot - 1)
NoMessage == [pos |-> -1, file |-> None, kind |-> "data"]
Messages == [pos : Nat \cup {-1}, file : Files \cup {None}, kind : AllKinds]

\* VCHIQ_PENDING_MSG: Msg points into the slot SlotNumber.
Entries == [slot : Slots, index : Indexes]

SlotOf(p) == slotQueue[(p \div MsgsPerSlot) % RingSize]
At(e) == memory[e.slot][e.index]

-----------------------------------------------------------------------------
ReleasePc == {"dec", "read", "exchange", "test", "push"}
Pc == {"idle", "lock", "add", "process", "remove", "vlock", "vprocess", "unlock",
       "advance"} \cup ReleasePc

TypeOK ==
  /\ slotQueue \in [0..(RingSize - 1) -> Slots \cup {NoSlot}]
  /\ recycle \in Nat
  /\ txPos \in Nat
  /\ memory \in [Slots -> [Indexes -> Messages]]
  /\ rxPos \in Nat
  /\ current \in Slots \cup {NoSlot}
  /\ inUse \in [Slots -> BOOLEAN]
  /\ refCount \in [Slots -> Int]
  /\ data \in [Files -> Seq(Entries)]
  /\ vchi \in [Files -> Seq(Entries)]
  /\ dataLock \in [Files -> Threads \cup {NoThread}]
  /\ vchiLock \in [Files -> Threads \cup {NoThread}]
  /\ requests \in [Files -> Nat]
  /\ dequeues \in [Files -> Nat]
  /\ pc \in [Threads -> Pc]
  /\ file \in [Threads -> Files \cup {None}]
  /\ rel \in [Threads -> Slots \cup {NoSlot}]
  /\ seen \in [Threads -> Int]
  /\ ret \in [Threads -> {"none", "remove", "vprocess", "idle"}]
  /\ total \in [Threads -> 0..MsgBufCount]
  /\ posted \in [Files -> Seq(Nat)]
  /\ delivered \in [Files -> Seq(Nat \cup {-1})]
  /\ dequeued \in [Files -> Seq(Nat \cup {-1})]

(* The firmware starts with every slot in Master.SlotQueue.  Clients have   *)
(* queued Ahead and DequeuesAhead requests before the first message.        *)
Init ==
  /\ slotQueue = [i \in 0..(RingSize - 1) |->
                    IF i < NumSlots THEN SlotFirst + i ELSE NoSlot]
  /\ recycle = NumSlots
  /\ txPos = 0
  /\ memory = [s \in Slots |-> [i \in Indexes |-> NoMessage]]
  /\ rxPos = 0
  /\ current = NoSlot
  /\ inUse = [s \in Slots |-> FALSE]
  /\ refCount = [s \in Slots |-> 0]
  /\ data = [f \in Files |-> <<>>]
  /\ vchi = [f \in Files |-> <<>>]
  /\ dataLock = [f \in Files |-> NoThread]
  /\ vchiLock = [f \in Files |-> NoThread]
  /\ requests = [f \in Files |-> Ahead]
  /\ dequeues = [f \in Files |-> IF f \in VchiFiles THEN DequeuesAhead ELSE 0]
  /\ pc = [t \in Threads |-> "idle"]
  /\ file = [t \in Threads |-> None]
  /\ rel = [t \in Threads |-> NoSlot]
  /\ seen = [t \in Threads |-> 0]
  /\ ret = [t \in Threads |-> "none"]
  /\ total = [t \in Threads |-> 0]
  /\ posted = [f \in Files |-> <<>>]
  /\ delivered = [f \in Files |-> <<>>]
  /\ dequeued = [f \in Files |-> <<>>]

-----------------------------------------------------------------------------
(* The firmware writes a message for file f, or one that is for no file     *)
(* (padding, a port that is not open), into the next place of a slot the    *)
(* driver handed over.                                                      *)
FwWrite(f, k) ==
  LET slot == SlotOf(txPos)
      index == txPos % MsgsPerSlot
  IN /\ txPos \div MsgsPerSlot < recycle
     /\ txPos \div MsgsPerSlot < MaxSlot
     /\ memory' = [memory EXCEPT ![slot][index] =
                      [pos |-> txPos, file |-> f, kind |-> k]]
     /\ txPos' = txPos + 1
     /\ posted' = IF f # None /\ k = "data"
                  THEN [posted EXCEPT ![f] = Append(@, txPos)]
                  ELSE posted
     /\ UNCHANGED <<slotQueue, recycle, rxPos, current, slotVars, fileVars,
                    localVars, delivered, dequeued>>

-----------------------------------------------------------------------------
(* VchiqReleaseMsg and VchiqRecycleSlot, by any thread.  rel is the slot.   *)

Goto(t, l) == pc' = [pc EXCEPT ![t] = l]

Return(t) ==
  /\ Goto(t, ret[t])
  /\ rel' = [rel EXCEPT ![t] = NoSlot]
  /\ seen' = [seen EXCEPT ![t] = 0]
  /\ ret' = [ret EXCEPT ![t] = "none"]

CallRelease(t, slot, back) ==
  /\ Goto(t, "dec")
  /\ rel' = [rel EXCEPT ![t] = slot]
  /\ ret' = [ret EXCEPT ![t] = back]
  /\ UNCHANGED seen

\* InterlockedDecrement(&slotPtr->RefCount)
ReleaseMsg(t) ==
  /\ pc[t] = "dec"
  /\ refCount' = [refCount EXCEPT ![rel[t]] = @ - 1]
  /\ Goto(t, "read")
  /\ UNCHANGED <<sharedVars, rxPos, current, inUse, fileVars, file, rel, seen,
                 ret, total, clientVars>>

\* The second argument of InterlockedExchange is a plain read of RefCount.
RecycleRead(t) ==
  /\ pc[t] = "read"
  /\ seen' = [seen EXCEPT ![t] = refCount[rel[t]]]
  /\ Goto(t, "exchange")
  /\ UNCHANGED <<sharedVars, rxPos, current, slotVars, fileVars, file, rel, ret,
                 total, clientVars>>

\* The exchange itself writes that value back and returns what was there.
RecycleExchange(t) ==
  /\ pc[t] = "exchange"
  /\ refCount' = [refCount EXCEPT ![rel[t]] = seen[t]]
  /\ seen' = [seen EXCEPT ![t] = refCount[rel[t]]]
  /\ Goto(t, "test")
  /\ UNCHANGED <<sharedVars, rxPos, current, inUse, fileVars, file, rel, ret,
                 total, clientVars>>

\* Mutant of RecycleTest: SlotInUse is not looked at.
RecycleTestCountOnly(t) ==
  /\ pc[t] = "test"
  /\ \/ /\ seen[t] = 0
        /\ Goto(t, "push")
        /\ UNCHANGED <<rel, seen, ret>>
     \/ /\ seen[t] # 0
        /\ Return(t)
  /\ UNCHANGED <<sharedVars, rxPos, current, slotVars, fileVars, file, total,
                 clientVars>>

RecycleTest(t) ==
  /\ pc[t] = "test"
  /\ \/ /\ seen[t] = 0 /\ ~inUse[rel[t]]
        /\ Goto(t, "push")
        /\ UNCHANGED <<rel, seen, ret>>
     \/ /\ seen[t] # 0 \/ inUse[rel[t]]
        /\ Return(t)
  /\ UNCHANGED <<sharedVars, rxPos, current, slotVars, fileVars, file, total,
                 clientVars>>

\* Under RecycleSlotMutex, up to VchiqSignalVC(&Master.Recycle).
RecyclePush(t) ==
  /\ pc[t] = "push"
  /\ slotQueue' = [slotQueue EXCEPT ![recycle % RingSize] = rel[t]]
  /\ recycle' = recycle + 1
  /\ Return(t)
  /\ UNCHANGED <<txPos, memory, rxPos, current, slotVars, fileVars, file, total,
                 clientVars>>

-----------------------------------------------------------------------------
(* The trigger thread: VchiqProcessRxSlot. *)

\* MasterCurrentSlot is NULL: take the next slot of Master.SlotQueue.
TriggerTakeSlot ==
  /\ pc[Trigger] = "idle"
  /\ rxPos < txPos
  /\ current = NoSlot
  /\ current' = SlotOf(rxPos)
  /\ inUse' = [inUse EXCEPT ![SlotOf(rxPos)] = TRUE]
  /\ UNCHANGED <<sharedVars, rxPos, refCount, fileVars, localVars, clientVars>>

RxHeader == [slot |-> current, index |-> rxPos % MsgsPerSlot]

\* A message for an open file goes to VchiqProcessNewRxMsg, others are dropped.
TriggerParse ==
  /\ pc[Trigger] = "idle"
  /\ rxPos < txPos
  /\ current # NoSlot
  /\ \/ /\ At(RxHeader).file = None
        /\ Goto(Trigger, "advance")
        /\ UNCHANGED file
     \/ /\ At(RxHeader).file # None
        /\ Goto(Trigger, "lock")
        /\ file' = [file EXCEPT ![Trigger] = At(RxHeader).file]
  /\ UNCHANGED <<sharedVars, rxPos, current, slotVars, fileVars, rel, seen, ret,
                 total, clientVars>>

\* VchiqAddPendingMsg and VchiqAddRefMsg, under PendingDataMsgMutex.
AddPendingMsg ==
  /\ pc[Trigger] = "add"
  /\ data' = [data EXCEPT ![file[Trigger]] = Append(@, RxHeader)]
  /\ refCount' = [refCount EXCEPT ![current] = @ + 1]
  /\ Goto(Trigger, "process")
  /\ UNCHANGED <<sharedVars, rxPos, current, inUse, vchi, dataLock, vchiLock,
                 requests, dequeues, file, rel, seen, ret, total, clientVars>>

\* Mutant of TriggerAdvance: VchiqRecycleSlot is called with ReleaseSlot FALSE.
TriggerAdvanceKeep ==
  /\ pc[Trigger] = "advance"
  /\ rxPos' = rxPos + 1
  /\ file' = [file EXCEPT ![Trigger] = None]
  /\ \/ /\ rxPos' % MsgsPerSlot = 0
        /\ rel' = [rel EXCEPT ![Trigger] = current]
        /\ current' = NoSlot
        /\ ret' = [ret EXCEPT ![Trigger] = "idle"]
        /\ Goto(Trigger, "read")
     \/ /\ rxPos' % MsgsPerSlot # 0
        /\ Goto(Trigger, "idle")
        /\ UNCHANGED <<current, rel, ret>>
  /\ UNCHANGED <<sharedVars, slotVars, fileVars, seen, total, clientVars>>

(* Past the message.  At the end of the slot VchiqRecycleSlot is called     *)
(* with ReleaseSlot TRUE, which clears SlotInUse first.  (MasterCurrentSlot *)
(* is cleared after the call; no other thread reads it.)                    *)
TriggerAdvance ==
  /\ pc[Trigger] = "advance"
  /\ rxPos' = rxPos + 1
  /\ file' = [file EXCEPT ![Trigger] = None]
  /\ \/ /\ rxPos' % MsgsPerSlot = 0
        /\ inUse' = [inUse EXCEPT ![current] = FALSE]
        /\ rel' = [rel EXCEPT ![Trigger] = current]
        /\ current' = NoSlot
        /\ ret' = [ret EXCEPT ![Trigger] = "idle"]
        /\ Goto(Trigger, "read")
     \/ /\ rxPos' % MsgsPerSlot # 0
        /\ Goto(Trigger, "idle")
        /\ UNCHANGED <<current, inUse, rel, ret>>
  /\ UNCHANGED <<sharedVars, refCount, fileVars, seen, total, clientVars>>

-----------------------------------------------------------------------------
(* IOCTL_VCHIQ_AWAIT_COMPLETION, and what it shares with the trigger thread. *)

\* Mutant of AwaitForward: the ioctl only queues the request.
AwaitForwardOnly(f) ==
  /\ pc[Awaiter(f)] = "idle"
  /\ f \in LateFiles
  /\ requests[f] < MaxRequests
  /\ requests' = [requests EXCEPT ![f] = @ + 1]
  /\ UNCHANGED <<sharedVars, rxPos, current, slotVars, data, vchi, dataLock,
                 vchiLock, dequeues, localVars, clientVars>>

\* The request is forwarded to FILE_QUEUE_PENDING_MSG before the mutex is taken.
AwaitForward(f) ==
  /\ pc[Awaiter(f)] = "idle"
  /\ f \in LateFiles
  /\ requests[f] < MaxRequests
  /\ requests' = [requests EXCEPT ![f] = @ + 1]
  /\ file' = [file EXCEPT ![Awaiter(f)] = f]
  /\ Goto(Awaiter(f), "lock")
  /\ UNCHANGED <<sharedVars, rxPos, current, slotVars, data, vchi, dataLock,
                 vchiLock, dequeues, rel, seen, ret, total, clientVars>>

DataLock(t) ==
  /\ pc[t] = "lock"
  /\ dataLock[file[t]] = NoThread
  /\ dataLock' = [dataLock EXCEPT ![file[t]] = t]
  /\ Goto(t, IF t = Trigger THEN "add" ELSE "process")
  /\ UNCHANGED <<sharedVars, rxPos, current, slotVars, data, vchi, vchiLock,
                 requests, dequeues, file, rel, seen, ret, total, clientVars>>

\* Mutant of ProcessPendingMsg: it waits for a second message.
ProcessPendingMsgLate(t) ==
  LET f == file[t]
      ready == Len(data[f]) > 1 /\ requests[f] > 0
  IN /\ pc[t] = "process"
     /\ \/ /\ ready
           /\ requests' = [requests EXCEPT ![f] = @ - 1]
           /\ Goto(t, "remove")
        \/ /\ ~ready
           /\ Goto(t, "unlock")
           /\ UNCHANGED requests
     /\ UNCHANGED <<sharedVars, rxPos, current, slotVars, data, vchi, dataLock,
                    vchiLock, dequeues, file, rel, seen, ret, total, clientVars>>

\* VchiqProcessPendingMsg: one request, if there is one and a message for it.
ProcessPendingMsg(t) ==
  LET f == file[t]
      ready == data[f] # <<>> /\ requests[f] > 0
  IN /\ pc[t] = "process"
     /\ \/ /\ ready
           /\ requests' = [requests EXCEPT ![f] = @ - 1]
           /\ Goto(t, "remove")
        \/ /\ ~ready
           /\ Goto(t, "unlock")
           /\ UNCHANGED requests
     /\ UNCHANGED <<sharedVars, rxPos, current, slotVars, data, vchi, dataLock,
                    vchiLock, dequeues, file, rel, seen, ret, total, clientVars>>

\* PendingDataMsgList is empty, or its head is put back: it is too large.
Blocked(f) == data[f] # <<>> => At(Head(data[f])).kind = "big"

\* Mutant of LoopEnds: one message more than the request has room for.
LoopEndsLate(t) == Blocked(file[t]) \/ total[t] > MsgBufCount

\* No message is left that fits, or no room in the request.
LoopEnds(t) == Blocked(file[t]) \/ total[t] = MsgBufCount

\* Mutant of RemovePendingMsg: no reference for the second list.
RemovePendingMsgNoRef(t) ==
  LET f == file[t]
      e == Head(data[f])
      returned == At(e).kind = "data"
      tracked == returned /\ f \in VchiFiles
  IN /\ pc[t] = "remove"
     /\ ~LoopEnds(t)
     /\ tracked => vchiLock[f] = NoThread
     /\ data' = [data EXCEPT ![f] = Tail(@)]
     /\ vchi' = IF tracked THEN [vchi EXCEPT ![f] = Append(@, e)] ELSE vchi
     /\ delivered' = IF returned THEN [delivered EXCEPT ![f] = Append(@, At(e).pos)]
                     ELSE delivered
     /\ total' = IF returned THEN [total EXCEPT ![t] = @ + 1] ELSE total
     /\ CallRelease(t, e.slot, "remove")
     /\ UNCHANGED <<sharedVars, rxPos, current, slotVars, dataLock, vchiLock, requests,
                    dequeues, file, posted, dequeued>>

(* One round of the loop of VchiqRemovePendingMsg: the message is copied to *)
(* the buffer of the request; for a vchi service it also moves to the other *)
(* list, with a reference of its own, under PendingVchiMsgMutex.            *)
RemovePendingMsg(t) ==
  LET f == file[t]
      e == Head(data[f])
      returned == At(e).kind = "data"
      tracked == returned /\ f \in VchiFiles
  IN /\ pc[t] = "remove"
     /\ ~LoopEnds(t)
     /\ tracked => vchiLock[f] = NoThread
     /\ data' = [data EXCEPT ![f] = Tail(@)]
     /\ vchi' = IF tracked THEN [vchi EXCEPT ![f] = Append(@, e)] ELSE vchi
     /\ refCount' = IF tracked THEN [refCount EXCEPT ![e.slot] = @ + 1]
                    ELSE refCount
     /\ delivered' = IF returned THEN [delivered EXCEPT ![f] = Append(@, At(e).pos)]
                     ELSE delivered
     /\ total' = IF returned THEN [total EXCEPT ![t] = @ + 1] ELSE total
     /\ CallRelease(t, e.slot, "remove")
     /\ UNCHANGED <<sharedVars, rxPos, current, inUse, dataLock, vchiLock, requests,
                    dequeues, file, posted, dequeued>>

\* After the loop: the request is completed, or put back if it got nothing.
CompleteRequest(t) ==
  LET f == file[t]
  IN /\ pc[t] = "remove"
     /\ LoopEnds(t)
     /\ \/ /\ total[t] = 0
           /\ requests' = [requests EXCEPT ![f] = @ + 1]
           /\ Goto(t, "unlock")
        \/ /\ total[t] # 0
           /\ Goto(t, "vlock")
           /\ UNCHANGED requests
     /\ total' = [total EXCEPT ![t] = 0]
     /\ UNCHANGED <<sharedVars, rxPos, current, slotVars, data, vchi, dataLock,
                    vchiLock, dequeues, file, rel, seen, ret, clientVars>>

DataUnlock(t) ==
  /\ pc[t] = "unlock"
  /\ dataLock' = [dataLock EXCEPT ![file[t]] = NoThread]
  /\ \/ /\ t = Trigger
        /\ Goto(t, "advance")
        /\ UNCHANGED file
     \/ /\ t # Trigger
        /\ Goto(t, "idle")
        /\ file' = [file EXCEPT ![t] = None]
  /\ UNCHANGED <<sharedVars, rxPos, current, slotVars, data, vchi, vchiLock, requests,
                 dequeues, rel, seen, ret, total, clientVars>>

-----------------------------------------------------------------------------
(* IOCTL_DEQUEUE_MESSAGE, and VchiqProcessPendingVchiMsg. *)

(* The mutex is taken first, then the request is forwarded.  A request that *)
(* is not blocking and finds no message is completed at once: no change.    *)
DequeueForward(f) ==
  LET t == Dequeuer(f)
  IN /\ pc[t] = "idle"
     /\ f \in LateFiles \cap VchiFiles
     /\ dequeues[f] < MaxRequests
     /\ vchiLock[f] = NoThread
     /\ vchiLock' = [vchiLock EXCEPT ![f] = t]
     /\ dequeues' = [dequeues EXCEPT ![f] = @ + 1]
     /\ file' = [file EXCEPT ![t] = f]
     /\ Goto(t, "vprocess")
     /\ UNCHANGED <<sharedVars, rxPos, current, slotVars, data, vchi, dataLock,
                    requests, rel, seen, ret, total, clientVars>>

\* Mutant of VchiLock: the dequeue requests are not looked at.
VchiSkip(t) ==
  /\ pc[t] = "vlock"
  /\ vchiLock[file[t]] = NoThread
  /\ Goto(t, "unlock")
  /\ UNCHANGED <<sharedVars, rxPos, current, slotVars, fileVars, file, rel, seen,
                 ret, total, clientVars>>

VchiLock(t) ==
  /\ pc[t] = "vlock"
  /\ vchiLock[file[t]] = NoThread
  /\ vchiLock' = [vchiLock EXCEPT ![file[t]] = t]
  /\ Goto(t, "vprocess")
  /\ UNCHANGED <<sharedVars, rxPos, current, slotVars, data, vchi, dataLock,
                 requests, dequeues, file, rel, seen, ret, total, clientVars>>

\* One round of VchiqProcessPendingVchiMsg: VchiqRemovePendingVchiMsg.
RemovePendingVchiMsg(t) ==
  LET f == file[t]
      e == Head(vchi[f])
  IN /\ pc[t] = "vprocess"
     /\ vchi[f] # <<>>
     /\ dequeues[f] > 0
     /\ dequeues' = [dequeues EXCEPT ![f] = @ - 1]
     /\ vchi' = [vchi EXCEPT ![f] = Tail(@)]
     /\ dequeued' = [dequeued EXCEPT ![f] = Append(@, At(e).pos)]
     /\ CallRelease(t, e.slot, "vprocess")
     /\ UNCHANGED <<sharedVars, rxPos, current, slotVars, data, dataLock, vchiLock,
                    requests, file, total, posted, delivered>>

VchiUnlock(t) ==
  LET f == file[t]
  IN /\ pc[t] = "vprocess"
     /\ vchi[f] = <<>> \/ dequeues[f] = 0
     /\ vchiLock' = [vchiLock EXCEPT ![f] = NoThread]
     /\ \/ /\ t = Dequeuer(f)
           /\ Goto(t, "idle")
           /\ file' = [file EXCEPT ![t] = None]
        \/ /\ t # Dequeuer(f)
           /\ Goto(t, "unlock")
           /\ UNCHANGED file
     /\ UNCHANGED <<sharedVars, rxPos, current, slotVars, data, vchi, dataLock, requests,
                    dequeues, rel, seen, ret, total, clientVars>>

-----------------------------------------------------------------------------
TriggerStep == TriggerTakeSlot \/ TriggerParse \/ AddPendingMsg \/ TriggerAdvance

ThreadStep(t) ==
  \/ DataLock(t) \/ ProcessPendingMsg(t) \/ RemovePendingMsg(t)
  \/ CompleteRequest(t) \/ DataUnlock(t)
  \/ VchiLock(t) \/ RemovePendingVchiMsg(t) \/ VchiUnlock(t)
  \/ ReleaseMsg(t) \/ RecycleRead(t) \/ RecycleExchange(t) \/ RecycleTest(t)
  \/ RecyclePush(t)

Next ==
  \/ \E f \in Files, k \in Kinds : FwWrite(f, k)
  \/ FwWrite(None, "data")
  \/ \E f \in Files : AwaitForward(f) \/ DequeueForward(f)
  \/ TriggerStep
  \/ \E t \in Threads : ThreadStep(t)

(* A thread that is ready to run, or that waits for a mutex, gets on.  The  *)
(* firmware and the clients owe nothing.                                    *)
Fairness ==
  /\ WF_vars(TriggerStep)
  /\ \A t \in Threads : WF_vars(ThreadStep(t))

Spec == Init /\ [][Next]_vars /\ Fairness

-----------------------------------------------------------------------------
(* Properties. *)

\* Entries of Master.SlotQueue the trigger thread has yet to take.
Queued ==
  (rxPos \div MsgsPerSlot + (IF current = NoSlot THEN 0 ELSE 1))..(recycle - 1)
QueuedSlots == {slotQueue[i % RingSize] : i \in Queued}

Referenced ==
  {e.slot : e \in UNION {Range(data[f]) \cup Range(vchi[f]) : f \in Files}}

(* VchiqRecycleSlot returns a slot only when no message in it is needed:    *)
(* while a pending list points into a slot, the slot is not in the firmware's *)
(* hands.                                                                   *)
NoEarlyRecycle == Referenced \cap QueuedSlots = {}

(* A slot is returned once per use: it is never in Master.SlotQueue twice,  *)
(* nor there while the trigger thread is in it.                             *)
RecycledOnce ==
  /\ \A i, j \in Queued :
       i # j => slotQueue[i % RingSize] # slotQueue[j % RingSize]
  /\ current \notin QueuedSlots

(* When no thread is at work and no message is pending, every slot but the  *)
(* one being parsed is back with the firmware: the reference counts of      *)
(* VchiqReleaseMsg leak none.                                               *)
NoSlotLeak ==
  (\A t \in Threads : pc[t] = "idle") /\ Referenced = {}
    => Slots \ {current} \subseteq QueuedSlots

(* What VchiqRemovePendingMsg copies out of a slot is the message the       *)
(* firmware sent, in order, each once; the same for a vchi service and      *)
(* VchiqRemovePendingVchiMsg.                                               *)
DeliveredIsPosted ==
  \A f \in Files : /\ IsPrefix(delivered[f], posted[f])
                    /\ IsPrefix(dequeued[f], delivered[f])

(* A message and a request for it never wait for each other: when no thread *)
(* is in the critical section of a file, or on its way to it with a new     *)
(* request, one of the two queues is empty or starts with a message that is *)
(* too large for the requests.                                              *)
NoStrandedMessage ==
  \A f \in Files :
    dataLock[f] = NoThread /\ pc[Awaiter(f)] # "lock" =>
      /\ Blocked(f) \/ requests[f] = 0
      /\ vchiLock[f] = NoThread => (vchi[f] = <<>> \/ dequeues[f] = 0)

(* With requests queued ahead, every data message is delivered: the trigger *)
(* thread gets through the stream the firmware wrote, slots keep coming     *)
(* back, and the clients catch up with it again and again.                  *)
CaughtUp(f) == delivered[f] = posted[f]

PostedIsDelivered == \A f \in Files : []<>CaughtUp(f)

(* A client is served: no thread stays in a critical section of a file, so  *)
(* a pending message meets a queued request.                                *)
Served(f) ==
  /\ Blocked(f) \/ requests[f] = 0
  /\ vchi[f] = <<>> \/ dequeues[f] = 0
  /\ dataLock[f] = NoThread
  /\ vchiLock[f] = NoThread

RequestsAreServed == \A f \in Files : []<>Served(f)
=============================================================================
