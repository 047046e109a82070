-------------------------- MODULE VchiqRequestProofs --------------------------
(***************************************************************************)
(* Proofs that on the receive side of VCHIQ a message and a request for it *)
(* never wait for each other, whatever threads run beside the trigger      *)
(* thread: late AWAIT_COMPLETION and DEQUEUE_MESSAGE requests included.    *)
(*                                                                         *)
(* The property speaks of the moments when no thread is in a critical      *)
(* section of the file.  What makes it true is what holds inside:          *)
(*   LocksInv     who holds a mutex of a file is in the part of the code   *)
(*                between its acquisition and its release, and nobody else *)
(*   MeetData(f)  a request can be left beside a message that fits only if *)
(*                its own thread is on its way to the mutex with it, or    *)
(*                the message is the only one and is about to be taken     *)
(*   MeetVchi(f)  the same for the second list: the thread that filled it  *)
(*                still has to look at the dequeue requests                *)
(*                                                                         *)
(* All this needs one thing from the stream: a message at the head of a    *)
(* list is not written over (Spared), or it could change its size.  That   *)
(* is what the accounting of slots is for, and it is left as a hypothesis  *)
(* here: VchiqRxProofs has it when requests are queued ahead; it holds, by *)
(* OneSlot, whatever clients do in the first slot of the stream.           *)
(***************************************************************************)
EXTENDS VchiqRx, SequenceTheorems, TLAPS

\* Where a thread is, calls of VchiqReleaseMsg and VchiqRecycleSlot left out.
Stage(t) == IF pc[t] \in ReleasePc THEN ret[t] ELSE pc[t]

\* PendingDataMsgMutex is held there, and a message is being received.
DataStages == {"add", "process", "remove", "vlock", "vprocess", "unlock"}
RxStages == DataStages \cup {"lock", "advance"}

\* The thread holds the mutex of the list of f, by where it is.
HoldsData(f, t) == file[t] = f /\ Stage(t) \in DataStages /\ t # Dequeuer(f)
HoldsVchi(f, t) == file[t] = f /\ Stage(t) = "vprocess"

\* A mutex is held by who is between its acquisition and its release.
LocksInv ==
  \A f \in Files : \A t \in Threads :
    /\ dataLock[f] = t <=> HoldsData(f, t)
    /\ vchiLock[f] = t <=> HoldsVchi(f, t)

\* Where each thread can be, for which file, and what it has there.
ThreadsInv ==
  /\ \A t \in Threads :
       /\ pc[t] \in ReleasePc => ret[t] \in {"remove", "vprocess", "idle"} /\ rel[t] \in Slots
       /\ total[t] # 0 => Stage(t) = "remove"
  /\ Stage(Trigger) \in RxStages => current # NoSlot
  /\ Stage(Trigger) \in RxStages \ {"advance"} => file[Trigger] \in Files
  /\ \A f \in Files :
       /\ Stage(Awaiter(f)) \in {"idle", "lock", "process", "remove", "vlock", "vprocess", "unlock"}
       /\ pc[Awaiter(f)] # "idle" => file[Awaiter(f)] = f /\ Stage(Awaiter(f)) # "idle"
       /\ Stage(Dequeuer(f)) \in {"idle", "vprocess"}
       /\ pc[Dequeuer(f)] # "idle" => file[Dequeuer(f)] = f /\ Stage(Dequeuer(f)) # "idle"

\* The thread is about to take the head of the list.
Taking(t) ==
  \/ pc[t] = "process"
  \/ pc[t] = "remove" /\ total[t] = 0

\* The thread has taken a message and will look at the dequeue requests.
Telling(t) ==
  \/ Stage(t) = "remove" /\ total[t] # 0
  \/ pc[t] = "vlock"

\* A message that fits beside a request.
MeetData(f) ==
  \/ Blocked(f)
  \/ requests[f] = 0
  \/ /\ requests[f] = 1
     /\ \/ pc[Awaiter(f)] = "lock"
        \/ pc[Awaiter(f)] = "process" /\ dataLock[f] = Awaiter(f)
  \/ /\ Len(data[f]) = 1
     /\ \E t \in Threads : dataLock[f] = t /\ Taking(t)

\* A delivered message beside a dequeue request.
MeetVchi(f) ==
  \/ vchi[f] = <<>>
  \/ dequeues[f] = 0
  \/ vchiLock[f] # NoThread
  \/ \E t \in Threads : dataLock[f] = t /\ Telling(t)

\* The inductive invariant.
MeetInv ==
  TypeOK /\ LocksInv /\ ThreadsInv /\ \A f \in Files : MeetData(f) /\ MeetVchi(f)

\* The next place the firmware writes is not that of the head of a list.
Spared ==
  txPos \div MsgsPerSlot < recycle /\ txPos \div MsgsPerSlot < MaxSlot =>
    \A f \in Files : data[f] # <<>> =>
      Head(data[f]).slot # SlotOf(txPos) \/ Head(data[f]).index # txPos % MsgsPerSlot

\* Within its first slot the stream has not come back to where a message is.
OneSlot ==
  /\ rxPos <= txPos /\ txPos <= MsgsPerSlot
  /\ Stage(Trigger) \in RxStages => rxPos < txPos
  /\ \A f \in Files : \A i \in 1 .. Len(data[f]) : data[f][i].index < txPos


-----------------------------------------------------------------------------
(* Threads and where they go. *)

\* The threads are different ones, and none is NoThread.
LEMMA Names ==
  ASSUME RxAssumption
  PROVE  /\ Trigger \in Threads /\ NoThread \notin Threads
         /\ \A f \in Files : /\ Awaiter(f) \in Threads /\ Dequeuer(f) \in Threads
                             /\ Awaiter(f) # Trigger /\ Dequeuer(f) # Trigger
         /\ \A f, g \in Files : /\ Awaiter(f) # Dequeuer(g)
                                /\ Awaiter(f) = Awaiter(g) => f = g
                                /\ Dequeuer(f) = Dequeuer(g) => f = g
         /\ \A t \in Threads :
              t = Trigger \/ \E f \in Files : t = Awaiter(f) \/ t = Dequeuer(f)
BY DEF Threads, Trigger, NoThread, Awaiter, Dequeuer, None

\* The other threads stay where they are.
OthersStay(t) ==
  \A u \in Threads \ {t} :
    /\ pc'[u] = pc[u] /\ ret'[u] = ret[u] /\ rel'[u] = rel[u]
    /\ Stage(u)' = Stage(u)

\* Outside of VchiqReleaseMsg and VchiqRecycleSlot.
LEMMA GotoMoves ==
  ASSUME TypeOK, NEW t \in Threads, NEW l \in Pc \ ReleasePc, Goto(t, l), ret' = ret, rel' = rel
  PROVE  /\ pc'[t] = l /\ Stage(t)' = l /\ OthersStay(t) /\ pc' \in [Threads -> Pc]
<1>1. pc \in [Threads -> Pc] /\ pc' = [pc EXCEPT ![t] = l]
  BY DEF TypeOK, Goto
<1>2. pc'[t] = l /\ \A u \in Threads \ {t} : pc'[u] = pc[u]
  BY <1>1
<1> QED
  BY <1>1, <1>2 DEF OthersStay, Stage

\* Into VchiqReleaseMsg.
LEMMA CallMoves ==
  ASSUME TypeOK, NEW t \in Threads, NEW slot \in Slots, NEW back \in {"remove", "vprocess"},
         CallRelease(t, slot, back)
  PROVE  /\ pc'[t] = "dec" /\ Stage(t)' = back /\ OthersStay(t)
         /\ rel'[t] = slot /\ ret'[t] = back
         /\ pc' \in [Threads -> Pc] /\ rel' \in [Threads -> Slots \cup {NoSlot}]
         /\ seen' = seen /\ ret' \in [Threads -> {"none", "remove", "vprocess", "idle"}]
<1>1. /\ pc \in [Threads -> Pc] /\ pc' = [pc EXCEPT ![t] = "dec"]
      /\ rel \in [Threads -> Slots \cup {NoSlot}] /\ rel' = [rel EXCEPT ![t] = slot]
      /\ ret \in [Threads -> {"none", "remove", "vprocess", "idle"}]
      /\ ret' = [ret EXCEPT ![t] = back]
      /\ seen' = seen
  BY DEF TypeOK, CallRelease, Goto
<1>2. "dec" \in Pc /\ "dec" \in ReleasePc
  BY DEF Pc, ReleasePc
<1> QED
  BY <1>1, <1>2 DEF OthersStay, Stage

\* Back from it.
LEMMA ReturnMoves ==
  ASSUME TypeOK, NEW t \in Threads, ret[t] \in {"remove", "vprocess", "idle"},
         pc[t] \in ReleasePc, Return(t)
  PROVE  /\ pc'[t] = ret[t] /\ pc'[t] \notin ReleasePc /\ Stage(t)' = Stage(t) /\ OthersStay(t)
         /\ pc' \in [Threads -> Pc] /\ rel' \in [Threads -> Slots \cup {NoSlot}]
         /\ seen' \in [Threads -> Int] /\ ret' \in [Threads -> {"none", "remove", "vprocess", "idle"}]
<1>1. /\ pc \in [Threads -> Pc] /\ pc' = [pc EXCEPT ![t] = ret[t]]
      /\ rel \in [Threads -> Slots \cup {NoSlot}] /\ rel' = [rel EXCEPT ![t] = NoSlot]
      /\ ret \in [Threads -> {"none", "remove", "vprocess", "idle"}]
      /\ ret' = [ret EXCEPT ![t] = "none"]
      /\ seen \in [Threads -> Int] /\ seen' = [seen EXCEPT ![t] = 0]
  BY DEF TypeOK, Return, Goto
<1>2. ret[t] \in Pc /\ ret[t] \notin ReleasePc
  BY DEF Pc, ReleasePc
<1>3. \A u \in Threads \ {t} : pc'[u] = pc[u] /\ ret'[u] = ret[u] /\ rel'[u] = rel[u]
  BY <1>1
<1>4. pc'[t] = ret[t] /\ pc' \in [Threads -> Pc]
  BY <1>1, <1>2
<1> QED
  BY <1>1, <1>2, <1>3, <1>4 DEF OthersStay, Stage

\* Inside of it.
LEMMA InsideMoves ==
  ASSUME TypeOK, NEW t \in Threads, NEW l \in ReleasePc, pc[t] \in ReleasePc, Goto(t, l),
         ret' = ret, rel' = rel
  PROVE  /\ pc'[t] = l /\ Stage(t)' = Stage(t) /\ OthersStay(t) /\ pc' \in [Threads -> Pc]
<1>1. pc \in [Threads -> Pc] /\ pc' = [pc EXCEPT ![t] = l] /\ l \in Pc
  BY DEF TypeOK, Goto, Pc
<1>2. pc'[t] = l /\ \A u \in Threads \ {t} : pc'[u] = pc[u]
  BY <1>1
<1> QED
  BY <1>1, <1>2 DEF OthersStay, Stage

-----------------------------------------------------------------------------
(* VchiqReleaseMsg and VchiqRecycleSlot. *)

\* What the lists, mutexes and requests are.
meetVars == <<file, total, dataLock, vchiLock, data, vchi, requests, dequeues, memory, current>>

\* Who holds a mutex depends on where the threads are.
LEMMA HoldersSame ==
  ASSUME NEW t \in Threads, OthersStay(t), Stage(t)' = Stage(t), file' = file
  PROVE  \A f \in Files : \A u \in Threads :
           /\ HoldsData(f, u)' <=> HoldsData(f, u)
           /\ HoldsVchi(f, u)' <=> HoldsVchi(f, u)
<1>1. \A u \in Threads : Stage(u)' = Stage(u)
  BY DEF OthersStay
<1> QED
  BY <1>1 DEF HoldsData, HoldsVchi

\* A step inside of a release disturbs neither mutexes nor requests.
LEMMA ReleaseKeeps ==
  ASSUME MeetInv, NEW t \in Threads, pc[t] \in ReleasePc, UNCHANGED meetVars,
         OthersStay(t), Stage(t)' = Stage(t),
         pc'[t] \in ReleasePc => ret'[t] = ret[t] /\ rel'[t] = rel[t],
         pc'[t] \in ReleasePc \/ pc'[t] = Stage(t)
  PROVE  LocksInv' /\ ThreadsInv' /\ \A f \in Files : (MeetData(f) /\ MeetVchi(f))'
<1>1. LocksInv'
  BY HoldersSame DEF MeetInv, LocksInv, meetVars
<1>2. \A u \in Threads : Stage(u)' = Stage(u)
  BY DEF OthersStay
<1>3. ThreadsInv'
  <2>1. \A u \in Threads :
          /\ pc'[u] \in ReleasePc => ret'[u] \in {"remove", "vprocess", "idle"} /\ rel'[u] \in Slots
          /\ total'[u] # 0 => Stage(u)' = "remove"
    BY <1>2 DEF MeetInv, ThreadsInv, OthersStay, meetVars
  <2>2. Trigger \in Threads /\ \A f \in Files : Awaiter(f) \in Threads /\ Dequeuer(f) \in Threads
    BY DEF Threads, Awaiter, Dequeuer
  <2>3. \A u \in Threads : pc'[u] # "idle" => pc[u] # "idle"
    BY DEF OthersStay, ReleasePc
  <2> QED
    BY <1>2, <2>1, <2>2, <2>3 DEF MeetInv, ThreadsInv, meetVars
<1>4. ASSUME NEW f \in Files PROVE (MeetData(f) /\ MeetVchi(f))'
  <2>1. MeetData(f) /\ MeetVchi(f)
    BY DEF MeetInv
  <2>2. Blocked(f)' <=> Blocked(f)
    BY DEF Blocked, At, meetVars
  <2>3. \A u \in Threads : pc[u] \notin ReleasePc => pc'[u] = pc[u]
    BY DEF OthersStay
  <2>4. \A u \in Threads : (Taking(u) => Taking(u)') /\ (Telling(u) => Telling(u)')
    BY <1>2, <2>3 DEF Taking, Telling, meetVars, ReleasePc
  <2>5. Awaiter(f) \in Threads
    BY DEF Threads, Awaiter
  <2>6. pc[Awaiter(f)] \in {"lock", "process"} => pc'[Awaiter(f)] = pc[Awaiter(f)]
    BY <2>3, <2>5 DEF ReleasePc
  <2>7. MeetData(f)'
    BY <2>1, <2>2, <2>4, <2>6 DEF MeetData, meetVars
  <2>8. MeetVchi(f)'
    BY <2>1, <2>4 DEF MeetVchi, meetVars
  <2> QED
    BY <2>7, <2>8
<1> QED
  BY <1>1, <1>3, <1>4

\* Where a release leads.
LEMMA ReleaseLeads ==
  ASSUME MeetInv, NEW t \in Threads, pc[t] \in ReleasePc
  PROVE  ret[t] \in {"remove", "vprocess", "idle"} /\ rel[t] \in Slots /\ Stage(t) = ret[t] /\ TypeOK
BY DEF MeetInv, ThreadsInv, Stage

\* VchiqReleaseMsg lowers the count.
LEMMA ReleaseMsgMeets ==
  ASSUME MeetInv, NEW t \in Threads, ReleaseMsg(t)
  PROVE  MeetInv'
<1>1. pc[t] \in ReleasePc /\ TypeOK
  BY DEF ReleaseMsg, ReleasePc, MeetInv
<1>2. Goto(t, "read") /\ "read" \in ReleasePc /\ ret' = ret /\ rel' = rel
  BY DEF ReleaseMsg, ReleasePc
<1>3. pc'[t] = "read" /\ Stage(t)' = Stage(t) /\ OthersStay(t) /\ pc' \in [Threads -> Pc]
  BY <1>1, <1>2, InsideMoves
<1>4. UNCHANGED meetVars
  BY DEF ReleaseMsg, meetVars, sharedVars, fileVars
<1>5. LocksInv' /\ ThreadsInv' /\ \A f \in Files : (MeetData(f) /\ MeetVchi(f))'
  BY <1>1, <1>2, <1>3, <1>4, ReleaseKeeps
<1>6. refCount' \in [Slots -> Int]
  BY <1>1, ReleaseLeads DEF ReleaseMsg, TypeOK
<1>7. TypeOK'
  BY <1>1, <1>3, <1>6 DEF ReleaseMsg, TypeOK, sharedVars, fileVars, clientVars
<1> QED
  BY <1>5, <1>7 DEF MeetInv

\* VchiqRecycleSlot reads the count,
LEMMA RecycleReadMeets ==
  ASSUME MeetInv, NEW t \in Threads, RecycleRead(t)
  PROVE  MeetInv'
<1>1. pc[t] \in ReleasePc /\ TypeOK
  BY DEF RecycleRead, ReleasePc, MeetInv
<1>2. Goto(t, "exchange") /\ "exchange" \in ReleasePc /\ ret' = ret /\ rel' = rel
  BY DEF RecycleRead, ReleasePc
<1>3. pc'[t] = "exchange" /\ Stage(t)' = Stage(t) /\ OthersStay(t) /\ pc' \in [Threads -> Pc]
  BY <1>1, <1>2, InsideMoves
<1>4. UNCHANGED meetVars
  BY DEF RecycleRead, meetVars, sharedVars, fileVars
<1>5. LocksInv' /\ ThreadsInv' /\ \A f \in Files : (MeetData(f) /\ MeetVchi(f))'
  BY <1>1, <1>2, <1>3, <1>4, ReleaseKeeps
<1>6. seen' \in [Threads -> Int]
  BY <1>1, ReleaseLeads DEF RecycleRead, TypeOK
<1>7. TypeOK'
  BY <1>1, <1>3, <1>6 DEF RecycleRead, TypeOK, sharedVars, slotVars, fileVars, clientVars
<1> QED
  BY <1>5, <1>7 DEF MeetInv

\* exchanges it,
LEMMA RecycleExchangeMeets ==
  ASSUME MeetInv, NEW t \in Threads, RecycleExchange(t)
  PROVE  MeetInv'
<1>1. pc[t] \in ReleasePc /\ TypeOK
  BY DEF RecycleExchange, ReleasePc, MeetInv
<1>2. Goto(t, "test") /\ "test" \in ReleasePc /\ ret' = ret /\ rel' = rel
  BY DEF RecycleExchange, ReleasePc
<1>3. pc'[t] = "test" /\ Stage(t)' = Stage(t) /\ OthersStay(t) /\ pc' \in [Threads -> Pc]
  BY <1>1, <1>2, InsideMoves
<1>4. UNCHANGED meetVars
  BY DEF RecycleExchange, meetVars, sharedVars, fileVars
<1>5. LocksInv' /\ ThreadsInv' /\ \A f \in Files : (MeetData(f) /\ MeetVchi(f))'
  BY <1>1, <1>2, <1>3, <1>4, ReleaseKeeps
<1>6. seen' \in [Threads -> Int] /\ refCount' \in [Slots -> Int]
  BY <1>1, ReleaseLeads DEF RecycleExchange, TypeOK
<1>7. TypeOK'
  BY <1>1, <1>3, <1>6 DEF RecycleExchange, TypeOK, sharedVars, fileVars, clientVars
<1> QED
  BY <1>5, <1>7 DEF MeetInv

\* decides,
LEMMA RecycleTestMeets ==
  ASSUME MeetInv, NEW t \in Threads, RecycleTest(t)
  PROVE  MeetInv'
<1>1. pc[t] \in ReleasePc /\ TypeOK
  BY DEF RecycleTest, ReleasePc, MeetInv
<1>2. UNCHANGED meetVars
  BY DEF RecycleTest, meetVars, sharedVars, fileVars
<1>3. CASE Goto(t, "push") /\ UNCHANGED <<rel, seen, ret>>
  <2>1. pc'[t] = "push" /\ Stage(t)' = Stage(t) /\ OthersStay(t) /\ pc' \in [Threads -> Pc]
        /\ "push" \in ReleasePc
    BY <1>1, <1>3, InsideMoves DEF ReleasePc
  <2>2. LocksInv' /\ ThreadsInv' /\ \A f \in Files : (MeetData(f) /\ MeetVchi(f))'
    BY <1>1, <1>2, <1>3, <2>1, ReleaseKeeps
  <2>3. TypeOK'
    BY <1>1, <1>3, <2>1 DEF RecycleTest, TypeOK, sharedVars, slotVars, fileVars, clientVars
  <2> QED
    BY <2>2, <2>3 DEF MeetInv
<1>4. CASE Return(t)
  <2>1. /\ pc'[t] = ret[t] /\ Stage(t)' = Stage(t) /\ OthersStay(t)
        /\ pc' \in [Threads -> Pc] /\ rel' \in [Threads -> Slots \cup {NoSlot}]
        /\ seen' \in [Threads -> Int] /\ ret' \in [Threads -> {"none", "remove", "vprocess", "idle"}]
        /\ pc'[t] \notin ReleasePc /\ Stage(t) = ret[t]
    BY <1>1, <1>4, ReturnMoves, ReleaseLeads
  <2>2. LocksInv' /\ ThreadsInv' /\ \A f \in Files : (MeetData(f) /\ MeetVchi(f))'
    BY <1>1, <1>2, <2>1, ReleaseKeeps
  <2>3. TypeOK'
    BY <1>1, <2>1 DEF RecycleTest, TypeOK, sharedVars, slotVars, fileVars, clientVars
  <2> QED
    BY <2>2, <2>3 DEF MeetInv
<1> QED
  BY <1>3, <1>4 DEF RecycleTest

\* and returns the slot.
LEMMA RecyclePushMeets ==
  ASSUME MeetInv, RxAssumption, NEW t \in Threads, RecyclePush(t)
  PROVE  MeetInv'
<1>1. pc[t] \in ReleasePc /\ TypeOK
  BY DEF RecyclePush, ReleasePc, MeetInv
<1>2. UNCHANGED meetVars
  BY DEF RecyclePush, meetVars, fileVars
<1>3. /\ pc'[t] = ret[t] /\ Stage(t)' = Stage(t) /\ OthersStay(t)
      /\ pc' \in [Threads -> Pc] /\ rel' \in [Threads -> Slots \cup {NoSlot}]
      /\ seen' \in [Threads -> Int] /\ ret' \in [Threads -> {"none", "remove", "vprocess", "idle"}]
      /\ pc'[t] \notin ReleasePc /\ Stage(t) = ret[t] /\ rel[t] \in Slots
  BY <1>1, ReturnMoves, ReleaseLeads DEF RecyclePush
<1>4. LocksInv' /\ ThreadsInv' /\ \A f \in Files : (MeetData(f) /\ MeetVchi(f))'
  BY <1>1, <1>2, <1>3, ReleaseKeeps
<1>5. slotQueue' \in [0..(RingSize - 1) -> Slots \cup {NoSlot}] /\ recycle' \in Nat
  <2> DEFINE i == recycle % RingSize
  <2>1. slotQueue' = [slotQueue EXCEPT ![i] = rel[t]] /\ recycle' = recycle + 1
    BY DEF RecyclePush
  <2>2. slotQueue \in [0..(RingSize - 1) -> Slots \cup {NoSlot}] /\ recycle \in Nat
    BY <1>1 DEF TypeOK
  <2> HIDE DEF i
  <2>3. slotQueue' \in [0..(RingSize - 1) -> Slots \cup {NoSlot}]
    BY <1>3, <2>1, <2>2
  <2> QED
    BY <2>1, <2>2, <2>3
<1>6. TypeOK'
  BY <1>1, <1>3, <1>5 DEF RecyclePush, TypeOK, slotVars, fileVars, clientVars
<1> QED
  BY <1>4, <1>6 DEF MeetInv

-----------------------------------------------------------------------------
(* The trigger thread. *)

\* The parts of the invariant that concern threads not at work for a file.
LEMMA Numbers ==
  ASSUME RxAssumption, TypeOK
  PROVE  /\ MsgsPerSlot \in Nat \ {0} /\ RingSize \in Nat \ {0} /\ NoSlot \notin Slots
         /\ rxPos \in Nat /\ txPos \in Nat
         /\ \A p \in Nat : p % MsgsPerSlot \in Indexes /\ SlotOf(p) \in Slots \cup {NoSlot}
<1>1. MsgsPerSlot \in Nat \ {0} /\ RingSize \in Nat \ {0} /\ NoSlot \notin Slots
  BY DEF RxAssumption, NumSlots, Slots, NoSlot
<1>2. ASSUME NEW p \in Nat PROVE p % MsgsPerSlot \in Indexes /\ SlotOf(p) \in Slots \cup {NoSlot}
  <2>1. p % MsgsPerSlot \in Indexes /\ p \div MsgsPerSlot \in Nat
    BY <1>1, Z3 DEF Indexes
  <2>2. (p \div MsgsPerSlot) % RingSize \in 0..(RingSize - 1)
    BY <1>1, <2>1
  <2> QED
    BY <2>1, <2>2 DEF SlotOf, TypeOK
<1> QED
  BY <1>1, <1>2 DEF TypeOK

\* A step in which no thread moves.
LEMMA QuietMeets ==
  ASSUME MeetInv, RxAssumption,
         UNCHANGED <<file, total, dataLock, vchiLock, data, vchi, requests, dequeues, pc, ret, rel>>,
         \A f \in Files : Blocked(f) => Blocked(f)',
         Stage(Trigger) \in RxStages => current' # NoSlot
  PROVE  LocksInv' /\ ThreadsInv' /\ \A f \in Files : (MeetData(f) /\ MeetVchi(f))'
<1>1. \A t \in Threads : Stage(t)' = Stage(t) /\ (Taking(t) <=> Taking(t)') /\ (Telling(t) <=> Telling(t)')
  BY DEF Stage, Taking, Telling
<1>2. LocksInv'
  BY <1>1 DEF MeetInv, LocksInv, HoldsData, HoldsVchi
<1>3. ThreadsInv'
  <2>1. Trigger \in Threads /\ \A f \in Files : Awaiter(f) \in Threads /\ Dequeuer(f) \in Threads
    BY Names
  <2> QED
    BY <1>1, <2>1 DEF MeetInv, ThreadsInv
<1>4. \A f \in Files : (MeetData(f) /\ MeetVchi(f))'
  BY <1>1 DEF MeetInv, MeetData, MeetVchi
<1> QED
  BY <1>2, <1>3, <1>4

\* The trigger thread takes the next slot,
LEMMA TakeSlotMeets ==
  ASSUME MeetInv, RxAssumption, TriggerTakeSlot
  PROVE  MeetInv'
<1>1. TypeOK /\ Stage(Trigger) = "idle" /\ "idle" \notin RxStages
  BY DEF TriggerTakeSlot, Stage, ReleasePc, MeetInv, RxStages, DataStages
<1>2. LocksInv' /\ ThreadsInv' /\ \A f \in Files : (MeetData(f) /\ MeetVchi(f))'
  <2>1. \A f \in Files : Blocked(f) => Blocked(f)'
    BY DEF TriggerTakeSlot, Blocked, At, sharedVars, fileVars
  <2> QED
    BY <1>1, <2>1, QuietMeets DEF TriggerTakeSlot, fileVars, localVars
<1>3. current' \in Slots \cup {NoSlot}
  BY <1>1, Numbers DEF TriggerTakeSlot
<1>4. TypeOK'
  BY <1>1, <1>3 DEF TriggerTakeSlot, TypeOK, sharedVars, fileVars, localVars, clientVars
<1> QED
  BY <1>2, <1>4 DEF MeetInv

\* The head of a list is not written over.
LEMMA WriteMeets ==
  ASSUME MeetInv, RxAssumption, Spared, NEW f0 \in Files \cup {None}, NEW k \in AllKinds, FwWrite(f0, k)
  PROVE  MeetInv'
<1>1. TypeOK
  BY DEF MeetInv
<1> DEFINE i == txPos % MsgsPerSlot
           m == [pos |-> txPos, file |-> f0, kind |-> k]
<1>2. /\ i \in Indexes /\ SlotOf(txPos) \in Slots \cup {NoSlot} /\ m \in Messages /\ txPos \in Nat
      /\ NoSlot \notin Slots
  BY <1>1, Numbers DEF Messages
<1>3. memory' = [memory EXCEPT ![SlotOf(txPos)][i] = m]
  BY DEF FwWrite
<1> HIDE DEF i, m
<1>4. memory \in [Slots -> [Indexes -> Messages]]
  BY <1>1 DEF TypeOK
<1>5. /\ memory' \in [Slots -> [Indexes -> Messages]]
      /\ \A e \in Entries : e.slot # SlotOf(txPos) \/ e.index # i => At(e)' = At(e)
  <2>1. CASE SlotOf(txPos) \in Slots
    <3>1. memory' \in [Slots -> [Indexes -> Messages]]
      BY <1>2, <1>3, <1>4, <2>1
    <3>2. ASSUME NEW e \in Entries, e.slot # SlotOf(txPos) \/ e.index # i PROVE At(e)' = At(e)
      <4>1. e.slot \in Slots /\ e.index \in Indexes
        BY DEF Entries
      <4> QED
        BY <1>2, <1>3, <1>4, <2>1, <3>2, <4>1 DEF At
    <3> QED
      BY <3>1, <3>2
  <2>2. CASE SlotOf(txPos) \notin Slots
    <3>1. memory' = memory
      BY <1>2, <1>3, <1>4, <2>2
    <3> QED
      BY <1>4, <3>1 DEF At
  <2> QED
    BY <2>1, <2>2
<1>6. ASSUME NEW f \in Files, Blocked(f) PROVE Blocked(f)'
  <2>1. data' = data /\ data[f] \in Seq(Entries)
    BY <1>1 DEF FwWrite, fileVars, TypeOK
  <2>2. CASE data[f] = <<>>
    BY <2>1, <2>2 DEF Blocked
  <2>3. CASE data[f] # <<>>
    <3>1. Head(data[f]) \in Entries
      BY <2>1, <2>3
    <3>2. Head(data[f]).slot # SlotOf(txPos) \/ Head(data[f]).index # i
      BY <2>3 DEF Spared, FwWrite, i
    <3>3. At(Head(data[f]))' = At(Head(data[f]))
      BY <1>5, <2>1, <3>1, <3>2 DEF At
    <3> QED
      BY <1>6, <2>1, <2>3, <3>3 DEF Blocked, At
  <2> QED
    BY <2>2, <2>3
<1>7. LocksInv' /\ ThreadsInv' /\ \A f \in Files : (MeetData(f) /\ MeetVchi(f))'
  <2>1. current' = current /\ (Stage(Trigger) \in RxStages => current # NoSlot)
    BY DEF FwWrite, MeetInv, ThreadsInv
  <2> QED
    BY <1>6, <2>1, QuietMeets DEF FwWrite, fileVars, localVars
<1>8. posted' \in [Files -> Seq(Nat)] /\ txPos' \in Nat
  <2>0. txPos' = txPos + 1
    BY DEF FwWrite
  <2>1. txPos' \in Nat /\ posted \in [Files -> Seq(Nat)]
    BY <1>1, <1>2, <2>0 DEF TypeOK
  <2>2. \A f \in Files : Append(posted[f], txPos) \in Seq(Nat)
    BY <1>2, <2>1
  <2> QED
    BY <2>1, <2>2 DEF FwWrite
<1>9. TypeOK'
  BY <1>1, <1>5, <1>8 DEF FwWrite, TypeOK, slotVars, fileVars, localVars
<1> QED
  BY <1>7, <1>9 DEF MeetInv

\* Where the trigger thread comes from.
LEMMA TriggerIs ==
  ASSUME MeetInv, RxAssumption
  PROVE  /\ Trigger \in Threads /\ TypeOK
         /\ pc[Trigger] \notin ReleasePc => Stage(Trigger) = pc[Trigger]
         /\ pc[Trigger] \in {"lock", "add", "advance"} => current \in Slots
         /\ pc[Trigger] \in {"lock", "add"} => file[Trigger] \in Files
<1>1. Trigger \in Threads /\ TypeOK /\ ThreadsInv /\ current \in Slots \cup {NoSlot}
  BY Names DEF MeetInv, TypeOK
<1>2. pc[Trigger] \notin ReleasePc => Stage(Trigger) = pc[Trigger]
  BY DEF Stage
<1> QED
  BY <1>1, <1>2 DEF ThreadsInv, RxStages, DataStages, ReleasePc

\* The trigger thread moves outside of a critical section.
LEMMA TriggerOutside ==
  ASSUME MeetInv, RxAssumption, OthersStay(Trigger),
         Stage(Trigger) \in {"idle", "lock", "advance"}, Stage(Trigger)' \in {"idle", "lock", "advance"},
         pc[Trigger] \notin ReleasePc,
         UNCHANGED <<total, dataLock, vchiLock, data, vchi, requests, dequeues, memory>>,
         \A t \in Threads \ {Trigger} : file'[t] = file[t],
         pc'[Trigger] \in ReleasePc =>
           ret'[Trigger] \in {"remove", "vprocess", "idle"} /\ rel'[Trigger] \in Slots,
         Stage(Trigger)' # "idle" => current' # NoSlot,
         Stage(Trigger)' = "lock" => file'[Trigger] \in Files
  PROVE  LocksInv' /\ ThreadsInv' /\ \A f \in Files : (MeetData(f) /\ MeetVchi(f))'
<1>1. TypeOK /\ LocksInv /\ ThreadsInv /\ Trigger \in Threads
  BY TriggerIs DEF MeetInv
<1>2. \A t \in Threads \ {Trigger} : Stage(t)' = Stage(t) /\ pc'[t] = pc[t]
  BY DEF OthersStay
<1>3. \A f \in Files : \A t \in Threads :
        (HoldsData(f, t)' <=> HoldsData(f, t)) /\ (HoldsVchi(f, t)' <=> HoldsVchi(f, t))
  BY <1>1, <1>2 DEF HoldsData, HoldsVchi, DataStages
<1>4. LocksInv'
  BY <1>1, <1>3 DEF LocksInv
<1>5. ThreadsInv'
  <2>1. \A t \in Threads :
          /\ pc'[t] \in ReleasePc => ret'[t] \in {"remove", "vprocess", "idle"} /\ rel'[t] \in Slots
          /\ total'[t] # 0 => Stage(t)' = "remove"
    BY <1>1 DEF ThreadsInv, OthersStay
  <2>2. \A f \in Files : /\ Awaiter(f) \in Threads \ {Trigger} /\ Dequeuer(f) \in Threads \ {Trigger}
    BY Names
  <2>3. /\ Stage(Trigger)' \in RxStages => current' # NoSlot
        /\ Stage(Trigger)' \in RxStages \ {"advance"} => file'[Trigger] \in Files
    BY DEF RxStages, DataStages
  <2> QED
    BY <1>1, <1>2, <2>1, <2>2, <2>3 DEF ThreadsInv
<1>6. ASSUME NEW f \in Files PROVE (MeetData(f) /\ MeetVchi(f))'
  <2>1. MeetData(f) /\ MeetVchi(f)
    BY DEF MeetInv
  <2>2. Blocked(f)' <=> Blocked(f)
    BY DEF Blocked, At
  <2>3. \A t \in Threads \ {Trigger} : (Taking(t) => Taking(t)') /\ (Telling(t) => Telling(t)')
    BY <1>2 DEF Taking, Telling
  <2>4. ~Taking(Trigger) /\ ~Telling(Trigger)
    BY DEF Taking, Telling, Stage
  <2>5. pc'[Awaiter(f)] = pc[Awaiter(f)]
    BY <1>2, Names
  <2>6. MeetData(f)'
    BY <2>1, <2>2, <2>3, <2>4, <2>5 DEF MeetData
  <2>7. MeetVchi(f)'
    BY <2>1, <2>3, <2>4 DEF MeetVchi
  <2> QED
    BY <2>6, <2>7
<1> QED
  BY <1>4, <1>5, <1>6

\* finds out what the message is for,
LEMMA ParseMeets ==
  ASSUME MeetInv, RxAssumption, TriggerParse
  PROVE  MeetInv'
<1>1. Trigger \in Threads /\ TypeOK /\ Stage(Trigger) = "idle" /\ pc[Trigger] \notin ReleasePc
  BY TriggerIs DEF TriggerParse, ReleasePc
<1>2. /\ UNCHANGED <<total, dataLock, vchiLock, data, vchi, requests, dequeues, memory>>
      /\ UNCHANGED <<rel, ret>> /\ current' # NoSlot
  BY DEF TriggerParse, sharedVars, fileVars
<1>3. RxHeader \in Entries /\ At(RxHeader) \in Messages
  <2>1. current \in Slots /\ rxPos % MsgsPerSlot \in Indexes
    BY <1>1, Numbers DEF TriggerParse, TypeOK
  <2>2. memory \in [Slots -> [Indexes -> Messages]]
    BY <1>1 DEF TypeOK
  <2> QED
    BY <2>1, <2>2 DEF RxHeader, Entries, At
<1>4. At(RxHeader).file \in Files \cup {None}
  BY <1>3 DEF Messages
<1>5. file \in [Threads -> Files \cup {None}]
  BY <1>1 DEF TypeOK
<1>6. file' \in [Threads -> Files \cup {None}]
      /\ \A t \in Threads \ {Trigger} : file'[t] = file[t]
  BY <1>4, <1>5 DEF TriggerParse
<1>7. PICK l \in {"lock", "advance"} :
        Goto(Trigger, l) /\ (l = "lock" => file'[Trigger] \in Files)
  BY <1>1, <1>4, <1>5 DEF TriggerParse
<1>8. l \in Pc \ ReleasePc
  BY DEF Pc, ReleasePc
<1>9. pc'[Trigger] = l /\ Stage(Trigger)' = l /\ OthersStay(Trigger) /\ pc' \in [Threads -> Pc]
  BY <1>1, <1>2, <1>7, <1>8, GotoMoves
<1>10. LocksInv' /\ ThreadsInv' /\ \A f \in Files : (MeetData(f) /\ MeetVchi(f))'
  BY <1>1, <1>2, <1>6, <1>7, <1>8, <1>9, TriggerOutside
<1>11. TypeOK'
  BY <1>1, <1>6, <1>9 DEF TriggerParse, TypeOK, sharedVars, slotVars, fileVars, clientVars
<1> QED
  BY <1>10, <1>11 DEF MeetInv

\* and goes on to the next.
LEMMA AdvanceMeets ==
  ASSUME MeetInv, RxAssumption, TriggerAdvance
  PROVE  MeetInv'
<1>1. Trigger \in Threads /\ TypeOK /\ Stage(Trigger) = "advance" /\ pc[Trigger] \notin ReleasePc
      /\ current \in Slots
  BY TriggerIs DEF TriggerAdvance, ReleasePc
<1>2. UNCHANGED <<total, dataLock, vchiLock, data, vchi, requests, dequeues, memory>>
  BY DEF TriggerAdvance, sharedVars, fileVars
<1>3. file' \in [Threads -> Files \cup {None}] /\ rxPos' \in Nat
      /\ \A t \in Threads \ {Trigger} : file'[t] = file[t]
  <2>1. file \in [Threads -> Files \cup {None}] /\ rxPos \in Nat
    BY <1>1 DEF TypeOK
  <2>2. file' = [file EXCEPT ![Trigger] = None] /\ rxPos' = rxPos + 1
    BY DEF TriggerAdvance
  <2> QED
    BY <1>1, <2>1, <2>2
<1>4. CASE Goto(Trigger, "idle") /\ UNCHANGED <<current, inUse, rel, ret>>
  <2>1. pc'[Trigger] = "idle" /\ Stage(Trigger)' = "idle" /\ OthersStay(Trigger)
        /\ pc' \in [Threads -> Pc] /\ "idle" \notin ReleasePc
    BY <1>1, <1>4, GotoMoves DEF Pc, ReleasePc
  <2>2. LocksInv' /\ ThreadsInv' /\ \A f \in Files : (MeetData(f) /\ MeetVchi(f))'
    BY <1>1, <1>2, <1>3, <2>1, TriggerOutside
  <2>3. TypeOK'
    BY <1>1, <1>3, <1>4, <2>1 DEF TriggerAdvance, TypeOK, sharedVars, fileVars, clientVars
  <2> QED
    BY <2>2, <2>3 DEF MeetInv
<1>5. CASE /\ inUse' = [inUse EXCEPT ![current] = FALSE]
           /\ rel' = [rel EXCEPT ![Trigger] = current]
           /\ current' = NoSlot
           /\ ret' = [ret EXCEPT ![Trigger] = "idle"]
           /\ Goto(Trigger, "read")
  <2>1. /\ pc \in [Threads -> Pc] /\ rel \in [Threads -> Slots \cup {NoSlot}]
        /\ ret \in [Threads -> {"none", "remove", "vprocess", "idle"}]
        /\ inUse \in [Slots -> BOOLEAN]
    BY <1>1 DEF TypeOK
  <2>2. /\ pc' \in [Threads -> Pc] /\ rel' \in [Threads -> Slots \cup {NoSlot}]
        /\ ret' \in [Threads -> {"none", "remove", "vprocess", "idle"}]
        /\ inUse' \in [Slots -> BOOLEAN] /\ current' \in Slots \cup {NoSlot}
    BY <1>1, <1>5, <2>1 DEF Goto, Pc, ReleasePc
  <2>3. /\ pc'[Trigger] = "read" /\ ret'[Trigger] = "idle" /\ rel'[Trigger] \in Slots
        /\ \A u \in Threads \ {Trigger} : pc'[u] = pc[u] /\ ret'[u] = ret[u] /\ rel'[u] = rel[u]
    BY <1>1, <1>5, <2>1 DEF Goto
  <2>4. Stage(Trigger)' = "idle" /\ OthersStay(Trigger)
    BY <2>3 DEF Stage, OthersStay, ReleasePc
  <2>5. LocksInv' /\ ThreadsInv' /\ \A f \in Files : (MeetData(f) /\ MeetVchi(f))'
    BY <1>1, <1>2, <1>3, <2>3, <2>4, TriggerOutside
  <2>6. TypeOK'
    BY <1>1, <1>3, <2>2 DEF TriggerAdvance, TypeOK, sharedVars, fileVars, clientVars
  <2> QED
    BY <2>5, <2>6 DEF MeetInv
<1> QED
  BY <1>4, <1>5 DEF TriggerAdvance

-----------------------------------------------------------------------------
(* Critical sections. *)

AwaitStages == {"idle", "lock", "process", "remove", "vlock", "vprocess", "unlock"}

\* A mutex stays with its holder, is taken while it is free, or is released.
LEMMA LocksKept ==
  ASSUME RxAssumption, LocksInv, NEW t \in Threads, NEW f \in Files, OthersStay(t),
         \A u \in Threads \ {t} : file'[u] = file[u],
         Stage(t) \in DataStages => file[t] = f, file'[t] \in {f, None},
         \A g \in Files \ {f} : dataLock'[g] = dataLock[g] /\ vchiLock'[g] = vchiLock[g],
         \/ dataLock'[f] = dataLock[f] /\ (HoldsData(f, t)' <=> HoldsData(f, t))
         \/ dataLock[f] = NoThread /\ dataLock'[f] = t /\ HoldsData(f, t)'
         \/ dataLock[f] = t /\ dataLock'[f] = NoThread /\ ~HoldsData(f, t)',
         \/ vchiLock'[f] = vchiLock[f] /\ (HoldsVchi(f, t)' <=> HoldsVchi(f, t))
         \/ vchiLock[f] = NoThread /\ vchiLock'[f] = t /\ HoldsVchi(f, t)'
         \/ vchiLock[f] = t /\ vchiLock'[f] = NoThread /\ ~HoldsVchi(f, t)'
  PROVE  LocksInv'
<1>1. None \notin Files /\ NoThread \notin Threads
  BY Names DEF RxAssumption
<1>2. \A g \in Files : \A u \in Threads \ {t} :
        (HoldsData(g, u)' <=> HoldsData(g, u)) /\ (HoldsVchi(g, u)' <=> HoldsVchi(g, u))
  BY DEF HoldsData, HoldsVchi, OthersStay
<1>3. \A g \in Files \ {f} :
        ~HoldsData(g, t)' /\ ~HoldsData(g, t) /\ ~HoldsVchi(g, t)' /\ ~HoldsVchi(g, t)
  BY <1>1 DEF HoldsData, HoldsVchi, DataStages
<1>4. \A g \in Files \ {f} : \A u \in Threads :
        (dataLock[g] = u <=> HoldsData(g, u))' /\ (vchiLock[g] = u <=> HoldsVchi(g, u))'
  BY <1>2, <1>3 DEF LocksInv
<1>5. ASSUME NEW u \in Threads PROVE (dataLock[f] = u <=> HoldsData(f, u))'
  <2>1. CASE u = t
    BY <1>1, <2>1 DEF LocksInv
  <2>2. CASE u # t
    BY <1>1, <1>2, <2>2 DEF LocksInv
  <2> QED
    BY <2>1, <2>2
<1>6. ASSUME NEW u \in Threads PROVE (vchiLock[f] = u <=> HoldsVchi(f, u))'
  <2>1. CASE u = t
    BY <1>1, <2>1 DEF LocksInv
  <2>2. CASE u # t
    BY <1>1, <1>2, <2>2 DEF LocksInv
  <2> QED
    BY <2>1, <2>2
<1> QED
  BY <1>4, <1>5, <1>6 DEF LocksInv

\* A thread goes on within its code.
LEMMA ThreadsKept ==
  ASSUME RxAssumption, ThreadsInv, NEW t \in Threads, OthersStay(t), current' = current,
         \A u \in Threads \ {t} : file'[u] = file[u] /\ total'[u] = total[u],
         pc'[t] \in ReleasePc => ret'[t] \in {"remove", "vprocess", "idle"} /\ rel'[t] \in Slots,
         total'[t] # 0 => Stage(t)' = "remove",
         t = Trigger => Stage(t) \in RxStages /\ (Stage(t)' = "advance" \/ file'[t] \in Files),
         \A f \in Files : t = Awaiter(f) =>
           /\ Stage(t)' \in AwaitStages
           /\ pc'[t] # "idle" => file'[t] = f /\ Stage(t)' # "idle",
         \A f \in Files : t = Dequeuer(f) =>
           /\ Stage(t)' \in {"idle", "vprocess"}
           /\ pc'[t] # "idle" => file'[t] = f /\ Stage(t)' # "idle"
  PROVE  ThreadsInv'
<1>1. \A u \in Threads :
        /\ pc'[u] \in ReleasePc => ret'[u] \in {"remove", "vprocess", "idle"} /\ rel'[u] \in Slots
        /\ total'[u] # 0 => Stage(u)' = "remove"
  BY DEF ThreadsInv, OthersStay
<1>2. /\ Stage(Trigger)' \in RxStages => current' # NoSlot
      /\ Stage(Trigger)' \in RxStages \ {"advance"} => file'[Trigger] \in Files
  <2>1. CASE t = Trigger
    BY <2>1 DEF ThreadsInv
  <2>2. CASE t # Trigger
    BY <2>2, Names DEF ThreadsInv, OthersStay
  <2> QED
    BY <2>1, <2>2
<1>3. ASSUME NEW f \in Files
      PROVE  /\ Stage(Awaiter(f))' \in AwaitStages
             /\ pc'[Awaiter(f)] # "idle" => file'[Awaiter(f)] = f /\ Stage(Awaiter(f))' # "idle"
  <2>1. CASE t = Awaiter(f)
    BY <2>1
  <2>2. CASE t # Awaiter(f)
    BY <2>2, Names DEF ThreadsInv, OthersStay, AwaitStages
  <2> QED
    BY <2>1, <2>2
<1>4. ASSUME NEW f \in Files
      PROVE  /\ Stage(Dequeuer(f))' \in {"idle", "vprocess"}
             /\ pc'[Dequeuer(f)] # "idle" => file'[Dequeuer(f)] = f /\ Stage(Dequeuer(f))' # "idle"
  <2>1. CASE t = Dequeuer(f)
    BY <2>1
  <2>2. CASE t # Dequeuer(f)
    BY <2>2, Names DEF ThreadsInv, OthersStay
  <2> QED
    BY <2>1, <2>2
<1> QED
  BY <1>1, <1>2, <1>3, <1>4 DEF ThreadsInv, AwaitStages

\* A thread at work for a file, and what it holds.
LEMMA WorkerIs ==
  ASSUME MeetInv, RxAssumption, NEW t \in Threads, pc[t] \in RxStages \ {"advance"}
  PROVE  /\ TypeOK /\ LocksInv /\ ThreadsInv
         /\ file[t] \in Files /\ Stage(t) = pc[t] /\ pc[t] \notin ReleasePc
         /\ pc[t] \in DataStages \ {"vprocess"} =>
              dataLock[file[t]] = t /\ \A f \in Files : t # Dequeuer(f)
         /\ pc[t] = "lock" => \A f \in Files : t # Dequeuer(f)
         /\ pc[t] = "vprocess" => vchiLock[file[t]] = t
         /\ pc[t] = "vprocess" /\ t # Dequeuer(file[t]) => dataLock[file[t]] = t
         /\ \A f \in Files : t = Awaiter(f) \/ t = Dequeuer(f) => file[t] = f
         /\ t = Trigger => current # NoSlot
         /\ pc[t] # "remove" => total[t] = 0
<1>1. TypeOK /\ LocksInv /\ ThreadsInv
  BY DEF MeetInv
<1>2. Stage(t) = pc[t] /\ pc[t] \notin ReleasePc /\ pc[t] # "idle"
  BY DEF Stage, RxStages, DataStages, ReleasePc
<1>3. \A f \in Files : t = Awaiter(f) \/ t = Dequeuer(f) => file[t] = f
  BY <1>1, <1>2 DEF ThreadsInv
<1>4. file[t] \in Files
  BY <1>1, <1>2, <1>3, Names DEF ThreadsInv
<1>5. pc[t] # "vprocess" => \A f \in Files : t # Dequeuer(f)
  BY <1>1, <1>2 DEF ThreadsInv
<1>6. pc[t] \in DataStages \ {"vprocess"} => dataLock[file[t]] = t
  BY <1>1, <1>2, <1>4, <1>5 DEF LocksInv, HoldsData
<1>7. pc[t] = "vprocess" => vchiLock[file[t]] = t
  BY <1>1, <1>2, <1>4 DEF LocksInv, HoldsVchi
<1>8. pc[t] = "vprocess" /\ t # Dequeuer(file[t]) => dataLock[file[t]] = t
  BY <1>1, <1>2, <1>4 DEF LocksInv, HoldsData, DataStages
<1>9. (t = Trigger => current # NoSlot) /\ (pc[t] # "remove" => total[t] = 0)
  BY <1>1, <1>2 DEF ThreadsInv
<1> QED
  BY <1>1, <1>2, <1>3, <1>4, <1>5, <1>6, <1>7, <1>8, <1>9 DEF RxStages, DataStages

-----------------------------------------------------------------------------
(* Messages and requests of a file. *)

\* What a thread does for one file leaves the others alone.
LEMMA OtherFiles ==
  ASSUME NEW t \in Threads, NEW f \in Files, OthersStay(t), memory' = memory,
         \A u \in Threads \ {t} : total'[u] = total[u],
         \A g \in Files \ {f} :
           /\ data'[g] = data[g] /\ vchi'[g] = vchi[g]
           /\ requests'[g] = requests[g] /\ dequeues'[g] = dequeues[g]
           /\ dataLock'[g] = dataLock[g] /\ vchiLock'[g] = vchiLock[g]
           /\ dataLock[g] # t /\ Awaiter(g) # t,
         \A g \in Files : MeetData(g) /\ MeetVchi(g),
         MeetData(f)', MeetVchi(f)'
  PROVE  \A g \in Files : (MeetData(g) /\ MeetVchi(g))'
<1> SUFFICES ASSUME NEW g \in Files \ {f} PROVE (MeetData(g) /\ MeetVchi(g))'
  OBVIOUS
<1>1. \A u \in Threads \ {t} : (Taking(u) => Taking(u)') /\ (Telling(u) => Telling(u)')
  BY DEF Taking, Telling, OthersStay
<1>2. Blocked(g)' <=> Blocked(g)
  BY DEF Blocked, At
<1>3. pc'[Awaiter(g)] = pc[Awaiter(g)]
  BY DEF OthersStay, Threads
<1>4. MeetData(g)'
  BY <1>1, <1>2, <1>3 DEF MeetData
<1>5. MeetVchi(g)'
  BY <1>1 DEF MeetVchi
<1> QED
  BY <1>4, <1>5

\* A thread that is neither about to take a message nor on its way with a request.
LEMMA DataSame ==
  ASSUME NEW t \in Threads, NEW f \in Files, OthersStay(t), memory' = memory,
         \A u \in Threads \ {t} : total'[u] = total[u],
         data'[f] = data[f], requests'[f] = requests[f],
         dataLock'[f] = dataLock[f] \/ dataLock[f] = t,
         pc[t] \notin {"lock", "process"}, ~Taking(t), MeetData(f)
  PROVE  MeetData(f)'
<1>1. \A u \in Threads \ {t} : Taking(u) => Taking(u)'
  BY DEF Taking, OthersStay
<1>2. Blocked(f)' <=> Blocked(f)
  BY DEF Blocked, At
<1>3. pc[Awaiter(f)] \in {"lock", "process"} => pc'[Awaiter(f)] = pc[Awaiter(f)] /\ Awaiter(f) # t
  BY DEF OthersStay, Threads
<1> QED
  BY <1>1, <1>2, <1>3 DEF MeetData

\* A thread that has no message to tell of.
LEMMA VchiSame ==
  ASSUME NEW t \in Threads, NEW f \in Files, OthersStay(t),
         \A u \in Threads \ {t} : total'[u] = total[u],
         vchi'[f] = vchi[f], dequeues'[f] = dequeues[f], vchiLock'[f] = vchiLock[f],
         dataLock'[f] = dataLock[f] \/ dataLock[f] \in {t, NoThread},
         RxAssumption, ~Telling(t) \/ (Telling(t)' /\ dataLock'[f] = dataLock[f]), MeetVchi(f)
  PROVE  MeetVchi(f)'
<1>1. \A u \in Threads \ {t} : Telling(u) => Telling(u)'
  BY DEF Telling, OthersStay
<1>2. NoThread \notin Threads
  BY Names
<1> QED
  BY <1>1, <1>2 DEF MeetVchi

\* A file a thread works for is the only one whose mutex it holds.
LEMMA OneFile ==
  ASSUME MeetInv, RxAssumption, NEW t \in Threads, pc[t] \in RxStages \ {"advance"}
  PROVE  \A g \in Files \ {file[t]} : dataLock[g] # t /\ Awaiter(g) # t
BY WorkerIs DEF LocksInv, HoldsData

\* The mutex of the first list: what a new request waits for it brings along.
LEMMA DataLockMeets ==
  ASSUME MeetInv, RxAssumption, NEW t \in Threads, DataLock(t)
  PROVE  MeetInv'
<1>0. pc[t] = "lock" /\ pc[t] \in RxStages \ {"advance"}
  BY DEF DataLock, RxStages
<1>1. /\ TypeOK /\ LocksInv /\ ThreadsInv /\ file[t] \in Files /\ Stage(t) = "lock"
      /\ \A g \in Files : t # Dequeuer(g)
      /\ \A g \in Files : t = Awaiter(g) => file[t] = g
      /\ t = Trigger => current # NoSlot
      /\ total[t] = 0
  BY <1>0, WorkerIs
<1>2. PICK f \in Files : f = file[t]
  BY <1>1
<1>3. /\ dataLock[f] = NoThread
      /\ dataLock' = [dataLock EXCEPT ![f] = t]
      /\ UNCHANGED <<current, memory, data, vchi, vchiLock, requests, dequeues, file, rel, ret, total>>
  BY <1>2 DEF DataLock, sharedVars
<1>4. PICK l \in {"add", "process"} : Goto(t, l) /\ (l = "add" <=> t = Trigger)
  BY DEF DataLock
<1>5. l \in Pc \ ReleasePc
  BY DEF Pc, ReleasePc
<1>6. pc'[t] = l /\ Stage(t)' = l /\ OthersStay(t) /\ pc' \in [Threads -> Pc]
  BY <1>1, <1>3, <1>4, <1>5, GotoMoves
<1>7. dataLock'[f] = t /\ \A g \in Files \ {f} : dataLock'[g] = dataLock[g]
  BY <1>1, <1>3 DEF TypeOK
<1>8. LocksInv'
  <2>1. HoldsData(f, t)' /\ (HoldsVchi(f, t)' <=> HoldsVchi(f, t))
    BY <1>1, <1>2, <1>3, <1>4, <1>6 DEF HoldsData, HoldsVchi, DataStages
  <2> QED
    BY <1>1, <1>2, <1>3, <1>6, <1>7, <2>1, LocksKept
<1>9. ThreadsInv'
  BY <1>1, <1>2, <1>3, <1>4, <1>5, <1>6, Names, ThreadsKept DEF AwaitStages, RxStages, DataStages
<1>10. MeetData(f)'
  <2>1. MeetData(f) /\ NoThread \notin Threads /\ Awaiter(f) \in Threads
    BY Names DEF MeetInv
  <2>2. Blocked(f)' <=> Blocked(f)
    BY <1>3 DEF Blocked, At
  <2>3. pc[Awaiter(f)] = "lock" =>
          pc'[Awaiter(f)] = "lock" \/ (pc'[Awaiter(f)] = "process" /\ dataLock'[f] = Awaiter(f))
    <3>1. CASE t = Awaiter(f)
      BY <1>4, <1>6, <1>7, <3>1, Names
    <3>2. CASE t # Awaiter(f)
      BY <1>6, <2>1, <3>2 DEF OthersStay
    <3> QED
      BY <3>1, <3>2
  <2> QED
    BY <1>3, <2>1, <2>2, <2>3 DEF MeetData
<1>11. MeetVchi(f)'
  <2>1. MeetVchi(f) /\ ~Telling(t)
    BY <1>0, <1>1 DEF MeetInv, Telling
  <2> QED
    BY <1>3, <1>6, <2>1, VchiSame
<1>12. \A g \in Files : (MeetData(g) /\ MeetVchi(g))'
  <2>1. \A g \in Files \ {f} : dataLock[g] # t /\ Awaiter(g) # t
    BY <1>0, <1>2, OneFile
  <2> QED
    BY <1>3, <1>6, <1>7, <1>10, <1>11, <2>1, OtherFiles DEF MeetInv
<1>13. TypeOK'
  <2>1. dataLock' \in [Files -> Threads \cup {NoThread}]
    BY <1>1, <1>3 DEF TypeOK
  <2> QED
    BY <1>1, <1>6, <2>1 DEF DataLock, TypeOK, sharedVars, slotVars, clientVars
<1> QED
  BY <1>8, <1>9, <1>12, <1>13 DEF MeetInv

\* A message that finds the list empty is the one about to be taken.
LEMMA AddMeets ==
  ASSUME MeetInv, RxAssumption, AddPendingMsg
  PROVE  MeetInv'
<1> DEFINE t == Trigger
<1>0. t \in Threads /\ pc[t] = "add" /\ pc[t] \in RxStages \ {"advance"} /\ pc[t] \in DataStages \ {"vprocess"}
  BY TriggerIs DEF AddPendingMsg, RxStages, DataStages
<1>1. /\ TypeOK /\ LocksInv /\ ThreadsInv /\ file[t] \in Files /\ Stage(t) = "add"
      /\ dataLock[file[t]] = t
      /\ current \in Slots
      /\ total[t] = 0
  BY <1>0, WorkerIs, TriggerIs
<1>2. PICK f \in Files : f = file[t]
  BY <1>1
<1>3. /\ data' = [data EXCEPT ![f] = Append(@, RxHeader)]
      /\ refCount' = [refCount EXCEPT ![current] = @ + 1]
      /\ Goto(t, "process")
      /\ UNCHANGED <<current, memory, vchi, dataLock, vchiLock, requests, dequeues, file, rel, ret, total>>
  BY <1>2 DEF AddPendingMsg, sharedVars
<1>4. "process" \in Pc \ ReleasePc
  BY DEF Pc, ReleasePc
<1>5. pc'[t] = "process" /\ Stage(t)' = "process" /\ OthersStay(t) /\ pc' \in [Threads -> Pc]
  BY <1>0, <1>1, <1>3, <1>4, GotoMoves
<1>6. RxHeader \in Entries /\ data[f] \in Seq(Entries)
  <2>1. rxPos % MsgsPerSlot \in Indexes
    BY <1>1, Numbers DEF TypeOK
  <2> QED
    BY <1>1, <2>1 DEF RxHeader, Entries, TypeOK
<1>7. data'[f] = Append(data[f], RxHeader) /\ \A g \in Files \ {f} : data'[g] = data[g]
  BY <1>1, <1>3 DEF TypeOK
<1>8. LocksInv'
  <2>1. (HoldsData(f, t)' <=> HoldsData(f, t)) /\ (HoldsVchi(f, t)' <=> HoldsVchi(f, t))
    BY <1>1, <1>2, <1>3, <1>5, Names DEF HoldsData, HoldsVchi, DataStages
  <2> QED
    BY <1>0, <1>1, <1>2, <1>3, <1>5, <2>1, LocksKept
<1>9. ThreadsInv'
  BY <1>0, <1>1, <1>2, <1>3, <1>4, <1>5, Names, ThreadsKept DEF AwaitStages, RxStages, DataStages
<1>10. MeetData(f)'
  <2>1. MeetData(f) /\ Awaiter(f) \in Threads \ {t}
    BY Names DEF MeetInv
  <2>2. pc'[Awaiter(f)] = pc[Awaiter(f)] /\ ~Taking(t)
    BY <1>0, <1>5, <2>1 DEF OthersStay, Taking
  <2>3. CASE data[f] = <<>>
    <3>1. Len(data'[f]) = 1
      BY <1>6, <1>7, <2>3
    <3>2. Taking(t)' /\ dataLock'[f] = t
      BY <1>1, <1>2, <1>3, <1>5 DEF Taking
    <3> QED
      BY <1>0, <3>1, <3>2 DEF MeetData
  <2>4. CASE data[f] # <<>>
    <3>1. Head(data'[f]) = Head(data[f]) /\ data'[f] # <<>>
      BY <1>6, <1>7, <2>4
    <3>2. Blocked(f)' <=> Blocked(f)
      BY <1>3, <2>4, <3>1 DEF Blocked, At
    <3> QED
      BY <1>1, <1>2, <1>3, <2>1, <2>2, <3>2 DEF MeetData
  <2> QED
    BY <2>3, <2>4
<1>11. MeetVchi(f)'
  <2>1. MeetVchi(f) /\ ~Telling(t)
    BY <1>0, <1>1 DEF MeetInv, Telling
  <2> QED
    BY <1>0, <1>3, <1>5, <2>1, VchiSame
<1>12. \A g \in Files : (MeetData(g) /\ MeetVchi(g))'
  <2>1. \A g \in Files \ {f} : dataLock[g] # t /\ Awaiter(g) # t
    BY <1>0, <1>2, OneFile
  <2> QED
    BY <1>0, <1>3, <1>5, <1>7, <1>10, <1>11, <2>1, OtherFiles DEF MeetInv
<1>13. TypeOK'
  <2>1. data' \in [Files -> Seq(Entries)] /\ refCount' \in [Slots -> Int]
    <3>1. Append(data[f], RxHeader) \in Seq(Entries)
      BY <1>6
    <3>2. data \in [Files -> Seq(Entries)] /\ refCount \in [Slots -> Int]
      BY <1>1 DEF TypeOK
    <3> QED
      BY <1>1, <1>3, <3>1, <3>2
  <2> QED
    BY <1>1, <1>5, <2>1 DEF AddPendingMsg, TypeOK, sharedVars, clientVars
<1> QED
  BY <1>8, <1>9, <1>12, <1>13 DEF MeetInv

\* A request is taken for the head of the list, or one of the two is missing.
LEMMA ProcessMeets ==
  ASSUME MeetInv, RxAssumption, NEW t \in Threads, ProcessPendingMsg(t)
  PROVE  MeetInv'
<1>0. pc[t] = "process" /\ pc[t] \in RxStages \ {"advance"} /\ pc[t] \in DataStages \ {"vprocess"}
  BY DEF ProcessPendingMsg, RxStages, DataStages
<1>1. /\ TypeOK /\ LocksInv /\ ThreadsInv /\ file[t] \in Files /\ Stage(t) = "process"
      /\ dataLock[file[t]] = t
      /\ \A g \in Files : t # Dequeuer(g)
      /\ \A g \in Files : t = Awaiter(g) => file[t] = g
      /\ t = Trigger => current # NoSlot
      /\ total[t] = 0
  BY <1>0, WorkerIs
<1>2. PICK f \in Files : f = file[t]
  BY <1>1
<1>3. UNCHANGED <<current, memory, data, vchi, dataLock, vchiLock, dequeues, file, rel, ret, total>>
  BY DEF ProcessPendingMsg, sharedVars
<1>4. PICK l \in {"remove", "unlock"} :
        /\ Goto(t, l)
        /\ \/ l = "remove" /\ requests[f] > 0 /\ requests' = [requests EXCEPT ![f] = @ - 1]
           \/ l = "unlock" /\ (data[f] = <<>> \/ ~(requests[f] > 0)) /\ requests' = requests
  BY <1>2 DEF ProcessPendingMsg
<1>5. l \in Pc \ ReleasePc
  BY DEF Pc, ReleasePc
<1>6. pc'[t] = l /\ Stage(t)' = l /\ OthersStay(t) /\ pc' \in [Threads -> Pc]
  BY <1>1, <1>3, <1>4, <1>5, GotoMoves
<1>7. /\ requests[f] \in Nat /\ requests' \in [Files -> Nat]
      /\ \A g \in Files \ {f} : requests'[g] = requests[g]
      /\ l = "remove" => requests'[f] = requests[f] - 1
  <2>1. requests \in [Files -> Nat]
    BY <1>1 DEF TypeOK
  <2> QED
    BY <1>4, <2>1
<1>8. LocksInv'
  <2>1. (HoldsData(f, t)' <=> HoldsData(f, t)) /\ (HoldsVchi(f, t)' <=> HoldsVchi(f, t))
    BY <1>1, <1>2, <1>3, <1>4, <1>6 DEF HoldsData, HoldsVchi, DataStages
  <2> QED
    BY <1>1, <1>2, <1>3, <1>6, <2>1, LocksKept
<1>9. ThreadsInv'
  BY <1>0, <1>1, <1>2, <1>3, <1>4, <1>5, <1>6, ThreadsKept DEF AwaitStages, RxStages, DataStages
<1>10. MeetData(f)'
  <2>1. MeetData(f)
    BY DEF MeetInv
  <2>2. Blocked(f)' <=> Blocked(f)
    BY <1>3 DEF Blocked, At
  <2>3. CASE l = "remove"
    <3>1. Taking(t)' /\ dataLock'[f] = t
      BY <1>1, <1>2, <1>3, <1>6, <2>3 DEF Taking
    <3>2. CASE requests[f] = 1
      BY <1>7, <2>3, <3>2 DEF MeetData
    <3>3. CASE requests[f] # 1
      BY <1>3, <1>4, <1>7, <2>1, <2>2, <2>3, <3>1, <3>3 DEF MeetData
    <3> QED
      BY <3>2, <3>3
  <2>4. CASE l = "unlock"
    <3>1. data[f] = <<>> \/ requests[f] = 0
      BY <1>4, <1>7, <2>4
    <3> QED
      BY <1>3, <1>4, <2>2, <2>4, <3>1 DEF MeetData, Blocked
  <2> QED
    BY <2>3, <2>4
<1>11. MeetVchi(f)'
  <2>1. MeetVchi(f) /\ ~Telling(t)
    BY <1>0, <1>1 DEF MeetInv, Telling
  <2> QED
    BY <1>3, <1>6, <2>1, VchiSame
<1>12. \A g \in Files : (MeetData(g) /\ MeetVchi(g))'
  <2>1. \A g \in Files \ {f} : dataLock[g] # t /\ Awaiter(g) # t
    BY <1>0, <1>2, OneFile
  <2> QED
    BY <1>3, <1>6, <1>7, <1>10, <1>11, <2>1, OtherFiles DEF MeetInv
<1>13. TypeOK'
  BY <1>1, <1>6, <1>7 DEF ProcessPendingMsg, TypeOK, sharedVars, slotVars, clientVars
<1> QED
  BY <1>8, <1>9, <1>12, <1>13 DEF MeetInv

\* A message is handed over; for a vchi service the thread now has to tell.
LEMMA RemoveMeets ==
  ASSUME MeetInv, RxAssumption, NEW t \in Threads, RemovePendingMsg(t)
  PROVE  MeetInv'
<1>0. pc[t] = "remove" /\ pc[t] \in RxStages \ {"advance"} /\ pc[t] \in DataStages \ {"vprocess"}
  BY DEF RemovePendingMsg, RxStages, DataStages
<1>1. /\ TypeOK /\ LocksInv /\ ThreadsInv /\ file[t] \in Files /\ Stage(t) = "remove"
      /\ dataLock[file[t]] = t
      /\ \A g \in Files : t # Dequeuer(g)
      /\ \A g \in Files : t = Awaiter(g) => file[t] = g
      /\ t = Trigger => current # NoSlot
  BY <1>0, WorkerIs
<1>2. PICK f \in Files : f = file[t]
  BY <1>1
<1> DEFINE e == Head(data[f])
           returned == At(e).kind = "data"
           tracked == returned /\ f \in VchiFiles
<1>3. /\ UNCHANGED <<current, memory, dataLock, vchiLock, requests, dequeues, file>>
      /\ ~Blocked(f) /\ total[t] # MsgBufCount
      /\ data' = [data EXCEPT ![f] = Tail(@)]
      /\ vchi' = IF tracked THEN [vchi EXCEPT ![f] = Append(@, e)] ELSE vchi
      /\ refCount' = IF tracked THEN [refCount EXCEPT ![e.slot] = @ + 1] ELSE refCount
      /\ delivered' = IF returned THEN [delivered EXCEPT ![f] = Append(@, At(e).pos)] ELSE delivered
      /\ total' = IF returned THEN [total EXCEPT ![t] = @ + 1] ELSE total
      /\ CallRelease(t, e.slot, "remove")
  BY <1>2 DEF RemovePendingMsg, LoopEnds, sharedVars
<1>4. data[f] # <<>> /\ data[f] \in Seq(Entries) /\ e \in Entries /\ e.slot \in Slots
      /\ Tail(data[f]) \in Seq(Entries) /\ Len(Tail(data[f])) = Len(data[f]) - 1
  <2>1. data[f] # <<>> /\ data[f] \in Seq(Entries)
    BY <1>1, <1>3 DEF Blocked, TypeOK
  <2>2. e \in Entries /\ Tail(data[f]) \in Seq(Entries) /\ Len(Tail(data[f])) = Len(data[f]) - 1
    BY <2>1
  <2> QED
    BY <2>1, <2>2 DEF Entries
<1>5. /\ pc'[t] = "dec" /\ Stage(t)' = "remove" /\ OthersStay(t)
      /\ rel'[t] = e.slot /\ ret'[t] = "remove" /\ seen' = seen
      /\ pc' \in [Threads -> Pc] /\ rel' \in [Threads -> Slots \cup {NoSlot}]
      /\ ret' \in [Threads -> {"none", "remove", "vprocess", "idle"}]
  BY <1>1, <1>3, <1>4, CallMoves
<1>6. /\ total[t] \in 0 .. MsgBufCount /\ total' \in [Threads -> 0 .. MsgBufCount]
      /\ \A u \in Threads \ {t} : total'[u] = total[u]
      /\ returned => total'[t] # 0
      /\ ~returned => total'[t] = total[t]
  <2>1. total \in [Threads -> 0 .. MsgBufCount] /\ MsgBufCount \in Nat
    BY <1>1 DEF TypeOK, RxAssumption
  <2> QED
    BY <1>3, <2>1
<1>7. /\ data'[f] = Tail(data[f]) /\ data' \in [Files -> Seq(Entries)]
      /\ \A g \in Files \ {f} : data'[g] = data[g]
  <2>1. data \in [Files -> Seq(Entries)]
    BY <1>1 DEF TypeOK
  <2> QED
    BY <1>3, <1>4, <2>1
<1>8. /\ vchi' \in [Files -> Seq(Entries)]
      /\ \A g \in Files \ {f} : vchi'[g] = vchi[g]
      /\ ~tracked => vchi'[f] = vchi[f]
  <2>1. vchi \in [Files -> Seq(Entries)] /\ Append(vchi[f], e) \in Seq(Entries)
    BY <1>1, <1>4 DEF TypeOK
  <2> QED
    BY <1>3, <2>1
<1>9. LocksInv'
  <2>1. (HoldsData(f, t)' <=> HoldsData(f, t)) /\ (HoldsVchi(f, t)' <=> HoldsVchi(f, t))
    BY <1>1, <1>2, <1>3, <1>5 DEF HoldsData, HoldsVchi, DataStages
  <2> QED
    BY <1>1, <1>2, <1>3, <1>5, <2>1, LocksKept
<1>10. ThreadsInv'
  BY <1>0, <1>1, <1>2, <1>3, <1>4, <1>5, <1>6, ThreadsKept DEF AwaitStages, RxStages, DataStages
<1>11. MeetData(f)'
  <2>1. MeetData(f)
    BY DEF MeetInv
  <2>2. CASE Len(data[f]) = 1
    <3>1. data'[f] = <<>>
      BY <1>4, <1>7, <2>2
    <3> QED
      BY <3>1 DEF MeetData, Blocked
  <2>3. CASE Len(data[f]) # 1
    <3>1. pc[Awaiter(f)] = "lock" => pc'[Awaiter(f)] = "lock"
      BY <1>0, <1>5, Names DEF OthersStay
    <3>2. pc[Awaiter(f)] = "process" => dataLock[f] # Awaiter(f)
      BY <1>0, <1>1, <1>2
    <3> QED
      BY <1>3, <2>1, <2>3, <3>1, <3>2 DEF MeetData
  <2> QED
    BY <2>2, <2>3
<1>12. MeetVchi(f)'
  <2>1. MeetVchi(f)
    BY DEF MeetInv
  <2>2. CASE returned
    <3>1. Telling(t)' /\ dataLock'[f] = t
      BY <1>1, <1>2, <1>3, <1>5, <1>6, <2>2 DEF Telling
    <3> QED
      BY <3>1 DEF MeetVchi
  <2>3. CASE ~returned
    <3>1. vchi'[f] = vchi[f] /\ total'[t] = total[t]
      BY <1>6, <1>8, <2>3
    <3>2. Telling(t) => Telling(t)'
      BY <1>0, <1>5, <3>1, <1>1 DEF Telling
    <3> QED
      BY <1>3, <1>5, <1>6, <2>1, <3>1, <3>2, VchiSame
  <2> QED
    BY <2>2, <2>3
<1>13. \A g \in Files : (MeetData(g) /\ MeetVchi(g))'
  <2>1. \A g \in Files \ {f} : dataLock[g] # t /\ Awaiter(g) # t
    BY <1>0, <1>2, OneFile
  <2> QED
    BY <1>3, <1>5, <1>6, <1>7, <1>8, <1>11, <1>12, <2>1, OtherFiles DEF MeetInv
<1>14. refCount' \in [Slots -> Int] /\ delivered' \in [Files -> Seq(Nat \cup {-1})]
  <2>1. refCount \in [Slots -> Int] /\ delivered \in [Files -> Seq(Nat \cup {-1})]
        /\ memory \in [Slots -> [Indexes -> Messages]]
    BY <1>1 DEF TypeOK
  <2>2. At(e).pos \in Nat \cup {-1}
    BY <1>4, <2>1 DEF At, Entries, Messages
  <2>3. Append(delivered[f], At(e).pos) \in Seq(Nat \cup {-1})
    BY <2>1, <2>2
  <2> QED
    BY <1>3, <1>4, <2>1, <2>3
<1>15. TypeOK'
  BY <1>1, <1>5, <1>6, <1>7, <1>8, <1>14 DEF RemovePendingMsg, TypeOK, sharedVars
<1> QED
  BY <1>9, <1>10, <1>13, <1>15 DEF MeetInv

\* A request is put back only when nothing fits; otherwise the thread goes on to tell.
LEMMA CompleteMeets ==
  ASSUME MeetInv, RxAssumption, NEW t \in Threads, CompleteRequest(t)
  PROVE  MeetInv'
<1>0. pc[t] = "remove" /\ pc[t] \in RxStages \ {"advance"} /\ pc[t] \in DataStages \ {"vprocess"}
  BY DEF CompleteRequest, RxStages, DataStages
<1>1. /\ TypeOK /\ LocksInv /\ ThreadsInv /\ file[t] \in Files /\ Stage(t) = "remove"
      /\ dataLock[file[t]] = t
      /\ \A g \in Files : t # Dequeuer(g)
      /\ \A g \in Files : t = Awaiter(g) => file[t] = g
      /\ t = Trigger => current # NoSlot
  BY <1>0, WorkerIs
<1>2. PICK f \in Files : f = file[t]
  BY <1>1
<1>3. /\ UNCHANGED <<current, memory, data, vchi, dataLock, vchiLock, dequeues, file, rel, ret>>
      /\ Blocked(f) \/ total[t] = MsgBufCount
      /\ total' = [total EXCEPT ![t] = 0]
  BY <1>2 DEF CompleteRequest, LoopEnds, sharedVars
<1>4. PICK l \in {"unlock", "vlock"} :
        /\ Goto(t, l)
        /\ \/ l = "unlock" /\ total[t] = 0 /\ requests' = [requests EXCEPT ![f] = @ + 1]
           \/ l = "vlock" /\ total[t] # 0 /\ requests' = requests
  BY <1>2 DEF CompleteRequest
<1>5. l \in Pc \ ReleasePc
  BY DEF Pc, ReleasePc
<1>6. pc'[t] = l /\ Stage(t)' = l /\ OthersStay(t) /\ pc' \in [Threads -> Pc]
  BY <1>1, <1>3, <1>4, <1>5, GotoMoves
<1>7. requests' \in [Files -> Nat] /\ \A g \in Files \ {f} : requests'[g] = requests[g]
  <2>1. requests \in [Files -> Nat]
    BY <1>1 DEF TypeOK
  <2> QED
    BY <1>4, <2>1
<1>8. /\ total' \in [Threads -> 0 .. MsgBufCount] /\ total'[t] = 0
      /\ \A u \in Threads \ {t} : total'[u] = total[u]
      /\ MsgBufCount # 0
  <2>1. total \in [Threads -> 0 .. MsgBufCount] /\ MsgBufCount \in Nat \ {0}
    BY <1>1 DEF TypeOK, RxAssumption
  <2> QED
    BY <1>3, <2>1
<1>9. LocksInv'
  <2>1. (HoldsData(f, t)' <=> HoldsData(f, t)) /\ (HoldsVchi(f, t)' <=> HoldsVchi(f, t))
    BY <1>1, <1>2, <1>3, <1>4, <1>6 DEF HoldsData, HoldsVchi, DataStages
  <2> QED
    BY <1>1, <1>2, <1>3, <1>6, <2>1, LocksKept
<1>10. ThreadsInv'
  BY <1>0, <1>1, <1>2, <1>3, <1>4, <1>5, <1>6, <1>8, ThreadsKept DEF AwaitStages, RxStages, DataStages
<1>11. MeetData(f)'
  <2>1. CASE l = "unlock"
    <3>1. Blocked(f)
      BY <1>3, <1>4, <1>8, <2>1
    <3> QED
      BY <1>3, <3>1 DEF MeetData, Blocked, At
  <2>2. CASE l = "vlock"
    <3>1. ~Taking(t) /\ requests'[f] = requests[f] /\ MeetData(f)
      BY <1>0, <1>4, <2>2 DEF Taking, MeetInv
    <3> QED
      BY <1>0, <1>3, <1>6, <1>8, <3>1, DataSame
  <2> QED
    BY <2>1, <2>2
<1>12. MeetVchi(f)'
  <2>1. CASE l = "unlock"
    <3>1. ~Telling(t) /\ MeetVchi(f)
      BY <1>0, <1>4, <2>1 DEF Telling, MeetInv
    <3> QED
      BY <1>3, <1>6, <1>8, <3>1, VchiSame
  <2>2. CASE l = "vlock"
    <3>1. Telling(t)' /\ dataLock'[f] = t
      BY <1>1, <1>2, <1>3, <1>6, <2>2 DEF Telling
    <3> QED
      BY <3>1 DEF MeetVchi
  <2> QED
    BY <2>1, <2>2
<1>13. \A g \in Files : (MeetData(g) /\ MeetVchi(g))'
  <2>1. \A g \in Files \ {f} : dataLock[g] # t /\ Awaiter(g) # t
    BY <1>0, <1>2, OneFile
  <2> QED
    BY <1>3, <1>6, <1>7, <1>8, <1>11, <1>12, <2>1, OtherFiles DEF MeetInv
<1>14. TypeOK'
  BY <1>1, <1>6, <1>7, <1>8 DEF CompleteRequest, TypeOK, sharedVars, slotVars, clientVars
<1> QED
  BY <1>9, <1>10, <1>13, <1>14 DEF MeetInv

\* Who frees the mutex has neither a message to take nor one to tell of.
LEMMA UnlockMeets ==
  ASSUME MeetInv, RxAssumption, NEW t \in Threads, DataUnlock(t)
  PROVE  MeetInv'
<1>0. pc[t] = "unlock" /\ pc[t] \in RxStages \ {"advance"} /\ pc[t] \in DataStages \ {"vprocess"}
  BY DEF DataUnlock, RxStages, DataStages
<1>1. /\ TypeOK /\ LocksInv /\ ThreadsInv /\ file[t] \in Files /\ Stage(t) = "unlock"
      /\ dataLock[file[t]] = t
      /\ \A g \in Files : t # Dequeuer(g)
      /\ \A g \in Files : t = Awaiter(g) => file[t] = g
      /\ t = Trigger => current # NoSlot
      /\ total[t] = 0
  BY <1>0, WorkerIs
<1>2. PICK f \in Files : f = file[t]
  BY <1>1
<1>3. /\ UNCHANGED <<current, memory, data, vchi, vchiLock, requests, dequeues, rel, ret, total>>
      /\ dataLock' = [dataLock EXCEPT ![f] = NoThread]
  BY <1>2 DEF DataUnlock, sharedVars
<1>4. PICK l \in {"advance", "idle"} :
        /\ Goto(t, l)
        /\ \/ l = "advance" /\ t = Trigger /\ file' = file
           \/ l = "idle" /\ t # Trigger /\ file' = [file EXCEPT ![t] = None]
  BY DEF DataUnlock
<1>5. l \in Pc \ ReleasePc
  BY DEF Pc, ReleasePc
<1>6. pc'[t] = l /\ Stage(t)' = l /\ OthersStay(t) /\ pc' \in [Threads -> Pc]
  BY <1>1, <1>3, <1>4, <1>5, GotoMoves
<1>7. /\ file' \in [Threads -> Files \cup {None}] /\ file'[t] \in {f, None}
      /\ \A u \in Threads \ {t} : file'[u] = file[u]
  <2>1. file \in [Threads -> Files \cup {None}]
    BY <1>1 DEF TypeOK
  <2> QED
    BY <1>2, <1>4, <2>1
<1>8. /\ dataLock' \in [Files -> Threads \cup {NoThread}] /\ dataLock'[f] = NoThread
      /\ \A g \in Files \ {f} : dataLock'[g] = dataLock[g]
  <2>1. dataLock \in [Files -> Threads \cup {NoThread}]
    BY <1>1 DEF TypeOK
  <2> QED
    BY <1>3, <2>1
<1>9. LocksInv'
  <2>1. ~HoldsData(f, t)' /\ ~HoldsVchi(f, t)' /\ ~HoldsVchi(f, t)
    BY <1>1, <1>6 DEF HoldsData, HoldsVchi, DataStages
  <2> QED
    BY <1>1, <1>2, <1>3, <1>6, <1>7, <1>8, <2>1, LocksKept
<1>10. ThreadsInv'
  <2>1. \A g \in Files : t = Awaiter(g) => l = "idle"
    BY <1>4, Names
  <2>2. t = Trigger => l = "advance"
    BY <1>4
  <2>3. "idle" \in AwaitStages /\ Stage(t) \in RxStages
    BY <1>0, <1>1 DEF AwaitStages
  <2>4. pc'[t] \notin ReleasePc /\ total'[t] = 0
    BY <1>1, <1>3, <1>5, <1>6
  <2> QED
    BY <1>1, <1>3, <1>6, <1>7, <2>1, <2>2, <2>3, <2>4, ThreadsKept
<1>11. MeetData(f)'
  <2>1. ~Taking(t) /\ MeetData(f)
    BY <1>0 DEF Taking, MeetInv
  <2> QED
    BY <1>0, <1>1, <1>2, <1>3, <1>6, <2>1, DataSame
<1>12. MeetVchi(f)'
  <2>1. ~Telling(t) /\ MeetVchi(f)
    BY <1>0, <1>1 DEF Telling, MeetInv
  <2> QED
    BY <1>1, <1>2, <1>3, <1>6, <2>1, VchiSame
<1>13. \A g \in Files : (MeetData(g) /\ MeetVchi(g))'
  <2>1. \A g \in Files \ {f} : dataLock[g] # t /\ Awaiter(g) # t
    BY <1>0, <1>2, OneFile
  <2> QED
    BY <1>3, <1>6, <1>8, <1>11, <1>12, <2>1, OtherFiles DEF MeetInv
<1>14. TypeOK'
  BY <1>1, <1>6, <1>7, <1>8 DEF DataUnlock, TypeOK, sharedVars, slotVars, clientVars
<1> QED
  BY <1>9, <1>10, <1>13, <1>14 DEF MeetInv

\* The mutex of the second list.
LEMMA VchiLockMeets ==
  ASSUME MeetInv, RxAssumption, NEW t \in Threads, VchiLock(t)
  PROVE  MeetInv'
<1>0. pc[t] = "vlock" /\ pc[t] \in RxStages \ {"advance"} /\ pc[t] \in DataStages \ {"vprocess"}
  BY DEF VchiLock, RxStages, DataStages
<1>1. /\ TypeOK /\ LocksInv /\ ThreadsInv /\ file[t] \in Files /\ Stage(t) = "vlock"
      /\ dataLock[file[t]] = t
      /\ \A g \in Files : t # Dequeuer(g)
      /\ \A g \in Files : t = Awaiter(g) => file[t] = g
      /\ t = Trigger => current # NoSlot
      /\ total[t] = 0
  BY <1>0, WorkerIs
<1>2. PICK f \in Files : f = file[t]
  BY <1>1
<1>3. /\ UNCHANGED <<current, memory, data, vchi, dataLock, requests, dequeues, file, rel, ret, total>>
      /\ vchiLock[f] = NoThread
      /\ vchiLock' = [vchiLock EXCEPT ![f] = t]
      /\ Goto(t, "vprocess")
  BY <1>2 DEF VchiLock, sharedVars
<1>5. "vprocess" \in Pc \ ReleasePc
  BY DEF Pc, ReleasePc
<1>6. pc'[t] = "vprocess" /\ Stage(t)' = "vprocess" /\ OthersStay(t) /\ pc' \in [Threads -> Pc]
  BY <1>1, <1>3, <1>5, GotoMoves
<1>7. /\ vchiLock' \in [Files -> Threads \cup {NoThread}] /\ vchiLock'[f] = t
      /\ \A g \in Files \ {f} : vchiLock'[g] = vchiLock[g]
  <2>1. vchiLock \in [Files -> Threads \cup {NoThread}]
    BY <1>1 DEF TypeOK
  <2> QED
    BY <1>3, <2>1
<1>8. LocksInv'
  <2>1. HoldsVchi(f, t)' /\ (HoldsData(f, t)' <=> HoldsData(f, t))
    BY <1>1, <1>2, <1>3, <1>6 DEF HoldsData, HoldsVchi, DataStages
  <2> QED
    BY <1>1, <1>2, <1>3, <1>6, <1>7, <2>1, LocksKept
<1>9. ThreadsInv'
  BY <1>0, <1>1, <1>2, <1>3, <1>5, <1>6, ThreadsKept DEF AwaitStages, RxStages, DataStages
<1>10. MeetData(f)'
  <2>1. ~Taking(t) /\ MeetData(f)
    BY <1>0 DEF Taking, MeetInv
  <2> QED
    BY <1>0, <1>3, <1>6, <2>1, DataSame
<1>11. MeetVchi(f)'
  BY <1>7, Names DEF MeetVchi
<1>12. \A g \in Files : (MeetData(g) /\ MeetVchi(g))'
  <2>1. \A g \in Files \ {f} : dataLock[g] # t /\ Awaiter(g) # t
    BY <1>0, <1>2, OneFile
  <2> QED
    BY <1>3, <1>6, <1>7, <1>10, <1>11, <2>1, OtherFiles DEF MeetInv
<1>13. TypeOK'
  BY <1>1, <1>6, <1>7 DEF VchiLock, TypeOK, sharedVars, slotVars, clientVars
<1> QED
  BY <1>8, <1>9, <1>12, <1>13 DEF MeetInv

\* A dequeue request is served under it,
LEMMA RemoveVchiMeets ==
  ASSUME MeetInv, RxAssumption, NEW t \in Threads, RemovePendingVchiMsg(t)
  PROVE  MeetInv'
<1>0. pc[t] = "vprocess" /\ pc[t] \in RxStages \ {"advance"}
  BY DEF RemovePendingVchiMsg, RxStages, DataStages
<1>1. /\ TypeOK /\ LocksInv /\ ThreadsInv /\ file[t] \in Files /\ Stage(t) = "vprocess"
      /\ vchiLock[file[t]] = t
      /\ \A g \in Files : t = Awaiter(g) \/ t = Dequeuer(g) => file[t] = g
      /\ t = Trigger => current # NoSlot
      /\ total[t] = 0
  BY <1>0, WorkerIs
<1>2. PICK f \in Files : f = file[t]
  BY <1>1
<1> DEFINE e == Head(vchi[f])
<1>3. /\ UNCHANGED <<current, memory, data, dataLock, vchiLock, requests, file, total>>
      /\ vchi[f] # <<>> /\ dequeues[f] > 0
      /\ vchi' = [vchi EXCEPT ![f] = Tail(@)]
      /\ dequeues' = [dequeues EXCEPT ![f] = @ - 1]
      /\ dequeued' = [dequeued EXCEPT ![f] = Append(@, At(e).pos)]
      /\ CallRelease(t, e.slot, "vprocess")
  BY <1>2 DEF RemovePendingVchiMsg, sharedVars
<1>4. vchi[f] \in Seq(Entries) /\ e \in Entries /\ e.slot \in Slots /\ Tail(vchi[f]) \in Seq(Entries)
  <2>1. vchi[f] \in Seq(Entries)
    BY <1>1 DEF TypeOK
  <2>2. e \in Entries /\ Tail(vchi[f]) \in Seq(Entries)
    BY <1>3, <2>1
  <2> QED
    BY <2>1, <2>2 DEF Entries
<1>5. /\ pc'[t] = "dec" /\ Stage(t)' = "vprocess" /\ OthersStay(t)
      /\ rel'[t] = e.slot /\ ret'[t] = "vprocess" /\ seen' = seen
      /\ pc' \in [Threads -> Pc] /\ rel' \in [Threads -> Slots \cup {NoSlot}]
      /\ ret' \in [Threads -> {"none", "remove", "vprocess", "idle"}]
  BY <1>1, <1>3, <1>4, CallMoves
<1>6. /\ vchi' \in [Files -> Seq(Entries)] /\ dequeues' \in [Files -> Nat]
      /\ \A g \in Files \ {f} : vchi'[g] = vchi[g] /\ dequeues'[g] = dequeues[g]
  <2>1. vchi \in [Files -> Seq(Entries)] /\ dequeues \in [Files -> Nat]
    BY <1>1 DEF TypeOK
  <2> QED
    BY <1>3, <1>4, <2>1
<1>7. LocksInv'
  <2>1. (HoldsData(f, t)' <=> HoldsData(f, t)) /\ (HoldsVchi(f, t)' <=> HoldsVchi(f, t))
    BY <1>1, <1>2, <1>3, <1>5 DEF HoldsData, HoldsVchi, DataStages
  <2> QED
    BY <1>1, <1>2, <1>3, <1>5, <2>1, LocksKept
<1>8. ThreadsInv'
  BY <1>0, <1>1, <1>2, <1>3, <1>4, <1>5, ThreadsKept DEF AwaitStages, RxStages, DataStages
<1>9. MeetData(f)'
  <2>1. ~Taking(t) /\ MeetData(f)
    BY <1>0 DEF Taking, MeetInv
  <2> QED
    BY <1>0, <1>3, <1>5, <2>1, DataSame
<1>10. MeetVchi(f)'
  BY <1>1, <1>2, <1>3, Names DEF MeetVchi
<1>11. \A g \in Files : (MeetData(g) /\ MeetVchi(g))'
  <2>1. \A g \in Files \ {f} : dataLock[g] # t /\ Awaiter(g) # t
    BY <1>0, <1>2, OneFile
  <2> QED
    BY <1>3, <1>5, <1>6, <1>9, <1>10, <2>1, OtherFiles DEF MeetInv
<1>12. dequeued' \in [Files -> Seq(Nat \cup {-1})]
  <2>1. dequeued \in [Files -> Seq(Nat \cup {-1})] /\ memory \in [Slots -> [Indexes -> Messages]]
    BY <1>1 DEF TypeOK
  <2>2. At(e).pos \in Nat \cup {-1}
    BY <1>4, <2>1 DEF At, Entries, Messages
  <2>3. Append(dequeued[f], At(e).pos) \in Seq(Nat \cup {-1})
    BY <2>1, <2>2
  <2> QED
    BY <1>3, <2>1, <2>3
<1>13. TypeOK'
  BY <1>1, <1>5, <1>6, <1>12 DEF RemovePendingVchiMsg, TypeOK, sharedVars, slotVars
<1> QED
  BY <1>7, <1>8, <1>11, <1>13 DEF MeetInv

\* and it is freed when none is left, or no message.
LEMMA VchiUnlockMeets ==
  ASSUME MeetInv, RxAssumption, NEW t \in Threads, VchiUnlock(t)
  PROVE  MeetInv'
<1>0. pc[t] = "vprocess" /\ pc[t] \in RxStages \ {"advance"}
  BY DEF VchiUnlock, RxStages, DataStages
<1>1. /\ TypeOK /\ LocksInv /\ ThreadsInv /\ file[t] \in Files /\ Stage(t) = "vprocess"
      /\ vchiLock[file[t]] = t
      /\ \A g \in Files : t = Awaiter(g) \/ t = Dequeuer(g) => file[t] = g
      /\ t = Trigger => current # NoSlot
      /\ total[t] = 0
  BY <1>0, WorkerIs
<1>2. PICK f \in Files : f = file[t]
  BY <1>1
<1>3. /\ UNCHANGED <<current, memory, data, vchi, dataLock, requests, dequeues, rel, ret, total>>
      /\ vchi[f] = <<>> \/ dequeues[f] = 0
      /\ vchiLock' = [vchiLock EXCEPT ![f] = NoThread]
  BY <1>2 DEF VchiUnlock, sharedVars
<1>4. PICK l \in {"idle", "unlock"} :
        /\ Goto(t, l)
        /\ \/ l = "idle" /\ t = Dequeuer(f) /\ file' = [file EXCEPT ![t] = None]
           \/ l = "unlock" /\ t # Dequeuer(f) /\ file' = file
  BY <1>2 DEF VchiUnlock
<1>5. l \in Pc \ ReleasePc
  BY DEF Pc, ReleasePc
<1>6. pc'[t] = l /\ Stage(t)' = l /\ OthersStay(t) /\ pc' \in [Threads -> Pc]
  BY <1>1, <1>3, <1>4, <1>5, GotoMoves
<1>7. /\ file' \in [Threads -> Files \cup {None}] /\ file'[t] \in {f, None}
      /\ \A u \in Threads \ {t} : file'[u] = file[u]
  <2>1. file \in [Threads -> Files \cup {None}]
    BY <1>1 DEF TypeOK
  <2> QED
    BY <1>2, <1>4, <2>1
<1>8. /\ vchiLock' \in [Files -> Threads \cup {NoThread}] /\ vchiLock'[f] = NoThread
      /\ \A g \in Files \ {f} : vchiLock'[g] = vchiLock[g]
  <2>1. vchiLock \in [Files -> Threads \cup {NoThread}]
    BY <1>1 DEF TypeOK
  <2> QED
    BY <1>3, <2>1
<1>9. LocksInv'
  <2>1. ~HoldsVchi(f, t)' /\ (HoldsData(f, t)' <=> HoldsData(f, t))
    BY <1>1, <1>2, <1>4, <1>6 DEF HoldsData, HoldsVchi, DataStages
  <2> QED
    BY <1>1, <1>2, <1>3, <1>6, <1>7, <1>8, <2>1, LocksKept
<1>10. ThreadsInv'
  <2>1. \A g \in Files : t = Awaiter(g) => l = "unlock" /\ file'[t] = g
    BY <1>1, <1>2, <1>4, Names
  <2>2. \A g \in Files : t = Dequeuer(g) => l = "idle"
    BY <1>1, <1>2, <1>4
  <2>3. t = Trigger => file'[t] = f
    BY <1>2, <1>4, Names
  <2>4. l \in AwaitStages /\ Stage(t) \in RxStages
    BY <1>0, <1>1 DEF AwaitStages
  <2>5. pc'[t] \notin ReleasePc /\ total'[t] = 0
    BY <1>1, <1>3, <1>5, <1>6
  <2> QED
    BY <1>1, <1>3, <1>6, <1>7, <2>1, <2>2, <2>3, <2>4, <2>5, ThreadsKept
<1>11. MeetData(f)'
  <2>1. ~Taking(t) /\ MeetData(f)
    BY <1>0 DEF Taking, MeetInv
  <2> QED
    BY <1>0, <1>3, <1>6, <2>1, DataSame
<1>12. MeetVchi(f)'
  BY <1>3 DEF MeetVchi
<1>13. \A g \in Files : (MeetData(g) /\ MeetVchi(g))'
  <2>1. \A g \in Files \ {f} : dataLock[g] # t /\ Awaiter(g) # t
    BY <1>0, <1>2, OneFile
  <2> QED
    BY <1>3, <1>6, <1>8, <1>11, <1>12, <2>1, OtherFiles DEF MeetInv
<1>14. TypeOK'
  BY <1>1, <1>6, <1>7, <1>8 DEF VchiUnlock, TypeOK, sharedVars, slotVars, clientVars
<1> QED
  BY <1>9, <1>10, <1>13, <1>14 DEF MeetInv

\* A thread that runs no ioctl.
LEMMA IdleIs ==
  ASSUME MeetInv, RxAssumption, NEW t \in Threads, pc[t] = "idle"
  PROVE  /\ TypeOK /\ LocksInv /\ ThreadsInv /\ Stage(t) = "idle" /\ total[t] = 0
         /\ ~Taking(t) /\ ~Telling(t)
         /\ \A g \in Files : dataLock[g] # t
<1>1. TypeOK /\ LocksInv /\ ThreadsInv
  BY DEF MeetInv
<1>2. Stage(t) = "idle"
  BY DEF Stage, ReleasePc
<1>3. total[t] = 0
  BY <1>1, <1>2 DEF ThreadsInv
<1> QED
  BY <1>1, <1>2, <1>3 DEF Taking, Telling, LocksInv, HoldsData, DataStages

\* A late request beside messages is alone, and on its way to the mutex.
LEMMA AwaitMeets ==
  ASSUME MeetInv, RxAssumption, NEW f \in Files, AwaitForward(f)
  PROVE  MeetInv'
<1> DEFINE t == Awaiter(f)
<1>0. /\ t \in Threads /\ t # Trigger /\ \A g \in Files : t # Dequeuer(g) /\ (t = Awaiter(g) => g = f)
  BY Names
<1>1. /\ pc[t] = "idle" /\ TypeOK /\ LocksInv /\ ThreadsInv /\ Stage(t) = "idle" /\ total[t] = 0
      /\ ~Taking(t) /\ ~Telling(t) /\ \A g \in Files : dataLock[g] # t
  BY <1>0, IdleIs DEF AwaitForward
<1>3. /\ UNCHANGED <<current, memory, data, vchi, dataLock, vchiLock, dequeues, rel, ret, total>>
      /\ requests' = [requests EXCEPT ![f] = @ + 1]
      /\ file' = [file EXCEPT ![t] = f]
      /\ Goto(t, "lock")
  BY DEF AwaitForward, sharedVars
<1>5. "lock" \in Pc \ ReleasePc
  BY DEF Pc, ReleasePc
<1>6. pc'[t] = "lock" /\ Stage(t)' = "lock" /\ OthersStay(t) /\ pc' \in [Threads -> Pc]
  BY <1>0, <1>1, <1>3, <1>5, GotoMoves
<1>7. /\ file' \in [Threads -> Files \cup {None}] /\ file'[t] = f
      /\ \A u \in Threads \ {t} : file'[u] = file[u]
      /\ requests[f] \in Nat /\ requests'[f] = requests[f] + 1 /\ requests' \in [Files -> Nat]
      /\ \A g \in Files \ {f} : requests'[g] = requests[g]
  <2>1. file \in [Threads -> Files \cup {None}] /\ requests \in [Files -> Nat]
    BY <1>1 DEF TypeOK
  <2> QED
    BY <1>0, <1>3, <2>1
<1>8. LocksInv'
  <2>1. /\ ~HoldsData(f, t)' /\ ~HoldsVchi(f, t)' /\ ~HoldsData(f, t) /\ ~HoldsVchi(f, t)
        /\ Stage(t) \notin DataStages
    BY <1>1, <1>6 DEF HoldsData, HoldsVchi, DataStages
  <2> QED
    BY <1>0, <1>1, <1>3, <1>6, <1>7, <2>1, LocksKept
<1>9. ThreadsInv'
  <2>1. "lock" \in AwaitStages /\ pc'[t] \notin ReleasePc /\ total'[t] = 0
    BY <1>1, <1>3, <1>5, <1>6 DEF AwaitStages
  <2> QED
    BY <1>0, <1>1, <1>3, <1>6, <1>7, <2>1, ThreadsKept
<1>10. MeetData(f)'
  <2>1. MeetData(f)
    BY DEF MeetInv
  <2>2. Blocked(f)' <=> Blocked(f)
    BY <1>3 DEF Blocked, At
  <2>3. \A u \in Threads : Taking(u) => Taking(u)'
    BY <1>1, <1>3, <1>6 DEF Taking, OthersStay
  <2>4. CASE requests[f] = 0
    BY <1>6, <1>7, <2>4 DEF MeetData
  <2>5. CASE requests[f] # 0
    BY <1>1, <1>3, <2>1, <2>2, <2>3, <2>5 DEF MeetData
  <2> QED
    BY <2>4, <2>5
<1>11. MeetVchi(f)'
  <2>1. MeetVchi(f)
    BY DEF MeetInv
  <2> QED
    BY <1>0, <1>1, <1>3, <1>6, <2>1, VchiSame
<1>12. \A g \in Files : (MeetData(g) /\ MeetVchi(g))'
  BY <1>0, <1>1, <1>3, <1>6, <1>7, <1>10, <1>11, OtherFiles DEF MeetInv
<1>13. TypeOK'
  BY <1>1, <1>6, <1>7 DEF AwaitForward, TypeOK, sharedVars, slotVars, clientVars
<1> QED
  BY <1>8, <1>9, <1>12, <1>13 DEF MeetInv

\* A late dequeue request has the mutex.
LEMMA DequeueMeets ==
  ASSUME MeetInv, RxAssumption, NEW f \in Files, DequeueForward(f)
  PROVE  MeetInv'
<1> DEFINE t == Dequeuer(f)
<1>0. /\ t \in Threads /\ t # Trigger /\ \A g \in Files : t # Awaiter(g) /\ (t = Dequeuer(g) => g = f)
  BY Names
<1>1. /\ pc[t] = "idle" /\ TypeOK /\ LocksInv /\ ThreadsInv /\ Stage(t) = "idle" /\ total[t] = 0
      /\ ~Taking(t) /\ ~Telling(t) /\ \A g \in Files : dataLock[g] # t
  BY <1>0, IdleIs DEF DequeueForward
<1>3. /\ UNCHANGED <<current, memory, data, vchi, dataLock, requests, rel, ret, total>>
      /\ vchiLock[f] = NoThread
      /\ vchiLock' = [vchiLock EXCEPT ![f] = t]
      /\ dequeues' = [dequeues EXCEPT ![f] = @ + 1]
      /\ file' = [file EXCEPT ![t] = f]
      /\ Goto(t, "vprocess")
  BY DEF DequeueForward, sharedVars
<1>5. "vprocess" \in Pc \ ReleasePc
  BY DEF Pc, ReleasePc
<1>6. pc'[t] = "vprocess" /\ Stage(t)' = "vprocess" /\ OthersStay(t) /\ pc' \in [Threads -> Pc]
  BY <1>0, <1>1, <1>3, <1>5, GotoMoves
<1>7. /\ file' \in [Threads -> Files \cup {None}] /\ file'[t] = f
      /\ \A u \in Threads \ {t} : file'[u] = file[u]
      /\ dequeues' \in [Files -> Nat]
      /\ vchiLock' \in [Files -> Threads \cup {NoThread}] /\ vchiLock'[f] = t
      /\ \A g \in Files \ {f} : dequeues'[g] = dequeues[g] /\ vchiLock'[g] = vchiLock[g]
  <2>1. /\ file \in [Threads -> Files \cup {None}] /\ dequeues \in [Files -> Nat]
        /\ vchiLock \in [Files -> Threads \cup {NoThread}]
    BY <1>1 DEF TypeOK
  <2> QED
    BY <1>0, <1>3, <2>1
<1>8. LocksInv'
  <2>1. /\ ~HoldsData(f, t)' /\ ~HoldsData(f, t) /\ HoldsVchi(f, t)'
        /\ Stage(t) \notin DataStages
    BY <1>1, <1>6, <1>7 DEF HoldsData, HoldsVchi, DataStages
  <2> QED
    BY <1>0, <1>1, <1>3, <1>6, <1>7, <2>1, LocksKept
<1>9. ThreadsInv'
  <2>1. pc'[t] \notin ReleasePc /\ total'[t] = 0
    BY <1>1, <1>3, <1>5, <1>6
  <2> QED
    BY <1>0, <1>1, <1>3, <1>6, <1>7, <2>1, ThreadsKept
<1>10. MeetData(f)'
  <2>1. MeetData(f)
    BY DEF MeetInv
  <2> QED
    BY <1>0, <1>1, <1>3, <1>6, <2>1, DataSame
<1>11. MeetVchi(f)'
  BY <1>0, <1>7, Names DEF MeetVchi
<1>12. \A g \in Files : (MeetData(g) /\ MeetVchi(g))'
  BY <1>0, <1>1, <1>3, <1>6, <1>7, <1>10, <1>11, OtherFiles DEF MeetInv
<1>13. TypeOK'
  BY <1>1, <1>6, <1>7 DEF DequeueForward, TypeOK, sharedVars, slotVars, clientVars
<1> QED
  BY <1>8, <1>9, <1>12, <1>13 DEF MeetInv

-----------------------------------------------------------------------------
(* The steps together. *)

\* A step of the firmware, the clients or the driver, while no message is written over.
LEMMA MeetStep ==
  ASSUME MeetInv, RxAssumption, Spared, [Next]_vars
  PROVE  MeetInv'
<1>1. ASSUME UNCHANGED vars PROVE MeetInv'
  <2>1. UNCHANGED <<slotQueue, recycle, txPos, rxPos, inUse, refCount, rel, seen, posted, delivered, dequeued>>
    BY <1>1 DEF vars, sharedVars, slotVars, localVars, clientVars
  <2>2. UNCHANGED <<file, total, dataLock, vchiLock, data, vchi, requests, dequeues, memory, current, pc, ret>>
    BY <1>1 DEF vars, sharedVars, fileVars, localVars
  <2>3. LocksInv'
    BY <2>1, <2>2 DEF MeetInv, LocksInv, HoldsData, HoldsVchi, Stage
  <2>4. ThreadsInv'
    BY <2>1, <2>2 DEF MeetInv, ThreadsInv, Stage
  <2>5. \A f \in Files : (MeetData(f) /\ MeetVchi(f))'
    BY <2>1, <2>2 DEF MeetInv, MeetData, MeetVchi, Blocked, At, Taking, Telling, Stage
  <2>6. TypeOK'
    BY <2>1, <2>2 DEF MeetInv, TypeOK
  <2> QED
    BY <2>3, <2>4, <2>5, <2>6 DEF MeetInv
<1>2. ASSUME NEW t \in Threads, ThreadStep(t) PROVE MeetInv'
  BY <1>2, DataLockMeets, ProcessMeets, RemoveMeets, CompleteMeets, UnlockMeets,
     VchiLockMeets, RemoveVchiMeets, VchiUnlockMeets, ReleaseMsgMeets, RecycleReadMeets,
     RecycleExchangeMeets, RecycleTestMeets, RecyclePushMeets DEF ThreadStep
<1>3. ASSUME TriggerStep PROVE MeetInv'
  BY <1>3, TakeSlotMeets, ParseMeets, AddMeets, AdvanceMeets DEF TriggerStep
<1>4. ASSUME NEW f \in Files, AwaitForward(f) \/ DequeueForward(f) PROVE MeetInv'
  BY <1>4, AwaitMeets, DequeueMeets
<1>5. ASSUME NEW f \in Files, NEW k \in Kinds, FwWrite(f, k) PROVE MeetInv'
  <2>1. k \in AllKinds
    BY DEF RxAssumption
  <2> QED
    BY <1>5, <2>1, WriteMeets
<1>6. ASSUME FwWrite(None, "data") PROVE MeetInv'
  <2>1. "data" \in AllKinds /\ None \in Files \cup {None}
    BY DEF AllKinds
  <2> QED
    BY <1>6, <2>1, WriteMeets
<1> QED
  BY <1>1, <1>2, <1>3, <1>4, <1>5, <1>6 DEF Next

\* Nothing is pending at first.
LEMMA MeetStarts ==
  ASSUME Init, RxAssumption
  PROVE  MeetInv
<1>1. TypeOK
  BY DEF Init, TypeOK, RxAssumption, Slots, NumSlots, NoSlot, Indexes, NoMessage, Messages, AllKinds, Pc
<1>2. \A t \in Threads : Stage(t) = "idle" /\ pc[t] = "idle" /\ total[t] = 0
  BY DEF Init, Stage, ReleasePc
<1>3. LocksInv
  BY <1>2, Names DEF Init, LocksInv, HoldsData, HoldsVchi, DataStages
<1>4. ThreadsInv
  BY <1>2, Names DEF ThreadsInv, RxStages, DataStages, ReleasePc
<1>5. \A f \in Files : MeetData(f) /\ MeetVchi(f)
  BY DEF Init, MeetData, MeetVchi, Blocked
<1> QED
  BY <1>1, <1>3, <1>4, <1>5 DEF MeetInv

\* Outside of the critical sections this is the property.
LEMMA MeetShows ==
  ASSUME MeetInv, RxAssumption
  PROVE  NoStrandedMessage
BY Names DEF MeetInv, MeetData, MeetVchi, NoStrandedMessage

-----------------------------------------------------------------------------
(* A stream of one slot. *)

\* A step that is not one of the trigger thread's own.
LEMMA OneSlotKept ==
  ASSUME OneSlot, TypeOK, rxPos' = rxPos, txPos' = txPos,
         Stage(Trigger)' \in RxStages => Stage(Trigger) \in RxStages,
         \A f \in Files : data'[f] = data[f] \/ (data[f] # <<>> /\ data'[f] = Tail(data[f]))
  PROVE  OneSlot'
<1>1. ASSUME NEW f \in Files, NEW i \in 1 .. Len(data'[f])
      PROVE  data'[f][i].index < txPos
  <2>1. data[f] \in Seq(Entries)
    BY DEF TypeOK
  <2>2. CASE data'[f] = data[f]
    BY <2>2 DEF OneSlot
  <2>3. CASE data[f] # <<>> /\ data'[f] = Tail(data[f])
    <3>1. i + 1 \in 1 .. Len(data[f]) /\ data'[f][i] = data[f][i + 1]
      BY <2>1, <2>3
    <3> QED
      BY <3>1 DEF OneSlot
  <2> QED
    BY <2>2, <2>3
<1> QED
  BY <1>1 DEF OneSlot

\* The trigger thread is in a message after a step of a thread only if it was before.
LEMMA OneSlotThread ==
  ASSUME MeetInv, OneSlot, RxAssumption, NEW t \in Threads, ThreadStep(t)
  PROVE  OneSlot'
<1>1. TypeOK /\ Trigger \in Threads
  BY Names DEF MeetInv
<1>2. rxPos' = rxPos /\ txPos' = txPos
  BY DEF ThreadStep, DataLock, ProcessPendingMsg, RemovePendingMsg, CompleteRequest, DataUnlock,
         VchiLock, RemovePendingVchiMsg, VchiUnlock, ReleaseMsg, RecycleRead, RecycleExchange,
         RecycleTest, RecyclePush, sharedVars
<1>3. \A f \in Files : data'[f] = data[f] \/ (data[f] # <<>> /\ data'[f] = Tail(data[f]))
  <2>1. CASE RemovePendingMsg(t)
    <3>1. /\ data' = [data EXCEPT ![file[t]] = Tail(@)]
          /\ data[file[t]] # <<>> /\ data \in [Files -> Seq(Entries)]
      BY <1>1, <2>1 DEF RemovePendingMsg, LoopEnds, Blocked, TypeOK
    <3> QED
      BY <3>1
  <2>2. CASE ~RemovePendingMsg(t)
    <3>1. data' = data
      BY <2>2 DEF ThreadStep, DataLock, ProcessPendingMsg, CompleteRequest, DataUnlock,
             VchiLock, RemovePendingVchiMsg, VchiUnlock, ReleaseMsg, RecycleRead, RecycleExchange,
             RecycleTest, RecyclePush, fileVars
    <3> QED
      BY <3>1
  <2> QED
    BY <2>1, <2>2
<1>4. /\ pc \in [Threads -> Pc] /\ ret \in [Threads -> {"none", "remove", "vprocess", "idle"}]
      /\ \A u \in Threads \ {t} : pc'[u] = pc[u] /\ ret'[u] = ret[u]
  <2>1. pc \in [Threads -> Pc] /\ ret \in [Threads -> {"none", "remove", "vprocess", "idle"}]
    BY <1>1 DEF TypeOK
  <2>2. ASSUME NEW l, Goto(t, l) PROVE \A u \in Threads \ {t} : pc'[u] = pc[u]
    BY <2>1, <2>2 DEF Goto
  <2>3. \E l : Goto(t, l)
    BY DEF ThreadStep, DataLock, ProcessPendingMsg, RemovePendingMsg, CompleteRequest,
           DataUnlock, VchiLock, RemovePendingVchiMsg, VchiUnlock, ReleaseMsg, RecycleRead,
           RecycleExchange, RecycleTest, RecyclePush, Return, CallRelease
  <2>4. ret' = ret \/ \E l : ret' = [ret EXCEPT ![t] = l]
    BY DEF ThreadStep, DataLock, ProcessPendingMsg, RemovePendingMsg, CompleteRequest,
           DataUnlock, VchiLock, RemovePendingVchiMsg, VchiUnlock, ReleaseMsg, RecycleRead,
           RecycleExchange, RecycleTest, RecyclePush, Return, CallRelease
  <2>5. \A u \in Threads \ {t} : ret'[u] = ret[u]
    BY <2>1, <2>4
  <2> QED
    BY <2>1, <2>2, <2>3, <2>5
<1>5. Stage(Trigger)' \in RxStages => Stage(Trigger) \in RxStages
  <2>1. CASE t # Trigger
    BY <1>1, <1>4, <2>1 DEF Stage
  <2>2. CASE t = Trigger /\ pc[Trigger] \in ReleasePc
    <3>1. Stage(Trigger) = ret[Trigger] /\ ret[Trigger] \in {"remove", "vprocess", "idle"}
      BY <2>2, ReleaseLeads
    <3>2. CASE Return(Trigger)
      BY <1>1, <2>2, <3>1, <3>2, ReturnMoves
    <3>3. CASE ~Return(Trigger)
      <4>1. PICK l \in ReleasePc : Goto(Trigger, l) /\ ret' = ret
        BY <2>2, <3>3 DEF ThreadStep, DataLock, ProcessPendingMsg, RemovePendingMsg,
           CompleteRequest, DataUnlock, VchiLock, RemovePendingVchiMsg, VchiUnlock, ReleaseMsg,
           RecycleRead, RecycleExchange, RecycleTest, RecyclePush, ReleasePc
      <4>2. pc'[Trigger] = l /\ ret'[Trigger] = ret[Trigger]
        BY <1>1, <1>4, <4>1 DEF Goto
      <4> QED
        BY <3>1, <4>2 DEF Stage
    <3> QED
      BY <3>2, <3>3
  <2>3. CASE t = Trigger /\ pc[Trigger] \notin ReleasePc
    <3>1. pc[Trigger] \in RxStages
      BY <2>3 DEF ThreadStep, DataLock, ProcessPendingMsg, RemovePendingMsg, CompleteRequest,
         DataUnlock, VchiLock, RemovePendingVchiMsg, VchiUnlock, ReleaseMsg, RecycleRead,
         RecycleExchange, RecycleTest, RecyclePush, ReleasePc, RxStages, DataStages
    <3> QED
      BY <2>3, <3>1 DEF Stage
  <2> QED
    BY <2>1, <2>2, <2>3
<1> QED
  BY <1>1, <1>2, <1>3, <1>5, OneSlotKept

\* Within one slot a position is its place in the slot.
LEMMA FirstSlot ==
  ASSUME RxAssumption, NEW p \in Nat
  PROVE  /\ p < MsgsPerSlot => p % MsgsPerSlot = p
         /\ p \div MsgsPerSlot < 1 => p < MsgsPerSlot
<1>1. MsgsPerSlot \in Nat \ {0}
  BY DEF RxAssumption
<1> QED
  BY <1>1, Numbers

\* The trigger thread stays behind the firmware.
LEMMA OneSlotTrigger ==
  ASSUME MeetInv, OneSlot, RxAssumption, TriggerStep
  PROVE  OneSlot'
<1>1. Trigger \in Threads /\ TypeOK /\ rxPos \in Nat /\ txPos \in Nat /\ pc \in [Threads -> Pc]
  BY Names DEF MeetInv, TypeOK
<1>2. ASSUME TriggerTakeSlot PROVE OneSlot'
  <2>1. UNCHANGED <<rxPos, txPos, data, pc, ret>>
    BY <1>2 DEF TriggerTakeSlot, sharedVars, fileVars, localVars
  <2> QED
    BY <1>1, <2>1, OneSlotKept DEF Stage
<1>3. ASSUME TriggerParse PROVE OneSlot'
  <2>1. UNCHANGED <<rxPos, txPos, data>> /\ rxPos < txPos
    BY <1>3 DEF TriggerParse, sharedVars, fileVars
  <2> QED
    BY <2>1 DEF OneSlot
<1>4. ASSUME AddPendingMsg PROVE OneSlot'
  <2>1. UNCHANGED <<rxPos, txPos>> /\ data' = [data EXCEPT ![file[Trigger]] = Append(@, RxHeader)]
    BY <1>4 DEF AddPendingMsg, sharedVars
  <2>2. Stage(Trigger) \in RxStages
    BY <1>4 DEF AddPendingMsg, Stage, RxStages, DataStages, ReleasePc
  <2>3. rxPos < txPos /\ rxPos < MsgsPerSlot
    BY <1>1, <2>2 DEF OneSlot, RxAssumption
  <2>4. RxHeader.index < txPos
    BY <1>1, <2>3, FirstSlot DEF RxHeader
  <2>5. ASSUME NEW f \in Files, NEW i \in 1 .. Len(data'[f]) PROVE data'[f][i].index < txPos
    <3>1. data[f] \in Seq(Entries) /\ data \in [Files -> Seq(Entries)]
      BY <1>1 DEF TypeOK
    <3>2. CASE data'[f] = data[f]
      BY <3>2 DEF OneSlot
    <3>3. CASE data'[f] = Append(data[f], RxHeader)
      <4>1. CASE i \in 1 .. Len(data[f])
        BY <3>1, <3>3, <4>1 DEF OneSlot
      <4>2. CASE i \notin 1 .. Len(data[f])
        <5>1. data'[f][i] = RxHeader
          BY <3>1, <3>3, <4>2
        <5> QED
          BY <2>4, <5>1
      <4> QED
        BY <4>1, <4>2
    <3> QED
      BY <2>1, <3>1, <3>2, <3>3
  <2> QED
    BY <2>1, <2>3, <2>5 DEF OneSlot
<1>5. ASSUME TriggerAdvance PROVE OneSlot'
  <2>1. UNCHANGED <<txPos, data>> /\ rxPos' = rxPos + 1
    BY <1>5 DEF TriggerAdvance, sharedVars, fileVars
  <2>2. Stage(Trigger) \in RxStages
    BY <1>5 DEF TriggerAdvance, Stage, RxStages, DataStages, ReleasePc
  <2>3. rxPos' <= txPos'
    BY <1>1, <2>1, <2>2 DEF OneSlot
  <2>4. Stage(Trigger)' = "idle"
    <3>1. ret \in [Threads -> {"none", "remove", "vprocess", "idle"}]
      BY <1>1 DEF TypeOK
    <3>2. CASE Goto(Trigger, "idle")
      BY <1>1, <3>2 DEF Stage, Goto, ReleasePc
    <3>3. CASE Goto(Trigger, "read") /\ ret' = [ret EXCEPT ![Trigger] = "idle"]
      BY <1>1, <3>1, <3>3 DEF Stage, Goto, ReleasePc
    <3> QED
      BY <1>5, <3>2, <3>3 DEF TriggerAdvance
  <2> QED
    BY <2>1, <2>3, <2>4 DEF OneSlot, RxStages, DataStages
<1> QED
  BY <1>2, <1>3, <1>4, <1>5 DEF TriggerStep

\* The stream stays in its first slot.
LEMMA OneSlotStep ==
  ASSUME MeetInv, OneSlot, RxAssumption, MaxSlot = 1, [Next]_vars
  PROVE  OneSlot'
<1>1. TypeOK /\ rxPos \in Nat /\ txPos \in Nat /\ Trigger \in Threads /\ pc \in [Threads -> Pc]
  BY Names DEF MeetInv, TypeOK
<1>2. ASSUME UNCHANGED vars PROVE OneSlot'
  <2>1. UNCHANGED <<rxPos, txPos, data, pc, ret>>
    BY <1>2 DEF vars, sharedVars, fileVars, localVars
  <2> QED
    BY <1>1, <2>1, OneSlotKept DEF Stage
<1>3. ASSUME NEW f \in Files, AwaitForward(f) \/ DequeueForward(f) PROVE OneSlot'
  <2>1. UNCHANGED <<rxPos, txPos, data, ret>>
        /\ (pc' = [pc EXCEPT ![Awaiter(f)] = "lock"] \/ pc' = [pc EXCEPT ![Dequeuer(f)] = "vprocess"])
    BY <1>3 DEF AwaitForward, DequeueForward, Goto, sharedVars
  <2>2. Awaiter(f) # Trigger /\ Dequeuer(f) # Trigger
    BY Names
  <2>3. pc'[Trigger] = pc[Trigger]
    BY <1>1, <2>1, <2>2
  <2> QED
    BY <1>1, <2>1, <2>3, OneSlotKept DEF Stage
<1>4. ASSUME NEW f \in Files \cup {None}, NEW k \in AllKinds, FwWrite(f, k) PROVE OneSlot'
  <2>1. UNCHANGED <<rxPos, data, pc, ret>> /\ txPos' = txPos + 1 /\ txPos \div MsgsPerSlot < 1
    BY <1>4 DEF FwWrite, fileVars, localVars
  <2>2. txPos' <= MsgsPerSlot
    BY <1>1, <2>1, FirstSlot DEF RxAssumption
  <2>3. ASSUME NEW g \in Files, NEW i \in 1 .. Len(data'[g]) PROVE data'[g][i].index < txPos'
    <3>1. data[g] \in Seq(Entries) /\ data[g][i].index < txPos
      BY <1>1, <2>1 DEF OneSlot, TypeOK
    <3>2. data[g][i] \in Entries
      BY <2>1, <3>1
    <3>3. data[g][i].index \in Int
      BY <3>2 DEF Entries, Indexes
    <3> QED
      BY <1>1, <2>1, <3>1, <3>3
  <2>4. Stage(Trigger)' = Stage(Trigger)
    BY <2>1 DEF Stage
  <2> QED
    BY <1>1, <2>1, <2>2, <2>3, <2>4 DEF OneSlot
<1>5. ASSUME NEW t \in Threads, ThreadStep(t) PROVE OneSlot'
  BY <1>5, OneSlotThread
<1>6. ASSUME TriggerStep PROVE OneSlot'
  BY <1>6, OneSlotTrigger
<1>7. Kinds \subseteq AllKinds /\ "data" \in AllKinds /\ None \in Files \cup {None}
  BY DEF RxAssumption, AllKinds
<1> QED
  BY <1>2, <1>3, <1>4, <1>5, <1>6, <1>7 DEF Next

\* The stream starts there.
LEMMA OneSlotStarts ==
  ASSUME Init, RxAssumption
  PROVE  OneSlot
<1>1. Stage(Trigger) \notin RxStages
  BY Names DEF Init, Stage, RxStages, DataStages, ReleasePc
<1>2. rxPos <= txPos /\ txPos <= MsgsPerSlot
  BY DEF Init, RxAssumption
<1>3. \A f \in Files : \A i \in 1 .. Len(data[f]) : data[f][i].index < txPos
  BY DEF Init
<1> QED
  BY <1>1, <1>2, <1>3 DEF OneSlot

\* The next message goes to a place no pending message has.
LEMMA OneSlotSpares ==
  ASSUME MeetInv, OneSlot, RxAssumption, MaxSlot = 1
  PROVE  Spared
<1> SUFFICES ASSUME txPos \div MsgsPerSlot < 1, NEW f \in Files, data[f] # <<>>
             PROVE  Head(data[f]).index # txPos % MsgsPerSlot
  BY DEF Spared
<1>1. data[f] \in Seq(Entries) /\ txPos \in Nat
  BY DEF MeetInv, TypeOK
<1>2. txPos % MsgsPerSlot = txPos
  BY <1>1, FirstSlot
<1>3. 1 \in 1 .. Len(data[f]) /\ Head(data[f]) = data[f][1]
  BY <1>1
<1>4. Head(data[f]).index < txPos
  BY <1>3 DEF OneSlot
<1> QED
  BY <1>1, <1>2, <1>4

-----------------------------------------------------------------------------
(***************************************************************************)
(* For any files, requests and threads: as long as no pending message is   *)
(* written over, VchiqProcessPendingMsg and VchiqProcessPendingVchiMsg     *)
(* leave no message beside a request for it, though AWAIT_COMPLETION       *)
(* forwards its request before it takes PendingDataMsgMutex.               *)
(***************************************************************************)
THEOREM NoStrandedWhileSpared == Spec /\ []Spared => []NoStrandedMessage
<1>1. Init => MeetInv
  BY RxAssumption, MeetStarts
<1>2. MeetInv /\ Spared /\ [Next]_vars => MeetInv'
  BY RxAssumption, MeetStep
<1>3. MeetInv => NoStrandedMessage
  BY RxAssumption, MeetShows
<1> QED
  BY <1>1, <1>2, <1>3, PTL DEF Spec

(***************************************************************************)
(* The first slot of a stream is such a stretch, whatever clients do.      *)
(***************************************************************************)
THEOREM NoStrandedInFirstSlot ==
  ASSUME MaxSlot = 1
  PROVE  Spec => []NoStrandedMessage
<1>1. Init => MeetInv /\ OneSlot
  BY RxAssumption, MeetStarts, OneSlotStarts
<1>2. MeetInv /\ OneSlot /\ [Next]_vars => (MeetInv /\ OneSlot)'
  BY RxAssumption, MeetStep, OneSlotStep, OneSlotSpares
<1>3. MeetInv => NoStrandedMessage
  BY RxAssumption, MeetShows
<1> QED
  BY <1>1, <1>2, <1>3, PTL DEF Spec
===============================================================================
