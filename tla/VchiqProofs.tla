---------------------------- MODULE VchiqProofs ----------------------------
(***************************************************************************)
(* The transmit side of VCHIQ, for any number of senders, slots, message   *)
(* sizes and any length of the stream: first the accounting of slots, then *)
(* what is in them.  The handshake both sides of VCHIQ wake each other     *)
(* with: it loses no wake-up, however much work the firmware posts and     *)
(* however the firmware, the ISR, the DPC, the thread and VchiqRelease     *)
(* interleave.  And the mailbox VCHIQ starts over, for any number of       *)
(* clients, any FIFO size and any of the upsets: type correctness, that a  *)
(* word is never written to a full mailbox, and that answers are paired    *)
(* with their requests.                                                    *)
(***************************************************************************)
EXTENDS VchiqTx, VchiqThread, RpiqMailbox, SequenceTheorems, FiniteSetTheorems, TLAPS

-----------------------------------------------------------------------------
(* Positions. *)

\* Rounding a message size up to 8 bytes stays within a slot.
LEMMA AlignSizeFits ==
  ASSUME NEW n \in Requests
  PROVE  /\ AlignSize(n) \in HeaderSize..SlotSize
         /\ AlignSize(n) % HeaderSize = 0
BY SlotAssumption, RequestAssumption DEF AlignSize, HeaderSize

\* Advancing by an aligned size that fits moves the position forward, into the
\* next slot exactly when the slot is full.
LEMMA AdvanceMoves ==
  ASSUME NEW p \in Positions, NEW n \in HeaderSize..SlotSize,
         n % HeaderSize = 0, p.off + n <= SlotSize
  PROVE  /\ Advance(p, n) \in Positions
         /\ Less(p, Advance(p, n))
         /\ Advance(p, n).slot =
              IF Advance(p, n).off = 0 THEN p.slot + 1 ELSE p.slot
<1> USE SlotAssumption DEF Positions, Offsets, HeaderSize
<1>1. p.slot \in Nat /\ p.off \in 0..(SlotSize - 1) /\ p.off % 8 = 0
      OBVIOUS
<1>2. CASE p.off + n = SlotSize
      BY <1>1, <1>2 DEF Advance, Less
<1>3. CASE p.off + n < SlotSize
  <2>1. (p.off + n) % 8 = 0
        BY <1>1
  <2>2. QED
        BY <1>1, <1>3, <2>1 DEF Advance, Less
<1>4. QED
      BY <1>1, <1>2, <1>3

\* The order on positions is transitive.
LEMMA LeqTransitive ==
  ASSUME NEW p \in Positions, NEW q \in Positions, NEW r \in Positions,
         Leq(p, q), Leq(q, r)
  PROVE  Leq(p, r)
<1>1. /\ p.slot \in Nat /\ q.slot \in Nat /\ r.slot \in Nat
      /\ p.off \in Int /\ q.off \in Int /\ r.off \in Int
      BY SlotAssumption DEF Positions, Offsets
<1>2. QED
      BY <1>1 DEF Leq, Less

\* The start of the stream is a position.
LEMMA StartPosType == StartPos \in Positions
BY SlotAssumption DEF StartPos, Positions, Offsets, HeaderSize

\* The firmware holds finitely many slots.
LEMMA HeldFinite ==
  ASSUME TypeOK
  PROVE  IsFiniteSet(held)
<1>1. Slots \cup {NoSlot} \subseteq 0..SlotLast /\ SlotLast \in Int
      BY SlotAssumption DEF Slots, NoSlot
<1>2. IsFiniteSet(0..SlotLast)
      BY <1>1, FS_Interval
<1>3. held \subseteq 0..SlotLast
      BY <1>1 DEF TypeOK
<1>4. QED
      BY <1>2, <1>3, FS_Subset

-----------------------------------------------------------------------------
(* Invariance. *)

\* What VchiqInit sets up satisfies the invariant.
LEMMA InitTxInv == Init => TxInv
<1> SUFFICES ASSUME Init PROVE TxInv
    OBVIOUS
<1> USE DEF Init
<1>1. TotalTxSlot \in Nat \ {0} /\ NumSlots \in Nat
      BY SlotAssumption DEF TotalTxSlot, NumSlots
<1>2. slotQueue \in [0..(RingSize - 1) -> Slots \cup {NoSlot}]
      BY SlotAssumption DEF Slots, NumSlots, NoSlot
<1>3. TypeOK
      BY <1>1, <1>2, StartPosType DEF TypeOK, SenderPc, RecyclePc
<1>4. MutexInv
      BY NoneAssumption DEF MutexInv
<1>5. PositionInv
      BY DEF PositionInv, Leq
<1>6. RecycleInv
      BY <1>1, FS_EmptySet DEF RecycleInv, SlotsSeen, StartPos
<1>7. SlotAccounting
      BY <1>1 DEF SlotAccounting, SlotsSeen, SlotsEntered, StartPos
<1>8. QED
      BY <1>3, <1>4, <1>5, <1>6, <1>7 DEF TxInv

\* When CurrentTxPos only moves forward and nothing else moves, everything
\* behind it stays behind it.
LEMMA PositionInvMonotone ==
  ASSUME TypeOK, PositionInv,
         currentTxPos' \in Positions,
         Leq(currentTxPos, currentTxPos'),
         UNCHANGED <<rxPos, txPos, loaded, memory>>
  PROVE  PositionInv'
<1>1. Leq(rxPos, currentTxPos') /\ Leq(txPos, currentTxPos')
      BY LeqTransitive DEF TypeOK, PositionInv
<1>2. \A s \in Senders : Leq(loaded[s], currentTxPos')
      BY LeqTransitive DEF TypeOK, PositionInv
<1>3. \A h \in memory : Leq(h.next, currentTxPos')
      BY LeqTransitive DEF TypeOK, PositionInv, Headers
<1>4. QED
      BY <1>1, <1>2, <1>3 DEF PositionInv, Leq, Less

\* Padding the rest of a slot.
LEMMA SenderPadStep ==
  ASSUME TxInv, NEW s \in Senders, NEW n \in Requests, SenderPad(s, n)
  PROVE  TxInv'
<1> USE DEF TxInv, Lock, sendVars, recVars, fwVars
<1>1. /\ currentTxPos \in Positions
      /\ currentTxPos.slot \in Nat
      /\ currentTxPos.off \in 0..(SlotSize - 1)
      BY DEF TypeOK, Positions, Offsets
<1>2. currentTxPos.off # 0
      BY <1>1, AlignSizeFits, SlotAssumption
         DEF SenderPad, AvailSlotSpace, HeaderSize
<1>3. /\ NextSlotPos \in Positions
      /\ NextSlotPos.slot = currentTxPos.slot + 1
      /\ NextSlotPos.off = 0
      /\ Leq(currentTxPos, NextSlotPos)
      BY <1>1, SlotAssumption
         DEF NextSlotPos, Positions, Offsets, Leq, Less, HeaderSize
<1>4. PaddingHeader \in Headers
      BY <1>1, <1>3 DEF TypeOK, PaddingHeader, Headers
<1>5. TypeOK'
      BY <1>3, <1>4 DEF SenderPad, TypeOK, SenderPc, Put
<1>6. MutexInv'
      BY <1>3, NoneAssumption DEF SenderPad, MutexInv, TypeOK
<1>7. PositionInv'
  <2>1. Leq(rxPos, NextSlotPos) /\ Leq(txPos, NextSlotPos)
        BY <1>1, <1>3, LeqTransitive DEF TypeOK, PositionInv
  <2>2. \A t \in Senders : Leq(loaded[t], NextSlotPos)
        BY <1>1, <1>3, LeqTransitive DEF TypeOK, PositionInv
  <2>3. \A h \in memory : Leq(h.next, NextSlotPos)
        BY <1>1, <1>3, LeqTransitive DEF TypeOK, PositionInv, Headers
  <2>4. /\ Leq(PaddingHeader.next, NextSlotPos)
        /\ PaddingHeader.next.off = 0
        /\ PaddingHeader.next.slot = PaddingHeader.pos.slot + 1
        BY <1>3 DEF PaddingHeader, Leq
  <2>5. memory' \subseteq memory \cup {PaddingHeader}
        BY DEF SenderPad, Put
  <2>6. QED
        BY <2>1, <2>2, <2>3, <2>4, <2>5 DEF SenderPad, PositionInv, Leq, Less
<1>8. RecycleInv'
      BY DEF SenderPad, RecycleInv, SlotsSeen
<1>9. SlotAccounting'
      BY <1>1, <1>2, <1>3 DEF SenderPad, SlotAccounting, SlotsSeen, SlotsEntered
<1>10. QED
      BY <1>5, <1>6, <1>7, <1>8, <1>9

\* Going to wait for a slot.
LEMMA SenderNewSlotStep ==
  ASSUME TxInv, NEW s \in Senders, NEW n \in Requests, SenderNewSlot(s, n)
  PROVE  TxInv'
<1> USE DEF TxInv, Lock, SenderNewSlot, recVars, fwVars
<1>1. TypeOK'
      BY DEF TypeOK, SenderPc
<1>2. MutexInv'
      BY NoneAssumption DEF MutexInv, TypeOK
<1>3. PositionInv'
      BY DEF PositionInv, Leq, Less
<1>4. RecycleInv' /\ SlotAccounting'
      BY DEF RecycleInv, SlotsSeen, SlotAccounting, SlotsEntered
<1>5. QED
      BY <1>1, <1>2, <1>3, <1>4

\* Granting the header at CurrentTxPos.
LEMMA SenderFitStep ==
  ASSUME TxInv, NEW s \in Senders, NEW n \in Requests, SenderFit(s, n)
  PROVE  TxInv'
<1> USE DEF TxInv, Lock, Grant, SenderFit, recVars, fwVars
<1> DEFINE next == Advance(currentTxPos, AlignSize(n))
<1>1. /\ currentTxPos \in Positions
      /\ currentTxPos.slot \in Nat
      /\ currentTxPos.off \in 0..(SlotSize - 1)
      BY DEF TypeOK, Positions, Offsets
<1>2. /\ next \in Positions
      /\ Less(currentTxPos, next)
      /\ next.slot = IF next.off = 0 THEN currentTxPos.slot + 1
                     ELSE currentTxPos.slot
      BY <1>1, AlignSizeFits, AdvanceMoves, SlotAssumption
         DEF AvailSlotSpace
<1>3. currentTxPos' = next /\ currentTxPos.off # 0
      OBVIOUS
<1>4. TypeOK'
      BY <1>1, <1>2, <1>3 DEF TypeOK, SenderPc
<1>5. MutexInv'
  <2>1. currentTxPos.off + AlignSize(n) <= SlotSize
        BY <1>1, AlignSizeFits, SlotAssumption DEF AvailSlotSpace, HeaderSize
  <2>2. QED
        BY <2>1, <1>3, NoneAssumption DEF MutexInv, TypeOK
<1>6. PositionInv'
      BY <1>2, <1>3, PositionInvMonotone DEF Leq
<1>7. RecycleInv'
      BY DEF RecycleInv, SlotsSeen
<1>8. SlotAccounting'
  <2> HIDE DEF next
  <2>1. QED
        BY <1>1, <1>2, <1>3 DEF SlotAccounting, SlotsSeen, SlotsEntered
<1>9. QED
      BY <1>4, <1>5, <1>6, <1>7, <1>8

\* Taking a unit of the semaphore and with it the next slot.
LEMMA SenderTakeSlotStep ==
  ASSUME TxInv, NEW s \in Senders, SenderTakeSlot(s)
  PROVE  TxInv'
<1> USE DEF TxInv, Grant, SenderTakeSlot, recVars, fwVars
<1> DEFINE n == request[s]
           next == Advance(currentTxPos, AlignSize(n))
<1>1. /\ currentTxPos \in Positions
      /\ currentTxPos.slot \in Nat
      /\ currentTxPos.off = 0
      /\ n \in Requests
      /\ txMutex = s
      BY DEF TypeOK, Positions, MutexInv
<1>2. /\ AlignSize(n) \in HeaderSize..SlotSize
      /\ AlignSize(n) % HeaderSize = 0
      BY <1>1, AlignSizeFits
<1>3. currentTxPos.off + AlignSize(n) <= SlotSize
      BY <1>1, <1>2, SlotAssumption DEF HeaderSize
<1>4. /\ next \in Positions
      /\ Less(currentTxPos, next)
      /\ next.slot = IF next.off = 0 THEN currentTxPos.slot + 1
                     ELSE currentTxPos.slot
      BY <1>1, <1>2, <1>3, AdvanceMoves
<1>5. currentTxPos' = next
      OBVIOUS
<1>6. QueuedSlot(currentTxPos) \in Slots \cup {NoSlot}
  <2>1. currentTxPos.slot % RingSize \in 0..(RingSize - 1)
        BY <1>1, SlotAssumption DEF NumSlots
  <2>2. QED
        BY <2>1 DEF TypeOK, QueuedSlot
<1>7. TypeOK'
      BY <1>1, <1>4, <1>5, <1>6 DEF TypeOK, SenderPc
<1>8. MutexInv'
      BY <1>1, <1>3, <1>5 DEF MutexInv, TypeOK
<1>9. PositionInv'
      BY <1>4, <1>5, PositionInvMonotone DEF Leq
<1>10. RecycleInv'
      BY DEF RecycleInv, SlotsSeen
<1>11. SlotAccounting'
  <2> HIDE DEF next
  <2>1. SlotsEntered = currentTxPos.slot /\ SlotsEntered' = currentTxPos.slot + 1
        BY <1>1, <1>4, <1>5 DEF SlotsEntered
  <2>2. SlotsSeen' = SlotsSeen
        BY DEF SlotsSeen
  <2>3. QED
        BY <1>1, <2>1, <2>2 DEF SlotAccounting, TypeOK
<1>12. QED
      BY <1>7, <1>8, <1>9, <1>10, <1>11

\* Giving up.
LEMMA SenderFailStep ==
  ASSUME TxInv, NEW s \in Senders, SenderFail(s)
  PROVE  TxInv'
<1> USE DEF TxInv, SenderFail, recVars, fwVars
<1>1. TypeOK'
      BY DEF TypeOK, SenderPc
<1>2. MutexInv'
      BY NoneAssumption DEF MutexInv, TypeOK
<1>3. PositionInv' /\ RecycleInv' /\ SlotAccounting'
      BY DEF PositionInv, Leq, Less, RecycleInv, SlotsSeen, SlotAccounting,
             SlotsEntered
<1>4. QED
      BY <1>1, <1>2, <1>3

\* Writing the message and releasing the mutex.
LEMMA SenderWriteStep ==
  ASSUME TxInv, NEW s \in Senders, SenderWrite(s)
  PROVE  TxInv'
<1> USE DEF TxInv, SenderWrite, recVars, fwVars
<1> DEFINE h == [at |-> slaveCurrentSlot, pos |-> header[s],
                 next |-> Advance(header[s], AlignSize(request[s])),
                 padding |-> FALSE]
<1>1. /\ header[s] \in Positions
      /\ request[s] \in Requests
      /\ header[s].off + AlignSize(request[s]) <= SlotSize
      /\ currentTxPos = h.next
      /\ txMutex = s
      BY DEF TypeOK, MutexInv
<1>2. /\ h.next \in Positions
      /\ h.next.slot = IF h.next.off = 0 THEN h.pos.slot + 1 ELSE h.pos.slot
      BY <1>1, AlignSizeFits, AdvanceMoves
<1>3. memory' \subseteq memory \cup {h}
      BY DEF Put
<1>4. TypeOK'
  <2>1. h \in Headers
        BY <1>1, <1>2 DEF TypeOK, Headers
  <2> HIDE DEF h
  <2>2. QED
        BY <1>3, <2>1, StartPosType DEF TypeOK, SenderPc
<1>5. MutexInv'
      BY <1>1, NoneAssumption DEF MutexInv, TypeOK
<1>6. PositionInv'
  <2>1. Leq(h.next, currentTxPos)
        BY <1>1 DEF Leq
  <2> HIDE DEF h
  <2>2. QED
        BY <1>2, <1>3, <2>1 DEF PositionInv, Leq, Less
<1>7. RecycleInv' /\ SlotAccounting'
      BY DEF RecycleInv, SlotsSeen, SlotAccounting, SlotsEntered
<1>8. QED
      BY <1>4, <1>5, <1>6, <1>7

\* Reading CurrentTxPos, publishing what was read, signalling.
LEMMA SenderPublishStep ==
  ASSUME TxInv, NEW s \in Senders,
         SenderLoad(s) \/ SenderStore(s) \/ SenderSignal(s)
  PROVE  TxInv'
<1> USE DEF TxInv, recVars, fwVars
<1>1. /\ Leq(StartPos, currentTxPos)
      /\ Leq(currentTxPos, currentTxPos)
      /\ StartPos \in Positions
  <2>1. currentTxPos.slot \in Nat /\ currentTxPos.off \in Nat
        BY SlotAssumption DEF TypeOK, Positions, Offsets
  <2>2. StartPos.slot = 0 /\ StartPos.off = 0
        BY DEF StartPos
  <2>3. currentTxPos = [slot |-> currentTxPos.slot, off |-> currentTxPos.off]
        BY DEF TypeOK, Positions
  <2>4. CASE currentTxPos.slot = 0 /\ currentTxPos.off = 0
        BY <2>3, <2>4, StartPosType DEF StartPos, Leq
  <2>5. CASE ~(currentTxPos.slot = 0 /\ currentTxPos.off = 0)
        BY <2>1, <2>2, <2>5, StartPosType DEF Leq, Less
  <2>6. QED
        BY <2>4, <2>5
<1>2. CASE SenderLoad(s)
  <2>1. TypeOK' /\ MutexInv'
        BY <1>2 DEF SenderLoad, TypeOK, SenderPc, MutexInv
  <2>2. PositionInv'
        BY <1>1, <1>2 DEF SenderLoad, PositionInv, TypeOK, Leq, Less
  <2>3. RecycleInv' /\ SlotAccounting'
        BY <1>2 DEF SenderLoad, RecycleInv, SlotsSeen, SlotAccounting,
                    SlotsEntered
  <2>4. QED
        BY <2>1, <2>2, <2>3
<1>3. CASE SenderStore(s)
  <2>1. TypeOK' /\ MutexInv'
        BY <1>1, <1>3 DEF SenderStore, TypeOK, SenderPc, MutexInv
  <2>2. PositionInv'
        BY <1>1, <1>3 DEF SenderStore, PositionInv, TypeOK, Leq, Less
  <2>3. RecycleInv' /\ SlotAccounting'
        BY <1>3 DEF SenderStore, RecycleInv, SlotsSeen, SlotAccounting,
                    SlotsEntered
  <2>4. QED
        BY <2>1, <2>2, <2>3
<1>4. CASE SenderSignal(s)
  <2>1. TypeOK' /\ MutexInv'
        BY <1>4 DEF SenderSignal, TypeOK, SenderPc, MutexInv
  <2>2. PositionInv' /\ RecycleInv' /\ SlotAccounting'
        BY <1>4 DEF SenderSignal, PositionInv, Leq, Less, RecycleInv,
                    SlotsSeen, SlotAccounting, SlotsEntered
  <2>3. QED
        BY <2>1, <2>2
<1>5. QED
      BY <1>2, <1>3, <1>4

\* Parsing a message: the position moves to the end of a message that lies
\* behind CurrentTxPos.
LEMMA FwParseStep ==
  ASSUME TxInv, FwParse
  PROVE  TxInv'
<1> USE DEF TxInv, FwParse, sendVars, recVars
<1> DEFINE slot == IF rxPos.off = 0 THEN QueuedSlot(rxPos) ELSE rxSlot
<1>1. slot \in Slots \cup {NoSlot}
  <2>1. rxPos.slot % RingSize \in 0..(RingSize - 1)
        BY SlotAssumption DEF TypeOK, Positions, NumSlots
  <2>2. QED
        BY <2>1 DEF TypeOK, QueuedSlot
<1>2. MutexInv' /\ SlotAccounting'
      BY DEF MutexInv, SlotAccounting, SlotsSeen, SlotsEntered
<1>3. CASE \E h \in memory :
              /\ h.pos = rxPos
              /\ rxPos' = h.next
              /\ memory' = memory \ {h}
              /\ held' = IF h.next.off = 0 THEN held \cup {slot} ELSE held
              /\ UNCHANGED fwPc
  <2> PICK h \in memory : /\ h.pos = rxPos
                          /\ rxPos' = h.next
                          /\ memory' = memory \ {h}
                          /\ held' = IF h.next.off = 0 THEN held \cup {slot}
                                     ELSE held
                          /\ UNCHANGED fwPc
      BY <1>3
  <2>1. /\ rxPos \in Positions /\ h.next \in Positions
        /\ Leq(h.next, currentTxPos)
        /\ h.next.slot = IF h.next.off = 0 THEN rxPos.slot + 1 ELSE rxPos.slot
        BY DEF TypeOK, Headers, PositionInv
  <2>2. PositionInv'
        BY <2>1 DEF PositionInv, Leq, Less
  <2>3. TypeOK'
        BY <1>1, <2>1 DEF TypeOK
  <2>4. RecycleInv'
    <3>1. IsFiniteSet(held)
          BY HeldFinite
    <3>2. CASE h.next.off = 0
      <4>1. held' = held \cup {slot}
            BY <3>2
      <4> HIDE DEF slot
      <4>2. /\ Cardinality(held) \in Nat /\ Cardinality(held') \in Nat
            /\ Cardinality(held') <= Cardinality(held) + 1
        <5>1. Cardinality(held) \in Nat
              BY <3>1, FS_CardinalityType
        <5>2. Cardinality(held \cup {slot}) =
                IF slot \in held THEN Cardinality(held)
                ELSE Cardinality(held) + 1
              BY <3>1, FS_AddElement, Zenon
        <5>3. QED
              BY <4>1, <5>1, <5>2
      <4>3. TotalTxSlot \in Nat /\ rxPos.slot \in Nat
            BY <2>1, SlotAssumption DEF TotalTxSlot, NumSlots, Positions
      <4>4. QED
            BY <2>1, <3>2, <4>2, <4>3 DEF RecycleInv, SlotsSeen, TypeOK
    <3>3. CASE h.next.off # 0
          BY <2>1, <3>3 DEF RecycleInv, SlotsSeen
    <3>4. QED
          BY <3>2, <3>3
  <2>5. QED
        BY <1>2, <2>2, <2>3, <2>4
<1>4. CASE fwPc' = "lost" /\ UNCHANGED <<rxPos, memory, held>>
  <2>1. TypeOK'
        BY <1>1, <1>4 DEF TypeOK
  <2>2. PositionInv' /\ RecycleInv'
        BY <1>4 DEF PositionInv, Leq, Less, RecycleInv, SlotsSeen
  <2>3. QED
        BY <1>2, <2>1, <2>2
<1>5. QED
      BY <1>3, <1>4

\* Waking, going to sleep, recycling a parsed slot and signalling it.
LEMMA FwOtherStep ==
  ASSUME TxInv, FwWake \/ FwSleep \/ FwRecycle \/ FwSignal
  PROVE  TxInv'
<1> USE DEF TxInv, sendVars, recVars
<1>1. CASE FwWake \/ FwSleep \/ FwSignal
  <2>1. TypeOK'
        BY <1>1 DEF FwWake, FwSleep, FwSignal, TypeOK
  <2>2. MutexInv' /\ PositionInv'
        BY <1>1 DEF FwWake, FwSleep, FwSignal, MutexInv, PositionInv, Leq, Less
  <2>3. RecycleInv' /\ SlotAccounting'
        BY <1>1 DEF FwWake, FwSleep, FwSignal, RecycleInv, SlotAccounting,
                    SlotsSeen, SlotsEntered
  <2>4. QED
        BY <2>1, <2>2, <2>3
<1>2. CASE FwRecycle
  <2> USE DEF FwRecycle
  <2> PICK slot \in held :
         /\ slotQueue' = [slotQueue EXCEPT ![slotQueueRecycle % RingSize] = slot]
         /\ held' = held \ {slot}
      BY <1>2
  <2>1. slotQueueRecycle % RingSize \in 0..(RingSize - 1)
        BY SlotAssumption DEF TypeOK, NumSlots
  <2>2. TypeOK'
        BY <1>2, <2>1 DEF TypeOK
  <2>3. MutexInv' /\ PositionInv' /\ SlotAccounting'
        BY <1>2 DEF MutexInv, PositionInv, Leq, Less, SlotAccounting,
                    SlotsSeen, SlotsEntered
  <2>4. RecycleInv'
    <3>1. IsFiniteSet(held)
          BY HeldFinite
    <3>2. /\ Cardinality(held) \in Nat
          /\ Cardinality(held') = Cardinality(held) - 1
          BY <3>1, FS_RemoveElement, FS_CardinalityType
    <3>3. TotalTxSlot \in Nat /\ rxPos.slot \in Nat
          BY SlotAssumption DEF TotalTxSlot, NumSlots, Positions, TypeOK
    <3>4. QED
          BY <1>2, <3>2, <3>3 DEF RecycleInv, SlotsSeen, TypeOK
  <2>5. QED
        BY <2>2, <2>3, <2>4
<1>3. QED
      BY <1>1, <1>2

\* A pass of VchiqProcessRecycleTxSlot.
LEMMA RecycleThreadStep ==
  ASSUME TxInv, RecycleThread
  PROVE  TxInv'
<1> USE DEF TxInv, sendVars, fwVars
<1>1. SlotsEntered \in Nat
      BY SlotAssumption DEF SlotsEntered, TypeOK, Positions, Offsets
<1>2. CASE RecBegin
  <2> USE <1>2 DEF RecBegin
  <2>1. TypeOK'
        BY DEF TypeOK, RecyclePc
  <2>2. MutexInv' /\ PositionInv'
        BY DEF MutexInv, PositionInv, Leq, Less
  <2>3. RecycleInv' /\ SlotAccounting'
        BY <1>1 DEF RecycleInv, SlotAccounting, SlotsSeen, SlotsEntered, TypeOK
  <2>4. QED
        BY <2>1, <2>2, <2>3
<1>3. CASE RecRelease
  <2> USE <1>3 DEF RecRelease
  <2>1. TypeOK'
    <3>1. availableTxSlot' \in Nat /\ recIndex' \in Nat
          BY DEF TypeOK
    <3>2. QED
          BY <3>1, Zenon DEF TypeOK, RecyclePc, recVars
  <2>2. MutexInv' /\ PositionInv'
        BY DEF MutexInv, PositionInv, Leq, Less
  <2>3. RecycleInv' /\ SlotAccounting'
    <3>1. SlotsEntered' = SlotsEntered
          BY DEF SlotsEntered
    <3>2. recIndex \in Nat /\ slotQueueRecycle \in Nat /\ availableTxSlot \in Nat
          BY DEF TypeOK
    <3>3. QED
          BY <1>1, <3>1, <3>2 DEF RecycleInv, SlotAccounting, SlotsSeen
  <2>4. QED
        BY <2>1, <2>2, <2>3
<1>4. CASE RecEnd
  <2> USE <1>4 DEF RecEnd
  <2>1. TypeOK'
        BY DEF TypeOK, RecyclePc
  <2>2. MutexInv' /\ PositionInv'
        BY DEF MutexInv, PositionInv, Leq, Less
  <2>3. RecycleInv' /\ SlotAccounting'
        BY <1>1 DEF RecycleInv, SlotAccounting, SlotsSeen, SlotsEntered, TypeOK
  <2>4. QED
        BY <2>1, <2>2, <2>3
<1>5. QED
      BY <1>2, <1>3, <1>4 DEF RecycleThread

\* Every step of the specification preserves the invariant.
LEMMA NextTxInv == TxInv /\ [Next]_vars => TxInv'
<1> SUFFICES ASSUME TxInv, [Next]_vars
             PROVE  TxInv'
    OBVIOUS
<1>1. CASE \E s \in Senders : Sender(s)
      BY <1>1, SenderPadStep, SenderNewSlotStep, SenderFitStep,
         SenderTakeSlotStep, SenderFailStep, SenderWriteStep,
         SenderPublishStep
         DEF Sender
<1>2. CASE Firmware
      BY <1>2, FwParseStep, FwOtherStep DEF Firmware
<1>3. CASE RecycleThread
      BY <1>3, RecycleThreadStep
<1>4. CASE UNCHANGED vars
  <2> USE <1>4 DEF TxInv, vars, sendVars, recVars, fwVars
  <2>1. TypeOK'
        BY DEF TypeOK
  <2>2. MutexInv' /\ PositionInv'
        BY DEF MutexInv, PositionInv, Leq, Less
  <2>3. RecycleInv' /\ SlotAccounting'
        BY DEF RecycleInv, SlotAccounting, SlotsSeen, SlotsEntered
  <2>4. QED
        BY <2>1, <2>2, <2>3
<1>5. QED
      BY <1>1, <1>2, <1>3, <1>4 DEF Next

-----------------------------------------------------------------------------
(* Results. *)

\* The inductive invariant holds throughout.
THEOREM TxInvariant == Spec => []TxInv
BY InitTxInv, NextTxInv, PTL DEF Spec

\* The state of the transmit side keeps its types: positions are 8-byte
\* aligned and inside a slot whatever sizes are sent.
THEOREM TxTypeCorrect == Spec => []TypeOK
<1>1. TxInv => TypeOK
      BY DEF TxInv
<1>2. QED
      BY <1>1, TxInvariant, PTL

\* Each unit of AvailableTxSlot stands for one slot of the stream.
THEOREM SlotAccountingHolds == Spec => []SlotAccounting
<1>1. TxInv => SlotAccounting
      BY DEF TxInv
<1>2. QED
      BY <1>1, TxInvariant, PTL

\* KeReleaseSemaphore is never called beyond the limit of the semaphore.
THEOREM SemaphoreWithinLimitHolds == Spec => []SemaphoreWithinLimit
<1>1. ASSUME TxInv PROVE SemaphoreWithinLimit
  <2> USE <1>1 DEF TxInv
  <2>1. /\ rxPos.slot \in Nat /\ currentTxPos.slot \in Nat
        /\ TotalTxSlot \in Nat /\ availableTxSlot \in Nat
        /\ slotQueueRecycle \in Nat /\ SlotsSeen \in Nat
        BY SlotAssumption
           DEF TypeOK, Positions, TotalTxSlot, NumSlots, SlotsSeen
  <2>2. rxPos.slot <= currentTxPos.slot
        BY <2>1 DEF PositionInv, Leq, Less
  <2>3. currentTxPos.slot <= SlotsEntered /\ SlotsEntered \in Nat
        BY <2>1 DEF SlotsEntered
  <2>4. Cardinality(held) \in Nat
        BY HeldFinite, FS_CardinalityType
  <2>5. QED
        BY <2>1, <2>2, <2>3, <2>4
           DEF RecycleInv, SlotAccounting, SemaphoreWithinLimit
<1>2. QED
      BY <1>1, TxInvariant, PTL

-----------------------------------------------------------------------------
(***************************************************************************)
(* What is in the slots: messages lie one behind the other from the        *)
(* firmware's position to the last one written, in slots that are neither  *)
(* mixed up nor used again too early.  That the firmware reads them is so  *)
(* with one sender, see slots.c:948.                                       *)
(***************************************************************************)

SlotAt(i) == slotQueue[i % RingSize]

\* Slots of the stream that the firmware gave back and has not parsed since.
Window == rxPos.slot .. (slotQueueRecycle - 1)

\* No slot of the ring is in the stream twice, or in it and with the firmware.
WindowInv ==
  /\ held \subseteq Slots
  /\ \A i \in Window : SlotAt(i) \in Slots \ held
  /\ \A i, j \in Window : SlotAt(i) = SlotAt(j) => i = j

\* The position up to which messages are written.
Written ==
  IF \E s \in Senders : pc[s] = "write" THEN header[txMutex] ELSE currentTxPos

WriterInv ==
  /\ \A s \in Senders : pc[s] = "write" => slaveCurrentSlot = QueuedSlot(header[s])
  /\ currentTxPos.off # 0 => slaveCurrentSlot = QueuedSlot(currentTxPos)

ReaderInv ==
  /\ Leq(rxPos, Written)
  /\ rxPos.off # 0 => rxSlot = QueuedSlot(rxPos)

\* Messages lie apart, ahead of the firmware, in the slot their position says.
MessageInv ==
  \A h \in memory :
    /\ Leq(rxPos, h.pos) /\ Less(h.pos, h.next) /\ Leq(h.next, Written)
    /\ h.at = QueuedSlot(h.pos)
    /\ \A g \in memory : g = h \/ Leq(g.next, h.pos) \/ Leq(h.next, g.pos)

StartsAt(p) == p = Written \/ \E h \in memory : h.pos = p

\* No bytes without a message between the firmware's position and the last.
Gapless == StartsAt(rxPos) /\ \A h \in memory : StartsAt(h.next)

StreamInv == WindowInv /\ WriterInv /\ ReaderInv /\ MessageInv /\ Gapless

-----------------------------------------------------------------------------
(* Indexes of the ring. *)

\* Division with remainder.
LEMMA DivMod ==
  ASSUME NEW n \in Nat \ {0}, NEW i \in Nat
  PROVE  i = n * (i \div n) + (i % n) /\ i \div n \in Int /\ i % n \in 0..(n - 1)
BY Z3

\* Two indexes less than a ring apart are two entries of the ring.
LEMMA ModDistinct ==
  ASSUME NEW n \in Nat \ {0}, NEW i \in Nat, NEW j \in Nat, i < j, j < i + n
  PROVE  i % n # j % n
<1> SUFFICES ASSUME i % n = j % n PROVE FALSE
    OBVIOUS
<1> DEFINE a == i \div n
           b == j \div n
<1>1. a \in Int /\ b \in Int /\ i = n * a + (i % n) /\ j = n * b + (j % n)
      BY DivMod
<1>2. j - i = n * (b - a)
      BY <1>1
<1>3. b - a > 0
      BY <1>1, <1>2
<1>4. n * (b - a) >= n
      BY <1>1, <1>3
<1>5. QED
      BY <1>2, <1>4

-----------------------------------------------------------------------------
(* The order of positions. *)

\* Less is the strict part of the total order Leq.
LEMMA Order ==
  ASSUME NEW p \in Positions, NEW q \in Positions, NEW r \in Positions
  PROVE  /\ ~Less(p, p) /\ Leq(p, p)
         /\ Less(p, q) => Leq(p, q) /\ ~Leq(q, p)
         /\ Leq(p, q) \/ Less(q, p)
         /\ Leq(p, q) /\ Leq(q, p) => p = q
         /\ Leq(p, q) /\ Leq(q, r) => Leq(p, r)
         /\ Less(p, q) /\ Leq(q, r) => Less(p, r)
         /\ Leq(p, q) /\ Less(q, r) => Less(p, r)
         /\ p.slot = q.slot /\ p.off = q.off => p = q
         /\ Leq(p, q) => p.slot <= q.slot
<1>1. /\ p.slot \in Nat /\ q.slot \in Nat /\ r.slot \in Nat
      /\ p.off \in Int /\ q.off \in Int /\ r.off \in Int
      BY SlotAssumption DEF Positions, Offsets
<1>2. p.slot = q.slot /\ p.off = q.off => p = q
  <2>1. /\ p = [slot |-> p.slot, off |-> p.off]
        /\ q = [slot |-> q.slot, off |-> q.off]
        BY DEF Positions
  <2>2. QED
        BY <2>1
<1>3. QED
      BY <1>1, <1>2 DEF Leq, Less

-----------------------------------------------------------------------------
(* The window of slots. *)

\* It is smaller than the ring, and holds what the senders entered.
LEMMA WindowBounds ==
  ASSUME TxInv
  PROVE  /\ slotQueueRecycle \in Nat /\ rxPos.slot \in Nat
         /\ TotalTxSlot \in Nat /\ RingSize \in Nat \ {0} /\ TotalTxSlot < RingSize
         /\ slotQueueRecycle <= rxPos.slot + TotalTxSlot
         /\ SlotsEntered \in Nat /\ SlotsEntered <= slotQueueRecycle
         /\ rxPos.slot <= SlotsEntered
         /\ Window \subseteq Nat
<1> USE DEF TxInv
<1>1. /\ slotQueueRecycle \in Nat /\ rxPos.slot \in Nat /\ currentTxPos.slot \in Nat
      /\ availableTxSlot \in Nat
      BY DEF TypeOK, Positions
<1>2. TotalTxSlot \in Nat /\ RingSize \in Nat \ {0} /\ TotalTxSlot < RingSize
      BY SlotAssumption DEF TotalTxSlot, NumSlots
<1>3. Cardinality(held) \in Nat
      BY HeldFinite, FS_CardinalityType
<1>4. slotQueueRecycle <= rxPos.slot + TotalTxSlot
      BY <1>1, <1>2, <1>3 DEF RecycleInv
<1>5. SlotsEntered \in Nat /\ currentTxPos.slot <= SlotsEntered
      BY <1>1 DEF SlotsEntered
<1>6. SlotsSeen \in Nat
      BY DEF SlotsSeen, TypeOK
<1>7. SlotsEntered <= slotQueueRecycle
      BY <1>1, <1>5, <1>6 DEF SlotAccounting, RecycleInv
<1>8. rxPos.slot <= currentTxPos.slot
      BY Order DEF PositionInv, TypeOK
<1>9. QED
      BY <1>1, <1>2, <1>4, <1>5, <1>7, <1>8 DEF Window

\* What is being written lies behind CurrentTxPos.
LEMMA WrittenBehind ==
  ASSUME TxInv
  PROVE  /\ Written \in Positions
         /\ Leq(Written, currentTxPos)
         /\ \A s \in Senders : pc[s] = "write" =>
              /\ Written = header[s] /\ txMutex = s
              /\ Less(header[s], currentTxPos)
         /\ (\A s \in Senders : pc[s] # "write") => Written = currentTxPos
<1> USE DEF TxInv
<1>1. \A s \in Senders : pc[s] = "write" =>
        /\ Written = header[s] /\ txMutex = s
        /\ header[s] \in Positions
        /\ Less(header[s], currentTxPos)
  <2> SUFFICES ASSUME NEW s \in Senders, pc[s] = "write"
               PROVE  /\ Written = header[s] /\ txMutex = s
                      /\ header[s] \in Positions
                      /\ Less(header[s], currentTxPos)
      OBVIOUS
  <2>1. txMutex = s /\ header[s] \in Positions /\ request[s] \in Requests
        BY DEF MutexInv, TypeOK
  <2>2. Written = header[s]
        BY <2>1 DEF Written
  <2>3. /\ currentTxPos = Advance(header[s], AlignSize(request[s]))
        /\ header[s].off + AlignSize(request[s]) <= SlotSize
        BY DEF MutexInv
  <2>4. Less(header[s], currentTxPos)
        BY <2>1, <2>3, AlignSizeFits, AdvanceMoves
  <2>5. QED
        BY <2>1, <2>2, <2>4
<1>2. (\A s \in Senders : pc[s] # "write") => Written = currentTxPos
      BY DEF Written
<1>3. currentTxPos \in Positions
      BY DEF TypeOK
<1>4. CASE \E s \in Senders : pc[s] = "write"
      BY <1>1, <1>2, <1>3, <1>4, Order
<1>5. CASE \A s \in Senders : pc[s] # "write"
      BY <1>1, <1>2, <1>3, <1>5, Order
<1>6. QED
      BY <1>4, <1>5

\* A position behind CurrentTxPos lies in a slot of the window.
LEMMA InWindow ==
  ASSUME TxInv, NEW p \in Positions, Leq(rxPos, p),
         Less(p, currentTxPos) \/ (p = currentTxPos /\ p.off # 0)
  PROVE  p.slot \in Window
<1>1. /\ rxPos \in Positions /\ currentTxPos \in Positions
      /\ p.slot \in Nat /\ currentTxPos.slot \in Nat
      /\ p.off \in Nat /\ currentTxPos.off \in Nat
      BY SlotAssumption DEF TxInv, TypeOK, Positions, Offsets
<1>2. rxPos.slot <= p.slot
      BY <1>1, Order
<1>3. p.slot < SlotsEntered
      BY <1>1 DEF Less, SlotsEntered
<1>4. QED
      BY <1>1, <1>2, <1>3, WindowBounds DEF Window

\* Messages lie behind CurrentTxPos, in the window.
LEMMA MessageInWindow ==
  ASSUME TxInv, StreamInv, NEW h \in memory
  PROVE  /\ h.pos \in Positions /\ h.next \in Positions
         /\ Less(h.pos, Written)
         /\ h.pos.slot \in Window
<1>1. h.pos \in Positions /\ h.next \in Positions /\ currentTxPos \in Positions
      BY DEF TxInv, TypeOK, Headers
<1>2. Leq(rxPos, h.pos) /\ Less(h.pos, h.next) /\ Leq(h.next, Written)
      BY DEF StreamInv, MessageInv
<1>3. Less(h.pos, Written) /\ Less(h.pos, currentTxPos)
      BY <1>1, <1>2, WrittenBehind, Order
<1>4. QED
      BY <1>1, <1>2, <1>3, InWindow

-----------------------------------------------------------------------------
(* Steps. *)

\* Steps that touch neither slots nor messages.
LEMMA QuietStep ==
  ASSUME StreamInv,
         UNCHANGED <<slotQueue, slotQueueRecycle, rxPos, rxSlot, held, memory,
                     slaveCurrentSlot, currentTxPos, header>>,
         \A s \in Senders : pc'[s] = "write" <=> pc[s] = "write",
         (\E s \in Senders : pc[s] = "write") => UNCHANGED txMutex
  PROVE  StreamInv'
<1>1. Written' = Written
      BY DEF Written
<1>2. WindowInv'
      BY DEF StreamInv, WindowInv, Window, SlotAt
<1>3. WriterInv'
      BY DEF StreamInv, WriterInv, QueuedSlot
<1>4. ReaderInv'
      BY <1>1 DEF StreamInv, ReaderInv, QueuedSlot, Leq, Less
<1>5. MessageInv'
      BY <1>1 DEF StreamInv, MessageInv, QueuedSlot, Leq, Less
<1>6. Gapless'
      BY <1>1 DEF StreamInv, Gapless, StartsAt
<1>7. QED
      BY <1>2, <1>3, <1>4, <1>5, <1>6 DEF StreamInv

\* A message written from the end of the messages to their new end overwrites
\* none of them.
LEMMA AppendStep ==
  ASSUME TxInv, TxInv', StreamInv, NEW h \in Headers,
         h.pos = Written, h.next = Written', Less(Written, Written'),
         h.at = QueuedSlot(h.pos), h.pos.slot \in Window,
         memory' = Put(h), UNCHANGED <<slotQueue, slotQueueRecycle, rxPos, rxSlot, held>>
  PROVE  /\ memory' = memory \cup {h}
         /\ WindowInv' /\ ReaderInv' /\ MessageInv' /\ Gapless'
<1>1. /\ Written \in Positions /\ Written' \in Positions /\ rxPos \in Positions
      /\ h.pos \in Positions /\ h.next \in Positions
      BY WrittenBehind DEF TxInv, TypeOK, Headers
<1>2. ASSUME NEW g \in memory
      PROVE  /\ g.pos \in Positions /\ g.next \in Positions
             /\ Less(g.pos, h.pos) /\ Leq(g.next, h.pos)
             /\ ~(g.at = h.at /\ g.pos.off = h.pos.off)
  <2>1. /\ g.pos \in Positions /\ g.next \in Positions
        /\ Less(g.pos, h.pos) /\ Leq(g.next, h.pos)
        /\ g.pos.slot \in Window /\ g.at = QueuedSlot(g.pos)
        BY MessageInWindow DEF StreamInv, MessageInv
  <2>2. g.at = h.at => g.pos.slot = h.pos.slot
        BY <2>1 DEF StreamInv, WindowInv, QueuedSlot, SlotAt
  <2>3. QED
        BY <1>1, <2>1, <2>2, Order
<1>3. memory' = memory \cup {h}
      BY <1>2 DEF Put
<1>4. WindowInv'
      BY DEF StreamInv, WindowInv, Window, SlotAt
<1>5. ReaderInv'
  <2>1. Leq(rxPos, Written')
        BY <1>1, Order DEF StreamInv, ReaderInv
  <2>2. QED
        BY <2>1 DEF StreamInv, ReaderInv, QueuedSlot, Leq, Less
<1>6. MessageInv'
  <2> SUFFICES ASSUME NEW g \in memory'
               PROVE  /\ Leq(rxPos, g.pos) /\ Less(g.pos, g.next) /\ Leq(g.next, Written')
                      /\ g.at = QueuedSlot(g.pos)
                      /\ \A k \in memory' : k = g \/ Leq(k.next, g.pos) \/ Leq(g.next, k.pos)
      BY DEF MessageInv, QueuedSlot, Leq, Less
  <2>1. CASE g = h
    <3>1. Leq(rxPos, g.pos) /\ Less(g.pos, g.next) /\ Leq(g.next, Written')
          BY <1>1, <2>1, Order DEF StreamInv, ReaderInv
    <3>2. QED
          BY <1>2, <1>3, <2>1, <3>1
  <2>2. CASE g \in memory
    <3>1. Leq(g.next, Written')
          BY <1>1, <1>2, <2>2, Order
    <3>2. \A k \in memory' : k = g \/ Leq(k.next, g.pos) \/ Leq(g.next, k.pos)
          BY <1>2, <1>3, <2>2 DEF StreamInv, MessageInv
    <3>3. QED
          BY <2>2, <3>1, <3>2 DEF StreamInv, MessageInv
  <2>3. QED
        BY <1>3, <2>1, <2>2
<1>7. Gapless'
  <2>1. ASSUME NEW p, StartsAt(p)
        PROVE  StartsAt(p)'
        BY <1>3, <2>1 DEF StartsAt
  <2>2. StartsAt(h.next)'
        BY DEF StartsAt
  <2>3. QED
        BY <1>3, <2>1, <2>2 DEF StreamInv, Gapless
<1>8. QED
      BY <1>3, <1>4, <1>5, <1>6, <1>7

\* The padding message.
LEMMA SenderPadStream ==
  ASSUME TxInv, TxInv', StreamInv, NEW s \in Senders, NEW n \in Requests, SenderPad(s, n)
  PROVE  StreamInv' /\ memory \subseteq memory'
<1> USE DEF SenderPad, Lock, recVars, fwVars
<1>1. /\ currentTxPos \in Positions /\ currentTxPos' \in Positions
      /\ currentTxPos.slot \in Nat /\ currentTxPos.off \in 0..(SlotSize - 1)
      BY DEF TxInv, TypeOK, Positions, Offsets
<1>2. currentTxPos.off # 0
      BY <1>1, AlignSizeFits, SlotAssumption DEF AvailSlotSpace, HeaderSize
<1>3. \A t \in Senders : pc[t] # "write" /\ pc'[t] # "write"
      BY NoneAssumption DEF TxInv, MutexInv, TypeOK
<1>4. Written = currentTxPos /\ Written' = NextSlotPos
      BY <1>3 DEF Written
<1>5. PaddingHeader \in Headers
      BY <1>1 DEF PaddingHeader, Headers, TxInv, TypeOK
<1>6. Less(Written, Written')
      BY <1>1, <1>4 DEF NextSlotPos, Less
<1>7. PaddingHeader.at = QueuedSlot(currentTxPos)
      BY <1>2 DEF PaddingHeader, StreamInv, WriterInv
<1>8. currentTxPos.slot \in Window
      BY <1>1, <1>2, <1>4, InWindow DEF StreamInv, ReaderInv
<1>9. /\ memory' = memory \cup {PaddingHeader}
      /\ WindowInv' /\ ReaderInv' /\ MessageInv' /\ Gapless'
  <2> DEFINE h == PaddingHeader
  <2>1. h.pos = Written /\ h.next = Written' /\ h.at = QueuedSlot(h.pos)
        BY <1>4, <1>7 DEF PaddingHeader
  <2>2. h.pos.slot \in Window
        BY <1>8 DEF PaddingHeader
  <2> HIDE DEF h
  <2>3. QED
        BY <1>5, <1>6, <2>1, <2>2, AppendStep DEF h
<1>10. WriterInv'
      BY <1>3 DEF WriterInv, NextSlotPos
<1>11. QED
      BY <1>9, <1>10 DEF StreamInv

\* The header and data of a message.
LEMMA SenderWriteStream ==
  ASSUME TxInv, TxInv', StreamInv, NEW s \in Senders, SenderWrite(s)
  PROVE  StreamInv' /\ memory \subseteq memory'
<1> USE DEF SenderWrite, recVars, fwVars
<1> DEFINE h == [at |-> slaveCurrentSlot, pos |-> header[s],
                 next |-> Advance(header[s], AlignSize(request[s])),
                 padding |-> FALSE]
<1>1. /\ header[s] \in Positions /\ request[s] \in Requests
      /\ header[s].off + AlignSize(request[s]) <= SlotSize
      /\ currentTxPos = h.next /\ currentTxPos \in Positions
      BY DEF TxInv, TypeOK, MutexInv
<1>2. Written = header[s] /\ Less(header[s], currentTxPos)
      BY WrittenBehind
<1>3. \A t \in Senders : pc'[t] # "write"
      BY DEF TxInv, MutexInv, TypeOK
<1>4. Written' = currentTxPos
      BY <1>3 DEF Written
<1>5. h \in Headers
      BY <1>1 DEF Headers, TxInv, TypeOK
<1>6. header[s].slot \in Window
      BY <1>1, <1>2, InWindow DEF StreamInv, ReaderInv
<1>7. h.pos = Written /\ h.next = Written' /\ h.at = QueuedSlot(h.pos) /\ h.pos.slot \in Window
      BY <1>1, <1>2, <1>4, <1>6 DEF StreamInv, WriterInv
<1>8. memory' = Put(h) /\ Less(Written, Written')
      BY <1>2, <1>4
<1>9. /\ memory' = memory \cup {h}
      /\ WindowInv' /\ ReaderInv' /\ MessageInv' /\ Gapless'
  <2> HIDE DEF h
  <2>1. QED
        BY <1>5, <1>7, <1>8, AppendStep
<1>10. WriterInv'
      BY <1>3 DEF StreamInv, WriterInv, QueuedSlot
<1>11. QED
      BY <1>9, <1>10 DEF StreamInv

\* CurrentTxPos moves over a message that is not written yet.
LEMMA GrantStream ==
  ASSUME TxInv, TxInv', StreamInv, NEW s \in Senders,
         Written = currentTxPos, \A t \in Senders : pc[t] # "write",
         header' = [header EXCEPT ![s] = currentTxPos], pc'[s] = "write",
         txMutex' = s, slaveCurrentSlot' = QueuedSlot(currentTxPos),
         UNCHANGED <<slotQueue, slotQueueRecycle, rxPos, rxSlot, held, memory>>
  PROVE  StreamInv'
<1>1. currentTxPos \in Positions /\ header'[s] = currentTxPos
      BY DEF TxInv, TypeOK
<1>2. Written' = Written
      BY <1>1 DEF Written
<1>3. WindowInv'
      BY DEF StreamInv, WindowInv, Window, SlotAt
<1>4. WriterInv'
  <2>1. \A t \in Senders : pc'[t] = "write" => t = s
        BY DEF TxInv, MutexInv
  <2>2. currentTxPos'.off # 0 => currentTxPos'.slot = currentTxPos.slot
    <3>1. /\ request'[s] \in Requests
          /\ header'[s].off + AlignSize(request'[s]) <= SlotSize
          /\ currentTxPos' = Advance(header'[s], AlignSize(request'[s]))
          BY DEF TxInv, MutexInv
    <3>2. QED
          BY <1>1, <3>1, AlignSizeFits, AdvanceMoves
  <2>3. QED
        BY <1>1, <2>1, <2>2 DEF WriterInv, QueuedSlot
<1>5. ReaderInv'
      BY <1>2 DEF StreamInv, ReaderInv, QueuedSlot, Leq, Less
<1>6. MessageInv'
      BY <1>2 DEF StreamInv, MessageInv, QueuedSlot, Leq, Less
<1>7. Gapless'
      BY <1>2 DEF StreamInv, Gapless, StartsAt
<1>8. QED
      BY <1>3, <1>4, <1>5, <1>6, <1>7 DEF StreamInv

\* The firmware moves behind a message, and keeps its slot when that was the
\* last one in it.
LEMMA FwParseStream ==
  ASSUME TxInv, StreamInv, FwParse
  PROVE  /\ StreamInv'
         /\ \A h \in memory \ memory' : h.pos = rxPos /\ rxPos' = h.next
<1> USE DEF FwParse, sendVars, recVars
<1> DEFINE slot == IF rxPos.off = 0 THEN QueuedSlot(rxPos) ELSE rxSlot
<1>1. slot = QueuedSlot(rxPos)
      BY DEF StreamInv, ReaderInv
<1>2. Written' = Written /\ WriterInv'
      BY DEF Written, StreamInv, WriterInv, QueuedSlot
<1>3. rxPos \in Positions /\ Written \in Positions
      BY WrittenBehind DEF TxInv, TypeOK
<1>4. CASE \E h \in memory :
              /\ h.pos = rxPos
              /\ rxPos' = h.next
              /\ memory' = memory \ {h}
              /\ held' = IF h.next.off = 0 THEN held \cup {slot} ELSE held
  <2> PICK h \in memory : /\ h.pos = rxPos
                          /\ rxPos' = h.next
                          /\ memory' = memory \ {h}
                          /\ held' = IF h.next.off = 0 THEN held \cup {slot} ELSE held
      BY <1>4
  <2>1. /\ h.next \in Positions /\ Less(rxPos, h.next) /\ Leq(h.next, Written)
        /\ rxPos.slot \in Window
        /\ h.next.slot = IF h.next.off = 0 THEN rxPos.slot + 1 ELSE rxPos.slot
        BY MessageInWindow DEF StreamInv, MessageInv, TxInv, PositionInv
  <2>2. ASSUME NEW g \in memory, g # h
        PROVE  /\ g.pos \in Positions /\ g.next \in Positions
               /\ Leq(h.next, g.pos) /\ g.next # rxPos
    <3>1. /\ g.pos \in Positions /\ g.next \in Positions
          /\ Leq(rxPos, g.pos) /\ Less(g.pos, g.next)
          /\ Leq(g.next, rxPos) \/ Leq(h.next, g.pos)
          BY <2>2, MessageInWindow DEF StreamInv, MessageInv
    <3>2. Less(rxPos, g.next)
          BY <1>3, <3>1, Order
    <3>3. QED
          BY <1>3, <3>1, <3>2, Order
  <2>3. WindowInv'
    <3>1. slot = SlotAt(rxPos.slot) /\ slot \in Slots
          BY <1>1, <2>1 DEF QueuedSlot, SlotAt, StreamInv, WindowInv
    <3>2. \A i : SlotAt(i)' = SlotAt(i)
          BY DEF SlotAt
    <3> HIDE DEF slot, FwParse
    <3>3. slotQueueRecycle' = slotQueueRecycle /\ slotQueueRecycle \in Nat /\ rxPos.slot \in Nat
          BY WindowBounds DEF FwParse
    <3>4. CASE h.next.off = 0
      <4>1. held' = held \cup {slot} /\ rxPos'.slot = rxPos.slot + 1
            BY <2>1, <3>4
      <4>2. Window' = Window \ {rxPos.slot}
            BY <3>3, <4>1 DEF Window
      <4>3. QED
            BY <2>1, <3>1, <3>2, <4>1, <4>2 DEF StreamInv, WindowInv
    <3>5. CASE h.next.off # 0
      <4>1. held' = held /\ Window' = Window
            BY <2>1, <3>3, <3>5 DEF Window
      <4>2. QED
            BY <3>2, <4>1 DEF StreamInv, WindowInv
    <3>6. QED
          BY <3>4, <3>5
  <2>4. ReaderInv'
    <3>1. Leq(rxPos', Written')
          BY <1>2, <2>1
    <3>2. rxPos'.off # 0 => rxSlot' = QueuedSlot(rxPos)'
          BY <1>1, <2>1 DEF QueuedSlot
    <3>3. QED
          BY <3>1, <3>2 DEF ReaderInv, Leq, Less, QueuedSlot
  <2>5. MessageInv'
    <3> SUFFICES ASSUME NEW g \in memory'
                 PROVE  /\ Leq(rxPos', g.pos) /\ Less(g.pos, g.next) /\ Leq(g.next, Written)
                        /\ g.at = QueuedSlot(g.pos)
                        /\ \A k \in memory' : k = g \/ Leq(k.next, g.pos) \/ Leq(g.next, k.pos)
        BY <1>2 DEF MessageInv, QueuedSlot, Leq, Less
    <3>1. QED
          BY <2>2 DEF StreamInv, MessageInv
  <2>6. Gapless'
    <3>1. ASSUME NEW p, StartsAt(p), p # rxPos
          PROVE  StartsAt(p)'
          BY <1>2, <3>1 DEF StartsAt
    <3>2. h.next # rxPos
          BY <1>3, <2>1, Order
    <3>3. QED
          BY <2>2, <3>1, <3>2 DEF StreamInv, Gapless
  <2>7. QED
        BY <1>2, <2>3, <2>4, <2>5, <2>6 DEF StreamInv
<1>5. CASE UNCHANGED <<rxPos, memory, held>>
  <2>1. WindowInv'
        BY <1>5 DEF StreamInv, WindowInv, Window, SlotAt
  <2>2. ReaderInv'
        BY <1>1, <1>2, <1>5 DEF StreamInv, ReaderInv, QueuedSlot, Leq, Less
  <2>3. MessageInv' /\ Gapless'
        BY <1>2, <1>5 DEF StreamInv, MessageInv, Gapless, StartsAt, QueuedSlot, Leq, Less
  <2>4. QED
        BY <1>2, <1>5, <2>1, <2>2, <2>3 DEF StreamInv
<1>6. QED
      BY <1>4, <1>5

\* A parsed slot is appended to the window.
LEMMA FwRecycleStream ==
  ASSUME TxInv, TxInv', StreamInv, FwRecycle
  PROVE  StreamInv'
<1> USE DEF FwRecycle, sendVars, recVars
<1> PICK R : R = slotQueueRecycle
    OBVIOUS
<1>1. PICK slot \in held :
         /\ slotQueue' = [slotQueue EXCEPT ![R % RingSize] = slot]
         /\ held' = held \ {slot}
      OBVIOUS
<1>2. /\ R \in Nat /\ rxPos.slot \in Nat /\ TotalTxSlot \in Nat
      /\ RingSize \in Nat \ {0} /\ TotalTxSlot < RingSize
      /\ R <= rxPos.slot + TotalTxSlot
      /\ rxPos.slot <= R
      /\ R % RingSize \in 0..(RingSize - 1)
  <2> HIDE DEF FwRecycle
  <2>1. /\ R \in Nat /\ rxPos.slot \in Nat /\ TotalTxSlot \in Nat
        /\ RingSize \in Nat \ {0} /\ TotalTxSlot < RingSize
        /\ R <= rxPos.slot + TotalTxSlot
        /\ SlotsEntered \in Nat /\ rxPos.slot <= SlotsEntered /\ SlotsEntered <= R
        BY WindowBounds
  <2>2. R % RingSize \in 0..(RingSize - 1)
        BY <2>1, DivMod
  <2>3. QED
        BY <2>1, <2>2
<1>3. \A i \in Window :
        i \in Nat /\ i % RingSize \in 0..(RingSize - 1) /\ i % RingSize # R % RingSize
  <2> SUFFICES ASSUME NEW i \in Window
               PROVE  /\ i \in Nat /\ i % RingSize \in 0..(RingSize - 1)
                      /\ i % RingSize # R % RingSize
      OBVIOUS
  <2> HIDE DEF FwRecycle
  <2>1. i \in Nat /\ i < R /\ R < i + RingSize
        BY <1>2 DEF Window
  <2>2. QED
        BY <1>2, <2>1, ModDistinct, DivMod
<1>4. slotQueue \in [0..(RingSize - 1) -> Slots \cup {NoSlot}]
      BY DEF TxInv, TypeOK
<1>5. \A i \in Window : SlotAt(i)' = SlotAt(i)
  <2> SUFFICES ASSUME NEW i \in Window PROVE SlotAt(i)' = SlotAt(i)
      OBVIOUS
  <2> HIDE DEF FwRecycle
  <2>1. RingSize' = RingSize
        OBVIOUS
  <2>2. QED
        BY <1>1, <1>3, <1>4 DEF SlotAt
<1>6. SlotAt(R)' = slot
      BY <1>1, <1>2, <1>4 DEF SlotAt
<1>7. Window' = Window \cup {R} /\ R \notin Window
      BY <1>2 DEF Window
<1>8. WindowInv'
  <2> HIDE DEF FwRecycle
  <2>1. slot \in Slots /\ \A i \in Window : SlotAt(i) # slot
        BY <1>1 DEF StreamInv, WindowInv
  <2>2. \A i \in Window' : SlotAt(i)' \in Slots \ held'
        BY <1>1, <1>5, <1>6, <1>7, <2>1 DEF StreamInv, WindowInv
  <2>3. \A i, j \in Window' : SlotAt(i)' = SlotAt(j)' => i = j
        BY <1>5, <1>6, <1>7, <2>1 DEF StreamInv, WindowInv
  <2>4. QED
        BY <1>1, <2>2, <2>3 DEF StreamInv, WindowInv
<1>9. Written' = Written
      BY DEF Written
<1>10. ASSUME NEW p \in Positions, p.slot \in Window
       PROVE  QueuedSlot(p)' = QueuedSlot(p)
       BY <1>5, <1>10 DEF QueuedSlot, SlotAt
<1>11. WriterInv'
  <2>1. ASSUME NEW s \in Senders, pc[s] = "write"
        PROVE  QueuedSlot(header[s])' = QueuedSlot(header[s])
    <3>1. header[s] \in Positions /\ Less(header[s], currentTxPos) /\ Leq(rxPos, header[s])
          BY <2>1, WrittenBehind DEF StreamInv, ReaderInv, TxInv, TypeOK
    <3>2. QED
          BY <1>10, <3>1, InWindow
  <2>2. currentTxPos.off # 0 => QueuedSlot(currentTxPos)' = QueuedSlot(currentTxPos)
        BY <1>10, InWindow DEF TxInv, TypeOK, PositionInv
  <2>3. QED
        BY <2>1, <2>2 DEF StreamInv, WriterInv, QueuedSlot
<1>12. ReaderInv'
  <2>1. rxPos.off # 0 => QueuedSlot(rxPos)' = QueuedSlot(rxPos)
    <3>1. rxPos \in Positions /\ currentTxPos \in Positions /\ Leq(rxPos, currentTxPos)
          BY DEF TxInv, TypeOK, PositionInv
    <3>2. Leq(rxPos, rxPos) /\ (Less(rxPos, currentTxPos) \/ rxPos = currentTxPos)
          BY <3>1, Order DEF Leq
    <3>3. QED
          BY <1>10, <3>1, <3>2, InWindow
  <2>2. QED
        BY <1>9, <2>1 DEF StreamInv, ReaderInv, QueuedSlot, Leq, Less
<1>13. MessageInv'
  <2>1. \A h \in memory : QueuedSlot(h.pos)' = QueuedSlot(h.pos)
        BY <1>10, MessageInWindow
  <2>2. QED
        BY <1>9, <2>1 DEF StreamInv, MessageInv, QueuedSlot, Leq, Less
<1>14. Gapless'
       BY <1>9 DEF StreamInv, Gapless, StartsAt
<1>15. QED
       BY <1>8, <1>11, <1>12, <1>13, <1>14 DEF StreamInv

\* Before the first message.
LEMMA InitStream == Init => StreamInv
<1> SUFFICES ASSUME Init PROVE StreamInv
    OBVIOUS
<1>1. /\ TotalTxSlot \in Nat /\ TotalTxSlot < RingSize /\ TotalTxSlot = SlotLast - SlotFirst
      /\ RingSize \in Nat \ {0} /\ SlotFirst \in Nat /\ SlotLast \in Nat
      BY SlotAssumption DEF TotalTxSlot, NumSlots
<1>2. ASSUME NEW i \in Window
      PROVE  i \in 0..(TotalTxSlot - 1) /\ SlotAt(i) = SlotFirst + i
  <2>1. i \in 0..(TotalTxSlot - 1)
        BY <1>1 DEF Window, Init, StartPos
  <2>2. i % RingSize = i
        BY <1>1, <2>1
  <2>3. QED
        BY <1>1, <2>1, <2>2 DEF SlotAt, Init, NumSlots
<1>3. WindowInv
      BY <1>1, <1>2 DEF WindowInv, Init, Slots
<1>4. Written = StartPos
      BY DEF Written, Init
<1>5. WriterInv /\ ReaderInv /\ MessageInv /\ Gapless
      BY <1>4 DEF WriterInv, ReaderInv, MessageInv, Gapless, StartsAt, Init, StartPos, Leq
<1>6. QED
      BY <1>3, <1>5 DEF StreamInv

\* A message is removed by the firmware that parses it and by nothing else.
ParsedOnly == \A h \in memory \ memory' : h.pos = rxPos /\ rxPos' = h.next

\* Every step of the specification.
LEMMA NextStream == TxInv /\ TxInv' /\ StreamInv /\ [Next]_vars => StreamInv' /\ ParsedOnly
<1> SUFFICES ASSUME TxInv, TxInv', StreamInv, [Next]_vars
             PROVE  StreamInv' /\ ParsedOnly
    OBVIOUS
<1>1. ASSUME NEW s \in Senders, NEW n \in Requests, SenderPad(s, n)
      PROVE  StreamInv' /\ ParsedOnly
      BY <1>1, SenderPadStream DEF ParsedOnly
<1>2. ASSUME NEW s \in Senders, NEW n \in Requests, SenderNewSlot(s, n)
      PROVE  StreamInv' /\ ParsedOnly
  <2> USE <1>2 DEF SenderNewSlot, Lock, recVars, fwVars
  <2>1. \A t \in Senders : pc[t] # "write" /\ pc'[t] # "write"
        BY NoneAssumption DEF TxInv, MutexInv, TypeOK
  <2>2. StreamInv'
        BY <2>1, QuietStep
  <2>3. QED
        BY <2>2 DEF ParsedOnly
<1>3. ASSUME NEW s \in Senders, NEW n \in Requests, SenderFit(s, n)
      PROVE  StreamInv' /\ ParsedOnly
  <2> USE <1>3 DEF SenderFit, Lock, Grant, recVars, fwVars
  <2>1. \A t \in Senders : pc[t] # "write"
        BY NoneAssumption DEF TxInv, MutexInv, TypeOK
  <2>2. Written = currentTxPos
        BY <2>1 DEF Written
  <2>3. pc'[s] = "write"
        BY DEF TxInv, TypeOK
  <2>4. slaveCurrentSlot' = QueuedSlot(currentTxPos)
        BY DEF StreamInv, WriterInv
  <2>5. StreamInv'
        BY <2>1, <2>2, <2>3, <2>4, GrantStream
  <2>6. QED
        BY <2>5 DEF ParsedOnly
<1>4. ASSUME NEW s \in Senders, SenderTakeSlot(s)
      PROVE  StreamInv' /\ ParsedOnly
  <2> USE <1>4 DEF SenderTakeSlot, Grant, recVars, fwVars
  <2>1. txMutex' = s /\ \A t \in Senders : pc[t] # "write"
        BY DEF TxInv, MutexInv, TypeOK
  <2>2. Written = currentTxPos
        BY <2>1 DEF Written
  <2>3. pc'[s] = "write"
        BY DEF TxInv, TypeOK
  <2>4. StreamInv'
        BY <2>1, <2>2, <2>3, GrantStream
  <2>5. QED
        BY <2>4 DEF ParsedOnly
<1>5. ASSUME NEW s \in Senders, SenderFail(s)
      PROVE  StreamInv' /\ ParsedOnly
  <2> USE <1>5 DEF SenderFail, recVars, fwVars
  <2>1. \A t \in Senders : pc[t] # "write" /\ pc'[t] # "write"
        BY DEF TxInv, MutexInv, TypeOK
  <2>2. StreamInv'
        BY <2>1, QuietStep
  <2>3. QED
        BY <2>2 DEF ParsedOnly
<1>6. ASSUME NEW s \in Senders, SenderWrite(s)
      PROVE  StreamInv' /\ ParsedOnly
      BY <1>6, SenderWriteStream DEF ParsedOnly
<1>7. ASSUME NEW s \in Senders, SenderLoad(s) \/ SenderStore(s) \/ SenderSignal(s)
      PROVE  StreamInv' /\ ParsedOnly
  <2> USE <1>7 DEF SenderLoad, SenderStore, SenderSignal, recVars, fwVars
  <2>1. \A t \in Senders : pc'[t] = "write" <=> pc[t] = "write"
        BY DEF TxInv, TypeOK
  <2>2. UNCHANGED <<slotQueue, slotQueueRecycle, rxPos, rxSlot, held, memory,
                    slaveCurrentSlot, currentTxPos, header, txMutex>>
        OBVIOUS
  <2>3. StreamInv'
        BY <2>1, <2>2, QuietStep
  <2>4. QED
        BY <2>2, <2>3 DEF ParsedOnly
<1>8. CASE FwParse
      BY <1>8, FwParseStream DEF ParsedOnly
<1>9. CASE FwRecycle
      BY <1>9, FwRecycleStream DEF ParsedOnly, FwRecycle
<1>10. CASE FwWake \/ FwSleep \/ FwSignal \/ RecycleThread \/ UNCHANGED vars
  <2>1. UNCHANGED <<slotQueue, slotQueueRecycle, rxPos, rxSlot, held, memory,
                    slaveCurrentSlot, currentTxPos, header, txMutex, pc>>
        BY <1>10 DEF FwWake, FwSleep, FwSignal, RecycleThread, RecBegin, RecRelease, RecEnd,
                     vars, sendVars, recVars, fwVars
  <2>2. StreamInv'
        BY <2>1, QuietStep
  <2>3. QED
        BY <2>1, <2>2 DEF ParsedOnly
<1>11. QED
       BY <1>1, <1>2, <1>3, <1>4, <1>5, <1>6, <1>7, <1>8, <1>9, <1>10
          DEF Next, Sender, Firmware

-----------------------------------------------------------------------------
(* Results for any number of senders. *)

\* Messages lie one behind the other in slots of their own, from the position the firmware has
\* reached to where VchiqQueueMessageAsync has written last.
THEOREM StreamInvariant == Spec => []StreamInv
<1>1. Spec => []TxInv
      BY TxInvariant
<1>2. QED
      BY <1>1, InitStream, NextStream, PTL DEF Spec

\* No send writes over a message the firmware has not parsed: AvailableTxSlot and SlotQueue keep a
\* slot from being entered again before the firmware has given it back.
THEOREM UnparsedNeverOverwrittenHolds == Spec => UnparsedNeverOverwritten
<1>1. TxInv /\ TxInv' /\ StreamInv /\ [Next]_vars =>
        [\A h \in memory \ memory' : h.pos = rxPos /\ rxPos' = h.next]_vars
      BY NextStream DEF ParsedOnly
<1>2. QED
      BY <1>1, TxInvariant, StreamInvariant, PTL DEF Spec, UnparsedNeverOverwritten

-----------------------------------------------------------------------------
(* One sender: with a second one CurrentTxPos may be read while a message    *)
(* behind it is not written.                                                 *)

\* What is published, or read to be published, is written; what is not
\* published yet will be.
PublishedInv ==
  \A s \in Senders :
    /\ fwPc # "lost"
    /\ Leq(txPos, Written) /\ Leq(loaded[s], Written)
    /\ \A h \in memory :
         \/ pc[s] = "load"
         \/ pc[s] = "store" /\ Less(h.pos, loaded[s])
         \/ pc[s] # "store" /\ (h.padding \/ Less(h.pos, txPos))

\* The type of the same position after a step.
LEMMA WrittenNextType ==
  ASSUME TxInv'
  PROVE  Written' \in Positions
<1>1. CASE \E s \in Senders : pc'[s] = "write"
  <2> PICK s \in Senders : pc'[s] = "write"
      BY <1>1
  <2>1. txMutex' = s /\ header'[s] \in Positions
        BY DEF TxInv, MutexInv, TypeOK
  <2>2. QED
        BY <1>1, <2>1 DEF Written
<1>2. CASE ~\E s \in Senders : pc'[s] = "write"
      BY <1>2 DEF Written, TxInv, TypeOK
<1>3. QED
      BY <1>1, <1>2

\* Where written messages end only moves forward.
LEMMA WrittenGrows ==
  ASSUME TxInv, TxInv', NEW s \in Senders, Sender(s)
  PROVE  Leq(Written, Written')
<1>1. /\ Written \in Positions /\ Written' \in Positions
      /\ currentTxPos \in Positions /\ currentTxPos' \in Positions
      BY WrittenBehind, WrittenNextType DEF TxInv, TypeOK
<1>2. ASSUME NEW n \in Requests, SenderPad(s, n)
      PROVE  Leq(Written, Written')
  <2>1. \A t \in Senders : pc[t] # "write" /\ pc'[t] # "write"
        BY <1>2, NoneAssumption DEF SenderPad, Lock, TxInv, MutexInv, TypeOK
  <2>2. currentTxPos' = NextSlotPos /\ currentTxPos.slot \in Nat
        BY <1>1, <1>2 DEF SenderPad, Positions
  <2>3. Less(currentTxPos, currentTxPos')
        BY <2>2 DEF NextSlotPos, Less
  <2>4. QED
        BY <1>1, <2>1, <2>3, Order DEF Written
<1>3. ASSUME NEW n \in Requests, SenderNewSlot(s, n)
      PROVE  Leq(Written, Written')
  <2>1. \A t \in Senders : pc[t] # "write" /\ pc'[t] # "write"
        BY <1>3, NoneAssumption DEF SenderNewSlot, Lock, TxInv, MutexInv, TypeOK
  <2>2. QED
        BY <1>1, <1>3, <2>1, Order DEF SenderNewSlot, Written
<1>4. ASSUME \A t \in Senders : pc[t] # "write",
             header'[s] = currentTxPos, pc'[s] = "write"
      PROVE  Leq(Written, Written')
  <2>1. Written = currentTxPos
        BY <1>4, WrittenBehind
  <2>2. Written' = currentTxPos
    <3>1. txMutex' = s
          BY <1>4 DEF TxInv, MutexInv
    <3>2. QED
          BY <1>4, <3>1 DEF Written
  <2>3. QED
        BY <1>1, <2>1, <2>2, Order
<1>5. ASSUME NEW n \in Requests, SenderFit(s, n)
      PROVE  Leq(Written, Written')
  <2>1. \A t \in Senders : pc[t] # "write"
        BY <1>5, NoneAssumption DEF SenderFit, Lock, TxInv, MutexInv, TypeOK
  <2>2. header'[s] = currentTxPos /\ pc'[s] = "write"
        BY <1>5 DEF SenderFit, Lock, Grant, TxInv, TypeOK
  <2>3. QED
        BY <1>4, <2>1, <2>2
<1>6. CASE SenderTakeSlot(s)
  <2>1. \A t \in Senders : pc[t] # "write"
        BY <1>6 DEF SenderTakeSlot, TxInv, MutexInv, TypeOK
  <2>2. header'[s] = currentTxPos /\ pc'[s] = "write"
        BY <1>6 DEF SenderTakeSlot, Grant, TxInv, TypeOK
  <2>3. QED
        BY <1>4, <2>1, <2>2
<1>7. CASE SenderFail(s)
  <2>1. \A t \in Senders : pc[t] # "write" /\ pc'[t] # "write"
        BY <1>7 DEF SenderFail, TxInv, MutexInv, TypeOK
  <2>2. QED
        BY <1>1, <1>7, <2>1, Order DEF SenderFail, Written
<1>8. CASE SenderWrite(s)
  <2>1. \A t \in Senders : pc'[t] # "write"
        BY <1>8 DEF SenderWrite, TxInv, MutexInv, TypeOK
  <2>2. Written' = currentTxPos
        BY <1>8, <2>1 DEF SenderWrite, Written
  <2>3. QED
        BY <2>2, WrittenBehind
<1>9. CASE SenderLoad(s) \/ SenderStore(s) \/ SenderSignal(s)
  <2>1. \A t \in Senders : pc'[t] = "write" <=> pc[t] = "write"
        BY <1>9 DEF SenderLoad, SenderStore, SenderSignal, TxInv, TypeOK
  <2>2. UNCHANGED <<currentTxPos, header, txMutex>>
        BY <1>9 DEF SenderLoad, SenderStore, SenderSignal
  <2>3. QED
        BY <1>1, <2>1, <2>2, Order DEF Written
<1>10. QED
       BY <1>2, <1>3, <1>5, <1>6, <1>7, <1>8, <1>9 DEF Sender

\* Every step keeps published messages written.
LEMMA NextPublished ==
  ASSUME NEW s, Senders = {s}, TxInv, TxInv', StreamInv, StreamInv', PublishedInv, [Next]_vars
  PROVE  PublishedInv'
<1>1. /\ Written \in Positions /\ Written' \in Positions /\ currentTxPos \in Positions
      /\ rxPos \in Positions /\ txPos \in Positions /\ loaded[s] \in Positions
      /\ s \in Senders
      BY WrittenBehind, WrittenNextType DEF TxInv, TypeOK
<1>2. \A h \in memory : h.pos \in Positions /\ Less(h.pos, Written)
      BY MessageInWindow
<1>3. CASE UNCHANGED <<txPos, loaded, fwPc>> /\ Leq(Written, Written')
           /\ pc[s] \notin {"load", "store"} /\ pc'[s] \notin {"load", "store"}
           /\ \A h \in memory' : h \in memory \/ h.padding
  <2>1. Leq(txPos, Written') /\ Leq(loaded[s], Written')
        BY <1>1, <1>3, Order DEF PublishedInv
  <2>2. QED
        BY <1>3, <2>1 DEF PublishedInv, Leq, Less
<1>4. ASSUME NEW n \in Requests, SenderPad(s, n)
      PROVE  PublishedInv'
  <2>1. /\ UNCHANGED <<txPos, loaded, fwPc>>
        /\ pc[s] = "idle" /\ pc'[s] = "wait"
        /\ \A h \in memory' : h \in memory \/ h.padding
        BY <1>4 DEF SenderPad, Lock, fwVars, Put, PaddingHeader, TxInv, TypeOK
  <2>2. Leq(Written, Written')
        BY <1>4, WrittenGrows DEF Sender
  <2>3. QED
        BY <1>3, <2>1, <2>2
<1>5. ASSUME NEW n \in Requests, SenderNewSlot(s, n) \/ SenderFit(s, n)
      PROVE  PublishedInv'
  <2>1. /\ UNCHANGED <<txPos, loaded, fwPc, memory>>
        /\ pc[s] = "idle" /\ pc'[s] \in {"wait", "write"}
        BY <1>5 DEF SenderNewSlot, SenderFit, Grant, Lock, fwVars, TxInv, TypeOK
  <2>2. Leq(Written, Written')
        BY <1>5, WrittenGrows DEF Sender
  <2>3. QED
        BY <1>3, <2>1, <2>2
<1>6. CASE SenderTakeSlot(s) \/ SenderFail(s)
  <2>1. /\ UNCHANGED <<txPos, loaded, fwPc, memory>>
        /\ pc[s] = "wait" /\ pc'[s] \in {"idle", "write"}
        BY <1>6 DEF SenderTakeSlot, SenderFail, Grant, fwVars, TxInv, TypeOK
  <2>2. Leq(Written, Written')
        BY <1>6, WrittenGrows DEF Sender
  <2>3. QED
        BY <1>3, <2>1, <2>2
<1>7. CASE SenderWrite(s)
  <2>1. UNCHANGED <<txPos, loaded, fwPc>> /\ pc'[s] = "load"
        BY <1>7 DEF SenderWrite, fwVars, TxInv, TypeOK
  <2>2. Leq(Written, Written')
        BY <1>7, WrittenGrows DEF Sender
  <2>3. Leq(txPos, Written') /\ Leq(loaded[s], Written')
        BY <1>1, <2>2, Order DEF PublishedInv
  <2>4. QED
        BY <2>1, <2>3 DEF PublishedInv, Leq, Less
<1>8. CASE SenderLoad(s) \/ SenderStore(s) \/ SenderSignal(s)
  <2>1. /\ \A t \in Senders : pc[t] # "write" /\ pc'[t] # "write"
        /\ UNCHANGED <<currentTxPos, fwPc, memory>>
        BY <1>8 DEF SenderLoad, SenderStore, SenderSignal, fwVars, TxInv, TypeOK
  <2>2. Written = currentTxPos /\ Written' = currentTxPos
        BY <2>1 DEF Written
  <2>3. CASE SenderLoad(s)
    <3>1. /\ loaded'[s] = currentTxPos /\ txPos' = txPos
          /\ pc'[s] = "store"
          BY <2>3 DEF SenderLoad, TxInv, TypeOK
    <3>2. Leq(currentTxPos, currentTxPos)
          BY <1>1, Order
    <3>3. QED
          BY <1>2, <2>1, <2>2, <3>1, <3>2 DEF PublishedInv, Leq, Less
  <2>4. CASE SenderStore(s)
    <3>1. /\ txPos' = loaded[s] /\ loaded'[s] = StartPos
          /\ pc[s] = "store" /\ pc'[s] = "signal"
          BY <2>4 DEF SenderStore, TxInv, TypeOK
    <3>2. Leq(StartPos, Written)
      <4>1. Leq(StartPos, Written) \/ Less(Written, StartPos)
            BY <1>1, StartPosType, Order
      <4>2. ~Less(Written, StartPos)
            BY <1>1, SlotAssumption DEF Less, StartPos, Positions, Offsets
      <4>3. QED
            BY <4>1, <4>2
    <3>3. QED
          BY <2>1, <2>2, <3>1, <3>2 DEF PublishedInv, Leq, Less
  <2>5. CASE SenderSignal(s)
    <3>1. /\ UNCHANGED <<txPos, loaded>>
          /\ pc[s] = "signal" /\ pc'[s] = "idle"
          BY <2>5 DEF SenderSignal, TxInv, TypeOK
    <3>2. QED
          BY <2>1, <2>2, <3>1 DEF PublishedInv, Leq, Less
  <2>6. QED
        BY <1>8, <2>3, <2>4, <2>5
<1>9. CASE FwParse
  <2> USE <1>9 DEF FwParse, sendVars
  <2>1. Written' = Written
        BY DEF Written
  <2>2. \E h \in memory : h.at = (IF rxPos.off = 0 THEN QueuedSlot(rxPos) ELSE rxSlot) /\ h.pos = rxPos
    <3>1. rxPos # Written
          BY <1>1, Order DEF PublishedInv
    <3>2. PICK h \in memory : h.pos = rxPos
          BY <3>1 DEF StreamInv, Gapless, StartsAt
    <3>3. h.at = QueuedSlot(rxPos)
          BY <3>2 DEF StreamInv, MessageInv
    <3>4. QED
          BY <3>2, <3>3 DEF StreamInv, ReaderInv
  <2>3. fwPc' = fwPc /\ memory' \subseteq memory
        BY <2>2
  <2>4. UNCHANGED <<txPos, loaded, pc>>
        OBVIOUS
  <2> HIDE DEF FwParse
  <2>5. QED
        BY <2>1, <2>3, <2>4 DEF PublishedInv, Leq, Less
<1>10. CASE FwWake \/ FwSleep \/ FwSignal \/ FwRecycle \/ RecycleThread \/ UNCHANGED vars
  <2>1. UNCHANGED <<txPos, loaded, pc, memory, currentTxPos, header, txMutex>> /\ (fwPc' = "lost" => fwPc = "lost")
        BY <1>10 DEF FwWake, FwSleep, FwSignal, FwRecycle, RecycleThread, RecBegin, RecRelease,
                     RecEnd, vars, sendVars, recVars, fwVars
  <2>2. Written' = Written
        BY <2>1 DEF Written
  <2>3. QED
        BY <2>1, <2>2 DEF PublishedInv, Leq, Less
<1>11. QED
       BY <1>4, <1>5, <1>6, <1>7, <1>8, <1>9, <1>10 DEF Next, Sender, Firmware

\* With one sender everything that is published is written.
LEMMA PublishedInvariant ==
  ASSUME NEW s, Senders = {s}
  PROVE  Spec => []PublishedInv
<1>1. Init => PublishedInv
  <2> SUFFICES ASSUME Init PROVE PublishedInv
      OBVIOUS
  <2>1. Written = StartPos
        BY DEF Written, Init
  <2>2. QED
        BY <2>1 DEF PublishedInv, Init, Leq
<1>2. TxInv /\ TxInv' /\ StreamInv /\ StreamInv' /\ PublishedInv /\ [Next]_vars => PublishedInv'
      BY NextPublished
<1>3. QED
      BY <1>1, <1>2, TxInvariant, StreamInvariant, PTL DEF Spec

-----------------------------------------------------------------------------
(* Results for one sender. *)

\* "Safe to release mutex once we copied all the data over" (slots.c): below Slave.TxPos the
\* firmware finds the header of a message wherever it parses.
THEOREM FirmwareFindsHeaderHolds ==
  ASSUME NEW s, Senders = {s}
  PROVE  Spec => []FirmwareFindsHeader
<1>1. PublishedInv => FirmwareFindsHeader
      BY DEF PublishedInv, FirmwareFindsHeader
<1>2. QED
      BY <1>1, PublishedInvariant, PTL

\* When no send is in progress Slave.TxPos covers every message but padding.
THEOREM TxPosCoversMessagesHolds ==
  ASSUME NEW s, Senders = {s}
  PROVE  Spec => []TxPosCoversMessages
<1>1. PublishedInv => TxPosCoversMessages
      BY DEF PublishedInv, TxPosCoversMessages
<1>2. QED
      BY <1>1, PublishedInvariant, PTL

-----------------------------------------------------------------------------
(* The event handshake (VchiqThread). *)

\* The state VchiqInit leaves satisfies the inductive invariant.
LEMMA InitWakeupInv == ThreadInit => WakeupInv
<1> SUFFICES ASSUME ThreadInit
             PROVE  WakeupInv
    OBVIOUS
<1>1. posted \in 0..MaxPosted /\ done \in 0..posted
      BY MaxPostedAssumption DEF ThreadInit
<1>2. ThreadTypeOK
      BY <1>1, Zenon DEF ThreadInit, EventInit, ThreadTypeOK, EventTypeOK, ThreadPc
<1>3. NotArmedIsTransient /\ UnhandledIsFired /\ StopAfterFree /\ NoLostWakeup
      BY DEF ThreadInit, EventInit, NotArmedIsTransient, UnhandledIsFired,
             StopAfterFree, NoLostWakeup
<1>4. QED
      BY <1>2, <1>3 DEF WakeupInv

\* Every step of the firmware, the interrupt path, the thread and
\* VchiqRelease preserves it.
LEMMA NextWakeupInv == WakeupInv /\ [ThreadNext]_threadVars => WakeupInv'
<1> SUFFICES ASSUME WakeupInv, [ThreadNext]_threadVars
             PROVE  WakeupInv'
    OBVIOUS
<1> USE MaxPostedAssumption
    DEF WakeupInv, ThreadTypeOK, EventTypeOK, ThreadPc, NotArmedIsTransient,
        UnhandledIsFired, StopAfterFree, NoLostWakeup, eventVars
<1>1. CASE FwPost
      BY <1>1 DEF FwPost
<1>2. CASE FwFire
      BY <1>2 DEF FwFire, FireEvent
<1>3. CASE FwRing
      BY <1>3 DEF FwRing, RingIfArmed
<1>4. CASE Isr
      BY <1>4, ZenonT(40) DEF Isr, VchiqIsr
<1>5. CASE Dpc
  <2>1. CASE DpcTest
        BY <1>5, <2>1, ZenonT(40) DEF Dpc, DpcTest
  <2>2. CASE DpcDisarm
        BY <1>5, <2>2, ZenonT(40) DEF Dpc, DpcDisarm
  <2>3. CASE DpcSetEvent
        BY <1>5, <2>3 DEF Dpc, DpcSetEvent
  <2>4. QED
        BY <1>5, <2>1, <2>2, <2>3 DEF Dpc, VchiqDpc
<1>6. CASE Thread
  <2>1. CASE ThreadFault
        BY <2>1 DEF ThreadFault
  <2>2. CASE ThreadCheck
        BY <2>2 DEF ThreadCheck
  <2>3. CASE ThreadWake
        BY <2>3, ZenonT(40) DEF ThreadWake, TakeEvent
  <2>4. CASE ThreadStop
        BY <2>4 DEF ThreadStop
  <2>5. CASE ThreadItem
        BY <2>5 DEF ThreadItem
  <2>6. CASE ThreadReset
        BY <2>6 DEF ThreadReset, ResetSignal
  <2>7. CASE ThreadNoItem
        BY <2>7 DEF ThreadNoItem
  <2>8. CASE ThreadArm
        BY <2>8 DEF ThreadArm, EnableInterrupt
  <2>9. QED
        BY <1>6, <2>1, <2>2, <2>3, <2>4, <2>5, <2>6, <2>7, <2>8 DEF Thread
<1>7. CASE VchiqRelease
  <2>1. CASE ReleaseFree
        BY <2>1 DEF ReleaseFree
  <2>2. CASE ReleaseSetStop
    <3>1. ThreadTypeOK'
          BY <2>2, ZenonT(40) DEF ReleaseSetStop
    <3>2. QED
          BY <2>2, <3>1 DEF ReleaseSetStop
  <2>3. CASE ReleaseJoin
        BY <2>3 DEF ReleaseJoin
  <2>4. QED
        BY <1>7, <2>1, <2>2, <2>3 DEF VchiqRelease
<1>8. CASE UNCHANGED threadVars
      BY <1>8 DEF threadVars
<1>9. QED
      BY <1>1, <1>2, <1>3, <1>4, <1>5, <1>6, <1>7, <1>8 DEF ThreadNext, ThreadFirmware

\* The inductive invariant holds in every reachable state.
THEOREM WakeupInvariant == ThreadSpec => []WakeupInv
BY InitWakeupInv, NextWakeupInv, PTL DEF ThreadSpec

\* For every amount of posted work, a thread parked in VchiqWaitForEvents with
\* work outstanding has a wake-up on its way.
THEOREM NoLostWakeupHolds == ThreadSpec => []NoLostWakeup
<1>1. WakeupInv => NoLostWakeup
      BY DEF WakeupInv
<1>2. QED
      BY <1>1, WakeupInvariant, PTL

\* The thread never counts more work than was posted, and its words keep
\* their types.
THEOREM ThreadTypeCorrect == ThreadSpec => []ThreadTypeOK
<1>1. WakeupInv => ThreadTypeOK
      BY DEF WakeupInv
<1>2. QED
      BY <1>1, WakeupInvariant, PTL
-----------------------------------------------------------------------------
(* Release of a thread that is parked. *)

\* The slot memory is gone and the thread waits with no event pending, or has
\* left by the stop event.
ParkedOrExited ==
  /\ slotZero = "freed"
  /\ \/ threadPc = "wait" /\ ~event
     \/ threadPc = "exited"

\* Nothing wakes such a thread but the stop event: the interrupt is
\* disconnected, and the firmware only writes to slot zero.
LEMMA StaysParked ==
  ASSUME ParkedOrExited, [ThreadNext]_threadVars
  PROVE  ParkedOrExited'
<1> USE DEF ParkedOrExited
<1>1. CASE ThreadFirmware
      BY <1>1 DEF ThreadFirmware, FwPost, FwFire, FwRing, FireEvent, RingIfArmed, eventVars
<1>2. CASE Isr \/ Dpc
      BY <1>2 DEF Isr, Dpc
<1>3. CASE Thread
      BY <1>3 DEF Thread, ThreadFault, ThreadCheck, ThreadWake, TakeEvent, ThreadStop,
                  ThreadItem, ThreadReset, ThreadNoItem, ThreadArm, eventVars
<1>4. CASE VchiqRelease
      BY <1>4 DEF VchiqRelease, ReleaseFree, ReleaseSetStop, ReleaseJoin, eventVars
<1>5. CASE UNCHANGED threadVars
      BY <1>5 DEF threadVars, eventVars
<1>6. QED
      BY <1>1, <1>2, <1>3, <1>4, <1>5 DEF ThreadNext

\* Once VchiqRelease has freed the slot memory, a thread found parked without
\* an event never touches that memory, whatever else happens.
THEOREM ParkedThreadNeverFaultsHolds == ThreadSpec => ParkedThreadNeverFaults
<1>1. slotZero = "freed" /\ threadPc = "wait" /\ ~event => ParkedOrExited
      BY DEF ParkedOrExited
<1>2. ParkedOrExited /\ [ThreadNext]_threadVars => ParkedOrExited'
      BY StaysParked
<1>3. ParkedOrExited => threadPc # "fault"
      BY DEF ParkedOrExited
<1>4. QED
      BY <1>1, <1>2, <1>3, PTL DEF ThreadSpec, ParkedThreadNeverFaults

-----------------------------------------------------------------------------
(* The mailbox. *)

\* WriteLock is held from the first look at the status to the register write,
\* and the room that was seen stays.
LockInv ==
  \A c \in Clients :
    /\ at[c] \in {"poll", "forward", "write"} => writeLock = c
    /\ at[c] \in {"forward", "write"} => Len(writeFifo) < FifoSize

\* No handler runs before the query of the boot is written.
BootInv == phase = "boot" => writeFifo = <<>> /\ \A c \in Clients : at[c] = "idle"

\* The DPC only runs when interrupts are on; its copy of the status is right
\* as long as nobody else reads the FIFO.
DpcInv ==
  /\ dpc # "idle" => phase = "running"
  /\ dpc \in {"loop", "retrieve"} /\ more => readFifo # <<>>

MailboxInv == MailboxTypeOK /\ LockInv /\ BootInv /\ DpcInv /\ MailboxNeverOverflows

USE DEF outsideVars

-----------------------------------------------------------------------------
\* Taking an entry out of a queue leaves a queue.
LEMMA RemoveAtType ==
  ASSUME NEW S, NEW q \in Seq(S), NEW i \in 1..Len(q)
  PROVE  RemoveAt(q, i) \in Seq(S)
<1>1. SubSeq(q, 1, i - 1) \in Seq(S)
  OBVIOUS
<1>2. SubSeq(q, i + 1, Len(q)) \in Seq(S)
  OBVIOUS
<1> QED
  BY <1>1, <1>2, ConcatProperties DEF RemoveAt

\* What appending a word does to a FIFO.
LEMMA AppendFifo ==
  ASSUME NEW S, NEW q \in Seq(S), NEW x \in S
  PROVE  Append(q, x) \in Seq(S) /\ Len(Append(q, x)) = Len(q) + 1
OBVIOUS

\* What taking a word does to a FIFO.
LEMMA TailFifo ==
  ASSUME NEW S, NEW q \in Seq(S), q # <<>>
  PROVE  /\ Head(q) \in S
         /\ Tail(q) \in Seq(S)
         /\ Len(Tail(q)) = Len(q) - 1
         /\ Len(Tail(q)) < Len(q)
OBVIOUS

\* The counters of the driver start within their bounds.
LEMMA CounterBounds == 0 \in 0..(MaxPoll + 1) /\ MacRetries \in 0..MacRetries
BY MailboxAssumption

LEMMA InitMailboxInv == MailboxInit => MailboxInv
<1> SUFFICES ASSUME MailboxInit PROVE MailboxInv
  OBVIOUS
<1> USE MailboxAssumption
<1>1. MailboxTypeOK
  <2>1. writeFifo \in Seq(Words) /\ readFifo \in Seq(Addresses) /\ queue \in Seq(Clients)
    BY DEF MailboxInit
  <2>2. /\ irqEnabled \in BOOLEAN /\ more \in BOOLEAN
        /\ polls \in [Clients -> 0..(MaxPoll + 1)]
        /\ retries \in 0..MacRetries
    BY CounterBounds DEF MailboxInit
  <2> QED
    BY <2>1, <2>2 DEF MailboxInit, MailboxTypeOK, Pc
<1>2. LockInv /\ BootInv /\ DpcInv
  BY DEF MailboxInit, LockInv, BootInv, DpcInv
<1>3. MailboxNeverOverflows
  BY DEF MailboxInit, MailboxNeverOverflows
<1> QED
  BY <1>1, <1>2, <1>3 DEF MailboxInv

\* Completing a request frees memory and changes no type.
LEMMA CompleteType ==
  ASSUME MailboxInv, NEW c \in Clients,
         NEW r \in {"none", "done", "answered", "unanswered", "failed", "cancelled"},
         Complete(c, r)
  PROVE  /\ pages' \in [Addresses -> {"free", "query", "answer"}]
         /\ result' \in [Clients -> {"none", "done", "answered", "unanswered",
                                     "failed", "cancelled"}]
BY DEF MailboxInv, MailboxTypeOK, Complete

-----------------------------------------------------------------------------
LEMMA InitStepInv == MailboxInv /\ InitStep => MailboxInv'
<1> SUFFICES ASSUME MailboxInv, InitStep PROVE MailboxInv'
  OBVIOUS
<1> USE MailboxAssumption
<1>1. CASE InitWrite
  <2>1. PICK a \in Free : /\ pages' = [pages EXCEPT ![a] = "query"]
                          /\ writeFifo' = Append(writeFifo, a)
                          /\ macAddr' = a
    BY <1>1 DEF InitWrite
  <2>2. a \in Addresses /\ a \in Words
    BY DEF Free, Words
  <2>3. writeFifo' \in Seq(Words) /\ Len(writeFifo') = 1
    BY <1>1, <2>1, <2>2 DEF InitWrite, MailboxInv, MailboxTypeOK, BootInv
  <2> QED
    BY <1>1, <2>1, <2>2, <2>3
    DEF InitWrite, MailboxInv, MailboxTypeOK, LockInv, BootInv, DpcInv,
        MailboxNeverOverflows, dpcVars, reqVars
<1>2. CASE InitReply
  BY <1>2, TailFifo
  DEF InitReply, InitDone, MailboxInv, MailboxTypeOK, LockInv, BootInv, DpcInv,
      MailboxNeverOverflows, dpcVars, reqVars
<1>3. CASE InitRetry
  BY <1>3
  DEF InitRetry, MailboxInv, MailboxTypeOK, LockInv, BootInv, DpcInv,
      MailboxNeverOverflows, hwVars, dpcVars, reqVars
<1>4. CASE InitTimeout
  BY <1>4
  DEF InitTimeout, InitDone, MailboxInv, MailboxTypeOK, LockInv, BootInv, DpcInv,
      MailboxNeverOverflows, dpcVars, reqVars
<1> QED
  BY <1>1, <1>2, <1>3, <1>4 DEF InitStep

LEMMA StartInv ==
  ASSUME MailboxInv, NEW c \in Clients, NEW k \in {"property", "vchiq"}, Start(c, k)
  PROVE  MailboxInv'
<1> USE MailboxAssumption
<1>1. /\ pages' \in [Addresses -> {"free", "query", "answer"}]
      /\ addr' \in [Clients -> Addresses \cup {NoAddress}]
  <2>1. CASE k = "vchiq" /\ UNCHANGED <<pages, addr>>
    BY <2>1 DEF MailboxInv, MailboxTypeOK
  <2>2. CASE \E a \in Free : /\ pages' = [pages EXCEPT ![a] = "query"]
                             /\ addr' = [addr EXCEPT ![c] = a]
    BY <2>2 DEF MailboxInv, MailboxTypeOK, Free
  <2> QED
    BY <2>1, <2>2 DEF Start
<1>2. /\ kind' \in [Clients -> {"property", "vchiq"}]
      /\ result' \in [Clients -> {"none", "done", "answered", "unanswered",
                                  "failed", "cancelled"}]
      /\ at' \in [Clients -> Pc]
  BY DEF Start, MailboxInv, MailboxTypeOK, Pc
<1>3. MailboxTypeOK'
  BY <1>1, <1>2 DEF Start, MailboxInv, MailboxTypeOK, devVars, dpcVars
<1>4. LockInv'
  BY DEF Start, MailboxInv, MailboxTypeOK, LockInv, devVars
<1>5. BootInv' /\ DpcInv' /\ MailboxNeverOverflows'
  BY DEF Start, MailboxInv, BootInv, DpcInv, MailboxNeverOverflows, devVars, dpcVars
<1> QED
  BY <1>3, <1>4, <1>5 DEF MailboxInv

LEMMA HandlerInv ==
  ASSUME MailboxInv, NEW c \in Clients, Handler(c)
  PROVE  MailboxInv'
<1> USE MailboxAssumption
<1>1. CASE TakeWriteLock(c)
  BY <1>1
  DEF TakeWriteLock, MailboxInv, MailboxTypeOK, LockInv, BootInv, DpcInv,
      MailboxNeverOverflows, hwVars, dpcVars, Pc
<1>2. CASE Poll(c)
  BY <1>2
  DEF Poll, MailboxInv, MailboxTypeOK, LockInv, BootInv, DpcInv,
      MailboxNeverOverflows, hwVars, devVars, dpcVars
<1>3. CASE PollTimeout(c)
  <2>1. Complete(c, "failed")
    BY <1>3 DEF PollTimeout
  <2>2. /\ pages' \in [Addresses -> {"free", "query", "answer"}]
        /\ result' \in [Clients -> {"none", "done", "answered", "unanswered",
                                    "failed", "cancelled"}]
    BY <2>1, CompleteType
  <2>3. MailboxTypeOK'
    BY <1>3, <2>2, CounterBounds DEF PollTimeout, MailboxInv, MailboxTypeOK, dpcVars, Pc
  <2>4. LockInv'
    BY <1>3 DEF PollTimeout, MailboxInv, MailboxTypeOK, LockInv
  <2>5. BootInv' /\ DpcInv' /\ MailboxNeverOverflows'
    BY <1>3
    DEF PollTimeout, MailboxInv, MailboxTypeOK, BootInv, DpcInv, MailboxNeverOverflows,
        dpcVars
  <2> QED
    BY <2>3, <2>4, <2>5 DEF MailboxInv
<1>4. CASE PollReady(c)
  BY <1>4
  DEF PollReady, MailboxInv, MailboxTypeOK, LockInv, BootInv, DpcInv, Full,
      MailboxNeverOverflows, hwVars, devVars, dpcVars, Pc
<1>5. CASE Forward(c)
  BY <1>5, AppendFifo
  DEF Forward, MailboxInv, MailboxTypeOK, LockInv, BootInv, DpcInv,
      MailboxNeverOverflows, hwVars, dpcVars, Pc
<1>6. CASE WriteRegister(c)
  <2>1. /\ writeFifo' \in Seq(Words)
        /\ Len(writeFifo') = Len(writeFifo) + 1
    BY <1>6, AppendFifo DEF WriteRegister, MailboxInv, MailboxTypeOK, Words
  <2>2. \A d \in Clients : d # c => at[d] \notin {"poll", "forward", "write"}
    BY <1>6 DEF WriteRegister, MailboxInv, LockInv
  <2>3. Len(writeFifo) < FifoSize /\ Len(writeFifo) \in Nat
    BY <1>6 DEF WriteRegister, MailboxInv, MailboxTypeOK, LockInv
  <2> QED
    BY <1>6, <2>1, <2>2, <2>3
    DEF WriteRegister, MailboxInv, MailboxTypeOK, LockInv, BootInv, DpcInv,
        MailboxNeverOverflows, dpcVars, Pc
<1> QED
  BY <1>1, <1>2, <1>3, <1>4, <1>5, <1>6 DEF Handler

LEMMA CancelInv ==
  ASSUME MailboxInv, NEW c \in Clients, Cancel(c)
  PROVE  MailboxInv'
<1>1. queue' \in Seq(Clients)
  BY RemoveAtType DEF Cancel, MailboxInv, MailboxTypeOK
<1>2. Complete(c, "cancelled")
  BY DEF Cancel
<1>3. /\ pages' \in [Addresses -> {"free", "query", "answer"}]
      /\ result' \in [Clients -> {"none", "done", "answered", "unanswered",
                                  "failed", "cancelled"}]
  BY <1>2, CompleteType
<1> QED
  BY <1>1, <1>3, MailboxAssumption, ZenonT(40)
  DEF Cancel, MailboxInv, MailboxTypeOK, LockInv, BootInv, DpcInv,
      MailboxNeverOverflows, dpcVars

LEMMA FirmwareInv == MailboxInv /\ (FwTake \/ FwAnswer) => MailboxInv'
<1> SUFFICES ASSUME MailboxInv, FwTake \/ FwAnswer PROVE MailboxInv'
  OBVIOUS
<1> USE MailboxAssumption
<1>1. CASE FwTake
  <2>1. /\ Head(writeFifo) \in Words
        /\ writeFifo' \in Seq(Words)
        /\ Len(writeFifo') < Len(writeFifo)
        /\ Len(writeFifo') \in Nat /\ Len(writeFifo) \in Nat
        /\ writeFifo # <<>>
    BY <1>1, TailFifo DEF FwTake, MailboxInv, MailboxTypeOK
  <2> QED
    BY <1>1, <2>1
    DEF FwTake, MailboxInv, MailboxTypeOK, LockInv, BootInv, DpcInv,
        MailboxNeverOverflows, devVars, dpcVars, reqVars, Words
<1>2. CASE FwAnswer
  <2>1. readFifo' \in Seq(Addresses) /\ readFifo' # <<>>
    <3>1. readFifo \in Seq(Addresses) /\ job \in Addresses
      BY <1>2 DEF FwAnswer, MailboxInv, MailboxTypeOK
    <3>2. Append(readFifo, job) \in Seq(Addresses) /\ Append(readFifo, job) # <<>>
      BY <3>1, AppendProperties
    <3> QED
      BY <1>2, <3>2 DEF FwAnswer
  <2> QED
    BY <1>2, <2>1
    DEF FwAnswer, MailboxInv, MailboxTypeOK, LockInv, BootInv, DpcInv,
        MailboxNeverOverflows, devVars, dpcVars, reqVars
<1> QED
  BY <1>1, <1>2

LEMMA InterruptInv == MailboxInv /\ (MailboxIsr \/ MailboxDpc) => MailboxInv'
<1> SUFFICES ASSUME MailboxInv, MailboxIsr \/ MailboxDpc PROVE MailboxInv'
  OBVIOUS
<1> USE MailboxAssumption
<1>1. CASE MailboxIsr
  BY <1>1
  DEF MailboxIsr, MailboxInv, MailboxTypeOK, LockInv, BootInv, DpcInv,
      MailboxNeverOverflows, devVars, reqVars
<1>2. CASE DpcStart
  BY <1>2
  DEF DpcStart, MailboxInv, MailboxTypeOK, LockInv, BootInv, DpcInv,
      MailboxNeverOverflows, hwVars, devVars, reqVars
<1>3. CASE DpcRead
  <2>1. Tail(readFifo) \in Seq(Addresses)
    BY <1>3, TailFifo DEF DpcRead, MailboxInv, MailboxTypeOK, DpcInv
  <2> QED
    BY <1>3, <2>1
    DEF DpcRead, MailboxInv, MailboxTypeOK, LockInv, BootInv, DpcInv,
        MailboxNeverOverflows, devVars, reqVars
<1>4. CASE DpcNoRequest
  <2>1. MailboxTypeOK'
    BY <1>4 DEF DpcNoRequest, MailboxInv, MailboxTypeOK, hwVars, devVars, reqVars
  <2>2. LockInv' /\ BootInv' /\ MailboxNeverOverflows'
    BY <1>4
    DEF DpcNoRequest, MailboxInv, LockInv, BootInv, MailboxNeverOverflows,
        hwVars, devVars, reqVars
  <2>3. DpcInv'
    BY <1>4 DEF DpcNoRequest, MailboxInv, DpcInv, hwVars, devVars
  <2> QED
    BY <2>1, <2>2, <2>3 DEF MailboxInv
<1>5. CASE DpcComplete
  <2>1. Head(queue) \in Clients /\ queue' \in Seq(Clients)
    BY <1>5, TailFifo DEF DpcComplete, MailboxInv, MailboxTypeOK
  <2>2. \E r \in {"answered", "unanswered"} : Complete(Head(queue), r)
    BY <1>5 DEF DpcComplete
  <2>3. /\ pages' \in [Addresses -> {"free", "query", "answer"}]
        /\ result' \in [Clients -> {"none", "done", "answered", "unanswered",
                                    "failed", "cancelled"}]
    BY <2>1, <2>2, CompleteType
  <2>4. MailboxTypeOK'
    BY <1>5, <2>1, <2>3 DEF DpcComplete, MailboxInv, MailboxTypeOK
  <2>5. LockInv' /\ BootInv' /\ MailboxNeverOverflows'
    BY <1>5 DEF DpcComplete, MailboxInv, LockInv, BootInv, MailboxNeverOverflows
  <2>6. DpcInv'
    BY <1>5 DEF DpcComplete, MailboxInv, DpcInv
  <2> QED
    BY <2>4, <2>5, <2>6 DEF MailboxInv
<1>6. CASE DpcEnable
  BY <1>6
  DEF DpcEnable, MailboxInv, MailboxTypeOK, LockInv, BootInv, DpcInv,
      MailboxNeverOverflows, devVars, reqVars
<1> QED
  BY <1>1, <1>2, <1>3, <1>4, <1>5, <1>6 DEF MailboxDpc

LEMMA ReleaseInv == MailboxInv /\ ReleaseHardware => MailboxInv'
<1> SUFFICES ASSUME MailboxInv, ReleaseHardware PROVE MailboxInv'
  OBVIOUS
<1>1. /\ pages' \in [Addresses -> {"free", "query", "answer"}]
      /\ result' \in [Clients -> {"none", "done", "answered", "unanswered",
                                  "failed", "cancelled"}]
      /\ queue' \in Seq(Clients)
  BY DEF ReleaseHardware, MailboxInv, MailboxTypeOK
<1> QED
  BY <1>1, MailboxAssumption
  DEF ReleaseHardware, MailboxInv, MailboxTypeOK, LockInv, BootInv, DpcInv,
      MailboxNeverOverflows, dpcVars

\* Every step of the driver, its clients and the firmware keeps the invariant.
LEMMA NextMailboxInv == MailboxInv /\ [MailboxNext]_mailboxVars => MailboxInv'
<1> SUFFICES ASSUME MailboxInv, [MailboxNext]_mailboxVars PROVE MailboxInv'
  OBVIOUS
<1>1. ASSUME NEW c \in Clients,
             (\E k \in {"property", "vchiq"} : Start(c, k)) \/ Handler(c) \/ Cancel(c)
      PROVE MailboxInv'
  BY <1>1, StartInv, HandlerInv, CancelInv
<1>2. CASE UNCHANGED mailboxVars
  BY <1>2
  DEF mailboxVars, hwVars, devVars, dpcVars, reqVars, MailboxInv, MailboxTypeOK, LockInv,
      BootInv, DpcInv, MailboxNeverOverflows
<1> QED
  BY <1>1, <1>2, InitStepInv, FirmwareInv, InterruptInv, ReleaseInv DEF MailboxNext

-----------------------------------------------------------------------------
(* The inductive invariant holds: WriteLock covers the room a handler saw.  *)
THEOREM MailboxInvariant == MailboxSpec => []MailboxInv
BY InitMailboxInv, NextMailboxInv, PTL DEF MailboxSpec

(* RpiqMailboxWrite never writes to a full mailbox, for any number of       *)
(* clients and any FIFO size.                                               *)
THEOREM MailboxNeverOverflowsHolds == MailboxSpec => []MailboxNeverOverflows
<1>1. MailboxInv => MailboxNeverOverflows
  BY DEF MailboxInv
<1> QED
  BY <1>1, MailboxInvariant, PTL

(* The variables of the mailbox driver keep their types; the DPC never      *)
(* reads an empty FIFO and polling is bounded by MAX_POLL.                  *)
THEOREM MailboxTypeCorrect == MailboxSpec => []MailboxTypeOK
<1>1. MailboxInv => MailboxTypeOK
  BY DEF MailboxInv
<1> QED
  BY <1>1, MailboxInvariant, PTL

-----------------------------------------------------------------------------
(***************************************************************************)
(* RpiqMailboxDpc pairs answers with requests by position: it never looks  *)
(* at the address that came back.  The pairing is right, and the memory of *)
(* a query is not freed under the firmware, as long as nothing is          *)
(* cancelled and the query of the boot was not given up; and no request is *)
(* ever parked without an answer on its way.                               *)
(***************************************************************************)

\* What a request is while it is parked, or in the hands of RpiqProcessChannel.
RequestInv ==
  /\ \A i, k \in 1..Len(queue) : queue[i] = queue[k] => i = k
  /\ \A i \in 1..Len(queue) : at[queue[i]] \in {"idle", "write"}
  /\ \A c \in Clients :
       /\ at[c] = "forward" \/ InQueue(c) => kind[c] = "property"
       /\ kind[c] = "property" /\ (at[c] # "idle" \/ InQueue(c)) => addr[c] \in Addresses
  /\ phase # "running" => queue = <<>> /\ \A c \in Clients : at[c] = "idle"

\* The interrupt is off while the DPC runs.
IrqInv == irqEnabled => dpc = "idle"

-----------------------------------------------------------------------------
(* Counting the queries in a FIFO. *)

QueryPlaces(q) == {i \in 1..Len(q) : q[i] # NoAddress}

\* A FIFO holds finitely many queries.
LEMMA CountType ==
  ASSUME NEW q \in Seq(Words)
  PROVE  /\ IsFiniteSet(QueryPlaces(q))
         /\ Count(q) = Cardinality(QueryPlaces(q))
         /\ Count(q) \in Nat
<1>1. IsFiniteSet(1..Len(q))
  BY FS_Interval
<1>2. QueryPlaces(q) \in SUBSET (1..Len(q))
  BY DEF QueryPlaces
<1>3. IsFiniteSet(QueryPlaces(q))
  BY <1>1, <1>2, FS_Subset
<1> QED
  BY <1>3, FS_CardinalityType DEF Count, QueryPlaces

\* A word that is appended counts unless it is that of a vchiq write.
LEMMA CountAppend ==
  ASSUME NEW q \in Seq(Words), NEW x \in Words
  PROVE  Count(Append(q, x)) = Count(q) + (IF x = NoAddress THEN 0 ELSE 1)
<1>1. Append(q, x) \in Seq(Words) /\ Len(Append(q, x)) = Len(q) + 1 /\ Len(q) \in Nat
  OBVIOUS
<1>2. \A i \in 1..Len(q) : Append(q, x)[i] = q[i]
  OBVIOUS
<1>3. Append(q, x)[Len(q) + 1] = x
  OBVIOUS
<1>4. QueryPlaces(Append(q, x)) =
        IF x = NoAddress THEN QueryPlaces(q) ELSE QueryPlaces(q) \cup {Len(q) + 1}
  BY <1>1, <1>2, <1>3 DEF QueryPlaces
<1>5. Len(q) + 1 \notin QueryPlaces(q)
  BY <1>1 DEF QueryPlaces
<1>6. Cardinality(QueryPlaces(q) \cup {Len(q) + 1}) = Cardinality(QueryPlaces(q)) + 1
  BY <1>5, CountType, FS_AddElement
<1>7. /\ Count(q) = Cardinality(QueryPlaces(q)) /\ Count(q) \in Nat
      /\ Count(Append(q, x)) = Cardinality(QueryPlaces(Append(q, x)))
  BY <1>1, CountType
<1> QED
  BY <1>4, <1>6, <1>7

\* So does a word that is taken.
LEMMA CountTail ==
  ASSUME NEW q \in Seq(Words), q # <<>>
  PROVE  Count(q) = Count(Tail(q)) + (IF Head(q) = NoAddress THEN 0 ELSE 1)
<1>1. /\ Tail(q) \in Seq(Words) /\ Len(q) \in Nat \ {0} /\ Len(Tail(q)) = Len(q) - 1
      /\ \A i \in 1..(Len(q) - 1) : Tail(q)[i] = q[i + 1]
      /\ Head(q) = q[1]
  OBVIOUS
<1> DEFINE f == [i \in QueryPlaces(Tail(q)) |-> i + 1]
<1>2. QueryPlaces(q) \ {1} = {i + 1 : i \in QueryPlaces(Tail(q))}
  <2>1. ASSUME NEW i \in QueryPlaces(q) \ {1}
        PROVE  i - 1 \in QueryPlaces(Tail(q)) /\ i = (i - 1) + 1
    BY <1>1, <2>1 DEF QueryPlaces
  <2>2. ASSUME NEW i \in QueryPlaces(Tail(q))
        PROVE  i + 1 \in QueryPlaces(q) \ {1}
    BY <1>1, <2>2 DEF QueryPlaces
  <2> QED
    BY <2>1, <2>2
<1>3. f \in Bijection(QueryPlaces(Tail(q)), QueryPlaces(q) \ {1})
  <2>1. QueryPlaces(Tail(q)) \subseteq Nat
    BY <1>1 DEF QueryPlaces
  <2> QED
    BY <1>2, <2>1 DEF Bijection, Injection, Surjection, IsInjective
<1>4. Cardinality(QueryPlaces(q) \ {1}) = Cardinality(QueryPlaces(Tail(q)))
  <2>1. ExistsBijection(QueryPlaces(Tail(q)), QueryPlaces(q) \ {1})
    BY <1>3 DEF ExistsBijection
  <2>2. IsFiniteSet(QueryPlaces(Tail(q)))
    BY <1>1, CountType
  <2> QED
    BY <2>1, <2>2, FS_Bijection
<1>5. 1 \in QueryPlaces(q) <=> Head(q) # NoAddress
  BY <1>1 DEF QueryPlaces
<1>6. Cardinality(QueryPlaces(q) \ {1}) =
        IF 1 \in QueryPlaces(q) THEN Cardinality(QueryPlaces(q)) - 1
        ELSE Cardinality(QueryPlaces(q))
  BY CountType, FS_RemoveElement
<1>7. /\ Count(q) = Cardinality(QueryPlaces(q)) /\ Count(q) \in Nat
      /\ Count(Tail(q)) = Cardinality(QueryPlaces(Tail(q))) /\ Count(Tail(q)) \in Nat
  BY <1>1, CountType
<1> QED
  BY <1>4, <1>5, <1>6, <1>7
-----------------------------------------------------------------------------
(* The requests in the queue of the channel. *)

\* Taking an entry out of a queue keeps the others, in their order.
LEMMA RemoveAtEntries ==
  ASSUME NEW S, NEW q \in Seq(S), NEW i \in 1..Len(q)
  PROVE  /\ Len(RemoveAt(q, i)) = Len(q) - 1
         /\ \A k \in 1..(Len(q) - 1) :
              RemoveAt(q, i)[k] = IF k < i THEN q[k] ELSE q[k + 1]
<1> DEFINE front == SubSeq(q, 1, i - 1)
           back == SubSeq(q, i + 1, Len(q))
<1>1. /\ front \in Seq(S) /\ Len(front) = i - 1
      /\ \A k \in 1..(i - 1) : front[k] = q[k]
  OBVIOUS
<1>2. /\ back \in Seq(S) /\ Len(back) = Len(q) - i
      /\ \A k \in 1..(Len(q) - i) : back[k] = q[i + k]
  OBVIOUS
<1>3. RemoveAt(q, i) = front \o back
  BY DEF RemoveAt
<1> HIDE DEF front, back
<1>4. /\ Len(front \o back) = Len(front) + Len(back)
      /\ \A k \in 1..(Len(front) + Len(back)) :
           (front \o back)[k] = IF k <= Len(front) THEN front[k] ELSE back[k - Len(front)]
  BY <1>1, <1>2, ConcatProperties
<1>5. Len(q) \in Nat
  OBVIOUS
<1>6. ASSUME NEW k \in 1..(Len(q) - 1)
      PROVE  (front \o back)[k] = IF k < i THEN q[k] ELSE q[k + 1]
  <2>1. CASE k < i
    BY <1>1, <1>2, <1>4, <1>5, <2>1
  <2>2. CASE ~(k < i)
    <3>1. k - (i - 1) \in 1..(Len(q) - i)
      BY <1>5, <2>2
    <3>2. back[k - (i - 1)] = q[i + (k - (i - 1))]
      BY <1>2, <3>1
    <3>3. i + (k - (i - 1)) = k + 1
      OBVIOUS
    <3> QED
      BY <1>1, <1>2, <1>4, <1>5, <2>2, <3>2, <3>3
  <2> QED
    BY <2>1, <2>2
<1> QED
  BY <1>1, <1>2, <1>3, <1>4, <1>5, <1>6

LEMMA InitRequestInv == MailboxInit => RequestInv
BY DEF MailboxInit, RequestInv, InQueue

\* Steps that leave the queue and the requests alone.
LEMMA RequestsUntouched ==
  ASSUME RequestInv, UNCHANGED <<queue, at, kind, addr>>,
         phase' = phase \/ (queue = <<>> /\ \A c \in Clients : at[c] = "idle")
  PROVE  RequestInv'
BY DEF RequestInv, InQueue

LEMMA StartRequests ==
  ASSUME MailboxInv, RequestInv, NEW c \in Clients, NEW k \in {"property", "vchiq"}, Start(c, k)
  PROVE  RequestInv'
<1>1. \A d \in Clients : d # c => at'[d] = at[d] /\ kind'[d] = kind[d] /\ addr'[d] = addr[d]
  BY DEF Start, MailboxInv, MailboxTypeOK
<1>2. /\ at'[c] = "lock" /\ kind'[c] = k
      /\ k = "property" => addr'[c] \in Addresses
  BY DEF Start, MailboxInv, MailboxTypeOK, Free
<1>3. queue' = queue /\ phase' = "running" /\ ~InQueue(c) /\ at[c] = "idle"
  BY DEF Start, devVars
<1>4. queue \in Seq(Clients)
  BY DEF MailboxInv, MailboxTypeOK
<1> QED
  BY <1>1, <1>2, <1>3, <1>4 DEF RequestInv, InQueue

LEMMA HandlerRequests ==
  ASSUME MailboxInv, RequestInv, NEW c \in Clients, Handler(c)
  PROVE  RequestInv'
<1>1. queue \in Seq(Clients) /\ at \in [Clients -> Pc]
  BY DEF MailboxInv, MailboxTypeOK
<1>2. phase = "running" /\ phase' = phase /\ at[c] # "idle"
  BY DEF RequestInv, Handler, TakeWriteLock, Poll, PollTimeout, PollReady, Forward, WriteRegister,
         devVars
<1>3. CASE Forward(c)
  <2>1. queue' = Append(queue, c) /\ at'[c] = "write" /\ kind' = kind /\ addr' = addr
    BY <1>1, <1>3 DEF Forward
  <2>2. \A d \in Clients : d # c => at'[d] = at[d]
    BY <1>1, <1>3 DEF Forward
  <2>3. at[c] = "forward" /\ ~InQueue(c)
    BY <1>3 DEF Forward, RequestInv, InQueue
  <2>4. /\ Len(queue') = Len(queue) + 1 /\ queue'[Len(queue) + 1] = c
        /\ \A i \in 1..Len(queue) : queue'[i] = queue[i] /\ queue[i] \in Clients
        /\ Len(queue) \in Nat
    BY <1>1, <2>1
  <2> QED
    BY <1>1, <1>2, <2>1, <2>2, <2>3, <2>4 DEF RequestInv, InQueue
<1>4. CASE ~Forward(c)
  <2>1. queue' = queue /\ kind' = kind /\ addr' = addr
    BY <1>4 DEF Handler, TakeWriteLock, Poll, PollTimeout, PollReady, WriteRegister, devVars
  <2>2. \A d \in Clients : d # c => at'[d] = at[d]
    BY <1>1, <1>4 DEF Handler, TakeWriteLock, Poll, PollTimeout, PollReady, WriteRegister
  <2>3. /\ at'[c] = "forward" => kind[c] = "property"
        /\ InQueue(c) => at'[c] = "idle"
    BY <1>1, <1>4
    DEF Handler, TakeWriteLock, Poll, PollTimeout, PollReady, WriteRegister, RequestInv, InQueue
  <2>4. \A i \in 1..Len(queue) : queue[i] \in Clients
    BY <1>1
  <2> QED
    BY <1>2, <2>1, <2>2, <2>3, <2>4 DEF RequestInv, InQueue
<1> QED
  BY <1>3, <1>4

\* A request that leaves the queue leaves the others as they were.
LEMMA DequeueRequests ==
  ASSUME MailboxInv, RequestInv, UNCHANGED <<phase, at, kind, addr>>,
         NEW i \in 1..Len(queue),
         Len(queue') = Len(queue) - 1,
         \A k \in 1..(Len(queue) - 1) : queue'[k] = IF k < i THEN queue[k] ELSE queue[k + 1]
  PROVE  RequestInv'
<1>1. queue \in Seq(Clients) /\ Len(queue) \in Nat /\ queue # <<>>
  BY DEF MailboxInv, MailboxTypeOK
<1>2. \A k \in 1..Len(queue') : \E l \in 1..Len(queue) : queue'[k] = queue[l]
  BY <1>1
<1>3. \A k, l \in 1..Len(queue') : queue'[k] = queue'[l] => k = l
  BY <1>1 DEF RequestInv
<1>4. \A c \in Clients : InQueue(c)' => InQueue(c)
  BY <1>2 DEF InQueue
<1>5. phase = "running"
  BY <1>1 DEF RequestInv
<1> QED
  BY <1>2, <1>3, <1>4, <1>5 DEF RequestInv
\* The DPC takes the request at the head.
LEMMA CompleteTakesHead ==
  ASSUME MailboxInv, DpcComplete
  PROVE  /\ queue # <<>> /\ Head(queue) = queue[1] /\ 1 \in 1..Len(queue)
         /\ Len(queue') = Len(queue) - 1
         /\ \A k \in 1..(Len(queue) - 1) : queue'[k] = queue[k + 1]
BY DEF DpcComplete, MailboxInv, MailboxTypeOK

\* Every step keeps what requests are.
LEMMA NextRequestInv ==
  ASSUME MailboxInv, RequestInv, [MailboxNext]_mailboxVars
  PROVE  RequestInv'
<1>1. CASE InitStep
  <2>1. UNCHANGED <<queue, at, kind, addr>> /\ phase # "running"
    BY <1>1 DEF InitStep, InitWrite, InitReply, InitRetry, InitTimeout, InitDone, reqVars
  <2> QED
    BY <2>1, RequestsUntouched DEF RequestInv
<1>2. ASSUME NEW c \in Clients, NEW k \in {"property", "vchiq"}, Start(c, k)
      PROVE  RequestInv'
  BY <1>2, StartRequests
<1>3. ASSUME NEW c \in Clients, Handler(c)
      PROVE  RequestInv'
  BY <1>3, HandlerRequests
<1>4. ASSUME NEW c \in Clients, Cancel(c)
      PROVE  RequestInv'
  <2>1. PICK i \in 1..Len(queue) : queue' = RemoveAt(queue, i)
    BY <1>4 DEF Cancel
  <2>2. queue \in Seq(Clients)
    BY DEF MailboxInv, MailboxTypeOK
  <2>3. UNCHANGED <<phase, at, kind, addr>>
    BY <1>4 DEF Cancel
  <2> QED
    BY <2>1, <2>2, <2>3, RemoveAtEntries, DequeueRequests
<1>5. CASE FwTake \/ FwAnswer \/ MailboxIsr \/ DpcStart \/ DpcRead \/ DpcNoRequest \/ DpcEnable
           \/ UNCHANGED mailboxVars
  <2>1. UNCHANGED <<queue, at, kind, addr, phase>>
    BY <1>5 DEF FwTake, FwAnswer, MailboxIsr, DpcStart, DpcRead, DpcNoRequest, DpcEnable,
                mailboxVars, devVars, reqVars
  <2> QED
    BY <2>1, RequestsUntouched
<1>6. CASE DpcComplete
  <2>1. UNCHANGED <<phase, at, kind, addr>>
    BY <1>6 DEF DpcComplete
  <2>2. Len(queue) \in Nat
    BY DEF MailboxInv, MailboxTypeOK
  <2>3. \A k \in 1..(Len(queue) - 1) : queue'[k] = IF k < 1 THEN queue[k] ELSE queue[k + 1]
    BY <1>6, <2>2, CompleteTakesHead
  <2> QED
    BY <1>6, <2>1, <2>3, CompleteTakesHead, DequeueRequests
<1>7. CASE ReleaseHardware
  BY <1>7 DEF ReleaseHardware, RequestInv, InQueue
<1> QED
  BY <1>1, <1>2, <1>3, <1>4, <1>5, <1>6, <1>7 DEF MailboxNext, MailboxDpc

\* Every step keeps the interrupt off while the DPC runs.
LEMMA NextIrqInv ==
  ASSUME MailboxInv, IrqInv, [MailboxNext]_mailboxVars
  PROVE  IrqInv'
<1> USE DEF IrqInv
<1>1. CASE InitStep
  BY <1>1 DEF InitStep, InitWrite, InitReply, InitRetry, InitTimeout, InitDone, dpcVars, hwVars,
              MailboxInv, DpcInv
<1>2. ASSUME NEW c \in Clients, NEW k \in {"property", "vchiq"}, Start(c, k)
      PROVE  IrqInv'
  BY <1>2 DEF Start, dpcVars
<1>3. ASSUME NEW c \in Clients, Handler(c) \/ Cancel(c)
      PROVE  IrqInv'
  BY <1>3 DEF Handler, TakeWriteLock, Poll, PollTimeout, PollReady, Forward, WriteRegister, Cancel,
              hwVars, dpcVars
<1>4. CASE FwTake \/ FwAnswer \/ ReleaseHardware
  BY <1>4 DEF FwTake, FwAnswer, ReleaseHardware, dpcVars
<1>5. CASE MailboxIsr \/ MailboxDpc
  BY <1>5 DEF MailboxIsr, MailboxDpc, DpcStart, DpcRead, DpcNoRequest, DpcComplete, DpcEnable, hwVars
<1>6. CASE UNCHANGED mailboxVars
  BY <1>6 DEF mailboxVars, hwVars, dpcVars
<1> QED
  BY <1>1, <1>2, <1>3, <1>4, <1>5, <1>6 DEF MailboxNext

-----------------------------------------------------------------------------
(* No request is parked without an answer on its way. *)

\* The handler that has parked its query and not written it to the mailbox yet.
Writing == {c \in Clients : at[c] = "write" /\ kind[c] = "property"}

\* There is at most one.
LEMMA OneWriter ==
  ASSUME NEW S, NEW w, \A c \in S : c = w
  PROVE  Cardinality(S) = IF S = {} THEN 0 ELSE 1
<1>1. S = {} \/ S = {w}
  OBVIOUS
<1> QED
  BY <1>1, FS_EmptySet, FS_Singleton

\* The sum of Outstanding, with Writing named.
LEMMA OutstandingSum ==
  ASSUME MailboxInv
  PROVE  /\ Outstanding = Count(writeFifo) + (IF job = NoAddress THEN 0 ELSE 1) + Len(readFifo)
                           + (IF dpc = "retrieve" THEN 1 ELSE 0) + Cardinality(Writing)
         /\ Count(writeFifo) \in Nat /\ Len(readFifo) \in Nat /\ Len(queue) \in Nat
         /\ Cardinality(Writing) = IF Writing = {} THEN 0 ELSE 1
<1>1. \A c \in Writing : c = writeLock
  BY DEF Writing, MailboxInv, LockInv
<1>2. Cardinality(Writing) = IF Writing = {} THEN 0 ELSE 1
  BY <1>1, OneWriter, SMTT(30)
<1>3. writeFifo \in Seq(Words) /\ readFifo \in Seq(Addresses) /\ queue \in Seq(Clients)
  BY DEF MailboxInv, MailboxTypeOK
<1> QED
  BY <1>2, <1>3, CountType DEF Outstanding, Writing

\* The same after a step.
LEMMA OutstandingSumNext ==
  ASSUME MailboxInv'
  PROVE  /\ Outstanding' = Count(writeFifo') + (IF job' = NoAddress THEN 0 ELSE 1) + Len(readFifo')
                           + (IF dpc' = "retrieve" THEN 1 ELSE 0) + Cardinality(Writing')
         /\ Count(writeFifo') \in Nat /\ Len(readFifo') \in Nat /\ Len(queue') \in Nat
         /\ Cardinality(Writing') = IF Writing' = {} THEN 0 ELSE 1
<1>1. PICK S, w : S = Writing' /\ w = writeLock'
  OBVIOUS
<1>2. \A c \in S : c = w
  BY <1>1 DEF Writing, MailboxInv, LockInv
<1>3. Cardinality(S) = IF S = {} THEN 0 ELSE 1
  BY <1>2, OneWriter
<1>4. writeFifo' \in Seq(Words) /\ readFifo' \in Seq(Addresses) /\ queue' \in Seq(Clients)
  BY DEF MailboxInv, MailboxTypeOK
<1> QED
  BY <1>1, <1>3, <1>4, CountType DEF Outstanding, Writing

LEMMA InitQueued == MailboxInit => QueuedIsOutstanding
<1> SUFFICES ASSUME MailboxInit PROVE QueuedIsOutstanding
  OBVIOUS
<1>1. MailboxInv
  BY InitMailboxInv
<1> QED
  BY <1>1, OutstandingSum DEF MailboxInit, QueuedIsOutstanding

\* Steps that neither park a request nor complete one, and lose no answer.
LEMMA NextQueued ==
  ASSUME MailboxInv, MailboxInv', RequestInv, IrqInv, QueuedIsOutstanding,
         [MailboxNext]_mailboxVars
  PROVE  QueuedIsOutstanding'
<1> USE DEF QueuedIsOutstanding
<1>1. \/ queue' = <<>>
      \/ UNCHANGED <<queue, writeFifo, job, readFifo, dpc, Writing>>
      => QueuedIsOutstanding'
  BY OutstandingSum, OutstandingSumNext, SMTT(30)
<1>2. CASE InitStep
  <2>1. queue' = <<>>
    BY <1>2 DEF InitStep, InitWrite, InitReply, InitRetry, InitTimeout, InitDone, RequestInv
  <2> QED
    BY <1>1, <2>1
<1>3. ASSUME NEW c \in Clients, NEW k \in {"property", "vchiq"}, Start(c, k)
      PROVE  QueuedIsOutstanding'
  <2>1. Writing' = Writing
    BY <1>3 DEF Start, Writing, MailboxInv, MailboxTypeOK
  <2> QED
    BY <1>1, <1>3, <2>1 DEF Start, devVars, dpcVars, outsideVars
<1>4. ASSUME NEW c \in Clients, Handler(c)
      PROVE  QueuedIsOutstanding'
  <2>1. CASE Forward(c)
    <3>1. Writing = {}
      BY <2>1 DEF Forward, Writing, MailboxInv, LockInv
    <3>2. c \in Writing'
      BY <2>1 DEF Forward, Writing, RequestInv, MailboxInv, MailboxTypeOK
    <3>3. Len(queue') = Len(queue) + 1
      BY <2>1 DEF Forward, MailboxInv, MailboxTypeOK
    <3> QED
      BY <2>1, <3>1, <3>2, <3>3, OutstandingSum, OutstandingSumNext
      DEF Forward, hwVars, dpcVars, outsideVars
  <2>2. CASE WriteRegister(c)
    <3>1. Writing = IF kind[c] = "property" THEN {c} ELSE {}
      BY <2>2 DEF WriteRegister, Writing, MailboxInv, LockInv
    <3>2. Writing' = {}
      BY <2>2 DEF WriteRegister, Writing, MailboxInv, MailboxTypeOK, LockInv
    <3>3. LET word == IF kind[c] = "property" THEN addr[c] ELSE NoAddress
          IN  /\ word \in Words /\ writeFifo' = Append(writeFifo, word)
              /\ kind[c] = "property" => word # NoAddress
      BY <2>2, MailboxAssumption DEF WriteRegister, Words, RequestInv
    <3>4. Count(writeFifo') = Count(writeFifo) + (IF kind[c] = "property" THEN 1 ELSE 0)
      BY <3>3, CountAppend DEF MailboxInv, MailboxTypeOK
    <3> QED
      BY <2>2, <3>1, <3>2, <3>4, OutstandingSum, OutstandingSumNext
      DEF WriteRegister, dpcVars, outsideVars
  <2>3. CASE TakeWriteLock(c) \/ Poll(c) \/ PollTimeout(c) \/ PollReady(c)
    <3>1. Writing' = Writing
      BY <2>3, SMTT(30) DEF TakeWriteLock, Poll, PollTimeout, PollReady, Writing, MailboxInv, MailboxTypeOK
    <3> QED
      BY <1>1, <2>3, <3>1 DEF TakeWriteLock, Poll, PollTimeout, PollReady, hwVars, devVars,
                              dpcVars, outsideVars
  <2> QED
    BY <1>4, <2>1, <2>2, <2>3 DEF Handler
<1>5. ASSUME NEW c \in Clients, Cancel(c)
      PROVE  QueuedIsOutstanding'
  <2>1. Len(queue') = Len(queue) - 1
    BY <1>5, RemoveAtEntries DEF Cancel, MailboxInv, MailboxTypeOK
  <2>2. UNCHANGED <<writeFifo, job, readFifo, dpc, Writing>>
    BY <1>5 DEF Cancel, dpcVars, Writing
  <2> QED
    BY <2>1, <2>2, OutstandingSum, OutstandingSumNext
<1>6. CASE FwTake
  <2>1. UNCHANGED <<queue, readFifo, dpc, Writing>>
    BY <1>6 DEF FwTake, devVars, dpcVars, reqVars, Writing
  <2>2. Count(writeFifo) = Count(writeFifo') + (IF job' = NoAddress THEN 0 ELSE 1)
    BY <1>6, CountTail DEF FwTake, MailboxInv, MailboxTypeOK
  <2> QED
    BY <1>6, <2>1, <2>2, OutstandingSum, OutstandingSumNext DEF FwTake
<1>7. CASE FwAnswer
  <2>1. UNCHANGED <<queue, writeFifo, dpc, Writing>>
    BY <1>7 DEF FwAnswer, devVars, dpcVars, reqVars, Writing
  <2>2. Len(readFifo') = Len(readFifo) + 1 /\ job # NoAddress /\ job' = NoAddress
    BY <1>7 DEF FwAnswer, MailboxInv, MailboxTypeOK
  <2> QED
    BY <2>1, <2>2, OutstandingSum, OutstandingSumNext
<1>8. CASE MailboxIsr \/ DpcStart \/ DpcEnable \/ UNCHANGED mailboxVars
  <2>1. UNCHANGED <<queue, writeFifo, job, readFifo, at, kind>>
    BY <1>8 DEF MailboxIsr, DpcStart, DpcEnable, mailboxVars, hwVars, devVars, reqVars, outsideVars
  <2>2. dpc' = "retrieve" <=> dpc = "retrieve"
    BY <1>8 DEF MailboxIsr, DpcStart, DpcEnable, mailboxVars, dpcVars, IrqInv
  <2>3. Writing' = Writing
    BY <2>1 DEF Writing
  <2> QED
    BY <2>1, <2>2, <2>3, OutstandingSum, OutstandingSumNext
<1>9. CASE DpcRead
  <2>1. UNCHANGED <<queue, writeFifo, job, Writing>> /\ dpc # "retrieve" /\ dpc' = "retrieve"
    BY <1>9 DEF DpcRead, devVars, reqVars, outsideVars, Writing
  <2>2. Len(readFifo') = Len(readFifo) - 1
    BY <1>9 DEF DpcRead, MailboxInv, DpcInv, MailboxTypeOK
  <2> QED
    BY <2>1, <2>2, OutstandingSum, OutstandingSumNext
<1>10. CASE DpcNoRequest
  BY <1>1, <1>10 DEF DpcNoRequest, devVars
<1>11. CASE DpcComplete
  <2>1. UNCHANGED <<writeFifo, job, readFifo, Writing>> /\ dpc = "retrieve" /\ dpc' # "retrieve"
    BY <1>11 DEF DpcComplete, outsideVars, Writing
  <2> QED
    BY <1>11, <2>1, CompleteTakesHead, OutstandingSum, OutstandingSumNext
<1>12. CASE ReleaseHardware
  BY <1>1, <1>12 DEF ReleaseHardware
<1> QED
  BY <1>2, <1>3, <1>4, <1>5, <1>6, <1>7, <1>8, <1>9, <1>10, <1>11, <1>12
  DEF MailboxNext, MailboxDpc
-----------------------------------------------------------------------------
(* Answers and requests, in the same order. *)

Places == 1..Len(queue)

\* The requests whose answer has come, and those the firmware has taken.
Answered == Len(readFifo) + (IF dpc = "retrieve" THEN 1 ELSE 0)
Taken == Answered + (IF job = NoAddress THEN 0 ELSE 1)

\* The memory of the request of c is allocated.
Live(c) == kind[c] = "property" /\ (InQueue(c) \/ at[c] \in Owned)

\* The queue of the channel: answered requests, the one the firmware works
\* on, those in the FIFO in the order they lie there, the one being written.
TakenQueued == Taken <= Len(queue)

AnsweredFirst ==
  \A i \in Places : pages[addr[queue[i]]] = IF i <= Answered THEN "answer" ELSE "query"

TakenNext == job # NoAddress => job = addr[queue[Taken]]

FifoQueued ==
  \A j \in 1..Len(writeFifo) : writeFifo[j] # NoAddress =>
    \E i \in Places : i > Taken /\ writeFifo[j] = addr[queue[i]]

QueuedInFifo ==
  \A i \in Places : i > Taken =>
    at[queue[i]] = "write" \/ \E j \in 1..Len(writeFifo) : writeFifo[j] = addr[queue[i]]

SameOrder ==
  \A j, k \in 1..Len(writeFifo) : \A i, l \in Places :
    (writeFifo[j] = addr[queue[i]] /\ writeFifo[k] = addr[queue[l]] /\ j < k) => i < l

WriterLast ==
  \A c \in Writing :
    /\ Taken < Len(queue) /\ queue[Len(queue)] = c
    /\ \A j \in 1..Len(writeFifo) : writeFifo[j] # addr[c]

\* What is not parked yet is not answered, and no two requests share memory.
FreshQuery == \A c \in Clients : Live(c) /\ ~InQueue(c) => pages[addr[c]] = "query"

OwnMemory == \A c, d \in Clients : Live(c) /\ Live(d) /\ addr[c] = addr[d] => c = d

PairInv ==
  /\ TakenQueued /\ AnsweredFirst /\ TakenNext
  /\ FifoQueued /\ QueuedInFifo /\ SameOrder /\ WriterLast
  /\ FreshQuery /\ OwnMemory

\* The query of the boot is the only word in flight.
MacInv ==
  /\ macAddr \in Addresses /\ pages[macAddr] # "free"
  /\ \/ writeFifo = <<macAddr>> /\ job = NoAddress /\ readFifo = <<>>
     \/ writeFifo = <<>> /\ job = macAddr /\ readFifo = <<>>
     \/ writeFifo = <<>> /\ job = NoAddress /\ readFifo = <<macAddr>>

UndisturbedInv ==
  upset = {} =>
    /\ phase = "boot" => job = NoAddress /\ readFifo = <<>>
    /\ phase = "mac" => MacInv
    /\ phase = "running" => PairInv

\* What the lemmas below use of the types.
LEMMA QueueFacts ==
  ASSUME MailboxInv, RequestInv
  PROVE  /\ Len(queue) \in Nat /\ Len(readFifo) \in Nat /\ Len(writeFifo) \in Nat
         /\ \A i \in Places : /\ queue[i] \in Clients /\ InQueue(queue[i]) /\ Live(queue[i])
                              /\ addr[queue[i]] \in Addresses
         /\ \A i, k \in Places : queue[i] = queue[k] => i = k
         /\ \A j \in 1..Len(writeFifo) : writeFifo[j] \in Words
         /\ NoAddress \notin Addresses
<1>1. queue \in Seq(Clients) /\ readFifo \in Seq(Addresses) /\ writeFifo \in Seq(Words)
  BY DEF MailboxInv, MailboxTypeOK
<1>2. \A i \in Places : queue[i] \in Clients /\ InQueue(queue[i])
  BY <1>1 DEF Places, InQueue
<1>3. \A i \in Places : Live(queue[i]) /\ addr[queue[i]] \in Addresses
  BY <1>2 DEF RequestInv, Live
<1> QED
  BY <1>1, <1>2, <1>3, MailboxAssumption DEF RequestInv, Places

\* Queries in memory of their own.
LEMMA AddressesApart ==
  ASSUME MailboxInv, RequestInv, PairInv
  PROVE  /\ \A i, k \in Places : addr[queue[i]] = addr[queue[k]] => i = k
         /\ \A i \in Places : \A c \in Clients :
              Live(c) /\ ~InQueue(c) => addr[c] # addr[queue[i]]
         /\ \A c \in Clients : Live(c) => pages[addr[c]] # "free" /\ addr[c] \in Addresses
<1>1. \A i, k \in Places : addr[queue[i]] = addr[queue[k]] => i = k
  BY QueueFacts DEF PairInv, OwnMemory
<1>2. \A i \in Places : \A c \in Clients : Live(c) /\ ~InQueue(c) => addr[c] # addr[queue[i]]
  BY QueueFacts DEF PairInv, OwnMemory
<1>3. \A c \in Clients : InQueue(c) => \E i \in Places : queue[i] = c
  BY DEF InQueue, Places
<1>4. \A c \in Clients : Live(c) => pages[addr[c]] # "free"
  BY <1>3 DEF PairInv, AnsweredFirst, FreshQuery
<1>5. \A c \in Clients : Live(c) => addr[c] \in Addresses
  BY DEF Live, RequestInv, Owned
<1> QED
  BY <1>1, <1>2, <1>4, <1>5

\* The two counts are numbers.
LEMMA CountFacts ==
  ASSUME MailboxInv
  PROVE  Answered \in Nat /\ Taken \in Nat /\ Answered <= Taken
         /\ (job # NoAddress => Taken = Answered + 1) /\ (job = NoAddress => Taken = Answered)
<1>1. Len(readFifo) \in Nat
  BY DEF MailboxInv, MailboxTypeOK
<1>2. Answered \in Nat
  <2>1. CASE dpc = "retrieve"
    BY <1>1, <2>1 DEF Answered
  <2>2. CASE dpc # "retrieve"
    BY <1>1, <2>2 DEF Answered
  <2> QED
    BY <2>1, <2>2
<1>3. CASE job = NoAddress
  BY <1>2, <1>3 DEF Taken
<1>4. CASE job # NoAddress
  BY <1>2, <1>4 DEF Taken
<1> QED
  BY <1>2, <1>3, <1>4

\* They change with the FIFO, the firmware and the DPC only.
LEMMA CountsUnchanged ==
  ASSUME UNCHANGED <<readFifo, job>>, dpc' = "retrieve" <=> dpc = "retrieve"
  PROVE  Answered' = Answered /\ Taken' = Taken
BY DEF Answered, Taken

\* Steps of requests that are not parked.
LEMMA PairKept ==
  ASSUME MailboxInv, RequestInv, PairInv,
         UNCHANGED <<queue, writeFifo, readFifo, job>>,
         dpc' = "retrieve" <=> dpc = "retrieve",
         \A i \in Places :
           /\ addr'[queue[i]] = addr[queue[i]]
           /\ pages'[addr[queue[i]]] = pages[addr[queue[i]]]
           /\ at'[queue[i]] = "write" <=> at[queue[i]] = "write",
         \A c \in Writing' : c \in Writing /\ addr'[c] = addr[c],
         \A c \in Clients : Live(c)' /\ ~InQueue(c) => pages'[addr'[c]] = "query",
         \A c, d \in Clients : Live(c)' /\ Live(d)' /\ addr'[c] = addr'[d] => c = d
  PROVE  PairInv'
<1>1. Answered' = Answered /\ Taken' = Taken
  BY CountsUnchanged
<1>2. Places' = Places /\ \A c \in Clients : InQueue(c)' <=> InQueue(c)
  BY DEF Places, InQueue
<1>3. TakenQueued'
  BY <1>1 DEF PairInv, TakenQueued
<1>4. AnsweredFirst'
  BY <1>1, <1>2 DEF PairInv, AnsweredFirst
<1>5. TakenNext'
  <2>1. job # NoAddress => Taken \in Places
    BY CountFacts, QueueFacts DEF PairInv, TakenQueued, Places
  <2> QED
    BY <1>1, <2>1 DEF PairInv, TakenNext
<1>6. FifoQueued'
  BY <1>1, <1>2 DEF PairInv, FifoQueued
<1>7. QueuedInFifo'
  BY <1>1, <1>2 DEF PairInv, QueuedInFifo
<1>8. SameOrder'
  BY <1>2 DEF PairInv, SameOrder
<1>9. WriterLast'
  BY <1>1 DEF PairInv, WriterLast
<1>10. FreshQuery' /\ OwnMemory'
  BY <1>2 DEF FreshQuery, OwnMemory
<1> QED
  BY <1>3, <1>4, <1>5, <1>6, <1>7, <1>8, <1>9, <1>10 DEF PairInv

\* Steps that leave the memory alone, too.
LEMMA PairUntouched ==
  ASSUME MailboxInv, RequestInv, PairInv,
         UNCHANGED <<queue, writeFifo, readFifo, job, pages, addr, kind>>,
         dpc' = "retrieve" <=> dpc = "retrieve",
         \A c \in Clients :
           /\ at'[c] \in Owned => at[c] \in Owned
           /\ kind[c] = "property" => (at'[c] = "write" <=> at[c] = "write")
  PROVE  PairInv'
<1>1. Writing' = Writing
  BY DEF Writing
<1>2. \A i \in Places : at'[queue[i]] = "write" <=> at[queue[i]] = "write"
  BY QueueFacts DEF Live
<1>3. \A c \in Clients : Live(c)' => Live(c)
  BY DEF Live, InQueue
<1> QED
  BY <1>1, <1>2, <1>3, PairKept DEF PairInv, FreshQuery, OwnMemory

\* A new request gets memory of its own.
LEMMA StartPair ==
  ASSUME MailboxInv, RequestInv, PairInv,
         NEW c \in Clients, NEW k \in {"property", "vchiq"}, Start(c, k)
  PROVE  PairInv'
<1>1. UNCHANGED <<queue, writeFifo, readFifo, job, dpc>>
  BY DEF Start, devVars, dpcVars, outsideVars
<1>2. /\ \A d \in Clients : d # c => at'[d] = at[d] /\ kind'[d] = kind[d] /\ addr'[d] = addr[d]
      /\ at'[c] = "lock" /\ kind'[c] = k /\ ~InQueue(c)
  BY DEF Start, MailboxInv, MailboxTypeOK
<1>3. /\ \A d \in Clients : Live(d)' /\ d # c => Live(d)
      /\ Live(c)' => k = "property"
  BY <1>1, <1>2 DEF Live, InQueue
<1>4. \A i \in Places : queue[i] # c /\ addr'[queue[i]] = addr[queue[i]]
                       /\ at'[queue[i]] = at[queue[i]]
  BY <1>2, QueueFacts
<1>5. \A d \in Writing' : d \in Writing /\ addr'[d] = addr[d]
  BY <1>2 DEF Writing
<1>6. CASE k = "vchiq" /\ UNCHANGED <<pages, addr>>
  <2>1. \A d \in Clients : Live(d)' => Live(d)
    BY <1>3, <1>6
  <2> QED
    BY <1>1, <1>4, <1>5, <1>6, <2>1, PairKept DEF PairInv, FreshQuery, OwnMemory
<1>7. ASSUME NEW a \in Free, pages' = [pages EXCEPT ![a] = "query"], addr' = [addr EXCEPT ![c] = a]
      PROVE  PairInv'
  <2>1. /\ pages'[a] = "query" /\ addr'[c] = a
        /\ \A b \in Addresses : b # a => pages'[b] = pages[b]
        /\ \A d \in Clients : Live(d) => addr[d] \in Addresses /\ addr[d] # a
    BY <1>7, AddressesApart DEF Free, MailboxInv, MailboxTypeOK
  <2>2. \A i \in Places : pages'[addr[queue[i]]] = pages[addr[queue[i]]]
    BY <2>1, QueueFacts
  <2>3. \A d \in Clients : Live(d)' /\ ~InQueue(d) => pages'[addr'[d]] = "query"
    BY <1>2, <1>3, <2>1 DEF PairInv, FreshQuery, OwnMemory
  <2>4. \A d, e \in Clients : Live(d)' /\ Live(e)' /\ addr'[d] = addr'[e] => d = e
    BY <1>2, <1>3, <2>1 DEF PairInv, FreshQuery, OwnMemory
  <2> QED
    BY <1>1, <1>4, <1>5, <2>2, <2>3, <2>4, PairKept
<1> QED
  BY <1>6, <1>7 DEF Start

\* A request that fails leaves with its memory.
LEMMA TimeoutPair ==
  ASSUME MailboxInv, RequestInv, PairInv, NEW c \in Clients, PollTimeout(c)
  PROVE  PairInv'
<1>1. UNCHANGED <<queue, writeFifo, readFifo, job, dpc, kind, addr>>
  BY DEF PollTimeout, dpcVars, outsideVars
<1>2. /\ \A d \in Clients : d # c => at'[d] = at[d]
      /\ at'[c] = "idle" /\ at[c] = "poll"
  BY DEF PollTimeout, MailboxInv, MailboxTypeOK
<1>3. ~InQueue(c)
  BY <1>2 DEF RequestInv, InQueue
<1>4. \A d \in Clients : Live(d)' => Live(d) /\ d # c
  BY <1>1, <1>2, <1>3 DEF InQueue, Live, Owned
<1>5. \A d \in Clients : Live(d) /\ d # c => pages'[addr[d]] = pages[addr[d]]
  <2>1. CASE kind[c] = "property"
    <3>1. Live(c)
      BY <1>2, <2>1 DEF Live, Owned
    <3>2. \A d \in Clients : Live(d) /\ d # c => addr[d] # addr[c] /\ addr[d] \in Addresses
      BY <3>1, AddressesApart DEF PairInv, FreshQuery, OwnMemory
    <3>3. pages' = [pages EXCEPT ![addr[c]] = "free"]
      BY <2>1 DEF PollTimeout, Complete
    <3> QED
      BY <3>2, <3>3 DEF MailboxInv, MailboxTypeOK
  <2>2. CASE kind[c] # "property"
    BY <2>2 DEF PollTimeout, Complete
  <2> QED
    BY <2>1, <2>2
<1>6. \A i \in Places : queue[i] # c /\ pages'[addr[queue[i]]] = pages[addr[queue[i]]]
                       /\ at'[queue[i]] = at[queue[i]]
  BY <1>2, <1>3, <1>5, QueueFacts
<1>7. Writing' = Writing
  BY <1>1, <1>2 DEF Writing
<1>8. \A d \in Clients : Live(d)' /\ ~InQueue(d) => pages'[addr'[d]] = "query"
  BY <1>1, <1>4, <1>5 DEF PairInv, FreshQuery, OwnMemory
<1>9. \A d, e \in Clients : Live(d)' /\ Live(e)' /\ addr'[d] = addr'[e] => d = e
  BY <1>1, <1>4 DEF PairInv, FreshQuery, OwnMemory
<1> QED
  BY <1>1, <1>6, <1>7, <1>8, <1>9, PairKept

\* The request is parked last and then written to the mailbox.
LEMMA ForwardPair ==
  ASSUME MailboxInv, RequestInv, PairInv, NEW c \in Clients, Forward(c)
  PROVE  PairInv'
<1>1. /\ UNCHANGED <<writeFifo, readFifo, job, dpc, kind, addr, pages>>
      /\ \A d \in Clients : d # c => at'[d] = at[d]
      /\ at'[c] = "write" /\ at[c] = "forward" /\ kind[c] = "property"
      /\ queue' = Append(queue, c)
  BY DEF Forward, dpcVars, hwVars, outsideVars, MailboxInv, MailboxTypeOK, RequestInv
<1>2. ~InQueue(c) /\ Live(c)
  BY <1>1 DEF RequestInv, InQueue, Live, Owned
<1>3. /\ Len(queue') = Len(queue) + 1 /\ queue'[Len(queue) + 1] = c
      /\ \A i \in Places : queue'[i] = queue[i]
      /\ Places' = Places \cup {Len(queue) + 1} /\ Len(queue) + 1 \notin Places
  BY <1>1 DEF MailboxInv, MailboxTypeOK, Places
<1>4. Answered' = Answered /\ Taken' = Taken /\ Answered \in Nat /\ Taken \in Nat
      /\ Answered <= Taken
  BY <1>1, CountFacts, CountsUnchanged
<1>5. \A d \in Writing' : d = c
  BY <1>1 DEF Writing, MailboxInv, LockInv
<1>6. \A d \in Clients : Live(d)' => Live(d)
  <2>1. \A d \in Clients : InQueue(d)' => InQueue(d) \/ d = c
    BY <1>3 DEF InQueue, Places
  <2> QED
    BY <1>1, <1>2, <2>1 DEF Live
<1>7. \A d \in Clients : Live(d)' /\ ~InQueue(d)' => ~InQueue(d)
  BY <1>3 DEF InQueue, Places
<1>8. \A j \in 1..Len(writeFifo) : writeFifo[j] # addr[c]
  <2>1. addr[c] # NoAddress
    BY <1>2, AddressesApart, QueueFacts
  <2> QED
    BY <1>2, <2>1, AddressesApart DEF PairInv, FifoQueued
<1>9. /\ Taken <= Len(queue) /\ Len(queue) \in Nat
      /\ pages[addr[c]] = "query"
  BY <1>2, QueueFacts DEF PairInv, TakenQueued, FreshQuery
<1>10. UNCHANGED <<writeFifo, job, addr, pages>>
  BY <1>1
<1>11. TakenQueued'
  BY <1>3, <1>4, <1>9 DEF TakenQueued
<1>12. AnsweredFirst'
  BY <1>3, <1>4, <1>9, <1>10 DEF PairInv, AnsweredFirst
<1>13. TakenNext'
  <2>1. job # NoAddress => Taken \in Places
    BY <1>4, <1>9, CountFacts DEF Places
  <2> QED
    BY <1>3, <1>4, <1>10, <2>1 DEF PairInv, TakenNext
<1>14. FifoQueued'
  BY <1>3, <1>4, <1>10 DEF PairInv, FifoQueued
<1>15. QueuedInFifo'
  <2>1. \A i \in Places : queue[i] # c /\ queue[i] \in Clients
    BY <1>2, QueueFacts
  <2>2. \A i \in Places : at'[queue'[i]] = at[queue[i]]
    BY <1>1, <1>3, <2>1
  <2> QED
    <3> SUFFICES ASSUME NEW i \in Places', i > Taken'
                 PROVE  \/ at'[queue'[i]] = "write"
                        \/ \E j \in 1..Len(writeFifo') : writeFifo'[j] = addr'[queue'[i]]
      BY DEF QueuedInFifo
    <3>1. CASE i = Len(queue) + 1
      BY <1>1, <1>3, <3>1
    <3>2. CASE i \in Places
      BY <1>1, <1>3, <1>4, <2>2, <3>2 DEF PairInv, QueuedInFifo
    <3> QED
      BY <1>3, <3>1, <3>2
<1>16. SameOrder'
  <2> SUFFICES ASSUME NEW j \in 1..Len(writeFifo'), NEW k \in 1..Len(writeFifo'),
                      NEW i \in Places', NEW l \in Places',
                      writeFifo'[j] = addr'[queue'[i]], writeFifo'[k] = addr'[queue'[l]], j < k
               PROVE  i < l
    BY DEF SameOrder
  <2>1. i \in Places /\ l \in Places
    BY <1>3, <1>8, <1>10
  <2> QED
    BY <1>3, <1>10, <2>1 DEF PairInv, SameOrder
<1>17. WriterLast'
  BY <1>3, <1>4, <1>5, <1>8, <1>9, <1>10 DEF WriterLast
<1>18. FreshQuery' /\ OwnMemory'
  BY <1>6, <1>7, <1>10 DEF PairInv, FreshQuery, OwnMemory
<1> QED
  BY <1>11, <1>12, <1>13, <1>14, <1>15, <1>16, <1>17, <1>18 DEF PairInv
LEMMA WritePair ==
  ASSUME MailboxInv, RequestInv, PairInv, NEW c \in Clients, WriteRegister(c)
  PROVE  PairInv'
<1> DEFINE word == IF kind[c] = "property" THEN addr[c] ELSE NoAddress
<1>1. /\ UNCHANGED <<queue, readFifo, job, dpc, kind, addr, pages>>
      /\ writeFifo' = Append(writeFifo, word) /\ at[c] = "write"
  BY DEF WriteRegister, dpcVars, outsideVars
<1>2. at'[c] = "idle" /\ \A d \in Clients : d # c => at'[d] = at[d]
  BY DEF WriteRegister, MailboxInv, MailboxTypeOK
<1>3. /\ word \in Words
      /\ kind[c] = "property" => c \in Writing /\ word \in Addresses
      /\ kind[c] # "property" => word = NoAddress
  BY <1>1 DEF Words, Writing, RequestInv
<1>4. /\ Len(writeFifo') = Len(writeFifo) + 1 /\ writeFifo'[Len(writeFifo) + 1] = word
      /\ \A j \in 1..Len(writeFifo) : writeFifo'[j] = writeFifo[j]
      /\ 1..Len(writeFifo') = (1..Len(writeFifo)) \cup {Len(writeFifo) + 1}
      /\ Len(writeFifo) \in Nat
  BY <1>1, <1>3 DEF MailboxInv, MailboxTypeOK
<1> HIDE DEF word
<1>5. /\ Places' = Places /\ Answered' = Answered /\ Taken' = Taken
      /\ \A d \in Clients : InQueue(d)' <=> InQueue(d)
      /\ \A d \in Clients : Live(d)' <=> Live(d)
  BY <1>1, <1>2, CountsUnchanged DEF Places, InQueue, Live, Owned
<1>6. Writing' = {}
  BY <1>1, <1>2 DEF Writing, MailboxInv, LockInv
<1>7. TakenQueued' /\ AnsweredFirst' /\ TakenNext' /\ WriterLast' /\ FreshQuery' /\ OwnMemory'
  BY <1>1, <1>5, <1>6
  DEF PairInv, TakenQueued, AnsweredFirst, TakenNext, WriterLast, FreshQuery, OwnMemory
<1>8. kind[c] = "property" =>
        /\ Len(queue) \in Places /\ Taken < Len(queue) /\ queue[Len(queue)] = c /\ word = addr[c]
        /\ \A j \in 1..Len(writeFifo) : writeFifo[j] # addr[c]
  <2>1. ASSUME kind[c] = "property"
        PROVE  Taken < Len(queue) /\ queue[Len(queue)] = c
               /\ \A j \in 1..Len(writeFifo) : writeFifo[j] # addr[c]
    BY <1>3, <2>1 DEF PairInv, WriterLast
  <2> QED
    BY <2>1, CountFacts, QueueFacts DEF Places, word
<1>9. FifoQueued'
  <2> SUFFICES ASSUME NEW j \in 1..Len(writeFifo'), writeFifo'[j] # NoAddress
               PROVE  \E i \in Places : i > Taken /\ writeFifo'[j] = addr[queue[i]]
    BY <1>1, <1>5 DEF FifoQueued
  <2>1. CASE j \in 1..Len(writeFifo)
    BY <1>4, <2>1 DEF PairInv, FifoQueued
  <2>2. CASE j = Len(writeFifo) + 1
    BY <1>3, <1>4, <1>8, <2>2, CountFacts, QueueFacts
  <2> QED
    BY <1>4, <2>1, <2>2
<1>10. QueuedInFifo'
  <2> SUFFICES ASSUME NEW i \in Places, i > Taken
               PROVE  \/ at'[queue[i]] = "write"
                      \/ \E j \in 1..Len(writeFifo') : writeFifo'[j] = addr[queue[i]]
    BY <1>1, <1>5 DEF QueuedInFifo
  <2>1. CASE queue[i] = c
    <3>1. word = addr[c]
      BY <1>8, <2>1, QueueFacts DEF Live
    <3> QED
      BY <1>4, <2>1, <3>1
  <2>2. CASE queue[i] # c
    BY <1>2, <1>4, <2>2, QueueFacts DEF PairInv, QueuedInFifo
  <2> QED
    BY <2>1, <2>2
<1>11. SameOrder'
  <2> SUFFICES ASSUME NEW j \in 1..Len(writeFifo'), NEW k \in 1..Len(writeFifo'),
                      NEW i \in Places, NEW l \in Places,
                      writeFifo'[j] = addr[queue[i]], writeFifo'[k] = addr[queue[l]], j < k
               PROVE  i < l
    BY <1>1, <1>5 DEF SameOrder
  <2>1. j \in 1..Len(writeFifo) /\ writeFifo[j] = addr[queue[i]]
    BY <1>4
  <2>2. CASE k \in 1..Len(writeFifo)
    BY <1>4, <2>1, <2>2 DEF PairInv, SameOrder
  <2>3. CASE k = Len(writeFifo) + 1
    <3>1. word = addr[queue[l]] /\ addr[queue[l]] \in Addresses
      BY <1>4, <2>3, QueueFacts
    <3>2. kind[c] = "property"
      BY <1>3, <3>1, QueueFacts
    <3>3. l = Len(queue)
      BY <1>8, <3>1, <3>2, AddressesApart
    <3>4. i # Len(queue)
      BY <1>8, <2>1, <3>2
    <3> QED
      BY <3>3, <3>4, QueueFacts DEF Places
  <2> QED
    BY <1>4, <2>2, <2>3
<1> QED
  BY <1>7, <1>9, <1>10, <1>11 DEF PairInv

\* The firmware takes the query of the first request that is not taken.
LEMMA TakePair ==
  ASSUME MailboxInv, RequestInv, PairInv, FwTake
  PROVE  PairInv'
<1>1. /\ UNCHANGED <<queue, readFifo, dpc, at, kind, addr, pages>>
      /\ job = NoAddress /\ writeFifo # <<>> /\ job' = Head(writeFifo) /\ writeFifo' = Tail(writeFifo)
  BY DEF FwTake, devVars, dpcVars, reqVars
<1>2. /\ Len(writeFifo') = Len(writeFifo) - 1 /\ job' = writeFifo[1] /\ 1 \in 1..Len(writeFifo)
      /\ \A j \in 1..Len(writeFifo') : writeFifo'[j] = writeFifo[j + 1] /\ j + 1 \in 1..Len(writeFifo)
      /\ \A j \in 1..Len(writeFifo) : j # 1 => j - 1 \in 1..Len(writeFifo') /\ j = (j - 1) + 1
  BY <1>1 DEF MailboxInv, MailboxTypeOK
<1>3. /\ Places' = Places /\ Answered' = Answered /\ Writing' = Writing
      /\ \A d \in Clients : InQueue(d)' <=> InQueue(d)
      /\ \A d \in Clients : Live(d)' <=> Live(d)
  BY <1>1 DEF Places, Answered, Writing, InQueue, Live
<1>4. /\ Taken = Answered /\ Taken \in Nat
      /\ Taken' = IF job' = NoAddress THEN Taken ELSE Taken + 1
  BY <1>1, <1>3, CountFacts DEF Taken
<1>5. ASSUME job' # NoAddress
      PROVE  /\ Taken + 1 \in Places /\ job' = addr[queue[Taken + 1]]
             /\ at[queue[Taken + 1]] # "write"
  <2>1. PICK i \in Places : i > Taken /\ writeFifo[1] = addr[queue[i]]
    BY <1>2, <1>5 DEF PairInv, FifoQueued
  <2>2. Taken + 1 \in Places
    BY <1>4, <2>1, QueueFacts DEF Places
  <2>3. at[queue[Taken + 1]] = "write" => FALSE
    <3> SUFFICES ASSUME at[queue[Taken + 1]] = "write" PROVE FALSE
      OBVIOUS
    <3>1. queue[Taken + 1] \in Writing
      BY <2>2, QueueFacts DEF Writing, Live
    <3>2. queue[Len(queue)] = queue[Taken + 1] /\ writeFifo[1] # addr[queue[Taken + 1]]
      BY <1>2, <3>1 DEF PairInv, WriterLast
    <3>3. Len(queue) \in Places
      BY <2>2, QueueFacts DEF Places
    <3>4. Len(queue) = Taken + 1
      BY <2>2, <3>2, <3>3, QueueFacts
    <3>5. i = Taken + 1
      BY <1>4, <2>1, <3>4, QueueFacts DEF Places
    <3> QED
      BY <2>1, <3>2, <3>5
  <2>4. i = Taken + 1
    <3>1. PICK j \in 1..Len(writeFifo) : writeFifo[j] = addr[queue[Taken + 1]]
      BY <1>4, <2>2, <2>3 DEF PairInv, QueuedInFifo
    <3>2. 1 < j => i < Taken + 1
      BY <1>2, <2>1, <2>2, <3>1 DEF PairInv, SameOrder
    <3>3. ~(i < Taken + 1)
      BY <1>4, <2>1 DEF Places
    <3>4. j = 1
      BY <3>2, <3>3
    <3> QED
      BY <2>1, <2>2, <3>1, <3>4, AddressesApart
  <2> QED
    BY <1>2, <2>1, <2>2, <2>3, <2>4
<1>6. TakenQueued' /\ TakenNext'
  BY <1>1, <1>3, <1>4, <1>5 DEF PairInv, TakenQueued, TakenNext, Places
<1>7. AnsweredFirst' /\ FreshQuery' /\ OwnMemory'
  BY <1>1, <1>3 DEF PairInv, AnsweredFirst, FreshQuery, OwnMemory
<1>8. FifoQueued'
  <2> SUFFICES ASSUME NEW j \in 1..Len(writeFifo'), writeFifo'[j] # NoAddress
               PROVE  \E i \in Places : i > Taken' /\ writeFifo'[j] = addr[queue[i]]
    BY <1>1, <1>3 DEF FifoQueued
  <2>1. PICK i \in Places : i > Taken /\ writeFifo[j + 1] = addr[queue[i]]
    BY <1>2 DEF PairInv, FifoQueued
  <2>2. job' # NoAddress => i > Taken + 1
    <3> SUFFICES ASSUME job' # NoAddress PROVE i > Taken + 1
      OBVIOUS
    <3>1. Taken + 1 < i
      BY <1>2, <1>5, <2>1 DEF PairInv, SameOrder
    <3> QED
      BY <1>4, <3>1 DEF Places
  <2> QED
    BY <1>2, <1>4, <2>1, <2>2
<1>9. QueuedInFifo'
  <2> SUFFICES ASSUME NEW i \in Places, i > Taken'
               PROVE  \/ at[queue[i]] = "write"
                      \/ \E j \in 1..Len(writeFifo') : writeFifo'[j] = addr[queue[i]]
    BY <1>1, <1>3 DEF QueuedInFifo
  <2>1. i > Taken
    BY <1>4 DEF Places
  <2>2. CASE at[queue[i]] # "write"
    <3>1. PICK j \in 1..Len(writeFifo) : writeFifo[j] = addr[queue[i]]
      BY <2>1, <2>2 DEF PairInv, QueuedInFifo
    <3>2. j # 1
      <4> SUFFICES ASSUME j = 1 PROVE FALSE
        OBVIOUS
      <4>1. job' # NoAddress /\ job' = addr[queue[i]]
        BY <1>2, <3>1, QueueFacts
      <4>2. i = Taken + 1
        BY <1>5, <4>1, AddressesApart
      <4> QED
        BY <1>4, <4>1, <4>2
    <3>3. j - 1 \in 1..Len(writeFifo') /\ writeFifo'[j - 1] = writeFifo[j]
      <4>1. j - 1 \in 1..Len(writeFifo') /\ j = (j - 1) + 1
        BY <1>2, <3>2
      <4>2. writeFifo'[j - 1] = writeFifo[(j - 1) + 1]
        BY <1>2, <4>1
      <4> QED
        BY <4>1, <4>2
    <3> QED
      BY <3>1, <3>3
  <2> QED
    BY <2>2
<1>10. SameOrder'
  <2>0. addr' = addr /\ queue' = queue /\ Places' = Places
    BY <1>1, <1>3
  <2> SUFFICES \A j, k \in 1..Len(writeFifo') : \A i, l \in Places :
                 (writeFifo'[j] = addr[queue[i]] /\ writeFifo'[k] = addr[queue[l]] /\ j < k) => i < l
    BY <2>0 DEF SameOrder
  <2> TAKE j, k \in 1..Len(writeFifo')
  <2> TAKE i, l \in Places
  <2> HAVE writeFifo'[j] = addr[queue[i]] /\ writeFifo'[k] = addr[queue[l]] /\ j < k
  <2>1. /\ j + 1 \in 1..Len(writeFifo) /\ k + 1 \in 1..Len(writeFifo) /\ j + 1 < k + 1
        /\ writeFifo[j + 1] = addr[queue[i]] /\ writeFifo[k + 1] = addr[queue[l]]
    BY <1>2
  <2>2. SameOrder
    BY DEF PairInv
  <2> QED
    BY <2>1, <2>2 DEF SameOrder
<1>11. WriterLast'
  <2> SUFFICES ASSUME NEW d \in Writing
               PROVE  /\ Taken' < Len(queue) /\ queue[Len(queue)] = d
                      /\ \A j \in 1..Len(writeFifo') : writeFifo'[j] # addr[d]
    BY <1>1, <1>3 DEF WriterLast
  <2>1. /\ Taken < Len(queue) /\ queue[Len(queue)] = d
        /\ \A j \in 1..Len(writeFifo) : writeFifo[j] # addr[d]
    BY DEF PairInv, WriterLast
  <2>2. job' # NoAddress => Taken + 1 # Len(queue)
    BY <1>5, <2>1 DEF Writing
  <2> QED
    BY <1>2, <1>4, <2>1, <2>2, QueueFacts
<1> QED
  BY <1>6, <1>7, <1>8, <1>9, <1>10, <1>11 DEF PairInv
\* The firmware answers the query it took.
LEMMA AnswerPair ==
  ASSUME MailboxInv, RequestInv, PairInv, FwAnswer
  PROVE  PairInv'
<1>1. /\ UNCHANGED <<queue, writeFifo, dpc, at, kind, addr>>
      /\ job # NoAddress /\ job' = NoAddress
  BY DEF FwAnswer, devVars, dpcVars, reqVars
<1>2. Len(readFifo') = Len(readFifo) + 1 /\ Len(readFifo) \in Nat
  BY <1>1 DEF FwAnswer, MailboxInv, MailboxTypeOK
<1>3. /\ Places' = Places /\ Writing' = Writing
      /\ \A d \in Clients : InQueue(d)' <=> InQueue(d)
      /\ \A d \in Clients : Live(d)' <=> Live(d)
  BY <1>1 DEF Places, Writing, InQueue, Live
<1>4. /\ Taken \in Nat /\ Answered \in Nat /\ Taken = Answered + 1
  BY <1>1, CountFacts
<1>5. Answered' = Answered + 1
  <2>1. CASE dpc = "retrieve"
    BY <1>1, <1>2, <2>1 DEF Answered
  <2>2. CASE dpc # "retrieve"
    BY <1>1, <1>2, <2>2 DEF Answered
  <2> QED
    BY <2>1, <2>2
<1>6. Taken' = Taken
  BY <1>1, <1>4, <1>5 DEF Taken
<1>7. Taken \in Places /\ job = addr[queue[Taken]] /\ job \in Addresses
  BY <1>1, <1>4, QueueFacts DEF PairInv, TakenQueued, TakenNext, Places
<1>8. pages' = [pages EXCEPT ![job] = "answer"] /\ pages'[job] = "answer"
      /\ \A a \in Addresses : a # job => pages'[a] = pages[a]
  <2>1. pages[job] = "query"
    BY <1>4, <1>7 DEF PairInv, AnsweredFirst
  <2> QED
    BY <1>7, <2>1 DEF FwAnswer, MailboxInv, MailboxTypeOK
<1>9. AnsweredFirst'
  <2> SUFFICES ASSUME NEW i \in Places
               PROVE  pages'[addr[queue[i]]] = IF i <= Answered + 1 THEN "answer" ELSE "query"
    BY <1>1, <1>3, <1>5 DEF AnsweredFirst
  <2>1. CASE i = Taken
    BY <1>4, <1>7, <1>8, <2>1
  <2>2. CASE i # Taken
    <3>1. addr[queue[i]] # job /\ addr[queue[i]] \in Addresses
      BY <1>7, <2>2, AddressesApart, QueueFacts
    <3>2. pages[addr[queue[i]]] = IF i <= Answered THEN "answer" ELSE "query"
      BY DEF PairInv, AnsweredFirst
    <3>3. i <= Answered + 1 <=> i <= Answered
      BY <1>4, <2>2 DEF Places
    <3> QED
      BY <1>8, <3>1, <3>2, <3>3
  <2> QED
    BY <2>1, <2>2
<1>10. FreshQuery'
  <2>1. \A d \in Clients : Live(d) /\ ~InQueue(d) => addr[d] # job /\ addr[d] \in Addresses
    BY <1>7, AddressesApart
  <2> QED
    BY <1>1, <1>3, <1>8, <2>1 DEF PairInv, FreshQuery
<1>11. TakenQueued' /\ TakenNext' /\ OwnMemory'
  BY <1>1, <1>3, <1>6 DEF PairInv, TakenQueued, TakenNext, OwnMemory
<1>12. FifoQueued' /\ QueuedInFifo' /\ SameOrder' /\ WriterLast'
  BY <1>1, <1>3, <1>6 DEF PairInv, FifoQueued, QueuedInFifo, SameOrder, WriterLast
<1> QED
  BY <1>9, <1>10, <1>11, <1>12 DEF PairInv

\* A word moves from the FIFO into the hands of the DPC.
LEMMA ReadPair ==
  ASSUME MailboxInv, RequestInv, PairInv, DpcRead
  PROVE  PairInv'
<1>1. /\ UNCHANGED <<queue, writeFifo, job, at, kind, addr, pages>>
      /\ dpc # "retrieve" /\ dpc' = "retrieve"
  BY DEF DpcRead, devVars, reqVars, outsideVars
<1>2. Len(readFifo') = Len(readFifo) - 1 /\ Len(readFifo) \in Nat
  BY DEF DpcRead, MailboxInv, DpcInv, MailboxTypeOK
<1>3. Answered' = Answered
  BY <1>1, <1>2 DEF Answered
<1>4. /\ Places' = Places /\ Writing' = Writing /\ Taken' = Taken
      /\ \A d \in Clients : InQueue(d)' <=> InQueue(d)
      /\ \A d \in Clients : Live(d)' <=> Live(d)
  BY <1>1, <1>3 DEF Places, Writing, InQueue, Live, Taken
<1>5. TakenQueued' /\ AnsweredFirst' /\ TakenNext' /\ FreshQuery' /\ OwnMemory'
  BY <1>1, <1>3, <1>4
  DEF PairInv, TakenQueued, AnsweredFirst, TakenNext, FreshQuery, OwnMemory
<1>6. FifoQueued' /\ QueuedInFifo' /\ SameOrder' /\ WriterLast'
  BY <1>1, <1>4 DEF PairInv, FifoQueued, QueuedInFifo, SameOrder, WriterLast
<1> QED
  BY <1>5, <1>6 DEF PairInv

\* The request the DPC completes has been answered.
LEMMA HeadAnswered ==
  ASSUME MailboxInv, RequestInv, PairInv, dpc = "retrieve"
  PROVE  queue # <<>> /\ 1 \in Places /\ Answered >= 1 /\ pages[addr[queue[1]]] = "answer"
<1>1. Answered >= 1
  <2>1. Len(readFifo) \in Nat
    BY QueueFacts
  <2> QED
    BY <2>1 DEF Answered
<1>2. Taken <= Len(queue) /\ Answered <= Taken /\ Taken \in Nat /\ Answered \in Nat
  BY CountFacts DEF PairInv, TakenQueued
<1>3. 1 \in Places
  BY <1>1, <1>2, QueueFacts DEF Places
<1>4. queue # <<>>
  BY <1>3 DEF Places
<1> QED
  BY <1>1, <1>3, <1>4 DEF PairInv, AnsweredFirst
\* The head of the queue leaves with its memory; the others move up.
LEMMA CompletePair ==
  ASSUME MailboxInv, RequestInv, PairInv, DpcComplete
  PROVE  PairInv'
<1>1. /\ UNCHANGED <<writeFifo, readFifo, job, at, kind, addr>>
      /\ dpc = "retrieve" /\ dpc' = "loop"
  BY DEF DpcComplete, outsideVars
<1>2. /\ Len(queue') = Len(queue) - 1 /\ 1 \in Places /\ Len(queue) \in Nat
      /\ \A i \in Places' : i + 1 \in Places /\ i + 1 # 1 /\ queue'[i] = queue[i + 1]
      /\ \A i \in Places : i # 1 => i - 1 \in Places' /\ i = (i - 1) + 1
  BY CompleteTakesHead, QueueFacts DEF Places
<1>3. \A i \in Places : i # 1 => i - 1 \in Places' /\ queue'[i - 1] = queue[i]
  <2> SUFFICES ASSUME NEW i \in Places, i # 1
               PROVE  i - 1 \in Places' /\ queue'[i - 1] = queue[i]
    OBVIOUS
  <2>1. i - 1 \in Places' /\ i = (i - 1) + 1
    BY <1>2
  <2>2. queue'[i - 1] = queue[(i - 1) + 1]
    BY <1>2, <2>1
  <2> QED
    BY <2>1, <2>2
<1>4. /\ Answered \in Nat /\ Taken \in Nat /\ Answered >= 1 /\ Answered <= Taken
      /\ Answered' = Answered - 1
  <2>1. Len(readFifo) \in Nat
    BY QueueFacts
  <2>2. Answered = Len(readFifo) + 1 /\ Answered' = Len(readFifo)
    BY <1>1 DEF Answered
  <2> QED
    BY <2>1, <2>2, CountFacts
<1>5. Taken' = Taken - 1 /\ (job # NoAddress => Taken = Answered + 1)
  <2>1. CASE job = NoAddress
    BY <1>1, <1>4, <2>1 DEF Taken
  <2>2. CASE job # NoAddress
    BY <1>1, <1>4, <2>2 DEF Taken
  <2> QED
    BY <2>1, <2>2
<1>6. PICK c \in Clients : c = queue[1]
  BY <1>2, QueueFacts
<1>7. /\ \A i \in Places : i # 1 => queue[i] # c
      /\ \A d \in Clients : InQueue(d)' => InQueue(d) /\ d # c
      /\ \A d \in Clients : InQueue(d) /\ d # c => InQueue(d)'
  <2>1. \A i \in Places : i # 1 => queue[i] # c
    BY <1>2, <1>6, QueueFacts
  <2>2. \A d \in Clients : InQueue(d) <=> \E i \in Places : queue[i] = d
    BY DEF InQueue, Places
  <2>3. \A d \in Clients : InQueue(d)' <=> \E i \in Places' : queue'[i] = d
    BY DEF InQueue, Places
  <2> QED
    BY <1>2, <1>3, <1>6, <2>1, <2>2, <2>3
<1>8. /\ Live(c) /\ kind[c] = "property" /\ at[c] \notin Owned
      /\ \A d \in Clients : Live(d)' => Live(d) /\ d # c
  <2>1. Live(c) /\ kind[c] = "property"
    BY <1>2, <1>6, QueueFacts DEF Live
  <2>2. at[c] \in {"idle", "write"}
    BY <1>2, <1>6 DEF RequestInv, Places
  <2> QED
    BY <1>1, <1>7, <2>1, <2>2 DEF Live, Owned
<1>9. \A d \in Clients : Live(d) /\ d # c => pages'[addr[d]] = pages[addr[d]]
  <2>1. pages' = [pages EXCEPT ![addr[c]] = "free"]
    <3>1. Head(queue) = c
      BY <1>6, CompleteTakesHead
    <3> QED
      BY <1>8, <3>1 DEF DpcComplete, Complete
  <2>2. \A d \in Clients : Live(d) /\ d # c => addr[d] # addr[c] /\ addr[d] \in Addresses
    BY <1>8, AddressesApart DEF PairInv, OwnMemory
  <2> QED
    BY <2>1, <2>2 DEF MailboxInv, MailboxTypeOK
<1>10. TakenQueued'
  BY <1>2, <1>4, <1>5 DEF PairInv, TakenQueued
<1>11. AnsweredFirst'
  <2> SUFFICES ASSUME NEW i \in Places'
               PROVE  pages'[addr[queue[i + 1]]] = IF i <= Answered - 1 THEN "answer" ELSE "query"
    BY <1>1, <1>2, <1>4 DEF AnsweredFirst
  <2>1. i + 1 \in Places /\ queue[i + 1] # c /\ queue[i + 1] \in Clients /\ Live(queue[i + 1])
    BY <1>2, <1>7, QueueFacts
  <2>2. pages[addr[queue[i + 1]]] = IF i + 1 <= Answered THEN "answer" ELSE "query"
    BY <2>1 DEF PairInv, AnsweredFirst
  <2>3. i + 1 <= Answered <=> i <= Answered - 1
    BY <1>4 DEF Places
  <2> QED
    BY <1>9, <2>1, <2>2, <2>3
<1>12. TakenNext'
  <2> SUFFICES ASSUME job # NoAddress
               PROVE  job = addr[queue'[Taken - 1]]
    BY <1>1, <1>5 DEF TakenNext
  <2>1. Taken \in Places /\ Taken # 1
    BY <1>4, <1>5, QueueFacts DEF PairInv, TakenQueued, Places
  <2> QED
    BY <1>3, <2>1 DEF PairInv, TakenNext
<1>13. FifoQueued'
  <2> SUFFICES ASSUME NEW j \in 1..Len(writeFifo), writeFifo[j] # NoAddress
               PROVE  \E i \in Places' : i > Taken - 1 /\ writeFifo[j] = addr[queue'[i]]
    BY <1>1, <1>5 DEF FifoQueued
  <2>1. PICK i \in Places : i > Taken /\ writeFifo[j] = addr[queue[i]]
    BY DEF PairInv, FifoQueued
  <2>2. i # 1 /\ i - 1 > Taken - 1
    BY <1>4, <2>1 DEF Places
  <2> QED
    BY <1>3, <2>1, <2>2
<1>14. QueuedInFifo'
  <2> SUFFICES ASSUME NEW i \in Places', i > Taken - 1
               PROVE  \/ at[queue[i + 1]] = "write"
                      \/ \E j \in 1..Len(writeFifo) : writeFifo[j] = addr[queue[i + 1]]
    BY <1>1, <1>2, <1>5 DEF QueuedInFifo
  <2>1. i + 1 \in Places /\ i + 1 > Taken
    BY <1>2, <1>4 DEF Places
  <2> QED
    BY <2>1 DEF PairInv, QueuedInFifo
<1>15. SameOrder'
  <2> SUFFICES ASSUME NEW j \in 1..Len(writeFifo), NEW k \in 1..Len(writeFifo),
                      NEW i \in Places', NEW l \in Places',
                      writeFifo[j] = addr[queue[i + 1]], writeFifo[k] = addr[queue[l + 1]], j < k
               PROVE  i < l
    BY <1>1, <1>2 DEF SameOrder
  <2>1. i + 1 < l + 1
    BY <1>2 DEF PairInv, SameOrder
  <2> QED
    BY <2>1 DEF Places
<1>16. WriterLast'
  <2> SUFFICES ASSUME NEW d \in Writing
               PROVE  /\ Taken - 1 < Len(queue) - 1 /\ queue'[Len(queue) - 1] = d
                      /\ \A j \in 1..Len(writeFifo) : writeFifo[j] # addr[d]
    BY <1>1, <1>2, <1>5 DEF WriterLast, Writing
  <2>1. /\ Taken < Len(queue) /\ queue[Len(queue)] = d
        /\ \A j \in 1..Len(writeFifo) : writeFifo[j] # addr[d]
    BY DEF PairInv, WriterLast
  <2>2. Len(queue) \in Places /\ Len(queue) # 1
    BY <1>2, <1>4, <2>1 DEF Places
  <2> QED
    BY <1>2, <1>3, <1>4, <2>1, <2>2
<1>17. FreshQuery'
  <2>1. \A d \in Clients : Live(d)' /\ ~InQueue(d)' => Live(d) /\ d # c /\ ~InQueue(d)
    BY <1>7, <1>8
  <2> QED
    BY <1>1, <1>9, <2>1 DEF PairInv, FreshQuery
<1>18. OwnMemory'
  BY <1>1, <1>8 DEF PairInv, OwnMemory
<1> QED
  BY <1>10, <1>11, <1>12, <1>13, <1>14, <1>15, <1>16, <1>17, <1>18 DEF PairInv

\* Every step of a running driver keeps the order, unless something is cancelled.
LEMMA NextPair ==
  ASSUME MailboxInv, RequestInv, IrqInv, PairInv, phase = "running", phase' = "running",
         upset' = {}, [MailboxNext]_mailboxVars
  PROVE  PairInv'
<1>1. CASE InitStep
  BY <1>1 DEF InitStep, InitWrite, InitReply, InitRetry, InitTimeout
<1>2. ASSUME NEW c \in Clients, NEW k \in {"property", "vchiq"}, Start(c, k)
      PROVE  PairInv'
  BY <1>2, StartPair
<1>3. ASSUME NEW c \in Clients, TakeWriteLock(c) \/ Poll(c) \/ PollReady(c)
      PROVE  PairInv'
  <2>1. UNCHANGED <<queue, writeFifo, readFifo, job, pages, addr, kind, dpc>>
    BY <1>3 DEF TakeWriteLock, Poll, PollReady, hwVars, devVars, dpcVars, outsideVars
  <2>2. /\ \A d \in Clients : d # c => at'[d] = at[d]
        /\ at'[c] \in Owned => at[c] \in Owned
        /\ kind[c] = "property" => (at'[c] = "write" <=> at[c] = "write")
    BY <1>3 DEF TakeWriteLock, Poll, PollReady, Owned, MailboxInv, MailboxTypeOK
  <2> QED
    BY <2>1, <2>2, PairUntouched
<1>4. ASSUME NEW c \in Clients, Cancel(c)
      PROVE  PairInv'
  BY <1>4 DEF Cancel
<1>5. CASE MailboxIsr \/ DpcStart \/ DpcEnable \/ UNCHANGED mailboxVars
  <2>1. UNCHANGED <<queue, writeFifo, readFifo, job, pages, addr, kind, at>>
    BY <1>5 DEF MailboxIsr, DpcStart, DpcEnable, mailboxVars, hwVars, devVars, reqVars, outsideVars
  <2>2. dpc' = "retrieve" <=> dpc = "retrieve"
    BY <1>5 DEF MailboxIsr, DpcStart, DpcEnable, mailboxVars, dpcVars, IrqInv
  <2> QED
    BY <2>1, <2>2, PairUntouched
<1>6. CASE DpcNoRequest
  BY <1>6, HeadAnswered DEF DpcNoRequest
<1>7. CASE ReleaseHardware
  BY <1>7 DEF ReleaseHardware
<1>8. ASSUME NEW c \in Clients, Handler(c)
      PROVE  PairInv'
  BY <1>3, <1>8, TimeoutPair, ForwardPair, WritePair DEF Handler
<1> QED
  BY <1>1, <1>2, <1>4, <1>5, <1>6, <1>7, <1>8, TakePair, AnswerPair, ReadPair, CompletePair
  DEF MailboxNext, MailboxDpc
-----------------------------------------------------------------------------
(* From the boot to the release. *)

\* A release is recorded once it has happened.
ReleasedInv == "release" \in upset <=> phase = "released"

LEMMA InitUndisturbed == MailboxInit => UndisturbedInv /\ ReleasedInv
BY DEF MailboxInit, UndisturbedInv, ReleasedInv

\* What has happened is not forgotten, and the phases come in order.
LEMMA UpsetStays ==
  ASSUME [MailboxNext]_mailboxVars
  PROVE  /\ upset \subseteq upset'
         /\ phase = "released" => phase' = "released"
         /\ "release" \in upset' => "release" \in upset \/ phase' = "released"
         /\ phase' = "released" => phase = "released" \/ "release" \in upset'
<1>1. CASE InitStep
  BY <1>1 DEF InitStep, InitWrite, InitReply, InitRetry, InitTimeout, InitDone, outsideVars
<1>2. ASSUME NEW c \in Clients, NEW k \in {"property", "vchiq"}, Start(c, k)
      PROVE  upset' = upset /\ phase' = phase
  BY <1>2 DEF Start, outsideVars, devVars
<1>3. ASSUME NEW c \in Clients, Handler(c)
      PROVE  upset' = upset /\ phase' = phase
  BY <1>3 DEF Handler, TakeWriteLock, Poll, PollTimeout, PollReady, Forward, WriteRegister,
              outsideVars, devVars
<1>4. ASSUME NEW c \in Clients, Cancel(c)
      PROVE  upset' = upset \cup {"cancel"} /\ phase' = phase
  BY <1>4 DEF Cancel
<1>5. CASE FwTake \/ FwAnswer \/ MailboxIsr \/ MailboxDpc \/ UNCHANGED mailboxVars
  <2>1. upset' = upset /\ phase' = phase
    BY <1>5 DEF FwTake, FwAnswer, MailboxIsr, MailboxDpc, DpcStart, DpcRead, DpcNoRequest,
                DpcComplete, DpcEnable, mailboxVars, outsideVars, devVars
  <2> QED
    BY <2>1
<1>6. CASE ReleaseHardware
  BY <1>6 DEF ReleaseHardware
<1> QED
  BY <1>1, <1>2, <1>3, <1>4, <1>5, <1>6 DEF MailboxNext

\* Before the boot is over nothing runs but the boot and the firmware.
LEMMA BootSteps ==
  ASSUME MailboxInv, RequestInv, phase \in {"boot", "mac"}, [MailboxNext]_mailboxVars
  PROVE  InitStep \/ FwTake \/ FwAnswer \/ UNCHANGED mailboxVars
<1>1. queue = <<>> /\ dpc = "idle" /\ \A c \in Clients : at[c] = "idle"
  BY DEF RequestInv, MailboxInv, DpcInv
<1>2. ~MailboxDpc /\ ~MailboxIsr /\ ~ReleaseHardware
  BY <1>1 DEF MailboxDpc, DpcStart, DpcRead, DpcNoRequest, DpcComplete, DpcEnable, MailboxIsr,
              ReleaseHardware
<1>3. \A c \in Clients : ~Handler(c)
  BY <1>1 DEF Handler, TakeWriteLock, Poll, PollTimeout, PollReady, Forward, WriteRegister
<1>4. \A c \in Clients : ~Cancel(c)
  BY <1>1 DEF Cancel
<1>5. \A c \in Clients, k \in {"property", "vchiq"} : ~Start(c, k)
  BY DEF Start
<1> QED
  BY <1>2, <1>3, <1>4, <1>5 DEF MailboxNext

\* The query of the boot is written, taken and answered.
LEMMA NextMac ==
  ASSUME MailboxInv, RequestInv, UndisturbedInv, upset = {}, phase \in {"boot", "mac"},
         phase' \in {"boot", "mac"}, [MailboxNext]_mailboxVars
  PROVE  IF phase' = "mac" THEN MacInv' ELSE job' = NoAddress /\ readFifo' = <<>>
<1>1. CASE phase = "boot"
  <2>1. job = NoAddress /\ readFifo = <<>> /\ writeFifo = <<>>
    BY <1>1 DEF UndisturbedInv, MailboxInv, BootInv
  <2>2. CASE InitStep
    <3>1. PICK a \in Free : /\ pages' = [pages EXCEPT ![a] = "query"]
                            /\ writeFifo' = Append(writeFifo, a) /\ macAddr' = a
      BY <1>1, <2>2 DEF InitStep, InitWrite, InitReply, InitRetry, InitTimeout
    <3>2. phase' = "mac" /\ job' = NoAddress /\ readFifo' = <<>>
      BY <1>1, <2>1, <2>2 DEF InitStep, InitWrite, InitReply, InitRetry, InitTimeout, outsideVars
    <3>3. writeFifo' = <<a>> /\ a \in Addresses /\ pages'[a] = "query"
      BY <2>1, <3>1 DEF Free, MailboxInv, MailboxTypeOK
    <3> QED
      BY <3>1, <3>2, <3>3 DEF MacInv
  <2>3. CASE UNCHANGED mailboxVars
    BY <1>1, <2>1, <2>3 DEF mailboxVars, hwVars, devVars, outsideVars
  <2>4. ~FwTake /\ ~FwAnswer
    BY <2>1 DEF FwTake, FwAnswer
  <2> QED
    BY <2>2, <2>3, <2>4, BootSteps
<1>2. CASE phase = "mac"
  <2> USE MailboxAssumption
  <2>1. MacInv
    BY <1>2 DEF UndisturbedInv
  <2>2. CASE InitStep
    BY <1>2, <2>1, <2>2 DEF InitStep, InitWrite, InitReply, InitRetry, InitTimeout, InitDone,
                            hwVars, outsideVars, MacInv
  <2>3. CASE FwTake
    <3>1. writeFifo = <<macAddr>> /\ job = NoAddress /\ readFifo = <<>>
      BY <2>1, <2>3 DEF FwTake, MacInv
    <3>2. writeFifo' = <<>> /\ job' = macAddr
      BY <2>3, <3>1 DEF FwTake
    <3> QED
      BY <1>2, <2>1, <2>3, <3>1, <3>2 DEF FwTake, MacInv, devVars
  <2>4. CASE FwAnswer
    <3>1. writeFifo = <<>> /\ job = macAddr /\ readFifo = <<>>
      BY <2>1, <2>4 DEF FwAnswer, MacInv
    <3>2. readFifo' = <<macAddr>> /\ job' = NoAddress
      BY <2>4, <3>1 DEF FwAnswer
    <3>3. pages'[macAddr] # "free"
      BY <2>1, <2>4, <3>1 DEF FwAnswer, MacInv, MailboxInv, MailboxTypeOK
    <3> QED
      BY <1>2, <2>1, <2>4, <3>1, <3>2, <3>3 DEF FwAnswer, MacInv, devVars
  <2>5. CASE UNCHANGED mailboxVars
    BY <1>2, <2>1, <2>5 DEF mailboxVars, hwVars, devVars, outsideVars, MacInv
  <2> QED
    BY <2>2, <2>3, <2>4, <2>5, BootSteps
<1> QED
  BY <1>1, <1>2

\* The boot leaves nothing in flight.
LEMMA BootEnds ==
  ASSUME MailboxInv, RequestInv, UndisturbedInv, upset' = {}, upset = {},
         phase \in {"boot", "mac"}, phase' = "running", [MailboxNext]_mailboxVars
  PROVE  PairInv'
<1>1. InitReply
  BY BootSteps
  DEF InitStep, InitWrite, InitRetry, InitTimeout, FwTake, FwAnswer, mailboxVars, devVars
<1>2. queue' = <<>> /\ \A c \in Clients : at'[c] = "idle"
  BY <1>1 DEF InitReply, InitDone, RequestInv, reqVars
<1>3. writeFifo' = <<>> /\ readFifo' = <<>> /\ job' = NoAddress /\ dpc' = "idle"
  <2>1. MacInv /\ dpc = "idle" /\ readFifo # <<>> /\ readFifo' = Tail(readFifo)
    BY <1>1 DEF InitReply, UndisturbedInv, MailboxInv, DpcInv
  <2>2. writeFifo = <<>> /\ job = NoAddress /\ readFifo = <<macAddr>>
    BY <2>1 DEF MacInv
  <2>3. UNCHANGED <<writeFifo, job, dpc>>
    BY <1>1 DEF InitReply, InitDone, dpcVars
  <2>4. readFifo' = <<>>
    BY <2>1, <2>2
  <2> QED
    BY <2>1, <2>2, <2>3, <2>4
<1>4. Answered' = 0 /\ Taken' = 0 /\ Places' = {} /\ Writing' = {} /\ Len(queue') = 0
      /\ Len(writeFifo') = 0
  BY <1>2, <1>3 DEF Answered, Taken, Places, Writing
<1>5. \A c \in Clients : ~Live(c)'
  BY <1>2 DEF Live, InQueue, Owned
<1> QED
  BY <1>3, <1>4, <1>5 DEF PairInv, TakenQueued, AnsweredFirst, TakenNext, FifoQueued, QueuedInFifo,
                          SameOrder, WriterLast, FreshQuery, OwnMemory

LEMMA NextUndisturbed ==
  ASSUME MailboxInv, RequestInv, IrqInv, UndisturbedInv, ReleasedInv, [MailboxNext]_mailboxVars
  PROVE  UndisturbedInv' /\ ReleasedInv'
<1>1. ReleasedInv'
  BY UpsetStays DEF ReleasedInv
<1>2. ASSUME upset' = {}
      PROVE  /\ phase' = "boot" => job' = NoAddress /\ readFifo' = <<>>
             /\ phase' = "mac" => MacInv'
             /\ phase' = "running" => PairInv'
  <2>1. upset = {}
    BY <1>2, UpsetStays
  <2>2. CASE phase \in {"boot", "mac"}
    BY <1>2, <2>1, <2>2, NextMac, BootEnds
  <2>3. CASE phase = "running"
    <3>1. phase' \in {"running", "released"}
      <4>1. ~InitStep
        BY <2>3 DEF InitStep, InitWrite, InitReply, InitRetry, InitTimeout
      <4>2. \A c \in Clients, k \in {"property", "vchiq"} : Start(c, k) => phase' = phase
        BY DEF Start, devVars
      <4>3. \A c \in Clients : Handler(c) \/ Cancel(c) => phase' = phase
        BY DEF Handler, TakeWriteLock, Poll, PollTimeout, PollReady, Forward, WriteRegister, Cancel,
               devVars
      <4>4. FwTake \/ FwAnswer \/ MailboxIsr \/ MailboxDpc \/ UNCHANGED mailboxVars => phase' = phase
        BY DEF FwTake, FwAnswer, MailboxIsr, MailboxDpc, DpcStart, DpcRead, DpcNoRequest,
               DpcComplete, DpcEnable, mailboxVars, devVars
      <4> QED
        BY <2>3, <4>1, <4>2, <4>3, <4>4 DEF MailboxNext, ReleaseHardware
    <3> QED
      BY <1>2, <2>1, <2>3, <3>1, NextPair DEF UndisturbedInv
  <2>4. CASE phase = "released"
    BY <2>4, UpsetStays
  <2> QED
    BY <2>2, <2>3, <2>4 DEF MailboxInv, MailboxTypeOK
<1> QED
  BY <1>1, <1>2 DEF UndisturbedInv
\* An undisturbed request is completed with the answer to its own query.
LEMMA NextAnswered ==
  ASSUME MailboxInv, RequestInv, UndisturbedInv, ReleasedInv, AnsweredUndisturbed,
         [MailboxNext]_mailboxVars
  PROVE  AnsweredUndisturbed'
<1> SUFFICES ASSUME upset' \subseteq {"release"}
             PROVE  \A c \in Clients : result'[c] # "unanswered"
  BY DEF AnsweredUndisturbed, AnsweredRequests
<1>1. upset \subseteq {"release"} /\ \A c \in Clients : result[c] # "unanswered"
  BY UpsetStays DEF AnsweredUndisturbed, AnsweredRequests
<1>2. CASE InitStep \/ FwTake \/ FwAnswer \/ MailboxIsr \/ DpcStart \/ DpcRead \/ DpcNoRequest
           \/ DpcEnable \/ UNCHANGED mailboxVars
  <2>1. result' = result
    BY <1>2 DEF InitStep, InitWrite, InitReply, InitRetry, InitTimeout, InitDone, FwTake, FwAnswer,
                MailboxIsr, DpcStart, DpcRead, DpcNoRequest, DpcEnable, mailboxVars, reqVars
  <2> QED
    BY <1>1, <2>1
<1>3. ASSUME NEW c \in Clients, NEW k \in {"property", "vchiq"}, Start(c, k)
      PROVE  \A d \in Clients : result'[d] # "unanswered"
  BY <1>1, <1>3 DEF Start, MailboxInv, MailboxTypeOK
<1>4. ASSUME NEW c \in Clients, Handler(c) \/ Cancel(c)
      PROVE  \A d \in Clients : result'[d] # "unanswered"
  BY <1>1, <1>4 DEF Handler, TakeWriteLock, Poll, PollTimeout, PollReady, Forward, WriteRegister,
                    Cancel, Complete, MailboxInv, MailboxTypeOK
<1>5. CASE DpcComplete
  <2>1. dpc = "retrieve" /\ phase = "running"
    BY <1>5 DEF DpcComplete, MailboxInv, DpcInv
  <2>2. upset = {}
    BY <1>1, <2>1 DEF ReleasedInv
  <2>3. Head(queue) = queue[1] /\ pages[addr[queue[1]]] = "answer"
    BY <1>5, <2>1, <2>2, HeadAnswered, CompleteTakesHead DEF UndisturbedInv
  <2>4. result' = [result EXCEPT ![Head(queue)] = "answered"]
    BY <1>5, <2>3 DEF DpcComplete, Complete
  <2> QED
    BY <1>1, <2>4 DEF MailboxInv, MailboxTypeOK
<1>6. CASE ReleaseHardware
  BY <1>1, <1>6 DEF ReleaseHardware
<1> QED
  BY <1>2, <1>3, <1>4, <1>5, <1>6 DEF MailboxNext, MailboxDpc

-----------------------------------------------------------------------------
AnswerInv ==
  /\ MailboxInv /\ RequestInv /\ IrqInv /\ QueuedIsOutstanding
  /\ UndisturbedInv /\ ReleasedInv /\ AnsweredUndisturbed

\* The inductive invariant: the queue of the channel and what is on its way
\* through the FIFOs are in the same order.
THEOREM AnswerInvariant == MailboxSpec => []AnswerInv
<1>1. MailboxInit => AnswerInv
  <2>1. MailboxInit => IrqInv /\ AnsweredUndisturbed
    BY DEF MailboxInit, IrqInv, AnsweredUndisturbed, AnsweredRequests
  <2> QED
    BY <2>1, InitMailboxInv, InitRequestInv, InitQueued, InitUndisturbed DEF AnswerInv
<1>2. AnswerInv /\ [MailboxNext]_mailboxVars => AnswerInv'
  BY NextMailboxInv, NextRequestInv, NextIrqInv, NextQueued, NextUndisturbed, NextAnswered
  DEF AnswerInv
<1> QED
  BY <1>1, <1>2, PTL DEF MailboxSpec

\* RpiqMailboxDpc, which pairs by position, completes a request with the answer
\* to its own query unless one was cancelled or the boot gave up its query; and
\* it is never waiting for more answers than are on their way.
THEOREM AnswersMatchHolds == MailboxSpec => []AnswersMatch
<1>1. AnswerInv => AnswersMatch
  BY DEF AnswerInv, AnswersMatch
<1> QED
  BY <1>1, AnswerInvariant, PTL

\* The memory of a query outlives the firmware's use of it, with that proviso.
THEOREM MemoryUndisturbedHolds == MailboxSpec => []MemoryUndisturbed
<1>1. AnswerInv => MemoryUndisturbed
  <2> SUFFICES ASSUME AnswerInv, upset = {}
               PROVE  FirmwareMemoryIsAllocated
    BY DEF MemoryUndisturbed
  <2>1. phase # "released"
    BY DEF AnswerInv, ReleasedInv
  <2>2. MailboxInv /\ RequestInv
    BY DEF AnswerInv
  <2>3. CASE phase = "boot"
    <3>1. writeFifo = <<>> /\ job = NoAddress
      BY <2>3 DEF AnswerInv, UndisturbedInv, MailboxInv, BootInv
    <3> QED
      BY <3>1 DEF FirmwareMemoryIsAllocated
  <2>4. CASE phase = "mac"
    <3>1. MacInv
      BY <2>4 DEF AnswerInv, UndisturbedInv
    <3> QED
      BY <3>1 DEF MacInv, FirmwareMemoryIsAllocated
  <2>5. CASE phase = "running"
    <3>1. PairInv
      BY <2>5 DEF AnswerInv, UndisturbedInv
    <3>2. \A i \in Places : pages[addr[queue[i]]] # "free"
      BY <3>1 DEF PairInv, AnsweredFirst
    <3>3. job # NoAddress => Taken \in Places
      BY <2>2, <3>1, CountFacts, QueueFacts DEF PairInv, TakenQueued, Places
    <3>4. job # NoAddress => pages[job] # "free"
      BY <3>1, <3>2, <3>3 DEF PairInv, TakenNext
    <3>5. \A j \in 1..Len(writeFifo) : writeFifo[j] # NoAddress => pages[writeFifo[j]] # "free"
      BY <3>1, <3>2 DEF PairInv, FifoQueued
    <3> QED
      BY <3>4, <3>5 DEF FirmwareMemoryIsAllocated
  <2> QED
    BY <2>1, <2>2, <2>3, <2>4, <2>5 DEF MailboxInv, MailboxTypeOK
<1> QED
  BY <1>1, AnswerInvariant, PTL
=============================================================================
