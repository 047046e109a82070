---------------------------- MODULE VchiqRxProofs -----------------------------
(***************************************************************************)
(* Proofs about the receive stream of VCHIQ and the recycling of its       *)
(* slots, for clients that queue their requests ahead (LateFiles = {}).    *)
(* Then only the trigger thread moves messages.  With a late request two   *)
(* threads release messages of a slot at once, and the accounting really   *)
(* breaks: VchiqReleaseMsg exchanges RefCount for a value it read before   *)
(* (slots.c:2551), which the run rx_twice shows.                           *)
(*                                                                         *)
(* That a slot goes back once, and not early, is not inductive by itself.  *)
(* RxInv says what the slots, the counts and the lists have to do with     *)
(* each other:                                                             *)
(*   WindowInv    the slots of Master.SlotQueue from CurrentRxPos on are   *)
(*                different, and a slot being released is not among them   *)
(*   CountInv     RefCount is the number of messages of the slot in the    *)
(*                lists, one more while VchiqReleaseMsg has yet to lower it*)
(*   FoundInv     a slot the firmware does not have is being parsed, is    *)
(*                referenced, or is on its way back                        *)
(*   PendingInv   what a list points at is in a slot the firmware has not  *)
(*                got back, where the stream put it                        *)
(*   MemoryInv    what is to be parsed is still as the firmware wrote it   *)
(*   FileInv      posted is delivered, then what the list of the file      *)
(*                still has, then what is to be parsed                     *)
(*                                                                         *)
(* That a message and a request for it do not wait for each other is what  *)
(* VchiqRequestProofs shows; it is instantiated here for the late client,  *)
(* and for requests that are queued ahead gets from RxInv what it lacks.   *)
(***************************************************************************)
EXTENDS MCVchiqRx, VchiqRequestProofs, FiniteSetTheorems, SequenceTheorems, TLAPS

\* Only the trigger thread is at work when all requests are queued ahead.
OnlyTrigger == \A t \in Threads : t # Trigger => pc[t] = "idle"

\* The locals of the trigger thread.
Tpc == pc[Trigger]
Tfile == file[Trigger]
Trel == rel[Trigger]
Tseen == seen[Trigger]
Tret == ret[Trigger]

\* The slot of the stream the trigger thread is in, or will take next; the slots from there on
\* that the firmware has; the slot an entry of Master.SlotQueue names.
Cur == rxPos \div MsgsPerSlot
Window == Cur .. (recycle - 1)
QSlot(i) == slotQueue[i % RingSize]

\* The message at rxPos is in a list, or dropped.
Listed ==
  \/ Tpc \in {"process", "remove", "vlock", "vprocess", "unlock", "advance"}
  \/ Tpc \in ReleasePc /\ Tret # "idle"

\* The position up to which messages have been put in a list.
Reached == rxPos + (IF Listed THEN 1 ELSE 0)

\* What is written at an entry of a list.
Pos == [e \in Entries |-> At(e).pos]
Owner == [e \in Entries |-> At(e).file]
Kind == [e \in Entries |-> At(e).kind]

\* Where the message at position p is.
Place(p) == [slot |-> QSlot(p \div MsgsPerSlot), index |-> p % MsgsPerSlot]

\* What PendingDataMsgList and PendingVchiMsgList of the files point at.
InData(e) == \E f \in Files : \E i \in 1 .. Len(data[f]) : data[f][i] = e
InVchi(e) == \E f \in Files : \E i \in 1 .. Len(vchi[f]) : vchi[f][i] = e
Pending == {e \in Entries : InData(e) \/ InVchi(e)}

\* The messages of a slot that are pending.
Refs(s) == {i \in Indexes : [slot |-> s, index |-> i] \in Pending}

\* Where the trigger thread is, and what it holds there.
ControlInv ==
  /\ Tpc \in ReleasePc <=> Tret # "none"
  /\ Tpc \in ReleasePc <=> Trel # NoSlot
  /\ Tret = "idle" => current = NoSlot
  /\ Tpc \in {"lock", "add"} \/ Listed => current # NoSlot /\ rxPos < txPos
  /\ Tpc \in {"lock", "add"} \/ (Listed /\ Tpc # "advance") => Tfile \in Files
  /\ Tpc \in {"lock", "add"} => Owner[Place(rxPos)] = Tfile
  /\ \A s \in Slots : inUse[s] <=> s = current

\* The slots the firmware has are different ones.
WindowInv ==
  /\ rxPos <= txPos /\ Cur <= recycle
  /\ \A p \in 0 .. (txPos - 1) : p \div MsgsPerSlot < recycle
  /\ \A i \in Window : QSlot(i) \in Slots
  /\ \A i, j \in Window : QSlot(i) = QSlot(j) => i = j
  /\ current # NoSlot => Cur \in Window /\ current = QSlot(Cur)
  /\ Trel # NoSlot => \A i \in Queued : QSlot(i) # Trel

\* What VchiqReleaseMsg and VchiqRecycleSlot have read still holds.
RecycleInv ==
  /\ Tpc \in {"exchange", "test"} => Tseen = refCount[Trel]
  /\ Tpc = "push" => refCount[Trel] = 0 /\ Trel # current

\* RefCount counts the pending messages of the slot.
CountInv ==
  \A s \in Slots :
    refCount[s] = Cardinality(Refs(s)) + (IF Tpc = "dec" /\ Trel = s THEN 1 ELSE 0)

\* No slot is lost.
FoundInv ==
  \A s \in Slots :
    \/ s = current
    \/ \E i \in Queued : QSlot(i) = s
    \/ refCount[s] # 0
    \/ Trel = s /\ Tpc \in {"read", "exchange", "test", "push"}

\* A pending message is where the stream put it, in a slot that is not back with the firmware.
PendingInv ==
  \A e \in Pending :
    /\ e.index = Pos[e] % MsgsPerSlot
    /\ Pos[e] \in Nat /\ Pos[e] < Reached
    /\ e.slot = current => Pos[e] \div MsgsPerSlot = Cur
    /\ \A i \in Queued : QSlot(i) # e.slot

\* What is to be parsed has not been written over.
MemoryInv == \A p \in rxPos .. (txPos - 1) : Pos[Place(p)] = p

\* The lists of a file have its messages, in the order of the stream.
ListOk(f) ==
  /\ \A i \in 1 .. Len(data[f]) : Owner[data[f][i]] = f
  /\ \A i \in 1 .. Len(vchi[f]) : Owner[vchi[f][i]] = f
  /\ \A i, j \in 1 .. Len(data[f]) : i < j => Pos[data[f][i]] < Pos[data[f][j]]
  /\ \A i, j \in 1 .. Len(vchi[f]) : i < j => Pos[vchi[f][i]] < Pos[vchi[f][j]]
  /\ \A i \in 1 .. Len(vchi[f]) : \A j \in 1 .. Len(data[f]) : Pos[vchi[f][i]] < Pos[data[f][j]]

\* The data messages to be parsed are those posted.
PostedOk(f) ==
  /\ \A j \in 1 .. Len(posted[f]) : posted[f][j] < txPos
  /\ \A i, j \in 1 .. Len(posted[f]) : i < j => posted[f][i] < posted[f][j]
  /\ \A p \in Reached .. (txPos - 1) :
       Owner[Place(p)] = f /\ Kind[Place(p)] = "data"
         <=> \E j \in 1 .. Len(posted[f]) : posted[f][j] = p

\* What was posted is delivered, in the list, or to be parsed.
DeliveredOk(f) ==
  /\ Len(delivered[f]) <= Len(posted[f])
  /\ \A i \in 1 .. Len(delivered[f]) :
       delivered[f][i] = posted[f][i] /\ delivered[f][i] < Reached
  /\ \A j \in (Len(delivered[f]) + 1) .. Len(posted[f]) :
       \/ posted[f][j] >= Reached
       \/ \E i \in 1 .. Len(data[f]) : Pos[data[f][i]] = posted[f][j]
  /\ \A i \in 1 .. Len(data[f]) :
       Kind[data[f][i]] = "data"
         <=> \E j \in (Len(delivered[f]) + 1) .. Len(posted[f]) : posted[f][j] = Pos[data[f][i]]

\* What was delivered is dequeued or in PendingVchiMsgList.
DequeuedOk(f) ==
  /\ f \in VchiFiles => Len(delivered[f]) = Len(dequeued[f]) + Len(vchi[f])
  /\ f \notin VchiFiles => vchi[f] = <<>>
  /\ Len(dequeued[f]) <= Len(delivered[f])
  /\ \A i \in 1 .. Len(dequeued[f]) : dequeued[f][i] = delivered[f][i]
  /\ \A i \in 1 .. Len(vchi[f]) : delivered[f][Len(dequeued[f]) + i] = Pos[vchi[f][i]]

\* All files.
FileInv ==
  \A f \in Files : ListOk(f) /\ PostedOk(f) /\ DeliveredOk(f) /\ DequeuedOk(f)

\* What concerns slots.
SlotInv == ControlInv /\ WindowInv /\ RecycleInv /\ CountInv /\ FoundInv

\* The inductive invariant.
RxInv ==
  TypeOK /\ OnlyTrigger /\ SlotInv /\ PendingInv /\ MemoryInv /\ FileInv

-----------------------------------------------------------------------------
(* Arithmetic of positions. *)

\* Quotient and remainder make up the position.
LEMMA DivMod ==
  ASSUME NEW n \in Nat \ {0}, NEW i \in Nat
  PROVE  i = n * (i \div n) + (i % n) /\ i \div n \in Int /\ i % n \in 0..(n - 1)
BY Z3

\* The slot of a position is a number.
LEMMA DivNat ==
  ASSUME NEW n \in Nat \ {0}, NEW i \in Nat
  PROVE  i \div n \in Nat
<1>1. i = n * (i \div n) + (i % n) /\ i \div n \in Int /\ i % n \in 0..(n - 1)
  BY DivMod
<1>2. ASSUME i \div n < 0 PROVE FALSE
  <2>1. n * (i \div n) <= -n
    <3> DEFINE d == i \div n
    <3>1. d \in Int /\ d <= -1
      BY <1>1, <1>2
    <3> HIDE DEF d
    <3> QED
      BY <3>1 DEF d
  <2> QED
    BY <2>1, <1>1
<1> QED
  BY <1>1, <1>2

\* Two numbers with the same quotient and remainder are the same.
LEMMA SamePlace ==
  ASSUME NEW n \in Nat \ {0}, NEW i \in Nat, NEW j \in Nat,
         i \div n = j \div n, i % n = j % n
  PROVE  i = j
<1>1. i = n * (i \div n) + (i % n) /\ j = n * (j \div n) + (j % n)
  BY DivMod
<1> QED
  BY <1>1

\* Slots of the stream come in the order of positions.
LEMMA DivMono ==
  ASSUME NEW n \in Nat \ {0}, NEW i \in Nat, NEW j \in Nat, i <= j
  PROVE  i \div n <= j \div n
<1> DEFINE a == i \div n
           b == j \div n
           r == i % n
           s == j % n
<1>1. a \in Int /\ b \in Int /\ i = n * a + r /\ j = n * b + s /\ r \in 0..(n - 1)
      /\ s \in 0..(n - 1)
  BY DivMod
<1> HIDE DEF a, b, r, s
<1>2. ASSUME a > b PROVE FALSE
  <2>1. a - b >= 1
    BY <1>1, <1>2
  <2>2. n * (a - b) >= n
    BY <1>1, <2>1
  <2>3. n * (a - b) = n * a - n * b
    BY <1>1
  <2> QED
    BY <1>1, <2>2, <2>3
<1> QED
  BY <1>1, <1>2 DEF a, b

\* The next position is in the same slot or the first of the next.
LEMMA DivNext ==
  ASSUME NEW n \in Nat \ {0}, NEW i \in Nat
  PROVE  IF (i + 1) % n = 0 THEN (i + 1) \div n = i \div n + 1 ELSE (i + 1) \div n = i \div n
<1> DEFINE a == i \div n
           b == (i + 1) \div n
           r == i % n
           s == (i + 1) % n
<1>1. a \in Int /\ b \in Int /\ i = n * a + r /\ i + 1 = n * b + s /\ r \in 0..(n - 1)
      /\ s \in 0..(n - 1)
  BY DivMod
<1> HIDE DEF a, b, r, s
<1>2. n * (b - a) = 1 + r - s
  <2>1. n * (b - a) = n * b - n * a
    BY <1>1
  <2> QED
    BY <1>1, <2>1
<1>3. b - a \in {0, 1}
  <2>1. CASE b - a >= 2
    <3>1. n * (b - a) >= n * 2
      BY <1>1, <2>1
    <3> QED
      BY <1>1, <1>2, <3>1
  <2>2. CASE b - a <= -1
    <3>1. n * (b - a) <= -n
      BY <1>1, <2>2
    <3> QED
      BY <1>1, <1>2, <3>1
  <2> QED
    BY <1>1, <2>1, <2>2
<1>4. CASE b - a = 0
  BY <1>1, <1>2, <1>4 DEF a, b, s
<1>5. CASE b - a = 1
  BY <1>1, <1>2, <1>5 DEF a, b, s
<1> QED
  BY <1>3, <1>4, <1>5

\* Two indexes less than a ring apart are two entries of the ring.
LEMMA ModDistinct ==
  ASSUME NEW n \in Nat \ {0}, NEW i \in Nat, NEW j \in Nat, i < j, j < i + n
  PROVE  i % n # j % n
<1> SUFFICES ASSUME i % n = j % n PROVE FALSE
    OBVIOUS
<1> DEFINE a == i \div n
           b == j \div n
<1>1. a \in Int /\ b \in Int /\ i = n * a + (i % n) /\ j = n * b + (j % n)
  BY DivMod
<1>2. j - i = n * (b - a)
  BY <1>1
<1>3. b - a > 0
  BY <1>1, <1>2
<1>4. n * (b - a) >= n
  BY <1>1, <1>3
<1> QED
  BY <1>2, <1>4

-----------------------------------------------------------------------------
(* The trigger thread and its locals. *)

\* The types the other lemmas rely on.
LEMMA Basics ==
  ASSUME TypeOK
  PROVE  /\ Tpc \in Pc /\ Tfile \in Files \cup {None} /\ Trel \in Slots \cup {NoSlot}
         /\ Tret \in {"none", "remove", "vprocess", "idle"}
         /\ rxPos \in Nat /\ txPos \in Nat /\ recycle \in Nat /\ Cur \in Nat
         /\ MsgsPerSlot \in Nat \ {0} /\ RingSize \in Nat \ {0} /\ NoSlot \notin Slots
         /\ rxPos % MsgsPerSlot \in Indexes /\ txPos % MsgsPerSlot \in Indexes
         /\ Reached \in {rxPos, rxPos + 1}
<1>1. Trigger \in Threads
  BY DEF Threads
<1>2. /\ Tpc \in Pc /\ Tfile \in Files \cup {None} /\ Trel \in Slots \cup {NoSlot}
      /\ Tret \in {"none", "remove", "vprocess", "idle"}
  BY <1>1 DEF TypeOK, Tpc, Tfile, Trel, Tret
<1>3. MsgsPerSlot \in Nat \ {0} /\ NoSlot \notin Slots
  BY RxAssumption DEF NoSlot, Slots
<1>4. RingSize \in Nat \ {0}
  BY RxAssumption DEF NumSlots
<1>5. rxPos \in Nat /\ txPos \in Nat /\ recycle \in Nat
  BY DEF TypeOK
<1>6. Cur \in Nat /\ rxPos % MsgsPerSlot \in Indexes /\ txPos % MsgsPerSlot \in Indexes
  BY <1>3, <1>5, DivNat, DivMod DEF Cur, Indexes
<1>7. Reached \in {rxPos, rxPos + 1}
  BY <1>5 DEF Reached
<1> QED
  BY <1>2, <1>3, <1>4, <1>5, <1>6, <1>7

\* Only the trigger thread moves.
LEMMA OnlyTriggerMoves ==
  ASSUME OnlyTrigger, NEW t \in Threads, ThreadStep(t)
  PROVE  t = Trigger
<1>1. pc[t] # "idle"
  BY DEF ThreadStep, DataLock, ProcessPendingMsg, RemovePendingMsg, CompleteRequest, DataUnlock,
         VchiLock, RemovePendingVchiMsg, VchiUnlock, ReleaseMsg, RecycleRead, RecycleExchange,
         RecycleTest, RecyclePush
<1> QED
  BY <1>1 DEF OnlyTrigger

\* The thread goes on at a label.
LEMMA GotoIs ==
  ASSUME TypeOK, OnlyTrigger, NEW l \in Pc, Goto(Trigger, l)
  PROVE  Tpc' = l /\ OnlyTrigger' /\ pc' \in [Threads -> Pc]
<1>1. Trigger \in Threads /\ pc \in [Threads -> Pc] /\ pc' = [pc EXCEPT ![Trigger] = l]
  BY DEF Threads, TypeOK, Goto
<1> QED
  BY <1>1 DEF Tpc, OnlyTrigger

\* The thread goes to the label it came from, with nothing left to release.
LEMMA ReturnIs ==
  ASSUME TypeOK, OnlyTrigger, Tret # "none", Return(Trigger)
  PROVE  /\ Tpc' = Tret /\ Trel' = NoSlot /\ Tret' = "none"
         /\ OnlyTrigger' /\ pc' \in [Threads -> Pc] /\ rel' \in [Threads -> Slots \cup {NoSlot}]
         /\ seen' \in [Threads -> Int] /\ ret' \in [Threads -> {"none", "remove", "vprocess", "idle"}]
<1>1. Tret \in Pc
  BY Basics DEF Pc
<1>2. Goto(Trigger, Tret)
  BY DEF Return, Tret
<1>3. Trigger \in Threads
  BY DEF Threads
<1>4. Trel' = NoSlot /\ Tret' = "none"
  BY <1>3 DEF TypeOK, Return, Trel, Tret
<1>5. /\ rel' \in [Threads -> Slots \cup {NoSlot}] /\ seen' \in [Threads -> Int]
      /\ ret' \in [Threads -> {"none", "remove", "vprocess", "idle"}]
  BY <1>3 DEF TypeOK, Return
<1> QED
  BY <1>1, <1>2, <1>4, <1>5, GotoIs

\* The thread remembers the slot and where to go on.
LEMMA CallReleaseIs ==
  ASSUME TypeOK, OnlyTrigger, NEW slot \in Slots, NEW back \in {"remove", "vprocess"},
         CallRelease(Trigger, slot, back)
  PROVE  /\ Tpc' = "dec" /\ Trel' = slot /\ Tret' = back
         /\ OnlyTrigger' /\ pc' \in [Threads -> Pc] /\ rel' \in [Threads -> Slots \cup {NoSlot}]
         /\ seen' \in [Threads -> Int] /\ ret' \in [Threads -> {"none", "remove", "vprocess", "idle"}]
<1>1. Goto(Trigger, "dec") /\ "dec" \in Pc
  BY DEF CallRelease, Pc, ReleasePc
<1>3. Trigger \in Threads
  BY DEF Threads
<1>4. Trel' = slot /\ Tret' = back
  BY <1>3 DEF TypeOK, CallRelease, Trel, Tret
<1>5. /\ rel' \in [Threads -> Slots \cup {NoSlot}] /\ seen' \in [Threads -> Int]
      /\ ret' \in [Threads -> {"none", "remove", "vprocess", "idle"}]
  BY <1>3 DEF TypeOK, CallRelease
<1> QED
  BY <1>1, <1>4, <1>5, GotoIs

\* Where a message lies, its place belongs to no other position of the window.
LEMMA PlacesApart ==
  ASSUME TypeOK, WindowInv, NEW p \in Nat, NEW q \in Nat, p # q,
         p \div MsgsPerSlot \in Window, q \div MsgsPerSlot \in Window
  PROVE  Place(p) # Place(q)
<1>1. MsgsPerSlot \in Nat \ {0}
  BY Basics
<1> SUFFICES ASSUME Place(p) = Place(q) PROVE FALSE
  OBVIOUS
<1>2. QSlot(p \div MsgsPerSlot) = QSlot(q \div MsgsPerSlot) /\ p % MsgsPerSlot = q % MsgsPerSlot
  BY DEF Place
<1>3. p \div MsgsPerSlot = q \div MsgsPerSlot
  BY <1>2 DEF WindowInv
<1> QED
  BY <1>1, <1>2, <1>3, SamePlace

\* The places of what is to be parsed are in the window.
LEMMA AheadInWindow ==
  ASSUME TypeOK, WindowInv, NEW p \in rxPos .. (txPos - 1)
  PROVE  p \div MsgsPerSlot \in Window /\ Place(p) \in Entries /\ p \in Nat
<1>1. MsgsPerSlot \in Nat \ {0} /\ rxPos \in Nat /\ txPos \in Nat /\ p \in Nat /\ rxPos <= p
      /\ recycle \in Nat /\ Cur \in Nat
  BY Basics
<1>2. Cur <= p \div MsgsPerSlot /\ p \div MsgsPerSlot \in Nat
  BY <1>1, DivMono, DivNat DEF Cur
<1>3. p \div MsgsPerSlot < recycle
  BY <1>1 DEF WindowInv
<1>4. p \div MsgsPerSlot \in Window
  BY <1>1, <1>2, <1>3 DEF Window
<1>5. QSlot(p \div MsgsPerSlot) \in Slots
  BY <1>4 DEF WindowInv
<1>6. p % MsgsPerSlot \in Indexes
  BY <1>1, DivMod DEF Indexes
<1> QED
  BY <1>1, <1>4, <1>5, <1>6 DEF Place, Entries

\* What is being parsed is at the header.
LEMMA HeaderIs ==
  ASSUME TypeOK, WindowInv, current # NoSlot, rxPos < txPos
  PROVE  RxHeader = Place(rxPos) /\ RxHeader \in Entries /\ rxPos \in rxPos .. (txPos - 1)
<1>1. rxPos \in rxPos .. (txPos - 1)
  BY Basics
<1>2. Place(rxPos) \in Entries
  BY <1>1, AheadInWindow
<1>3. current = QSlot(rxPos \div MsgsPerSlot)
  BY DEF WindowInv, Cur
<1> QED
  BY <1>1, <1>2, <1>3 DEF RxHeader, Place

\* What the invariants of lists and messages look at.
streamVars ==
  <<slotQueue, recycle, txPos, memory, rxPos, current, data, vchi, posted, delivered, dequeued>>

\* A step that leaves the stream and the lists alone keeps what is said of them.
LEMMA StreamKept ==
  ASSUME UNCHANGED streamVars
  PROVE  /\ Cur' = Cur /\ Window' = Window /\ Queued' = Queued /\ Pos' = Pos /\ Owner' = Owner
         /\ Kind' = Kind /\ Pending' = Pending
         /\ \A s : Refs(s)' = Refs(s)
         /\ \A i : QSlot(i)' = QSlot(i)
         /\ \A p : Place(p)' = Place(p)
         /\ PendingInv /\ Reached' = Reached => PendingInv'
         /\ MemoryInv => MemoryInv'
         /\ FileInv /\ Reached' = Reached => FileInv'
<1>1. /\ Cur' = Cur /\ Window' = Window /\ Queued' = Queued /\ Pos' = Pos /\ Owner' = Owner
      /\ Kind' = Kind /\ Pending' = Pending
  BY DEF streamVars, Cur, Window, Queued, Pos, Owner, Kind, Pending, InData, InVchi, At
<1>2. /\ \A s : Refs(s)' = Refs(s)
      /\ \A i : QSlot(i)' = QSlot(i)
      /\ \A p : Place(p)' = Place(p)
  BY <1>1 DEF streamVars, Refs, QSlot, Place
<1>3. PendingInv /\ Reached' = Reached => PendingInv'
  BY <1>1, <1>2 DEF streamVars, PendingInv
<1>4. MemoryInv => MemoryInv'
  BY <1>1, <1>2 DEF streamVars, MemoryInv
<1>5. FileInv /\ Reached' = Reached => FileInv'
  <2> SUFFICES ASSUME Reached' = Reached, NEW f \in Files,
                      ListOk(f), PostedOk(f), DeliveredOk(f), DequeuedOk(f)
               PROVE  ListOk(f)' /\ PostedOk(f)' /\ DeliveredOk(f)' /\ DequeuedOk(f)'
    BY DEF FileInv
  <2>1. /\ data' = data /\ vchi' = vchi /\ posted' = posted /\ delivered' = delivered
        /\ dequeued' = dequeued /\ txPos' = txPos
    BY DEF streamVars
  <2>2. ListOk(f)'
    BY <1>1, <2>1 DEF ListOk
  <2>3. PostedOk(f)'
    BY <1>1, <1>2, <2>1 DEF PostedOk
  <2>4. DeliveredOk(f)'
    BY <1>1, <2>1 DEF DeliveredOk
  <2>5. DequeuedOk(f)'
    BY <1>1, <2>1 DEF DequeuedOk
  <2> QED
    BY <2>2, <2>3, <2>4, <2>5
<1> QED
  BY <1>1, <1>2, <1>3, <1>4, <1>5

-----------------------------------------------------------------------------
(* Steps between the calls of VchiqReleaseMsg. *)

\* Such a step outside of VchiqReleaseMsg keeps what is said of slots ...
LEMMA SlotsKept ==
  ASSUME SlotInv, UNCHANGED streamVars, UNCHANGED slotVars, Trel' = Trel,
         Tpc \notin ReleasePc, Tpc' \notin ReleasePc
  PROVE  WindowInv' /\ RecycleInv' /\ CountInv' /\ FoundInv'
<1>3. /\ Cur' = Cur /\ Window' = Window /\ Queued' = Queued
      /\ \A s : Refs(s)' = Refs(s)
      /\ \A i : QSlot(i)' = QSlot(i)
      /\ refCount' = refCount /\ current' = current /\ rxPos' = rxPos /\ txPos' = txPos
      /\ recycle' = recycle
  BY StreamKept DEF streamVars, slotVars
<1>4. WindowInv'
  BY <1>3 DEF SlotInv, WindowInv
<1>5. RecycleInv' /\ CountInv'
  BY <1>3 DEF SlotInv, RecycleInv, CountInv, ReleasePc
<1>6. FoundInv'
  BY <1>3 DEF SlotInv, FoundInv, ReleasePc
<1> QED
  BY <1>4, <1>5, <1>6

\* ... and all of RxInv, if it keeps what the thread holds.
LEMMA QuietKept ==
  ASSUME RxInv, UNCHANGED streamVars, UNCHANGED slotVars, Trel' = Trel, Tret' = Tret,
         Tpc \notin ReleasePc, Tpc' \notin ReleasePc, Listed' <=> Listed,
         TypeOK', OnlyTrigger', ControlInv'
  PROVE  RxInv'
<1>1. Reached' = Reached
  BY DEF Reached, streamVars
<1>2. PendingInv' /\ MemoryInv' /\ FileInv'
  BY <1>1, StreamKept DEF RxInv
<1> QED
  BY <1>2, SlotsKept DEF RxInv, SlotInv

\* What a step keeps of ControlInv when it stays in the critical section of a file.
LEMMA ControlKept ==
  ASSUME TypeOK, ControlInv, UNCHANGED <<streamVars, inUse, rel, ret>>, Tfile \in Files,
         Tfile' = Tfile, Listed, Tpc \notin ReleasePc,
         Tpc' \in {"process", "remove", "vlock", "vprocess", "unlock", "advance"}
  PROVE  ControlInv' /\ Listed' /\ Trel' = Trel /\ Tret' = Tret /\ Tpc' \notin ReleasePc
<1>1. Trel' = Trel /\ Tret' = Tret
  BY DEF Trel, Tret
<1>2. Listed' /\ Tpc' \notin ReleasePc /\ Tpc' \notin {"lock", "add"}
  BY DEF Listed, ReleasePc
<1>3. current # NoSlot /\ rxPos < txPos /\ current' = current /\ rxPos' = rxPos /\ txPos' = txPos
  BY DEF ControlInv, streamVars
<1>4. Tret = "none" /\ Trel = NoSlot
  BY DEF ControlInv
<1> QED
  BY <1>1, <1>2, <1>3, <1>4 DEF ControlInv

\* One lemma for each step: looking for a message and a request that meet ...
LEMMA ProcessPendingMsgKept == ASSUME RxInv, ProcessPendingMsg(Trigger) PROVE RxInv'
<1>1. TypeOK /\ OnlyTrigger /\ ControlInv /\ Trigger \in Threads
  BY DEF RxInv, SlotInv, Threads
<1>2. Tpc = "process" /\ Listed /\ Tfile \in Files /\ Tpc \notin ReleasePc
  BY <1>1 DEF ProcessPendingMsg, Tpc, Listed, ControlInv, ReleasePc
<1>3. /\ UNCHANGED <<streamVars, slotVars, file, rel, seen, ret>>
      /\ UNCHANGED <<dataLock, vchiLock, dequeues, total>>
  BY DEF ProcessPendingMsg, sharedVars, slotVars, clientVars, streamVars
<1>4. /\ \/ Goto(Trigger, "remove") /\ requests' = [requests EXCEPT ![Tfile] = @ - 1]
               /\ requests[Tfile] > 0
         \/ Goto(Trigger, "unlock") /\ requests' = requests
  BY DEF ProcessPendingMsg, Tfile
<1>5. Tpc' \in {"remove", "unlock"} /\ OnlyTrigger' /\ pc' \in [Threads -> Pc]
  BY <1>1, <1>4, GotoIs DEF Pc
<1>6. requests' \in [Files -> Nat]
  <2>1. requests \in [Files -> Nat]
    BY <1>1 DEF TypeOK
  <2> QED
    BY <1>2, <1>4, <2>1
<1>7. TypeOK'
  BY <1>1, <1>3, <1>5, <1>6 DEF TypeOK, streamVars, slotVars
<1>8. Tfile' = Tfile
  BY <1>3 DEF Tfile
<1>9. ControlInv' /\ Listed' /\ Trel' = Trel /\ Tret' = Tret /\ Tpc' \notin ReleasePc
  BY <1>1, <1>2, <1>3, <1>5, <1>8, ControlKept DEF slotVars
<1> QED
  BY <1>2, <1>3, <1>5, <1>7, <1>9, QuietKept

\* ... when there is none, completing the request or going on to the other list ...
LEMMA CompleteRequestKept == ASSUME RxInv, CompleteRequest(Trigger) PROVE RxInv'
<1>1. TypeOK /\ OnlyTrigger /\ ControlInv /\ Trigger \in Threads
  BY DEF RxInv, SlotInv, Threads
<1>2. Tpc = "remove" /\ Listed /\ Tfile \in Files /\ Tpc \notin ReleasePc
  BY <1>1 DEF CompleteRequest, Tpc, Listed, ControlInv, ReleasePc
<1>3. /\ UNCHANGED <<streamVars, slotVars, file, rel, seen, ret>>
      /\ UNCHANGED <<dataLock, vchiLock, dequeues>>
  BY DEF CompleteRequest, sharedVars, slotVars, clientVars, streamVars
<1>4. \/ Goto(Trigger, "unlock") /\ requests' = [requests EXCEPT ![Tfile] = @ + 1]
      \/ Goto(Trigger, "vlock") /\ requests' = requests
  BY DEF CompleteRequest, Tfile
<1>5. Tpc' \in {"vlock", "unlock"} /\ OnlyTrigger' /\ pc' \in [Threads -> Pc]
  BY <1>1, <1>4, GotoIs DEF Pc
<1>6. requests' \in [Files -> Nat]
  <2>1. requests \in [Files -> Nat]
    BY <1>1 DEF TypeOK
  <2> QED
    BY <1>2, <1>4, <2>1
<1>10. total' \in [Threads -> 0 .. MsgBufCount]
  <2>1. total \in [Threads -> 0 .. MsgBufCount] /\ 0 \in 0 .. MsgBufCount
    BY <1>1, RxAssumption DEF TypeOK
  <2> QED
    BY <2>1 DEF CompleteRequest
<1>7. TypeOK'
  BY <1>1, <1>3, <1>5, <1>6, <1>10 DEF TypeOK, streamVars, slotVars
<1>8. Tfile' = Tfile
  BY <1>3 DEF Tfile
<1>9. ControlInv' /\ Listed' /\ Trel' = Trel /\ Tret' = Tret /\ Tpc' \notin ReleasePc
  BY <1>1, <1>2, <1>3, <1>5, <1>8, ControlKept DEF slotVars
<1> QED
  BY <1>2, <1>3, <1>5, <1>7, <1>9, QuietKept

\* ... and leaving the lock.
LEMMA DataUnlockKept == ASSUME RxInv, DataUnlock(Trigger) PROVE RxInv'
<1>1. TypeOK /\ OnlyTrigger /\ ControlInv /\ Trigger \in Threads
  BY DEF RxInv, SlotInv, Threads
<1>2. Tpc = "unlock" /\ Listed /\ Tfile \in Files /\ Tpc \notin ReleasePc
  BY <1>1 DEF DataUnlock, Tpc, Listed, ControlInv, ReleasePc
<1>3. /\ UNCHANGED <<streamVars, slotVars, file, rel, seen, ret>>
      /\ UNCHANGED <<vchiLock, requests, dequeues, total>>
  BY DEF DataUnlock, sharedVars, slotVars, clientVars, streamVars
<1>5. Tpc' = "advance" /\ OnlyTrigger' /\ pc' \in [Threads -> Pc]
  BY <1>1, GotoIs DEF Pc, DataUnlock
<1>6. dataLock' \in [Files -> Threads \cup {NoThread}]
  BY <1>1 DEF TypeOK, DataUnlock
<1>7. TypeOK'
  BY <1>1, <1>3, <1>5, <1>6 DEF TypeOK, streamVars, slotVars
<1>8. Tfile' = Tfile
  BY <1>3 DEF Tfile
<1>9. ControlInv' /\ Listed' /\ Trel' = Trel /\ Tret' = Tret /\ Tpc' \notin ReleasePc
  BY <1>1, <1>2, <1>3, <1>5, <1>8, ControlKept DEF slotVars
<1> QED
  BY <1>2, <1>3, <1>5, <1>7, <1>9, QuietKept

\* The lock of PendingVchiMsgList is taken ...
LEMMA VchiLockKept == ASSUME RxInv, VchiLock(Trigger) PROVE RxInv'
<1>1. TypeOK /\ OnlyTrigger /\ ControlInv /\ Trigger \in Threads
  BY DEF RxInv, SlotInv, Threads
<1>2. Tpc = "vlock" /\ Listed /\ Tfile \in Files /\ Tpc \notin ReleasePc
  BY <1>1 DEF VchiLock, Tpc, Listed, ControlInv, ReleasePc
<1>3. /\ UNCHANGED <<streamVars, slotVars, file, rel, seen, ret>>
      /\ UNCHANGED <<dataLock, requests, dequeues, total>>
  BY DEF VchiLock, sharedVars, slotVars, clientVars, streamVars
<1>5. Tpc' = "vprocess" /\ OnlyTrigger' /\ pc' \in [Threads -> Pc]
  BY <1>1, GotoIs DEF Pc, VchiLock
<1>6. vchiLock' \in [Files -> Threads \cup {NoThread}]
  BY <1>1 DEF TypeOK, VchiLock
<1>7. TypeOK'
  BY <1>1, <1>3, <1>5, <1>6 DEF TypeOK, streamVars, slotVars
<1>8. Tfile' = Tfile
  BY <1>3 DEF Tfile
<1>9. ControlInv' /\ Listed' /\ Trel' = Trel /\ Tret' = Tret /\ Tpc' \notin ReleasePc
  BY <1>1, <1>2, <1>3, <1>5, <1>8, ControlKept DEF slotVars
<1> QED
  BY <1>2, <1>3, <1>5, <1>7, <1>9, QuietKept

\* ... and left.
LEMMA VchiUnlockKept == ASSUME RxInv, VchiUnlock(Trigger) PROVE RxInv'
<1>1. TypeOK /\ OnlyTrigger /\ ControlInv /\ Trigger \in Threads
  BY DEF RxInv, SlotInv, Threads
<1>2. Tpc = "vprocess" /\ Listed /\ Tfile \in Files /\ Tpc \notin ReleasePc
  BY <1>1 DEF VchiUnlock, Tpc, Listed, ControlInv, ReleasePc
<1>4. \A f : Trigger # Dequeuer(f)
  BY DEF Trigger, Dequeuer
<1>3. /\ UNCHANGED <<streamVars, slotVars, file, rel, seen, ret>>
      /\ UNCHANGED <<dataLock, requests, dequeues, total>>
  BY <1>4 DEF VchiUnlock, sharedVars, slotVars, clientVars, streamVars
<1>5. Tpc' = "unlock" /\ OnlyTrigger' /\ pc' \in [Threads -> Pc]
  BY <1>1, <1>4, GotoIs DEF Pc, VchiUnlock
<1>6. vchiLock' \in [Files -> Threads \cup {NoThread}]
  BY <1>1 DEF TypeOK, VchiUnlock
<1>7. TypeOK'
  BY <1>1, <1>3, <1>5, <1>6 DEF TypeOK, streamVars, slotVars
<1>8. Tfile' = Tfile
  BY <1>3 DEF Tfile
<1>9. ControlInv' /\ Listed' /\ Trel' = Trel /\ Tret' = Tret /\ Tpc' \notin ReleasePc
  BY <1>1, <1>2, <1>3, <1>5, <1>8, ControlKept DEF slotVars
<1> QED
  BY <1>2, <1>3, <1>5, <1>7, <1>9, QuietKept

\* The lock of PendingDataMsgList is taken.
LEMMA DataLockKept == ASSUME RxInv, DataLock(Trigger) PROVE RxInv'
<1>1. TypeOK /\ OnlyTrigger /\ ControlInv /\ WindowInv /\ Trigger \in Threads
  BY DEF RxInv, SlotInv, Threads
<1>2. Tpc = "lock" /\ ~Listed /\ Tfile \in Files /\ Tpc \notin ReleasePc
  BY <1>1 DEF DataLock, Tpc, Listed, ControlInv, ReleasePc
<1>3. /\ UNCHANGED <<streamVars, slotVars, file, rel, seen, ret>>
      /\ UNCHANGED <<vchiLock, requests, dequeues, total>>
  BY DEF DataLock, sharedVars, slotVars, clientVars, streamVars
<1>5. Tpc' = "add" /\ OnlyTrigger' /\ pc' \in [Threads -> Pc]
  BY <1>1, GotoIs DEF Pc, DataLock
<1>6. dataLock' \in [Files -> Threads \cup {NoThread}]
  BY <1>1 DEF TypeOK, DataLock
<1>7. TypeOK'
  BY <1>1, <1>3, <1>5, <1>6 DEF TypeOK, streamVars, slotVars
<1>8. Tfile' = Tfile /\ Trel' = Trel /\ Tret' = Tret /\ ~Listed' /\ Tpc' \notin ReleasePc
  BY <1>3, <1>5 DEF Tfile, Trel, Tret, Listed, ReleasePc
<1>10. /\ current' = current /\ rxPos' = rxPos /\ txPos' = txPos /\ inUse' = inUse
       /\ Owner' = Owner /\ Place(rxPos)' = Place(rxPos)
  BY <1>3, StreamKept DEF streamVars, slotVars
<1>9. ControlInv'
  BY <1>1, <1>2, <1>5, <1>8, <1>10 DEF ControlInv
<1> QED
  BY <1>2, <1>3, <1>5, <1>7, <1>8, <1>9, QuietKept

\* VchiqProcessRxSlot looks at the header and takes the lock of the file, or drops the message.
LEMMA TriggerParseKept == ASSUME RxInv, TriggerParse PROVE RxInv'
<1>1. TypeOK /\ OnlyTrigger /\ ControlInv /\ WindowInv /\ SlotInv /\ Trigger \in Threads
  BY DEF RxInv, SlotInv, Threads
<1>2. Tpc = "idle" /\ ~Listed /\ Tpc \notin ReleasePc /\ rxPos < txPos /\ current # NoSlot
  BY DEF TriggerParse, Tpc, Listed, ReleasePc
<1>3. /\ UNCHANGED <<streamVars, slotVars, rel, seen, ret>>
      /\ UNCHANGED <<dataLock, vchiLock, requests, dequeues, total>>
  BY DEF TriggerParse, sharedVars, slotVars, fileVars, clientVars, streamVars
<1>4. RxHeader = Place(rxPos) /\ Place(rxPos) \in Entries /\ rxPos \in rxPos .. (txPos - 1)
  BY <1>1, <1>2, HeaderIs
<1>5. At(RxHeader).file = Owner[Place(rxPos)] /\ Owner[Place(rxPos)] \in Files \cup {None}
  <2>1. At(Place(rxPos)) \in Messages
    BY <1>1, <1>4 DEF TypeOK, At, Entries
  <2> QED
    BY <1>4, <2>1 DEF Owner, Messages
<1>6. /\ current' = current /\ rxPos' = rxPos /\ txPos' = txPos /\ inUse' = inUse
      /\ Owner' = Owner /\ Place(rxPos)' = Place(rxPos) /\ Trel' = Trel /\ Tret' = Tret
  BY <1>3, StreamKept DEF streamVars, slotVars, Trel, Tret
<1>7. CASE Owner[Place(rxPos)] # None /\ Goto(Trigger, "lock")
           /\ file' = [file EXCEPT ![Trigger] = Owner[Place(rxPos)]]
  <2>1. Tpc' = "lock" /\ OnlyTrigger' /\ pc' \in [Threads -> Pc]
    BY <1>1, <1>7, GotoIs DEF Pc
  <2>2. file' \in [Threads -> Files \cup {None}] /\ Tfile' = Owner[Place(rxPos)]
    BY <1>1, <1>5, <1>7 DEF TypeOK, Tfile
  <2>3. TypeOK'
    BY <1>1, <1>3, <2>1, <2>2 DEF TypeOK, streamVars, slotVars
  <2>4. ~Listed' /\ Tpc' \notin ReleasePc
    BY <2>1 DEF Listed, ReleasePc
  <2>5. ControlInv'
    BY <1>1, <1>2, <1>5, <1>6, <1>7, <2>1, <2>2, <2>4 DEF ControlInv
  <2> QED
    BY <1>2, <1>3, <1>6, <2>1, <2>3, <2>4, <2>5, QuietKept
<1>8. CASE Owner[Place(rxPos)] = None /\ Goto(Trigger, "advance") /\ file' = file
  <2>1. Tpc' = "advance" /\ OnlyTrigger' /\ pc' \in [Threads -> Pc]
    BY <1>1, <1>8, GotoIs DEF Pc
  <2>2. TypeOK'
    BY <1>1, <1>3, <1>8, <2>1 DEF TypeOK, streamVars, slotVars
  <2>3. Listed' /\ Tpc' \notin ReleasePc
    BY <2>1 DEF Listed, ReleasePc
  <2>4. ControlInv'
    BY <1>1, <1>2, <1>6, <2>1, <2>3 DEF ControlInv
  <2>5. WindowInv' /\ RecycleInv' /\ CountInv' /\ FoundInv'
    BY <1>1, <1>2, <1>3, <1>6, <2>3, SlotsKept
  <2>6. Reached = rxPos /\ Reached' = rxPos + 1 /\ rxPos \in Nat
    BY <1>1, <1>2, <1>6, <2>3, Basics DEF Reached
  <2>7. /\ Cur' = Cur /\ Queued' = Queued /\ Pos' = Pos /\ Owner' = Owner
        /\ Kind' = Kind /\ Pending' = Pending
        /\ \A i : QSlot(i)' = QSlot(i)
        /\ \A p : Place(p)' = Place(p)
    BY <1>3, StreamKept
  <2>8. PendingInv'
    BY <1>6, <2>6, <2>7 DEF RxInv, PendingInv
  <2>9. MemoryInv'
    BY <1>3, StreamKept DEF RxInv
  <2>10. FileInv'
    <3> SUFFICES ASSUME NEW f \in Files
                 PROVE  ListOk(f)' /\ PostedOk(f)' /\ DeliveredOk(f)' /\ DequeuedOk(f)'
      BY DEF FileInv
    <3>1. ListOk(f) /\ PostedOk(f) /\ DeliveredOk(f) /\ DequeuedOk(f)
      BY DEF RxInv, FileInv
    <3>2. /\ data' = data /\ vchi' = vchi /\ posted' = posted /\ delivered' = delivered
          /\ dequeued' = dequeued /\ txPos' = txPos
      BY <1>3 DEF streamVars
    <3>3. ListOk(f)'
      BY <2>7, <3>1, <3>2 DEF ListOk
    <3>4. PostedOk(f)'
      <4>1. \A p \in Reached' .. (txPos - 1) : p \in Reached .. (txPos - 1)
        BY <1>1, <2>6, Basics
      <4> QED
        BY <2>7, <3>1, <3>2, <4>1 DEF PostedOk
    <3>5. posted[f] \in Seq(Nat)
      BY <1>1 DEF TypeOK
    <3>6. \A j \in 1 .. Len(posted[f]) : posted[f][j] # rxPos
      BY <1>4, <1>8, <2>6, <3>1, RxAssumption DEF PostedOk
    <3>7. \A j \in 1 .. Len(posted[f]) : posted[f][j] >= Reached => posted[f][j] >= Reached'
      BY <2>6, <3>5, <3>6
    <3>8. delivered[f] \in Seq(Nat \cup {-1})
      BY <1>1 DEF TypeOK
    <3>9. \A j \in (Len(delivered[f]) + 1) .. Len(posted[f]) : j \in 1 .. Len(posted[f])
      BY <3>8
    <3>12. \A i \in 1 .. Len(delivered[f]) :
             delivered[f][i] = posted[f][i] /\ delivered[f][i] < Reached'
      <4>1. ASSUME NEW i \in 1 .. Len(delivered[f])
            PROVE  delivered[f][i] \in Int /\ delivered[f][i] < Reached
        BY <3>1, <3>8 DEF DeliveredOk
      <4> QED
        BY <2>6, <3>1, <4>1 DEF DeliveredOk
    <3>10. DeliveredOk(f)'
      BY <2>7, <3>1, <3>2, <3>7, <3>9, <3>12 DEF DeliveredOk
    <3>11. DequeuedOk(f)'
      BY <2>7, <3>1, <3>2 DEF DequeuedOk
    <3> QED
      BY <3>3, <3>4, <3>10, <3>11
  <2> QED
    BY <2>1, <2>2, <2>4, <2>5, <2>8, <2>9, <2>10 DEF RxInv, SlotInv
<1> QED
  BY <1>5, <1>7, <1>8 DEF TriggerParse

-----------------------------------------------------------------------------
(* VchiqReleaseMsg and VchiqRecycleSlot. *)

\* Inside of VchiqReleaseMsg the stream does not change.
LEMMA ReleaseStepKept ==
  ASSUME RxInv, UNCHANGED streamVars, Trel' = Trel \/ Trel' = NoSlot, Reached' = Reached,
         TypeOK', OnlyTrigger', ControlInv', RecycleInv', CountInv', FoundInv'
  PROVE  RxInv'
<1>1. PendingInv' /\ MemoryInv' /\ FileInv'
  BY StreamKept DEF RxInv
<1>2. /\ Cur' = Cur /\ Window' = Window /\ Queued' = Queued
      /\ \A i : QSlot(i)' = QSlot(i)
      /\ current' = current /\ rxPos' = rxPos /\ txPos' = txPos /\ recycle' = recycle
  BY StreamKept DEF streamVars
<1>3. WindowInv'
  BY <1>2 DEF RxInv, SlotInv, WindowInv
<1> QED
  BY <1>1, <1>3 DEF RxInv, SlotInv

\* A step inside of VchiqReleaseMsg.
LEMMA InsideRelease ==
  ASSUME TypeOK, ControlInv, UNCHANGED <<streamVars, inUse, file, rel, ret>>,
         Tpc \in ReleasePc, Tpc' \in ReleasePc
  PROVE  /\ ControlInv' /\ Reached' = Reached /\ Trel' = Trel /\ Trel \in Slots
         /\ Queued' = Queued
         /\ \A s : Refs(s)' = Refs(s)
         /\ \A i : QSlot(i)' = QSlot(i)
<1>1. Trel' = Trel /\ Tret' = Tret /\ Tfile' = Tfile
  BY DEF Trel, Tret, Tfile
<1>2. /\ Listed' = Listed /\ Tpc \notin {"lock", "add", "advance"}
      /\ Tpc' \notin {"lock", "add", "advance"}
  BY <1>1 DEF Listed, ReleasePc
<1>3. current' = current /\ rxPos' = rxPos /\ txPos' = txPos
  BY DEF streamVars
<1>4. Reached' = Reached
  BY <1>2, <1>3 DEF Reached
<1>5. ControlInv'
  BY <1>1, <1>2, <1>3 DEF ControlInv
<1>6. Trel \in Slots
  BY Basics DEF ControlInv
<1> QED
  BY <1>1, <1>4, <1>5, <1>6, StreamKept

\* A slot has finitely many messages.
LEMMA RefsFinite ==
  ASSUME NEW s
  PROVE  IsFiniteSet(Refs(s)) /\ Cardinality(Refs(s)) \in Nat
<1>1. Refs(s) \in SUBSET Indexes /\ IsFiniteSet(Indexes)
  BY FS_Interval, RxAssumption DEF Refs, Indexes
<1> QED
  BY <1>1, FS_Subset, FS_CardinalityType

\* VchiqReleaseMsg lowers RefCount.
LEMMA ReleaseMsgKept == ASSUME RxInv, ReleaseMsg(Trigger) PROVE RxInv'
<1>1. /\ TypeOK /\ OnlyTrigger /\ ControlInv /\ RecycleInv /\ CountInv /\ FoundInv
      /\ Trigger \in Threads
  BY DEF RxInv, SlotInv, Threads
<1>2. /\ UNCHANGED <<streamVars, inUse, file, rel, seen, ret>>
      /\ UNCHANGED <<fileVars, total>>
  BY DEF ReleaseMsg, sharedVars, fileVars, clientVars, streamVars
<1>3. Tpc = "dec" /\ Tpc' = "read" /\ OnlyTrigger' /\ pc' \in [Threads -> Pc]
  BY <1>1, GotoIs DEF ReleaseMsg, Pc, ReleasePc, Tpc
<1>4. Tpc \in ReleasePc /\ Tpc' \in ReleasePc
  BY <1>3 DEF ReleasePc
<1>5. /\ ControlInv' /\ Reached' = Reached /\ Trel' = Trel /\ Trel \in Slots
      /\ Queued' = Queued
      /\ \A s : Refs(s)' = Refs(s)
      /\ \A i : QSlot(i)' = QSlot(i)
  BY <1>1, <1>2, <1>4, InsideRelease
<1>6. refCount' = [refCount EXCEPT ![Trel] = @ - 1] /\ refCount \in [Slots -> Int]
  BY <1>1 DEF ReleaseMsg, Trel, TypeOK
<1>7. TypeOK'
  <2>1. refCount' \in [Slots -> Int]
    BY <1>5, <1>6
  <2> QED
    BY <1>1, <1>2, <1>3, <2>1 DEF TypeOK, streamVars, fileVars
<1>8. RecycleInv'
  BY <1>3 DEF RecycleInv
<1>9. CountInv'
  <2> SUFFICES ASSUME NEW s \in Slots
               PROVE  refCount'[s] = Cardinality(Refs(s)) + 0
    BY <1>3, <1>5 DEF CountInv
  <2>1. refCount[s] = Cardinality(Refs(s)) + (IF Trel = s THEN 1 ELSE 0) /\ refCount[s] \in Int
    BY <1>1, <1>3, <1>6 DEF CountInv
  <2>2. Cardinality(Refs(s)) \in Nat
    BY RefsFinite
  <2> QED
    BY <1>5, <1>6, <2>1, <2>2
<1>10. FoundInv'
  <2>1. current' = current
    BY <1>2 DEF streamVars
  <2> QED
    BY <1>1, <1>3, <1>5, <1>6, <2>1 DEF FoundInv
<1> QED
  BY <1>2, <1>3, <1>5, <1>7, <1>8, <1>9, <1>10, ReleaseStepKept

\* VchiqRecycleSlot reads RefCount.
LEMMA RecycleReadKept == ASSUME RxInv, RecycleRead(Trigger) PROVE RxInv'
<1>1. /\ TypeOK /\ OnlyTrigger /\ ControlInv /\ RecycleInv /\ CountInv /\ FoundInv
      /\ Trigger \in Threads
  BY DEF RxInv, SlotInv, Threads
<1>2. /\ UNCHANGED <<streamVars, inUse, file, rel, ret>>
      /\ UNCHANGED <<fileVars, total, refCount>>
  BY DEF RecycleRead, sharedVars, slotVars, fileVars, clientVars, streamVars
<1>3. Tpc = "read" /\ Tpc' = "exchange" /\ OnlyTrigger' /\ pc' \in [Threads -> Pc]
  BY <1>1, GotoIs DEF RecycleRead, Pc, ReleasePc, Tpc
<1>4. Tpc \in ReleasePc /\ Tpc' \in ReleasePc
  BY <1>3 DEF ReleasePc
<1>5. /\ ControlInv' /\ Reached' = Reached /\ Trel' = Trel /\ Trel \in Slots
      /\ Queued' = Queued
      /\ \A s : Refs(s)' = Refs(s)
      /\ \A i : QSlot(i)' = QSlot(i)
  BY <1>1, <1>2, <1>4, InsideRelease
<1>6. Tseen' = refCount[Trel] /\ seen' \in [Threads -> Int]
  <2>1. seen' = [seen EXCEPT ![Trigger] = refCount[Trel]] /\ refCount[Trel] \in Int
    BY <1>1, <1>5 DEF RecycleRead, Trel, TypeOK
  <2> QED
    BY <1>1, <2>1 DEF TypeOK, Tseen
<1>7. TypeOK'
  BY <1>1, <1>2, <1>3, <1>6 DEF TypeOK, streamVars, fileVars
<1>8. RecycleInv'
  BY <1>2, <1>3, <1>5, <1>6 DEF RecycleInv
<1>9. CountInv'
  BY <1>1, <1>2, <1>3, <1>5 DEF CountInv
<1>10. FoundInv'
  <2>1. current' = current
    BY <1>2 DEF streamVars
  <2> QED
    BY <1>1, <1>2, <1>3, <1>5, <2>1 DEF FoundInv
<1> QED
  BY <1>2, <1>3, <1>5, <1>7, <1>8, <1>9, <1>10, ReleaseStepKept

\* The exchange of RefCount writes what was read, because no other thread counts.
LEMMA RecycleExchangeKept == ASSUME RxInv, RecycleExchange(Trigger) PROVE RxInv'
<1>1. /\ TypeOK /\ OnlyTrigger /\ ControlInv /\ RecycleInv /\ CountInv /\ FoundInv
      /\ Trigger \in Threads
  BY DEF RxInv, SlotInv, Threads
<1>2. /\ UNCHANGED <<streamVars, inUse, file, rel, ret>>
      /\ UNCHANGED <<fileVars, total>>
  BY DEF RecycleExchange, sharedVars, slotVars, fileVars, clientVars, streamVars
<1>3. Tpc = "exchange" /\ Tpc' = "test" /\ OnlyTrigger' /\ pc' \in [Threads -> Pc]
  BY <1>1, GotoIs DEF RecycleExchange, Pc, ReleasePc, Tpc
<1>4. Tpc \in ReleasePc /\ Tpc' \in ReleasePc
  BY <1>3 DEF ReleasePc
<1>5. /\ ControlInv' /\ Reached' = Reached /\ Trel' = Trel /\ Trel \in Slots
      /\ Queued' = Queued
      /\ \A s : Refs(s)' = Refs(s)
      /\ \A i : QSlot(i)' = QSlot(i)
  BY <1>1, <1>2, <1>4, InsideRelease
<1>11. refCount' = refCount
  <2>1. refCount' = [refCount EXCEPT ![Trel] = Tseen] /\ Tseen = refCount[Trel]
    BY <1>1, <1>3 DEF RecycleExchange, Trel, Tseen, RecycleInv
  <2> QED
    BY <1>1, <1>5, <2>1 DEF TypeOK
<1>6. Tseen' = refCount[Trel] /\ seen' \in [Threads -> Int]
  <2>1. seen' = [seen EXCEPT ![Trigger] = refCount[Trel]] /\ refCount[Trel] \in Int
    BY <1>1, <1>5 DEF RecycleExchange, Trel, TypeOK
  <2> QED
    BY <1>1, <2>1 DEF TypeOK, Tseen
<1>7. TypeOK'
  BY <1>1, <1>2, <1>3, <1>6, <1>11 DEF TypeOK, streamVars, fileVars
<1>8. RecycleInv'
  BY <1>3, <1>5, <1>6, <1>11 DEF RecycleInv
<1>9. CountInv'
  BY <1>1, <1>3, <1>5, <1>11 DEF CountInv
<1>10. FoundInv'
  <2>1. current' = current
    BY <1>2 DEF streamVars
  <2> QED
    BY <1>1, <1>3, <1>5, <1>11, <2>1 DEF FoundInv
<1> QED
  BY <1>2, <1>3, <1>5, <1>7, <1>8, <1>9, <1>10, ReleaseStepKept

\* Coming back from VchiqReleaseMsg.
LEMMA ReturnKept ==
  ASSUME TypeOK, OnlyTrigger, ControlInv, UNCHANGED <<inUse, file>>, Tpc \in ReleasePc,
         current' = current, rxPos' = rxPos, txPos' = txPos, Return(Trigger)
  PROVE  ControlInv' /\ Reached' = Reached /\ Trel' = NoSlot /\ Tpc' = Tret /\ Tret # "none"
<1>1. Tret # "none" /\ Tret \in {"remove", "vprocess", "idle"}
  BY Basics DEF ControlInv
<1>2. Tpc' = Tret /\ Trel' = NoSlot /\ Tret' = "none" /\ Tfile' = Tfile
  BY <1>1, ReturnIs DEF Tfile
<1>3. /\ Listed' = Listed /\ Tpc' \notin ReleasePc /\ Tpc' \notin {"lock", "add", "advance"}
      /\ Tpc \notin {"lock", "add", "advance"}
  BY <1>1, <1>2 DEF Listed, ReleasePc
<1>4. Reached' = Reached
  BY <1>3 DEF Reached
<1>5. ControlInv'
  BY <1>2, <1>3 DEF ControlInv
<1> QED
  BY <1>1, <1>2, <1>4, <1>5

\* The slot is returned when it is neither referenced nor in use.
LEMMA RecycleTestKept == ASSUME RxInv, RecycleTest(Trigger) PROVE RxInv'
<1>1. /\ TypeOK /\ OnlyTrigger /\ ControlInv /\ RecycleInv /\ CountInv /\ FoundInv
      /\ Trigger \in Threads
  BY DEF RxInv, SlotInv, Threads
<1>2. /\ UNCHANGED <<streamVars, inUse, file>>
      /\ UNCHANGED <<fileVars, total, refCount>>
  BY DEF RecycleTest, sharedVars, slotVars, fileVars, clientVars, streamVars
<1>3. Tpc = "test" /\ Tpc \in ReleasePc /\ Trel \in Slots /\ Tseen = refCount[Trel]
  BY <1>1, Basics DEF RecycleTest, ReleasePc, Tpc, ControlInv, RecycleInv
<1>4. current' = current /\ rxPos' = rxPos /\ txPos' = txPos
  BY <1>2 DEF streamVars
<1>5. /\ Queued' = Queued
      /\ \A s : Refs(s)' = Refs(s)
      /\ \A i : QSlot(i)' = QSlot(i)
  BY <1>2, StreamKept
<1>6. CASE Tseen = 0 /\ ~inUse[Trel] /\ Goto(Trigger, "push") /\ UNCHANGED <<rel, seen, ret>>
  <2>1. Tpc' = "push" /\ OnlyTrigger' /\ pc' \in [Threads -> Pc]
    BY <1>1, <1>6, GotoIs DEF Pc, ReleasePc
  <2>2. Tpc' \in ReleasePc
    BY <2>1 DEF ReleasePc
  <2>3. ControlInv' /\ Reached' = Reached /\ Trel' = Trel
    BY <1>1, <1>2, <1>3, <1>6, <2>2, InsideRelease
  <2>4. TypeOK'
    BY <1>1, <1>2, <1>6, <2>1 DEF TypeOK, streamVars, fileVars
  <2>5. RecycleInv'
    BY <1>1, <1>2, <1>3, <1>4, <1>6, <2>1, <2>3 DEF RecycleInv, ControlInv
  <2>6. CountInv'
    BY <1>1, <1>2, <1>3, <1>5, <2>1, <2>3 DEF CountInv
  <2>7. FoundInv'
    BY <1>1, <1>2, <1>3, <1>4, <1>5, <2>1, <2>3 DEF FoundInv
  <2> QED
    BY <1>2, <2>1, <2>3, <2>4, <2>5, <2>6, <2>7, ReleaseStepKept
<1>7. CASE (Tseen # 0 \/ inUse[Trel]) /\ Return(Trigger)
  <2>1. ControlInv' /\ Reached' = Reached /\ Trel' = NoSlot /\ Tpc' = Tret /\ Tret # "none"
    BY <1>1, <1>2, <1>3, <1>4, <1>7, ReturnKept
  <2>2. /\ OnlyTrigger' /\ pc' \in [Threads -> Pc] /\ rel' \in [Threads -> Slots \cup {NoSlot}]
        /\ seen' \in [Threads -> Int]
        /\ ret' \in [Threads -> {"none", "remove", "vprocess", "idle"}]
    BY <1>1, <1>7, <2>1, ReturnIs
  <2>3. TypeOK'
    BY <1>1, <1>2, <2>2 DEF TypeOK, streamVars, fileVars
  <2>4. Tpc' \notin ReleasePc
    BY <1>1, <2>1, Basics DEF ReleasePc
  <2>5. RecycleInv'
    BY <2>4 DEF RecycleInv, ReleasePc
  <2>6. CountInv'
    BY <1>1, <1>2, <1>3, <1>5, <2>4 DEF CountInv, ReleasePc
  <2>7. FoundInv'
    BY <1>1, <1>2, <1>3, <1>4, <1>5, <1>7 DEF FoundInv, ControlInv
  <2> QED
    BY <1>2, <2>1, <2>2, <2>3, <2>5, <2>6, <2>7, ReleaseStepKept
<1> QED
  BY <1>6, <1>7 DEF RecycleTest, Tseen, Trel

\* The window has room for the slot that is returned: its slots are different, and different from it.
LEMMA WindowSmall ==
  ASSUME TypeOK, ControlInv, WindowInv, Trel \in Slots, Trel # current
  PROVE  /\ recycle - Cur < RingSize
         /\ \A i \in Window : QSlot(i) # Trel
<1>1. /\ recycle \in Nat /\ Cur \in Nat /\ Cur <= recycle /\ NoSlot \notin Slots
      /\ NumSlots \in Nat /\ NumSlots <= RingSize /\ RingSize \in Nat
  BY Basics, RxAssumption DEF WindowInv, NumSlots
<1>2. ASSUME NEW i \in Window PROVE QSlot(i) # Trel
  <2>1. CASE i \in Queued
    BY <1>1, <2>1 DEF WindowInv
  <2>2. CASE i \notin Queued
    <3>1. i = Cur /\ current # NoSlot
      BY <1>1, <2>2 DEF Queued, Window, Cur
    <3> QED
      BY <3>1 DEF WindowInv
  <2> QED
    BY <2>1, <2>2
<1> DEFINE S == Cur .. recycle
           f == [i \in S |-> IF i = recycle THEN Trel ELSE QSlot(i)]
<1>3. f \in Injection(S, Slots)
  <2>1. \A i \in S : i # recycle => i \in Window
    BY <1>1 DEF Window
  <2>2. \A i \in S : f[i] \in Slots
    BY <2>1 DEF WindowInv
  <2>3. \A i, j \in S : f[i] = f[j] => i = j
    BY <2>1, <1>2 DEF WindowInv
  <2> QED
    BY <2>2, <2>3 DEF Injection, IsInjective
<1>4. IsFiniteSet(Slots) /\ Cardinality(Slots) = NumSlots
  <2>1. SlotFirst \in Int /\ SlotLast \in Int /\ SlotFirst <= SlotLast
    BY RxAssumption
  <2> QED
    BY <2>1, FS_Interval DEF Slots, NumSlots
<1>5. Cardinality(S) <= NumSlots
  BY <1>3, <1>4, FS_Injection
<1>6. Cardinality(S) = recycle - Cur + 1
  BY <1>1, FS_Interval
<1> QED
  BY <1>1, <1>2, <1>5, <1>6

\* Returning a slot leaves the entries of the window alone.
LEMMA PushIs ==
  ASSUME TypeOK, ControlInv, WindowInv, Trel \in Slots, Trel # current,
         slotQueue' = [slotQueue EXCEPT ![recycle % RingSize] = Trel]
  PROVE  /\ slotQueue'[recycle % RingSize] = Trel
         /\ \A i \in Window : QSlot(i)' = QSlot(i)
<1>1. /\ recycle \in Nat /\ Cur \in Nat /\ RingSize \in Nat \ {0} /\ recycle - Cur < RingSize
  BY Basics, WindowSmall
<1>2. \A i \in Nat : i % RingSize \in 0 .. (RingSize - 1)
  BY <1>1, DivMod
<1>3. slotQueue \in [0..(RingSize - 1) -> Slots \cup {NoSlot}]
  BY DEF TypeOK
<1>4. slotQueue'[recycle % RingSize] = Trel
  BY <1>1, <1>2, <1>3
<1>5. ASSUME NEW i \in Window PROVE slotQueue'[i % RingSize] = slotQueue[i % RingSize]
  <2>1. i \in Nat /\ i < recycle /\ recycle < i + RingSize
    BY <1>1 DEF Window
  <2>2. i % RingSize # recycle % RingSize
    BY <1>1, <2>1, ModDistinct
  <2>3. i % RingSize \in 0 .. (RingSize - 1)
    BY <1>2, <2>1
  <2> QED
    BY <1>3, <2>2, <2>3
<1> QED
  BY <1>4, <1>5 DEF QSlot

\* The slot goes to the end of Master.SlotQueue.
LEMMA RecyclePushKept == ASSUME RxInv, RecyclePush(Trigger) PROVE RxInv'
<1>1. /\ TypeOK /\ OnlyTrigger /\ ControlInv /\ RecycleInv /\ CountInv /\ FoundInv /\ WindowInv
      /\ PendingInv /\ MemoryInv /\ Trigger \in Threads
  BY DEF RxInv, SlotInv, Threads
<1>2. /\ UNCHANGED <<txPos, memory, rxPos, current, data, vchi, posted, delivered, dequeued>>
      /\ UNCHANGED <<inUse, refCount, file, dataLock, vchiLock, requests, dequeues, total>>
  BY DEF RecyclePush, slotVars, fileVars, clientVars
<1>3. /\ Tpc = "push" /\ Tpc \in ReleasePc /\ Trel \in Slots /\ refCount[Trel] = 0
      /\ Trel # current
  BY <1>1, Basics DEF RecyclePush, ReleasePc, Tpc, ControlInv, RecycleInv
<1>4. recycle' = recycle + 1 /\ slotQueue' = [slotQueue EXCEPT ![recycle % RingSize] = Trel]
  BY DEF RecyclePush, Trel
<1>5. /\ slotQueue'[recycle % RingSize] = Trel
      /\ \A i \in Window : QSlot(i)' = QSlot(i) /\ QSlot(i) # Trel
  BY <1>1, <1>3, <1>4, PushIs, WindowSmall
<1>6. /\ recycle \in Nat /\ Cur \in Nat /\ Cur <= recycle /\ Cur' = Cur
      /\ (current # NoSlot => Cur < recycle)
  BY <1>1, <1>2, Basics DEF WindowInv, Cur, Window
<1>7. Window' = Window \cup {recycle} /\ Queued' = Queued \cup {recycle} /\ Queued \subseteq Window
  <2>1. Window' = Window \cup {recycle}
    BY <1>4, <1>6 DEF Window
  <2>2. Queued' = Queued \cup {recycle} /\ Queued \subseteq Window
    BY <1>2, <1>4, <1>6 DEF Queued, Window, Cur
  <2> QED
    BY <2>1, <2>2
<1>8. \A i \in Window' : QSlot(i)' = IF i = recycle THEN Trel ELSE QSlot(i)
  <2>1. recycle \notin Window
    BY <1>6 DEF Window
  <2>2. \A i : i = recycle => QSlot(i)' = Trel
    BY <1>5 DEF QSlot
  <2> QED
    BY <1>5, <1>7, <2>1, <2>2
<1>9. /\ Pos' = Pos /\ Owner' = Owner /\ Kind' = Kind /\ Pending' = Pending
      /\ \A s : Refs(s)' = Refs(s)
  <2>1. Pos' = Pos /\ Owner' = Owner /\ Kind' = Kind /\ Pending' = Pending
    BY <1>2 DEF Pos, Owner, Kind, Pending, InData, InVchi, At
  <2> QED
    BY <2>1 DEF Refs
<1>10. \A p \in rxPos .. (txPos - 1) : Place(p)' = Place(p)
  BY <1>1, <1>5, AheadInWindow DEF Place
<1>11. ControlInv' /\ Reached' = Reached /\ Trel' = NoSlot /\ Tpc' = Tret /\ Tret # "none"
  BY <1>1, <1>2, <1>3, ReturnKept DEF RecyclePush
<1>12. /\ OnlyTrigger' /\ pc' \in [Threads -> Pc] /\ rel' \in [Threads -> Slots \cup {NoSlot}]
       /\ seen' \in [Threads -> Int]
       /\ ret' \in [Threads -> {"none", "remove", "vprocess", "idle"}]
  BY <1>1, <1>11, ReturnIs DEF RecyclePush
<1>13. TypeOK'
  <2>1. slotQueue \in [0..(RingSize - 1) -> Slots \cup {NoSlot}]
    BY <1>1 DEF TypeOK
  <2>2. slotQueue' \in [0..(RingSize - 1) -> Slots \cup {NoSlot}]
    BY <1>3, <1>4, <2>1, Zenon
  <2>3. recycle' \in Nat
    BY <1>4, <1>6
  <2> QED
    BY <1>1, <1>2, <1>12, <2>2, <2>3 DEF TypeOK
<1>14. WindowInv'
  <2>1. rxPos' <= txPos' /\ Cur' <= recycle'
    BY <1>1, <1>2, <1>4, <1>6 DEF WindowInv
  <2>2. \A p \in 0 .. (txPos' - 1) : p \div MsgsPerSlot < recycle'
    <3>1. ASSUME NEW p \in 0 .. (txPos - 1) PROVE p \div MsgsPerSlot < recycle + 1
      <4>1. p \in Nat /\ p \div MsgsPerSlot < recycle
        BY <1>1, Basics DEF WindowInv
      <4>2. p \div MsgsPerSlot \in Nat
        BY <1>1, <4>1, Basics, DivNat
      <4> QED
        BY <1>6, <4>1, <4>2
    <3> QED
      BY <1>2, <1>4, <3>1
  <2>3. \A i \in Window' : QSlot(i)' \in Slots
    BY <1>1, <1>3, <1>7, <1>8 DEF WindowInv
  <2>4. \A i, j \in Window' : QSlot(i)' = QSlot(j)' => i = j
    BY <1>1, <1>5, <1>7, <1>8 DEF WindowInv
  <2>5. current' # NoSlot => Cur' \in Window' /\ current' = QSlot(Cur)'
    BY <1>1, <1>2, <1>5, <1>6, <1>7 DEF WindowInv, QSlot
  <2> QED
    BY <1>11, <2>1, <2>2, <2>3, <2>4, <2>5 DEF WindowInv
<1>15. Tpc' \notin ReleasePc
  BY <1>1, <1>11, Basics DEF ReleasePc
<1>16. RecycleInv' /\ CountInv'
  BY <1>1, <1>2, <1>3, <1>9, <1>15 DEF RecycleInv, CountInv, ReleasePc
<1>17. FoundInv'
  <2> SUFFICES ASSUME NEW s \in Slots
               PROVE  s = current \/ (\E i \in Queued' : QSlot(i)' = s) \/ refCount[s] # 0
    BY <1>2 DEF FoundInv
  <2>1. CASE s = Trel
    BY <1>7, <1>8, <2>1
  <2>2. CASE s # Trel
    <3>1. s = current \/ (\E i \in Queued : QSlot(i) = s) \/ refCount[s] # 0
      BY <1>1, <2>2 DEF FoundInv
    <3> QED
      BY <1>5, <1>7, <3>1
  <2> QED
    BY <2>1, <2>2
<1>18. PendingInv'
  <2>1. ASSUME NEW e \in Pending PROVE e.slot # Trel
    <3>1. Refs(Trel) = {}
      <4>1. Cardinality(Refs(Trel)) = 0
        BY <1>1, <1>3, RefsFinite DEF CountInv
      <4> QED
        BY <4>1, RefsFinite, FS_EmptySet
    <3>2. e \in Entries /\ e = [slot |-> e.slot, index |-> e.index] /\ e.index \in Indexes
      BY DEF Pending, Entries
    <3> QED
      BY <3>1, <3>2 DEF Refs
  <2>2. ASSUME NEW e \in Pending, NEW i \in Queued' PROVE QSlot(i)' # e.slot
    BY <1>1, <1>7, <1>8, <2>1 DEF PendingInv
  <2>3. current' = current /\ Cur' = Cur /\ Reached' = Reached /\ Pending' = Pending /\ Pos' = Pos
    BY <1>2, <1>6, <1>9, <1>11
  <2> QED
    BY <1>1, <2>2, <2>3 DEF PendingInv
<1>19. MemoryInv'
  BY <1>1, <1>2, <1>9, <1>10 DEF MemoryInv
<1>20. FileInv'
  <2> SUFFICES ASSUME NEW f \in Files
               PROVE  ListOk(f)' /\ PostedOk(f)' /\ DeliveredOk(f)' /\ DequeuedOk(f)'
    BY DEF FileInv
  <2>1. ListOk(f) /\ PostedOk(f) /\ DeliveredOk(f) /\ DequeuedOk(f)
    BY DEF RxInv, FileInv
  <2>2. Reached' = Reached /\ txPos' = txPos
    BY <1>2, <1>11
  <2>3. ListOk(f)'
    BY <1>2, <1>9, <2>1 DEF ListOk
  <2>4. PostedOk(f)'
    <3>1. \A p \in Reached .. (txPos - 1) : p \in rxPos .. (txPos - 1)
      BY <1>1, Basics
    <3> QED
      BY <1>2, <1>9, <1>10, <2>1, <2>2, <3>1 DEF PostedOk
  <2>5. DeliveredOk(f)'
    BY <1>2, <1>9, <2>1, <2>2 DEF DeliveredOk
  <2>6. DequeuedOk(f)'
    BY <1>2, <1>9, <2>1 DEF DequeuedOk
  <2> QED
    BY <2>3, <2>4, <2>5, <2>6
<1> QED
  BY <1>11, <1>12, <1>13, <1>14, <1>16, <1>17, <1>18, <1>19, <1>20 DEF RxInv, SlotInv

-----------------------------------------------------------------------------
(* The trigger thread takes a slot and passes a message. *)

\* The trigger thread takes the next slot and marks it in use.
LEMMA TriggerTakeSlotKept == ASSUME RxInv, TriggerTakeSlot PROVE RxInv'
<1>1. /\ TypeOK /\ OnlyTrigger /\ ControlInv /\ RecycleInv /\ CountInv /\ FoundInv /\ WindowInv
      /\ PendingInv /\ MemoryInv /\ Trigger \in Threads
  BY DEF RxInv, SlotInv, Threads
<1>2. /\ UNCHANGED <<slotQueue, recycle, txPos, memory, rxPos, data, vchi, posted, delivered,
                     dequeued>>
      /\ UNCHANGED <<refCount, fileVars, localVars>>
  BY DEF TriggerTakeSlot, sharedVars, slotVars, fileVars, localVars, clientVars
<1>3. Tpc = "idle" /\ ~Listed /\ Tpc \notin ReleasePc /\ rxPos < txPos /\ current = NoSlot
  BY DEF TriggerTakeSlot, Tpc, Listed, ReleasePc
<1>4. /\ Tpc' = Tpc /\ Trel' = Trel /\ Tret' = Tret /\ Tseen' = Tseen /\ Tfile' = Tfile
      /\ Listed' = Listed /\ Reached' = Reached
  BY <1>2 DEF localVars, Tpc, Trel, Tret, Tseen, Tfile, Listed, Reached
<1>5. /\ Cur' = Cur /\ Window' = Window /\ Pos' = Pos /\ Owner' = Owner /\ Kind' = Kind
      /\ Pending' = Pending
      /\ \A s : Refs(s)' = Refs(s)
      /\ \A i : QSlot(i)' = QSlot(i)
      /\ \A p : Place(p)' = Place(p)
  <2>1. /\ Cur' = Cur /\ Window' = Window /\ Pos' = Pos /\ Owner' = Owner /\ Kind' = Kind
        /\ Pending' = Pending
    BY <1>2 DEF Cur, Window, Pos, Owner, Kind, Pending, InData, InVchi, At
  <2> QED
    BY <1>2, <2>1 DEF Refs, QSlot, Place
<1>6. Cur \in Window /\ Cur \in Nat /\ recycle \in Nat
  <2>1. rxPos \in rxPos .. (txPos - 1)
    BY <1>1, <1>3, Basics
  <2> QED
    BY <1>1, <2>1, AheadInWindow, Basics DEF Cur
<1>7. current' = QSlot(Cur) /\ QSlot(Cur) \in Slots
  BY <1>1, <1>6 DEF TriggerTakeSlot, SlotOf, QSlot, Cur, WindowInv
<1>8. inUse' = [inUse EXCEPT ![QSlot(Cur)] = TRUE]
  BY DEF TriggerTakeSlot, SlotOf, QSlot, Cur
<1>9. Queued = Window /\ Queued' = Window \ {Cur}
  <2>1. Queued = Window
    <3>1. Queued = (Cur + 0) .. (recycle - 1)
      BY <1>3 DEF Queued, Cur
    <3> QED
      BY <1>6, <3>1 DEF Window
  <2>2. current' # NoSlot
    BY <1>1, <1>7, Basics
  <2>3. Queued' = (Cur + 1) .. (recycle - 1)
    BY <1>2, <2>2 DEF Queued, Cur
  <2> QED
    BY <1>6, <2>1, <2>3 DEF Window
<1>10. TypeOK'
  <2>1. inUse' \in [Slots -> BOOLEAN]
    BY <1>1, <1>8 DEF TypeOK
  <2>2. current' \in Slots \cup {NoSlot}
    BY <1>7
  <2> QED
    BY <1>1, <1>2, <2>1, <2>2 DEF TypeOK, fileVars, localVars
<1>11. OnlyTrigger'
  BY <1>1, <1>2 DEF OnlyTrigger, localVars
<1>12. ControlInv'
  <2>1. \A s \in Slots : inUse'[s] <=> s = current'
    <3>1. inUse \in [Slots -> BOOLEAN] /\ \A s \in Slots : ~inUse[s]
      BY <1>1, <1>3, Basics DEF TypeOK, ControlInv
    <3> QED
      BY <1>7, <1>8, <3>1
  <2>2. Tret # "idle"
    BY <1>1, <1>3 DEF ControlInv
  <2> QED
    BY <1>1, <1>3, <1>4, <2>1, <2>2 DEF ControlInv
<1>13. WindowInv'
  <2>1. Trel' = NoSlot
    BY <1>1, <1>3, <1>4 DEF ControlInv
  <2> QED
    BY <1>1, <1>2, <1>5, <1>6, <1>7, <2>1 DEF WindowInv
<1>14. RecycleInv' /\ CountInv'
  BY <1>1, <1>2, <1>3, <1>4, <1>5 DEF RecycleInv, CountInv, ReleasePc
<1>15. FoundInv'
  <2> SUFFICES ASSUME NEW s \in Slots
               PROVE  s = current' \/ (\E i \in Queued' : QSlot(i)' = s) \/ refCount[s] # 0
    BY <1>2 DEF FoundInv
  <2>1. (\E i \in Queued : QSlot(i) = s) \/ refCount[s] # 0
    BY <1>1, <1>3, Basics DEF FoundInv, ReleasePc
  <2> QED
    BY <1>5, <1>7, <1>9, <2>1
<1>16. PendingInv'
  <2>1. ASSUME NEW e \in Pending PROVE e.slot # current'
    BY <1>1, <1>6, <1>7, <1>9 DEF PendingInv
  <2> QED
    BY <1>1, <1>4, <1>5, <1>9, <2>1 DEF PendingInv
<1>17. MemoryInv'
  BY <1>1, <1>2, <1>5 DEF MemoryInv
<1>18. FileInv'
  <2> SUFFICES ASSUME NEW f \in Files
               PROVE  ListOk(f)' /\ PostedOk(f)' /\ DeliveredOk(f)' /\ DequeuedOk(f)'
    BY DEF FileInv
  <2>1. ListOk(f) /\ PostedOk(f) /\ DeliveredOk(f) /\ DequeuedOk(f)
    BY DEF RxInv, FileInv
  <2>3. ListOk(f)'
    BY <1>2, <1>5, <2>1 DEF ListOk
  <2>4. PostedOk(f)'
    BY <1>2, <1>4, <1>5, <2>1 DEF PostedOk
  <2>5. DeliveredOk(f)'
    BY <1>2, <1>4, <1>5, <2>1 DEF DeliveredOk
  <2>6. DequeuedOk(f)'
    BY <1>2, <1>5, <2>1 DEF DequeuedOk
  <2> QED
    BY <2>3, <2>4, <2>5, <2>6
<1> QED
  BY <1>10, <1>11, <1>12, <1>13, <1>14, <1>15, <1>16, <1>17, <1>18 DEF RxInv, SlotInv

\* CurrentRxPos moves on, and at the end of a slot its flag is cleared.
LEMMA TriggerAdvanceKept == ASSUME RxInv, TriggerAdvance PROVE RxInv'
<1>1. /\ TypeOK /\ OnlyTrigger /\ ControlInv /\ RecycleInv /\ CountInv /\ FoundInv /\ WindowInv
      /\ PendingInv /\ MemoryInv /\ Trigger \in Threads
  BY DEF RxInv, SlotInv, Threads
<1>2. /\ UNCHANGED <<slotQueue, recycle, txPos, memory, data, vchi, posted, delivered, dequeued>>
      /\ UNCHANGED <<refCount, fileVars, seen, total>>
  BY DEF TriggerAdvance, sharedVars, slotVars, fileVars, clientVars
<1>3. /\ Tpc = "advance" /\ Listed /\ Tpc \notin ReleasePc /\ current # NoSlot /\ rxPos < txPos
      /\ Trel = NoSlot /\ Tret = "none" /\ rxPos' = rxPos + 1
  BY <1>1 DEF TriggerAdvance, Tpc, Listed, ReleasePc, ControlInv
<1>4. /\ Pos' = Pos /\ Owner' = Owner /\ Kind' = Kind /\ Pending' = Pending
      /\ \A s : Refs(s)' = Refs(s)
      /\ \A i : QSlot(i)' = QSlot(i)
      /\ \A p : Place(p)' = Place(p)
  <2>1. Pos' = Pos /\ Owner' = Owner /\ Kind' = Kind /\ Pending' = Pending
    BY <1>2 DEF Pos, Owner, Kind, Pending, InData, InVchi, At
  <2> QED
    BY <1>2, <2>1 DEF Refs, QSlot, Place
<1>5. /\ rxPos \in Nat /\ txPos \in Nat /\ recycle \in Nat /\ Cur \in Nat
      /\ Cur \in Window /\ current = QSlot(Cur) /\ current \in Slots /\ Cur < recycle
      /\ Queued = (Cur + 1) .. (recycle - 1) /\ MsgsPerSlot \in Nat \ {0} /\ NoSlot \notin Slots
  <2>1. /\ rxPos \in Nat /\ txPos \in Nat /\ recycle \in Nat /\ Cur \in Nat
        /\ MsgsPerSlot \in Nat \ {0} /\ NoSlot \notin Slots
    BY <1>1, Basics
  <2>2. Cur \in Window /\ current = QSlot(Cur) /\ current \in Slots
    BY <1>1, <1>3 DEF WindowInv
  <2>3. Queued = (Cur + 1) .. (recycle - 1)
    BY <1>3 DEF Queued, Cur
  <2> QED
    BY <2>1, <2>2, <2>3 DEF Window
<1>6. file' = [file EXCEPT ![Trigger] = None]
  BY DEF TriggerAdvance
<1>7. file' \in [Threads -> Files \cup {None}]
  BY <1>1, <1>6 DEF TypeOK
<1>8. Reached = rxPos + 1
  BY <1>3 DEF Reached
<1>9. \A e \in Pending : e.index = Pos[e] % MsgsPerSlot /\ Pos[e] \in Nat /\ Pos[e] < rxPos + 1
  BY <1>1, <1>8 DEF PendingInv
<1>10. MemoryInv'
  <2>1. \A p \in (rxPos + 1) .. (txPos - 1) : p \in rxPos .. (txPos - 1)
    BY <1>5
  <2> QED
    BY <1>1, <1>2, <1>3, <1>4, <2>1 DEF MemoryInv
<1>11. Reached' = Reached => FileInv'
  <2> SUFFICES ASSUME Reached' = Reached, NEW f \in Files
               PROVE  ListOk(f)' /\ PostedOk(f)' /\ DeliveredOk(f)' /\ DequeuedOk(f)'
    BY DEF FileInv
  <2>1. ListOk(f) /\ PostedOk(f) /\ DeliveredOk(f) /\ DequeuedOk(f)
    BY DEF RxInv, FileInv
  <2>3. ListOk(f)'
    BY <1>2, <1>4, <2>1 DEF ListOk
  <2>4. PostedOk(f)'
    BY <1>2, <1>4, <2>1 DEF PostedOk
  <2>5. DeliveredOk(f)'
    BY <1>2, <1>4, <2>1 DEF DeliveredOk
  <2>6. DequeuedOk(f)'
    BY <1>2, <1>4, <2>1 DEF DequeuedOk
  <2> QED
    BY <2>3, <2>4, <2>5, <2>6
<1>12. \A p \in 0 .. (txPos' - 1) : p \div MsgsPerSlot < recycle'
  BY <1>1, <1>2 DEF WindowInv
<1>13. CASE (rxPos + 1) % MsgsPerSlot # 0 /\ Goto(Trigger, "idle")
            /\ UNCHANGED <<current, inUse, rel, ret>>
  <2>1. Tpc' = "idle" /\ OnlyTrigger' /\ pc' \in [Threads -> Pc]
    BY <1>1, <1>13, GotoIs DEF Pc
  <2>2. Trel' = NoSlot /\ Tret' = "none" /\ Tpc' \notin ReleasePc /\ ~Listed' /\ Reached' = Reached
    BY <1>3, <1>8, <1>13, <2>1 DEF Trel, Tret, ReleasePc, Listed, Reached
  <2>3. Cur' = Cur
    BY <1>3, <1>5, <1>13, DivNext DEF Cur
  <2>4. Window' = Window /\ Queued' = Queued
    <3>1. Window' = Window
      BY <1>2, <2>3 DEF Window
    <3>2. Queued' = (Cur' + 1) .. (recycle' - 1)
      BY <1>3, <1>13 DEF Queued, Cur
    <3> QED
      BY <1>2, <1>5, <2>3, <3>1, <3>2
  <2>5. TypeOK'
    BY <1>1, <1>2, <1>3, <1>5, <1>7, <1>13, <2>1 DEF TypeOK, fileVars
  <2>6. ControlInv'
    BY <1>1, <1>3, <1>13, <2>1, <2>2 DEF ControlInv
  <2>7. WindowInv'
    BY <1>1, <1>2, <1>3, <1>4, <1>5, <1>12, <1>13, <2>2, <2>3, <2>4 DEF WindowInv
  <2>8. RecycleInv' /\ CountInv'
    BY <1>1, <1>2, <1>3, <1>4, <2>2 DEF RecycleInv, CountInv, ReleasePc
  <2>9. FoundInv'
    BY <1>1, <1>2, <1>3, <1>4, <1>5, <1>13, <2>4 DEF FoundInv
  <2>10. PendingInv'
    BY <1>1, <1>4, <1>13, <2>2, <2>3, <2>4 DEF PendingInv
  <2> QED
    BY <1>10, <1>11, <2>1, <2>2, <2>5, <2>6, <2>7, <2>8, <2>9, <2>10 DEF RxInv, SlotInv
<1>14. CASE /\ (rxPos + 1) % MsgsPerSlot = 0 /\ Goto(Trigger, "read")
            /\ inUse' = [inUse EXCEPT ![current] = FALSE]
            /\ rel' = [rel EXCEPT ![Trigger] = current]
            /\ current' = NoSlot
            /\ ret' = [ret EXCEPT ![Trigger] = "idle"]
  <2>1. Tpc' = "read" /\ OnlyTrigger' /\ pc' \in [Threads -> Pc]
    BY <1>1, <1>14, GotoIs DEF Pc, ReleasePc
  <2>2. Trel' = current /\ Tret' = "idle"
    BY <1>1, <1>14 DEF TypeOK, Trel, Tret
  <2>3. Tpc' \in ReleasePc /\ ~Listed' /\ Tpc' \notin {"lock", "add"} /\ Reached' = Reached
    <3>1. Tpc' \in ReleasePc /\ ~Listed' /\ Tpc' \notin {"lock", "add"}
      BY <2>1, <2>2 DEF ReleasePc, Listed
    <3> QED
      BY <1>3, <1>8, <3>1 DEF Reached
  <2>4. Cur' = Cur + 1
    BY <1>3, <1>5, <1>14, DivNext DEF Cur
  <2>5. Window' = Queued /\ Queued' = Queued /\ Queued \subseteq Window
    <3>1. Window' = Queued /\ Queued \subseteq Window
      BY <1>2, <1>5, <2>4 DEF Window
    <3>2. Queued' = Cur' .. (recycle' - 1)
      BY <1>14, <2>4, <1>5 DEF Queued, Cur
    <3> QED
      BY <3>1, <3>2 DEF Window
  <2>6. \A i \in Queued : QSlot(i) # current
    <3>1. \A i \in Queued : i # Cur /\ i \in Window
      BY <1>5, <2>5
    <3> QED
      BY <1>1, <1>5, <3>1 DEF WindowInv
  <2>7. TypeOK'
    <3>1. inUse' \in [Slots -> BOOLEAN] /\ rel' \in [Threads -> Slots \cup {NoSlot}]
      BY <1>1, <1>5, <1>14 DEF TypeOK
    <3>2. ret' \in [Threads -> {"none", "remove", "vprocess", "idle"}]
      BY <1>1, <1>14 DEF TypeOK
    <3>3. rxPos' \in Nat /\ current' \in Slots \cup {NoSlot}
      BY <1>3, <1>5, <1>14
    <3> QED
      BY <1>1, <1>2, <1>7, <2>1, <3>1, <3>2, <3>3 DEF TypeOK, fileVars
  <2>8. ControlInv'
    <3>1. \A s \in Slots : inUse'[s] <=> s = current'
      <4>1. inUse \in [Slots -> BOOLEAN] /\ \A s \in Slots : inUse[s] <=> s = current
        BY <1>1 DEF TypeOK, ControlInv
      <4> QED
        BY <1>5, <1>14, <4>1
    <3> QED
      BY <1>5, <1>14, <2>2, <2>3, <2>1, <3>1 DEF ControlInv
  <2>9. WindowInv'
    <3>1. rxPos' <= txPos' /\ Cur' <= recycle'
      BY <1>2, <1>3, <1>5, <2>4
    <3>2. /\ \A i \in Window' : QSlot(i)' \in Slots
          /\ \A i, j \in Window' : QSlot(i)' = QSlot(j)' => i = j
      BY <1>1, <1>4, <2>5 DEF WindowInv
    <3>3. Trel' # NoSlot => \A i \in Queued' : QSlot(i)' # Trel'
      BY <1>4, <2>2, <2>5, <2>6
    <3> QED
      BY <1>12, <1>14, <3>1, <3>2, <3>3 DEF WindowInv
  <2>10. RecycleInv'
    BY <2>1 DEF RecycleInv
  <2>11. CountInv'
    BY <1>1, <1>2, <1>3, <1>4, <2>1 DEF CountInv
  <2>12. FoundInv'
    <3> SUFFICES ASSUME NEW s \in Slots
                 PROVE  (\E i \in Queued' : QSlot(i)' = s) \/ refCount[s] # 0 \/ Trel' = s
      BY <1>2, <2>1 DEF FoundInv
    <3>1. s = current \/ (\E i \in Queued : QSlot(i) = s) \/ refCount[s] # 0
      BY <1>1, <1>5, <1>3 DEF FoundInv
    <3> QED
      BY <1>4, <2>2, <2>5, <3>1
  <2>13. PendingInv'
    <3>1. \A e \in Pending : e.slot # current'
      BY <1>5, <1>14 DEF Pending, Entries
    <3> QED
      BY <1>1, <1>4, <1>9, <2>3, <2>5, <3>1 DEF PendingInv
  <2> QED
    BY <1>10, <1>11, <2>1, <2>3, <2>7, <2>8, <2>9, <2>10, <2>11, <2>12, <2>13 DEF RxInv, SlotInv
<1> QED
  BY <1>3, <1>13, <1>14 DEF TriggerAdvance

-----------------------------------------------------------------------------
(* The lists. *)

\* What the sequences of a file hold.
LEMMA FileTypes ==
  ASSUME TypeOK, NEW f \in Files
  PROVE  /\ data[f] \in Seq(Entries) /\ vchi[f] \in Seq(Entries) /\ posted[f] \in Seq(Nat)
         /\ delivered[f] \in Seq(Nat \cup {-1}) /\ dequeued[f] \in Seq(Nat \cup {-1})
         /\ \A e \in Entries : /\ Pos[e] \in Nat \cup {-1} /\ Owner[e] \in Files \cup {None}
                               /\ Pos[e] = At(e).pos /\ Kind[e] = At(e).kind
                               /\ Owner[e] = At(e).file
<1>1. /\ data[f] \in Seq(Entries) /\ vchi[f] \in Seq(Entries) /\ posted[f] \in Seq(Nat)
      /\ delivered[f] \in Seq(Nat \cup {-1}) /\ dequeued[f] \in Seq(Nat \cup {-1})
  BY DEF TypeOK
<1>2. ASSUME NEW e \in Entries PROVE At(e) \in Messages
  BY DEF TypeOK, At, Entries
<1>3. ASSUME NEW e \in Entries
      PROVE  /\ Pos[e] \in Nat \cup {-1} /\ Owner[e] \in Files \cup {None}
             /\ Pos[e] = At(e).pos /\ Kind[e] = At(e).kind /\ Owner[e] = At(e).file
  BY <1>2 DEF Pos, Owner, Kind, Messages
<1> QED
  BY <1>1, <1>3

\* The first of a list and what is left.
LEMMA TailIs ==
  ASSUME NEW S, NEW s \in Seq(S), s # <<>>
  PROVE  /\ Head(s) = s[1] /\ s[1] \in S /\ 1 \in 1 .. Len(s) /\ Len(s) \in Nat
         /\ Tail(s) \in Seq(S) /\ Len(Tail(s)) = Len(s) - 1
         /\ \A i \in 1 .. Len(Tail(s)) : Tail(s)[i] = s[i + 1] /\ i + 1 \in 1 .. Len(s)
<1>1. Len(s) \in Nat \ {0}
  BY EmptySeq
<1>2. Head(s) = s[1] /\ s[1] \in S
  BY <1>1, ElementOfSeq
<1>3. /\ Tail(s) \in Seq(S) /\ Len(Tail(s)) = Len(s) - 1
      /\ \A i \in 1 .. Len(Tail(s)) : Tail(s)[i] = s[i + 1]
  BY HeadTailProperties
<1> QED
  BY <1>1, <1>2, <1>3

\* A list and one more.
LEMMA AppendIs ==
  ASSUME NEW S, NEW s \in Seq(S), NEW x \in S
  PROVE  /\ Append(s, x) \in Seq(S) /\ Len(Append(s, x)) = Len(s) + 1 /\ Len(s) \in Nat
         /\ \A i \in 1 .. Len(s) + 1 : Append(s, x)[i] = IF i \in 1 .. Len(s) THEN s[i] ELSE x
         /\ \A i \in 1 .. Len(s) : i \in 1 .. Len(s) + 1
         /\ Len(s) + 1 \in 1 .. Len(s) + 1 /\ Len(s) + 1 \notin 1 .. Len(s)
<1>1. Len(s) \in Nat
  OBVIOUS
<1>2. /\ Append(s, x) \in Seq(S) /\ Len(Append(s, x)) = Len(s) + 1
      /\ \A i \in 1 .. Len(s) : Append(s, x)[i] = s[i]
      /\ Append(s, x)[Len(s) + 1] = x
  BY AppendProperties
<1> QED
  BY <1>1, <1>2

\* A message is in a list once, and in one list.
LEMMA ListedOnce ==
  ASSUME TypeOK, FileInv, NEW f \in Files, NEW g \in Files
  PROVE  /\ \A i \in 1 .. Len(data[f]) : \A j \in 1 .. Len(data[g]) :
              data[f][i] = data[g][j] => f = g /\ i = j
         /\ \A i \in 1 .. Len(vchi[f]) : \A j \in 1 .. Len(vchi[g]) :
              vchi[f][i] = vchi[g][j] => f = g /\ i = j
         /\ \A i \in 1 .. Len(vchi[f]) : \A j \in 1 .. Len(data[g]) : vchi[f][i] # data[g][j]
<1>1. ListOk(f) /\ ListOk(g)
  BY DEF FileInv
<1>2. /\ \A i \in 1 .. Len(data[f]) : data[f][i] \in Entries
      /\ \A i \in 1 .. Len(vchi[f]) : vchi[f][i] \in Entries
      /\ \A e \in Entries : Pos[e] \in Int
  BY FileTypes, ElementOfSeq
<1>5. Len(data[f]) \in Nat /\ Len(vchi[f]) \in Nat
  BY FileTypes
<1>3. ASSUME NEW i \in 1 .. Len(data[f]), NEW j \in 1 .. Len(data[g]), data[f][i] = data[g][j]
      PROVE  f = g /\ i = j
  <2>1. f = g
    BY <1>1, <1>3 DEF ListOk
  <2>2. CASE i < j
    BY <1>1, <1>2, <1>3, <2>1, <2>2 DEF ListOk
  <2>3. CASE j < i
    BY <1>1, <1>2, <1>3, <2>1, <2>3 DEF ListOk
  <2> QED
    BY <1>5, <2>1, <2>2, <2>3
<1>4. ASSUME NEW i \in 1 .. Len(vchi[f]), NEW j \in 1 .. Len(vchi[g]), vchi[f][i] = vchi[g][j]
      PROVE  f = g /\ i = j
  <2>1. f = g
    BY <1>1, <1>4 DEF ListOk
  <2>2. CASE i < j
    BY <1>1, <1>2, <1>4, <2>1, <2>2 DEF ListOk
  <2>3. CASE j < i
    BY <1>1, <1>2, <1>4, <2>1, <2>3 DEF ListOk
  <2> QED
    BY <1>5, <2>1, <2>2, <2>3
<1>6. ASSUME NEW i \in 1 .. Len(vchi[f]), NEW j \in 1 .. Len(data[g]), vchi[f][i] = data[g][j]
      PROVE  FALSE
  <2>1. f = g
    BY <1>1, <1>6 DEF ListOk
  <2> QED
    BY <1>1, <1>2, <1>6, <2>1 DEF ListOk
<1> QED
  BY <1>3, <1>4, <1>6

\* What is in a list is pending.
LEMMA ListsPend ==
  ASSUME TypeOK, NEW f \in Files
  PROVE  /\ \A i \in 1 .. Len(data[f]) : data[f][i] \in Pending
         /\ \A i \in 1 .. Len(vchi[f]) : vchi[f][i] \in Pending
BY FileTypes, ElementOfSeq DEF Pending, InData, InVchi

\* One message more in a list of file f.
LEMMA PendingAdded ==
  ASSUME TypeOK, NEW f \in Files, NEW e \in Entries,
         data' = [data EXCEPT ![f] = Append(@, e)], vchi' = vchi
  PROVE  Pending' = Pending \cup {e}
<1>1. data \in [Files -> Seq(Entries)] /\ data[f] \in Seq(Entries)
  BY DEF TypeOK
<1>2. /\ Len(data'[f]) = Len(data[f]) + 1 /\ Len(data[f]) \in Nat
      /\ \A i \in 1 .. Len(data[f]) + 1 :
           data'[f][i] = IF i \in 1 .. Len(data[f]) THEN data[f][i] ELSE e
      /\ \A i \in 1 .. Len(data[f]) : i \in 1 .. Len(data[f]) + 1
      /\ Len(data[f]) + 1 \in 1 .. Len(data[f]) + 1 /\ Len(data[f]) + 1 \notin 1 .. Len(data[f])
      /\ \A g \in Files : g # f => data'[g] = data[g]
  BY <1>1, AppendIs
<1>3. ASSUME NEW x \in Entries PROVE InData(x)' <=> InData(x) \/ x = e
  <2>1. ASSUME InData(x)' PROVE InData(x) \/ x = e
    BY <1>2, <2>1 DEF InData
  <2>2. ASSUME InData(x) PROVE InData(x)'
    BY <1>2, <2>2 DEF InData
  <2>3. ASSUME x = e PROVE InData(x)'
    BY <1>2, <2>3 DEF InData
  <2> QED
    BY <2>1, <2>2, <2>3
<1>4. \A x : InVchi(x)' <=> InVchi(x)
  BY DEF InVchi
<1> QED
  BY <1>3, <1>4 DEF Pending

\* The first message leaves PendingDataMsgList of file f, to the other list if it is tracked.
LEMMA DataRemoved ==
  ASSUME TypeOK, FileInv, NEW f \in Files, data[f] # <<>>, NEW tracked \in BOOLEAN,
         data' = [data EXCEPT ![f] = Tail(@)],
         vchi' = IF tracked THEN [vchi EXCEPT ![f] = Append(@, data[f][1])] ELSE vchi
  PROVE  /\ Pending' = IF tracked THEN Pending ELSE Pending \ {data[f][1]}
         /\ data[f][1] \in Pending
<1> DEFINE e == data[f][1]
<1>1. /\ data \in [Files -> Seq(Entries)] /\ data[f] \in Seq(Entries)
      /\ vchi \in [Files -> Seq(Entries)] /\ vchi[f] \in Seq(Entries)
  BY DEF TypeOK
<1>2. /\ e \in Entries /\ 1 \in 1 .. Len(data[f]) /\ Len(data[f]) \in Nat
      /\ Len(data'[f]) = Len(data[f]) - 1
      /\ \A i \in 1 .. Len(data'[f]) : data'[f][i] = data[f][i + 1] /\ i + 1 \in 1 .. Len(data[f])
      /\ \A g \in Files : g # f => data'[g] = data[g]
  BY <1>1, TailIs
<1>3. e \in Pending
  BY <1>2, ListsPend
<1>4. ASSUME NEW x \in Entries PROVE InData(x)' <=> InData(x) /\ x # e
  <2>1. ASSUME InData(x)' PROVE InData(x) /\ x # e
    <3>1. PICK g \in Files : \E i \in 1 .. Len(data'[g]) : data'[g][i] = x
      BY <2>1 DEF InData
    <3>2. CASE g = f
      <4>1. PICK i \in 1 .. Len(data'[f]) : data'[f][i] = x
        BY <3>1, <3>2
      <4>2. x = data[f][i + 1] /\ i + 1 \in 1 .. Len(data[f]) /\ i + 1 # 1
        BY <1>2, <4>1
      <4> QED
        BY <1>2, <4>2, ListedOnce DEF InData
    <3>3. CASE g # f
      <4>1. PICK i \in 1 .. Len(data[g]) : data[g][i] = x
        BY <1>2, <3>1, <3>3
      <4> QED
        BY <1>2, <3>3, <4>1, ListedOnce DEF InData
    <3> QED
      BY <3>2, <3>3
  <2>2. ASSUME InData(x), x # e PROVE InData(x)'
    <3>1. PICK g \in Files : \E i \in 1 .. Len(data[g]) : data[g][i] = x
      BY <2>2 DEF InData
    <3>2. CASE g = f
      <4>1. PICK i \in 1 .. Len(data[f]) : data[f][i] = x
        BY <3>1, <3>2
      <4>2. i - 1 \in 1 .. Len(data'[f]) /\ (i - 1) + 1 = i
        BY <1>2, <2>2, <4>1
      <4>3. data'[f][i - 1] = x
        BY <1>2, <4>1, <4>2
      <4> QED
        BY <4>2, <4>3 DEF InData
    <3>3. CASE g # f
      BY <1>2, <3>1, <3>3 DEF InData
    <3> QED
      BY <3>2, <3>3
  <2> QED
    BY <2>1, <2>2
<1>5. CASE tracked
  <2>1. /\ Len(vchi'[f]) = Len(vchi[f]) + 1 /\ Len(vchi[f]) \in Nat
        /\ \A i \in 1 .. Len(vchi[f]) + 1 :
             vchi'[f][i] = IF i \in 1 .. Len(vchi[f]) THEN vchi[f][i] ELSE e
        /\ \A i \in 1 .. Len(vchi[f]) : i \in 1 .. Len(vchi[f]) + 1
        /\ Len(vchi[f]) + 1 \in 1 .. Len(vchi[f]) + 1 /\ Len(vchi[f]) + 1 \notin 1 .. Len(vchi[f])
        /\ \A g \in Files : g # f => vchi'[g] = vchi[g]
    BY <1>1, <1>2, <1>5, AppendIs
  <2>2. ASSUME NEW x \in Entries PROVE InVchi(x)' <=> InVchi(x) \/ x = e
    <3>1. ASSUME InVchi(x)' PROVE InVchi(x) \/ x = e
      BY <2>1, <3>1 DEF InVchi
    <3>2. ASSUME InVchi(x) PROVE InVchi(x)'
      BY <2>1, <3>2 DEF InVchi
    <3>3. ASSUME x = e PROVE InVchi(x)'
      BY <2>1, <3>3 DEF InVchi
    <3> QED
      BY <3>1, <3>2, <3>3
  <2>3. InData(e)
    BY <1>2 DEF InData
  <2> QED
    BY <1>3, <1>4, <1>5, <2>2, <2>3 DEF Pending
<1>6. CASE ~tracked
  <2>1. \A x : InVchi(x)' <=> InVchi(x)
    BY <1>6 DEF InVchi
  <2>2. ~InVchi(e)
    BY <1>2, ListedOnce DEF InVchi
  <2> QED
    BY <1>3, <1>4, <1>6, <2>1, <2>2 DEF Pending
<1> QED
  BY <1>3, <1>5, <1>6

\* The first message leaves PendingVchiMsgList of file f.
LEMMA VchiRemoved ==
  ASSUME TypeOK, FileInv, NEW f \in Files, vchi[f] # <<>>,
         vchi' = [vchi EXCEPT ![f] = Tail(@)], data' = data
  PROVE  Pending' = Pending \ {vchi[f][1]} /\ vchi[f][1] \in Pending
<1> DEFINE e == vchi[f][1]
<1>1. vchi \in [Files -> Seq(Entries)] /\ vchi[f] \in Seq(Entries)
  BY DEF TypeOK
<1>2. /\ e \in Entries /\ 1 \in 1 .. Len(vchi[f]) /\ Len(vchi[f]) \in Nat
      /\ Len(vchi'[f]) = Len(vchi[f]) - 1
      /\ \A i \in 1 .. Len(vchi'[f]) : vchi'[f][i] = vchi[f][i + 1] /\ i + 1 \in 1 .. Len(vchi[f])
      /\ \A g \in Files : g # f => vchi'[g] = vchi[g]
  BY <1>1, TailIs
<1>3. e \in Pending
  BY <1>2, ListsPend
<1>4. ASSUME NEW x \in Entries PROVE InVchi(x)' <=> InVchi(x) /\ x # e
  <2>1. ASSUME InVchi(x)' PROVE InVchi(x) /\ x # e
    <3>1. PICK g \in Files : \E i \in 1 .. Len(vchi'[g]) : vchi'[g][i] = x
      BY <2>1 DEF InVchi
    <3>2. CASE g = f
      <4>1. PICK i \in 1 .. Len(vchi'[f]) : vchi'[f][i] = x
        BY <3>1, <3>2
      <4>2. x = vchi[f][i + 1] /\ i + 1 \in 1 .. Len(vchi[f]) /\ i + 1 # 1
        BY <1>2, <4>1
      <4> QED
        BY <1>2, <4>2, ListedOnce DEF InVchi
    <3>3. CASE g # f
      <4>1. PICK i \in 1 .. Len(vchi[g]) : vchi[g][i] = x
        BY <1>2, <3>1, <3>3
      <4> QED
        BY <1>2, <3>3, <4>1, ListedOnce DEF InVchi
    <3> QED
      BY <3>2, <3>3
  <2>2. ASSUME InVchi(x), x # e PROVE InVchi(x)'
    <3>1. PICK g \in Files : \E i \in 1 .. Len(vchi[g]) : vchi[g][i] = x
      BY <2>2 DEF InVchi
    <3>2. CASE g = f
      <4>1. PICK i \in 1 .. Len(vchi[f]) : vchi[f][i] = x
        BY <3>1, <3>2
      <4>2. i - 1 \in 1 .. Len(vchi'[f]) /\ (i - 1) + 1 = i
        BY <1>2, <2>2, <4>1
      <4>3. vchi'[f][i - 1] = x
        BY <1>2, <4>1, <4>2
      <4> QED
        BY <4>2, <4>3 DEF InVchi
    <3>3. CASE g # f
      BY <1>2, <3>1, <3>3 DEF InVchi
    <3> QED
      BY <3>2, <3>3
  <2> QED
    BY <2>1, <2>2
<1>5. \A x : InData(x)' <=> InData(x)
  BY DEF InData
<1>6. ~InData(e)
  BY <1>2, ListedOnce DEF InData
<1> QED
  BY <1>3, <1>4, <1>5, <1>6 DEF Pending

\* How many messages of a slot are pending when one is added or removed.
LEMMA RefsAdded ==
  ASSUME NEW e \in Entries, e \notin Pending, Pending' = Pending \cup {e}, NEW s \in Slots
  PROVE  Cardinality(Refs(s)') = Cardinality(Refs(s)) + (IF s = e.slot THEN 1 ELSE 0)
<1>1. e = [slot |-> e.slot, index |-> e.index] /\ e.index \in Indexes
  BY DEF Entries
<1>2. CASE s = e.slot
  <2>1. Refs(s)' = Refs(s) \cup {e.index} /\ e.index \notin Refs(s)
    BY <1>1, <1>2 DEF Refs
  <2> QED
    BY <1>2, <2>1, RefsFinite, FS_AddElement
<1>3. CASE s # e.slot
  <2>1. Refs(s)' = Refs(s)
    BY <1>1, <1>3 DEF Refs
  <2> QED
    BY <1>3, <2>1, RefsFinite
<1> QED
  BY <1>2, <1>3

\* The same when one is removed.
LEMMA RefsRemoved ==
  ASSUME NEW e \in Entries, e \in Pending, Pending' = Pending \ {e}, NEW s \in Slots
  PROVE  Cardinality(Refs(s)') = Cardinality(Refs(s)) - (IF s = e.slot THEN 1 ELSE 0)
<1>1. e = [slot |-> e.slot, index |-> e.index] /\ e.index \in Indexes
  BY DEF Entries
<1>2. CASE s = e.slot
  <2>1. Refs(s)' = Refs(s) \ {e.index} /\ e.index \in Refs(s)
    BY <1>1, <1>2 DEF Refs
  <2> QED
    BY <1>2, <2>1, RefsFinite, FS_RemoveElement, ZenonT(60)
<1>3. CASE s # e.slot
  <2>1. Refs(s)' = Refs(s)
    BY <1>1, <1>3 DEF Refs
  <2> QED
    BY <1>3, <2>1, RefsFinite
<1> QED
  BY <1>2, <1>3

-----------------------------------------------------------------------------
(* Messages come and go. *)

\* VchiqAddPendingMsg puts the message in the list and counts it.
LEMMA AddPendingMsgKept == ASSUME RxInv, AddPendingMsg PROVE RxInv'
<1> DEFINE e == Place(rxPos)
           f == Tfile
<1>1. /\ TypeOK /\ OnlyTrigger /\ ControlInv /\ RecycleInv /\ CountInv /\ FoundInv /\ WindowInv
      /\ PendingInv /\ MemoryInv /\ FileInv /\ Trigger \in Threads
  BY DEF RxInv, SlotInv, Threads
<1>2. /\ UNCHANGED <<slotQueue, recycle, txPos, memory, rxPos, current, vchi, posted, delivered,
                     dequeued>>
      /\ UNCHANGED <<inUse, dataLock, vchiLock, requests, dequeues, file, rel, seen, ret, total>>
  BY DEF AddPendingMsg, sharedVars, clientVars
<1>3. /\ Tpc = "add" /\ ~Listed /\ Tpc \notin ReleasePc /\ current # NoSlot /\ rxPos < txPos
      /\ Trel = NoSlot /\ Tret = "none" /\ f \in Files /\ Owner[e] = f
  BY <1>1 DEF AddPendingMsg, Tpc, Listed, ReleasePc, ControlInv
<1>4. /\ RxHeader = e /\ e \in Entries /\ rxPos \in rxPos .. (txPos - 1)
      /\ rxPos \in Nat /\ txPos \in Nat /\ e.slot = current /\ e.index = rxPos % MsgsPerSlot
  BY <1>1, <1>3, HeaderIs, Basics DEF Place, RxHeader
<1>5. data' = [data EXCEPT ![f] = Append(@, e)]
  BY <1>4 DEF AddPendingMsg, Tfile
<1>6. refCount' = [refCount EXCEPT ![current] = @ + 1] /\ Goto(Trigger, "process")
  BY DEF AddPendingMsg
<1>7. Tpc' = "process" /\ OnlyTrigger' /\ pc' \in [Threads -> Pc]
  BY <1>1, <1>6, GotoIs DEF Pc
<1>8. /\ Trel' = NoSlot /\ Tret' = "none" /\ Tfile' = f /\ Tpc' \notin ReleasePc /\ Listed'
      /\ Tpc' \notin {"lock", "add"}
  BY <1>2, <1>3, <1>7 DEF Trel, Tret, Tfile, ReleasePc, Listed
<1>9. Reached = rxPos /\ Reached' = rxPos + 1
  BY <1>2, <1>3, <1>4, <1>8 DEF Reached
<1>10. /\ Cur' = Cur /\ Window' = Window /\ Queued' = Queued /\ Pos' = Pos /\ Owner' = Owner
       /\ Kind' = Kind
       /\ \A i : QSlot(i)' = QSlot(i)
       /\ \A p : Place(p)' = Place(p)
  <2>1. /\ Cur' = Cur /\ Window' = Window /\ Queued' = Queued /\ Pos' = Pos /\ Owner' = Owner
        /\ Kind' = Kind
    BY <1>2 DEF Cur, Window, Queued, Pos, Owner, Kind, At
  <2> QED
    BY <1>2, <2>1 DEF QSlot, Place
<1>11. Pos[e] = rxPos /\ e \notin Pending
  <2>1. Pos[e] = rxPos
    BY <1>1, <1>4 DEF MemoryInv
  <2> QED
    BY <1>1, <1>4, <1>9, <2>1 DEF PendingInv
<1>12. Pending' = Pending \cup {e}
  BY <1>1, <1>2, <1>3, <1>4, <1>5, PendingAdded
<1>13. /\ data[f] \in Seq(Entries) /\ data'[f] = Append(data[f], e)
       /\ data' \in [Files -> Seq(Entries)]
       /\ Len(data'[f]) = Len(data[f]) + 1 /\ Len(data[f]) \in Nat
       /\ \A i \in 1 .. Len(data[f]) + 1 :
            data'[f][i] = IF i \in 1 .. Len(data[f]) THEN data[f][i] ELSE e
       /\ \A i \in 1 .. Len(data[f]) : i \in 1 .. Len(data[f]) + 1
       /\ Len(data[f]) + 1 \in 1 .. Len(data[f]) + 1 /\ Len(data[f]) + 1 \notin 1 .. Len(data[f])
       /\ \A g \in Files : g # f => data'[g] = data[g]
  <2>1. data \in [Files -> Seq(Entries)] /\ data[f] \in Seq(Entries)
    BY <1>1, <1>3 DEF TypeOK
  <2>2. Append(data[f], e) \in Seq(Entries)
    BY <1>4, <2>1, AppendIs
  <2>3. /\ data'[f] = Append(data[f], e) /\ data' \in [Files -> Seq(Entries)]
        /\ \A g \in Files : g # f => data'[g] = data[g]
    BY <1>3, <1>5, <2>1, <2>2
  <2> QED
    BY <1>4, <2>1, <2>3, AppendIs
<1>14. TypeOK'
  <2>1. refCount' \in [Slots -> Int]
    <3>1. refCount \in [Slots -> Int] /\ current \in Slots
      BY <1>1, <1>3 DEF TypeOK
    <3> QED
      BY <1>6, <3>1
  <2> QED
    BY <1>1, <1>2, <1>7, <1>13, <2>1 DEF TypeOK
<1>15. ControlInv'
  BY <1>1, <1>2, <1>3, <1>8 DEF ControlInv
<1>16. WindowInv'
  BY <1>1, <1>2, <1>8, <1>10 DEF WindowInv
<1>17. RecycleInv'
  BY <1>7 DEF RecycleInv
<1>18. \A s \in Slots : refCount'[s] = refCount[s] + (IF s = current THEN 1 ELSE 0)
  <2>1. refCount \in [Slots -> Int]
    BY <1>1 DEF TypeOK
  <2> QED
    BY <1>6, <2>1
<1>19. CountInv'
  <2> SUFFICES ASSUME NEW s \in Slots
               PROVE  refCount'[s] = Cardinality(Refs(s)') /\ Cardinality(Refs(s)') \in Int
    BY <1>7 DEF CountInv
  <2>1. refCount[s] = Cardinality(Refs(s))
    BY <1>1, <1>3, RefsFinite DEF CountInv
  <2>2. Cardinality(Refs(s)') = Cardinality(Refs(s)) + (IF s = current THEN 1 ELSE 0)
    BY <1>4, <1>11, <1>12, RefsAdded
  <2> QED
    BY <1>18, <2>1, <2>2, RefsFinite
<1>20. FoundInv'
  <2> SUFFICES ASSUME NEW s \in Slots
               PROVE  s = current \/ (\E i \in Queued : QSlot(i) = s) \/ refCount'[s] # 0
    BY <1>2, <1>10 DEF FoundInv
  <2>1. s = current \/ (\E i \in Queued : QSlot(i) = s) \/ refCount[s] # 0
    BY <1>1, <1>3 DEF FoundInv
  <2>2. s # current => refCount'[s] = refCount[s]
    BY <1>1, <1>18 DEF TypeOK
  <2> QED
    BY <2>1, <2>2
<1>21. PendingInv'
  <2>1. ASSUME NEW i \in Queued PROVE QSlot(i) # current
    <3>1. Cur \in Window /\ current = QSlot(Cur) /\ Cur \in Nat
      BY <1>1, <1>3, Basics DEF WindowInv
    <3>2. i \in Window /\ i # Cur
      BY <1>3, <3>1 DEF Queued, Window, Cur
    <3> QED
      BY <1>1, <3>1, <3>2 DEF WindowInv
  <2>2. Pos[e] \div MsgsPerSlot = Cur
    BY <1>11 DEF Cur
  <2> QED
    BY <1>1, <1>2, <1>4, <1>9, <1>10, <1>11, <1>12, <2>1, <2>2 DEF PendingInv
<1>22. MemoryInv'
  BY <1>1, <1>2, <1>10 DEF MemoryInv
<1>23. FileInv'
  <2> SUFFICES ASSUME NEW g \in Files
               PROVE  ListOk(g)' /\ PostedOk(g)' /\ DeliveredOk(g)' /\ DequeuedOk(g)'
    BY DEF FileInv
  <2>1. ListOk(g) /\ PostedOk(g) /\ DeliveredOk(g) /\ DequeuedOk(g)
    BY <1>1 DEF FileInv
  <2>2. \A i \in 1 .. Len(data[g]) : Pos[data[g][i]] < rxPos /\ Pos[data[g][i]] \in Nat
    BY <1>1, <1>9, ListsPend DEF PendingInv
  <2>3. \A i \in 1 .. Len(vchi[g]) : Pos[vchi[g][i]] < rxPos
    BY <1>1, <1>9, ListsPend DEF PendingInv
  <2>4. ListOk(g)'
    <3>1. CASE g = f
      <4>1. \A i \in 1 .. Len(data'[f]) : Owner[data'[f][i]] = f
        BY <1>3, <1>13, <2>1, <3>1 DEF ListOk
      <4>2. \A i, j \in 1 .. Len(data'[f]) : i < j => Pos[data'[f][i]] < Pos[data'[f][j]]
        <5> SUFFICES ASSUME NEW i \in 1 .. Len(data'[f]), NEW j \in 1 .. Len(data'[f]), i < j
                     PROVE  Pos[data'[f][i]] < Pos[data'[f][j]]
          OBVIOUS
        <5>1. i \in 1 .. Len(data[f]) /\ data'[f][i] = data[f][i]
          BY <1>13
        <5>2. CASE j \in 1 .. Len(data[f])
          BY <1>13, <2>1, <3>1, <5>1, <5>2 DEF ListOk
        <5>3. CASE j \notin 1 .. Len(data[f])
          BY <1>11, <1>13, <2>2, <3>1, <5>1, <5>3
        <5> QED
          BY <5>2, <5>3
      <4>3. \A i \in 1 .. Len(vchi[f]) : \A j \in 1 .. Len(data'[f]) :
              Pos[vchi[f][i]] < Pos[data'[f][j]]
        BY <1>11, <1>13, <2>1, <2>3, <3>1 DEF ListOk
      <4> QED
        BY <1>2, <1>10, <2>1, <3>1, <4>1, <4>2, <4>3 DEF ListOk
    <3>2. CASE g # f
      BY <1>2, <1>10, <1>13, <2>1, <3>2 DEF ListOk
    <3> QED
      BY <3>1, <3>2
  <2>5. PostedOk(g)'
    <3>1. \A p \in Reached' .. (txPos - 1) : p \in Reached .. (txPos - 1)
      BY <1>4, <1>9
    <3> QED
      BY <1>2, <1>10, <2>1, <3>1 DEF PostedOk
  <2>6. /\ posted[g] \in Seq(Nat) /\ delivered[g] \in Seq(Nat \cup {-1})
        /\ Len(delivered[g]) \in Nat /\ Len(posted[g]) \in Nat
    BY <1>1, FileTypes
  <2>7. \A i \in 1 .. Len(delivered[g]) :
          delivered[g][i] = posted[g][i] /\ delivered[g][i] < rxPos /\ delivered[g][i] \in Int
    BY <1>9, <2>1, <2>6 DEF DeliveredOk
  <2>8. Owner[e] = g /\ Kind[e] = "data"
          <=> \E j \in 1 .. Len(posted[g]) : posted[g][j] = rxPos
    BY <1>4, <1>9, <2>1 DEF PostedOk
  <2>9. (\E j \in 1 .. Len(posted[g]) : posted[g][j] = rxPos)
          <=> \E j \in (Len(delivered[g]) + 1) .. Len(posted[g]) : posted[g][j] = rxPos
    <3>1. ASSUME NEW j \in 1 .. Len(posted[g]), posted[g][j] = rxPos
          PROVE  j \notin 1 .. Len(delivered[g])
      BY <1>4, <2>7, <3>1
    <3>2. \A j \in (Len(delivered[g]) + 1) .. Len(posted[g]) : j \in 1 .. Len(posted[g])
      BY <2>6
    <3>3. \A j \in 1 .. Len(posted[g]) : j \notin 1 .. Len(delivered[g])
             => j \in (Len(delivered[g]) + 1) .. Len(posted[g])
      BY <2>6
    <3> QED
      BY <3>1, <3>2, <3>3
  <2>10. DeliveredOk(g)'
    <3>1. \A i \in 1 .. Len(delivered[g]) :
            delivered[g][i] = posted[g][i] /\ delivered[g][i] < Reached'
      BY <1>4, <1>9, <2>7
    <3>2. ASSUME NEW j \in (Len(delivered[g]) + 1) .. Len(posted[g])
          PROVE  posted[g][j] >= Reached' \/ \E i \in 1 .. Len(data'[g]) : Pos[data'[g][i]] = posted[g][j]
      <4>1. posted[g][j] \in Nat /\ j \in 1 .. Len(posted[g])
        BY <2>6
      <4>2. CASE posted[g][j] = rxPos
        <5>1. g = f
          BY <1>3, <2>8, <4>1, <4>2
        <5> QED
          BY <1>11, <1>13, <4>2, <5>1
      <4>3. CASE posted[g][j] > rxPos
        BY <1>4, <1>9, <4>1, <4>3
      <4>4. CASE posted[g][j] < rxPos
        <5>1. PICK i \in 1 .. Len(data[g]) : Pos[data[g][i]] = posted[g][j]
          BY <1>4, <1>9, <2>1, <4>1, <4>4 DEF DeliveredOk
        <5>2. i \in 1 .. Len(data'[g]) /\ data'[g][i] = data[g][i]
          BY <1>13
        <5> QED
          BY <5>1, <5>2
      <4> QED
        BY <1>4, <4>1, <4>2, <4>3, <4>4
    <3>3. ASSUME NEW i \in 1 .. Len(data'[g])
          PROVE  Kind[data'[g][i]] = "data"
                   <=> \E j \in (Len(delivered[g]) + 1) .. Len(posted[g]) :
                         posted[g][j] = Pos[data'[g][i]]
      <4>1. CASE i \in 1 .. Len(data[g])
        <5>1. data'[g][i] = data[g][i]
          BY <1>13, <4>1
        <5> QED
          BY <2>1, <4>1, <5>1 DEF DeliveredOk
      <4>2. CASE i \notin 1 .. Len(data[g])
        BY <1>3, <1>11, <1>13, <2>8, <2>9, <4>2
      <4> QED
        BY <4>1, <4>2
    <3> QED
      BY <1>2, <1>10, <2>1, <3>1, <3>2, <3>3 DEF DeliveredOk
  <2>11. DequeuedOk(g)'
    BY <1>2, <1>10, <2>1 DEF DequeuedOk
  <2> QED
    BY <2>4, <2>5, <2>10, <2>11
<1> QED
  BY <1>7, <1>14, <1>15, <1>16, <1>17, <1>19, <1>20, <1>21, <1>22, <1>23 DEF RxInv, SlotInv

\* VchiqRemovePendingMsg hands the first message to a client and releases or tracks it.
LEMMA RemovePendingMsgKept == ASSUME RxInv, RemovePendingMsg(Trigger) PROVE RxInv'
<1>1. /\ TypeOK /\ OnlyTrigger /\ ControlInv /\ RecycleInv /\ CountInv /\ FoundInv /\ WindowInv
      /\ PendingInv /\ MemoryInv /\ FileInv /\ Trigger \in Threads
  BY DEF RxInv, SlotInv, Threads
<1>2. /\ UNCHANGED <<slotQueue, recycle, txPos, memory, rxPos, current, posted, dequeued>>
      /\ UNCHANGED <<inUse, dataLock, vchiLock, requests, dequeues, file>>
  BY DEF RemovePendingMsg, sharedVars
<1>3. /\ Tpc = "remove" /\ Listed /\ Tpc \notin ReleasePc /\ current # NoSlot /\ rxPos < txPos
      /\ Trel = NoSlot /\ Tret = "none" /\ Tfile \in Files
  BY <1>1 DEF RemovePendingMsg, Tpc, Listed, ReleasePc, ControlInv
<1>28. PICK f \in Files : f = Tfile
  BY <1>3
<1>4. data[f] # <<>> /\ total[Trigger] # MsgBufCount
  BY <1>28 DEF RemovePendingMsg, LoopEnds, Blocked, Tfile
<1>5. /\ data \in [Files -> Seq(Entries)] /\ data[f] \in Seq(Entries)
      /\ vchi \in [Files -> Seq(Entries)] /\ vchi[f] \in Seq(Entries)
      /\ delivered \in [Files -> Seq(Nat \cup {-1})] /\ delivered[f] \in Seq(Nat \cup {-1})
      /\ refCount \in [Slots -> Int]
  BY <1>1 DEF TypeOK
<1>29. PICK e \in Entries : e = data[f][1]
  BY <1>4, <1>5, TailIs
<1>30. PICK returned \in BOOLEAN : returned <=> Kind[e] = "data"
  OBVIOUS
<1>31. PICK tracked \in BOOLEAN : tracked <=> returned /\ f \in VchiFiles
  OBVIOUS
<1>6. /\ Head(data[f]) = e /\ e \in Entries /\ e.slot \in Slots /\ e \in Pending
      /\ Pos[e] = At(e).pos /\ Kind[e] = At(e).kind
  <2>1. Head(data[f]) = e /\ e \in Entries /\ 1 \in 1 .. Len(data[f])
    BY <1>4, <1>5, <1>29, TailIs
  <2> QED
    BY <1>1, <1>29, <2>1, FileTypes, ListsPend DEF Entries
<1>7. /\ data' = [data EXCEPT ![f] = Tail(@)]
      /\ vchi' = IF tracked THEN [vchi EXCEPT ![f] = Append(@, e)] ELSE vchi
      /\ refCount' = IF tracked THEN [refCount EXCEPT ![e.slot] = @ + 1] ELSE refCount
      /\ delivered' = IF returned THEN [delivered EXCEPT ![f] = Append(@, Pos[e])] ELSE delivered
      /\ total' = IF returned THEN [total EXCEPT ![Trigger] = @ + 1] ELSE total
      /\ CallRelease(Trigger, e.slot, "remove")
  BY <1>6, <1>28, <1>30, <1>31 DEF RemovePendingMsg, Tfile
<1>8. /\ Tpc' = "dec" /\ Trel' = e.slot /\ Tret' = "remove" /\ Tfile' = f
      /\ OnlyTrigger' /\ pc' \in [Threads -> Pc] /\ rel' \in [Threads -> Slots \cup {NoSlot}]
      /\ seen' \in [Threads -> Int]
      /\ ret' \in [Threads -> {"none", "remove", "vprocess", "idle"}]
  BY <1>1, <1>2, <1>6, <1>7, <1>28, CallReleaseIs DEF Tfile
<1>9. Tpc' \in ReleasePc /\ Listed' /\ Tpc' \notin {"lock", "add", "advance"} /\ Reached' = Reached
  <2>1. Tpc' \in ReleasePc /\ Listed' /\ Tpc' \notin {"lock", "add", "advance"}
    BY <1>8 DEF ReleasePc, Listed
  <2> QED
    BY <1>2, <1>3, <2>1 DEF Reached
<1>10. /\ Cur' = Cur /\ Window' = Window /\ Queued' = Queued /\ Pos' = Pos /\ Owner' = Owner
       /\ Kind' = Kind
       /\ \A i : QSlot(i)' = QSlot(i)
       /\ \A p : Place(p)' = Place(p)
  <2>1. /\ Cur' = Cur /\ Window' = Window /\ Queued' = Queued /\ Pos' = Pos /\ Owner' = Owner
        /\ Kind' = Kind
    BY <1>2 DEF Cur, Window, Queued, Pos, Owner, Kind, At
  <2> QED
    BY <1>2, <2>1 DEF QSlot, Place
<1>11. Pending' = IF tracked THEN Pending ELSE Pending \ {e}
  BY <1>1, <1>4, <1>7, <1>29, DataRemoved
<1>12. /\ 1 \in 1 .. Len(data[f]) /\ Len(data[f]) \in Nat
       /\ data'[f] \in Seq(Entries) /\ Len(data'[f]) = Len(data[f]) - 1
       /\ \A i \in 1 .. Len(data'[f]) :
            data'[f][i] = data[f][i + 1] /\ i + 1 \in 1 .. Len(data[f]) /\ i + 1 > 1
       /\ data' \in [Files -> Seq(Entries)]
       /\ \A g \in Files : g # f => data'[g] = data[g]
  <2>1. Tail(data[f]) \in Seq(Entries)
    BY <1>4, <1>5, TailIs
  <2>2. /\ data'[f] = Tail(data[f]) /\ data' \in [Files -> Seq(Entries)]
        /\ \A g \in Files : g # f => data'[g] = data[g]
    BY <1>3, <1>5, <1>7, <2>1
  <2>3. /\ 1 \in 1 .. Len(data[f]) /\ Len(data[f]) \in Nat
        /\ Len(data'[f]) = Len(data[f]) - 1
        /\ \A i \in 1 .. Len(data'[f]) :
             data'[f][i] = data[f][i + 1] /\ i + 1 \in 1 .. Len(data[f])
    BY <1>4, <1>5, <2>2, TailIs
  <2> QED
    BY <2>1, <2>2, <2>3
<1>13. /\ vchi' \in [Files -> Seq(Entries)]
       /\ \A g \in Files : g # f => vchi'[g] = vchi[g]
       /\ ~tracked => vchi'[f] = vchi[f]
       /\ tracked => /\ Len(vchi'[f]) = Len(vchi[f]) + 1 /\ Len(vchi[f]) \in Nat
                     /\ \A i \in 1 .. Len(vchi'[f]) :
                          vchi'[f][i] = IF i \in 1 .. Len(vchi[f]) THEN vchi[f][i] ELSE e
  <2>1. Append(vchi[f], e) \in Seq(Entries)
    BY <1>5, <1>6, AppendIs
  <2>2. tracked => vchi'[f] = Append(vchi[f], e)
    BY <1>3, <1>5, <1>7
  <2>3. /\ vchi' \in [Files -> Seq(Entries)]
        /\ \A g \in Files : g # f => vchi'[g] = vchi[g]
        /\ ~tracked => vchi'[f] = vchi[f]
    BY <1>3, <1>5, <1>7, <2>1
  <2>4. tracked => /\ Len(vchi'[f]) = Len(vchi[f]) + 1 /\ Len(vchi[f]) \in Nat
                   /\ \A i \in 1 .. Len(vchi'[f]) :
                        vchi'[f][i] = IF i \in 1 .. Len(vchi[f]) THEN vchi[f][i] ELSE e
    <3>1. PICK a \in Seq(Entries) : a = vchi[f]
      BY <1>5
    <3>2. /\ Len(Append(a, e)) = Len(a) + 1 /\ Len(a) \in Nat
          /\ \A i \in 1 .. Len(a) + 1 : Append(a, e)[i] = IF i \in 1 .. Len(a) THEN a[i] ELSE e
      BY <1>6, AppendIs
    <3> QED
      BY <2>2, <3>1, <3>2
  <2> QED
    BY <2>3, <2>4
<1>14. Pos[e] \in Nat /\ Pos[e] < Reached
  BY <1>1, <1>6 DEF PendingInv
<1>15. /\ delivered' \in [Files -> Seq(Nat \cup {-1})]
       /\ \A g \in Files : g # f => delivered'[g] = delivered[g]
       /\ ~returned => delivered'[f] = delivered[f]
       /\ returned => /\ Len(delivered'[f]) = Len(delivered[f]) + 1
                      /\ \A i \in 1 .. Len(delivered'[f]) :
                           delivered'[f][i] = IF i \in 1 .. Len(delivered[f])
                                              THEN delivered[f][i] ELSE Pos[e]
       /\ Len(delivered[f]) \in Nat
  <2>1. Append(delivered[f], Pos[e]) \in Seq(Nat \cup {-1})
    BY <1>5, <1>14, AppendIs
  <2>2. returned => delivered'[f] = Append(delivered[f], Pos[e])
    BY <1>3, <1>5, <1>7
  <2>3. /\ delivered' \in [Files -> Seq(Nat \cup {-1})]
        /\ \A g \in Files : g # f => delivered'[g] = delivered[g]
        /\ ~returned => delivered'[f] = delivered[f]
    BY <1>3, <1>5, <1>7, <2>1
  <2>4. Len(delivered[f]) \in Nat
    BY <1>5
  <2>5. Pos[e] \in Nat \cup {-1}
    BY <1>14
  <2>6. returned => /\ Len(delivered'[f]) = Len(delivered[f]) + 1
                    /\ \A i \in 1 .. Len(delivered'[f]) :
                         delivered'[f][i] = IF i \in 1 .. Len(delivered[f])
                                            THEN delivered[f][i] ELSE Pos[e]
    <3>1. PICK a \in Seq(Nat \cup {-1}) : a = delivered[f]
      BY <1>5
    <3>2. PICK x \in Nat \cup {-1} : x = Pos[e]
      BY <2>5
    <3>3. /\ Len(Append(a, x)) = Len(a) + 1 /\ Len(a) \in Nat
          /\ \A i \in 1 .. Len(a) + 1 : Append(a, x)[i] = IF i \in 1 .. Len(a) THEN a[i] ELSE x
      BY AppendIs
    <3> QED
      BY <2>2, <3>1, <3>2, <3>3
  <2> QED
    BY <2>3, <2>4, <2>6
<1>16. TypeOK'
  <2>1. refCount' \in [Slots -> Int]
    BY <1>5, <1>6, <1>7
  <2>2. total' \in [Threads -> 0 .. MsgBufCount]
    <3>1. /\ total \in [Threads -> 0 .. MsgBufCount] /\ MsgBufCount \in Nat
          /\ total[Trigger] \in 0 .. MsgBufCount
      BY <1>1, RxAssumption DEF TypeOK
    <3>2. total[Trigger] + 1 \in 0 .. MsgBufCount
      BY <1>4, <3>1
    <3> QED
      BY <1>1, <1>7, <3>1, <3>2
  <2> QED
    BY <1>1, <1>2, <1>8, <1>12, <1>13, <1>15, <2>1, <2>2 DEF TypeOK
<1>17. ControlInv'
  BY <1>1, <1>2, <1>3, <1>6, <1>8, <1>9, Basics DEF ControlInv
<1>18. \A i \in Queued : QSlot(i) # e.slot
  BY <1>1, <1>6 DEF PendingInv
<1>19. WindowInv'
  BY <1>1, <1>2, <1>8, <1>10, <1>18 DEF WindowInv
<1>20. RecycleInv'
  BY <1>8 DEF RecycleInv
<1>21. \A s \in Slots : refCount'[s] = refCount[s] + (IF tracked /\ s = e.slot THEN 1 ELSE 0)
  BY <1>5, <1>6, <1>7
<1>22. \A s \in Slots : refCount[s] = Cardinality(Refs(s)) /\ Cardinality(Refs(s)) \in Nat
  BY <1>1, <1>3, RefsFinite DEF CountInv, ReleasePc
<1>23. CountInv'
  <2> SUFFICES ASSUME NEW s \in Slots
               PROVE  refCount'[s] = Cardinality(Refs(s)') + (IF e.slot = s THEN 1 ELSE 0)
    BY <1>8 DEF CountInv
  <2>1. CASE tracked
    <3>1. Refs(s)' = Refs(s)
      BY <1>11, <2>1 DEF Refs
    <3> QED
      BY <1>21, <1>22, <2>1, <3>1
  <2>2. CASE ~tracked
    <3>1. Cardinality(Refs(s)') = Cardinality(Refs(s)) - (IF s = e.slot THEN 1 ELSE 0)
      BY <1>6, <1>11, <2>2, RefsRemoved
    <3> QED
      BY <1>5, <1>21, <1>22, <2>2, <3>1
  <2> QED
    BY <2>1, <2>2
<1>24. FoundInv'
  <2> SUFFICES ASSUME NEW s \in Slots
               PROVE  s = current \/ (\E i \in Queued : QSlot(i) = s) \/ refCount'[s] # 0
    BY <1>2, <1>10 DEF FoundInv
  <2>1. s = current \/ (\E i \in Queued : QSlot(i) = s) \/ refCount[s] # 0
    BY <1>1, <1>3 DEF FoundInv
  <2> QED
    BY <1>21, <1>22, <2>1
<1>25. PendingInv'
  <2>1. Pending' \subseteq Pending
    BY <1>11
  <2> QED
    BY <1>1, <1>2, <1>9, <1>10, <2>1 DEF PendingInv
<1>26. MemoryInv'
  BY <1>1, <1>2, <1>10 DEF MemoryInv
<1>27. FileInv'
  <2> SUFFICES ASSUME NEW g \in Files
               PROVE  ListOk(g)' /\ PostedOk(g)' /\ DeliveredOk(g)' /\ DequeuedOk(g)'
    BY DEF FileInv
  <2>1. ListOk(g) /\ PostedOk(g) /\ DeliveredOk(g) /\ DequeuedOk(g)
    BY <1>1 DEF FileInv
  <2>2. PostedOk(g)'
    BY <1>2, <1>9, <1>10, <2>1 DEF PostedOk
  <2>3. CASE g # f
    <3>1. ListOk(g)'
      BY <1>10, <1>12, <1>13, <2>1, <2>3 DEF ListOk
    <3>2. DeliveredOk(g)'
      <4>1. data'[g] = data[g] /\ delivered'[g] = delivered[g]
        BY <1>12, <1>15, <2>3
      <4> QED
        BY <1>2, <1>9, <1>10, <2>1, <4>1 DEF DeliveredOk
    <3>3. DequeuedOk(g)'
      BY <1>2, <1>10, <1>13, <1>15, <2>1, <2>3 DEF DequeuedOk
    <3> QED
      BY <2>2, <3>1, <3>2, <3>3
  <2>4. CASE g = f
    <3>1. \A i \in 1 .. Len(data'[f]) : Pos[e] < Pos[data'[f][i]]
      BY <1>12, <1>29, <2>1, <2>4 DEF ListOk
    <3>2. \A i \in 1 .. Len(data[f]) : Pos[data[f][i]] \in Nat
      BY <1>1, <1>3, ListsPend DEF PendingInv
    <3>3. ListOk(f)'
      <4>1. \A i \in 1 .. Len(data'[f]) : Owner[data'[f][i]] = f
        BY <1>12, <1>29, <2>1, <2>4 DEF ListOk
      <4>2. \A i, j \in 1 .. Len(data'[f]) : i < j => Pos[data'[f][i]] < Pos[data'[f][j]]
        <5> SUFFICES ASSUME NEW i \in 1 .. Len(data'[f]), NEW j \in 1 .. Len(data'[f]), i < j
                     PROVE  Pos[data'[f][i]] < Pos[data'[f][j]]
          OBVIOUS
        <5>1. /\ data'[f][i] = data[f][i + 1] /\ data'[f][j] = data[f][j + 1]
              /\ i + 1 \in 1 .. Len(data[f]) /\ j + 1 \in 1 .. Len(data[f]) /\ i + 1 < j + 1
          BY <1>12
        <5> QED
          BY <2>1, <2>4, <5>1 DEF ListOk
      <4>3. CASE tracked
        <5>1. Owner[e] = f /\ \A i \in 1 .. Len(vchi[f]) : Pos[vchi[f][i]] < Pos[e]
          BY <1>12, <1>29, <2>1, <2>4 DEF ListOk
        <5>2. \A i \in 1 .. Len(vchi'[f]) : Owner[vchi'[f][i]] = f
          BY <1>13, <2>1, <2>4, <4>3, <5>1 DEF ListOk
        <5>3. \A i, j \in 1 .. Len(vchi'[f]) : i < j => Pos[vchi'[f][i]] < Pos[vchi'[f][j]]
          <6> SUFFICES ASSUME NEW i \in 1 .. Len(vchi'[f]), NEW j \in 1 .. Len(vchi'[f]), i < j
                       PROVE  Pos[vchi'[f][i]] < Pos[vchi'[f][j]]
            OBVIOUS
          <6>1. i \in 1 .. Len(vchi[f]) /\ vchi'[f][i] = vchi[f][i]
            BY <1>13, <4>3
          <6>2. CASE j \in 1 .. Len(vchi[f])
            BY <1>13, <2>1, <2>4, <4>3, <6>1, <6>2 DEF ListOk
          <6>3. CASE j \notin 1 .. Len(vchi[f])
            BY <1>13, <4>3, <5>1, <6>1, <6>3
          <6> QED
            BY <6>2, <6>3
        <5>4. \A i \in 1 .. Len(vchi'[f]) : \A j \in 1 .. Len(data'[f]) :
                Pos[vchi'[f][i]] < Pos[data'[f][j]]
          <6> SUFFICES ASSUME NEW i \in 1 .. Len(vchi'[f]), NEW j \in 1 .. Len(data'[f])
                       PROVE  Pos[vchi'[f][i]] < Pos[data'[f][j]]
            OBVIOUS
          <6>1. CASE i \in 1 .. Len(vchi[f])
            BY <1>12, <1>13, <2>1, <2>4, <4>3, <6>1, ZenonT(60) DEF ListOk
          <6>2. CASE i \notin 1 .. Len(vchi[f])
            BY <1>13, <3>1, <4>3, <6>2
          <6> QED
            BY <6>1, <6>2
        <5> QED
          BY <1>10, <4>1, <4>2, <5>2, <5>3, <5>4 DEF ListOk
      <4>4. CASE ~tracked
        <5>1. \A i \in 1 .. Len(vchi[f]) : \A j \in 1 .. Len(data'[f]) :
                Pos[vchi[f][i]] < Pos[data'[f][j]]
          BY <1>12, <1>29, <2>1, <2>4 DEF ListOk
        <5> QED
          BY <1>10, <1>13, <2>1, <2>4, <4>1, <4>2, <4>4, <5>1 DEF ListOk
      <4> QED
        BY <4>3, <4>4
    <3>4. posted[f] \in Seq(Nat) /\ Len(posted[f]) \in Nat
      BY <1>1, <1>3, FileTypes
    <3>5. \A j \in 1 .. Len(posted[f]) : posted[f][j] \in Nat
      BY <3>4
    <3>12. PICK n \in Nat : n = Len(delivered[f])
      BY <1>15
    <3>6. /\ n <= Len(posted[f]) /\ n \in Nat
          /\ \A i \in 1 .. n : delivered[f][i] = posted[f][i] /\ delivered[f][i] < Reached
          /\ \A j \in (n + 1) .. Len(posted[f]) :
               \/ posted[f][j] >= Reached
               \/ \E i \in 1 .. Len(data[f]) : Pos[data[f][i]] = posted[f][j]
          /\ \A i \in 1 .. Len(data[f]) :
               Kind[data[f][i]] = "data"
                 <=> \E j \in (n + 1) .. Len(posted[f]) : posted[f][j] = Pos[data[f][i]]
          /\ \A i, j \in 1 .. Len(posted[f]) : i < j => posted[f][i] < posted[f][j]
      BY <2>1, <2>4, <3>12 DEF DeliveredOk, PostedOk
    <3>7. \A j \in (n + 1) .. Len(posted[f]) : j \in 1 .. Len(posted[f])
      BY <3>4, <3>6
    <3>8. \A i \in 1 .. Len(data[f]) : i # 1 => i - 1 \in 1 .. Len(data'[f]) /\ data'[f][i - 1] = data[f][i]
      <4>1. ASSUME NEW i \in 1 .. Len(data[f]), i # 1 PROVE i - 1 \in 1 .. Len(data'[f]) /\ (i - 1) + 1 = i
        BY <1>12, <4>1
      <4> QED
        BY <1>12, <4>1
    <3>9. Reached \in Nat
      BY <1>1, Basics
    <3>10. CASE returned
      <4>1. PICK j0 \in (n + 1) .. Len(posted[f]) : posted[f][j0] = Pos[e]
        BY <1>12, <1>29, <1>30, <3>6, <3>10
      <4>2. n + 1 \in (n + 1) .. Len(posted[f])
        BY <3>4, <3>6, <4>1
      <4>3. posted[f][n + 1] = Pos[e]
        <5> SUFFICES ASSUME j0 # n + 1 PROVE FALSE
          BY <4>1
        <5>1. posted[f][n + 1] < Pos[e] /\ posted[f][n + 1] \in Nat
          BY <3>5, <3>6, <3>7, <4>1, <4>2
        <5>2. PICK i \in 1 .. Len(data[f]) : Pos[data[f][i]] = posted[f][n + 1]
          BY <1>14, <3>6, <3>9, <4>2, <5>1
        <5>3. i # 1
          BY <1>14, <1>29, <5>1, <5>2
        <5>4. Pos[e] < Pos[data[f][i]]
          BY <3>1, <3>8, <5>3
        <5> QED
          BY <1>14, <5>1, <5>2, <5>4
      <4>4. Len(delivered'[f]) = n + 1 /\ n + 1 <= Len(posted[f])
        BY <1>15, <3>4, <3>6, <3>10, <3>12, <4>2
      <4>5. \A i \in 1 .. Len(delivered'[f]) :
              delivered'[f][i] = posted[f][i] /\ delivered'[f][i] < Reached
        <5> SUFFICES ASSUME NEW i \in 1 .. n + 1
                     PROVE  delivered'[f][i] = posted[f][i] /\ delivered'[f][i] < Reached
          BY <4>4
        <5>1. CASE i \in 1 .. n
          BY <1>15, <3>6, <3>10, <3>12, <4>4, <5>1
        <5>2. CASE i \notin 1 .. n
          <6>1. i = n + 1
            BY <3>6, <5>2
          <6> QED
            BY <1>14, <1>15, <3>10, <3>12, <4>3, <4>4, <5>2, <6>1
        <5> QED
          BY <5>1, <5>2
      <4>6. ASSUME NEW j \in (Len(delivered'[f]) + 1) .. Len(posted[f])
            PROVE  /\ j \in (n + 1) .. Len(posted[f]) /\ posted[f][j] > Pos[e]
        <5>1. j \in (n + 1) .. Len(posted[f]) /\ n + 1 < j
          BY <3>4, <3>6, <4>4
        <5> QED
          BY <3>6, <3>7, <4>2, <4>3, <5>1, <3>5, <1>14
      <4>7. ASSUME NEW j \in (Len(delivered'[f]) + 1) .. Len(posted[f])
            PROVE  \/ posted[f][j] >= Reached
                   \/ \E i \in 1 .. Len(data'[f]) : Pos[data'[f][i]] = posted[f][j]
        <5> SUFFICES ASSUME ~(posted[f][j] >= Reached)
                     PROVE  \E i \in 1 .. Len(data'[f]) : Pos[data'[f][i]] = posted[f][j]
          OBVIOUS
        <5>1. PICK i \in 1 .. Len(data[f]) : Pos[data[f][i]] = posted[f][j]
          BY <3>6, <4>6
        <5>2. i # 1
          BY <1>14, <1>29, <3>5, <3>7, <4>6, <5>1
        <5> QED
          BY <3>8, <5>1, <5>2
      <4>8. ASSUME NEW i \in 1 .. Len(data'[f])
            PROVE  Kind[data'[f][i]] = "data"
                     <=> \E j \in (Len(delivered'[f]) + 1) .. Len(posted[f]) :
                           posted[f][j] = Pos[data'[f][i]]
        <5>1. /\ Kind[data'[f][i]] = "data"
                   <=> \E j \in (n + 1) .. Len(posted[f]) : posted[f][j] = Pos[data'[f][i]]
              /\ Pos[e] < Pos[data'[f][i]]
          <6>1. data'[f][i] = data[f][i + 1] /\ i + 1 \in 1 .. Len(data[f])
            BY <1>12
          <6>2. Pos[e] < Pos[data'[f][i]]
            BY <3>1
          <6>3. Kind[data[f][i + 1]] = "data"
                  <=> \E j \in (n + 1) .. Len(posted[f]) : posted[f][j] = Pos[data[f][i + 1]]
            BY <3>6, <6>1
          <6> QED
            BY <6>1, <6>2, <6>3
        <5>2. \A j \in (n + 1) .. Len(posted[f]) :
                j # n + 1 => j \in (Len(delivered'[f]) + 1) .. Len(posted[f])
          BY <3>4, <3>6, <4>4
        <5>3. \A j \in (n + 1) .. Len(posted[f]) : posted[f][j] = Pos[data'[f][i]] => j # n + 1
          BY <1>14, <4>3, <5>1
        <5> QED
          BY <4>6, <5>1, <5>2, <5>3
      <4>9. DeliveredOk(f)'
        BY <1>2, <1>9, <1>10, <4>4, <4>5, <4>7, <4>8 DEF DeliveredOk
      <4>10. DequeuedOk(f)'
        <5>1. dequeued[f] \in Seq(Nat \cup {-1}) /\ Len(dequeued[f]) \in Nat
          BY <1>1, <1>3, FileTypes
        <5>2. /\ f \in VchiFiles => n = Len(dequeued[f]) + Len(vchi[f])
              /\ f \notin VchiFiles => vchi[f] = <<>>
              /\ Len(dequeued[f]) <= n
              /\ \A i \in 1 .. Len(dequeued[f]) : dequeued[f][i] = delivered[f][i]
              /\ \A i \in 1 .. Len(vchi[f]) : delivered[f][Len(dequeued[f]) + i] = Pos[vchi[f][i]]
          BY <2>1, <2>4, <3>12 DEF DequeuedOk
        <5>3. \A i \in 1 .. Len(dequeued[f]) : dequeued[f][i] = delivered'[f][i]
          <6>1. \A i \in 1 .. Len(dequeued[f]) : i \in 1 .. n /\ i \in 1 .. n + 1
            BY <5>1, <5>2, <3>6
          <6> QED
            BY <1>15, <3>10, <3>12, <4>4, <5>2, <6>1
        <5>4. Len(dequeued[f]) <= Len(delivered'[f])
          BY <3>6, <4>4, <5>1, <5>2
        <5>5. CASE tracked
          <6>3. /\ Len(vchi'[f]) = Len(vchi[f]) + 1 /\ Len(vchi[f]) \in Nat
                /\ n = Len(dequeued[f]) + Len(vchi[f])
            BY <1>13, <1>31, <5>2, <5>5
          <6>4. PICK a \in Nat, b \in Nat : a = Len(dequeued[f]) /\ b = Len(vchi[f])
            BY <5>1, <6>3
          <6>5. n \in Nat /\ n = a + b /\ Len(vchi'[f]) = b + 1 /\ Len(delivered'[f]) = n + 1
            BY <3>12, <4>4, <6>3, <6>4
          <6>1. Len(delivered'[f]) = Len(dequeued[f]) + Len(vchi'[f])
            <7>1. n + 1 = a + (b + 1)
              BY <6>5
            <7> QED
              BY <6>4, <6>5, <7>1, Zenon
          <6>2. ASSUME NEW i \in 1 .. Len(vchi'[f])
                PROVE  delivered'[f][Len(dequeued[f]) + i] = Pos[vchi'[f][i]]
            <7>1. CASE i \in 1 .. Len(vchi[f])
              <8>1. Len(dequeued[f]) + i \in 1 .. n /\ Len(dequeued[f]) + i \in 1 .. n + 1
                <9>1. a + i \in 1 .. n /\ a + i \in 1 .. n + 1
                  <10>1. i \in 1 .. b /\ a \in Nat /\ b \in Nat /\ n = a + b
                    BY <6>4, <6>5, <7>1, Zenon
                  <10> QED
                    BY <10>1
                <9> QED
                  BY <6>4, <9>1, Zenon
              <8> QED
                BY <1>13, <1>15, <3>10, <3>12, <4>4, <5>2, <5>5, <7>1, <8>1
            <7>2. CASE i \notin 1 .. Len(vchi[f])
              <8>1. Len(dequeued[f]) + i = n + 1 /\ n + 1 \in 1 .. n + 1 /\ n + 1 \notin 1 .. n
                <9>1. a + i = n + 1 /\ n + 1 \in 1 .. n + 1 /\ n + 1 \notin 1 .. n
                  <10>1. /\ i \in 1 .. b + 1 /\ i \notin 1 .. b /\ a \in Nat /\ b \in Nat
                         /\ n = a + b
                    BY <6>4, <6>5, <7>2, Zenon
                  <10> QED
                    BY <10>1
                <9> QED
                  BY <6>4, <9>1, Zenon
              <8> QED
                BY <1>13, <1>15, <3>10, <3>12, <4>4, <5>5, <6>3, <7>2, <8>1
            <7> QED
              BY <7>1, <7>2
          <6> QED
            BY <1>2, <1>10, <1>31, <5>3, <5>4, <5>5, <6>1, <6>2 DEF DequeuedOk
        <5>6. CASE ~tracked
          <6>1. f \notin VchiFiles /\ vchi'[f] = <<>>
            BY <1>13, <1>31, <3>10, <5>2, <5>6
          <6> QED
            BY <1>2, <5>3, <5>4, <6>1 DEF DequeuedOk
        <5> QED
          BY <5>5, <5>6
      <4> QED
        BY <2>2, <2>4, <3>3, <4>9, <4>10
    <3>11. CASE ~returned
      <4>1. delivered'[f] = delivered[f] /\ vchi'[f] = vchi[f]
        BY <1>13, <1>15, <1>31, <3>11
      <4>2. \A j \in (n + 1) .. Len(posted[f]) : posted[f][j] # Pos[e]
        BY <1>12, <1>29, <1>30, <3>6, <3>11
      <4>3. ASSUME NEW j \in (n + 1) .. Len(posted[f])
            PROVE  \/ posted[f][j] >= Reached
                   \/ \E i \in 1 .. Len(data'[f]) : Pos[data'[f][i]] = posted[f][j]
        <5> SUFFICES ASSUME ~(posted[f][j] >= Reached)
                     PROVE  \E i \in 1 .. Len(data'[f]) : Pos[data'[f][i]] = posted[f][j]
          OBVIOUS
        <5>1. PICK i \in 1 .. Len(data[f]) : Pos[data[f][i]] = posted[f][j]
          BY <3>6
        <5>2. i # 1
          BY <1>29, <4>2, <5>1
        <5> QED
          BY <3>8, <5>1, <5>2
      <4>4. ASSUME NEW i \in 1 .. Len(data'[f])
            PROVE  Kind[data'[f][i]] = "data"
                     <=> \E j \in (n + 1) .. Len(posted[f]) : posted[f][j] = Pos[data'[f][i]]
        <5>1. data'[f][i] = data[f][i + 1] /\ i + 1 \in 1 .. Len(data[f])
          BY <1>12
        <5>2. Kind[data[f][i + 1]] = "data"
                <=> \E j \in (n + 1) .. Len(posted[f]) : posted[f][j] = Pos[data[f][i + 1]]
          BY <3>6, <5>1
        <5> QED
          BY <5>1, <5>2
      <4>5. DeliveredOk(f)'
        BY <1>2, <1>9, <1>10, <3>6, <3>12, <4>1, <4>3, <4>4, ZenonT(60) DEF DeliveredOk
      <4>6. DequeuedOk(f)'
        BY <1>2, <1>10, <2>1, <2>4, <4>1 DEF DequeuedOk
      <4> QED
        BY <2>2, <2>4, <3>3, <4>5, <4>6
    <3> QED
      BY <3>10, <3>11
  <2> QED
    BY <2>3, <2>4
<1> QED
  BY <1>8, <1>16, <1>17, <1>19, <1>20, <1>23, <1>24, <1>25, <1>26, <1>27 DEF RxInv, SlotInv

\* VchiqRemovePendingVchiMsg hands the first tracked message to a client and releases it.
LEMMA RemovePendingVchiMsgKept == ASSUME RxInv, RemovePendingVchiMsg(Trigger) PROVE RxInv'
<1>1. /\ TypeOK /\ OnlyTrigger /\ ControlInv /\ RecycleInv /\ CountInv /\ FoundInv /\ WindowInv
      /\ PendingInv /\ MemoryInv /\ FileInv /\ Trigger \in Threads
  BY DEF RxInv, SlotInv, Threads
<1>2. /\ UNCHANGED <<slotQueue, recycle, txPos, memory, rxPos, current, data, posted, delivered>>
      /\ UNCHANGED <<inUse, refCount, dataLock, vchiLock, requests, file, total>>
  BY DEF RemovePendingVchiMsg, sharedVars, slotVars
<1>3. /\ Tpc = "vprocess" /\ Listed /\ Tpc \notin ReleasePc /\ current # NoSlot /\ rxPos < txPos
      /\ Trel = NoSlot /\ Tret = "none" /\ Tfile \in Files
  BY <1>1 DEF RemovePendingVchiMsg, Tpc, Listed, ReleasePc, ControlInv
<1>28. PICK f \in Files : f = Tfile
  BY <1>3
<1>4. vchi[f] # <<>> /\ dequeues[f] > 0
  BY <1>28 DEF RemovePendingVchiMsg, Tfile
<1>5. /\ vchi \in [Files -> Seq(Entries)] /\ vchi[f] \in Seq(Entries)
      /\ dequeued \in [Files -> Seq(Nat \cup {-1})] /\ dequeued[f] \in Seq(Nat \cup {-1})
      /\ dequeues \in [Files -> Nat] /\ refCount \in [Slots -> Int]
  BY <1>1 DEF TypeOK
<1>29. PICK e \in Entries : e = vchi[f][1]
  BY <1>4, <1>5, TailIs
<1>6. /\ Head(vchi[f]) = e /\ e \in Entries /\ e.slot \in Slots /\ e \in Pending
      /\ Pos[e] = At(e).pos
  <2>1. Head(vchi[f]) = e /\ e \in Entries /\ 1 \in 1 .. Len(vchi[f])
    BY <1>4, <1>5, <1>29, TailIs
  <2> QED
    BY <1>1, <1>29, <2>1, FileTypes, ListsPend DEF Entries
<1>7. /\ dequeues' = [dequeues EXCEPT ![f] = @ - 1]
      /\ vchi' = [vchi EXCEPT ![f] = Tail(@)]
      /\ dequeued' = [dequeued EXCEPT ![f] = Append(@, Pos[e])]
      /\ CallRelease(Trigger, e.slot, "vprocess")
  BY <1>6, <1>28 DEF RemovePendingVchiMsg, Tfile
<1>8. /\ Tpc' = "dec" /\ Trel' = e.slot /\ Tret' = "vprocess" /\ Tfile' = f
      /\ OnlyTrigger' /\ pc' \in [Threads -> Pc] /\ rel' \in [Threads -> Slots \cup {NoSlot}]
      /\ seen' \in [Threads -> Int]
      /\ ret' \in [Threads -> {"none", "remove", "vprocess", "idle"}]
  BY <1>1, <1>2, <1>6, <1>7, <1>28, CallReleaseIs DEF Tfile
<1>9. Tpc' \in ReleasePc /\ Listed' /\ Tpc' \notin {"lock", "add", "advance"} /\ Reached' = Reached
  <2>1. Tpc' \in ReleasePc /\ Listed' /\ Tpc' \notin {"lock", "add", "advance"}
    BY <1>8 DEF ReleasePc, Listed
  <2> QED
    BY <1>2, <1>3, <2>1 DEF Reached
<1>10. /\ Cur' = Cur /\ Window' = Window /\ Queued' = Queued /\ Pos' = Pos /\ Owner' = Owner
       /\ Kind' = Kind
       /\ \A i : QSlot(i)' = QSlot(i)
       /\ \A p : Place(p)' = Place(p)
  <2>1. /\ Cur' = Cur /\ Window' = Window /\ Queued' = Queued /\ Pos' = Pos /\ Owner' = Owner
        /\ Kind' = Kind
    BY <1>2 DEF Cur, Window, Queued, Pos, Owner, Kind, At
  <2> QED
    BY <1>2, <2>1 DEF QSlot, Place
<1>11. Pending' = Pending \ {e}
  BY <1>1, <1>2, <1>4, <1>7, <1>29, VchiRemoved
<1>12. /\ 1 \in 1 .. Len(vchi[f]) /\ Len(vchi[f]) \in Nat
       /\ vchi' \in [Files -> Seq(Entries)] /\ Len(vchi'[f]) = Len(vchi[f]) - 1
       /\ \A i \in 1 .. Len(vchi'[f]) :
            vchi'[f][i] = vchi[f][i + 1] /\ i + 1 \in 1 .. Len(vchi[f]) /\ i + 1 > 1
       /\ \A g \in Files : g # f => vchi'[g] = vchi[g]
  <2>1. Tail(vchi[f]) \in Seq(Entries)
    BY <1>4, <1>5, TailIs
  <2>2. /\ vchi'[f] = Tail(vchi[f]) /\ vchi' \in [Files -> Seq(Entries)]
        /\ \A g \in Files : g # f => vchi'[g] = vchi[g]
    BY <1>3, <1>5, <1>7, <2>1
  <2>3. /\ 1 \in 1 .. Len(vchi[f]) /\ Len(vchi[f]) \in Nat
        /\ Len(vchi'[f]) = Len(vchi[f]) - 1
        /\ \A i \in 1 .. Len(vchi'[f]) :
             vchi'[f][i] = vchi[f][i + 1] /\ i + 1 \in 1 .. Len(vchi[f])
    BY <1>4, <1>5, <2>2, TailIs
  <2> QED
    BY <2>1, <2>2, <2>3
<1>14. Pos[e] \in Nat /\ Pos[e] < Reached
  BY <1>1, <1>6 DEF PendingInv
<1>15. /\ dequeued' \in [Files -> Seq(Nat \cup {-1})]
       /\ \A g \in Files : g # f => dequeued'[g] = dequeued[g]
       /\ Len(dequeued[f]) \in Nat /\ Len(dequeued'[f]) = Len(dequeued[f]) + 1
       /\ \A i \in 1 .. Len(dequeued'[f]) :
            dequeued'[f][i] = IF i \in 1 .. Len(dequeued[f]) THEN dequeued[f][i] ELSE Pos[e]
  <2>1. PICK a \in Seq(Nat \cup {-1}) : a = dequeued[f]
    BY <1>5
  <2>2. PICK x \in Nat \cup {-1} : x = Pos[e]
    BY <1>14
  <2>3. /\ Append(a, x) \in Seq(Nat \cup {-1})
        /\ Len(Append(a, x)) = Len(a) + 1 /\ Len(a) \in Nat
        /\ \A i \in 1 .. Len(a) + 1 : Append(a, x)[i] = IF i \in 1 .. Len(a) THEN a[i] ELSE x
    BY AppendIs
  <2>4. /\ dequeued'[f] = Append(a, x)
        /\ dequeued' \in [Files -> Seq(Nat \cup {-1})]
        /\ \A g \in Files : g # f => dequeued'[g] = dequeued[g]
    BY <1>5, <1>7, <2>1, <2>2, <2>3
  <2> QED
    BY <2>1, <2>2, <2>3, <2>4
<1>16. TypeOK'
  <2>1. dequeues' \in [Files -> Nat]
    BY <1>4, <1>5, <1>7
  <2> QED
    BY <1>1, <1>2, <1>8, <1>12, <1>15, <2>1 DEF TypeOK
<1>17. ControlInv'
  BY <1>1, <1>2, <1>3, <1>6, <1>8, <1>9, Basics DEF ControlInv
<1>18. \A i \in Queued : QSlot(i) # e.slot
  BY <1>1, <1>6 DEF PendingInv
<1>19. WindowInv'
  BY <1>1, <1>2, <1>8, <1>10, <1>18 DEF WindowInv
<1>20. RecycleInv'
  BY <1>8 DEF RecycleInv
<1>22. \A s \in Slots : refCount[s] = Cardinality(Refs(s)) /\ Cardinality(Refs(s)) \in Nat
  BY <1>1, <1>3, RefsFinite DEF CountInv, ReleasePc
<1>23. CountInv'
  <2> SUFFICES ASSUME NEW s \in Slots
               PROVE  refCount[s] = Cardinality(Refs(s)') + (IF e.slot = s THEN 1 ELSE 0)
    BY <1>2, <1>8 DEF CountInv
  <2>1. Cardinality(Refs(s)') = Cardinality(Refs(s)) - (IF s = e.slot THEN 1 ELSE 0)
    BY <1>6, <1>11, RefsRemoved
  <2>2. PICK c \in Nat : c = Cardinality(Refs(s)) /\ refCount[s] = c
    BY <1>22
  <2>3. CASE s = e.slot
    <3>1. Cardinality(Refs(s)') = c - 1
      BY <2>1, <2>2, <2>3
    <3> QED
      BY <2>2, <2>3, <3>1
  <2>4. CASE s # e.slot
    <3>1. Cardinality(Refs(s)') = c - 0
      BY <2>1, <2>2, <2>4
    <3> QED
      BY <2>2, <2>4, <3>1
  <2> QED
    BY <2>3, <2>4
<1>24. FoundInv'
  <2> SUFFICES ASSUME NEW s \in Slots
               PROVE  s = current \/ (\E i \in Queued : QSlot(i) = s) \/ refCount[s] # 0
    BY <1>2, <1>10 DEF FoundInv
  <2> QED
    BY <1>1, <1>3 DEF FoundInv
<1>25. PendingInv'
  BY <1>1, <1>2, <1>9, <1>10, <1>11 DEF PendingInv
<1>26. MemoryInv'
  BY <1>1, <1>2, <1>10 DEF MemoryInv
<1>27. FileInv'
  <2> SUFFICES ASSUME NEW g \in Files
               PROVE  ListOk(g)' /\ PostedOk(g)' /\ DeliveredOk(g)' /\ DequeuedOk(g)'
    BY DEF FileInv
  <2>1. ListOk(g) /\ PostedOk(g) /\ DeliveredOk(g) /\ DequeuedOk(g)
    BY <1>1 DEF FileInv
  <2>2. PostedOk(g)'
    BY <1>2, <1>9, <1>10, <2>1 DEF PostedOk
  <2>3. DeliveredOk(g)'
    BY <1>2, <1>9, <1>10, <2>1 DEF DeliveredOk
  <2>4. CASE g # f
    <3>1. vchi'[g] = vchi[g] /\ dequeued'[g] = dequeued[g]
      BY <1>12, <1>15, <2>4
    <3>2. ListOk(g)'
      BY <1>2, <1>10, <2>1, <3>1 DEF ListOk
    <3>3. DequeuedOk(g)'
      BY <1>2, <1>10, <2>1, <3>1 DEF DequeuedOk
    <3> QED
      BY <2>2, <2>3, <3>2, <3>3
  <2>5. CASE g = f
    <3>1. ListOk(f)'
      <4>1. \A i \in 1 .. Len(vchi'[f]) : Owner[vchi'[f][i]] = f
        BY <1>12, <2>1, <2>5 DEF ListOk
      <4>2. \A i, j \in 1 .. Len(vchi'[f]) : i < j => Pos[vchi'[f][i]] < Pos[vchi'[f][j]]
        <5> SUFFICES ASSUME NEW i \in 1 .. Len(vchi'[f]), NEW j \in 1 .. Len(vchi'[f]), i < j
                     PROVE  Pos[vchi'[f][i]] < Pos[vchi'[f][j]]
          OBVIOUS
        <5>1. /\ vchi'[f][i] = vchi[f][i + 1] /\ vchi'[f][j] = vchi[f][j + 1]
              /\ i + 1 \in 1 .. Len(vchi[f]) /\ j + 1 \in 1 .. Len(vchi[f]) /\ i + 1 < j + 1
          BY <1>12
        <5> QED
          BY <2>1, <2>5, <5>1 DEF ListOk
      <4>3. \A i \in 1 .. Len(vchi'[f]) : \A j \in 1 .. Len(data[f]) :
              Pos[vchi'[f][i]] < Pos[data[f][j]]
        BY <1>12, <2>1, <2>5 DEF ListOk
      <4> QED
        BY <1>2, <1>10, <2>1, <2>5, <4>1, <4>2, <4>3 DEF ListOk
    <3>2. delivered[f] \in Seq(Nat \cup {-1}) /\ Len(delivered[f]) \in Nat
      BY <1>1, FileTypes
    <3>3. PICK n \in Nat, d \in Nat, v \in Nat :
            n = Len(delivered[f]) /\ d = Len(dequeued[f]) /\ v = Len(vchi[f])
      BY <1>12, <1>15, <3>2
    <3>4. /\ f \in VchiFiles /\ n = d + v
          /\ \A i \in 1 .. d : dequeued[f][i] = delivered[f][i]
          /\ \A i \in 1 .. v : delivered[f][d + i] = Pos[vchi[f][i]]
      BY <1>4, <2>1, <2>5, <3>3 DEF DequeuedOk
    <3>5. v >= 1 /\ 1 \in 1 .. v
      BY <1>12, <3>3
    <3>6. Len(vchi'[f]) = v - 1 /\ Len(dequeued'[f]) = d + 1
      BY <1>12, <1>15, <3>3
    <3>7. n = (d + 1) + (v - 1) /\ d + 1 <= n
      BY <3>4, <3>5
    <3>8. ASSUME NEW i \in 1 .. d + 1 PROVE dequeued'[f][i] = delivered[f][i]
      <4>1. CASE i \in 1 .. d
        BY <1>15, <3>3, <3>4, <3>6, <4>1
      <4>2. CASE i \notin 1 .. d
        <5>1. i = d + 1
          BY <4>2
        <5>2. delivered[f][d + 1] = Pos[e]
          BY <1>29, <3>4, <3>5
        <5>3. dequeued'[f][i] = Pos[e]
          BY <1>15, <3>3, <3>6, <4>2
        <5> QED
          BY <5>1, <5>2, <5>3
      <4> QED
        BY <4>1, <4>2
    <3>9. ASSUME NEW i \in 1 .. v - 1 PROVE delivered[f][(d + 1) + i] = Pos[vchi'[f][i]]
      <4>1. i + 1 \in 1 .. v /\ (d + 1) + i = d + (i + 1)
        OBVIOUS
      <4>2. vchi'[f][i] = vchi[f][i + 1]
        BY <1>12, <3>6
      <4> QED
        BY <3>4, <4>1, <4>2
    <3>10. DequeuedOk(f)'
      BY <1>2, <1>10, <3>3, <3>4, <3>6, <3>7, <3>8, <3>9 DEF DequeuedOk
    <3> QED
      BY <2>2, <2>3, <2>5, <3>1, <3>10
  <2> QED
    BY <2>4, <2>5
<1> QED
  BY <1>8, <1>16, <1>17, <1>19, <1>20, <1>23, <1>24, <1>25, <1>26, <1>27 DEF RxInv, SlotInv

\* The place the firmware writes next is in a slot it has, and no list points at it.
LEMMA NextPlaceFree ==
  ASSUME RxInv, txPos \div MsgsPerSlot < recycle
  PROVE  /\ Place(txPos) \in Entries /\ txPos \div MsgsPerSlot \in Window
         /\ Place(txPos) \notin Pending
<1>1. TypeOK /\ ControlInv /\ WindowInv /\ PendingInv
  BY DEF RxInv, SlotInv
<1>2. /\ txPos \in Nat /\ rxPos \in Nat /\ recycle \in Nat /\ Cur \in Nat /\ rxPos <= txPos
      /\ MsgsPerSlot \in Nat \ {0} /\ Cur <= recycle
  BY <1>1, Basics DEF WindowInv
<1>3. txPos \div MsgsPerSlot \in Window /\ Place(txPos) \in Entries
  <2>1. txPos \div MsgsPerSlot \in Nat /\ Cur <= txPos \div MsgsPerSlot
    BY <1>2, DivNat, DivMono DEF Cur
  <2>2. txPos \div MsgsPerSlot < recycle
    OBVIOUS
  <2>3. txPos \div MsgsPerSlot \in Window
    BY <1>2, <2>1, <2>2 DEF Window
  <2>4. QSlot(txPos \div MsgsPerSlot) \in Slots /\ txPos % MsgsPerSlot \in Indexes
    BY <1>1, <2>3, Basics DEF WindowInv
  <2>5. Place(txPos) \in Entries
    BY <2>4 DEF Place, Entries
  <2> QED
    BY <2>3, <2>5
<1>4. Reached <= txPos /\ Reached \in Nat
  BY <1>1, <1>2, Basics DEF Reached, ControlInv
<1>5. Place(txPos) \notin Pending
  <2> SUFFICES ASSUME NEW x \in Pending, x = Place(txPos) PROVE FALSE
    OBVIOUS
  <2>1. /\ x.slot = QSlot(txPos \div MsgsPerSlot) /\ x.index = txPos % MsgsPerSlot
        /\ Pos[x] \in Nat /\ Pos[x] < Reached /\ x.index = Pos[x] % MsgsPerSlot
    BY <1>1, <1>3 DEF Place, PendingInv
  <2>2. txPos \div MsgsPerSlot \notin Queued
    BY <1>1, <2>1 DEF PendingInv
  <2>3. current # NoSlot /\ txPos \div MsgsPerSlot = Cur
    <3>1. ASSUME current = NoSlot PROVE FALSE
      <4>1. Queued = (Cur + 0) .. (recycle - 1)
        BY <3>1 DEF Queued, Cur
      <4> QED
        BY <1>2, <1>3, <2>2, <4>1 DEF Window
    <3>2. Queued = (Cur + 1) .. (recycle - 1)
      BY <3>1 DEF Queued, Cur
    <3> QED
      BY <1>2, <1>3, <2>2, <3>1, <3>2 DEF Window
  <2>4. Pos[x] \div MsgsPerSlot = txPos \div MsgsPerSlot
    BY <1>1, <2>1, <2>3 DEF WindowInv, PendingInv
  <2>5. Pos[x] = txPos
    BY <1>2, <2>1, <2>4, SamePlace
  <2> QED
    BY <1>2, <1>4, <2>1, <2>5
<1> QED
  BY <1>3, <1>5

\* The firmware writes a message to the slots it has.
LEMMA FwWriteKept ==
  ASSUME RxInv, NEW f \in Files \cup {None}, NEW k \in AllKinds, FwWrite(f, k), None \notin Files
  PROVE  RxInv'
<1>1. /\ TypeOK /\ OnlyTrigger /\ ControlInv /\ RecycleInv /\ CountInv /\ FoundInv /\ WindowInv
      /\ PendingInv /\ MemoryInv /\ FileInv
  BY DEF RxInv, SlotInv
<1>2. /\ UNCHANGED <<slotQueue, recycle, rxPos, current, data, vchi, delivered, dequeued>>
      /\ UNCHANGED <<inUse, refCount, dataLock, vchiLock, requests, dequeues, localVars>>
  BY DEF FwWrite, slotVars, fileVars
<1>3. /\ txPos \in Nat /\ rxPos \in Nat /\ recycle \in Nat /\ Cur \in Nat /\ rxPos <= txPos
      /\ MsgsPerSlot \in Nat \ {0} /\ Cur <= recycle /\ txPos' = txPos + 1
  BY <1>1, Basics DEF WindowInv, FwWrite
<1>4. PICK e \in Entries : e = Place(txPos) /\ txPos \div MsgsPerSlot \in Window
  BY NextPlaceFree DEF FwWrite
<1>5. memory' = [memory EXCEPT ![e.slot][e.index] = [pos |-> txPos, file |-> f, kind |-> k]]
  BY <1>4 DEF FwWrite, SlotOf, QSlot, Place
<1>6. /\ memory' \in [Slots -> [Indexes -> Messages]]
      /\ At(e)' = [pos |-> txPos, file |-> f, kind |-> k]
      /\ \A x \in Entries : x # e => At(x)' = At(x)
  <2>1. /\ memory \in [Slots -> [Indexes -> Messages]] /\ e.slot \in Slots /\ e.index \in Indexes
        /\ e = [slot |-> e.slot, index |-> e.index]
    BY <1>1 DEF TypeOK, Entries
  <2>2. [pos |-> txPos, file |-> f, kind |-> k] \in Messages
    BY <1>3 DEF Messages
  <2>3. \A x \in Entries : x # e => x.slot \in Slots /\ x.index \in Indexes
                                    /\ (x.slot # e.slot \/ x.index # e.index)
    BY <2>1 DEF Entries
  <2>4. memory' \in [Slots -> [Indexes -> Messages]]
    BY <1>5, <2>1, <2>2
  <2>5. At(e)' = [pos |-> txPos, file |-> f, kind |-> k]
    BY <1>5, <2>1 DEF At
  <2>6. \A x \in Entries : x # e => At(x)' = At(x)
    BY <1>5, <2>1, <2>3 DEF At
  <2> QED
    BY <2>4, <2>5, <2>6
<1>7. /\ Pos'[e] = txPos /\ Owner'[e] = f /\ Kind'[e] = k
      /\ \A x \in Entries : x # e => Pos'[x] = Pos[x] /\ Owner'[x] = Owner[x] /\ Kind'[x] = Kind[x]
  BY <1>6 DEF Pos, Owner, Kind
<1>8. /\ Tpc' = Tpc /\ Trel' = Trel /\ Tret' = Tret /\ Tseen' = Tseen /\ Tfile' = Tfile
      /\ Listed' = Listed /\ Reached' = Reached
  BY <1>2 DEF localVars, Tpc, Trel, Tret, Tseen, Tfile, Listed, Reached
<1>9. /\ Cur' = Cur /\ Window' = Window /\ Queued' = Queued /\ Pending' = Pending
      /\ \A s : Refs(s)' = Refs(s)
      /\ \A i : QSlot(i)' = QSlot(i)
      /\ \A p : Place(p)' = Place(p)
  <2>1. Cur' = Cur /\ Window' = Window /\ Queued' = Queued /\ Pending' = Pending
    BY <1>2 DEF Cur, Window, Queued, Pending, InData, InVchi
  <2> QED
    BY <1>2, <2>1 DEF Refs, QSlot, Place
<1>10. Reached <= txPos /\ rxPos <= Reached /\ Reached \in Nat
  BY <1>1, <1>3, Basics DEF Reached, ControlInv
<1>11. \A x \in Pending : x # e /\ x \in Entries
  BY <1>4, NextPlaceFree DEF FwWrite, Pending
<1>12. \A p \in rxPos .. (txPos - 1) : Place(p) # e /\ Place(p) \in Entries
  <2> TAKE p \in rxPos .. (txPos - 1)
  <2>1. p \div MsgsPerSlot \in Window /\ Place(p) \in Entries /\ p \in Nat
    BY <1>1, AheadInWindow
  <2>2. p # txPos
    BY <1>3
  <2> QED
    BY <1>1, <1>3, <1>4, <2>1, <2>2, PlacesApart
<1>13. \A p \in rxPos .. txPos : p = txPos \/ p \in rxPos .. (txPos - 1)
  BY <1>3
<1>14. /\ posted' \in [Files -> Seq(Nat)]
       /\ f \in Files /\ k = "data" =>
            /\ Len(posted'[f]) = Len(posted[f]) + 1
            /\ \A i \in 1 .. Len(posted'[f]) :
                 posted'[f][i] = IF i \in 1 .. Len(posted[f]) THEN posted[f][i] ELSE txPos
       /\ \A g \in Files : ~(g = f /\ k = "data") => posted'[g] = posted[g]
       /\ \A g \in Files : posted[g] \in Seq(Nat) /\ Len(posted[g]) \in Nat
  <2>1. posted \in [Files -> Seq(Nat)]
    BY <1>1 DEF TypeOK
  <2>2. CASE f \in Files /\ k = "data"
    <3>1. PICK a \in Seq(Nat) : a = posted[f]
      BY <2>1, <2>2
    <3>2. /\ Append(a, txPos) \in Seq(Nat)
          /\ Len(Append(a, txPos)) = Len(a) + 1 /\ Len(a) \in Nat
          /\ \A i \in 1 .. Len(a) + 1 : Append(a, txPos)[i] = IF i \in 1 .. Len(a) THEN a[i] ELSE txPos
      BY <1>3, AppendIs
    <3>3. posted' = [posted EXCEPT ![f] = Append(a, txPos)]
      BY <2>2, <3>1 DEF FwWrite
    <3>4. /\ posted'[f] = Append(a, txPos) /\ posted' \in [Files -> Seq(Nat)]
          /\ \A g \in Files : g # f => posted'[g] = posted[g]
      BY <2>1, <2>2, <3>2, <3>3
    <3> QED
      BY <2>1, <2>2, <3>1, <3>2, <3>4
  <2>3. CASE ~(f \in Files /\ k = "data")
    <3>1. posted' = posted
      BY <2>3 DEF FwWrite
    <3> QED
      BY <2>1, <2>3, <3>1
  <2> QED
    BY <2>2, <2>3
<1>15. TypeOK'
  BY <1>1, <1>2, <1>3, <1>6, <1>14, SMTT(30) DEF TypeOK, localVars
<1>16. OnlyTrigger'
  BY <1>1, <1>2 DEF OnlyTrigger, localVars
<1>17. ControlInv'
  <2>1. Tpc \in {"lock", "add"} => Owner'[Place(rxPos)] = Owner[Place(rxPos)]
    <3>1. Tpc \in {"lock", "add"} => rxPos \in rxPos .. (txPos - 1)
      BY <1>1, <1>3 DEF ControlInv
    <3> QED
      BY <1>7, <1>12, <3>1
  <2>2. rxPos < txPos => rxPos' < txPos'
    BY <1>2, <1>3
  <2> QED
    BY <1>1, <1>2, <1>8, <1>9, <2>1, <2>2 DEF ControlInv
<1>18. WindowInv'
  <2>1. rxPos' <= txPos'
    BY <1>2, <1>3
  <2>2. \A p \in 0 .. (txPos' - 1) : p \div MsgsPerSlot < recycle
    <3>1. \A p \in 0 .. (txPos' - 1) : p = txPos \/ p \in 0 .. (txPos - 1)
      BY <1>3
    <3>2. txPos \div MsgsPerSlot < recycle
      BY DEF FwWrite
    <3> QED
      BY <1>1, <3>1, <3>2 DEF WindowInv
  <2> QED
    BY <1>1, <1>2, <1>8, <1>9, <2>1, <2>2 DEF WindowInv
<1>19. RecycleInv' /\ CountInv' /\ FoundInv'
  BY <1>1, <1>2, <1>8, <1>9 DEF RecycleInv, CountInv, FoundInv
<1>20. PendingInv'
  <2>1. \A x \in Pending : Pos'[x] = Pos[x]
    BY <1>7, <1>11
  <2> QED
    BY <1>1, <1>2, <1>8, <1>9, <2>1 DEF PendingInv
<1>21. MemoryInv'
  <2>1. \A p \in rxPos .. (txPos' - 1) : Pos'[Place(p)] = p
    <3> TAKE p \in rxPos .. (txPos' - 1)
    <3>1. p = txPos \/ p \in rxPos .. (txPos - 1)
      BY <1>3
    <3> QED
      BY <1>1, <1>4, <1>7, <1>12, <3>1 DEF MemoryInv
  <2> QED
    BY <1>2, <1>9, <2>1 DEF MemoryInv
<1>22. FileInv'
  <2> SUFFICES ASSUME NEW g \in Files
               PROVE  ListOk(g)' /\ PostedOk(g)' /\ DeliveredOk(g)' /\ DequeuedOk(g)'
    BY DEF FileInv
  <2>1. ListOk(g) /\ PostedOk(g) /\ DeliveredOk(g) /\ DequeuedOk(g)
    BY <1>1 DEF FileInv
  <2>2. /\ \A i \in 1 .. Len(data[g]) :
             /\ Pos'[data[g][i]] = Pos[data[g][i]] /\ Owner'[data[g][i]] = Owner[data[g][i]]
             /\ Kind'[data[g][i]] = Kind[data[g][i]]
             /\ Pos[data[g][i]] < txPos /\ Pos[data[g][i]] \in Nat
        /\ \A i \in 1 .. Len(vchi[g]) :
             Pos'[vchi[g][i]] = Pos[vchi[g][i]] /\ Owner'[vchi[g][i]] = Owner[vchi[g][i]]
    <3>1. \A x \in Pending : Pos[x] \in Nat /\ Pos[x] < txPos
      BY <1>1, <1>3, <1>10 DEF PendingInv
    <3> QED
      BY <1>1, <1>7, <1>11, <3>1, ListsPend
  <2>3. ListOk(g)'
    BY <1>2, <2>1, <2>2, ZenonT(60) DEF ListOk
  <2>4. DequeuedOk(g)'
    BY <1>2, <2>1, <2>2 DEF DequeuedOk
  <2>5. posted[g] \in Seq(Nat) /\ Len(posted[g]) \in Nat
    BY <1>14
  <2>6. \A j \in 1 .. Len(posted[g]) : posted[g][j] < txPos /\ posted[g][j] \in Nat
    BY <2>1, <2>5 DEF PostedOk
  <2>7. CASE g = f /\ k = "data"
    <3>1. PICK n \in Nat : n = Len(posted[g])
      BY <2>5
    <3>2. /\ Len(posted'[g]) = n + 1
          /\ \A i \in 1 .. n + 1 : posted'[g][i] = IF i \in 1 .. n THEN posted[g][i] ELSE txPos
          /\ \A i \in 1 .. n : i \in 1 .. n + 1
          /\ n + 1 \in 1 .. n + 1 /\ n + 1 \notin 1 .. n
      <4>1. /\ Len(posted'[g]) = n + 1
            /\ \A i \in 1 .. n + 1 : posted'[g][i] = IF i \in 1 .. n THEN posted[g][i] ELSE txPos
        BY <1>14, <2>7, <3>1
      <4> QED
        BY <4>1
    <3>3. PostedOk(g)'
      <4>1. \A j \in 1 .. n + 1 : posted'[g][j] < txPos'
        <5> TAKE j \in 1 .. n + 1
        <5>1. CASE j \in 1 .. n
          BY <1>3, <2>6, <3>1, <3>2, <5>1
        <5>2. CASE j \notin 1 .. n
          BY <1>3, <3>2, <5>2
        <5> QED
          BY <5>1, <5>2
      <4>2. \A i, j \in 1 .. n + 1 : i < j => posted'[g][i] < posted'[g][j]
        <5> SUFFICES ASSUME NEW i \in 1 .. n + 1, NEW j \in 1 .. n + 1, i < j
                     PROVE  posted'[g][i] < posted'[g][j]
          OBVIOUS
        <5>1. i \in 1 .. n /\ posted'[g][i] = posted[g][i]
          BY <3>2
        <5>2. CASE j \in 1 .. n
          BY <2>1, <3>1, <3>2, <5>1, <5>2 DEF PostedOk
        <5>3. CASE j \notin 1 .. n
          BY <2>6, <3>1, <3>2, <5>1, <5>3
        <5> QED
          BY <5>2, <5>3
      <4>3. ASSUME NEW p \in Reached .. (txPos' - 1)
            PROVE  Owner'[Place(p)] = g /\ Kind'[Place(p)] = "data"
                     <=> \E j \in 1 .. n + 1 : posted'[g][j] = p
        <5>1. p \in Nat /\ (p = txPos \/ (p \in Reached .. (txPos - 1) /\ p \in rxPos .. (txPos - 1)))
          BY <1>3, <1>10
        <5>2. CASE p = txPos
          BY <1>4, <1>7, <2>7, <3>2, <5>2
        <5>3. CASE p # txPos
          <6>1. /\ Owner'[Place(p)] = Owner[Place(p)] /\ Kind'[Place(p)] = Kind[Place(p)]
                /\ (Owner[Place(p)] = g /\ Kind[Place(p)] = "data"
                     <=> \E j \in 1 .. n : posted[g][j] = p)
            BY <1>7, <1>12, <2>1, <3>1, <5>1, <5>3 DEF PostedOk
          <6>2. (\E j \in 1 .. n + 1 : posted'[g][j] = p) <=> \E j \in 1 .. n : posted[g][j] = p
            BY <3>2, <5>3
          <6> QED
            BY <6>1, <6>2
        <5> QED
          BY <5>2, <5>3
      <4> QED
        BY <1>8, <1>9, <3>2, <4>1, <4>2, <4>3 DEF PostedOk
    <3>4. DeliveredOk(g)'
      <4>1. PICK d \in Nat : d = Len(delivered[g])
        BY <1>1, FileTypes
      <4>2. /\ d <= n
            /\ \A i \in 1 .. d : delivered[g][i] = posted[g][i] /\ delivered[g][i] < Reached
            /\ \A j \in (d + 1) .. n :
                 \/ posted[g][j] >= Reached
                 \/ \E i \in 1 .. Len(data[g]) : Pos[data[g][i]] = posted[g][j]
            /\ \A i \in 1 .. Len(data[g]) :
                 Kind[data[g][i]] = "data"
                   <=> \E j \in (d + 1) .. n : posted[g][j] = Pos[data[g][i]]
        BY <2>1, <3>1, <4>1 DEF DeliveredOk
      <4>3. /\ \A i \in 1 .. d : i \in 1 .. n
            /\ \A j \in (d + 1) .. n + 1 : j \in 1 .. n + 1 /\ (j \in (d + 1) .. n \/ j = n + 1)
            /\ \A j \in (d + 1) .. n : j \in (d + 1) .. n + 1 /\ j \in 1 .. n
            /\ d <= n + 1
        BY <4>2
      <4>4. \A i \in 1 .. d : delivered[g][i] = posted'[g][i] /\ delivered[g][i] < Reached
        BY <3>2, <4>2, <4>3
      <4>5. ASSUME NEW j \in (d + 1) .. n + 1
            PROVE  \/ posted'[g][j] >= Reached
                   \/ \E i \in 1 .. Len(data[g]) : Pos[data[g][i]] = posted'[g][j]
        <5>1. CASE j \in (d + 1) .. n
          BY <3>2, <4>2, <4>3, <5>1
        <5>2. CASE j = n + 1
          BY <1>3, <1>10, <3>2, <5>2
        <5> QED
          BY <4>3, <5>1, <5>2
      <4>6. ASSUME NEW i \in 1 .. Len(data[g])
            PROVE  Kind[data[g][i]] = "data"
                     <=> \E j \in (d + 1) .. n + 1 : posted'[g][j] = Pos[data[g][i]]
        <5>1. Pos[data[g][i]] # txPos
          BY <2>2, <1>3
        <5>2. (\E j \in (d + 1) .. n + 1 : posted'[g][j] = Pos[data[g][i]])
                <=> \E j \in (d + 1) .. n : posted[g][j] = Pos[data[g][i]]
          BY <3>2, <4>3, <5>1
        <5> QED
          BY <4>2, <5>2
      <4>7. \A i \in 1 .. Len(data[g]) :
              Kind'[data[g][i]] = "data"
                <=> \E j \in (d + 1) .. n + 1 : posted'[g][j] = Pos'[data[g][i]]
        BY <2>2, <4>6
      <4>8. \A j \in (d + 1) .. n + 1 :
              \/ posted'[g][j] >= Reached
              \/ \E i \in 1 .. Len(data[g]) : Pos'[data[g][i]] = posted'[g][j]
        BY <2>2, <4>5
      <4> QED
        BY <1>2, <1>8, <3>2, <4>1, <4>3, <4>4, <4>7, <4>8 DEF DeliveredOk
    <3> QED
      BY <2>3, <2>4, <3>3, <3>4
  <2>8. CASE ~(g = f /\ k = "data")
    <3>1. posted'[g] = posted[g]
      BY <1>14, <2>8
    <3>2. DeliveredOk(g)'
      <4>1. \A i \in 1 .. Len(data[g]) :
              Kind'[data[g][i]] = "data"
                <=> \E j \in (Len(delivered[g]) + 1) .. Len(posted[g]) :
                      posted[g][j] = Pos'[data[g][i]]
        BY <2>1, <2>2, SMTT(30) DEF DeliveredOk
      <4>2. \A j \in (Len(delivered[g]) + 1) .. Len(posted[g]) :
              \/ posted[g][j] >= Reached
              \/ \E i \in 1 .. Len(data[g]) : Pos'[data[g][i]] = posted[g][j]
        BY <2>1, <2>2, SMTT(30) DEF DeliveredOk
      <4> QED
        BY <1>2, <1>8, <2>1, <3>1, <4>1, <4>2 DEF DeliveredOk
    <3>3. PostedOk(g)'
      <4>1. \A j \in 1 .. Len(posted[g]) : posted[g][j] < txPos'
        BY <1>3, <2>6
      <4>2. ASSUME NEW p \in Reached .. (txPos' - 1)
            PROVE  Owner'[Place(p)] = g /\ Kind'[Place(p)] = "data"
                     <=> \E j \in 1 .. Len(posted[g]) : posted[g][j] = p
        <5>1. p \in Nat /\ (p = txPos \/ (p \in Reached .. (txPos - 1) /\ p \in rxPos .. (txPos - 1)))
          BY <1>3, <1>10
        <5>2. CASE p = txPos
          <6>1. \A j \in 1 .. Len(posted[g]) : posted[g][j] # p
            BY <1>3, <2>6, <5>2
          <6> QED
            BY <1>4, <1>7, <2>8, <5>2, <6>1
        <5>3. CASE p # txPos
          BY <1>7, <1>12, <2>1, <5>1, <5>3 DEF PostedOk
        <5> QED
          BY <5>2, <5>3
      <4> QED
        BY <1>8, <1>9, <2>1, <3>1, <4>1, <4>2 DEF PostedOk
    <3> QED
      BY <2>3, <2>4, <3>2, <3>3
  <2> QED
    BY <2>7, <2>8
<1> QED
  BY <1>15, <1>16, <1>17, <1>18, <1>19, <1>20, <1>21, <1>22 DEF RxInv, SlotInv

-----------------------------------------------------------------------------
(* All steps. *)

\* The remainder of a number below the modulus.
LEMMA ModSmall ==
  ASSUME NEW n \in Nat \ {0}, NEW i \in 0 .. (n - 1)
  PROVE  i % n = i /\ i \div n = 0
<1>1. i = n * (i \div n) + (i % n) /\ i \div n \in Int /\ i % n \in 0..(n - 1)
  BY DivMod
<1>2. i \div n \in Nat
  BY DivNat
<1>3. ASSUME i \div n >= 1 PROVE FALSE
  <2>1. PICK d \in Nat : d = i \div n /\ d >= 1
    BY <1>2, <1>3
  <2>2. n * d >= n
    BY <2>1
  <2> QED
    BY <1>1, <2>1, <2>2
<1> QED
  BY <1>1, <1>2, <1>3

\* The initial states.
LEMMA RxInitially == ASSUME Init, RxAssumption PROVE RxInv
<1>1. /\ RingSize \in Nat \ {0} /\ MsgsPerSlot \in Nat \ {0} /\ NumSlots \in Nat
      /\ NumSlots <= RingSize /\ SlotFirst \in Nat /\ SlotLast \in Nat /\ NoSlot \notin Slots
      /\ \A i \in 0 .. (NumSlots - 1) : SlotFirst + i \in Slots
      /\ \A s \in Slots : s - SlotFirst \in 0 .. (NumSlots - 1) /\ SlotFirst + (s - SlotFirst) = s
  BY DEF RxAssumption, NumSlots, Slots, NoSlot
<1>2. TypeOK
  <2>1. slotQueue \in [0..(RingSize - 1) -> Slots \cup {NoSlot}]
    <3>1. \A i \in 0 .. (RingSize - 1) :
            (IF i < NumSlots THEN SlotFirst + i ELSE NoSlot) \in Slots \cup {NoSlot}
      BY <1>1
    <3> QED
      BY <3>1 DEF Init
  <2>2. memory \in [Slots -> [Indexes -> Messages]]
    BY DEF Init, NoMessage, Messages, AllKinds
  <2>3. requests \in [Files -> Nat] /\ dequeues \in [Files -> Nat]
    BY DEF Init, RxAssumption
  <2>4. /\ total \in [Threads -> 0..MsgBufCount] /\ pc \in [Threads -> Pc]
        /\ file \in [Threads -> Files \cup {None}] /\ rel \in [Threads -> Slots \cup {NoSlot}]
    BY DEF Init, RxAssumption, Pc
  <2>5. /\ data \in [Files -> Seq(Entries)] /\ vchi \in [Files -> Seq(Entries)]
        /\ posted \in [Files -> Seq(Nat)]
        /\ delivered \in [Files -> Seq(Nat \cup {-1})]
        /\ dequeued \in [Files -> Seq(Nat \cup {-1})]
    BY DEF Init
  <2>6. /\ dataLock \in [Files -> Threads \cup {NoThread}]
        /\ vchiLock \in [Files -> Threads \cup {NoThread}]
        /\ recycle \in Nat /\ txPos \in Nat /\ rxPos \in Nat /\ current \in Slots \cup {NoSlot}
        /\ inUse \in [Slots -> BOOLEAN] /\ refCount \in [Slots -> Int]
        /\ seen \in [Threads -> Int] /\ ret \in [Threads -> {"none", "remove", "vprocess", "idle"}]
    BY <1>1 DEF Init
  <2> QED
    BY <2>1, <2>2, <2>3, <2>4, <2>5, <2>6 DEF TypeOK
<1>3. /\ Tpc = "idle" /\ Trel = NoSlot /\ Tret = "none" /\ ~Listed /\ Tpc \notin ReleasePc
      /\ OnlyTrigger
  BY DEF Init, Threads, Tpc, Trel, Tret, Listed, ReleasePc, OnlyTrigger
<1>4. /\ current = NoSlot /\ rxPos = 0 /\ txPos = 0 /\ recycle = NumSlots
      /\ Cur = 0 /\ Window = 0 .. (NumSlots - 1) /\ Queued = 0 .. (NumSlots - 1) /\ Reached = 0
  <2>1. current = NoSlot /\ rxPos = 0 /\ txPos = 0 /\ recycle = NumSlots
    BY DEF Init
  <2>2. 0 \div MsgsPerSlot = 0
    BY <1>1, ModSmall
  <2> QED
    BY <1>3, <2>1, <2>2 DEF Cur, Window, Queued, Reached
<1>5. \A i \in 0 .. (NumSlots - 1) : QSlot(i) = SlotFirst + i
  <2> TAKE i \in 0 .. (NumSlots - 1)
  <2>1. i \in 0 .. (RingSize - 1) /\ i < NumSlots
    BY <1>1
  <2>2. i % RingSize = i
    BY <1>1, <2>1, ModSmall
  <2> QED
    BY <2>1, <2>2 DEF Init, QSlot
<1>6. Pending = {} /\ \A s \in Slots : Refs(s) = {}
  BY DEF Init, Pending, InData, InVchi, Refs
<1>7. ControlInv
  BY <1>1, <1>3, <1>4 DEF Init, ControlInv
<1>8. WindowInv
  <2>1. /\ \A i \in Window : QSlot(i) \in Slots
        /\ \A i, j \in Window : QSlot(i) = QSlot(j) => i = j
    <3>1. \A i \in Window : QSlot(i) = SlotFirst + i /\ SlotFirst + i \in Slots /\ i \in Int
      BY <1>1, <1>4, <1>5
    <3>2. \A i, j \in Int : SlotFirst + i = SlotFirst + j => i = j
      BY <1>1
    <3> QED
      BY <3>1, <3>2
  <2>2. 0 .. (txPos - 1) = {} /\ rxPos <= txPos /\ Cur <= recycle
    BY <1>1, <1>4
  <2> QED
    BY <1>3, <1>4, <2>1, <2>2 DEF WindowInv
<1>9. RecycleInv /\ CountInv
  <2>1. \A s \in Slots : refCount[s] = 0 /\ Cardinality(Refs(s)) = 0
    BY <1>6, FS_EmptySet DEF Init
  <2> QED
    BY <1>3, <2>1 DEF RecycleInv, CountInv
<1>10. FoundInv
  BY <1>1, <1>4, <1>5 DEF FoundInv
<1>11. PendingInv /\ MemoryInv
  BY <1>4, <1>6 DEF PendingInv, MemoryInv
<1>12. FileInv
  BY <1>4 DEF Init, FileInv, ListOk, PostedOk, DeliveredOk, DequeuedOk
<1> QED
  BY <1>2, <1>3, <1>7, <1>8, <1>9, <1>10, <1>11, <1>12 DEF RxInv, SlotInv

\* Steps of nothing.
LEMMA Stutters == ASSUME RxInv, UNCHANGED vars PROVE RxInv'
<1>1. /\ UNCHANGED streamVars
      /\ UNCHANGED <<inUse, refCount, dataLock, vchiLock, requests, dequeues>>
      /\ UNCHANGED <<pc, file, rel, seen, ret, total>>
  BY DEF vars, sharedVars, slotVars, fileVars, localVars, clientVars, streamVars
<1>2. /\ Tpc' = Tpc /\ Trel' = Trel /\ Tret' = Tret /\ Tseen' = Tseen /\ Tfile' = Tfile
      /\ Listed' = Listed
  BY <1>1 DEF Tpc, Trel, Tret, Tseen, Tfile, Listed
<1>3. /\ current' = current /\ rxPos' = rxPos /\ txPos' = txPos /\ recycle' = recycle
      /\ Reached' = Reached
  BY <1>1, <1>2 DEF streamVars, Reached
<1>4. /\ Cur' = Cur /\ Window' = Window /\ Queued' = Queued /\ Owner' = Owner
      /\ \A s : Refs(s)' = Refs(s)
      /\ \A i : QSlot(i)' = QSlot(i)
      /\ \A p : Place(p)' = Place(p)
      /\ PendingInv' /\ MemoryInv' /\ FileInv'
  BY <1>1, <1>3, StreamKept DEF RxInv
<1>5. TypeOK' /\ OnlyTrigger'
  BY <1>1 DEF RxInv, TypeOK, OnlyTrigger, streamVars
<1>6. ControlInv'
  BY <1>1, <1>2, <1>3, <1>4 DEF RxInv, SlotInv, ControlInv
<1>7. WindowInv'
  BY <1>2, <1>3, <1>4 DEF RxInv, SlotInv, WindowInv
<1>8. RecycleInv' /\ CountInv' /\ FoundInv'
  BY <1>1, <1>2, <1>3, <1>4 DEF RxInv, SlotInv, RecycleInv, CountInv, FoundInv
<1> QED
  BY <1>4, <1>5, <1>6, <1>7, <1>8 DEF RxInv, SlotInv

\* All steps of a thread are one of those above.
LEMMA ThreadStepKept == ASSUME RxInv, NEW t \in Threads, ThreadStep(t) PROVE RxInv'
<1>1. t = Trigger
  BY OnlyTriggerMoves DEF RxInv
<1>2. \/ DataLock(Trigger) \/ ProcessPendingMsg(Trigger) \/ RemovePendingMsg(Trigger)
      \/ CompleteRequest(Trigger) \/ DataUnlock(Trigger)
      \/ VchiLock(Trigger) \/ RemovePendingVchiMsg(Trigger) \/ VchiUnlock(Trigger)
      \/ ReleaseMsg(Trigger) \/ RecycleRead(Trigger) \/ RecycleExchange(Trigger)
      \/ RecycleTest(Trigger) \/ RecyclePush(Trigger)
  BY <1>1 DEF ThreadStep
<1> QED
  BY <1>2, DataLockKept, ProcessPendingMsgKept, RemovePendingMsgKept, CompleteRequestKept,
     DataUnlockKept, VchiLockKept, RemovePendingVchiMsgKept, VchiUnlockKept, ReleaseMsgKept,
     RecycleReadKept, RecycleExchangeKept, RecycleTestKept, RecyclePushKept

\* Every step of the receive stream keeps RxInv when no client is late.
LEMMA RxStep ==
  ASSUME RxInv, [Next]_vars, LateFiles = {}, RxAssumption
  PROVE  RxInv'
<1>1. CASE UNCHANGED vars
  BY <1>1, Stutters
<1>2. ASSUME NEW f \in Files, NEW k \in Kinds, FwWrite(f, k) PROVE RxInv'
  BY <1>2, FwWriteKept DEF RxAssumption
<1>3. CASE FwWrite(None, "data")
  BY <1>3, FwWriteKept DEF RxAssumption, AllKinds
<1>4. ASSUME NEW f \in Files, AwaitForward(f) \/ DequeueForward(f) PROVE RxInv'
  BY <1>4 DEF AwaitForward, DequeueForward
<1>5. CASE TriggerStep
  BY <1>5, TriggerTakeSlotKept, TriggerParseKept, AddPendingMsgKept, TriggerAdvanceKept
     DEF TriggerStep
<1>6. ASSUME NEW t \in Threads, ThreadStep(t) PROVE RxInv'
  BY <1>6, ThreadStepKept
<1> QED
  BY <1>1, <1>2, <1>3, <1>4, <1>5, <1>6 DEF Next

-----------------------------------------------------------------------------
(* What it means for the properties. *)

\* The slots with pending messages, as the properties name them.
LEMMA ReferencedIs ==
  ASSUME TypeOK
  PROVE  /\ \A s \in Referenced : \E e \in Pending : e.slot = s
         /\ \A e \in Pending : e.slot \in Referenced
<1>1. \A f \in Files : data[f] \in Seq(Entries) /\ vchi[f] \in Seq(Entries)
  BY DEF TypeOK
<1>2. \A f \in Files : DOMAIN data[f] = 1 .. Len(data[f]) /\ DOMAIN vchi[f] = 1 .. Len(vchi[f])
  BY <1>1
<1>3. ASSUME NEW s \in Referenced PROVE \E e \in Pending : e.slot = s
  <2>1. PICK f \in Files : \E e \in Range(data[f]) \cup Range(vchi[f]) : e.slot = s
    BY DEF Referenced
  <2> QED
    BY <1>2, <2>1, ListsPend DEF Range
<1>4. ASSUME NEW e \in Pending PROVE e.slot \in Referenced
  <2>1. PICK f \in Files : e \in Range(data[f]) \cup Range(vchi[f])
    BY <1>2 DEF Pending, InData, InVchi, Range
  <2> QED
    BY <2>1 DEF Referenced
<1> QED
  BY <1>3, <1>4

\* PendingInv keeps pending messages out of the slots the firmware has.
LEMMA NoEarlyRecycleFollows == ASSUME RxInv PROVE NoEarlyRecycle
<1>1. TypeOK /\ PendingInv
  BY DEF RxInv
<1>2. ASSUME NEW i \in Queued, slotQueue[i % RingSize] \in Referenced PROVE FALSE
  <2>1. PICK e \in Pending : e.slot = QSlot(i)
    BY <1>1, <1>2, ReferencedIs DEF QSlot
  <2> QED
    BY <1>1, <2>1 DEF PendingInv
<1> QED
  BY <1>2 DEF NoEarlyRecycle, QueuedSlots

\* The slots the firmware has are those of the window, but for the current one.
LEMMA QueuedIs ==
  ASSUME RxInv
  PROVE  Queued \subseteq Window /\ (current # NoSlot => Cur \notin Queued)
<1>1. Cur \in Nat /\ recycle \in Nat
  BY Basics DEF RxInv
<1>2. CASE current = NoSlot
  <2>1. Queued = (Cur + 0) .. (recycle - 1)
    BY <1>2 DEF Queued, Cur
  <2> QED
    BY <1>1, <1>2, <2>1 DEF Window
<1>3. CASE current # NoSlot
  <2>1. Queued = (Cur + 1) .. (recycle - 1)
    BY <1>3 DEF Queued, Cur
  <2> QED
    BY <1>1, <2>1 DEF Window
<1> QED
  BY <1>2, <1>3

\* The slots of the window are different.
LEMMA RecycledOnceFollows == ASSUME RxInv PROVE RecycledOnce
<1>1. TypeOK /\ WindowInv
  BY DEF RxInv, SlotInv
<1>2. \A i, j \in Queued : i # j => slotQueue[i % RingSize] # slotQueue[j % RingSize]
  BY <1>1, QueuedIs DEF WindowInv, QSlot
<1>3. ASSUME NEW i \in Queued, current = slotQueue[i % RingSize] PROVE FALSE
  <2>1. i \in Window /\ current = QSlot(i)
    BY <1>3, QueuedIs DEF QSlot
  <2>2. current # NoSlot
    BY <1>1, <2>1, Basics DEF WindowInv
  <2> QED
    BY <1>1, <2>1, <2>2, QueuedIs DEF WindowInv
<1> QED
  BY <1>2, <1>3 DEF RecycledOnce, QueuedSlots

\* With nothing pending all counts are zero, so every slot is found with the firmware.
LEMMA NoSlotLeakFollows == ASSUME RxInv PROVE NoSlotLeak
<1> SUFFICES ASSUME \A t \in Threads : pc[t] = "idle", Referenced = {},
                    NEW s \in Slots, s # current
             PROVE  \E i \in Queued : slotQueue[i % RingSize] = s
  BY DEF NoSlotLeak, QueuedSlots
<1>1. TypeOK /\ FoundInv /\ CountInv /\ Tpc = "idle"
  BY DEF RxInv, SlotInv, Threads, Tpc
<1>2. Pending = {}
  BY <1>1, ReferencedIs
<1>3. refCount[s] = 0
  <2>1. Refs(s) = {}
    BY <1>2 DEF Refs
  <2> QED
    BY <1>1, <2>1, FS_EmptySet DEF CountInv
<1> QED
  BY <1>1, <1>3 DEF FoundInv, QSlot

\* A sequence that agrees with another as far as it goes is a prefix of it.
LEMMA PrefixIs ==
  ASSUME NEW S, NEW s \in Seq(S), NEW T, NEW t \in Seq(T), Len(s) <= Len(t),
         \A i \in 1 .. Len(s) : s[i] = t[i]
  PROVE  IsPrefix(s, t)
<1>1. SubSeq(s, 1, Len(s)) = SubSeq(t, 1, Len(s))
  OBVIOUS
<1> QED
  BY <1>1 DEF IsPrefix

\* FileInv has the sequences entry by entry.
LEMMA DeliveredIsPostedFollows == ASSUME RxInv PROVE DeliveredIsPosted
<1> SUFFICES ASSUME NEW f \in Files
             PROVE  IsPrefix(delivered[f], posted[f]) /\ IsPrefix(dequeued[f], delivered[f])
  BY DEF DeliveredIsPosted
<1>1. DeliveredOk(f) /\ DequeuedOk(f)
  BY DEF RxInv, FileInv
<1>2. /\ posted[f] \in Seq(Nat) /\ delivered[f] \in Seq(Nat \cup {-1})
      /\ dequeued[f] \in Seq(Nat \cup {-1})
  BY FileTypes DEF RxInv
<1>3. IsPrefix(delivered[f], posted[f])
  BY <1>1, <1>2, PrefixIs DEF DeliveredOk
<1>4. IsPrefix(dequeued[f], delivered[f])
  BY <1>1, <1>2, PrefixIs DEF DequeuedOk
<1> QED
  BY <1>3, <1>4

-----------------------------------------------------------------------------
(* Messages and requests. *)

\* Requests queued ahead: the slots that are handed over have no pending message.
LEMMA AheadSpares == ASSUME RxInv PROVE Spared
<1> SUFFICES ASSUME txPos \div MsgsPerSlot < recycle, NEW f \in Files, data[f] # <<>>,
                    Head(data[f]).slot = SlotOf(txPos), Head(data[f]).index = txPos % MsgsPerSlot
             PROVE  FALSE
  BY DEF Spared
<1>1. TypeOK /\ data[f] \in Seq(Entries)
  BY DEF RxInv, TypeOK
<1>2. 1 \in 1 .. Len(data[f]) /\ Head(data[f]) = data[f][1]
  BY <1>1
<1>3. Head(data[f]) \in Pending /\ Head(data[f]) \in Entries
  BY <1>1, <1>2, ListsPend DEF Pending
<1>4. Head(data[f]) = Place(txPos)
  BY <1>3 DEF Entries, Place, SlotOf, QSlot
<1> QED
  BY <1>3, <1>4, NextPlaceFree

\* The proofs of VchiqRequestProofs for the constants of the scene "late".
LateMeet == INSTANCE VchiqRequestProofs WITH
  Files <- {f1}, VchiFiles <- {f1}, LateFiles <- {f1}, Kinds <- {"data", "done", "big"},
  MsgBufCount <- 1, Ahead <- 0, DequeuesAhead <- 0, MaxSlot <- 1

\* Those constants are ones of the stream.
LEMMA LateConstants == ASSUME f1 \in Files PROVE LateMeet!RxAssumption
BY RxAssumption DEF RxAssumption, NoSlot, NumSlots, None, LateMeet!RxAssumption,
   LateMeet!AllKinds, LateMeet!NoSlot, LateMeet!NumSlots, LateMeet!None

\* Late and LateMeet start alike.
LEMMA LateStarts == Late!Init => LateMeet!Init
BY DEF Late!Init, LateMeet!Init, Late!NumSlots, LateMeet!NumSlots, Late!Slots, LateMeet!Slots,
       Late!Indexes, LateMeet!Indexes, Late!NoMessage, LateMeet!NoMessage, Late!NoSlot,
       LateMeet!NoSlot, Late!None, LateMeet!None, Late!Trigger, LateMeet!Trigger,
       Late!NoThread, LateMeet!NoThread, Late!Awaiter, LateMeet!Awaiter, Late!Dequeuer,
       LateMeet!Dequeuer, Late!Threads, LateMeet!Threads

\* They have the same steps: of the firmware and the clients,
LEMMA LateOutside ==
  /\ \A f, k : Late!FwWrite(f, k) => LateMeet!FwWrite(f, k)
  /\ \A f : Late!AwaitForward(f) \/ Late!DequeueForward(f)
              => LateMeet!AwaitForward(f) \/ LateMeet!DequeueForward(f)
<1> USE DEF Late!sharedVars, LateMeet!sharedVars, Late!slotVars, LateMeet!slotVars,
           Late!fileVars, LateMeet!fileVars, Late!localVars, LateMeet!localVars,
           Late!clientVars, LateMeet!clientVars, Late!None, LateMeet!None, Late!Goto,
           LateMeet!Goto
<1>1. ASSUME NEW f, NEW k, Late!FwWrite(f, k) PROVE LateMeet!FwWrite(f, k)
  BY <1>1 DEF Late!FwWrite, LateMeet!FwWrite, Late!SlotOf, LateMeet!SlotOf
<1>2. ASSUME NEW f, Late!AwaitForward(f) PROVE LateMeet!AwaitForward(f)
  BY <1>2 DEF Late!AwaitForward, LateMeet!AwaitForward, Late!Awaiter, LateMeet!Awaiter
<1>3. ASSUME NEW f, Late!DequeueForward(f) PROVE LateMeet!DequeueForward(f)
  BY <1>3 DEF Late!DequeueForward, LateMeet!DequeueForward, Late!Dequeuer, LateMeet!Dequeuer,
         Late!NoThread, LateMeet!NoThread
<1> QED
  BY <1>1, <1>2, <1>3

\* of the trigger thread,
LEMMA LateTrigger == ASSUME Late!TriggerStep PROVE LateMeet!TriggerStep
<1> USE DEF Late!sharedVars, LateMeet!sharedVars, Late!slotVars, LateMeet!slotVars,
           Late!fileVars, LateMeet!fileVars, Late!localVars, LateMeet!localVars,
           Late!clientVars, LateMeet!clientVars, Late!None, LateMeet!None, Late!Goto,
           LateMeet!Goto
<1>1. ASSUME Late!TriggerTakeSlot PROVE LateMeet!TriggerTakeSlot
  BY <1>1 DEF Late!TriggerTakeSlot, LateMeet!TriggerTakeSlot, Late!Trigger, LateMeet!Trigger,
         Late!NoSlot, LateMeet!NoSlot, Late!SlotOf, LateMeet!SlotOf
<1>2. ASSUME Late!TriggerParse PROVE LateMeet!TriggerParse
  BY <1>2 DEF Late!TriggerParse, LateMeet!TriggerParse, Late!Trigger, LateMeet!Trigger, Late!NoSlot,
         LateMeet!NoSlot, Late!At, LateMeet!At, Late!RxHeader, LateMeet!RxHeader
<1>3. ASSUME Late!AddPendingMsg PROVE LateMeet!AddPendingMsg
  BY <1>3 DEF Late!AddPendingMsg, LateMeet!AddPendingMsg, Late!Trigger, LateMeet!Trigger,
         Late!RxHeader, LateMeet!RxHeader
<1>4. ASSUME Late!TriggerAdvance PROVE LateMeet!TriggerAdvance
  BY <1>4 DEF Late!TriggerAdvance, LateMeet!TriggerAdvance, Late!Trigger, LateMeet!Trigger,
         Late!NoSlot, LateMeet!NoSlot
<1> QED
  BY <1>1, <1>2, <1>3, <1>4 DEF Late!TriggerStep, LateMeet!TriggerStep

\* and of every thread.
LEMMA LateThread == ASSUME NEW t, Late!ThreadStep(t) PROVE LateMeet!ThreadStep(t)
<1> USE DEF Late!sharedVars, LateMeet!sharedVars, Late!slotVars, LateMeet!slotVars,
           Late!fileVars, LateMeet!fileVars, Late!localVars, LateMeet!localVars,
           Late!clientVars, LateMeet!clientVars, Late!None, LateMeet!None, Late!Goto,
           LateMeet!Goto
<1>1. ASSUME Late!DataLock(t) PROVE LateMeet!DataLock(t)
  BY <1>1 DEF Late!DataLock, LateMeet!DataLock, Late!Trigger, LateMeet!Trigger, Late!NoThread,
         LateMeet!NoThread
<1>2. ASSUME Late!ProcessPendingMsg(t) PROVE LateMeet!ProcessPendingMsg(t)
  BY <1>2 DEF Late!ProcessPendingMsg, LateMeet!ProcessPendingMsg
<1>3. ASSUME Late!RemovePendingMsg(t) PROVE LateMeet!RemovePendingMsg(t)
  BY <1>3 DEF Late!RemovePendingMsg, LateMeet!RemovePendingMsg, Late!NoThread, LateMeet!NoThread,
         Late!At, LateMeet!At, Late!Blocked, LateMeet!Blocked, Late!LoopEnds,
         LateMeet!LoopEnds, Late!CallRelease, LateMeet!CallRelease
<1>4. ASSUME Late!CompleteRequest(t) PROVE LateMeet!CompleteRequest(t)
  BY <1>4 DEF Late!CompleteRequest, LateMeet!CompleteRequest, Late!At, LateMeet!At, Late!Blocked,
         LateMeet!Blocked, Late!LoopEnds, LateMeet!LoopEnds
<1>5. ASSUME Late!DataUnlock(t) PROVE LateMeet!DataUnlock(t)
  BY <1>5 DEF Late!DataUnlock, LateMeet!DataUnlock, Late!Trigger, LateMeet!Trigger, Late!NoThread,
         LateMeet!NoThread
<1>6. ASSUME Late!VchiLock(t) PROVE LateMeet!VchiLock(t)
  BY <1>6 DEF Late!VchiLock, LateMeet!VchiLock, Late!NoThread, LateMeet!NoThread
<1>7. ASSUME Late!RemovePendingVchiMsg(t) PROVE LateMeet!RemovePendingVchiMsg(t)
  BY <1>7 DEF Late!RemovePendingVchiMsg, LateMeet!RemovePendingVchiMsg, Late!At, LateMeet!At,
         Late!CallRelease, LateMeet!CallRelease
<1>8. ASSUME Late!VchiUnlock(t) PROVE LateMeet!VchiUnlock(t)
  BY <1>8 DEF Late!VchiUnlock, LateMeet!VchiUnlock, Late!Dequeuer, LateMeet!Dequeuer, Late!NoThread,
         LateMeet!NoThread
<1>9. ASSUME Late!ReleaseMsg(t) PROVE LateMeet!ReleaseMsg(t)
  BY <1>9 DEF Late!ReleaseMsg, LateMeet!ReleaseMsg
<1>10. ASSUME Late!RecycleRead(t) PROVE LateMeet!RecycleRead(t)
  BY <1>10 DEF Late!RecycleRead, LateMeet!RecycleRead
<1>11. ASSUME Late!RecycleExchange(t) PROVE LateMeet!RecycleExchange(t)
  BY <1>11 DEF Late!RecycleExchange, LateMeet!RecycleExchange
<1>12. ASSUME Late!RecycleTest(t) PROVE LateMeet!RecycleTest(t)
  BY <1>12 DEF Late!RecycleTest, LateMeet!RecycleTest, Late!NoSlot, LateMeet!NoSlot, Late!Return,
         LateMeet!Return
<1>13. ASSUME Late!RecyclePush(t) PROVE LateMeet!RecyclePush(t)
  BY <1>13 DEF Late!RecyclePush, LateMeet!RecyclePush, Late!NoSlot, LateMeet!NoSlot, Late!Return,
         LateMeet!Return
<1> QED
  BY <1>1, <1>2, <1>3, <1>4, <1>5, <1>6, <1>7, <1>8, <1>9, <1>10, <1>11, <1>12, <1>13
     DEF Late!ThreadStep, LateMeet!ThreadStep

\* So LateMeet takes the steps of the scene "late".
LEMMA LateSteps == [Late!Next]_vars => [LateMeet!Next]_LateMeet!vars
<1>1. UNCHANGED vars => UNCHANGED LateMeet!vars
  BY DEF vars, sharedVars, slotVars, fileVars, localVars, clientVars, LateMeet!vars,
         LateMeet!sharedVars, LateMeet!slotVars, LateMeet!fileVars, LateMeet!localVars,
         LateMeet!clientVars
<1>2. Late!Threads = LateMeet!Threads /\ Late!None = LateMeet!None
  BY DEF Late!NoSlot, LateMeet!NoSlot, Late!None, LateMeet!None, Late!Trigger,
         LateMeet!Trigger, Late!NoThread, LateMeet!NoThread, Late!Awaiter, LateMeet!Awaiter,
         Late!Dequeuer, LateMeet!Dequeuer, Late!Threads, LateMeet!Threads
<1>3. Late!Next => LateMeet!Next
  BY <1>2, LateOutside, LateTrigger, LateThread DEF Late!Next, LateMeet!Next
<1> QED
  BY <1>1, <1>3

\* They have the same property.
LEMMA LateShows == LateMeet!NoStrandedMessage => Late!NoStrandedMessage
BY DEF Late!NoStrandedMessage, LateMeet!NoStrandedMessage, Late!Blocked, LateMeet!Blocked,
       Late!At, LateMeet!At, Late!NoThread, LateMeet!NoThread, Late!None, LateMeet!None,
       Late!Awaiter, LateMeet!Awaiter

-----------------------------------------------------------------------------
(***************************************************************************)
(* When the clients queue their requests ahead (LateFiles is empty): for   *)
(* every set of files and kinds of messages, every number and size of      *)
(* slots and every length of the stream, the slots from CurrentRxPos to    *)
(* Master.SlotQueueRecycle are different ones, RefCount is the number of   *)
(* messages of a slot the lists point at, and a slot that is neither the   *)
(* firmware's nor the trigger thread's has one.                            *)
(***************************************************************************)
THEOREM RxInvariant ==
  ASSUME LateFiles = {}
  PROVE  RxSpec => [](scene = "ahead" => RxInv)
<1>1. RxInit => (scene = "ahead" => RxInv)
  BY RxInitially, RxAssumption DEF RxInit
<1>2. (scene = "ahead" => RxInv) /\ [RxNext]_rxVars => (scene = "ahead" => RxInv)'
  BY RxStep, RxAssumption DEF RxNext, rxVars
<1> QED
  BY <1>1, <1>2, PTL DEF RxSpec

(***************************************************************************)
(* VchiqRecycleSlot returns no slot to the firmware a message of which is  *)
(* still in PendingDataMsgList or PendingVchiMsgList.                      *)
(***************************************************************************)
THEOREM RxNoEarlyRecycleHolds ==
  ASSUME LateFiles = {}
  PROVE  RxSpec => []RxNoEarlyRecycle
<1>1. (scene = "ahead" => RxInv) => RxNoEarlyRecycle
  BY NoEarlyRecycleFollows DEF RxNoEarlyRecycle
<1> QED
  BY <1>1, RxInvariant, PTL

(***************************************************************************)
(* VchiqRecycleSlot returns a slot once per use, and not the one that is   *)
(* being parsed.                                                           *)
(***************************************************************************)
THEOREM RxRecycledOnceHolds ==
  ASSUME LateFiles = {}
  PROVE  RxSpec => []RxRecycledOnce
<1>1. (scene = "ahead" => RxInv) => RxRecycledOnce
  BY RecycledOnceFollows DEF RxRecycledOnce
<1> QED
  BY <1>1, RxInvariant, PTL

(***************************************************************************)
(* VchiqReleaseMsg leaks no reference: when the trigger thread is at rest  *)
(* and the lists are empty the firmware has every slot but the one that is *)
(* being parsed.                                                           *)
(***************************************************************************)
THEOREM RxNoSlotLeakHolds ==
  ASSUME LateFiles = {}
  PROVE  RxSpec => []RxNoSlotLeak
<1>1. (scene = "ahead" => RxInv) => RxNoSlotLeak
  BY NoSlotLeakFollows DEF RxNoSlotLeak
<1> QED
  BY <1>1, RxInvariant, PTL

(***************************************************************************)
(* VchiqRemovePendingMsg hands a client the data messages the firmware     *)
(* sent to its service, in order and each once, though the firmware goes   *)
(* on to write over the slots that were returned; and                      *)
(* VchiqRemovePendingVchiMsg those that were handed over, again in order.  *)
(***************************************************************************)
THEOREM RxDeliveredIsPostedHolds ==
  ASSUME LateFiles = {}
  PROVE  RxSpec => []RxDeliveredIsPosted
<1>1. (scene = "ahead" => RxInv) => RxDeliveredIsPosted
  BY DeliveredIsPostedFollows DEF RxDeliveredIsPosted
<1> QED
  BY <1>1, RxInvariant, PTL

\* What holds in each scene.
StrandedInv ==
  /\ scene = "ahead" => RxInv /\ MeetInv
  /\ scene = "late" => LateMeet!MeetInv /\ LateMeet!OneSlot
  /\ scene \in {"bulk", "service"} => data[f1] = <<>> /\ vchi[f1] = <<>>
  /\ scene \in {"ahead", "late", "bulk", "service"}

(***************************************************************************)
(* VchiqProcessPendingMsg and VchiqProcessPendingVchiMsg leave no message  *)
(* beside a request for it, neither when all requests are queued ahead nor *)
(* when AWAIT_COMPLETION and DEQUEUE_MESSAGE come at any time: the ioctl   *)
(* that forwards a request without the mutex takes the mutex next, and who *)
(* completes a request looks at the other queue before the mutex is freed. *)
(***************************************************************************)
THEOREM RxNoStrandedMessageHolds ==
  ASSUME LateFiles = {}, f1 \in Files
  PROVE  RxSpec => []RxNoStrandedMessage
<1>0. LateMeet!RxAssumption
  BY LateConstants
<1>1. RxInit => StrandedInv
  <2> SUFFICES ASSUME RxInit PROVE StrandedInv
    OBVIOUS
  <2>1. CASE scene = "late" /\ Late!Init
    <3>1. LateMeet!MeetInv /\ LateMeet!OneSlot
      BY <1>0, <2>1, LateStarts, LateMeet!MeetStarts, LateMeet!OneSlotStarts
    <3> QED
      BY <2>1, <3>1 DEF StrandedInv
  <2>2. CASE scene \in {"ahead", "bulk", "service"} /\ Init
    <3>1. RxInv /\ MeetInv
      BY <2>2, RxAssumption, RxInitially, MeetStarts
    <3>2. data[f1] = <<>> /\ vchi[f1] = <<>>
      BY <2>2 DEF Init
    <3> QED
      BY <2>2, <3>1, <3>2 DEF StrandedInv
  <2> QED
    BY <2>1, <2>2 DEF RxInit
<1>2. StrandedInv /\ [RxNext]_rxVars => StrandedInv'
  <2> SUFFICES ASSUME StrandedInv, [RxNext]_rxVars PROVE StrandedInv'
    OBVIOUS
  <2>1. scene' = scene
    BY DEF RxNext, rxVars
  <2>2. CASE scene = "ahead"
    <3>1. [Next]_vars
      BY <2>2 DEF RxNext, rxVars
    <3>2. RxInv'
      BY <2>2, <3>1, RxAssumption, RxStep DEF StrandedInv
    <3>3. MeetInv'
      BY <2>2, <3>1, RxAssumption, AheadSpares, MeetStep DEF StrandedInv
    <3> QED
      BY <2>1, <2>2, <3>2, <3>3 DEF StrandedInv
  <2>3. CASE scene = "late"
    <3>1. [LateMeet!Next]_LateMeet!vars
      BY <2>3, LateSteps DEF RxNext, rxVars
    <3>2. LateMeet!MeetInv /\ LateMeet!OneSlot
      BY <2>3 DEF StrandedInv
    <3>3. LateMeet!Spared
      BY <1>0, <3>2, LateMeet!OneSlotSpares
    <3>4. LateMeet!MeetInv'
      BY <1>0, <3>1, <3>2, <3>3, LateMeet!MeetStep
    <3>5. LateMeet!OneSlot'
      BY <1>0, <3>1, <3>2, LateMeet!OneSlotStep
    <3> QED
      BY <2>1, <2>3, <3>4, <3>5 DEF StrandedInv
  <2>4. CASE scene \in {"bulk", "service"}
    <3>1. UNCHANGED vars
      BY <2>4 DEF RxNext, rxVars
    <3>2. data' = data /\ vchi' = vchi
      BY <3>1 DEF vars, fileVars
    <3> QED
      BY <2>1, <2>4, <3>2 DEF StrandedInv
  <2> QED
    BY <2>2, <2>3, <2>4 DEF StrandedInv
<1>3. StrandedInv => RxNoStrandedMessage
  <2> SUFFICES ASSUME StrandedInv PROVE RxNoStrandedMessage
    OBVIOUS
  <2>1. CASE scene = "ahead"
    BY <2>1, RxAssumption, MeetShows DEF StrandedInv, RxNoStrandedMessage
  <2>2. CASE scene = "late"
    <3>1. LateMeet!NoStrandedMessage
      BY <1>0, <2>2, LateMeet!MeetShows DEF StrandedInv
    <3> QED
      BY <2>2, <3>1, LateShows DEF RxNoStrandedMessage
  <2>3. CASE scene \in {"bulk", "service"}
    <3>1. data[f1] = <<>> /\ vchi[f1] = <<>>
      BY <2>3 DEF StrandedInv
    <3>2. Late!NoStrandedMessage
      BY <3>1 DEF Late!NoStrandedMessage, Late!Blocked
    <3> QED
      BY <2>3, <3>2 DEF RxNoStrandedMessage
  <2> QED
    BY <2>1, <2>2, <2>3 DEF StrandedInv
<1> QED
  BY <1>1, <1>2, <1>3, PTL DEF RxSpec
=============================================================================
