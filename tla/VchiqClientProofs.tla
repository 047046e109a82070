--------------------------- MODULE VchiqClientProofs ---------------------------
(* What the runs check on two transfers and on a few files of a client, for every
   set of transfers, every set of files and every number of ports.

   Bulk transfers.  A bulk request is in two orders at once: PendingBulkMsgList, from whose head
   VchiqRemovePendingBulkMsg takes the user data a client is told, and the WDF
   queue from whose head VchiqProcessRxSlot completes a request for every DONE
   message.  Nothing in the code ties one
   to the other: that each answer reaches its own request is a consequence of
   both being kept in one order.  So the invariant says what each of them is
   made of:

     queue = what the firmware has done (toArm) \o what it has still to do
             (toFirmware) \o what the handler is sending,
     list  = what the client will be told (inbox, hand) \o the queue,

   as long as no request was cancelled or failed half way (upset = {}).  A
   request in the queue has no answer yet, and this holds whatever fails.

   Services.  See the second part. *)
EXTENDS VchiqBulk, VchiqService, SequenceTheorems, TLAPS

\* The fields of the port.
BulkFields == {"pc", "cur", "state", "list", "queue", "pages", "toFirmware", "moved", "toArm",
               "hand", "inbox", "twice", "mixed", "upset"}

\* The fields, by name.
pc == blk.pc
cur == blk.cur
state == blk.state
list == blk.list
queue == blk.queue
pages == blk.pages
toFirmware == blk.toFirmware
moved == blk.moved
toArm == blk.toArm
hand == blk.hand
inbox == blk.inbox
twice == blk.twice
mixed == blk.mixed
upset == blk.upset

\* The handler has put its transfer into the queue.
Held == pc \in {"forwarded", "mapped", "remove", "retrieve"}

\* BULK_RX_DONE and BULK_TX_DONE messages.
DoneMsgs == [bulk : Bulks, ok : BOOLEAN]

\* The fields hold what the handlers put there.
BulkTyped ==
  /\ DOMAIN blk = BulkFields /\ DOMAIN state = Bulks
  /\ pc \in {"idle", "listed", "forwarded", "mapped", "remove", "retrieve"}
  /\ pc # "idle" => cur \in Bulks
  /\ list \in Seq(Bulks) /\ queue \in Seq(Bulks)
  /\ toFirmware \in Seq(Bulks) /\ inbox \in Seq(Bulks)
  /\ toArm \in Seq(DoneMsgs)
  /\ hand \in Bulks \cup {NoBulk}

\* A request in the queue has no answer yet, and is there once.
BulkQueued ==
  /\ ~twice
  /\ \A i \in 1 .. Len(queue) : state[queue[i]] = "active"
  /\ \A i, j \in 1 .. Len(queue) : queue[i] = queue[j] => i = j
  /\ pc = "listed" =>
       /\ state[cur] = "active"
       /\ \A i \in 1 .. Len(queue) : queue[i] # cur

\* The queue is what the firmware has done, ...
QueueLength ==
  Len(queue) = Len(toArm) + Len(toFirmware) + (IF Held THEN 1 ELSE 0)

QueueDone ==
  \A i \in 1 .. Len(toArm) :
    queue[i] = toArm[i].bulk /\ (toArm[i].ok => toArm[i].bulk \in moved)

\* ... what it has still to do ...
QueueSent ==
  \A i \in 1 .. Len(toFirmware) :
    queue[Len(toArm) + i] = toFirmware[i] /\ toFirmware[i] \in pages

\* ... and what is being sent.
QueueHeld ==
  /\ Held => queue[Len(queue)] = cur
  /\ pc = "mapped" => cur \in pages

\* A request completed with success is one the firmware has moved.
SuccessIsMoved == \A b \in Bulks : state[b] = "success" => b \in moved

\* The order of the queue.
BulkPipeline == QueueLength /\ QueueDone /\ QueueSent /\ QueueHeld /\ SuccessIsMoved

\* DONE messages on their way to the client's list.
Told == Len(inbox) + (IF hand = NoBulk THEN 0 ELSE 1)

\* The list is what the client will be told, ...
ListLength ==
  Len(list) + (IF pc = "retrieve" THEN 1 ELSE 0)
    = Told + Len(queue) + (IF pc = "listed" THEN 1 ELSE 0)

ListFirst ==
  /\ \A i \in 1 .. Len(inbox) : list[i] = inbox[i]
  /\ hand # NoBulk => list[Told] = hand

\* ... then the queue, with what is about to be in it and without what failed.
ListRest ==
  /\ \A i \in 1 .. Len(queue) : Told + i <= Len(list) => list[Told + i] = queue[i]
  /\ pc = "listed" => list[Len(list)] = cur

\* The order of the list; no completion took another transfer's buffer.
BulkListed == ~mixed /\ ListLength /\ ListFirst /\ ListRest

\* The inductive invariant.
BulkInv == BulkTyped /\ BulkQueued /\ (upset = {} => BulkPipeline /\ BulkListed)

-----------------------------------------------------------------------------

\* What putting an entry at the end of a list returns (InsertTailList).
LEMMA AppendIs ==
  ASSUME NEW S, NEW q \in Seq(S), NEW x \in S
  PROVE  /\ Append(q, x) \in Seq(S) /\ Len(Append(q, x)) = Len(q) + 1
         /\ Append(q, x)[Len(q) + 1] = x
         /\ \A i \in 1 .. Len(q) : Append(q, x)[i] = q[i]
OBVIOUS

\* What is left when the first entry is taken (RemoveHeadList).
LEMMA TailIs ==
  ASSUME NEW S, NEW q \in Seq(S), q # <<>>
  PROVE  /\ Head(q) \in S /\ Head(q) = q[1] /\ Len(q) \in Nat \ {0}
         /\ Tail(q) \in Seq(S) /\ Len(Tail(q)) = Len(q) - 1
         /\ \A i \in 1 .. Len(q) - 1 : Tail(q)[i] = q[i + 1]
OBVIOUS

\* What is left when the last entry is taken back (VchiqRemovePendingBulkMsg).
LEMMA FrontIs ==
  ASSUME NEW S, NEW q \in Seq(S), q # <<>>
  PROVE  /\ Front(q) \in Seq(S) /\ Len(Front(q)) = Len(q) - 1
         /\ \A i \in 1 .. Len(q) - 1 : Front(q)[i] = q[i]
<1> DEFINE n == Len(q)
<1>1. n \in 1 .. Len(q)
  OBVIOUS
<1> HIDE DEF n
<1>2. /\ SubSeq(q, 1, n - 1) \in Seq(S) /\ Len(SubSeq(q, 1, n - 1)) = n - 1
      /\ \A i \in 1 .. (n - 1) : SubSeq(q, 1, n - 1)[i] = q[i]
  BY <1>1
<1> QED
  BY <1>2 DEF Front, n

\* The entries of a list without its n-th entry: those behind it move up by one.
LEMMA RemoveAtEntries ==
  ASSUME NEW S, NEW q \in Seq(S), NEW i \in 1..Len(q)
  PROVE  /\ Len(RemoveAt(q, i)) = Len(q) - 1
         /\ \A k \in 1..(Len(q) - 1) :
              RemoveAt(q, i)[k] = IF k < i THEN q[k] ELSE q[k + 1]
<1> DEFINE front == SubSeq(q, 1, i - 1)
           back == SubSeq(q, i + 1, Len(q))
<1>1. /\ front \in Seq(S) /\ Len(front) = i - 1
      /\ \A k \in 1..(i - 1) : front[k] = q[k]
  OBVIOUS
<1>2. /\ back \in Seq(S) /\ Len(back) = Len(q) - i
      /\ \A k \in 1..(Len(q) - i) : back[k] = q[i + k]
  OBVIOUS
<1>3. RemoveAt(q, i) = front \o back
  BY DEF RemoveAt
<1> HIDE DEF front, back
<1>4. /\ Len(front \o back) = Len(front) + Len(back)
      /\ \A k \in 1..(Len(front) + Len(back)) :
           (front \o back)[k] = IF k <= Len(front) THEN front[k] ELSE back[k - Len(front)]
  BY <1>1, <1>2, ConcatProperties
<1>5. Len(q) \in Nat
  OBVIOUS
<1>6. ASSUME NEW k \in 1..(Len(q) - 1)
      PROVE  (front \o back)[k] = IF k < i THEN q[k] ELSE q[k + 1]
  <2>1. CASE k < i
    BY <1>1, <1>2, <1>4, <1>5, <2>1
  <2>2. CASE ~(k < i)
    <3>1. k - (i - 1) \in 1..(Len(q) - i)
      BY <1>5, <2>2
    <3>2. back[k - (i - 1)] = q[i + (k - (i - 1))]
      BY <1>2, <3>1
    <3>3. i + (k - (i - 1)) = k + 1
      OBVIOUS
    <3> QED
      BY <1>1, <1>2, <1>4, <1>5, <2>2, <3>2, <3>3
  <2> QED
    BY <2>1, <2>2
<1> QED
  BY <1>1, <1>2, <1>3, <1>4, <1>5, <1>6

\* A list without its n-th entry is a list of the same things, one shorter.
LEMMA RemoveAtIs ==
  ASSUME NEW S, NEW q \in Seq(S), NEW i \in 1 .. Len(q)
  PROVE  RemoveAt(q, i) \in Seq(S)
<1>1. SubSeq(q, 1, i - 1) \in Seq(S)
  OBVIOUS
<1>2. SubSeq(q, i + 1, Len(q)) \in Seq(S)
  OBVIOUS
<1> QED
  BY <1>1, <1>2, ConcatProperties DEF RemoveAt

\* Taking a request out of the queue by name (WdfIoQueueRetrieveFoundRequest) is
\* taking it out at some place it is at.
LEMMA TakenFromAt ==
  ASSUME NEW q, NEW b, NEW n \in 1 .. Len(q), q[n] = b,
         \A i, j \in 1 .. Len(q) : q[i] = q[j] => i = j
  PROVE  TakenFrom(q, b) = RemoveAt(q, n)
<1> DEFINE k == CHOOSE i \in 1 .. Len(q) : q[i] = b
<1>1. k \in 1 .. Len(q) /\ q[k] = b
  OBVIOUS
<1>2. k = n
  BY <1>1
<1> QED
  BY <1>2 DEF TakenFrom

\* DropLast of a list, which may be empty.
LEMMA DropLastIs ==
  ASSUME NEW S, NEW q \in Seq(S), NEW r, r = IF q = <<>> THEN q ELSE Front(q)
  PROVE  /\ r \in Seq(S)
         /\ Len(q) > 0 => Len(r) = Len(q) - 1 /\ \A i \in 1 .. Len(r) : r[i] = q[i]
<1>1. CASE q = <<>>
  BY <1>1
<1>2. CASE q # <<>>
  BY <1>2, FrontIs
<1> QED
  BY <1>1, <1>2

\* What VchiqRemovePendingBulkMsg leaves of a list, which may be empty.
LEMMA DropHeadIs ==
  ASSUME NEW S, NEW q \in Seq(S), NEW r, r = IF q = <<>> THEN q ELSE Tail(q)
  PROVE  /\ r \in Seq(S)
         /\ Len(q) > 0 => Len(r) = Len(q) - 1 /\ \A i \in 1 .. Len(r) : r[i] = q[i + 1]
<1>1. CASE q = <<>>
  BY <1>1
<1>2. CASE q # <<>>
  BY <1>2, TailIs
<1> QED
  BY <1>1, <1>2

\* No entry is there twice, ...
Apart(q) == \A i, j \in 1 .. Len(q) : q[i] = q[j] => i = j

\* ... and what is left of q is in q and not b.
EntriesOf(r, q, b) == \A i \in 1 .. Len(r) : \E k \in 1 .. Len(q) : r[i] = q[k] /\ q[k] # b

\* Without one of its entries, a list without repetitions has none, and only other entries.
LEMMA RemoveApart ==
  ASSUME NEW S, NEW q \in Seq(S), NEW n \in 1 .. Len(q),
         Apart(q)
  PROVE  Apart(RemoveAt(q, n)) /\ EntriesOf(RemoveAt(q, n), q, q[n])
<1> DEFINE r == RemoveAt(q, n)
<1> DEFINE k(i) == IF i < n THEN i ELSE i + 1
<1>0. /\ Len(r) = Len(q) - 1
      /\ \A i \in 1 .. Len(q) - 1 : r[i] = IF i < n THEN q[i] ELSE q[i + 1]
  BY RemoveAtEntries
<1> HIDE DEF r
<1>1. Len(r) = Len(q) - 1 /\ \A i \in 1 .. Len(q) - 1 : r[i] = q[k(i)]
  BY <1>0
<1>2. /\ \A i \in 1 .. Len(r) : k(i) \in 1 .. Len(q) /\ k(i) # n
      /\ \A i, j \in 1 .. Len(r) : k(i) = k(j) => i = j
  BY <1>1
<1>3. \A i \in 1 .. Len(r) : r[i] = q[k(i)]
  BY <1>1
<1> HIDE DEF k
<1>4. ASSUME NEW i \in 1 .. Len(r)
      PROVE  \E j \in 1 .. Len(q) : r[i] = q[j] /\ q[j] # q[n]
  <2>1. k(i) \in 1 .. Len(q) /\ r[i] = q[k(i)] /\ k(i) # n
    BY <1>2, <1>3
  <2>2. q[k(i)] # q[n]
    BY <2>1 DEF Apart
  <2> QED
    BY <2>1, <2>2
<1>5. ASSUME NEW i \in 1 .. Len(r), NEW j \in 1 .. Len(r), r[i] = r[j] PROVE i = j
  BY <1>2, <1>3, <1>5 DEF Apart
<1> QED
  BY <1>4, <1>5 DEF Apart, EntriesOf, r

\* The same for its first entry.
LEMMA TailApart ==
  ASSUME NEW S, NEW q \in Seq(S), q # <<>>,
         Apart(q)
  PROVE  Apart(Tail(q)) /\ EntriesOf(Tail(q), q, Head(q))
<1> DEFINE r == Tail(q)
<1>1. Len(r) = Len(q) - 1 /\ (\A i \in 1 .. Len(q) - 1 : r[i] = q[i + 1]) /\ Head(q) = q[1]
      /\ Len(q) \in Nat \ {0}
  BY TailIs
<1> HIDE DEF r
<1>2. /\ \A i \in 1 .. Len(r) : i + 1 \in 1 .. Len(q) /\ i + 1 # 1 /\ r[i] = q[i + 1]
      /\ \A i, j \in 1 .. Len(r) : i + 1 = j + 1 => i = j
      /\ 1 \in 1 .. Len(q)
  BY <1>1
<1>3. ASSUME NEW i \in 1 .. Len(r)
      PROVE  \E j \in 1 .. Len(q) : r[i] = q[j] /\ q[j] # Head(q)
  <2>1. i + 1 \in 1 .. Len(q) /\ r[i] = q[i + 1] /\ i + 1 # 1
    BY <1>2
  <2>2. q[i + 1] # q[1]
    BY <2>1, <1>2 DEF Apart
  <2> QED
    BY <2>1, <2>2, <1>1
<1>4. Apart(r)
  BY <1>2 DEF Apart
<1> QED
  BY <1>3, <1>4 DEF r, EntriesOf

\* The names stand for the fields, before and after a step.
LEMMA Fields ==
  /\ pc = blk.pc /\ cur = blk.cur /\ state = blk.state /\ list = blk.list
  /\ queue = blk.queue /\ pages = blk.pages /\ toFirmware = blk.toFirmware /\ moved = blk.moved
  /\ toArm = blk.toArm /\ hand = blk.hand /\ inbox = blk.inbox /\ twice = blk.twice
  /\ mixed = blk.mixed /\ upset = blk.upset /\ pc' = blk'.pc /\ cur' = blk'.cur
  /\ state' = blk'.state /\ list' = blk'.list /\ queue' = blk'.queue /\ pages' = blk'.pages
  /\ toFirmware' = blk'.toFirmware /\ moved' = blk'.moved /\ toArm' = blk'.toArm /\ hand' = blk'.hand
  /\ inbox' = blk'.inbox /\ twice' = blk'.twice /\ mixed' = blk'.mixed /\ upset' = blk'.upset
BY DEF pc, cur, state, list, queue, pages, toFirmware, moved, toArm, hand, inbox, twice, mixed, upset

\* Completing a request that has no answer gives it one, frees its pages and leaves the rest.
LEMMA CompleteIs ==
  ASSUME NEW s, DOMAIN s = BulkFields, DOMAIN s.state = Bulks, NEW b \in Bulks, NEW how,
         s.state[b] = "active", ~s.twice, NEW t, t = BulkComplete(s, b, how)
  PROVE  /\ DOMAIN t = BulkFields /\ t.state = [s.state EXCEPT ![b] = how]
         /\ t.pages = s.pages \ {b} /\ ~t.twice
         /\ t.pc = s.pc /\ t.cur = s.cur /\ t.list = s.list /\ t.queue = s.queue
         /\ t.toFirmware = s.toFirmware /\ t.moved = s.moved /\ t.toArm = s.toArm
         /\ t.hand = s.hand /\ t.inbox = s.inbox /\ t.mixed = s.mixed /\ t.upset = s.upset
BY DEF BulkComplete, BulkFields

-----------------------------------------------------------------------------

\* Nothing is listed, queued or sent at the start.
LEMMA BulkInitially == BulkInit => BulkInv
BY BulkAssumption, Fields
DEF BulkInit, BulkInv, BulkTyped, BulkFields, BulkQueued, BulkPipeline, BulkListed, QueueLength,
    QueueDone, QueueSent, QueueHeld, SuccessIsMoved, ListLength,
    ListFirst, ListRest, Held, Told

\* The lengths the invariant counts with are numbers.
LEMMA BulkNumbers ==
  ASSUME BulkTyped
  PROVE  /\ Len(list) \in Nat /\ Len(queue) \in Nat /\ Len(toArm) \in Nat
         /\ Len(toFirmware) \in Nat /\ Len(inbox) \in Nat /\ Told \in Nat
         /\ hand # NoBulk => Told = Len(inbox) + 1
         /\ hand = NoBulk => Told = Len(inbox)
<1>1. /\ Len(list) \in Nat /\ Len(queue) \in Nat /\ Len(toArm) \in Nat
      /\ Len(toFirmware) \in Nat /\ Len(inbox) \in Nat
  BY DEF BulkTyped
<1>2. CASE hand = NoBulk
  BY <1>1, <1>2 DEF Told
<1>3. CASE hand # NoBulk
  BY <1>1, <1>3 DEF Told
<1> QED
  BY <1>1, <1>2, <1>3

\* The handler lists a transfer, or fails.
LEMMA AddPendingKept == ASSUME BulkInv, NEW b \in Bulks, AddPendingBulkMsg(b) PROVE BulkInv'
<1>0. /\ BulkTyped /\ BulkQueued /\ NoBulk \notin Bulks
      /\ upset = {} => BulkPipeline /\ BulkListed
  BY BulkAssumption DEF BulkInv
<1>2. /\ Len(list) \in Nat /\ Len(queue) \in Nat /\ Len(toArm) \in Nat
      /\ Len(toFirmware) \in Nat /\ Len(inbox) \in Nat /\ Told \in Nat
      /\ hand # NoBulk => Told = Len(inbox) + 1
      /\ hand = NoBulk => Told = Len(inbox)
  BY <1>0, BulkNumbers
<1>1. pc = "idle" /\ state[b] = "new" /\ b \in Bulks
  BY Fields DEF AddPendingBulkMsg
<1>3. CASE blk' = [blk EXCEPT !.state[b] = "active", !.pc = "listed", !.cur = b,
                              !.list = Append(@, b)]
  <2>1. /\ DOMAIN blk' = BulkFields
        /\ pc' = "listed"
        /\ cur' = b
        /\ state' = [state EXCEPT ![b] = "active"]
        /\ list' = Append(list, b)
        /\ queue' = queue /\ pages' = pages /\ toFirmware' = toFirmware
        /\ moved' = moved /\ toArm' = toArm /\ hand' = hand
        /\ inbox' = inbox /\ twice' = twice /\ mixed' = mixed
        /\ upset' = upset
    BY <1>0, <1>1, <1>3, Fields DEF BulkTyped, BulkFields
  <2>8. /\ list' \in Seq(Bulks) /\ Len(list') = Len(list) + 1
        /\ list'[Len(list) + 1] = b
        /\ \A i \in 1 .. Len(list) : list'[i] = list[i]
    BY <2>1, <1>0, <1>1, AppendIs DEF BulkTyped
  <2>3. BulkTyped'
    BY <2>1, <2>8, <1>0, <1>1 DEF BulkTyped
  <2>4. BulkQueued'
    BY <2>1, <2>8, <1>0, <1>2, <1>1 DEF BulkQueued, BulkTyped
  <2>5. ASSUME upset' = {} PROVE BulkPipeline' /\ BulkListed'
    <3>1. /\ QueueLength /\ QueueDone /\ QueueSent /\ QueueHeld /\ SuccessIsMoved
          /\ ListLength /\ ListFirst /\ ListRest /\ ~mixed
      BY <1>0, <2>1, <2>5 DEF BulkPipeline, BulkListed
    <3>2. Len(queue) = Len(toArm) + Len(toFirmware)
      BY <3>1, <1>1, <1>2 DEF QueueLength, Held
    <3>3. Len(list) = Told + Len(queue)
      BY <3>1, <1>1, <1>2 DEF ListLength
    <3>4. Told' = Told
      BY <2>1 DEF Told
    <3>5. QueueLength'
      BY <2>1, <1>1, <3>1, <3>2, <3>3, <1>2 DEF QueueLength, Held
    <3>6. QueueDone'
      BY <2>1, <3>1 DEF QueueDone
    <3>7. QueueSent'
      BY <2>1, <3>1 DEF QueueSent
    <3>8. QueueHeld'
      BY <2>1, <1>1, <3>1, <3>2, <3>3, <1>2 DEF QueueHeld, Held
    <3>9. SuccessIsMoved'
      BY <2>1, <1>1, <3>1, <3>2, <3>3, <1>2 DEF SuccessIsMoved
    <3>10. ListLength'
      BY <2>1, <2>8, <1>1, <3>1, <3>2, <3>3, <3>4, <1>2 DEF ListLength
    <3>11. ListFirst'
      BY <2>1, <2>8, <1>1, <3>1, <3>2, <3>3, <3>4, <1>2 DEF ListFirst
    <3>12. ListRest'
      BY <2>1, <2>8, <1>1, <3>1, <3>2, <3>3, <3>4, <1>2 DEF ListRest
    <3>13. ~mixed'
      BY <2>1, <3>1
    <3> QED
      BY <3>5, <3>6, <3>7, <3>8, <3>9, <3>10, <3>11, <3>12, <3>13 DEF BulkPipeline, BulkListed
  <2> QED
    BY <2>3, <2>4, <2>5 DEF BulkInv
<1>4. CASE blk' = BulkComplete([blk EXCEPT !.state[b] = "active"], b, "failed")
  <2>1. /\ DOMAIN blk' = BulkFields
        /\ state' = [state EXCEPT ![b] = "failed"]
        /\ pages' = pages \ {b}
        /\ pc' = pc /\ cur' = cur /\ list' = list
        /\ queue' = queue /\ toFirmware' = toFirmware /\ moved' = moved
        /\ toArm' = toArm /\ hand' = hand /\ inbox' = inbox
        /\ twice' = twice /\ mixed' = mixed /\ upset' = upset
    BY <1>0, <1>1, <1>4, Fields DEF BulkTyped, BulkFields, BulkQueued, BulkComplete
  <2>3. BulkTyped'
    BY <2>1, <1>0, <1>1 DEF BulkTyped
  <2>4. BulkQueued'
    BY <2>1, <1>0, <1>2, <1>1 DEF BulkQueued
  <2>5. ASSUME upset' = {} PROVE BulkPipeline' /\ BulkListed'
    <3>1. /\ QueueLength /\ QueueDone /\ QueueSent /\ QueueHeld /\ SuccessIsMoved
          /\ ListLength /\ ListFirst /\ ListRest /\ ~mixed
      BY <1>0, <2>1, <2>5 DEF BulkPipeline, BulkListed
    <3>2. Len(queue) = Len(toArm) + Len(toFirmware)
      BY <3>1, <1>1, <1>2 DEF QueueLength, Held
    <3>3. Len(list) = Told + Len(queue)
      BY <3>1, <1>1, <1>2 DEF ListLength
    <3>4. Told' = Told
      BY <2>1 DEF Told
    <3>5. QueueLength'
      BY <2>1, <3>1 DEF QueueLength, Held
    <3>6. QueueDone'
      BY <2>1, <3>1 DEF QueueDone
    <3>7. QueueSent'
      <4> SUFFICES ASSUME NEW i \in 1 .. Len(toFirmware)
                  PROVE  /\ queue[Len(toArm) + i] = toFirmware[i]
                         /\ toFirmware[i] \in pages \ {b}
        BY <2>1 DEF QueueSent
      <4>1. Len(toArm) + i \in 1 .. Len(queue)
        BY <3>2, <1>2
      <4>2. queue[Len(toArm) + i] = toFirmware[i] /\ toFirmware[i] \in pages
        BY <3>1 DEF QueueSent
      <4>3. state[toFirmware[i]] = "active"
        BY <4>1, <4>2, <1>0 DEF BulkQueued
      <4> QED
        BY <4>2, <4>3, <1>1
    <3>8. QueueHeld'
      BY <2>1, <1>1, <3>1, <3>2, <3>3, <1>2 DEF QueueHeld, Held
    <3>9. SuccessIsMoved'
      BY <2>1, <1>1, <3>1, <3>2, <3>3, <1>2 DEF SuccessIsMoved, BulkTyped
    <3>10. ListLength'
      BY <2>1, <3>1, <3>4 DEF ListLength
    <3>11. ListFirst'
      BY <2>1, <3>1, <3>4 DEF ListFirst
    <3>12. ListRest'
      BY <2>1, <3>1, <3>4 DEF ListRest
    <3>13. ~mixed'
      BY <2>1, <3>1
    <3> QED
      BY <3>5, <3>6, <3>7, <3>8, <3>9, <3>10, <3>11, <3>12, <3>13 DEF BulkPipeline, BulkListed
  <2> QED
    BY <2>3, <2>4, <2>5 DEF BulkInv
<1> QED
  BY <1>3, <1>4 DEF AddPendingBulkMsg

\* The request is put into the queue, or fails and takes its entry back.
LEMMA ForwardKept == ASSUME BulkInv, ForwardBulk PROVE BulkInv'
<1>0. /\ BulkTyped /\ BulkQueued /\ NoBulk \notin Bulks
      /\ upset = {} => BulkPipeline /\ BulkListed
  BY BulkAssumption DEF BulkInv
<1>2. /\ Len(list) \in Nat /\ Len(queue) \in Nat /\ Len(toArm) \in Nat
      /\ Len(toFirmware) \in Nat /\ Len(inbox) \in Nat /\ Told \in Nat
      /\ hand # NoBulk => Told = Len(inbox) + 1
      /\ hand = NoBulk => Told = Len(inbox)
  BY <1>0, BulkNumbers
<1>1. pc = "listed" /\ cur \in Bulks
  BY <1>0, Fields DEF ForwardBulk, BulkTyped
<1>3. CASE blk' = [blk EXCEPT !.pc = "forwarded", !.queue = Append(@, blk.cur)]
  <2>1. /\ DOMAIN blk' = BulkFields
        /\ pc' = "forwarded"
        /\ queue' = Append(queue, cur)
        /\ cur' = cur /\ state' = state /\ list' = list
        /\ pages' = pages /\ toFirmware' = toFirmware /\ moved' = moved
        /\ toArm' = toArm /\ hand' = hand /\ inbox' = inbox
        /\ twice' = twice /\ mixed' = mixed /\ upset' = upset
    BY <1>0, <1>1, <1>3, Fields DEF BulkTyped, BulkFields
  <2>8. /\ queue' \in Seq(Bulks) /\ Len(queue') = Len(queue) + 1
        /\ queue'[Len(queue) + 1] = cur
        /\ \A i \in 1 .. Len(queue) : queue'[i] = queue[i]
    BY <2>1, <1>0, <1>1, AppendIs DEF BulkTyped
  <2>3. BulkTyped'
    BY <2>1, <2>8, <1>0, <1>1 DEF BulkTyped
  <2>4. BulkQueued'
    BY <2>1, <2>8, <1>0, <1>2, <1>1 DEF BulkQueued
  <2>5. ASSUME upset' = {} PROVE BulkPipeline' /\ BulkListed'
    <3>1. /\ QueueLength /\ QueueDone /\ QueueSent /\ QueueHeld /\ SuccessIsMoved
          /\ ListLength /\ ListFirst /\ ListRest /\ ~mixed
      BY <1>0, <2>1, <2>5 DEF BulkPipeline, BulkListed
    <3>2. Len(queue) = Len(toArm) + Len(toFirmware)
      BY <3>1, <1>1, <1>2 DEF QueueLength, Held
    <3>3. Len(list) = Told + Len(queue) + 1
      BY <3>1, <1>1, <1>2 DEF ListLength
    <3>4. Told' = Told
      BY <2>1 DEF Told
    <3>5. QueueLength'
      BY <2>1, <2>8, <1>1, <3>1, <3>2, <3>3, <1>2 DEF QueueLength, Held
    <3>6. QueueDone'
      BY <2>1, <2>8, <1>1, <3>1, <3>2, <3>3, <1>2 DEF QueueDone
    <3>7. QueueSent'
      <4>1. \A i \in 1 .. Len(toFirmware) : Len(toArm) + i \in 1 .. Len(queue)
        BY <3>2, <1>2
      <4> QED
        BY <4>1, <2>1, <2>8, <3>1 DEF QueueSent
    <3>8. QueueHeld'
      BY <2>1, <2>8, <1>1, <3>1, <3>2, <3>3, <1>2 DEF QueueHeld, Held
    <3>9. SuccessIsMoved'
      BY <2>1, <3>1 DEF SuccessIsMoved
    <3>10. ListLength'
      BY <2>1, <2>8, <1>1, <3>1, <3>2, <3>3, <3>4, <1>2 DEF ListLength
    <3>11. ListFirst'
      BY <2>1, <3>1, <3>4 DEF ListFirst
    <3>12. ListRest'
      <4>1. pc' = "forwarded" /\ list' = list /\ Len(queue') = Len(queue) + 1 /\ Told' = Told
        BY <2>1, <2>8, <3>4
      <4>2. ASSUME NEW i \in 1 .. Len(queue')
           PROVE  list[Told + i] = queue'[i]
        <5>1. CASE i = Len(queue) + 1
          <6>1. Told + i = Len(list)
            BY <5>1, <3>3, <1>2
          <6> QED
            BY <5>1, <6>1, <2>8, <3>1, <1>1 DEF ListRest
        <5>2. CASE i # Len(queue) + 1
          <6>1. i \in 1 .. Len(queue) /\ Told + i <= Len(list)
            BY <5>2, <4>1, <3>3, <1>2
          <6>2. queue'[i] = queue[i]
            BY <6>1, <2>8
          <6> QED
            BY <6>1, <6>2, <3>1 DEF ListRest
        <5> QED
          BY <5>1, <5>2
      <4> QED
        BY <4>1, <4>2 DEF ListRest
    <3>13. ~mixed'
      BY <2>1, <3>1
    <3> QED
      BY <3>5, <3>6, <3>7, <3>8, <3>9, <3>10, <3>11, <3>12, <3>13 DEF BulkPipeline, BulkListed
  <2> QED
    BY <2>3, <2>4, <2>5 DEF BulkInv
<1>4. CASE blk' = [BulkComplete(DropLast(blk), blk.cur, "failed") EXCEPT !.pc = "idle"]
  <2>1. /\ DOMAIN blk' = BulkFields
        /\ pc' = "idle"
        /\ state' = [state EXCEPT ![cur] = "failed"]
        /\ pages' = pages \ {cur}
        /\ list' = IF list = <<>> THEN list ELSE Front(list)
        /\ ~twice'
        /\ cur' = cur /\ queue' = queue /\ toFirmware' = toFirmware
        /\ moved' = moved /\ toArm' = toArm /\ hand' = hand
        /\ inbox' = inbox /\ mixed' = mixed /\ upset' = upset
    <3> DEFINE d == DropLast(blk)
               c == BulkComplete(d, cur, "failed")
    <3>1. /\ DOMAIN d = BulkFields /\ DOMAIN d.state = Bulks /\ d.state[cur] = "active" /\ ~d.twice
      BY <1>0, <1>1, Fields DEF DropLast, BulkTyped, BulkFields, BulkQueued
    <3>9. /\ d.list = IF list = <<>> THEN list ELSE Front(list)
          /\ d.pc = pc /\ d.cur = cur /\ d.queue = queue /\ d.pages = pages /\ d.state = state
          /\ d.toFirmware = toFirmware /\ d.moved = moved /\ d.toArm = toArm
          /\ d.hand = hand /\ d.inbox = inbox /\ d.mixed = mixed /\ d.upset = upset
      BY <1>0, <1>1, Fields DEF DropLast, BulkTyped, BulkFields, BulkQueued
    <3>2. blk' = [c EXCEPT !.pc = "idle"] /\ c = BulkComplete(d, cur, "failed")
      BY <1>4, Fields
    <3> HIDE DEF d, c
    <3>3. /\ DOMAIN c = BulkFields /\ c.state = [state EXCEPT ![cur] = "failed"]
          /\ c.pages = pages \ {cur} /\ ~c.twice /\ c.list = d.list
          /\ c.cur = cur /\ c.queue = queue /\ c.toFirmware = toFirmware /\ c.moved = moved
          /\ c.toArm = toArm /\ c.hand = hand /\ c.inbox = inbox /\ c.mixed = mixed
          /\ c.upset = upset
      <4>1. /\ DOMAIN c = BulkFields /\ c.state = [d.state EXCEPT ![cur] = "failed"]
            /\ c.pages = d.pages \ {cur} /\ ~c.twice
            /\ c.pc = d.pc /\ c.cur = d.cur /\ c.list = d.list /\ c.queue = d.queue
            /\ c.toFirmware = d.toFirmware /\ c.moved = d.moved /\ c.toArm = d.toArm
            /\ c.hand = d.hand /\ c.inbox = d.inbox /\ c.mixed = d.mixed /\ c.upset = d.upset
        BY <1>1, <3>1, <3>2, CompleteIs
      <4> QED
        BY <3>9, <4>1
    <3> QED
      BY <3>9, <3>2, <3>3, Fields DEF BulkFields
  <2>8. /\ list' \in Seq(Bulks)
        /\ Len(list) > 0 =>
             /\ Len(list') = Len(list) - 1
             /\ \A i \in 1 .. Len(list') : list'[i] = list[i]
    <3>1. list \in Seq(Bulks) /\ list' = IF list = <<>> THEN list ELSE Front(list)
      BY <2>1, <1>0 DEF BulkTyped
    <3> QED
      BY <3>1, <1>1, DropLastIs
  <2>3. BulkTyped'
    BY <2>1, <2>8, <1>0, <1>1 DEF BulkTyped
  <2>4. BulkQueued'
    BY <2>1, <2>8, <1>0, <1>2, <1>1 DEF BulkQueued
  <2>5. ASSUME upset' = {} PROVE BulkPipeline' /\ BulkListed'
    <3>1. /\ QueueLength /\ QueueDone /\ QueueSent /\ QueueHeld /\ SuccessIsMoved
          /\ ListLength /\ ListFirst /\ ListRest /\ ~mixed
      BY <1>0, <2>1, <2>5 DEF BulkPipeline, BulkListed
    <3>2. Len(queue) = Len(toArm) + Len(toFirmware)
      BY <3>1, <1>1, <1>2 DEF QueueLength, Held
    <3>3. Len(list) = Told + Len(queue) + 1
      BY <3>1, <1>1, <1>2 DEF ListLength
    <3>4. Told' = Told
      BY <2>1 DEF Told
    <3>5. QueueLength'
      BY <2>1, <1>1, <3>1, <3>2, <3>3, <1>2 DEF QueueLength, Held
    <3>6. QueueDone'
      BY <2>1, <3>1 DEF QueueDone
    <3>7. QueueSent'
      <4> SUFFICES ASSUME NEW i \in 1 .. Len(toFirmware)
                  PROVE  /\ queue[Len(toArm) + i] = toFirmware[i]
                         /\ toFirmware[i] \in pages \ {cur}
        BY <2>1 DEF QueueSent
      <4>1. Len(toArm) + i \in 1 .. Len(queue)
        BY <3>2, <1>2
      <4>2. queue[Len(toArm) + i] = toFirmware[i] /\ toFirmware[i] \in pages
        BY <3>1 DEF QueueSent
      <4>3. queue[Len(toArm) + i] # cur
        BY <4>1, <1>0, <1>1 DEF BulkQueued
      <4> QED
        BY <4>2, <4>3
    <3>8. QueueHeld'
      BY <2>1, <1>1, <3>1, <3>2, <3>3, <1>2 DEF QueueHeld, Held
    <3>9. SuccessIsMoved'
      BY <2>1, <1>1, <3>1, <3>2, <3>3, <1>2 DEF SuccessIsMoved, BulkTyped
    <3>10. ListLength'
      BY <2>1, <2>8, <1>1, <3>1, <3>2, <3>3, <3>4, <1>2 DEF ListLength
    <3>11. ListFirst'
      BY <2>1, <2>8, <1>1, <3>1, <3>2, <3>3, <3>4, <1>2 DEF ListFirst
    <3>12. ListRest'
      BY <2>1, <2>8, <1>1, <3>1, <3>2, <3>3, <3>4, <1>2 DEF ListRest
    <3>13. ~mixed'
      BY <2>1, <3>1
    <3> QED
      BY <3>5, <3>6, <3>7, <3>8, <3>9, <3>10, <3>11, <3>12, <3>13 DEF BulkPipeline, BulkListed
  <2> QED
    BY <2>3, <2>4, <2>5 DEF BulkInv
<1> QED
  BY <1>3, <1>4 DEF ForwardBulk

\* The transfer is mapped, or cannot be.
LEMMA MapKept == ASSUME BulkInv, MapBulk PROVE BulkInv'
<1>0. /\ BulkTyped /\ BulkQueued /\ NoBulk \notin Bulks
      /\ upset = {} => BulkPipeline /\ BulkListed
  BY BulkAssumption DEF BulkInv
<1>2. /\ Len(list) \in Nat /\ Len(queue) \in Nat /\ Len(toArm) \in Nat
      /\ Len(toFirmware) \in Nat /\ Len(inbox) \in Nat /\ Told \in Nat
      /\ hand # NoBulk => Told = Len(inbox) + 1
      /\ hand = NoBulk => Told = Len(inbox)
  BY <1>0, BulkNumbers
<1>1. pc = "forwarded" /\ cur \in Bulks
  BY <1>0, Fields DEF MapBulk, BulkTyped
<1>3. CASE blk' = [blk EXCEPT !.pc = "mapped",
                     !.pages = IF blk.state[blk.cur] = "active" THEN @ \cup {blk.cur} ELSE @]
  <2>1. /\ DOMAIN blk' = BulkFields
        /\ pc' = "mapped"
        /\ pages' = IF state[cur] = "active" THEN pages \cup {cur} ELSE pages
        /\ cur' = cur /\ state' = state /\ list' = list
        /\ queue' = queue /\ toFirmware' = toFirmware /\ moved' = moved
        /\ toArm' = toArm /\ hand' = hand /\ inbox' = inbox
        /\ twice' = twice /\ mixed' = mixed /\ upset' = upset
    BY <1>0, <1>1, <1>3, Fields DEF BulkTyped, BulkFields
  <2>3. BulkTyped'
    BY <2>1, <1>0, <1>1 DEF BulkTyped
  <2>4. BulkQueued'
    BY <2>1, <1>0, <1>2, <1>1 DEF BulkQueued
  <2>5. ASSUME upset' = {} PROVE BulkPipeline' /\ BulkListed'
    <3>1. /\ QueueLength /\ QueueDone /\ QueueSent /\ QueueHeld /\ SuccessIsMoved
          /\ ListLength /\ ListFirst /\ ListRest /\ ~mixed
      BY <1>0, <2>1, <2>5 DEF BulkPipeline, BulkListed
    <3>2. Len(queue) = Len(toArm) + Len(toFirmware) + 1
      BY <3>1, <1>1, <1>2 DEF QueueLength, Held
    <3>3. Len(list) = Told + Len(queue)
      BY <3>1, <1>1, <1>2 DEF ListLength
    <3>4. Told' = Told
      BY <2>1 DEF Told
    <3>5. QueueLength'
      BY <2>1, <1>1, <3>1, <3>2, <3>3, <1>2 DEF QueueLength, Held
    <3>6. QueueDone'
      BY <2>1, <3>1 DEF QueueDone
    <3>7. QueueSent'
      BY <2>1, <1>1, <3>1, <3>2, <3>3, <1>2 DEF QueueSent
    <3>8. QueueHeld'
      <4>1. Len(queue) \in 1 .. Len(queue) /\ queue[Len(queue)] = cur
        BY <3>1, <3>2, <1>1, <1>2 DEF QueueHeld, Held
      <4>2. state[cur] = "active"
        BY <4>1, <1>0 DEF BulkQueued
      <4> QED
        BY <4>1, <4>2, <2>1 DEF QueueHeld
    <3>9. SuccessIsMoved'
      BY <2>1, <3>1 DEF SuccessIsMoved
    <3>10. ListLength'
      BY <2>1, <1>1, <3>1, <3>2, <3>3, <3>4, <1>2 DEF ListLength
    <3>11. ListFirst'
      BY <2>1, <3>1, <3>4 DEF ListFirst
    <3>12. ListRest'
      BY <2>1, <1>1, <3>1, <3>2, <3>3, <3>4, <1>2 DEF ListRest
    <3>13. ~mixed'
      BY <2>1, <3>1
    <3> QED
      BY <3>5, <3>6, <3>7, <3>8, <3>9, <3>10, <3>11, <3>12, <3>13 DEF BulkPipeline, BulkListed
  <2> QED
    BY <2>3, <2>4, <2>5 DEF BulkInv
<1>4. CASE blk' = [blk EXCEPT !.pc = "remove"]
  <2>1. /\ DOMAIN blk' = BulkFields
        /\ pc' = "remove"
        /\ cur' = cur /\ state' = state /\ list' = list
        /\ queue' = queue /\ pages' = pages /\ toFirmware' = toFirmware
        /\ moved' = moved /\ toArm' = toArm /\ hand' = hand
        /\ inbox' = inbox /\ twice' = twice /\ mixed' = mixed
        /\ upset' = upset
    BY <1>0, <1>1, <1>4, Fields DEF BulkTyped, BulkFields
  <2>3. BulkTyped'
    BY <2>1, <1>0, <1>1 DEF BulkTyped
  <2>4. BulkQueued'
    BY <2>1, <1>0, <1>2, <1>1 DEF BulkQueued
  <2>5. ASSUME upset' = {} PROVE BulkPipeline' /\ BulkListed'
    <3>1. /\ QueueLength /\ QueueDone /\ QueueSent /\ QueueHeld /\ SuccessIsMoved
          /\ ListLength /\ ListFirst /\ ListRest /\ ~mixed
      BY <1>0, <2>1, <2>5 DEF BulkPipeline, BulkListed
    <3>2. Len(queue) = Len(toArm) + Len(toFirmware) + 1
      BY <3>1, <1>1, <1>2 DEF QueueLength, Held
    <3>3. Len(list) = Told + Len(queue)
      BY <3>1, <1>1, <1>2 DEF ListLength
    <3>4. Told' = Told
      BY <2>1 DEF Told
    <3>5. QueueLength'
      BY <2>1, <1>1, <3>1, <3>2, <3>3, <1>2 DEF QueueLength, Held
    <3>6. QueueDone'
      BY <2>1, <3>1 DEF QueueDone
    <3>7. QueueSent'
      BY <2>1, <3>1 DEF QueueSent
    <3>8. QueueHeld'
      BY <2>1, <1>1, <3>1, <3>2, <3>3, <1>2 DEF QueueHeld, Held
    <3>9. SuccessIsMoved'
      BY <2>1, <3>1 DEF SuccessIsMoved
    <3>10. ListLength'
      BY <2>1, <1>1, <3>1, <3>2, <3>3, <3>4, <1>2 DEF ListLength
    <3>11. ListFirst'
      BY <2>1, <3>1, <3>4 DEF ListFirst
    <3>12. ListRest'
      BY <2>1, <1>1, <3>1, <3>2, <3>3, <3>4, <1>2 DEF ListRest
    <3>13. ~mixed'
      BY <2>1, <3>1
    <3> QED
      BY <3>5, <3>6, <3>7, <3>8, <3>9, <3>10, <3>11, <3>12, <3>13 DEF BulkPipeline, BulkListed
  <2> QED
    BY <2>3, <2>4, <2>5 DEF BulkInv
<1> QED
  BY <1>3, <1>4 DEF MapBulk

\* The transfer is sent, or finds no slot.
LEMMA SendKept == ASSUME BulkInv, SendBulk PROVE BulkInv'
<1>0. /\ BulkTyped /\ BulkQueued /\ NoBulk \notin Bulks
      /\ upset = {} => BulkPipeline /\ BulkListed
  BY BulkAssumption DEF BulkInv
<1>2. /\ Len(list) \in Nat /\ Len(queue) \in Nat /\ Len(toArm) \in Nat
      /\ Len(toFirmware) \in Nat /\ Len(inbox) \in Nat /\ Told \in Nat
      /\ hand # NoBulk => Told = Len(inbox) + 1
      /\ hand = NoBulk => Told = Len(inbox)
  BY <1>0, BulkNumbers
<1>1. pc = "mapped" /\ cur \in Bulks
  BY <1>0, Fields DEF SendBulk, BulkTyped
<1>3. CASE blk' = [blk EXCEPT !.pc = "idle", !.cur = NoBulk, !.toFirmware = Append(@, blk.cur)]
  <2>1. /\ DOMAIN blk' = BulkFields
        /\ pc' = "idle"
        /\ cur' = NoBulk
        /\ toFirmware' = Append(toFirmware, cur)
        /\ state' = state /\ list' = list /\ queue' = queue
        /\ pages' = pages /\ moved' = moved /\ toArm' = toArm
        /\ hand' = hand /\ inbox' = inbox /\ twice' = twice
        /\ mixed' = mixed /\ upset' = upset
    BY <1>0, <1>1, <1>3, Fields DEF BulkTyped, BulkFields
  <2>8. /\ toFirmware' \in Seq(Bulks) /\ Len(toFirmware') = Len(toFirmware) + 1
        /\ toFirmware'[Len(toFirmware) + 1] = cur
        /\ \A i \in 1 .. Len(toFirmware) : toFirmware'[i] = toFirmware[i]
    BY <2>1, <1>0, <1>1, AppendIs DEF BulkTyped
  <2>3. BulkTyped'
    BY <2>1, <2>8, <1>0, <1>1 DEF BulkTyped
  <2>4. BulkQueued'
    BY <2>1, <2>8, <1>0, <1>2, <1>1 DEF BulkQueued
  <2>5. ASSUME upset' = {} PROVE BulkPipeline' /\ BulkListed'
    <3>1. /\ QueueLength /\ QueueDone /\ QueueSent /\ QueueHeld /\ SuccessIsMoved
          /\ ListLength /\ ListFirst /\ ListRest /\ ~mixed
      BY <1>0, <2>1, <2>5 DEF BulkPipeline, BulkListed
    <3>2. Len(queue) = Len(toArm) + Len(toFirmware) + 1
      BY <3>1, <1>1, <1>2 DEF QueueLength, Held
    <3>3. Len(list) = Told + Len(queue)
      BY <3>1, <1>1, <1>2 DEF ListLength
    <3>4. Told' = Told
      BY <2>1 DEF Told
    <3>5. QueueLength'
      BY <2>1, <2>8, <1>1, <3>1, <3>2, <3>3, <1>2 DEF QueueLength, Held
    <3>6. QueueDone'
      BY <2>1, <3>1 DEF QueueDone
    <3>7. QueueSent'
      <4>1. queue[Len(queue)] = cur /\ cur \in pages
        BY <3>1, <1>1 DEF QueueHeld, Held
      <4>2. \A i \in 1 .. Len(toFirmware) :
             queue[Len(toArm) + i] = toFirmware[i] /\ toFirmware[i] \in pages
        BY <3>1 DEF QueueSent
      <4>3. Len(toArm) + (Len(toFirmware) + 1) = Len(queue)
        BY <3>2, <1>2
      <4>4. ASSUME NEW i \in 1 .. Len(toFirmware)'
            PROVE  queue[Len(toArm) + i] = toFirmware'[i] /\ toFirmware'[i] \in pages
        <5>1. CASE i = Len(toFirmware) + 1
          BY <5>1, <4>1, <4>3, <2>8
        <5>2. CASE i # Len(toFirmware) + 1
          <6>1. i \in 1 .. Len(toFirmware)
            BY <5>2, <2>8, <1>2
          <6> QED
            BY <6>1, <4>2, <2>8
        <5> QED
          BY <5>1, <5>2
      <4> QED
        BY <4>4, <2>1 DEF QueueSent
    <3>8. QueueHeld'
      BY <2>1, <1>1, <3>1, <3>2, <3>3, <1>2 DEF QueueHeld, Held
    <3>9. SuccessIsMoved'
      BY <2>1, <3>1 DEF SuccessIsMoved
    <3>10. ListLength'
      BY <2>1, <1>1, <3>1, <3>2, <3>3, <3>4, <1>2 DEF ListLength
    <3>11. ListFirst'
      BY <2>1, <3>1, <3>4 DEF ListFirst
    <3>12. ListRest'
      BY <2>1, <1>1, <3>1, <3>2, <3>3, <3>4, <1>2 DEF ListRest
    <3>13. ~mixed'
      BY <2>1, <3>1
    <3> QED
      BY <3>5, <3>6, <3>7, <3>8, <3>9, <3>10, <3>11, <3>12, <3>13 DEF BulkPipeline, BulkListed
  <2> QED
    BY <2>3, <2>4, <2>5 DEF BulkInv
<1>4. CASE blk' = [blk EXCEPT !.pc = "remove"]
  <2>1. /\ DOMAIN blk' = BulkFields
        /\ pc' = "remove"
        /\ cur' = cur /\ state' = state /\ list' = list
        /\ queue' = queue /\ pages' = pages /\ toFirmware' = toFirmware
        /\ moved' = moved /\ toArm' = toArm /\ hand' = hand
        /\ inbox' = inbox /\ twice' = twice /\ mixed' = mixed
        /\ upset' = upset
    BY <1>0, <1>1, <1>4, Fields DEF BulkTyped, BulkFields
  <2>3. BulkTyped'
    BY <2>1, <1>0, <1>1 DEF BulkTyped
  <2>4. BulkQueued'
    BY <2>1, <1>0, <1>2, <1>1 DEF BulkQueued
  <2>5. ASSUME upset' = {} PROVE BulkPipeline' /\ BulkListed'
    <3>1. /\ QueueLength /\ QueueDone /\ QueueSent /\ QueueHeld /\ SuccessIsMoved
          /\ ListLength /\ ListFirst /\ ListRest /\ ~mixed
      BY <1>0, <2>1, <2>5 DEF BulkPipeline, BulkListed
    <3>2. Len(queue) = Len(toArm) + Len(toFirmware) + 1
      BY <3>1, <1>1, <1>2 DEF QueueLength, Held
    <3>3. Len(list) = Told + Len(queue)
      BY <3>1, <1>1, <1>2 DEF ListLength
    <3>4. Told' = Told
      BY <2>1 DEF Told
    <3>5. QueueLength'
      BY <2>1, <1>1, <3>1, <3>2, <3>3, <1>2 DEF QueueLength, Held
    <3>6. QueueDone'
      BY <2>1, <3>1 DEF QueueDone
    <3>7. QueueSent'
      BY <2>1, <3>1 DEF QueueSent
    <3>8. QueueHeld'
      BY <2>1, <1>1, <3>1, <3>2, <3>3, <1>2 DEF QueueHeld, Held
    <3>9. SuccessIsMoved'
      BY <2>1, <3>1 DEF SuccessIsMoved
    <3>10. ListLength'
      BY <2>1, <1>1, <3>1, <3>2, <3>3, <3>4, <1>2 DEF ListLength
    <3>11. ListFirst'
      BY <2>1, <3>1, <3>4 DEF ListFirst
    <3>12. ListRest'
      BY <2>1, <1>1, <3>1, <3>2, <3>3, <3>4, <1>2 DEF ListRest
    <3>13. ~mixed'
      BY <2>1, <3>1
    <3> QED
      BY <3>5, <3>6, <3>7, <3>8, <3>9, <3>10, <3>11, <3>12, <3>13 DEF BulkPipeline, BulkListed
  <2> QED
    BY <2>3, <2>4, <2>5 DEF BulkInv
<1> QED
  BY <1>3, <1>4 DEF SendBulk

\* After a failure the last entry of the list goes.
LEMMA RemoveKept == ASSUME BulkInv, RemoveBulk PROVE BulkInv'
<1>0. /\ BulkTyped /\ BulkQueued /\ NoBulk \notin Bulks
      /\ upset = {} => BulkPipeline /\ BulkListed
  BY BulkAssumption DEF BulkInv
<1>2. /\ Len(list) \in Nat /\ Len(queue) \in Nat /\ Len(toArm) \in Nat
      /\ Len(toFirmware) \in Nat /\ Len(inbox) \in Nat /\ Told \in Nat
      /\ hand # NoBulk => Told = Len(inbox) + 1
      /\ hand = NoBulk => Told = Len(inbox)
  BY <1>0, BulkNumbers
<1>1. pc = "remove" /\ cur \in Bulks
  BY <1>0, Fields DEF RemoveBulk, BulkTyped
<1>3. blk' = [DropLast(blk) EXCEPT !.pc = "retrieve"]
  BY DEF RemoveBulk
<1> QED
  <2>1. /\ DOMAIN blk' = BulkFields
        /\ pc' = "retrieve"
        /\ list' = IF list = <<>> THEN list ELSE Front(list)
        /\ cur' = cur /\ state' = state /\ queue' = queue
        /\ pages' = pages /\ toFirmware' = toFirmware /\ moved' = moved
        /\ toArm' = toArm /\ hand' = hand /\ inbox' = inbox
        /\ twice' = twice /\ mixed' = mixed /\ upset' = upset
    BY <1>0, <1>1, <1>3, Fields DEF BulkTyped, BulkFields, DropLast
  <2>8. /\ list' \in Seq(Bulks)
        /\ Len(list) > 0 =>
             /\ Len(list') = Len(list) - 1
             /\ \A i \in 1 .. Len(list') : list'[i] = list[i]
    <3>1. list \in Seq(Bulks) /\ list' = IF list = <<>> THEN list ELSE Front(list)
      BY <2>1, <1>0 DEF BulkTyped
    <3> QED
      BY <3>1, <1>1, DropLastIs
  <2>3. BulkTyped'
    BY <2>1, <2>8, <1>0, <1>1 DEF BulkTyped
  <2>4. BulkQueued'
    BY <2>1, <2>8, <1>0, <1>2, <1>1 DEF BulkQueued
  <2>5. ASSUME upset' = {} PROVE BulkPipeline' /\ BulkListed'
    <3>1. /\ QueueLength /\ QueueDone /\ QueueSent /\ QueueHeld /\ SuccessIsMoved
          /\ ListLength /\ ListFirst /\ ListRest /\ ~mixed
      BY <1>0, <2>1, <2>5 DEF BulkPipeline, BulkListed
    <3>2. Len(queue) = Len(toArm) + Len(toFirmware) + 1
      BY <3>1, <1>1, <1>2 DEF QueueLength, Held
    <3>3. Len(list) = Told + Len(queue)
      BY <3>1, <1>1, <1>2 DEF ListLength
    <3>4. Told' = Told
      BY <2>1 DEF Told
    <3>5. QueueLength'
      BY <2>1, <1>1, <3>1, <3>2, <3>3, <1>2 DEF QueueLength, Held
    <3>6. QueueDone'
      BY <2>1, <3>1 DEF QueueDone
    <3>7. QueueSent'
      BY <2>1, <3>1 DEF QueueSent
    <3>8. QueueHeld'
      BY <2>1, <1>1, <3>1, <3>2, <3>3, <1>2 DEF QueueHeld, Held
    <3>9. SuccessIsMoved'
      BY <2>1, <3>1 DEF SuccessIsMoved
    <3>10. ListLength'
      BY <2>1, <2>8, <1>1, <3>1, <3>2, <3>3, <3>4, <1>2 DEF ListLength
    <3>11. ListFirst'
      BY <2>1, <2>8, <1>1, <3>1, <3>2, <3>3, <3>4, <1>2, SMTT(30) DEF ListFirst
    <3>12. ListRest'
      BY <2>1, <2>8, <1>1, <3>1, <3>2, <3>3, <3>4, <1>2 DEF ListRest
    <3>13. ~mixed'
      BY <2>1, <3>1
    <3> QED
      BY <3>5, <3>6, <3>7, <3>8, <3>9, <3>10, <3>11, <3>12, <3>13 DEF BulkPipeline, BulkListed
  <2> QED
    BY <2>3, <2>4, <2>5 DEF BulkInv

\* The handler takes its request back from the queue and fails it, unless it is gone.
LEMMA RetrieveKept == ASSUME BulkInv, RetrieveBulk PROVE BulkInv'
<1>0. /\ BulkTyped /\ BulkQueued /\ NoBulk \notin Bulks
      /\ upset = {} => BulkPipeline /\ BulkListed
  BY BulkAssumption DEF BulkInv
<1>2. /\ Len(list) \in Nat /\ Len(queue) \in Nat /\ Len(toArm) \in Nat
      /\ Len(toFirmware) \in Nat /\ Len(inbox) \in Nat /\ Told \in Nat
      /\ hand # NoBulk => Told = Len(inbox) + 1
      /\ hand = NoBulk => Told = Len(inbox)
  BY <1>0, BulkNumbers
<1>1. pc = "retrieve" /\ cur \in Bulks
  BY <1>0, Fields DEF RetrieveBulk, BulkTyped
<1>3. ASSUME NEW n \in 1 .. Len(queue), queue[n] = cur
      PROVE  BulkInv'
  <2> DEFINE s == BulkComplete(blk, blk.cur, "failed")
  <2>9. blk' = [s EXCEPT !.queue = TakenFrom(@, blk.cur), !.pc = "idle", !.cur = NoBulk]
    BY <1>3, Fields DEF RetrieveBulk, InBulkQueue
  <2>10. state[cur] = "active"
    BY <1>0, <1>3 DEF BulkQueued
  <2>1. /\ DOMAIN blk' = BulkFields
        /\ pc' = "idle"
        /\ cur' = NoBulk
        /\ state' = [state EXCEPT ![cur] = "failed"]
        /\ pages' = pages \ {cur}
        /\ queue' = TakenFrom(queue, cur)
        /\ ~twice'
        /\ list' = list /\ toFirmware' = toFirmware /\ moved' = moved
        /\ toArm' = toArm /\ hand' = hand /\ inbox' = inbox
        /\ mixed' = mixed /\ upset' = upset
    <3>1. /\ DOMAIN s = BulkFields /\ s.state = [state EXCEPT ![cur] = "failed"]
          /\ s.pages = pages \ {cur} /\ ~s.twice /\ s.list = list
          /\ s.cur = cur /\ s.queue = queue /\ s.toFirmware = toFirmware /\ s.moved = moved
          /\ s.toArm = toArm /\ s.hand = hand /\ s.inbox = inbox /\ s.mixed = mixed
          /\ s.upset = upset
      <4>1. DOMAIN blk = BulkFields /\ DOMAIN state = Bulks /\ state[cur] = "active" /\ ~twice
        BY <1>0, <2>10 DEF BulkTyped, BulkQueued
      <4> QED
        BY <4>1, <1>1, CompleteIs, Fields
    <3> HIDE DEF s
    <3> QED
      BY <2>9, <3>1, Fields DEF BulkFields
  <2>8. /\ queue' \in Seq(Bulks) /\ Len(queue') = Len(queue) - 1
        /\ \A i \in 1 .. Len(queue') :
             queue'[i] = IF i < n THEN queue[i] ELSE queue[i + 1]
    <3>1. queue \in Seq(Bulks) /\ \A i, j \in 1 .. Len(queue) : queue[i] = queue[j] => i = j
      BY <1>0 DEF BulkTyped, BulkQueued
    <3>2. queue' = RemoveAt(queue, n)
      BY <2>1, <1>3, <3>1, TakenFromAt
    <3>3. RemoveAt(queue, n) \in Seq(Bulks)
      BY <1>3, <3>1, RemoveAtIs
    <3>4. /\ Len(RemoveAt(queue, n)) = Len(queue) - 1
         /\ \A i \in 1 .. Len(queue) - 1 :
              RemoveAt(queue, n)[i] = IF i < n THEN queue[i] ELSE queue[i + 1]
      BY <1>3, <3>1, RemoveAtEntries
    <3> QED
      BY <3>2, <3>3, <3>4
  <2>3. BulkTyped'
    BY <2>1, <2>8, <1>0, <1>1, <1>3 DEF BulkTyped
  <2>4. BulkQueued'
    <3>1. queue \in Seq(Bulks) /\ \A i, j \in 1 .. Len(queue) : queue[i] = queue[j] => i = j
      BY <1>0 DEF BulkTyped, BulkQueued
    <3>2. queue' = RemoveAt(queue, n)
      BY <2>1, <1>3, <3>1, TakenFromAt
    <3>3. /\ \A i \in 1 .. Len(queue') : \E k \in 1 .. Len(queue) : queue'[i] = queue[k] /\ queue[k] # queue[n]
          /\ \A i, j \in 1 .. Len(queue') : queue'[i] = queue'[j] => i = j
      <4>1. queue \in Seq(Bulks) /\ Apart(queue)
        BY <3>1 DEF Apart
      <4>3. n \in 1 .. Len(queue)
        BY <1>3
      <4>2. Apart(RemoveAt(queue, n)) /\ EntriesOf(RemoveAt(queue, n), queue, queue[n])
        BY <4>1, <4>3, RemoveApart
      <4> QED
        BY <3>2, <4>2 DEF Apart, EntriesOf
    <3>4. \A i \in 1 .. Len(queue') : state'[queue'[i]] = "active"
      <4>1. state' = [state EXCEPT ![cur] = "failed"] /\ DOMAIN state = Bulks /\ queue[n] = cur
        BY <2>1, <1>0, <1>3 DEF BulkTyped
      <4>2. \A k \in 1 .. Len(queue) : queue[k] \in Bulks /\ state[queue[k]] = "active"
        BY <1>0 DEF BulkTyped, BulkQueued
      <4> QED
        BY <3>3, <4>1, <4>2
    <3> QED
      BY <2>1, <3>3, <3>4 DEF BulkQueued
  <2>5. ASSUME upset' = {} PROVE BulkPipeline' /\ BulkListed'
    <3>1. /\ QueueLength /\ QueueDone /\ QueueSent /\ QueueHeld /\ SuccessIsMoved
          /\ ListLength /\ ListFirst /\ ListRest /\ ~mixed
      BY <1>0, <2>1, <2>5 DEF BulkPipeline, BulkListed
    <3>2. Len(queue) = Len(toArm) + Len(toFirmware) + 1
      BY <3>1, <1>1, <1>3, <1>2 DEF QueueLength, Held
    <3>3. Len(list) = Told + Len(queue) - 1
      BY <3>1, <1>1, <1>3, <1>2 DEF ListLength
    <3>4. Told' = Told
      BY <2>1 DEF Told
    <3>5. QueueLength'
      BY <2>1, <2>8, <1>1, <1>3, <3>1, <3>2, <3>3, <1>2 DEF QueueLength, Held
    <3>6. QueueDone'
      <4>1. Len(queue) \in 1 .. Len(queue) /\ queue[Len(queue)] = cur
        BY <3>1, <3>2, <1>1, <1>2 DEF QueueHeld, Held
      <4>2. n = Len(queue)
        BY <4>1, <1>0, <1>3 DEF BulkQueued
      <4>3. \A i \in 1 .. Len(toArm) : i \in 1 .. Len(queue)' /\ i < n
        BY <4>2, <3>2, <2>8, <1>2
      <4>4. \A i \in 1 .. Len(toArm) : queue'[i] = queue[i]
        BY <4>3, <2>8
      <4> QED
        BY <4>4, <2>1, <3>1 DEF QueueDone
    <3>7. QueueSent'
      <4> SUFFICES ASSUME NEW i \in 1 .. Len(toFirmware)
                  PROVE  /\ queue'[Len(toArm) + i] = toFirmware[i]
                         /\ toFirmware[i] \in pages \ {cur}
        BY <2>1 DEF QueueSent
      <4>1. Len(queue) \in 1 .. Len(queue) /\ queue[Len(queue)] = cur
        BY <3>1, <3>2, <1>1, <1>2 DEF QueueHeld, Held
      <4>2. n = Len(queue)
        BY <4>1, <1>0, <1>3 DEF BulkQueued
      <4>3. Len(toArm) + i \in 1 .. Len(queue) /\ Len(toArm) + i < Len(queue)
        BY <3>2, <1>2
      <4>4. queue[Len(toArm) + i] = toFirmware[i] /\ toFirmware[i] \in pages
        BY <3>1 DEF QueueSent
      <4>5. queue[Len(toArm) + i] # cur
        BY <4>1, <4>3, <1>0 DEF BulkQueued
      <4>6. queue'[Len(toArm) + i] = queue[Len(toArm) + i]
        BY <4>2, <4>3, <2>8, <1>2
      <4> QED
        BY <4>4, <4>5, <4>6
    <3>8. QueueHeld'
      BY <2>1, <2>8, <1>1, <1>3, <3>1, <3>2, <3>3, <1>2 DEF QueueHeld, Held
    <3>9. SuccessIsMoved'
      BY <2>1, <1>1, <1>3, <3>1, <3>2, <3>3, <1>2 DEF SuccessIsMoved, BulkTyped
    <3>10. ListLength'
      BY <2>1, <2>8, <1>1, <1>3, <3>1, <3>2, <3>3, <3>4, <1>2 DEF ListLength
    <3>11. ListFirst'
      BY <2>1, <3>1, <3>4 DEF ListFirst
    <3>12. ListRest'
      <4>1. Len(queue) \in 1 .. Len(queue) /\ queue[Len(queue)] = cur
        BY <3>1, <3>2, <1>1, <1>2 DEF QueueHeld, Held
      <4>2. n = Len(queue)
        BY <4>1, <1>0, <1>3 DEF BulkQueued
      <4>3. \A i \in 1 .. Len(queue)' : i \in 1 .. Len(queue) /\ i < n
        BY <4>2, <2>8, <1>2
      <4>4. \A i \in 1 .. Len(queue)' : queue'[i] = queue[i]
        BY <4>3, <2>8
      <4> QED
        BY <4>3, <4>4, <2>1, <3>1, <3>4 DEF ListRest
    <3>13. ~mixed'
      BY <2>1, <3>1
    <3> QED
      BY <3>5, <3>6, <3>7, <3>8, <3>9, <3>10, <3>11, <3>12, <3>13 DEF BulkPipeline, BulkListed
  <2> QED
    BY <2>3, <2>4, <2>5 DEF BulkInv
<1>4. CASE ~InBulkQueue(blk, cur)
  <2>9. blk' = [blk EXCEPT !.pc = "idle", !.cur = NoBulk]
    BY <1>0, <1>4, Fields DEF RetrieveBulk, BulkTyped, BulkFields
  <2>1. /\ DOMAIN blk' = BulkFields
        /\ pc' = "idle"
        /\ cur' = NoBulk
        /\ state' = state /\ list' = list /\ queue' = queue
        /\ pages' = pages /\ toFirmware' = toFirmware /\ moved' = moved
        /\ toArm' = toArm /\ hand' = hand /\ inbox' = inbox
        /\ twice' = twice /\ mixed' = mixed /\ upset' = upset
    BY <1>0, <1>1, <2>9, Fields DEF BulkTyped, BulkFields
  <2>3. BulkTyped'
    BY <2>1, <1>0, <1>1 DEF BulkTyped
  <2>4. BulkQueued'
    BY <2>1, <1>0, <1>2, <1>1 DEF BulkQueued
  <2>5. ASSUME upset' = {} PROVE BulkPipeline' /\ BulkListed'
    <3>1. /\ QueueLength /\ QueueDone /\ QueueSent /\ QueueHeld /\ SuccessIsMoved
          /\ ListLength /\ ListFirst /\ ListRest /\ ~mixed
      BY <1>0, <2>1, <2>5 DEF BulkPipeline, BulkListed
    <3> QED
      <4>1. Len(queue) \in 1 .. Len(queue) /\ queue[Len(queue)] = cur
        BY <3>1, <1>1, <1>2 DEF QueueLength, QueueHeld, Held
      <4> QED
        BY <4>1, <1>4, Fields DEF InBulkQueue
  <2> QED
    BY <2>3, <2>4, <2>5 DEF BulkInv
<1> QED
  BY <1>3, <1>4, Fields DEF InBulkQueue

\* The DONE message goes into the list of messages.
LEMMA AddDoneKept == ASSUME BulkInv, AddPendingDone PROVE BulkInv'
<1>0. /\ BulkTyped /\ BulkQueued /\ NoBulk \notin Bulks
      /\ upset = {} => BulkPipeline /\ BulkListed
  BY BulkAssumption DEF BulkInv
<1>2. /\ Len(list) \in Nat /\ Len(queue) \in Nat /\ Len(toArm) \in Nat
      /\ Len(toFirmware) \in Nat /\ Len(inbox) \in Nat /\ Told \in Nat
      /\ hand # NoBulk => Told = Len(inbox) + 1
      /\ hand = NoBulk => Told = Len(inbox)
  BY <1>0, BulkNumbers
<1>1. hand # NoBulk /\ hand \in Bulks
  BY <1>0, Fields DEF AddPendingDone, BulkTyped
<1>3. blk' = [blk EXCEPT !.inbox = Append(@, blk.hand), !.hand = NoBulk]
  BY DEF AddPendingDone
<1> QED
  <2>1. /\ DOMAIN blk' = BulkFields
        /\ inbox' = Append(inbox, hand)
        /\ hand' = NoBulk
        /\ pc' = pc /\ cur' = cur /\ state' = state
        /\ list' = list /\ queue' = queue /\ pages' = pages
        /\ toFirmware' = toFirmware /\ moved' = moved /\ toArm' = toArm
        /\ twice' = twice /\ mixed' = mixed /\ upset' = upset
    BY <1>0, <1>1, <1>3, Fields DEF BulkTyped, BulkFields
  <2>8. /\ inbox' \in Seq(Bulks) /\ Len(inbox') = Len(inbox) + 1
        /\ inbox'[Len(inbox) + 1] = hand
        /\ \A i \in 1 .. Len(inbox) : inbox'[i] = inbox[i]
    BY <2>1, <1>0, <1>1, AppendIs DEF BulkTyped
  <2>3. BulkTyped'
    BY <2>1, <2>8, <1>0, <1>1 DEF BulkTyped
  <2>4. BulkQueued'
    BY <2>1, <2>8, <1>0, <1>2, <1>1 DEF BulkQueued
  <2>5. ASSUME upset' = {} PROVE BulkPipeline' /\ BulkListed'
    <3>1. /\ QueueLength /\ QueueDone /\ QueueSent /\ QueueHeld /\ SuccessIsMoved
          /\ ListLength /\ ListFirst /\ ListRest /\ ~mixed
      BY <1>0, <2>1, <2>5 DEF BulkPipeline, BulkListed
    <3>2. Held' <=> Held
      BY <2>1 DEF Held
    <3>3. Len(queue) >= Len(toArm) + Len(toFirmware) /\ (Held => Len(queue) > Len(toArm) + Len(toFirmware))
      BY <3>1, <1>2 DEF QueueLength
    <3>4. Told' = Told
      BY <2>1, <2>8, <1>1, <1>0, <1>2 DEF Told
    <3>5. QueueLength'
      BY <2>1, <3>1 DEF QueueLength, Held
    <3>6. QueueDone'
      BY <2>1, <3>1 DEF QueueDone
    <3>7. QueueSent'
      BY <2>1, <3>1 DEF QueueSent
    <3>8. QueueHeld'
      BY <2>1, <3>1 DEF QueueHeld, Held
    <3>9. SuccessIsMoved'
      BY <2>1, <3>1 DEF SuccessIsMoved
    <3>10. ListLength'
      BY <2>1, <2>8, <1>1, <3>1, <3>2, <3>3, <3>4, <1>2 DEF ListLength
    <3>11. ListFirst'
      <4> SUFFICES ASSUME NEW i \in 1 .. Len(inbox)'
                  PROVE  list[i] = inbox'[i]
        BY <2>1 DEF ListFirst
      <4>1. CASE i = Len(inbox) + 1
        BY <4>1, <2>8, <3>1, <1>1, <1>2 DEF ListFirst
      <4>2. CASE i # Len(inbox) + 1
        <5>1. i \in 1 .. Len(inbox)
          BY <4>2, <2>8, <1>2
        <5> QED
          BY <5>1, <2>8, <3>1 DEF ListFirst
      <4> QED
        BY <4>1, <4>2
    <3>12. ListRest'
      BY <2>1, <2>8, <1>1, <3>1, <3>2, <3>3, <3>4, <1>2 DEF ListRest
    <3>13. ~mixed'
      BY <2>1, <3>1
    <3> QED
      BY <3>5, <3>6, <3>7, <3>8, <3>9, <3>10, <3>11, <3>12, <3>13 DEF BulkPipeline, BulkListed
  <2> QED
    BY <2>3, <2>4, <2>5 DEF BulkInv

\* A client takes its message and the first entry of the list.
LEMMA TakePendingKept == ASSUME BulkInv, TakePendingBulkMsg PROVE BulkInv'
<1>0. /\ BulkTyped /\ BulkQueued /\ NoBulk \notin Bulks
      /\ upset = {} => BulkPipeline /\ BulkListed
  BY BulkAssumption DEF BulkInv
<1>2. /\ Len(list) \in Nat /\ Len(queue) \in Nat /\ Len(toArm) \in Nat
      /\ Len(toFirmware) \in Nat /\ Len(inbox) \in Nat /\ Told \in Nat
      /\ hand # NoBulk => Told = Len(inbox) + 1
      /\ hand = NoBulk => Told = Len(inbox)
  BY <1>0, BulkNumbers
<1>1. pc = "idle" /\ inbox # <<>>
  BY Fields DEF TakePendingBulkMsg
<1>3. /\ blk' = [blk EXCEPT !.inbox = Tail(@), !.list = IF @ = <<>> THEN @ ELSE Tail(@),
                    !.mixed = @ \/ (blk.list # <<>> /\ Head(blk.list) # Head(blk.inbox))]
  BY DEF TakePendingBulkMsg
<1> QED
  <2>1. /\ DOMAIN blk' = BulkFields
        /\ inbox' = Tail(inbox)
        /\ list' = IF list = <<>> THEN list ELSE Tail(list)
        /\ mixed' = (mixed \/ (list # <<>> /\ Head(list) # Head(inbox)))
        /\ pc' = pc /\ cur' = cur /\ state' = state
        /\ queue' = queue /\ pages' = pages /\ toFirmware' = toFirmware
        /\ moved' = moved /\ toArm' = toArm /\ hand' = hand
        /\ twice' = twice /\ upset' = upset
    BY <1>0, <1>1, <1>3, Fields DEF BulkTyped, BulkFields
  <2>8. /\ Head(inbox) = inbox[1] /\ Head(inbox) \in Bulks /\ Len(inbox) > 0
        /\ inbox' \in Seq(Bulks) /\ Len(inbox') = Len(inbox) - 1
        /\ \A i \in 1 .. Len(inbox') : inbox'[i] = inbox[i + 1]
    BY <2>1, <1>0, <1>1, TailIs DEF BulkTyped
  <2>7. /\ list' \in Seq(Bulks)
        /\ Len(list) > 0 =>
             /\ Len(list') = Len(list) - 1
             /\ \A i \in 1 .. Len(list') : list'[i] = list[i + 1]
    BY <2>1, <1>0, <1>1, DropHeadIs DEF BulkTyped
  <2>3. BulkTyped'
    <3>1. list' \in Seq(Bulks) /\ inbox' \in Seq(Bulks)
      BY <2>7, <2>8
    <3>2. /\ DOMAIN blk' = BulkFields /\ state' = state /\ pc' = pc /\ cur' = cur /\ queue' = queue
          /\ toFirmware' = toFirmware /\ toArm' = toArm /\ hand' = hand
      BY <2>1
    <3> QED
      BY <3>1, <3>2, <1>0 DEF BulkTyped
  <2>4. BulkQueued'
    <3>1. state' = state /\ pc' = pc /\ cur' = cur /\ queue' = queue /\ twice' = twice
      BY <2>1
    <3> QED
      BY <3>1, <1>0 DEF BulkQueued
  <2>5. ASSUME upset' = {} PROVE BulkPipeline' /\ BulkListed'
    <3>1. /\ QueueLength /\ QueueDone /\ QueueSent /\ QueueHeld /\ SuccessIsMoved
          /\ ListLength /\ ListFirst /\ ListRest /\ ~mixed
      BY <1>0, <2>1, <2>5 DEF BulkPipeline, BulkListed
    <3>2. Len(queue) = Len(toArm) + Len(toFirmware)
      BY <3>1, <1>1, <1>2 DEF QueueLength, Held
    <3>3. Len(list) = Told + Len(queue)
      BY <3>1, <1>1, <1>2 DEF ListLength
    <3>4. Told' = Told - 1 /\ Told > 0 /\ Len(list) > 0
      <4>1. Len(inbox) > 0 /\ Len(inbox') = Len(inbox) - 1
        BY <2>8, <1>2
      <4>2. CASE hand = NoBulk
        BY <4>1, <4>2, <2>1, <3>3, <1>2 DEF Told
      <4>3. CASE hand # NoBulk
        BY <4>1, <4>3, <2>1, <3>3, <1>2 DEF Told
      <4> QED
        BY <4>2, <4>3
    <3>5. QueueLength'
      BY <2>1, <3>1 DEF QueueLength, Held
    <3>6. QueueDone'
      BY <2>1, <3>1 DEF QueueDone
    <3>7. QueueSent'
      BY <2>1, <3>1 DEF QueueSent
    <3>8. QueueHeld'
      BY <2>1, <3>1 DEF QueueHeld, Held
    <3>9. SuccessIsMoved'
      BY <2>1, <3>1 DEF SuccessIsMoved
    <3>10. ListLength'
      <4>1. queue' = queue /\ pc' = "idle" /\ Len(list') = Len(list) - 1
        BY <2>1, <2>7, <3>4, <1>1
      <4> QED
        BY <4>1, <3>3, <3>4, <1>2 DEF ListLength
    <3>11. ListFirst'
      <4>1. /\ Len(list') = Len(list) - 1 /\ Len(inbox') = Len(inbox) - 1 /\ hand' = hand
           /\ Told' = Told - 1 /\ Told <= Len(list) /\ Len(inbox) <= Told
        <5>1. Told' = Told - 1 /\ Len(list') = Len(list) - 1
          BY <2>7, <3>4
        <5>2. Len(inbox') = Len(inbox) - 1
          BY <2>8
        <5>3. Told <= Len(list) /\ Len(inbox) <= Told
          BY <3>3, <1>2
        <5>4. hand' = hand
          BY <2>1
        <5> QED
          BY <5>1, <5>2, <5>3, <5>4
      <4>2. ASSUME NEW i \in 1 .. Len(inbox')
           PROVE  list'[i] = inbox'[i]
        <5>1. i \in 1 .. Len(list') /\ i + 1 \in 1 .. Len(inbox)
          BY <4>1, <1>2
        <5>2. list'[i] = list[i + 1] /\ inbox'[i] = inbox[i + 1]
          BY <5>1, <2>7, <2>8, <3>4
        <5> QED
          BY <5>1, <5>2, <3>1 DEF ListFirst
      <4>3. ASSUME hand' # NoBulk
           PROVE  list'[Told'] = hand'
        <5>1. Told' \in 1 .. Len(list') /\ Told' + 1 = Told
          BY <4>1, <4>3, <3>4, <2>8, <1>2
        <5>2. list'[Told'] = list[Told' + 1]
          BY <5>1, <2>7, <3>4
        <5> QED
          BY <4>1, <4>3, <5>1, <5>2, <3>1 DEF ListFirst
      <4> QED
        BY <4>2, <4>3 DEF ListFirst
    <3>12. ListRest'
      <4>1. /\ Len(list') = Len(list) - 1 /\ queue' = queue /\ Told' = Told - 1 /\ Told > 0 /\ pc' = "idle"
        BY <2>1, <2>7, <3>4, <1>1
      <4>2. ASSUME NEW i \in 1 .. Len(queue), Told' + i <= Len(list')
           PROVE  list'[Told' + i] = queue[i]
        <5>1. Told' + i \in 1 .. Len(list') /\ Told' + i + 1 = Told + i /\ Told + i <= Len(list)
          BY <4>1, <4>2, <1>2
        <5>2. list'[Told' + i] = list[Told' + i + 1]
          BY <5>1, <2>7, <3>4
        <5> QED
          BY <5>1, <5>2, <3>1 DEF ListRest
      <4> QED
        BY <4>1, <4>2 DEF ListRest
    <3>13. ~mixed'
      <4>1. Len(list) > 0 /\ 1 \in 1 .. Len(inbox)
        BY <2>8, <3>3, <1>2
      <4>2. list # <<>>
        BY <4>1
      <4>3. Head(list) = list[1] /\ Head(inbox) = inbox[1]
        BY <4>2, <2>8, <1>0, TailIs DEF BulkTyped
      <4> QED
        BY <4>1, <4>3, <2>1, <3>1 DEF ListFirst
    <3> QED
      BY <3>5, <3>6, <3>7, <3>8, <3>9, <3>10, <3>11, <3>12, <3>13 DEF BulkPipeline, BulkListed
  <2> QED
    BY <2>3, <2>4, <2>5 DEF BulkInv

\* The request at the head of the queue is completed for a DONE message, if there is one.
LEMMA DoneKept == ASSUME BulkInv, BulkDone PROVE BulkInv'
<1>0. /\ BulkTyped /\ BulkQueued /\ NoBulk \notin Bulks
      /\ upset = {} => BulkPipeline /\ BulkListed
  BY BulkAssumption DEF BulkInv
<1>2. /\ Len(list) \in Nat /\ Len(queue) \in Nat /\ Len(toArm) \in Nat
      /\ Len(toFirmware) \in Nat /\ Len(inbox) \in Nat /\ Told \in Nat
      /\ hand # NoBulk => Told = Len(inbox) + 1
      /\ hand = NoBulk => Told = Len(inbox)
  BY <1>0, BulkNumbers
<1>1. hand = NoBulk /\ toArm # <<>>
  BY Fields DEF BulkDone
<1>3. CASE queue = <<>>
  <2>9. blk' = [blk EXCEPT !.toArm = Tail(@)]
    BY <1>3, Fields DEF BulkDone
  <2>1. /\ DOMAIN blk' = BulkFields
        /\ toArm' = Tail(toArm)
        /\ pc' = pc /\ cur' = cur /\ state' = state
        /\ list' = list /\ queue' = queue /\ pages' = pages
        /\ toFirmware' = toFirmware /\ moved' = moved /\ hand' = hand
        /\ inbox' = inbox /\ twice' = twice /\ mixed' = mixed
        /\ upset' = upset
    BY <1>0, <1>1, <2>9, Fields DEF BulkTyped, BulkFields
  <2>8. /\ Head(toArm) = toArm[1] /\ Head(toArm) \in DoneMsgs /\ Len(toArm) > 0
        /\ toArm' \in Seq(DoneMsgs) /\ Len(toArm') = Len(toArm) - 1
        /\ \A i \in 1 .. Len(toArm') : toArm'[i] = toArm[i + 1]
    <3>1. toArm \in Seq(DoneMsgs) /\ toArm' = Tail(toArm)
      BY <2>1, <1>0 DEF BulkTyped
    <3> QED
      BY <3>1, <1>1, TailIs
  <2>3. BulkTyped'
    BY <2>1, <2>8, <1>0, <1>1 DEF BulkTyped
  <2>4. BulkQueued'
    BY <2>1, <2>8, <1>0, <1>2, <1>1 DEF BulkQueued
  <2>5. ASSUME upset' = {} PROVE BulkPipeline' /\ BulkListed'
    <3>1. /\ QueueLength /\ QueueDone /\ QueueSent /\ QueueHeld /\ SuccessIsMoved
          /\ ListLength /\ ListFirst /\ ListRest /\ ~mixed
      BY <1>0, <2>1, <2>5, SMTT(30) DEF BulkPipeline, BulkListed
    <3> QED
      <4>1. Len(queue) = 0 /\ Len(toArm) > 0
        BY <1>3, <2>8
      <4>2. Len(queue) >= Len(toArm) + Len(toFirmware)
        BY <3>1, <1>2 DEF QueueLength
      <4> QED
        BY <4>1, <4>2, <1>2
  <2> QED
    BY <2>3, <2>4, <2>5 DEF BulkInv
<1>4. CASE queue # <<>>
  <2> DEFINE b == Head(queue)
             how == IF Head(toArm).ok /\ b \in pages THEN "success" ELSE "failed"
             h == [blk EXCEPT !.toArm = Tail(@), !.hand = Head(blk.toArm).bulk]
             s == BulkComplete(h, b, how)
  <2>9. blk' = [s EXCEPT !.queue = Tail(@)]
    BY <1>4, Fields DEF BulkDone
  <2>10. /\ how \in {"success", "failed"} /\ (how = "success" => Head(toArm).ok)
    OBVIOUS
  <2>11. Head(toArm) \in DoneMsgs /\ Head(toArm).bulk \in Bulks /\ Head(toArm) = toArm[1] /\ Len(toArm) > 0
    <3>1. toArm \in Seq(DoneMsgs)
      BY <1>0 DEF BulkTyped
    <3>2. Head(toArm) \in DoneMsgs /\ Head(toArm) = toArm[1] /\ Len(toArm) > 0
      BY <3>1, <1>1, TailIs
    <3> QED
      BY <3>2 DEF DoneMsgs
  <2>12. b \in Bulks /\ b = queue[1] /\ Len(queue) > 0
    <3>1. queue \in Seq(Bulks)
      BY <1>0 DEF BulkTyped
    <3> QED
      BY <3>1, <1>4, TailIs
  <2> HIDE DEF b, how
  <2>13. state[b] = "active"
    BY <2>12, <1>0, <1>2 DEF BulkQueued
  <2>1. /\ DOMAIN blk' = BulkFields
        /\ toArm' = Tail(toArm)
        /\ queue' = Tail(queue)
        /\ hand' = Head(toArm).bulk
        /\ state' = [state EXCEPT ![b] = how]
        /\ pages' = pages \ {b}
        /\ ~twice'
        /\ pc' = pc /\ cur' = cur /\ list' = list
        /\ toFirmware' = toFirmware /\ moved' = moved /\ inbox' = inbox
        /\ mixed' = mixed /\ upset' = upset
    <3>1. DOMAIN h = BulkFields /\ DOMAIN h.state = Bulks /\ h.state[b] = "active" /\ ~h.twice
      BY <1>0, <2>13, Fields DEF BulkTyped, BulkFields, BulkQueued
    <3>2. /\ h.state = state /\ h.toArm = Tail(toArm) /\ h.hand = Head(toArm).bulk
          /\ h.pc = pc /\ h.cur = cur /\ h.queue = queue /\ h.pages = pages /\ h.list = list
          /\ h.toFirmware = toFirmware /\ h.moved = moved
          /\ h.inbox = inbox /\ h.mixed = mixed /\ h.upset = upset
      BY <1>0, Fields DEF BulkTyped, BulkFields
    <3>3. s = BulkComplete(h, b, how)
      OBVIOUS
    <3> HIDE DEF h, s
    <3>4. /\ DOMAIN s = BulkFields /\ s.state = [h.state EXCEPT ![b] = how]
          /\ s.pages = h.pages \ {b} /\ ~s.twice
          /\ s.pc = h.pc /\ s.cur = h.cur /\ s.list = h.list /\ s.queue = h.queue
          /\ s.toFirmware = h.toFirmware /\ s.moved = h.moved /\ s.toArm = h.toArm
          /\ s.hand = h.hand /\ s.inbox = h.inbox /\ s.mixed = h.mixed /\ s.upset = h.upset
      BY <2>12, <3>1, <3>3, CompleteIs
    <3> QED
      BY <2>9, <3>2, <3>4, Fields DEF BulkFields
  <2>8. /\ Head(toArm) = toArm[1] /\ Head(toArm) \in DoneMsgs /\ Len(toArm) > 0
        /\ toArm' \in Seq(DoneMsgs) /\ Len(toArm') = Len(toArm) - 1
        /\ \A i \in 1 .. Len(toArm') : toArm'[i] = toArm[i + 1]
    <3>1. toArm \in Seq(DoneMsgs) /\ toArm' = Tail(toArm)
      BY <2>1, <1>0 DEF BulkTyped
    <3> QED
      BY <3>1, <1>1, <1>4, TailIs
  <2>7. /\ Head(queue) = queue[1] /\ Head(queue) \in Bulks /\ Len(queue) > 0
        /\ queue' \in Seq(Bulks) /\ Len(queue') = Len(queue) - 1
        /\ \A i \in 1 .. Len(queue') : queue'[i] = queue[i + 1]
    BY <2>1, <1>0, <1>1, <1>4, TailIs DEF BulkTyped
  <2>3. BulkTyped'
    <3>1. hand' \in Bulks /\ queue' \in Seq(Bulks) /\ toArm' \in Seq(DoneMsgs)
      BY <2>1, <2>7, <2>8, <2>11
    <3> QED
      BY <2>1, <3>1, <1>0 DEF BulkTyped
  <2>4. BulkQueued'
    <3>1. queue \in Seq(Bulks) /\ queue' = Tail(queue)
          /\ \A i, j \in 1 .. Len(queue) : queue[i] = queue[j] => i = j
      BY <2>1, <1>0 DEF BulkTyped, BulkQueued
    <3>2. b = Head(queue)
      BY DEF b
    <3>3. /\ \A i \in 1 .. Len(queue') : \E k \in 1 .. Len(queue) : queue'[i] = queue[k] /\ queue[k] # Head(queue)
          /\ \A i, j \in 1 .. Len(queue') : queue'[i] = queue'[j] => i = j
      <4>1. queue \in Seq(Bulks) /\ Apart(queue)
        BY <3>1 DEF Apart
      <4>2. Apart(Tail(queue)) /\ EntriesOf(Tail(queue), queue, Head(queue))
        BY <4>1, <1>4, TailApart
      <4> QED
        BY <3>1, <4>2 DEF Apart, EntriesOf
    <3>4. \A i \in 1 .. Len(queue') : state'[queue'[i]] = "active"
      <4>1. state' = [state EXCEPT ![b] = how] /\ DOMAIN state = Bulks /\ Head(queue) = b
        BY <2>1, <1>0, <3>2 DEF BulkTyped
      <4>2. \A k \in 1 .. Len(queue) : queue[k] \in Bulks /\ state[queue[k]] = "active"
        BY <1>0 DEF BulkTyped, BulkQueued
      <4> QED
        BY <3>3, <4>1, <4>2
    <3>5. pc = "listed" => state'[cur] = "active" /\ \A i \in 1 .. Len(queue') : queue'[i] # cur
      <4>1. 1 \in 1 .. Len(queue)
        BY <2>12, <1>2
      <4> QED
        BY <2>1, <3>2, <3>3, <4>1, <1>0, <2>12 DEF BulkTyped, BulkQueued
    <3> QED
      BY <2>1, <3>3, <3>4, <3>5 DEF BulkQueued
  <2>5. ASSUME upset' = {} PROVE BulkPipeline' /\ BulkListed'
    <3>1. /\ QueueLength /\ QueueDone /\ QueueSent /\ QueueHeld /\ SuccessIsMoved
          /\ ListLength /\ ListFirst /\ ListRest /\ ~mixed
      BY <1>0, <2>1, <2>5 DEF BulkPipeline, BulkListed
    <3>2. Held' <=> Held
      BY <2>1 DEF Held
    <3>3. Len(queue) >= Len(toArm) + Len(toFirmware) /\ (Held => Len(queue) > Len(toArm) + Len(toFirmware))
      BY <3>1, <1>2 DEF QueueLength
    <3>4. Told' = Told + 1
      <4>1. hand' # NoBulk
        BY <2>1, <2>11, <1>0
      <4> QED
        BY <4>1, <2>1, <1>1, <1>2 DEF Told
    <3>5. QueueLength'
      <4>1. Len(queue') = Len(queue) - 1 /\ Len(toArm') = Len(toArm) - 1 /\ toFirmware' = toFirmware
        BY <2>1, <2>7, <2>8
      <4> QED
        BY <4>1, <3>1, <3>2, <1>2 DEF QueueLength
    <3>6. QueueDone'
      <4>1. moved' = moved /\ Len(queue') = Len(queue) - 1 /\ Len(toArm') = Len(toArm) - 1
        BY <2>1, <2>7, <2>8
      <4>2. ASSUME NEW i \in 1 .. Len(toArm')
           PROVE  /\ queue'[i] = toArm'[i].bulk
                  /\ toArm'[i].ok => toArm'[i].bulk \in moved
        <5>1. i \in 1 .. Len(queue') /\ i + 1 \in 1 .. Len(toArm)
          BY <4>1, <3>3, <1>2
        <5>2. queue'[i] = queue[i + 1] /\ toArm'[i] = toArm[i + 1]
          BY <5>1, <2>7, <2>8
        <5> QED
          BY <5>1, <5>2, <3>1 DEF QueueDone
      <4> QED
        BY <4>1, <4>2 DEF QueueDone
    <3>7. QueueSent'
      <4>1. /\ toFirmware' = toFirmware /\ pages' = pages \ {b}
           /\ Len(queue') = Len(queue) - 1 /\ Len(toArm') = Len(toArm) - 1
        BY <2>1, <2>7, <2>8
      <4>2. ASSUME NEW i \in 1 .. Len(toFirmware)
           PROVE  queue'[Len(toArm') + i] = toFirmware[i] /\ toFirmware[i] \in pages \ {b}
        <5>1. /\ Len(toArm') + i \in 1 .. Len(queue') /\ Len(toArm') + i + 1 = Len(toArm) + i
             /\ Len(toArm) + i \in 1 .. Len(queue) /\ Len(toArm) + i # 1 /\ 1 \in 1 .. Len(queue)
          BY <4>1, <3>3, <1>2, <2>11
        <5>2. queue'[Len(toArm') + i] = queue[Len(toArm) + i]
          BY <5>1, <2>7
        <5>3. queue[Len(toArm) + i] # queue[1]
          BY <5>1, <1>0 DEF BulkQueued
        <5> QED
          BY <5>2, <5>3, <3>1, <2>12 DEF QueueSent
      <4> QED
        BY <4>1, <4>2 DEF QueueSent
    <3>8. QueueHeld'
      <4>1. pc' = pc /\ cur' = cur /\ pages' = pages \ {b} /\ Len(queue') = Len(queue) - 1
        BY <2>1, <2>7
      <4>2. ASSUME Held
           PROVE  queue'[Len(queue')] = cur /\ cur # b
        <5>1. /\ Len(queue') \in 1 .. Len(queue') /\ Len(queue') + 1 = Len(queue)
             /\ Len(queue) \in 1 .. Len(queue) /\ Len(queue) # 1 /\ 1 \in 1 .. Len(queue)
          BY <4>1, <4>2, <3>3, <1>2, <2>11
        <5>2. queue'[Len(queue')] = queue[Len(queue)]
          BY <5>1, <2>7
        <5>3. queue[Len(queue)] # queue[1]
          BY <5>1, <1>0 DEF BulkQueued
        <5> QED
          BY <4>2, <5>2, <5>3, <3>1, <2>12 DEF QueueHeld
      <4>3. pc = "mapped" => Held
        BY DEF Held
      <4> QED
        BY <4>1, <4>2, <4>3, <3>1, <3>2 DEF QueueHeld
    <3>9. SuccessIsMoved'
      <4>1. 1 \in 1 .. Len(toArm)
        BY <2>11, <1>2
      <4>2. how = "success" => b \in moved
        BY <4>1, <3>1, <2>10, <2>11, <2>12 DEF QueueDone
      <4>3. moved' = moved /\ state' = [state EXCEPT ![b] = how] /\ DOMAIN state = Bulks
        BY <2>1, <1>0 DEF BulkTyped
      <4> QED
        BY <4>2, <4>3, <3>1 DEF SuccessIsMoved
    <3>10. ListLength'
      <4>1. pc' = pc /\ list' = list /\ Len(queue') = Len(queue) - 1
        BY <2>1, <2>7
      <4> QED
        BY <4>1, <3>1, <3>4, <1>2 DEF ListLength
    <3>11. ListFirst'
      <4>1. pc = "retrieve" => Held
        BY DEF Held
      <4>2. Told + 1 <= Len(list)
        BY <4>1, <3>1, <3>3, <1>2, <2>11, <2>12 DEF ListLength
      <4>3. list[Told + 1] = queue[1]
        BY <4>2, <3>1, <2>12, <1>2 DEF ListRest
      <4>4. 1 \in 1 .. Len(toArm)
        BY <2>11, <1>2
      <4>5. queue[1] = Head(toArm).bulk
        BY <4>4, <3>1, <2>11 DEF QueueDone
      <4> QED
        BY <4>3, <4>5, <2>1, <3>1, <3>4 DEF ListFirst
    <3>12. ListRest'
      <4>1. pc' = pc /\ cur' = cur /\ list' = list /\ Len(queue') = Len(queue) - 1
        BY <2>1, <2>7
      <4>2. ASSUME NEW i \in 1 .. Len(queue'), Told' + i <= Len(list)
           PROVE  list[Told' + i] = queue'[i]
        <5>1. i + 1 \in 1 .. Len(queue) /\ Told' + i = Told + (i + 1)
          BY <4>1, <3>4, <1>2
        <5>2. queue'[i] = queue[i + 1]
          BY <2>7
        <5> QED
          BY <4>2, <5>1, <5>2, <3>1 DEF ListRest
      <4> QED
        BY <4>1, <4>2, <3>1 DEF ListRest
    <3>13. ~mixed'
      BY <2>1, <3>1
    <3> QED
      BY <3>5, <3>6, <3>7, <3>8, <3>9, <3>10, <3>11, <3>12, <3>13 DEF BulkPipeline, BulkListed
  <2> QED
    BY <2>3, <2>4, <2>5 DEF BulkInv
<1> QED
  BY <1>3, <1>4

\* The firmware does the first of the transfers, or aborts it.
LEMMA FirmwareKept == ASSUME BulkInv, FirmwareBulk PROVE BulkInv'
<1>0. /\ BulkTyped /\ BulkQueued /\ NoBulk \notin Bulks
      /\ upset = {} => BulkPipeline /\ BulkListed
  BY BulkAssumption DEF BulkInv
<1>2. /\ Len(list) \in Nat /\ Len(queue) \in Nat /\ Len(toArm) \in Nat
      /\ Len(toFirmware) \in Nat /\ Len(inbox) \in Nat /\ Told \in Nat
      /\ hand # NoBulk => Told = Len(inbox) + 1
      /\ hand = NoBulk => Told = Len(inbox)
  BY <1>0, BulkNumbers
<1>1. toFirmware # <<>>
  BY Fields DEF FirmwareBulk
<1> DEFINE b == Head(toFirmware)
<1>3. PICK ok \in BOOLEAN :
        blk' = [blk EXCEPT !.toFirmware = Tail(@), !.moved = IF ok THEN @ \cup {b} ELSE @,
                           !.toArm = Append(@, [bulk |-> b, ok |-> ok])]
  <2>1. CASE blk' = [blk EXCEPT !.toFirmware = Tail(@), !.moved = @ \cup {b},
                                !.toArm = Append(@, [bulk |-> b, ok |-> TRUE])]
    BY <2>1
  <2>2. CASE blk' = [blk EXCEPT !.toFirmware = Tail(@),
                                !.toArm = Append(@, [bulk |-> b, ok |-> FALSE])]
    <3>1. blk' = [blk EXCEPT !.toFirmware = Tail(@), !.moved = IF FALSE THEN @ \cup {b} ELSE @,
                             !.toArm = Append(@, [bulk |-> b, ok |-> FALSE])]
      BY <2>2, <1>0 DEF BulkTyped, BulkFields
    <3> QED
      BY <3>1
  <2> QED
    BY <2>1, <2>2, Fields DEF FirmwareBulk
<1> DEFINE e == [bulk |-> b, ok |-> ok]
<1>4. b \in Bulks /\ b = toFirmware[1] /\ Len(toFirmware) > 0
  <2>1. toFirmware \in Seq(Bulks)
    BY <1>0 DEF BulkTyped
  <2> QED
    BY <2>1, <1>1, TailIs
<1> HIDE DEF b
<1>5. e \in DoneMsgs /\ e.bulk = b /\ e.ok = ok
  BY <1>4 DEF DoneMsgs
<1>6. blk' = [blk EXCEPT !.toFirmware = Tail(@), !.moved = IF ok THEN @ \cup {b} ELSE @,
                         !.toArm = Append(@, e)]
  BY <1>3
<1> HIDE DEF e
<1> QED
  <2>1. /\ DOMAIN blk' = BulkFields
        /\ toFirmware' = Tail(toFirmware)
        /\ moved' = IF ok THEN moved \cup {b} ELSE moved
        /\ toArm' = Append(toArm, e)
        /\ pc' = pc /\ cur' = cur /\ state' = state
        /\ list' = list /\ queue' = queue /\ pages' = pages
        /\ hand' = hand /\ inbox' = inbox /\ twice' = twice
        /\ mixed' = mixed /\ upset' = upset
    BY <1>0, <1>6, Fields DEF BulkTyped, BulkFields
  <2>8. /\ Head(toFirmware) = toFirmware[1] /\ Head(toFirmware) \in Bulks /\ Len(toFirmware) > 0
        /\ toFirmware' \in Seq(Bulks) /\ Len(toFirmware') = Len(toFirmware) - 1
        /\ \A i \in 1 .. Len(toFirmware') : toFirmware'[i] = toFirmware[i + 1]
    BY <2>1, <1>0, <1>1, <1>5, TailIs DEF BulkTyped
  <2>7. /\ toArm' \in Seq(DoneMsgs) /\ Len(toArm') = Len(toArm) + 1
        /\ toArm'[Len(toArm) + 1] = e
        /\ \A i \in 1 .. Len(toArm) : toArm'[i] = toArm[i]
    BY <2>1, <1>0, <1>1, <1>5, AppendIs DEF BulkTyped
  <2>3. BulkTyped'
    BY <2>1, <2>8, <2>7, <1>0, <1>1, <1>5 DEF BulkTyped
  <2>4. BulkQueued'
    BY <2>1, <2>8, <2>7, <1>0, <1>2, <1>1, <1>5 DEF BulkQueued
  <2>5. ASSUME upset' = {} PROVE BulkPipeline' /\ BulkListed'
    <3>1. /\ QueueLength /\ QueueDone /\ QueueSent /\ QueueHeld /\ SuccessIsMoved
          /\ ListLength /\ ListFirst /\ ListRest /\ ~mixed
      BY <1>0, <2>1, <2>5 DEF BulkPipeline, BulkListed
    <3>2. Held' <=> Held
      BY <2>1 DEF Held
    <3>3. Len(queue) >= Len(toArm) + Len(toFirmware) /\ (Held => Len(queue) > Len(toArm) + Len(toFirmware))
      BY <3>1, <1>2 DEF QueueLength
    <3>4. Told' = Told
      BY <2>1 DEF Told
    <3>5. QueueLength'
      <4>1. /\ queue' = queue /\ Len(toFirmware') = Len(toFirmware) - 1 /\ Len(toArm') = Len(toArm) + 1
        BY <2>1, <2>7, <2>8
      <4> QED
        BY <4>1, <3>1, <3>2, <1>2 DEF QueueLength
    <3>6. QueueDone'
      <4>1. queue' = queue /\ moved \subseteq moved' /\ (ok => b \in moved')
        BY <2>1
      <4>2. ASSUME NEW i \in 1 .. Len(toArm')
           PROVE  /\ queue[i] = toArm'[i].bulk
                  /\ toArm'[i].ok => toArm'[i].bulk \in moved'
        <5>1. CASE i = Len(toArm) + 1
          <6>1. 1 \in 1 .. Len(toFirmware)
            BY <1>2, <1>4
          <6>2. queue[Len(toArm) + 1] = b
            BY <6>1, <3>1, <1>4 DEF QueueSent
          <6> QED
            BY <5>1, <6>2, <2>7, <4>1, <1>5
        <5>2. CASE i # Len(toArm) + 1
          <6>1. i \in 1 .. Len(toArm)
            BY <5>2, <2>7, <1>2
          <6>2. toArm'[i] = toArm[i]
            BY <6>1, <2>7
          <6> QED
            BY <6>1, <6>2, <4>1, <3>1 DEF QueueDone
        <5> QED
          BY <5>1, <5>2
      <4> QED
        BY <4>1, <4>2 DEF QueueDone
    <3>7. QueueSent'
      <4>1. queue' = queue /\ pages' = pages /\ Len(toArm') = Len(toArm) + 1 /\ Len(toFirmware') = Len(toFirmware) - 1
        BY <2>1, <2>7, <2>8
      <4>2. ASSUME NEW i \in 1 .. Len(toFirmware')
           PROVE  queue[Len(toArm') + i] = toFirmware'[i] /\ toFirmware'[i] \in pages
        <5>1. i + 1 \in 1 .. Len(toFirmware) /\ Len(toArm') + i = Len(toArm) + (i + 1)
          BY <4>1, <1>2
        <5>2. toFirmware'[i] = toFirmware[i + 1]
          BY <2>8
        <5> QED
          BY <5>1, <5>2, <3>1 DEF QueueSent
      <4> QED
        BY <4>1, <4>2 DEF QueueSent
    <3>8. QueueHeld'
      BY <2>1, <3>1 DEF QueueHeld, Held
    <3>9. SuccessIsMoved'
      BY <2>1, <1>1, <1>5, <3>1, <3>2, <3>3, <1>2 DEF SuccessIsMoved
    <3>10. ListLength'
      BY <2>1, <3>1, <3>4 DEF ListLength
    <3>11. ListFirst'
      BY <2>1, <3>1, <3>4 DEF ListFirst
    <3>12. ListRest'
      BY <2>1, <3>1, <3>4 DEF ListRest
    <3>13. ~mixed'
      BY <2>1, <3>1
    <3> QED
      BY <3>5, <3>6, <3>7, <3>8, <3>9, <3>10, <3>11, <3>12, <3>13 DEF BulkPipeline, BulkListed
  <2> QED
    BY <2>3, <2>4, <2>5 DEF BulkInv

\* A request is cancelled out of the queue.
LEMMA CancelKept == ASSUME BulkInv, NEW b \in Bulks, CancelBulk(b) PROVE BulkInv'
<1>0. /\ BulkTyped /\ BulkQueued /\ NoBulk \notin Bulks
      /\ upset = {} => BulkPipeline /\ BulkListed
  BY BulkAssumption DEF BulkInv
<1>2. /\ Len(list) \in Nat /\ Len(queue) \in Nat /\ Len(toArm) \in Nat
      /\ Len(toFirmware) \in Nat /\ Len(inbox) \in Nat /\ Told \in Nat
      /\ hand # NoBulk => Told = Len(inbox) + 1
      /\ hand = NoBulk => Told = Len(inbox)
  BY <1>0, BulkNumbers
<1> DEFINE s == BulkComplete(blk, b, "cancelled")
<1>1. /\ InBulkQueue(blk, b) /\ b \in Bulks
      /\ blk' = [s EXCEPT !.queue = TakenFrom(@, b), !.upset = @ \cup {"cancel"}]
  BY DEF CancelBulk
<1>3. PICK n \in 1 .. Len(queue) : queue[n] = b
  BY <1>1, Fields DEF InBulkQueue
<1>4. state[b] = "active"
  BY <1>0, <1>3 DEF BulkQueued
<1> QED
  <2>1. /\ DOMAIN blk' = BulkFields
        /\ state' = [state EXCEPT ![b] = "cancelled"]
        /\ pages' = pages \ {b}
        /\ queue' = TakenFrom(queue, b)
        /\ upset' = upset \cup {"cancel"}
        /\ ~twice'
        /\ pc' = pc /\ cur' = cur /\ list' = list
        /\ toFirmware' = toFirmware /\ moved' = moved /\ toArm' = toArm
        /\ hand' = hand /\ inbox' = inbox /\ mixed' = mixed
    <3>1. /\ DOMAIN s = BulkFields /\ s.state = [state EXCEPT ![b] = "cancelled"]
          /\ s.pages = pages \ {b} /\ ~s.twice /\ s.list = list /\ s.pc = pc
          /\ s.cur = cur /\ s.queue = queue /\ s.toFirmware = toFirmware /\ s.moved = moved
          /\ s.toArm = toArm /\ s.hand = hand /\ s.inbox = inbox /\ s.mixed = mixed
          /\ s.upset = upset
      <4>1. DOMAIN blk = BulkFields /\ DOMAIN state = Bulks /\ state[b] = "active" /\ ~twice
        BY <1>0, <1>4 DEF BulkTyped, BulkQueued
      <4> QED
        BY <4>1, <1>1, CompleteIs, Fields
    <3>2. blk' = [s EXCEPT !.queue = TakenFrom(@, b), !.upset = @ \cup {"cancel"}]
      BY <1>1
    <3> HIDE DEF s
    <3> QED
      BY <3>1, <3>2, Fields DEF BulkFields
  <2>8. /\ queue' \in Seq(Bulks) /\ Len(queue') = Len(queue) - 1
        /\ \A i \in 1 .. Len(queue') :
             queue'[i] = IF i < n THEN queue[i] ELSE queue[i + 1]
    <3>1. queue \in Seq(Bulks) /\ \A i, j \in 1 .. Len(queue) : queue[i] = queue[j] => i = j
      BY <1>0 DEF BulkTyped, BulkQueued
    <3>2. queue' = RemoveAt(queue, n)
      BY <2>1, <1>3, <3>1, TakenFromAt
    <3>3. RemoveAt(queue, n) \in Seq(Bulks)
      BY <1>3, <3>1, RemoveAtIs
    <3>4. /\ Len(RemoveAt(queue, n)) = Len(queue) - 1
         /\ \A i \in 1 .. Len(queue) - 1 :
              RemoveAt(queue, n)[i] = IF i < n THEN queue[i] ELSE queue[i + 1]
      BY <1>3, <3>1, RemoveAtEntries
    <3> QED
      BY <3>2, <3>3, <3>4
  <2>3. BulkTyped'
    BY <2>1, <2>8, <1>0, <1>1, <1>3 DEF BulkTyped
  <2>4. BulkQueued'
    <3>1. queue \in Seq(Bulks) /\ \A i, j \in 1 .. Len(queue) : queue[i] = queue[j] => i = j
      BY <1>0 DEF BulkTyped, BulkQueued
    <3>2. queue' = RemoveAt(queue, n)
      BY <2>1, <1>3, <3>1, TakenFromAt
    <3>3. /\ \A i \in 1 .. Len(queue') : \E k \in 1 .. Len(queue) : queue'[i] = queue[k] /\ queue[k] # queue[n]
          /\ \A i, j \in 1 .. Len(queue') : queue'[i] = queue'[j] => i = j
      <4>1. queue \in Seq(Bulks) /\ Apart(queue)
        BY <3>1 DEF Apart
      <4>3. n \in 1 .. Len(queue)
        BY <1>3
      <4>2. Apart(RemoveAt(queue, n)) /\ EntriesOf(RemoveAt(queue, n), queue, queue[n])
        BY <4>1, <4>3, RemoveApart
      <4> QED
        BY <3>2, <4>2 DEF Apart, EntriesOf
    <3>4. \A i \in 1 .. Len(queue') : state'[queue'[i]] = "active"
      <4>1. state' = [state EXCEPT ![b] = "cancelled"] /\ DOMAIN state = Bulks /\ queue[n] = b
        BY <2>1, <1>0, <1>3 DEF BulkTyped
      <4>2. \A k \in 1 .. Len(queue) : queue[k] \in Bulks /\ state[queue[k]] = "active"
        BY <1>0 DEF BulkTyped, BulkQueued
      <4> QED
        BY <3>3, <4>1, <4>2
    <3>5. pc = "listed" => state'[cur] = "active" /\ \A i \in 1 .. Len(queue') : queue'[i] # cur
      BY <2>1, <3>3, <1>0, <1>1, <1>3 DEF BulkTyped, BulkQueued
    <3> QED
      BY <2>1, <3>3, <3>4, <3>5 DEF BulkQueued
  <2> QED
    BY <2>1, <2>3, <2>4 DEF BulkInv

-----------------------------------------------------------------------------

\* No step of the handler, the trigger thread, a client, the firmware or the framework
\* disturbs the invariant.
LEMMA BulkStep == ASSUME BulkInv, [BulkNext]_blk PROVE BulkInv'
<1>1. CASE UNCHANGED blk
  <2>1. /\ DOMAIN blk' = DOMAIN blk
        /\ pc' = pc /\ cur' = cur /\ state' = state /\ list' = list /\ queue' = queue
        /\ pages' = pages /\ toFirmware' = toFirmware /\ moved' = moved /\ toArm' = toArm
        /\ hand' = hand /\ inbox' = inbox /\ twice' = twice /\ mixed' = mixed /\ upset' = upset
    BY <1>1, Fields
  <2> QED
    BY <2>1 DEF BulkInv, BulkTyped, BulkQueued, BulkPipeline, BulkListed, QueueLength, QueueDone,
                QueueSent, QueueHeld, SuccessIsMoved, ListLength, ListFirst, ListRest, Held, Told
<1> QED
  BY <1>1, AddPendingKept, ForwardKept, MapKept, SendKept, RemoveKept, RetrieveKept, DoneKept,
     AddDoneKept, TakePendingKept, FirmwareKept, CancelKept
  DEF BulkNext, BulkHandler, BulkTrigger

(***************************************************************************)
(* For every set of transfers, and whatever is cancelled, fails or is      *)
(* aborted: a request of the queue has no answer yet and is in it once; as *)
(* long as nothing was upset, PendingBulkMsgList and the queue of requests *)
(* are in the order of the transfers the firmware was sent.                *)
(***************************************************************************)
THEOREM BulkInvariant == BulkSpec => []BulkInv
<1>1. BulkInv /\ [BulkNext]_blk => BulkInv'
  BY BulkStep
<1> QED
  BY <1>1, BulkInitially, PTL DEF BulkSpec

(***************************************************************************)
(* No bulk request is completed twice; and until a request is cancelled,   *)
(* one completed with success is one whose data the firmware has moved,    *)
(* the client is told the user data of the transfer that is done, and the  *)
(* page list of a transfer the firmware has still to do is not freed.      *)
(* (VchiqProcessRxSlot, VchiqRemovePendingBulkMsg and                      *)
(* VchiqTransferRequestContextCleanup.)                                    *)
(***************************************************************************)
THEOREM BulkTransfersOwnHolds == BulkSpec => []BulkTransfersOwn
<1>1. BulkInv => BulkTransfersOwn
  <2> SUFFICES ASSUME BulkInv PROVE BulkTransfersOwn
    OBVIOUS
  <2>1. BulkCompletedOnce
    BY Fields DEF BulkInv, BulkQueued, BulkCompletedOnce
  <2>2. BulkTruthful
    BY Fields DEF BulkInv, BulkPipeline, SuccessIsMoved, BulkTruthful
  <2>3. BulkDataOwn
    BY Fields DEF BulkInv, BulkListed, BulkDataOwn
  <2>4. BulkPagesKept
    BY Fields DEF BulkInv, BulkPipeline, QueueSent, BulkPagesKept
  <2> QED
    BY <2>1, <2>2, <2>3, <2>4 DEF BulkTransfersOwn
<1> QED
  BY <1>1, BulkInvariant, PTL

-----------------------------------------------------------------------------
(* Services and their ports.

   The trigger thread finds the file a message is for by its port alone, and a
   port is given to the next file as soon as the first is closed: nothing in a
   message says which of them it is for.  That it reaches its own file, and a
   context that is still there, is a matter of protocol: whatever is on its way
   to or from the firmware belongs to a file that waits for its service or has
   it (Live), so its port is still the file's; and the answer to CLOSE, after
   which the client goes on, is the last that the firmware sends for a service
   (CloseIsLast).  This holds as long as no client leaves abruptly (upset = {});
   that a port leads to the file that has it, whatever happens. *)

\* The fields of the services.
ServiceFields == {"connected", "handles", "pc", "context", "port", "vcPort", "state", "queued",
                  "toFirmware", "toArm", "opened", "sent", "message", "file", "astray", "stale",
                  "upset"}

\* The fields of the services, by name.
filePc == svc.pc
handles == svc.handles
context == svc.context
port == svc.port
vcPort == svc.vcPort
fileState == svc.state
queuedRequest == svc.queued
fwBox == svc.toFirmware
armBox == svc.toArm
opened == svc.opened
message == svc.message
found == svc.file
astray == svc.astray
stale == svc.stale
upsets == svc.upset

\* Where a file is between its first request and its end, and what messages there are.
FilePcs == {"new", "claim", "failed", "ready", "linked", "create", "waiting", "open", "close",
            "closed", "leaving", "told", "gone"}
Replies == {"openack", "close", "data"}

\* Messages to the firmware (SLOT_INFO master side), and to the client; CONNECT is nobody's.
FwMessages == [type : {"connect", "open", "close"}, arm : 0 .. LastPort, of : ServiceFiles,
               dst : ServiceFiles \cup {NoFile}]
ArmMessages == [type : {"connect"}, arm : 0 .. LastPort, of : {NoFile}]
                 \cup [type : Replies, arm : 0 .. LastPort, of : ServiceFiles]

\* The fields hold what the requests and the trigger thread put there.
ServiceTyped ==
  /\ DOMAIN svc = ServiceFields
  /\ handles \in [ServicePorts -> ServiceFiles \cup {NoFile}]
  /\ filePc \in [ServiceFiles -> FilePcs]
  /\ context \in [ServiceFiles -> BOOLEAN]
  /\ port \in [ServiceFiles -> 0 .. LastPort]
  /\ vcPort \in [ServiceFiles -> ServiceFiles \cup {NoFile}]
  /\ fileState \in [ServiceFiles -> {"min", "open", "close"}]
  /\ queuedRequest \in [ServiceFiles -> {"none", "create", "close"}]
  /\ fwBox \in Seq(FwMessages)
  /\ armBox \in Seq(ArmMessages)
  /\ opened \subseteq ServiceFiles \X (0 .. LastPort)
  /\ message \in ArmMessages \cup {NoServiceMessage}
  /\ found \in ServiceFiles \cup {NoFile}

\* Who has a context, and a port.
FilesHavePorts ==
  \A f \in ServiceFiles :
    /\ context[f] <=> filePc[f] \notin {"new", "gone"}
    /\ filePc[f] \in {"new", "claim"} => port[f] = 0
    /\ filePc[f] \in {"ready", "linked", "create", "waiting", "open", "close"} => port[f] # 0
    /\ context[f] /\ port[f] # 0 => handles[port[f]] = f

\* The client waits for the service, or has it.
Live(f) == filePc[f] \in {"waiting", "open", "close"}

\* What is on its way from or to the service of a file.
OpenPending(f) == \E i \in 1 .. Len(fwBox) : fwBox[i].type = "open" /\ fwBox[i].of = f
Serviced(f) == \E s \in opened : s[1] = f
Answered(f) == message.of = f \/ \E i \in 1 .. Len(armBox) : armBox[i].of = f
Left(f) == OpenPending(f) \/ Serviced(f) \/ Answered(f)

\* A CREATE on its way is the only sign of its service, which the client waits for.
OpensAreLive ==
  \A i \in 1 .. Len(fwBox) : fwBox[i].type = "open" =>
    /\ fwBox[i].arm = port[fwBox[i].of] /\ Live(fwBox[i].of)
    /\ ~Serviced(fwBox[i].of) /\ ~Answered(fwBox[i].of)
    /\ \A j \in 1 .. Len(fwBox) : j # i /\ fwBox[j].type = "open" => fwBox[j].of # fwBox[i].of

\* A service of the firmware has the port of its file, and the file is not left.
ServicesAreLive == \A s \in opened : s[2] = port[s[1]] /\ Live(s[1])

\* So has every message from the firmware, ...
RepliesAreLive ==
  \A i \in 1 .. Len(armBox) : armBox[i].type \in Replies =>
    /\ armBox[i].of \in ServiceFiles
    /\ armBox[i].arm = port[armBox[i].of] /\ Live(armBox[i].of)

\* ... and the one the trigger thread looks at, which has found its file.
MessageIsLive ==
  message.type \in Replies =>
    message.of \in ServiceFiles /\ found = message.of /\ Live(message.of)

\* Nothing follows the answer to a CLOSE.
CloseIsLast ==
  /\ \A i \in 1 .. Len(armBox) : armBox[i].type = "close" =>
       /\ ~Serviced(armBox[i].of)
       /\ \A j \in 1 .. Len(armBox) : i < j => armBox[j].of # armBox[i].of
  /\ message.type = "close" =>
       /\ ~Serviced(message.of)
       /\ \A j \in 1 .. Len(armBox) : armBox[j].of # message.of

\* A client about to send CLOSE has its request queued, or nothing is left of the service.
CloseIsQueued ==
  \A f \in ServiceFiles : filePc[f] = "close" =>
    queuedRequest[f] = "close" \/ ~Left(f)

\* What holds as long as no client leaves abruptly.
ServiceCalm ==
  /\ ~astray /\ ~stale
  /\ OpensAreLive /\ ServicesAreLive /\ RepliesAreLive /\ MessageIsLive
  /\ CloseIsLast /\ CloseIsQueued

\* The inductive invariant.
ServiceInv ==
  ServiceTyped /\ FilesHavePorts /\ (upsets = {} => ServiceCalm)

-----------------------------------------------------------------------------
\* TailIs, with the places of the entries that are left.
LEMMA TailPlaces ==
  ASSUME NEW S, NEW s \in Seq(S), s # <<>>
  PROVE  /\ Tail(s) \in Seq(S) /\ Len(Tail(s)) = Len(s) - 1 /\ Len(s) \in Nat \ {0}
         /\ Head(s) = s[1] /\ s[1] \in S
         /\ \A i \in 1 .. Len(Tail(s)) : Tail(s)[i] = s[i + 1] /\ i + 1 \in 1 .. Len(s)
OBVIOUS

\* The fields by their names, before and after a step.
LEMMA SvcFields ==
  /\ filePc = svc.pc /\ handles = svc.handles /\ context = svc.context /\ port = svc.port
  /\ vcPort = svc.vcPort /\ fileState = svc.state /\ queuedRequest = svc.queued
  /\ fwBox = svc.toFirmware /\ armBox = svc.toArm /\ opened = svc.opened
  /\ message = svc.message /\ found = svc.file /\ astray = svc.astray /\ stale = svc.stale
  /\ upsets = svc.upset
  /\ filePc' = svc'.pc /\ handles' = svc'.handles /\ context' = svc'.context /\ port' = svc'.port
  /\ vcPort' = svc'.vcPort /\ fileState' = svc'.state /\ queuedRequest' = svc'.queued
  /\ fwBox' = svc'.toFirmware /\ armBox' = svc'.toArm /\ opened' = svc'.opened
  /\ message' = svc'.message /\ found' = svc'.file /\ astray' = svc'.astray /\ stale' = svc'.stale
  /\ upsets' = svc'.upset
BY DEF filePc, handles, context, port, vcPort, fileState, queuedRequest, fwBox, armBox, opened,
       message, found, astray, stale, upsets

\* No file has a context, and the firmware's CONNECT is the one message.
LEMMA ServiceInitially == ServiceInit => ServiceInv
<1> SUFFICES ASSUME ServiceInit PROVE ServiceInv
  OBVIOUS
<1>1. /\ DOMAIN svc = ServiceFields
      /\ filePc = [f \in ServiceFiles |-> "new"] /\ handles = [p \in ServicePorts |-> NoFile]
      /\ context = [f \in ServiceFiles |-> FALSE] /\ port = [f \in ServiceFiles |-> 0]
      /\ vcPort = [f \in ServiceFiles |-> NoFile] /\ fileState = [f \in ServiceFiles |-> "min"]
      /\ queuedRequest = [f \in ServiceFiles |-> "none"] /\ fwBox = <<>>
      /\ armBox = <<[type |-> "connect", arm |-> 0, of |-> NoFile]>>
      /\ opened = {} /\ message = NoServiceMessage /\ found = NoFile
      /\ astray = FALSE /\ stale = FALSE
  BY SvcFields DEF ServiceInit, ServiceFields
<1>2. [type |-> "connect", arm |-> 0, of |-> NoFile] \in ArmMessages
  BY ServiceAssumption DEF ArmMessages
<1>3. armBox \in Seq(ArmMessages) /\ Len(armBox) = 1 /\ armBox[1].type = "connect"
  BY <1>1, <1>2
<1>4. ServiceTyped
  BY <1>1, <1>3, ServiceAssumption DEF ServiceTyped, FilePcs, ServicePorts
<1>5. FilesHavePorts
  BY <1>1, ServiceAssumption DEF FilesHavePorts
<1>6. ServiceCalm
  BY <1>1, <1>3 DEF ServiceCalm, OpensAreLive, ServicesAreLive, RepliesAreLive, MessageIsLive,
                    CloseIsLast, CloseIsQueued, Replies, NoServiceMessage
<1> QED
  BY <1>4, <1>5, <1>6 DEF ServiceInv

\* Steps that send nothing but CONNECT and CLOSE to the firmware, and at most end with the message.
LEMMA CalmKept ==
  ASSUME ServiceTyped, ServiceTyped', ServiceCalm,
         armBox' = armBox, opened' = opened,
         (message' = message /\ found' = found) \/ message' = NoServiceMessage,
         ~astray', ~stale',
         Len(fwBox') >= Len(fwBox), \A i \in 1 .. Len(fwBox) : fwBox'[i] = fwBox[i],
         \A i \in 1 .. Len(fwBox') : i \notin 1 .. Len(fwBox) => fwBox'[i].type # "open",
         \A g \in ServiceFiles : Live(g) => (Live(g)' /\ port'[g] = port[g]) \/ ~Left(g)',
         \A g \in ServiceFiles : filePc'[g] = "close" =>
            \/ filePc[g] = "close" /\ queuedRequest'[g] = queuedRequest[g]
            \/ queuedRequest'[g] = "close" \/ ~Left(g)'
  PROVE  ServiceCalm'
<1>1. \A g \in ServiceFiles : (Serviced(g)' <=> Serviced(g)) /\ (Answered(g)' => Answered(g))
  BY ServiceAssumption DEF Serviced, Answered, NoServiceMessage
<1>2. /\ fwBox \in Seq(FwMessages) /\ fwBox' \in Seq(FwMessages)
      /\ armBox \in Seq(ArmMessages)
      /\ opened \subseteq ServiceFiles \X (0 .. LastPort)
  BY DEF ServiceTyped
<1>3. Len(fwBox) \in Nat /\ Len(fwBox') \in Nat
  BY <1>2
<1>4. \A i \in 1 .. Len(fwBox) : i \in 1 .. Len(fwBox') /\ fwBox[i].of \in ServiceFiles
  <2>1. \A i \in 1 .. Len(fwBox) : fwBox[i] \in FwMessages
    BY <1>2
  <2> QED
    BY <1>3, <2>1 DEF FwMessages
<1>5. \A g \in ServiceFiles : (OpenPending(g)' <=> OpenPending(g)) /\ (Left(g)' => Left(g))
  BY <1>1, <1>4 DEF OpenPending, Left
<1>6. OpensAreLive'
  <2>1. \A i \in 1 .. Len(fwBox') : fwBox'[i].type = "open" =>
          /\ i \in 1 .. Len(fwBox) /\ fwBox'[i] = fwBox[i] /\ fwBox[i].of \in ServiceFiles
          /\ Left(fwBox[i].of)'
    BY <1>4 DEF Left, OpenPending
  <2> QED
    BY <1>1, <2>1 DEF ServiceCalm, OpensAreLive
<1>7. ServicesAreLive'
  <2>1. \A s \in opened : s[1] \in ServiceFiles /\ Left(s[1])'
    BY <1>2 DEF Left, Serviced
  <2> QED
    BY <2>1 DEF ServiceCalm, ServicesAreLive
<1>8. RepliesAreLive'
  <2>1. \A i \in 1 .. Len(armBox) : Left(armBox[i].of)'
    BY DEF Left, Answered
  <2> QED
    BY <2>1 DEF ServiceCalm, RepliesAreLive
<1>9. MessageIsLive'
  <2>1. Left(message.of)' \/ message' = NoServiceMessage
    BY DEF Left, Answered
  <2> QED
    BY <2>1 DEF ServiceCalm, MessageIsLive, NoServiceMessage, Replies
<1>10. CloseIsLast'
  <2>1. /\ \A i \in 1 .. Len(armBox) : armBox[i].type = "close" => armBox[i].of \in ServiceFiles
        /\ message.type = "close" => message.of \in ServiceFiles
    BY DEF ServiceCalm, RepliesAreLive, MessageIsLive, Replies
  <2> QED
    BY <1>1, <2>1 DEF ServiceCalm, CloseIsLast, NoServiceMessage
<1>11. CloseIsQueued'
  BY <1>5 DEF ServiceCalm, CloseIsQueued
<1> QED
  BY <1>6, <1>7, <1>8, <1>9, <1>10, <1>11 DEF ServiceCalm

\* What a message to the firmware adds to the slots (VchiqQueueMessageAsync).
LEMMA SentIs ==
  ASSUME ServiceTyped, NEW f \in ServiceFiles, NEW type \in {"connect", "open", "close"},
         NEW dst \in ServiceFiles \cup {NoFile},
         fwBox' = Append(fwBox, [type |-> type, arm |-> port[f], of |-> f, dst |-> dst])
  PROVE  /\ fwBox' \in Seq(FwMessages) /\ Len(fwBox') = Len(fwBox) + 1 /\ Len(fwBox) \in Nat
         /\ Len(fwBox') >= Len(fwBox)
         /\ \A i \in 1 .. Len(fwBox) : fwBox'[i] = fwBox[i]
         /\ fwBox'[Len(fwBox) + 1] = [type |-> type, arm |-> port[f], of |-> f, dst |-> dst]
         /\ \A i \in 1 .. Len(fwBox') : i \notin 1 .. Len(fwBox) => i = Len(fwBox) + 1
<1>1. [type |-> type, arm |-> port[f], of |-> f, dst |-> dst] \in FwMessages
  BY DEF ServiceTyped, FwMessages
<1>2. fwBox \in Seq(FwMessages) /\ Len(fwBox) \in Nat
  BY DEF ServiceTyped
<1>3. /\ fwBox' \in Seq(FwMessages) /\ Len(fwBox') = Len(fwBox) + 1
      /\ \A i \in 1 .. Len(fwBox) : fwBox'[i] = fwBox[i]
      /\ fwBox'[Len(fwBox) + 1] = [type |-> type, arm |-> port[f], of |-> f, dst |-> dst]
  BY <1>1, <1>2, AppendIs
<1>4. /\ Len(fwBox') >= Len(fwBox)
      /\ \A i \in 1 .. Len(fwBox') : i \notin 1 .. Len(fwBox) => i = Len(fwBox) + 1
  BY <1>2, <1>3
<1> QED
  BY <1>2, <1>3, <1>4

\* The context of a file is allocated (VchiqAllocateFileObjContext).
LEMMA OpenFileKept == ASSUME ServiceInv, NEW f \in ServiceFiles, OpenFile(f) PROVE ServiceInv'
<1>1. ServiceTyped /\ FilesHavePorts /\ filePc[f] = "new"
  BY SvcFields DEF ServiceInv, OpenFile
<1>2. /\ DOMAIN svc' = ServiceFields
      /\ filePc' = [filePc EXCEPT ![f] = "claim"] /\ context' = [context EXCEPT ![f] = TRUE]
      /\ handles' = handles /\ port' = port /\ vcPort' = vcPort /\ fileState' = fileState
      /\ queuedRequest' = queuedRequest /\ fwBox' = fwBox /\ armBox' = armBox /\ opened' = opened
      /\ message' = message /\ found' = found /\ astray' = astray /\ stale' = stale
      /\ upsets' = upsets
  BY <1>1, SvcFields DEF OpenFile, ServiceTyped, ServiceFields
<1>3. ServiceTyped'
  BY <1>1, <1>2 DEF ServiceTyped, FilePcs
<1>4. FilesHavePorts'
  BY <1>1, <1>2 DEF FilesHavePorts, ServiceTyped
<1>5. ASSUME upsets' = {} PROVE ServiceCalm'
  <2>1. \A g \in ServiceFiles : Live(g) => Live(g)' /\ port'[g] = port[g]
    BY <1>1, <1>2 DEF Live, ServiceTyped
  <2>2. fwBox \in Seq(FwMessages) /\ Len(fwBox) \in Nat
    BY <1>1 DEF ServiceTyped
  <2>3. \A g \in ServiceFiles : filePc'[g] = "close" => filePc[g] = "close"
    BY <1>1, <1>2 DEF ServiceTyped
  <2> QED
    BY <1>1, <1>2, <1>3, <1>5, <2>1, <2>2, <2>3, CalmKept DEF ServiceInv, ServiceCalm
<1> QED
  BY <1>3, <1>4, <1>5 DEF ServiceInv

\* The port is claimed, or there was none.
LEMMA ClaimPortKept == ASSUME ServiceInv, NEW f \in ServiceFiles, ClaimPort(f) PROVE ServiceInv'
<1>1. ServiceTyped /\ FilesHavePorts /\ filePc[f] = "claim" /\ port[f] = 0
  BY SvcFields DEF ServiceInv, ClaimPort, FilesHavePorts
<1>6. LastPort \in Nat /\ ServicePorts = 1 .. LastPort /\ NoFile \notin ServiceFiles
  BY ServiceAssumption DEF ServicePorts
<1>7. CASE \E p \in ServicePorts :
             /\ svc.handles[p] = NoFile
             /\ svc' = [svc EXCEPT !.handles[p] = f, !.port[f] = p, !.pc[f] = "ready"]
  <2> PICK p \in ServicePorts :
             /\ svc.handles[p] = NoFile
             /\ svc' = [svc EXCEPT !.handles[p] = f, !.port[f] = p, !.pc[f] = "ready"]
    BY <1>7
  <2>1. /\ DOMAIN svc' = ServiceFields /\ handles[p] = NoFile
        /\ filePc' = [filePc EXCEPT ![f] = "ready"] /\ context' = context
        /\ handles' = [handles EXCEPT ![p] = f] /\ port' = [port EXCEPT ![f] = p]
        /\ vcPort' = vcPort /\ fileState' = fileState
        /\ queuedRequest' = queuedRequest /\ fwBox' = fwBox /\ armBox' = armBox /\ opened' = opened
        /\ message' = message /\ found' = found /\ astray' = astray /\ stale' = stale
        /\ upsets' = upsets
    BY <1>1, SvcFields DEF ServiceTyped, ServiceFields
  <2>2. ServiceTyped'
    BY <1>1, <1>6, <2>1 DEF ServiceTyped, FilePcs
  <2>3. FilesHavePorts'
    BY <1>1, <1>6, <2>1 DEF FilesHavePorts, ServiceTyped
  <2>4. ASSUME upsets' = {} PROVE ServiceCalm'
    <3>1. \A g \in ServiceFiles : Live(g) => Live(g)' /\ port'[g] = port[g]
      BY <1>1, <2>1 DEF Live, ServiceTyped
    <3>2. fwBox \in Seq(FwMessages) /\ Len(fwBox) \in Nat
      BY <1>1 DEF ServiceTyped
    <3>3. \A g \in ServiceFiles : filePc'[g] = "close" => filePc[g] = "close"
      BY <1>1, <2>1 DEF ServiceTyped
    <3> QED
      BY <1>1, <2>1, <2>2, <2>4, <3>1, <3>2, <3>3, CalmKept DEF ServiceInv, ServiceCalm
  <2> QED
    BY <2>2, <2>3, <2>4 DEF ServiceInv
<1>8. CASE svc' = [svc EXCEPT !.pc[f] = "failed"]
  <2>1. /\ DOMAIN svc' = ServiceFields
        /\ filePc' = [filePc EXCEPT ![f] = "failed"] /\ context' = context
        /\ handles' = handles /\ port' = port /\ vcPort' = vcPort /\ fileState' = fileState
        /\ queuedRequest' = queuedRequest /\ fwBox' = fwBox /\ armBox' = armBox /\ opened' = opened
        /\ message' = message /\ found' = found /\ astray' = astray /\ stale' = stale
        /\ upsets' = upsets
    BY <1>1, <1>8, SvcFields DEF ServiceTyped, ServiceFields
  <2>2. ServiceTyped'
    BY <1>1, <1>6, <2>1 DEF ServiceTyped, FilePcs
  <2>3. FilesHavePorts'
    BY <1>1, <1>6, <2>1 DEF FilesHavePorts, ServiceTyped
  <2>4. ASSUME upsets' = {} PROVE ServiceCalm'
    <3>1. \A g \in ServiceFiles : Live(g) => Live(g)' /\ port'[g] = port[g]
      BY <1>1, <2>1 DEF Live, ServiceTyped
    <3>2. fwBox \in Seq(FwMessages) /\ Len(fwBox) \in Nat
      BY <1>1 DEF ServiceTyped
    <3>3. \A g \in ServiceFiles : filePc'[g] = "close" => filePc[g] = "close"
      BY <1>1, <2>1 DEF ServiceTyped
    <3> QED
      BY <1>1, <2>1, <2>2, <2>4, <3>1, <3>2, <3>3, CalmKept DEF ServiceInv, ServiceCalm
  <2> QED
    BY <2>2, <2>3, <2>4 DEF ServiceInv
<1> QED
  BY <1>7, <1>8 DEF ClaimPort

\* IOCTL_VCHIQ_CONNECT.
LEMMA ConnectFileKept == ASSUME ServiceInv, NEW f \in ServiceFiles, ConnectFile(f) PROVE ServiceInv'
<1>1. ServiceTyped /\ FilesHavePorts /\ filePc[f] = "ready"
  BY SvcFields DEF ServiceInv, ConnectFile
<1>2. /\ DOMAIN svc' = ServiceFields
      /\ filePc' = [filePc EXCEPT ![f] = "linked"] /\ context' = context
      /\ handles' = handles /\ port' = port /\ vcPort' = vcPort /\ fileState' = fileState
      /\ queuedRequest' = queuedRequest
      /\ fwBox' = Append(fwBox, [type |-> "connect", arm |-> port[f], of |-> f, dst |-> NoFile])
      /\ armBox' = armBox /\ opened' = opened
      /\ message' = message /\ found' = found /\ astray' = astray /\ stale' = stale
      /\ upsets' = upsets
  BY <1>1, SvcFields DEF ConnectFile, ToFirmware, ServiceTyped, ServiceFields
<1>6. /\ fwBox' \in Seq(FwMessages) /\ Len(fwBox') >= Len(fwBox)
      /\ \A i \in 1 .. Len(fwBox) : fwBox'[i] = fwBox[i]
      /\ \A i \in 1 .. Len(fwBox') : i \notin 1 .. Len(fwBox) => fwBox'[i].type # "open"
  BY <1>1, <1>2, SentIs
<1>3. ServiceTyped'
  BY <1>1, <1>2, <1>6 DEF ServiceTyped, FilePcs
<1>4. FilesHavePorts'
  BY <1>1, <1>2 DEF FilesHavePorts, ServiceTyped
<1>5. ASSUME upsets' = {} PROVE ServiceCalm'
  <2>1. \A g \in ServiceFiles : Live(g) => Live(g)' /\ port'[g] = port[g]
    BY <1>1, <1>2 DEF Live, ServiceTyped
  <2>3. \A g \in ServiceFiles : filePc'[g] = "close" => filePc[g] = "close"
    BY <1>1, <1>2 DEF ServiceTyped
  <2> QED
    BY <1>1, <1>2, <1>3, <1>5, <1>6, <2>1, <2>3, CalmKept DEF ServiceInv, ServiceCalm
<1> QED
  BY <1>3, <1>4, <1>5 DEF ServiceInv

\* The request of CREATE or CLOSE is queued.
LEMMA ForwardRequestKept ==
  ASSUME ServiceInv, NEW f \in ServiceFiles, ForwardRequest(f) PROVE ServiceInv'
<1>1. PICK from \in {"ready", "linked", "open"}, to \in {"create", "close"} :
        /\ from = "open" <=> to = "close"
        /\ svc.pc[f] = from /\ svc' = [svc EXCEPT !.queued[f] = to, !.pc[f] = to]
  BY DEF ForwardRequest
<1>7. ServiceTyped /\ FilesHavePorts /\ filePc[f] = from
  BY <1>1, SvcFields DEF ServiceInv
<1>2. /\ DOMAIN svc' = ServiceFields
      /\ filePc' = [filePc EXCEPT ![f] = to] /\ context' = context
      /\ handles' = handles /\ port' = port /\ vcPort' = vcPort /\ fileState' = fileState
      /\ queuedRequest' = [queuedRequest EXCEPT ![f] = to]
      /\ fwBox' = fwBox /\ armBox' = armBox /\ opened' = opened
      /\ message' = message /\ found' = found /\ astray' = astray /\ stale' = stale
      /\ upsets' = upsets
  BY <1>1, <1>7, SvcFields DEF ServiceTyped, ServiceFields
<1>3. ServiceTyped'
  BY <1>7, <1>2 DEF ServiceTyped, FilePcs
<1>4. FilesHavePorts'
  BY <1>7, <1>2 DEF FilesHavePorts, ServiceTyped
<1>5. ASSUME upsets' = {} PROVE ServiceCalm'
  <2>1. \A g \in ServiceFiles : Live(g) => Live(g)' /\ port'[g] = port[g]
    BY <1>1, <1>7, <1>2 DEF Live, ServiceTyped
  <2>2. fwBox \in Seq(FwMessages) /\ Len(fwBox) \in Nat
    BY <1>7 DEF ServiceTyped
  <2>3. \A g \in ServiceFiles : filePc'[g] = "close" =>
          \/ filePc[g] = "close" /\ queuedRequest'[g] = queuedRequest[g]
          \/ queuedRequest'[g] = "close"
    BY <1>7, <1>2 DEF ServiceTyped
  <2> QED
    BY <1>7, <1>2, <1>3, <1>5, <2>1, <2>2, <2>3, CalmKept DEF ServiceInv, ServiceCalm
<1> QED
  BY <1>3, <1>4, <1>5 DEF ServiceInv

\* The client closes its handle, as agreed or abruptly.
LEMMA CloseHandleKept ==
  ASSUME ServiceInv, NEW f \in ServiceFiles, CloseHandle(f) PROVE ServiceInv'
<1>1. ServiceTyped /\ FilesHavePorts
  BY DEF ServiceInv
<1>2. CASE svc.pc[f] \in {"closed", "failed", "linked"} /\ svc' = [svc EXCEPT !.pc[f] = "leaving"]
  <2>1. /\ DOMAIN svc' = ServiceFields /\ filePc[f] \in {"closed", "failed", "linked"}
        /\ filePc' = [filePc EXCEPT ![f] = "leaving"] /\ context' = context
        /\ handles' = handles /\ port' = port /\ vcPort' = vcPort /\ fileState' = fileState
        /\ queuedRequest' = queuedRequest /\ fwBox' = fwBox /\ armBox' = armBox /\ opened' = opened
        /\ message' = message /\ found' = found /\ astray' = astray /\ stale' = stale
        /\ upsets' = upsets
    BY <1>1, <1>2, SvcFields DEF ServiceTyped, ServiceFields
  <2>2. ServiceTyped'
    BY <1>1, <2>1 DEF ServiceTyped, FilePcs
  <2>3. FilesHavePorts'
    BY <1>1, <2>1 DEF FilesHavePorts, ServiceTyped
  <2>4. ASSUME upsets' = {} PROVE ServiceCalm'
    <3>1. \A g \in ServiceFiles : Live(g) => Live(g)' /\ port'[g] = port[g]
      BY <1>1, <2>1 DEF Live, ServiceTyped
    <3>2. fwBox \in Seq(FwMessages) /\ Len(fwBox) \in Nat
      BY <1>1 DEF ServiceTyped
    <3>3. \A g \in ServiceFiles : filePc'[g] = "close" => filePc[g] = "close"
      BY <1>1, <2>1 DEF ServiceTyped
    <3> QED
      BY <1>1, <2>1, <2>2, <2>4, <3>1, <3>2, <3>3, CalmKept DEF ServiceInv, ServiceCalm
  <2> QED
    BY <2>2, <2>3, <2>4 DEF ServiceInv
<1>3. CASE /\ svc.pc[f] \in {"waiting", "open"}
           /\ svc' = [svc EXCEPT !.pc[f] = "leaving", !.queued[f] = "none",
                                 !.upset = @ \cup {"abrupt"}]
  <2>1. /\ DOMAIN svc' = ServiceFields /\ filePc[f] \in {"waiting", "open"}
        /\ filePc' = [filePc EXCEPT ![f] = "leaving"] /\ context' = context
        /\ handles' = handles /\ port' = port /\ vcPort' = vcPort /\ fileState' = fileState
        /\ queuedRequest' = [queuedRequest EXCEPT ![f] = "none"]
        /\ fwBox' = fwBox /\ armBox' = armBox /\ opened' = opened
        /\ message' = message /\ found' = found /\ "abrupt" \in upsets'
    BY <1>1, <1>3, SvcFields DEF ServiceTyped, ServiceFields
  <2>2. ServiceTyped'
    BY <1>1, <2>1 DEF ServiceTyped, FilePcs
  <2>3. FilesHavePorts'
    BY <1>1, <2>1 DEF FilesHavePorts, ServiceTyped
  <2> QED
    BY <2>1, <2>2, <2>3 DEF ServiceInv
<1> QED
  BY <1>2, <1>3 DEF CloseHandle

\* VchiqFileClose tells the firmware, ...
LEMMA FileCloseMessageKept ==
  ASSUME ServiceInv, NEW f \in ServiceFiles, FileCloseMessage(f) PROVE ServiceInv'
<1>1. ServiceTyped /\ FilesHavePorts /\ filePc[f] = "leaving"
  BY SvcFields DEF ServiceInv, FileCloseMessage
<1>2. /\ DOMAIN svc' = ServiceFields
      /\ filePc' = [filePc EXCEPT ![f] = "told"] /\ context' = context
      /\ handles' = handles /\ port' = port /\ vcPort' = vcPort /\ fileState' = fileState
      /\ queuedRequest' = queuedRequest
      /\ \/ fwBox' = fwBox
         \/ fwBox' = Append(fwBox, [type |-> "close", arm |-> port[f], of |-> f, dst |-> vcPort[f]])
      /\ armBox' = armBox /\ opened' = opened
      /\ message' = message /\ found' = found /\ astray' = astray /\ stale' = stale
      /\ upsets' = upsets
  BY <1>1, SvcFields DEF FileCloseMessage, ToFirmware, ServiceTyped, ServiceFields
<1>6. /\ fwBox' \in Seq(FwMessages) /\ Len(fwBox') >= Len(fwBox)
      /\ \A i \in 1 .. Len(fwBox) : fwBox'[i] = fwBox[i]
      /\ \A i \in 1 .. Len(fwBox') : i \notin 1 .. Len(fwBox) => fwBox'[i].type # "open"
  <2>1. fwBox \in Seq(FwMessages) /\ Len(fwBox) \in Nat
    BY <1>1 DEF ServiceTyped
  <2>2. vcPort[f] \in ServiceFiles \cup {NoFile}
    BY <1>1 DEF ServiceTyped
  <2> QED
    BY <1>1, <1>2, <2>1, <2>2, SentIs
<1>3. ServiceTyped'
  BY <1>1, <1>2, <1>6 DEF ServiceTyped, FilePcs
<1>4. FilesHavePorts'
  BY <1>1, <1>2 DEF FilesHavePorts, ServiceTyped
<1>5. ASSUME upsets' = {} PROVE ServiceCalm'
  <2>1. \A g \in ServiceFiles : Live(g) => Live(g)' /\ port'[g] = port[g]
    BY <1>1, <1>2 DEF Live, ServiceTyped
  <2>3. \A g \in ServiceFiles : filePc'[g] = "close" => filePc[g] = "close"
    BY <1>1, <1>2 DEF ServiceTyped
  <2> QED
    BY <1>1, <1>2, <1>3, <1>5, <1>6, <2>1, <2>3, CalmKept DEF ServiceInv, ServiceCalm
<1> QED
  BY <1>3, <1>4, <1>5 DEF ServiceInv

\* ... and gives the port away: by then nothing is on its way to the file.
LEMMA FileClosePortKept ==
  ASSUME ServiceInv, NEW f \in ServiceFiles, FileClosePort(f) PROVE ServiceInv'
<1>1. ServiceTyped /\ FilesHavePorts /\ filePc[f] = "told"
  BY SvcFields DEF ServiceInv, FileClosePort
<1>2. /\ DOMAIN svc' = ServiceFields
      /\ filePc' = [filePc EXCEPT ![f] = "gone"] /\ context' = [context EXCEPT ![f] = FALSE]
      /\ handles' = [p \in ServicePorts |-> IF p = port[f] THEN NoFile ELSE handles[p]]
      /\ port' = port /\ vcPort' = vcPort /\ fileState' = fileState
      /\ queuedRequest' = queuedRequest /\ fwBox' = fwBox /\ armBox' = armBox /\ opened' = opened
      /\ message' = message /\ found' = found /\ astray' = astray /\ stale' = stale
      /\ upsets' = upsets
  BY <1>1, SvcFields DEF FileClosePort, ServiceTyped, ServiceFields
<1>3. ServiceTyped'
  BY <1>1, <1>2 DEF ServiceTyped, FilePcs
<1>4. FilesHavePorts'
  <2>1. \A g \in ServiceFiles : port[g] # 0 => port[g] \in ServicePorts
    BY <1>1, ServiceAssumption DEF ServiceTyped, ServicePorts
  <2> QED
    BY <1>1, <1>2, <2>1 DEF FilesHavePorts, ServiceTyped
<1>5. ASSUME upsets' = {} PROVE ServiceCalm'
  <2>1. \A g \in ServiceFiles : Live(g) => Live(g)' /\ port'[g] = port[g]
    BY <1>1, <1>2 DEF Live, ServiceTyped
  <2>2. fwBox \in Seq(FwMessages) /\ Len(fwBox) \in Nat
    BY <1>1 DEF ServiceTyped
  <2>3. \A g \in ServiceFiles : filePc'[g] = "close" => filePc[g] = "close"
    BY <1>1, <1>2 DEF ServiceTyped
  <2> QED
    BY <1>1, <1>2, <1>3, <1>5, <2>1, <2>2, <2>3, CalmKept DEF ServiceInv, ServiceCalm
<1> QED
  BY <1>3, <1>4, <1>5 DEF ServiceInv


\* VchiqUpdateQueueDispatchMessage: OPEN is the first sign of a service, or CLOSE is sent, or neither.
LEMMA DispatchMessageKept ==
  ASSUME ServiceInv, NEW f \in ServiceFiles, DispatchMessage(f) PROVE ServiceInv'
<1>1. /\ ServiceTyped /\ FilesHavePorts /\ filePc[f] \in {"create", "close"}
      /\ vcPort[f] \in ServiceFiles \cup {NoFile} /\ fwBox \in Seq(FwMessages) /\ Len(fwBox) \in Nat
  BY SvcFields DEF ServiceInv, DispatchMessage, ServiceTyped
<1>2. PICK type \in {"open", "close"} :
        /\ type = "open" <=> filePc[f] = "create"
        /\ type = IF svc.pc[f] = "create" THEN "open" ELSE "close"
  BY <1>1, SvcFields
<1>3. CASE svc' = [ToFirmware(svc, f, type, svc.vcPort[f])
                     EXCEPT !.pc[f] = IF svc.queued[f] # "none" THEN "waiting"
                                      ELSE IF type = "open" THEN "open" ELSE "closed"]
  <2>1. /\ DOMAIN svc' = ServiceFields
        /\ filePc' = [filePc EXCEPT ![f] = IF queuedRequest[f] # "none" THEN "waiting"
                                           ELSE IF type = "open" THEN "open" ELSE "closed"]
        /\ context' = context
        /\ handles' = handles /\ port' = port /\ vcPort' = vcPort /\ fileState' = fileState
        /\ queuedRequest' = queuedRequest
        /\ fwBox' = Append(fwBox, [type |-> type, arm |-> port[f], of |-> f, dst |-> vcPort[f]])
        /\ armBox' = armBox /\ opened' = opened
        /\ message' = message /\ found' = found /\ astray' = astray /\ stale' = stale
        /\ upsets' = upsets
    BY <1>1, <1>3, SvcFields DEF ToFirmware, ServiceTyped, ServiceFields
  <2>2. /\ fwBox' \in Seq(FwMessages) /\ Len(fwBox') = Len(fwBox) + 1 /\ Len(fwBox') >= Len(fwBox)
        /\ \A i \in 1 .. Len(fwBox) : fwBox'[i] = fwBox[i]
        /\ fwBox'[Len(fwBox) + 1] = [type |-> type, arm |-> port[f], of |-> f, dst |-> vcPort[f]]
        /\ \A i \in 1 .. Len(fwBox') : i \notin 1 .. Len(fwBox) => i = Len(fwBox) + 1
    BY <1>1, <1>2, <2>1, SentIs
  <2>3. ServiceTyped'
    BY <1>1, <2>1, <2>2 DEF ServiceTyped, FilePcs
  <2>4. FilesHavePorts'
    BY <1>1, <2>1 DEF FilesHavePorts, ServiceTyped
  <2>5. ASSUME upsets' = {}, type = "close" PROVE ServiceCalm'
    <3>1. \A i \in 1 .. Len(fwBox') : i \notin 1 .. Len(fwBox) => fwBox'[i].type # "open"
      BY <2>2, <2>5
    <3>2. \A g \in ServiceFiles : Left(g)' => Left(g)
      BY <1>1, <2>1, <2>2, <3>1 DEF Left, OpenPending, Serviced, Answered
    <3>3. filePc[f] = "close" /\ ServiceCalm
      BY <1>1, <1>2, <2>1, <2>5 DEF ServiceInv
    <3>4. \A g \in ServiceFiles : Live(g) => (Live(g)' /\ port'[g] = port[g]) \/ ~Left(g)'
      BY <1>1, <2>1, <2>5, <3>2, <3>3 DEF Live, ServiceTyped, ServiceCalm, CloseIsQueued
    <3>5. \A g \in ServiceFiles : filePc'[g] = "close" => filePc[g] = "close"
      BY <1>1, <2>1, <2>5 DEF ServiceTyped
    <3> QED
      BY <1>1, <2>1, <2>2, <2>3, <3>1, <3>3, <3>4, <3>5, CalmKept DEF ServiceCalm
  <2>6. ASSUME upsets' = {}, type = "open" PROVE ServiceCalm'
    <3>1. ServiceCalm /\ filePc[f] = "create" /\ ~Live(f) /\ f # NoFile
      BY <1>2, <2>1, <2>6, ServiceAssumption DEF ServiceInv, Live
    <3>2. ~Serviced(f) /\ ~OpenPending(f)
      BY <3>1 DEF ServiceCalm, ServicesAreLive, OpensAreLive, Serviced, OpenPending
    <3>3. ~Answered(f)
      <4>1. \A i \in 1 .. Len(armBox) : armBox[i].of = f => armBox[i].type \in Replies
        <5>1. \A i \in 1 .. Len(armBox) : armBox[i] \in ArmMessages
          BY <1>1 DEF ServiceTyped
        <5> QED
          BY <3>1, <5>1 DEF ArmMessages
      <4>2. message.of = f => message.type \in Replies
        BY <1>1, <3>1 DEF ServiceTyped, ArmMessages, NoServiceMessage
      <4> QED
        BY <3>1, <4>1, <4>2 DEF ServiceCalm, RepliesAreLive, MessageIsLive, Answered
    <3>4. \A g \in ServiceFiles : (Live(g) => g # f /\ Live(g)') /\ Live(f)'
      BY <1>1, <2>1, <2>6, <3>1 DEF Live, ServiceTyped
    <3>5. \A g : (Serviced(g)' <=> Serviced(g)) /\ (Answered(g)' <=> Answered(g))
      BY <2>1 DEF Serviced, Answered
    <3>6. \A i \in 1 .. Len(fwBox) : i \in 1 .. Len(fwBox') /\ fwBox[i].of \in ServiceFiles
      <4>1. \A i \in 1 .. Len(fwBox) : fwBox[i] \in FwMessages
        BY <1>1
      <4> QED
        BY <1>1, <2>2, <4>1 DEF FwMessages
    <3>7. OpensAreLive'
      <4>1. \A i \in 1 .. Len(fwBox') :
              \/ i \in 1 .. Len(fwBox) /\ fwBox'[i] = fwBox[i]
              \/ /\ i = Len(fwBox) + 1 /\ fwBox'[i].of = f /\ fwBox'[i].arm = port'[f]
        BY <2>1, <2>2
      <4>2. \A i \in 1 .. Len(fwBox) : fwBox[i].type = "open" => fwBox[i].of # f
        BY <3>2 DEF OpenPending
      <4> QED
        BY <2>1, <3>1, <3>2, <3>3, <3>4, <3>5, <3>6, <4>1, <4>2 DEF ServiceCalm, OpensAreLive
    <3>8. ServicesAreLive'
      <4>1. \A s \in opened : s[1] \in ServiceFiles
        BY <1>1 DEF ServiceTyped
      <4> QED
        BY <2>1, <3>1, <3>4, <4>1 DEF ServiceCalm, ServicesAreLive
    <3>9. RepliesAreLive' /\ MessageIsLive'
      BY <2>1, <3>1, <3>4 DEF ServiceCalm, RepliesAreLive, MessageIsLive
    <3>10. CloseIsLast'
      BY <2>1, <3>1, <3>5 DEF ServiceCalm, CloseIsLast
    <3>11. CloseIsQueued'
      <4>1. \A g \in ServiceFiles : g # f => (OpenPending(g)' => OpenPending(g))
        BY <2>2 DEF OpenPending
      <4>2. \A g \in ServiceFiles : filePc'[g] = "close" => g # f /\ filePc[g] = "close"
        BY <1>1, <2>1, <2>6 DEF ServiceTyped
      <4> QED
        BY <2>1, <3>1, <3>5, <4>1, <4>2 DEF ServiceCalm, CloseIsQueued, Left
    <3> QED
      BY <2>1, <3>1, <3>7, <3>8, <3>9, <3>10, <3>11 DEF ServiceCalm
  <2> QED
    BY <1>2, <2>3, <2>4, <2>5, <2>6 DEF ServiceInv
<1>4. CASE svc' = [svc EXCEPT !.queued[f] = "none", !.pc[f] = IF type = "open" THEN "failed" ELSE "open"]
  <2>1. /\ DOMAIN svc' = ServiceFields
        /\ filePc' = [filePc EXCEPT ![f] = IF type = "open" THEN "failed" ELSE "open"]
        /\ context' = context
        /\ handles' = handles /\ port' = port /\ vcPort' = vcPort /\ fileState' = fileState
        /\ queuedRequest' = [queuedRequest EXCEPT ![f] = "none"]
        /\ fwBox' = fwBox /\ armBox' = armBox /\ opened' = opened
        /\ message' = message /\ found' = found /\ astray' = astray /\ stale' = stale
        /\ upsets' = upsets
    BY <1>1, <1>4, SvcFields DEF ServiceTyped, ServiceFields
  <2>2. ServiceTyped'
    BY <1>1, <2>1 DEF ServiceTyped, FilePcs
  <2>3. FilesHavePorts'
    BY <1>1, <1>2, <2>1 DEF FilesHavePorts, ServiceTyped
  <2>4. ASSUME upsets' = {} PROVE ServiceCalm'
    <3>1. \A g \in ServiceFiles : Live(g) => Live(g)' /\ port'[g] = port[g]
      BY <1>1, <1>2, <2>1 DEF Live, ServiceTyped
    <3>3. \A g \in ServiceFiles : filePc'[g] = "close" => g # f /\ filePc[g] = "close"
      BY <1>1, <2>1 DEF ServiceTyped
    <3> QED
      BY <1>1, <2>1, <2>2, <2>4, <3>1, <3>3, CalmKept DEF ServiceInv, ServiceCalm
  <2> QED
    BY <2>2, <2>3, <2>4 DEF ServiceInv
<1> QED
  BY <1>2, <1>3, <1>4 DEF DispatchMessage

\* The trigger thread takes the next message and finds the file by the port.
LEMMA TriggerLookKept == ASSUME ServiceInv, TriggerLook PROVE ServiceInv'
<1>1. /\ ServiceTyped /\ FilesHavePorts /\ message = NoServiceMessage /\ armBox # <<>>
      /\ armBox \in Seq(ArmMessages)
  BY SvcFields DEF ServiceInv, ServiceTyped, TriggerLook
<1>2. /\ DOMAIN svc' = ServiceFields
      /\ filePc' = filePc /\ context' = context
      /\ handles' = handles /\ port' = port /\ vcPort' = vcPort /\ fileState' = fileState
      /\ queuedRequest' = queuedRequest /\ fwBox' = fwBox
      /\ armBox' = Tail(armBox) /\ opened' = opened
      /\ message' = Head(armBox)
      /\ found' = IF message'.arm \in ServicePorts THEN handles[message'.arm] ELSE NoFile
      /\ astray' = astray /\ stale' = stale /\ upsets' = upsets
  BY <1>1, SvcFields DEF TriggerLook, ServiceTyped, ServiceFields
<1>3. /\ armBox' \in Seq(ArmMessages) /\ Len(armBox') = Len(armBox) - 1 /\ Len(armBox) \in Nat \ {0}
      /\ message' = armBox[1] /\ message' \in ArmMessages
      /\ \A i \in 1 .. Len(armBox') : armBox'[i] = armBox[i + 1] /\ i + 1 \in 1 .. Len(armBox)
  BY <1>1, <1>2, TailPlaces
<1>4. /\ 1 \in 1 .. Len(armBox) /\ \A i \in 1 .. Len(armBox') : 1 < i + 1
      /\ \A i, j \in 1 .. Len(armBox') : i < j => i + 1 < j + 1
  BY <1>3
<1>5. ServiceTyped'
  <2>1. found' \in ServiceFiles \cup {NoFile}
    BY <1>1, <1>2 DEF ServiceTyped
  <2> QED
    BY <1>1, <1>2, <1>3, <2>1 DEF ServiceTyped
<1>6. FilesHavePorts'
  BY <1>1, <1>2 DEF FilesHavePorts
<1>7. ASSUME upsets' = {} PROVE ServiceCalm'
  <2>1. ServiceCalm
    BY <1>2, <1>7 DEF ServiceInv
  <2>2. \A g : Serviced(g)' <=> Serviced(g)
    BY <1>2 DEF Serviced
  <2>3. \A g : (Live(g)' <=> Live(g)) /\ (OpenPending(g)' <=> OpenPending(g))
    BY <1>2 DEF Live, OpenPending
  <2>4. \A g : Answered(g)' => Answered(g)
    BY <1>2, <1>3, <1>4 DEF Answered
  <2>5. OpensAreLive' /\ ServicesAreLive'
    BY <1>2, <2>1, <2>2, <2>3, <2>4 DEF ServiceCalm, OpensAreLive, ServicesAreLive
  <2>6. RepliesAreLive'
    BY <1>2, <1>3, <2>1, <2>3 DEF ServiceCalm, RepliesAreLive
  <2>7. MessageIsLive'
    <3> SUFFICES ASSUME message'.type \in Replies
                 PROVE  message'.of \in ServiceFiles /\ found' = message'.of /\ Live(message'.of)
      BY <2>3 DEF MessageIsLive
    <3>1. /\ message'.of \in ServiceFiles /\ message'.arm = port[message'.of] /\ Live(message'.of)
      BY <1>3, <1>4, <2>1 DEF ServiceCalm, RepliesAreLive
    <3>2. /\ message'.arm # 0 /\ message'.arm \in 0 .. LastPort
          /\ handles[message'.arm] = message'.of
      BY <1>1, <3>1 DEF FilesHavePorts, Live, ServiceTyped
    <3>3. message'.arm \in ServicePorts
      BY <3>2, ServiceAssumption DEF ServicePorts
    <3> QED
      BY <1>2, <3>1, <3>2, <3>3
  <2>8. CloseIsLast'
    <3>1. message'.type = "close" =>
            /\ ~Serviced(message'.of)
            /\ \A j \in 1 .. Len(armBox') : armBox'[j].of # message'.of
      BY <1>3, <1>4, <2>1 DEF ServiceCalm, CloseIsLast
    <3>2. \A i \in 1 .. Len(armBox') : armBox'[i].type = "close" =>
            /\ ~Serviced(armBox'[i].of)
            /\ \A j \in 1 .. Len(armBox') : i < j => armBox'[j].of # armBox'[i].of
      <4> SUFFICES ASSUME NEW i \in 1 .. Len(armBox'), armBox'[i].type = "close"
                   PROVE  /\ ~Serviced(armBox'[i].of)
                          /\ \A j \in 1 .. Len(armBox') : i < j => armBox'[j].of # armBox'[i].of
        OBVIOUS
      <4>1. /\ ~Serviced(armBox[i + 1].of)
            /\ \A k \in 1 .. Len(armBox) : i + 1 < k => armBox[k].of # armBox[i + 1].of
        BY <1>3, <2>1 DEF ServiceCalm, CloseIsLast
      <4>2. \A j \in 1 .. Len(armBox') : i < j => armBox[j + 1].of # armBox[i + 1].of
        BY <1>3, <1>4, <4>1
      <4> QED
        BY <1>3, <4>1, <4>2
    <3> QED
      BY <2>2, <3>1, <3>2 DEF CloseIsLast
  <2>9. CloseIsQueued'
    BY <1>2, <2>1, <2>2, <2>3, <2>4 DEF ServiceCalm, CloseIsQueued, Left
  <2> QED
    BY <1>2, <2>1, <2>5, <2>6, <2>7, <2>8, <2>9 DEF ServiceCalm
<1> QED
  BY <1>5, <1>6, <1>7 DEF ServiceInv

\* CONNECT, and a message for nobody.
LEMMA TriggerDropsKept == ASSUME ServiceInv, TriggerConnect \/ TriggerUnknown PROVE ServiceInv'
<1>1. /\ ServiceTyped /\ FilesHavePorts /\ fwBox \in Seq(FwMessages) /\ Len(fwBox) \in Nat
  BY DEF ServiceInv, ServiceTyped
<1>2. /\ DOMAIN svc' = ServiceFields
      /\ filePc' = filePc /\ context' = context
      /\ handles' = handles /\ port' = port /\ vcPort' = vcPort /\ fileState' = fileState
      /\ queuedRequest' = queuedRequest /\ fwBox' = fwBox
      /\ armBox' = armBox /\ opened' = opened
      /\ message' = NoServiceMessage /\ found' = found
      /\ astray' = astray /\ stale' = stale /\ upsets' = upsets
  <2>1. CASE TriggerConnect
    BY <1>1, <2>1, SvcFields DEF TriggerConnect, ServiceTyped, ServiceFields
  <2>2. CASE TriggerUnknown
    BY <1>1, <2>2, SvcFields DEF TriggerUnknown, ServiceTyped, ServiceFields
  <2> QED
    BY <2>1, <2>2
<1>3. ServiceTyped'
  BY <1>1, <1>2 DEF ServiceTyped
<1>4. FilesHavePorts'
  BY <1>1, <1>2 DEF FilesHavePorts
<1>5. ASSUME upsets' = {} PROVE ServiceCalm'
  <2>1. \A g \in ServiceFiles : Live(g) => Live(g)' /\ port'[g] = port[g]
    BY <1>2 DEF Live
  <2> QED
    BY <1>1, <1>2, <1>3, <1>5, <2>1, CalmKept DEF ServiceInv, ServiceCalm
<1> QED
  BY <1>3, <1>4, <1>5 DEF ServiceInv

\* The message has reached the file it is for, and its context.
LEMMA ThroughIsCalm ==
  ASSUME ServiceInv, upsets = {}, message.type \in Replies
  PROVE  /\ message.of = found /\ found \in ServiceFiles /\ context[found] /\ Live(found)
         /\ ~astray /\ ~stale /\ message # NoServiceMessage
BY DEF ServiceInv, ServiceCalm, MessageIsLive, FilesHavePorts, Live, NoServiceMessage, Replies

\* OPENACK completes CREATE.
LEMMA TriggerOpenAckKept == ASSUME ServiceInv, TriggerOpenAck PROVE ServiceInv'
<1>1. /\ ServiceTyped /\ FilesHavePorts /\ fwBox \in Seq(FwMessages) /\ Len(fwBox) \in Nat
      /\ message.type \in Replies /\ message \in ArmMessages
      /\ message.of \in ServiceFiles /\ found \in ServiceFiles
  BY SvcFields DEF ServiceInv, ServiceTyped, TriggerOpenAck, Replies, NoServiceMessage, ArmMessages
<1>2. /\ DOMAIN svc' = ServiceFields
      /\ context' = context /\ handles' = handles /\ port' = port
      /\ vcPort' = [vcPort EXCEPT ![found] = message.of]
      /\ fwBox' = fwBox /\ armBox' = armBox /\ opened' = opened
      /\ message' = NoServiceMessage /\ found' = NoFile
      /\ astray' = (astray \/ message.of # found) /\ stale' = (stale \/ ~context[found])
      /\ upsets' = upsets
      /\ \/ filePc' = filePc /\ queuedRequest' = queuedRequest /\ fileState' = fileState
         \/ /\ queuedRequest[found] = "create"
            /\ queuedRequest' = [queuedRequest EXCEPT ![found] = "none"]
            /\ fileState' = [fileState EXCEPT ![found] = "open"]
            /\ filePc' = [filePc EXCEPT ![found] = IF @ = "waiting" THEN "open" ELSE @]
  BY <1>1, SvcFields DEF TriggerOpenAck, Through, ServiceTyped, ServiceFields
<1>3. ServiceTyped'
  BY <1>1, <1>2 DEF ServiceTyped, FilePcs
<1>4. FilesHavePorts'
  BY <1>1, <1>2 DEF FilesHavePorts, ServiceTyped
<1>5. ASSUME upsets' = {} PROVE ServiceCalm'
  <2>1. ServiceCalm /\ ~astray' /\ ~stale'
    BY <1>1, <1>2, <1>5, ThroughIsCalm DEF ServiceInv
  <2>2. \A g \in ServiceFiles : Live(g) => Live(g)' /\ port'[g] = port[g]
    BY <1>1, <1>2 DEF Live, ServiceTyped
  <2>4. filePc[found] = "close" => queuedRequest[found] = "close"
    BY <1>1, <1>2, <1>5, ThroughIsCalm DEF ServiceInv, ServiceCalm, CloseIsQueued, Left, Answered
  <2>3. \A g \in ServiceFiles : filePc'[g] = "close" =>
          filePc[g] = "close" /\ queuedRequest'[g] = queuedRequest[g]
    BY <1>1, <1>2, <2>4 DEF ServiceTyped
  <2> QED
    BY <1>1, <1>2, <1>3, <2>1, <2>2, <2>3, CalmKept
<1> QED
  BY <1>3, <1>4, <1>5 DEF ServiceInv

\* CLOSE completes the client's request, and nothing is left of the service.
LEMMA TriggerCloseKept == ASSUME ServiceInv, TriggerClose PROVE ServiceInv'
<1>1. /\ ServiceTyped /\ FilesHavePorts /\ fwBox \in Seq(FwMessages) /\ Len(fwBox) \in Nat
      /\ message.type = "close" /\ message.type \in Replies /\ message \in ArmMessages
      /\ message.of \in ServiceFiles /\ found \in ServiceFiles
  BY SvcFields DEF ServiceInv, ServiceTyped, TriggerClose, Replies, NoServiceMessage, ArmMessages
<1>2. /\ DOMAIN svc' = ServiceFields
      /\ context' = context /\ handles' = handles /\ port' = port /\ vcPort' = vcPort
      /\ fwBox' = fwBox /\ armBox' = armBox /\ opened' = opened
      /\ message' = NoServiceMessage /\ found' = NoFile
      /\ astray' = (astray \/ message.of # found) /\ stale' = (stale \/ ~context[found])
      /\ upsets' = upsets
      /\ \/ filePc' = filePc /\ queuedRequest' = queuedRequest /\ fileState' = fileState
         \/ /\ queuedRequest' = [queuedRequest EXCEPT ![found] = "none"]
            /\ fileState' = [fileState EXCEPT ![found] = "close"]
            /\ filePc' = [filePc EXCEPT ![found] = IF @ = "waiting" THEN "closed" ELSE @]
  BY <1>1, SvcFields DEF TriggerClose, Through, ServiceTyped, ServiceFields
<1>3. ServiceTyped'
  BY <1>1, <1>2 DEF ServiceTyped, FilePcs
<1>4. FilesHavePorts'
  BY <1>1, <1>2 DEF FilesHavePorts, ServiceTyped
<1>5. ASSUME upsets' = {} PROVE ServiceCalm'
  <2>1. ServiceCalm /\ ~astray' /\ ~stale' /\ message.of = found /\ message # NoServiceMessage
    BY <1>1, <1>2, <1>5, ThroughIsCalm DEF ServiceInv
  <2>0. PICK f \in ServiceFiles : f = found
    BY <1>1
  <2>2. ~Left(f)'
    <3>1. ~Serviced(found) /\ \A j \in 1 .. Len(armBox) : armBox[j].of # found
      BY <1>1, <2>1 DEF ServiceCalm, CloseIsLast
    <3>2. ~OpenPending(found)
      BY <2>1 DEF ServiceCalm, OpensAreLive, OpenPending, Answered
    <3> QED
      BY <1>1, <1>2, <2>0, <3>1, <3>2, ServiceAssumption
         DEF Left, OpenPending, Serviced, Answered, NoServiceMessage
  <2>3. \A g \in ServiceFiles : Live(g) => (Live(g)' /\ port'[g] = port[g]) \/ ~Left(g)'
    BY <1>1, <1>2, <2>0, <2>2 DEF Live, ServiceTyped
  <2>4. \A g \in ServiceFiles : filePc'[g] = "close" =>
          \/ filePc[g] = "close" /\ queuedRequest'[g] = queuedRequest[g]
          \/ queuedRequest'[g] = "close" \/ ~Left(g)'
    BY <1>1, <1>2, <2>0, <2>2 DEF ServiceTyped
  <2> QED
    BY <1>1, <1>2, <1>3, <2>1, <2>3, <2>4, CalmKept
<1> QED
  BY <1>3, <1>4, <1>5 DEF ServiceInv

\* DATA reaches the list of its file.
LEMMA TriggerDataKept == ASSUME ServiceInv, TriggerData PROVE ServiceInv'
<1>1. /\ ServiceTyped /\ FilesHavePorts /\ fwBox \in Seq(FwMessages) /\ Len(fwBox) \in Nat
      /\ message.type \in Replies
  BY SvcFields DEF ServiceInv, ServiceTyped, TriggerData, Replies
<1>2. /\ DOMAIN svc' = ServiceFields
      /\ filePc' = filePc /\ context' = context
      /\ handles' = handles /\ port' = port /\ vcPort' = vcPort /\ fileState' = fileState
      /\ queuedRequest' = queuedRequest /\ fwBox' = fwBox
      /\ armBox' = armBox /\ opened' = opened
      /\ message' = NoServiceMessage /\ found' = NoFile
      /\ astray' = (astray \/ message.of # found) /\ stale' = (stale \/ ~context[found])
      /\ upsets' = upsets
  BY <1>1, SvcFields DEF TriggerData, Through, ServiceTyped, ServiceFields
<1>3. ServiceTyped'
  BY <1>1, <1>2 DEF ServiceTyped
<1>4. FilesHavePorts'
  BY <1>1, <1>2 DEF FilesHavePorts
<1>5. ASSUME upsets' = {} PROVE ServiceCalm'
  <2>1. ServiceCalm /\ ~astray' /\ ~stale'
    BY <1>1, <1>2, <1>5, ThroughIsCalm DEF ServiceInv
  <2>2. \A g \in ServiceFiles : Live(g) => Live(g)' /\ port'[g] = port[g]
    BY <1>2 DEF Live
  <2> QED
    BY <1>1, <1>2, <1>3, <2>1, <2>2, CalmKept
<1> QED
  BY <1>3, <1>4, <1>5 DEF ServiceInv

-----------------------------------------------------------------------------
(* The firmware. *)

\* The firmware reads the first k messages, and answers for the service of g.
LEMMA ReplyKept ==
  ASSUME ServiceTyped, ServiceTyped', ServiceCalm, NEW g \in ServiceFiles, NEW r \in ArmMessages,
         NEW k \in 0 .. 1,
         r.type \in Replies, r.of = g, r.arm = port[g], Live(g), Left(g), ~OpenPending(g)',
         armBox' = Append(armBox, r),
         Len(fwBox') = Len(fwBox) - k, \A i \in 1 .. Len(fwBox') : fwBox'[i] = fwBox[i + k],
         filePc' = filePc, port' = port, queuedRequest' = queuedRequest,
         message' = message, found' = found, astray' = astray, stale' = stale,
         \A s \in opened' : s \in opened \/ (s[1] = g /\ s[2] = port[g]),
         \A s \in opened : s \in opened' \/ s[1] = g,
         r.type = "close" => ~Serviced(g)',
         \A i \in 1 .. Len(armBox) : armBox[i].type = "close" => armBox[i].of # g,
         message.type = "close" => message.of # g
  PROVE  ServiceCalm'
<1>1. /\ fwBox \in Seq(FwMessages) /\ fwBox' \in Seq(FwMessages)
      /\ armBox \in Seq(ArmMessages) /\ opened \subseteq ServiceFiles \X (0 .. LastPort)
      /\ Len(fwBox) \in Nat /\ Len(fwBox') \in Nat /\ Len(armBox) \in Nat
  BY DEF ServiceTyped
<1>2. /\ Len(armBox') = Len(armBox) + 1 /\ armBox'[Len(armBox) + 1] = r
      /\ \A i \in 1 .. Len(armBox) : armBox'[i] = armBox[i]
  BY <1>1, AppendIs
<1>3. \A i \in 1 .. Len(armBox') :
        \/ i \in 1 .. Len(armBox) /\ armBox'[i] = armBox[i]
        \/ i = Len(armBox) + 1 /\ armBox'[i] = r
  BY <1>1, <1>2
<1>4. /\ \A i \in 1 .. Len(fwBox') : i + k \in 1 .. Len(fwBox) /\ fwBox'[i] = fwBox[i + k]
      /\ \A i, j \in 1 .. Len(fwBox') : i # j => i + k # j + k
  BY <1>1
<1>5. \A h : Live(h)' <=> Live(h)
  BY DEF Live
<1>6. \A h : h # g => (Serviced(h)' => Serviced(h)) /\ (Answered(h)' => Answered(h))
  <2>1. \A h : h # g => (Serviced(h)' => Serviced(h))
    BY DEF Serviced
  <2>2. \A h : h # g => (Answered(h)' => Answered(h))
    BY <1>3 DEF Answered
  <2> QED
    BY <2>1, <2>2
<1>7. \A h : OpenPending(h)' => OpenPending(h)
  BY <1>4 DEF OpenPending
<1>8. \A h : Left(h)' => Left(h)
  <2> SUFFICES ASSUME NEW h, h # g, Left(h)' PROVE Left(h)
    OBVIOUS
  <2> QED
    BY <1>6, <1>7 DEF Left
<1>9. OpensAreLive'
  <2>1. ASSUME NEW i \in 1 .. Len(fwBox'), NEW m, m = fwBox'[i], m.type = "open"
        PROVE  /\ m.arm = port'[m.of] /\ Live(m.of) /\ \A s \in opened' : s[1] # m.of
               /\ message'.of # m.of /\ \A j \in 1 .. Len(armBox') : armBox'[j].of # m.of
               /\ \A j \in 1 .. Len(fwBox') : j # i /\ fwBox'[j].type = "open" => fwBox'[j].of # m.of
    <3>1. m.of # g
      BY <2>1 DEF OpenPending
    <3>2. i + k \in 1 .. Len(fwBox) /\ m = fwBox[i + k]
      BY <1>4, <2>1
    <3>3. /\ m.arm = port[m.of] /\ Live(m.of) /\ ~Serviced(m.of) /\ ~Answered(m.of)
          /\ \A j \in 1 .. Len(fwBox) : j # i + k /\ fwBox[j].type = "open" => fwBox[j].of # m.of
      BY <2>1, <3>2 DEF ServiceCalm, OpensAreLive
    <3>4. \A s \in opened' : s[1] # m.of
      BY <3>1, <3>3 DEF Serviced
    <3>5. message'.of # m.of /\ \A j \in 1 .. Len(armBox') : armBox'[j].of # m.of
      BY <1>3, <3>1, <3>3 DEF Answered
    <3>6. \A j \in 1 .. Len(fwBox') : j # i /\ fwBox'[j].type = "open" => fwBox'[j].of # m.of
      BY <1>4, <3>3
    <3> QED
      BY <3>3, <3>4, <3>5, <3>6
  <2> QED
    BY <2>1 DEF OpensAreLive, Live, Serviced, Answered
<1>10. ServicesAreLive'
  BY <1>5 DEF ServiceCalm, ServicesAreLive
<1>11. RepliesAreLive'
  BY <1>3, <1>5 DEF ServiceCalm, RepliesAreLive
<1>12. MessageIsLive'
  BY <1>5 DEF ServiceCalm, MessageIsLive
<1>13. CloseIsLast'
  <2>1. \A h : h # g /\ ~Serviced(h) => \A s \in opened' : s[1] # h
    BY DEF Serviced
  <2>2. ASSUME NEW i \in 1 .. Len(armBox), armBox[i].type = "close"
        PROVE  /\ \A s \in opened' : s[1] # armBox[i].of
               /\ \A j \in 1 .. Len(armBox') : i < j => armBox'[j].of # armBox[i].of
    <3>1. /\ ~Serviced(armBox[i].of) /\ armBox[i].of # g
          /\ \A j \in 1 .. Len(armBox) : i < j => armBox[j].of # armBox[i].of
      BY <2>2 DEF ServiceCalm, CloseIsLast
    <3> QED
      BY <1>3, <2>1, <3>1
  <2>3. r.type = "close" => \A s \in opened' : s[1] # r.of
    BY DEF Serviced
  <2>4. \A j \in 1 .. Len(armBox') : ~(Len(armBox) + 1 < j)
    BY <1>1, <1>2
  <2>5. \A i \in 1 .. Len(armBox') : armBox'[i].type = "close" =>
          /\ \A s \in opened' : s[1] # armBox'[i].of
          /\ \A j \in 1 .. Len(armBox') : i < j => armBox'[j].of # armBox'[i].of
    BY <1>3, <2>2, <2>3, <2>4
  <2>6. message.type = "close" =>
          /\ \A s \in opened' : s[1] # message.of
          /\ \A j \in 1 .. Len(armBox') : armBox'[j].of # message.of
    <3> SUFFICES ASSUME message.type = "close"
                 PROVE  /\ \A s \in opened' : s[1] # message.of
                        /\ \A j \in 1 .. Len(armBox') : armBox'[j].of # message.of
      OBVIOUS
    <3>1. /\ ~Serviced(message.of) /\ \A j \in 1 .. Len(armBox) : armBox[j].of # message.of
          /\ message.of # g
      BY DEF ServiceCalm, CloseIsLast
    <3> QED
      BY <1>3, <2>1, <3>1
  <2> QED
    BY <2>5, <2>6 DEF CloseIsLast, Serviced
<1>14. CloseIsQueued'
  BY <1>8 DEF ServiceCalm, CloseIsQueued
<1> QED
  BY <1>9, <1>10, <1>11, <1>12, <1>13, <1>14 DEF ServiceCalm

\* The firmware opens a service, closes one, or has nothing to say.
LEMMA FirmwareTakesKept == ASSUME ServiceInv, FirmwareTakes PROVE ServiceInv'
<1>1. /\ ServiceTyped /\ FilesHavePorts /\ fwBox # <<>> /\ fwBox \in Seq(FwMessages)
      /\ armBox \in Seq(ArmMessages) /\ Len(armBox) \in Nat
  BY SvcFields DEF ServiceInv, ServiceTyped, FirmwareTakes
<1>2. PICK m : m = Head(fwBox)
  OBVIOUS
<1>3. /\ Tail(fwBox) \in Seq(FwMessages) /\ Len(Tail(fwBox)) = Len(fwBox) - 1
      /\ Len(fwBox) \in Nat \ {0} /\ m = fwBox[1] /\ m \in FwMessages
      /\ \A i \in 1 .. Len(Tail(fwBox)) : Tail(fwBox)[i] = fwBox[i + 1] /\ i + 1 \in 1 .. Len(fwBox)
  BY <1>1, <1>2, TailPlaces
<1>4. /\ m.of \in ServiceFiles /\ m.arm \in 0 .. LastPort /\ m.dst \in ServiceFiles \cup {NoFile}
      /\ 1 \in 1 .. Len(fwBox) /\ \A i \in 1 .. Len(Tail(fwBox)) : i + 1 # 1
  BY <1>3 DEF FwMessages
<1>5. /\ DOMAIN svc' = ServiceFields
      /\ filePc' = filePc /\ context' = context
      /\ handles' = handles /\ port' = port /\ vcPort' = vcPort /\ fileState' = fileState
      /\ queuedRequest' = queuedRequest /\ fwBox' = Tail(fwBox)
      /\ message' = message /\ found' = found /\ astray' = astray /\ stale' = stale
      /\ upsets' = upsets
      /\ \/ /\ m.type = "open"
            /\ armBox' = Append(armBox, [type |-> "openack", arm |-> m.arm, of |-> m.of])
            /\ opened' = opened \cup {<<m.of, m.arm>>}
         \/ /\ m.type = "close" /\ <<m.dst, m.arm>> \in opened
            /\ armBox' = Append(armBox, [type |-> "close", arm |-> m.arm, of |-> m.dst])
            /\ opened' = opened \ {<<m.dst, m.arm>>}
         \/ armBox' = armBox /\ opened' = opened
  <2>1. CASE m.type = "open"
    <3>1. svc' = [ToArm([svc EXCEPT !.toFirmware = Tail(@)], "openack", m.of, m.arm)
                    EXCEPT !.opened = @ \cup {<<m.of, m.arm>>}]
      BY <1>2, <2>1, SvcFields DEF FirmwareTakes
    <3> QED
      BY <1>1, <2>1, <3>1, SvcFields DEF ToArm, ServiceTyped, ServiceFields
  <2>2. CASE m.type = "close" /\ <<m.dst, m.arm>> \in opened
    <3>1. svc' = [ToArm([svc EXCEPT !.toFirmware = Tail(@)], "close", m.dst, m.arm)
                    EXCEPT !.opened = @ \ {<<m.dst, m.arm>>}]
      BY <1>2, <2>2, SvcFields DEF FirmwareTakes
    <3> QED
      BY <1>1, <2>2, <3>1, SvcFields DEF ToArm, ServiceTyped, ServiceFields
  <2>3. CASE m.type # "open" /\ ~(m.type = "close" /\ <<m.dst, m.arm>> \in opened)
    <3>1. svc' = [svc EXCEPT !.toFirmware = Tail(@)]
      BY <1>2, <2>3, SvcFields DEF FirmwareTakes
    <3> QED
      BY <1>1, <3>1, SvcFields DEF ServiceTyped, ServiceFields
  <2> QED
    BY <2>1, <2>2, <2>3
<1>6. FilesHavePorts'
  BY <1>1, <1>5 DEF FilesHavePorts
<1>7. CASE /\ m.type = "open"
           /\ armBox' = Append(armBox, [type |-> "openack", arm |-> m.arm, of |-> m.of])
           /\ opened' = opened \cup {<<m.of, m.arm>>}
  <2>1. PICK r : r = [type |-> "openack", arm |-> m.arm, of |-> m.of]
    OBVIOUS
  <2>2. r \in ArmMessages /\ r.type \in Replies /\ r.of = m.of /\ r.arm = m.arm /\ r.type # "close"
    BY <1>4, <2>1 DEF ArmMessages, Replies
  <2>3. armBox' \in Seq(ArmMessages)
    BY <1>1, <1>7, <2>1, <2>2, AppendIs
  <2>4. ServiceTyped'
    BY <1>1, <1>3, <1>4, <1>5, <1>7, <2>3 DEF ServiceTyped
  <2>5. ASSUME upsets' = {} PROVE ServiceCalm'
    <3>1. ServiceCalm
      BY <1>5, <2>5 DEF ServiceInv
    <3>2. /\ m.arm = port[m.of] /\ Live(m.of) /\ ~Serviced(m.of) /\ ~Answered(m.of)
          /\ \A j \in 1 .. Len(fwBox) : j # 1 /\ fwBox[j].type = "open" => fwBox[j].of # m.of
      BY <1>3, <1>4, <1>7, <3>1 DEF ServiceCalm, OpensAreLive
    <3>3. ~OpenPending(m.of)'
      BY <1>3, <1>4, <1>5, <3>2 DEF OpenPending
    <3>4. Left(m.of)
      BY <1>3, <1>4, <1>7 DEF Left, OpenPending
    <3>5. /\ \A i \in 1 .. Len(armBox) : armBox[i].of # m.of
          /\ message.of # m.of
      BY <3>2 DEF Answered
    <3>6. /\ \A s \in opened' : s \in opened \/ (s[1] = m.of /\ s[2] = port[m.of])
          /\ \A s \in opened : s \in opened' \/ s[1] = m.of
      BY <1>7, <3>2
    <3>8. /\ 1 \in 0 .. 1 /\ Len(fwBox') = Len(fwBox) - 1
          /\ \A i \in 1 .. Len(fwBox') : fwBox'[i] = fwBox[i + 1]
      BY <1>3, <1>5
    <3>9. r.arm = port[m.of] /\ armBox' = Append(armBox, r)
      BY <1>7, <2>1, <2>2, <3>2
    <3> QED
      BY <1>1, <1>4, <1>5, <2>1, <2>2, <2>4, <3>1, <3>2, <3>3, <3>4, <3>5, <3>6, <3>8, <3>9, ReplyKept
  <2> QED
    BY <1>6, <2>4, <2>5 DEF ServiceInv
<1>8. CASE /\ m.type = "close" /\ <<m.dst, m.arm>> \in opened
           /\ armBox' = Append(armBox, [type |-> "close", arm |-> m.arm, of |-> m.dst])
           /\ opened' = opened \ {<<m.dst, m.arm>>}
  <2>1. PICK r : r = [type |-> "close", arm |-> m.arm, of |-> m.dst]
    OBVIOUS
  <2>0. m.dst \in ServiceFiles
    BY <1>1, <1>8 DEF ServiceTyped
  <2>2. r \in ArmMessages /\ r.type \in Replies /\ r.of = m.dst /\ r.arm = m.arm
    BY <1>4, <2>0, <2>1 DEF ArmMessages, Replies
  <2>3. armBox' \in Seq(ArmMessages)
    BY <1>1, <1>8, <2>1, <2>2, AppendIs
  <2>4. ServiceTyped'
    BY <1>1, <1>3, <1>4, <1>5, <1>8, <2>3 DEF ServiceTyped
  <2>5. ASSUME upsets' = {} PROVE ServiceCalm'
    <3>1. ServiceCalm
      BY <1>5, <2>5 DEF ServiceInv
    <3>2. m.arm = port[m.dst] /\ Live(m.dst) /\ Serviced(m.dst)
      BY <1>8, <3>1 DEF ServiceCalm, ServicesAreLive, Serviced
    <3>3. ~OpenPending(m.dst)'
      BY <1>3, <1>5, <3>1, <3>2 DEF OpenPending, ServiceCalm, OpensAreLive
    <3>4. Left(m.dst)
      BY <3>2 DEF Left
    <3>5. /\ \A i \in 1 .. Len(armBox) : armBox[i].type = "close" => armBox[i].of # m.dst
          /\ message.type = "close" => message.of # m.dst
      BY <3>1, <3>2 DEF ServiceCalm, CloseIsLast
    <3>6. /\ \A s \in opened' : s \in opened \/ (s[1] = m.dst /\ s[2] = port[m.dst])
          /\ \A s \in opened : s \in opened' \/ s[1] = m.dst
      BY <1>8, <3>2
    <3>7. ~Serviced(m.dst)'
      <4>1. \A s \in opened : s = <<s[1], s[2]>>
        BY <1>1 DEF ServiceTyped
      <4>2. \A s \in opened : s[1] = m.dst => s[2] = m.arm
        BY <3>1, <3>2 DEF ServiceCalm, ServicesAreLive
      <4> QED
        BY <1>8, <4>1, <4>2 DEF Serviced
    <3>8. /\ 1 \in 0 .. 1 /\ Len(fwBox') = Len(fwBox) - 1
          /\ \A i \in 1 .. Len(fwBox') : fwBox'[i] = fwBox[i + 1]
      BY <1>3, <1>5
    <3>9. r.arm = port[m.dst] /\ armBox' = Append(armBox, r)
      BY <1>8, <2>1, <2>2, <3>2
    <3> QED
      BY <1>1, <1>4, <1>5, <2>0, <2>1, <2>2, <2>4, <3>1, <3>2, <3>3, <3>4, <3>5, <3>6, <3>7, <3>8, <3>9, ReplyKept
  <2> QED
    BY <1>6, <2>4, <2>5 DEF ServiceInv
<1>9. CASE armBox' = armBox /\ opened' = opened
  <2>1. ServiceTyped'
    BY <1>1, <1>3, <1>5, <1>9 DEF ServiceTyped
  <2>2. ASSUME upsets' = {} PROVE ServiceCalm'
    <3>1. ServiceCalm
      BY <1>5, <2>2 DEF ServiceInv
    <3>2. \A g : (Live(g)' <=> Live(g)) /\ (Serviced(g)' <=> Serviced(g)) /\ (Answered(g)' <=> Answered(g))
      BY <1>5, <1>9 DEF Live, Serviced, Answered
    <3>3. \A g : Left(g)' => Left(g)
      BY <1>3, <1>5, <3>2 DEF Left, OpenPending
    <3>4. OpensAreLive'
      <4>1. \A i, j \in 1 .. Len(fwBox') : j # i => j + 1 # i + 1
        BY <1>3, <1>5
      <4> QED
        BY <1>3, <1>5, <3>1, <3>2, <4>1 DEF ServiceCalm, OpensAreLive
    <3>5. ServicesAreLive' /\ RepliesAreLive' /\ MessageIsLive'
      BY <1>5, <1>9, <3>1, <3>2 DEF ServiceCalm, ServicesAreLive, RepliesAreLive, MessageIsLive
    <3>6. CloseIsLast' /\ CloseIsQueued'
      BY <1>5, <1>9, <3>1, <3>2, <3>3 DEF ServiceCalm, CloseIsLast, CloseIsQueued
    <3> QED
      BY <1>5, <3>1, <3>4, <3>5, <3>6 DEF ServiceCalm
  <2> QED
    BY <1>6, <2>1, <2>2 DEF ServiceInv
<1> QED
  BY <1>5, <1>7, <1>8, <1>9

\* The firmware sends data for an open service.
LEMMA FirmwareSendsKept == ASSUME ServiceInv, FirmwareSends PROVE ServiceInv'
<1>1. /\ ServiceTyped /\ FilesHavePorts /\ fwBox \in Seq(FwMessages) /\ Len(fwBox) \in Nat
      /\ armBox \in Seq(ArmMessages)
  BY DEF ServiceInv, ServiceTyped
<1>2. PICK service \in svc.opened :
        svc' = [ToArm(svc, "data", service[1], service[2]) EXCEPT !.sent = @ \cup {service[1]}]
  BY DEF FirmwareSends
<1>3. PICK g, arm, r : g = service[1] /\ arm = service[2] /\ r = [type |-> "data", arm |-> arm, of |-> g]
  OBVIOUS
<1>4. service \in opened /\ g \in ServiceFiles /\ arm \in 0 .. LastPort
  BY <1>1, <1>2, <1>3, SvcFields DEF ServiceTyped
<1>5. /\ DOMAIN svc' = ServiceFields
      /\ filePc' = filePc /\ context' = context
      /\ handles' = handles /\ port' = port /\ vcPort' = vcPort /\ fileState' = fileState
      /\ queuedRequest' = queuedRequest /\ fwBox' = fwBox
      /\ armBox' = Append(armBox, r) /\ opened' = opened
      /\ message' = message /\ found' = found /\ astray' = astray /\ stale' = stale
      /\ upsets' = upsets
  BY <1>1, <1>2, <1>3, SvcFields DEF ToArm, ServiceTyped, ServiceFields
<1>6. /\ r \in ArmMessages /\ r.type \in Replies /\ r.of = g /\ r.arm = arm /\ r.type # "close"
      /\ armBox' \in Seq(ArmMessages)
  <2>1. r \in ArmMessages /\ r.type \in Replies /\ r.of = g /\ r.arm = arm /\ r.type # "close"
    BY <1>3, <1>4 DEF ArmMessages, Replies
  <2> QED
    BY <1>1, <1>5, <2>1, AppendIs
<1>7. ServiceTyped' /\ FilesHavePorts'
  BY <1>1, <1>5, <1>6 DEF ServiceTyped, FilesHavePorts
<1>8. ASSUME upsets' = {} PROVE ServiceCalm'
  <2>1. ServiceCalm
    BY <1>5, <1>8 DEF ServiceInv
  <2>2. arm = port[g] /\ Live(g) /\ Serviced(g) /\ Left(g)
    BY <1>3, <1>4, <2>1 DEF ServiceCalm, ServicesAreLive, Serviced, Left
  <2>3. ~OpenPending(g)'
    BY <1>5, <2>1, <2>2 DEF OpenPending, ServiceCalm, OpensAreLive
  <2>4. /\ \A i \in 1 .. Len(armBox) : armBox[i].type = "close" => armBox[i].of # g
        /\ message.type = "close" => message.of # g
    BY <2>1, <2>2 DEF ServiceCalm, CloseIsLast
  <2>5. 0 \in 0 .. 1 /\ Len(fwBox') = Len(fwBox) - 0 /\ \A i \in 1 .. Len(fwBox') : fwBox'[i] = fwBox[i + 0]
    BY <1>1, <1>5
  <2> QED
    BY <1>1, <1>4, <1>5, <1>6, <1>7, <2>1, <2>2, <2>3, <2>4, <2>5, ReplyKept
<1> QED
  BY <1>7, <1>8 DEF ServiceInv

-----------------------------------------------------------------------------
\* Every step keeps the invariant.
LEMMA ServiceStep == ServiceInv /\ [ServiceNext]_svc => ServiceInv'
<1> SUFFICES ASSUME ServiceInv, [ServiceNext]_svc PROVE ServiceInv'
  OBVIOUS
<1>1. ASSUME NEW f \in ServiceFiles,
             OpenFile(f) \/ ConnectFile(f) \/ ForwardRequest(f) \/ CloseHandle(f) \/ ServiceHandler(f)
      PROVE  ServiceInv'
  BY <1>1, OpenFileKept, ConnectFileKept, ForwardRequestKept, CloseHandleKept, ClaimPortKept,
     DispatchMessageKept, FileCloseMessageKept, FileClosePortKept DEF ServiceHandler
<1>2. CASE ServiceTrigger
  BY <1>2, TriggerLookKept, TriggerDropsKept, TriggerOpenAckKept, TriggerCloseKept, TriggerDataKept
     DEF ServiceTrigger
<1>3. CASE FirmwareTakes \/ FirmwareSends
  BY <1>3, FirmwareTakesKept, FirmwareSendsKept
<1>4. CASE UNCHANGED svc
  BY <1>4 DEF ServiceInv, ServiceTyped, FilesHavePorts, ServiceCalm, OpensAreLive, ServicesAreLive,
     RepliesAreLive, MessageIsLive, CloseIsLast, CloseIsQueued, Left, OpenPending, Serviced, Answered,
     Live, filePc, handles, context, port, vcPort, fileState, queuedRequest, fwBox, armBox, opened,
     message, found, astray, stale, upsets
<1> QED
  BY <1>1, <1>2, <1>3, <1>4 DEF ServiceNext

(***************************************************************************)
(* For every set of files and every number of ports, and whatever clients  *)
(* do: a file that has its context has the port it claimed, and nobody     *)
(* else has it; until a client leaves abruptly, all that is on its way     *)
(* between driver and firmware is for a file that still has its service.   *)
(***************************************************************************)
THEOREM ServiceInvariant == ServiceSpec => []ServiceInv
BY ServiceInitially, ServiceStep, PTL DEF ServiceSpec

(***************************************************************************)
(* A port leads to the one file that has it; and if clients await the      *)
(* answer to CLOSE before they close a file, no message reaches the file   *)
(* that got the port of another, the trigger thread uses no context of a   *)
(* file that is gone, and a closed file leaves no service in the firmware  *)
(* (VchiqProcessRxSlot, VchiqFileClose, VchiqUpdateQueueDispatchMessage).  *)
(***************************************************************************)
THEOREM ServicesStayApart == ServiceSpec => []ServicesApart
<1>1. ServiceInv => ServicesApart
  <2> SUFFICES ASSUME ServiceInv PROVE ServicesApart
    OBVIOUS
  <2>1. PortsOwned
    BY SvcFields DEF ServiceInv, FilesHavePorts, PortsOwned
  <2>2. MessagesReachTheirFile /\ ContextAlive
    BY SvcFields DEF ServiceInv, ServiceCalm, MessagesReachTheirFile, ContextAlive
  <2>3. ClosedInFirmware
    BY SvcFields DEF ServiceInv, ServiceCalm, ServicesAreLive, Live, ClosedInFirmware
  <2> QED
    BY <2>1, <2>2, <2>3 DEF ServicesApart
<1> QED
  BY <1>1, ServiceInvariant, PTL

=============================================================================
