----------------------------- MODULE GenetRings -----------------------------
(***************************************************************************)
(* The rings of the Ethernet driver (bcmgenet/driver.c): packets go from   *)
(* the framework's rings into the descriptors of the transmit ring and are *)
(* given back when the hardware's consumer index has passed them; receive  *)
(* buffers go from the free stack to descriptors, with a packet to the     *)
(* framework, and back.  Producer and consumer indexes have GnrIndex       *)
(* values, a multiple of the GnrDescs descriptors (2^16 and 256).          *)
(* The framework calls a queue's callbacks one after the other.            *)
(***************************************************************************)
EXTENDS Integers, Sequences, FiniteSets

CONSTANTS
  GnrDescs,      \* numDescs
  GnrIndex,      \* values of the indexes
  GnrFragments,  \* FragmentCount of each packet of the framework, 0 for one with Ignore
  GnrFrames,     \* the frames that arrive: TRUE for one without error
  GnrBuffers     \* how many receive buffers there are

ASSUME GnrAssumption ==
  /\ GnrDescs \in Nat \ {0, 1} /\ GnrIndex \in Nat /\ GnrIndex % GnrDescs = 0
  /\ GnrFragments \in Seq(0..GnrDescs - 1) /\ GnrFrames \in Seq(BOOLEAN)
  /\ GnrBuffers \in Nat /\ GnrBuffers >= GnrDescs

VARIABLES
  gnt,
  \* prod, cons: prodIndex, consIndex;  hwProd, hwCons: the ring's registers;  begin, next, end:
  \* of the packet ring, counting packets;  lastDesc: packetContexts;  desc: the packet and
  \* fragment in each descriptor;  sent: fragments the hardware sent, in order
  gnx
  \* prod, cons, canceled: of the receive queue;  hwProd: TDMA_Cons_Index, the hardware's;
  \* free: freeBuffers up to curFreeBuffer;  descs: descBuffers;  frame: the frame in each
  \* buffer;  os: buffers with the framework;  arrived: frames so far;  got: frames indicated;
  \* dropped: frames with errors;  state: of the queue

NoBuffer == 0

-----------------------------------------------------------------------------
(* Transmission *)

GntInit ==
  gnt = [prod |-> 0, cons |-> 0, hwProd |-> 0, hwCons |-> 0, begin |-> 1, next |-> 1, end |-> 1,
         lastDesc |-> <<>>, desc |-> [d \in 0..GnrDescs - 1 |-> <<0, 0>>], sent |-> <<>>]

RingDistance(from, to) == (to - from) % GnrDescs

Wrapped(i) == i % GnrIndex

\* The protocol hands over a packet.
PostPacket ==
  /\ gnt.end <= Len(GnrFragments)
  /\ gnt' = [gnt EXCEPT !.end = @ + 1]

\* The fragments of the packets from..to, in order: packet and number of the fragment.
FragmentsOf(from, to) ==
  LET f[p \in from - 1..to] ==
        IF p < from THEN <<>> ELSE f[p - 1] \o [k \in 1..GnrFragments[p] |-> <<p, k>>]
  IN f[to]

\* Packets are posted while one fits, with what was free at the last call; a packet with
\* Ignore takes no descriptor.
PostedTo(s) ==
  LET free == GnrDescs - RingDistance(s.cons % GnrDescs, s.prod % GnrDescs) - 1
      fits == {p \in s.next - 1..s.end - 1 : Len(FragmentsOf(s.next, p)) <= free}
  IN CHOOSE p \in fits : \A o \in fits : o <= p

TxPost(s) ==
  LET to == PostedTo(s)
      fragments == FragmentsOf(s.next, to)
      at(k) == (s.prod + k - 1) % GnrDescs
      last(p) == (s.prod + Len(FragmentsOf(s.next, p)) - 1) % GnrDescs
      prod == Wrapped(s.prod + Len(fragments))
  IN [s EXCEPT
        !.desc = [d \in 0..GnrDescs - 1 |->
                    IF \E k \in 1..Len(fragments) : at(k) = d
                    THEN fragments[CHOOSE k \in 1..Len(fragments) : at(k) = d] ELSE @[d]],
        !.lastDesc = @ \o [k \in 1..to - s.next + 1 |->
                             IF GnrFragments[s.next + k - 1] = 0 THEN 0 ELSE last(s.next + k - 1)],
        !.prod = prod, !.next = to + 1, !.hwProd = prod]

\* Mutant: the descriptor at the consumer's index counts as done.
TxDoneEarly(s, p) ==
  \/ GnrFragments[p] = 0
  \/ RingDistance(s.lastDesc[p], s.prod % GnrDescs) >= RingDistance(s.cons % GnrDescs, s.prod % GnrDescs)

\* A packet is done when its last descriptor lies outside what the hardware still has.
TxDone(s, p) ==
  \/ GnrFragments[p] = 0
  \/ RingDistance(s.lastDesc[p], s.prod % GnrDescs) > RingDistance(s.cons % GnrDescs, s.prod % GnrDescs)

TxComplete(s) ==
  LET done == {p \in s.begin - 1..s.next - 1 : \A o \in s.begin..p : TxDone(s, o)}
  IN [s EXCEPT !.begin = (CHOOSE p \in done : \A o \in done : o <= p) + 1]

GenetTxQueueAdvance ==
  /\ gnt' = TxComplete([TxPost(gnt) EXCEPT !.cons = gnt.hwCons])
  /\ gnt' # gnt

HardwareSends ==
  /\ gnt.hwCons # gnt.hwProd
  /\ gnt' = [gnt EXCEPT !.hwCons = Wrapped(@ + 1),
               !.sent = Append(@, gnt.desc[gnt.hwCons % GnrDescs])]

GntNext == PostPacket \/ GenetTxQueueAdvance \/ HardwareSends

-----------------------------------------------------------------------------
(* Reception *)

GnxInit ==
  gnx = [prod |-> 0, cons |-> 0, hwProd |-> 0, canceled |-> FALSE,
         free |-> [i \in 1..GnrBuffers |-> i], descs |-> [d \in 0..GnrDescs - 1 |-> NoBuffer],
         frame |-> [b \in 1..GnrBuffers |-> 0], os |-> {}, arrived |-> 0, got |-> <<>>,
         dropped |-> 0, state |-> "stopped"]

Top(s) == s.free[Len(s.free)]
Pop(s) == SubSeq(s.free, 1, Len(s.free) - 1)

\* The descriptors are filled from the top of the stack.
GenetRxQueueStart ==
  /\ gnx.state = "stopped" /\ Len(gnx.free) >= GnrDescs
  /\ gnx' = [gnx EXCEPT !.prod = 0, !.cons = 0, !.hwProd = 0, !.canceled = FALSE,
               !.descs = [d \in 0..GnrDescs - 1 |-> gnx.free[Len(gnx.free) - d]],
               !.free = SubSeq(@, 1, Len(@) - GnrDescs), !.state = "running"]

\* The hardware stops when it would meet the consumer.
FrameArrives ==
  /\ gnx.state = "running" /\ gnx.arrived < Len(GnrFrames)
  /\ Wrapped(gnx.hwProd - gnx.cons) < GnrDescs
  /\ gnx' = [gnx EXCEPT !.arrived = @ + 1, !.hwProd = Wrapped(@ + 1),
               !.frame[gnx.descs[gnx.hwProd % GnrDescs]] = gnx.arrived + 1]

\* One round of the loop of GenetRxQueueAdvance: a frame with an error leaves its buffer in its
\* descriptor, another goes up while a free buffer takes its place.
TakeFrame(s) ==
  LET d == s.cons % GnrDescs
      b == s.descs[d]
      taken == [s EXCEPT !.cons = Wrapped(@ + 1)]
  IN IF ~GnrFrames[s.frame[b]] THEN [taken EXCEPT !.dropped = @ + 1]
     ELSE [taken EXCEPT !.descs[d] = Top(s), !.free = Pop(s), !.os = @ \cup {b},
                        !.got = Append(@, s.frame[b])]

GenetRxQueueAdvance ==
  /\ gnx.state = "running" /\ gnx.hwProd # gnx.cons /\ gnx.free # <<>>
  /\ LET rounds[k \in 0..GnrDescs] ==
           IF k = 0 THEN [gnx EXCEPT !.prod = gnx.hwProd]
           ELSE LET s == rounds[k - 1]
                IN IF s.cons = s.prod \/ s.free = <<>> THEN s ELSE TakeFrame(s)
     IN gnx' = rounds[GnrDescs]

GenetRxQueueCancel ==
  /\ gnx.state = "running"
  /\ gnx' = [gnx EXCEPT !.canceled = TRUE, !.state = "canceled"]

\* After a cancellation free buffers go up empty until the framework's ring is drained.
AdvanceCanceled ==
  /\ gnx.state = "canceled" /\ gnx.free # <<>>
  /\ gnx' = [gnx EXCEPT !.os = @ \cup {Top(gnx)}, !.free = Pop(gnx)]

GenetReturnRxBuffer(b) ==
  /\ b \in gnx.os
  /\ gnx' = [gnx EXCEPT !.os = @ \ {b}, !.free = Append(@, b)]

\* The framework stops the queue when it has returned every buffer.
GenetRxQueueStop ==
  /\ gnx.state = "canceled" /\ gnx.os = {}
  /\ gnx' = [gnx EXCEPT !.free = @ \o [k \in 1..GnrDescs |-> gnx.descs[k - 1]],
               !.descs = [d \in 0..GnrDescs - 1 |-> NoBuffer], !.state = "stopped"]

GnxNext ==
  \/ GenetRxQueueStart \/ FrameArrives \/ GenetRxQueueAdvance \/ GenetRxQueueCancel
  \/ AdvanceCanceled \/ GenetRxQueueStop
  \/ \E b \in 1..GnrBuffers : GenetReturnRxBuffer(b)

-----------------------------------------------------------------------------
\* Fragments are sent in order, each once, and a packet is given back only when all were sent.
GnrTxExact ==
  /\ gnt.sent = SubSeq(FragmentsOf(1, Len(GnrFragments)), 1, Len(gnt.sent))
  /\ Len(FragmentsOf(1, gnt.begin - 1)) <= Len(gnt.sent)

\* A buffer is in one place: on the stack, in one descriptor, or with the framework.
GnrBufferOnce ==
  LET inDescs == {d \in 0..GnrDescs - 1 : gnx.descs[d] # NoBuffer}
      onStack == {gnx.free[i] : i \in 1..Len(gnx.free)}
      inRing == {gnx.descs[d] : d \in inDescs}
  IN /\ Len(gnx.free) + Cardinality(inDescs) + Cardinality(gnx.os) = GnrBuffers
     /\ onStack \cup inRing \cup gnx.os = 1..GnrBuffers

\* Frames go up in the order they came, those with errors left out.
GnrRxInOrder ==
  \A i \in 1..Len(gnx.got) :
    /\ GnrFrames[gnx.got[i]]
    /\ i > 1 => gnx.got[i - 1] < gnx.got[i]
=============================================================================
