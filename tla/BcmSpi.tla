------------------------------- MODULE BcmSpi -------------------------------
(***************************************************************************)
(* The driver of the main SPI controller (spi/bcm2836): the callbacks of   *)
(* SpbCx hand one request at a time to a thread that polls the controller. *)
(* A request is one transfer, or a sequence of them under one chip select; *)
(* between OnControllerLock and OnControllerUnlock all requests are.       *)
(*                                                                         *)
(* The device returns, for every byte sent, the number of bytes clocked    *)
(* since the request began; it is sent 1, 2, 3, ... and zeros by reads.    *)
(***************************************************************************)
EXTENDS Integers, Sequences, SequencesExt

CONSTANTS
  SpiTargets,    \* devices, each with a chip select of its own
  SpiRequests,   \* what clients send: records of a type and transfers
  SpiFifo,       \* depth of the FIFOs
  SpiLockedRequests   \* most requests under one lock (bound)

NoTarget == "none"

\* A request has at least one transfer.
ASSUME SpiAssumption ==
  /\ SpiFifo \in Nat \ {0} /\ SpiLockedRequests \in Nat
  /\ NoTarget \notin SpiTargets
  /\ \A q \in SpiRequests :
       /\ q.type \in {"read", "write", "sequence", "other"}
       /\ q.transfers \in Seq([w : Nat, r : Nat]) /\ q.transfers # <<>>

VARIABLE spi

NoRequest == [type |-> "none", transfers |-> <<>>]

SpiInit ==
  spi = [active |-> FALSE, asked |-> FALSE,     \* SpbCx: a request is out; the client cancelled it
         request |-> NoRequest, position |-> "Single", index |-> 1, total |-> 0,
         current |-> NoTarget,                  \* pCurrentTarget
         has |-> FALSE,                         \* pCurrentTarget->pCurrentRequest # NULL
         locked |-> FALSE, used |-> 0,          \* requests since the lock
         wake |-> FALSE, pc |-> "wait",         \* TransferPollModeThread
         ta |-> FALSE, line |-> NoTarget,       \* SPI_CS_COPY: TA, and the chip select
         write |-> 0, zero |-> 0, read |-> 0, discard |-> 0, info |-> 0,
         status |-> "success",
         buffer |-> <<>>, tx |-> <<>>, rx |-> <<>>, heard |-> <<>>, clock |-> 0,
         failed |-> FALSE,                      \* a transfer failed since chip select
         last |-> "none",                       \* how the last request ended
         broken |-> {}]                         \* the kinds of NT_ASSERT that failed

\* A kind is "order", for the callbacks and the thread, or "mdl", for the two assertions of the
\* polling loop that a byte of the request is found in its MDL.
SpiAssert(s, P) == [s EXCEPT !.broken = IF P THEN @ ELSE @ \cup {"order"}]

-----------------------------------------------------------------------------
(* Callbacks of SpbCx.                                                     *)

OnRequest(s, t) ==
  LET a == SpiAssert(s, ~s.has /\ (IF s.locked THEN s.current = t ELSE s.current = NoTarget))
  IN  [a EXCEPT !.current = t, !.has = TRUE, !.wake = TRUE]

\* Read, write, sequence or full-duplex; the position is SpbCx's.
OnSequenceRequest(t, q) ==
  /\ ~spi.active /\ (spi.locked => spi.current = t /\ spi.used < SpiLockedRequests)
  /\ (spi.locked => q.type # "sequence")
  /\ spi' = OnRequest([spi EXCEPT !.active = TRUE, !.asked = FALSE, !.request = q,
                                  !.position = CASE ~spi.locked -> "Single"
                                                 [] spi.locked /\ spi.used = 0 -> "First"
                                                 [] OTHER -> "Continue",
                                  !.used = IF spi.locked THEN @ + 1 ELSE 0,
                                  !.index = 1, !.total = 0,
                                  !.buffer = <<>>, !.heard = <<>>, !.clock = 0,
                                  !.last = "none"], t)

OnControllerLock(t) ==
  /\ ~spi.active /\ ~spi.locked
  /\ spi' = [SpiAssert(spi, spi.current = NoTarget)
               EXCEPT !.current = t, !.locked = TRUE, !.used = 0]

OnControllerUnlock ==
  /\ ~spi.active /\ spi.locked /\ spi.tx = <<>>
  /\ spi' = [SpiAssert(spi, spi.current # NoTarget)
               EXCEPT !.current = NoTarget, !.locked = FALSE, !.ta = FALSE,
                      !.rx = IF spi.ta THEN <<>> ELSE @]

SpiClientCancels == spi.active /\ ~spi.asked /\ spi' = [spi EXCEPT !.asked = TRUE]

-----------------------------------------------------------------------------
(* The thread.                                                             *)

ControllerConfigForTargetAndActivate(s) ==
  [SpiAssert(s, ~s.ta) EXCEPT !.line = s.current, !.tx = <<>>, !.rx = <<>>, !.ta = TRUE,
                             !.failed = FALSE]

TransferPollModeThread ==
  /\ spi.pc = "wait" /\ spi.wake
  /\ LET s == [spi EXCEPT !.wake = FALSE, !.pc = "transfer"]
         begins == s.position \in {"Single", "First"}
     IN  spi' = IF begins THEN ControllerConfigForTargetAndActivate(s) ELSE s

Larger(a, b) == IF a < b THEN b ELSE a

SpiTransfer(s) == s.request.transfers[s.index]

\* PbcRequestSetNthTransferInfo and the beginning of the transfer.
ControllerDoOneTransfer ==
  /\ spi.pc = "transfer"
  /\ LET q == spi.request
         n == Len(q.transfers)
         t == SpiTransfer(spi)
         length == Larger(t.w, t.r)
     IN  spi' = [spi EXCEPT
                   !.position = CASE q.type # "sequence" -> @
                                  [] q.type = "sequence" /\ n = 1 -> "Single"
                                  [] q.type = "sequence" /\ n # 1 /\ spi.index = 1 -> "First"
                                  [] q.type = "sequence" /\ n # 1 /\ spi.index = n -> "Last"
                                  [] OTHER -> "Continue",
                   !.write = t.w, !.zero = length - t.w, !.read = t.r, !.discard = length - t.r,
                   !.info = 0, !.status = "success", !.pc = "poll"]

Polling == spi.write > 0 \/ spi.zero > 0 \/ spi.read > 0 \/ spi.discard > 0

\* Bytes of the request's writes before this transfer.
Before(s) == FoldSeq(LAMBDA t, sum : sum + t.w, 0, SubSeq(s.request.transfers, 1, s.index - 1))

(***************************************************************************)
(* One round of the loop.  TXD and RXD are read once, at its beginning;    *)
(* the controller only makes more room and more data meanwhile.            *)
(***************************************************************************)
SendOne(s) ==
  CASE Len(s.tx) # SpiFifo /\ s.write > 0 ->
         [s EXCEPT !.tx = Append(@, Before(s) + SpiTransfer(s).w - s.write + 1),
                   !.write = @ - 1]
    [] Len(s.tx) # SpiFifo /\ s.write <= 0 /\ s.zero > 0 ->
         [s EXCEPT !.tx = Append(@, 0), !.zero = @ - 1]
    [] OTHER -> s

ReceiveOne(s) ==
  CASE s.rx # <<>> /\ s.read > 0 ->
         [s EXCEPT !.buffer = Append(@, Head(s.rx)), !.rx = Tail(@), !.read = @ - 1]
    [] s.rx # <<>> /\ s.read <= 0 /\ s.discard > 0 ->
         [s EXCEPT !.rx = Tail(@), !.discard = @ - 1]
    [] OTHER -> s

PollOnce ==
  /\ spi.pc = "poll" /\ Polling
  /\ spi' = IF spi.asked THEN [spi EXCEPT !.status = "cancelled", !.pc = "flush"]
            ELSE ReceiveOne(SendOne(spi))

(***************************************************************************)
(* MmGetSystemAddressForMdlSafe fails.  MdlGetByte and MdlSetByte answer   *)
(* as they do for an index beyond the MDL, the loop asserts and the        *)
(* transfer is left without a flush: before the byte is written, or after  *)
(* the round's byte was sent and one taken from the receive FIFO.          *)
(***************************************************************************)
Unmapped(s) ==
  [s EXCEPT !.status = "invalid", !.failed = TRUE, !.pc = "complete", !.broken = @ \cup {"mdl"}]

MapFails ==
  /\ spi.pc = "poll" /\ ~spi.asked
  /\ \/ spi.write > 0 /\ Len(spi.tx) # SpiFifo /\ spi' = Unmapped(spi)
     \/ /\ spi.read > 0 /\ spi.rx # <<>>
        /\ spi' = Unmapped([SendOne(spi) EXCEPT !.rx = Tail(@)])

PollEnds == spi.pc = "poll" /\ ~Polling /\ spi' = [spi EXCEPT !.pc = "flush"]

\* The receive FIFO is cleared, the sender waited for, the receive FIFO cleared.
ControllerFlushFifos ==
  \/ spi.pc = "flush" /\ spi' = [SpiAssert(spi, spi.ta) EXCEPT !.rx = <<>>, !.pc = "drain"]
  \/ /\ spi.pc = "drain" /\ spi.tx = <<>>
     /\ LET t == SpiTransfer(spi)
        IN  spi' = [spi EXCEPT !.rx = <<>>, !.pc = "complete",
                               !.info = (t.r - spi.read) + (t.w - spi.write)]

\* Mutant: chip select goes with every transfer of a sequence.
CompleteTransferDeactivates ==
  /\ spi.pc = "complete"
  /\ LET s == [spi EXCEPT !.total = @ + spi.info, !.info = 0, !.index = @ + 1]
         again == s.index <= Len(s.request.transfers) /\ s.status # "cancelled"
     IN  spi' = IF again THEN [s EXCEPT !.pc = "transfer", !.ta = FALSE]
                ELSE [s EXCEPT !.ta = @ /\ s.locked, !.has = FALSE, !.pc = "wait",
                               !.current = IF s.locked THEN @ ELSE NoTarget,
                               !.active = FALSE, !.last = s.status]

(***************************************************************************)
(* The next transfer unless the request was cancelled; a transfer that     *)
(* failed for another reason does not keep the next one from being made.   *)
(***************************************************************************)
ControllerCompleteTransfer ==
  /\ spi.pc = "complete"
  /\ LET s == [spi EXCEPT !.total = @ + spi.info, !.info = 0, !.index = @ + 1]
         again == s.index <= Len(s.request.transfers) /\ s.status # "cancelled"
         releases == ~s.locked /\ (s.position \in {"Single", "Last"} \/ s.status = "cancelled")
         clears == ~s.locked /\ (s.request.type \in {"sequence", "other"} \/ s.position = "Single")
     IN  spi' = IF again THEN [s EXCEPT !.pc = "transfer"]
                ELSE [s EXCEPT !.ta = @ /\ ~releases, !.has = FALSE, !.pc = "wait",
                               !.current = IF clears THEN NoTarget ELSE @,
                               !.active = FALSE, !.last = s.status]

\* The controller shifts one byte out and one in, and waits for room.
SpiShift ==
  /\ spi.ta /\ spi.tx # <<>> /\ Len(spi.rx) < SpiFifo
  /\ spi' = [spi EXCEPT !.heard = Append(@, Head(spi.tx)), !.tx = Tail(@),
                        !.rx = Append(@, spi.clock + 1), !.clock = @ + 1]

SpiThread ==
  \/ TransferPollModeThread
  \/ ControllerDoOneTransfer
  \/ PollOnce
  \/ PollEnds
  \/ ControllerFlushFifos
  \/ ControllerCompleteTransfer

SpiNext ==
  \/ \E t \in SpiTargets, q \in SpiRequests : OnSequenceRequest(t, q)
  \/ \E t \in SpiTargets : OnControllerLock(t)
  \/ OnControllerUnlock
  \/ SpiClientCancels
  \/ SpiThread
  \/ MapFails
  \/ SpiShift

SpiFairness == WF_spi(SpiThread) /\ WF_spi(SpiShift)

-----------------------------------------------------------------------------
(***************************************************************************)
(* No NT_ASSERT about the current target and request, the lock and chip    *)
(* select fails, in no callback and not in the thread, whatever failed or  *)
(* was cancelled before.  The two of the polling loop, that the MDL's size *)
(* matches (controller.cpp:281 and :311), do fail with MapFails although   *)
(* it matches, and are not claimed.                                        *)
(***************************************************************************)
SpiAssertionsHold == "order" \notin spi.broken

(***************************************************************************)
(* What a request that ended with success has transferred: the device got  *)
(* the bytes of the writes and zeros for the reads, transfer by transfer,  *)
(* and the client what came back during its reads, as much as reported.    *)
(* A cancelled one reports what the device and the client have got.  (A    *)
(* sequence may end with success although a transfer failed, and what that *)
(* left in the FIFOs stays there until chip select is activated again.)    *)
(***************************************************************************)
SpiTransferExact ==
  LET q == spi.request.transfers
      length(t) == Larger(t.w, t.r)
      start(i) == FoldSeq(LAMBDA t, sum : sum + length(t), 0, SubSeq(q, 1, i - 1))
      wrote(i) == FoldSeq(LAMBDA t, sum : sum + t.w, 0, SubSeq(q, 1, i - 1))
      sent(i) == [k \in 1 .. length(q[i]) |-> IF k <= q[i].w THEN wrote(i) + k ELSE 0]
      got(i) == [k \in 1 .. q[i].r |-> start(i) + k]
  IN  /\ (spi.last = "success" /\ ~spi.failed) =>
           /\ spi.heard = FlattenSeq([i \in DOMAIN q |-> sent(i)])
           /\ spi.buffer = FlattenSeq([i \in DOMAIN q |-> got(i)])
           /\ spi.total = FoldSeq(LAMBDA t, sum : sum + t.w + t.r, 0, q)
      /\ (spi.last = "cancelled" /\ ~spi.failed) =>
           spi.total = Len(SelectSeq(spi.heard, LAMBDA b : b # 0)) + Len(spi.buffer)

(***************************************************************************)
(* Bytes are shifted under the chip select of the target whose request it  *)
(* is; it is active as long as the request or the lock lasts, not longer.  *)
(***************************************************************************)
SpiChipSelect ==
  /\ (spi.pc \in {"transfer", "poll", "flush", "drain"}) => spi.ta /\ spi.line = spi.current
  /\ (~spi.active /\ ~spi.locked) => ~spi.ta /\ spi.current = NoTarget

SpiGoingOn == ~spi.active
=============================================================================
