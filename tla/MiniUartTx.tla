----------------------------- MODULE MiniUartTx -----------------------------
(***************************************************************************)
(* The transmit side of the mini UART driver: writes, immediate characters *)
(* and XOFF counters (write.c, immediat.c), the transmit branch of the ISR *)
(* (isr.c), the transmit half of flow control (modmflow.c) and             *)
(* IOCTL_SERIAL_PURGE of it (purge.c).                                     *)
(*                                                                         *)
(* Characters are counted, not told apart.  The transmit interrupt is the  *)
(* 16550's the code relies on: it is raised when its enable bit is written *)
(* while the FIFO is empty and when the FIFO drains while it is enabled,   *)
(* and reading the interrupt register takes it back.                       *)
(***************************************************************************)
EXTENDS MiniUartRequest, FiniteSetsExt

CONSTANTS
  MtxLength,       \* write request -> its length
  MtxImmediates,   \* the IOCTL_SERIAL_IMMEDIATE_CHAR requests
  MtxXoffs,        \* XOFF counter request -> its counter
  MtxLoads,        \* loads: the requests of a behaviour, and the reasons to hold
                   \* transmission ("xoff", "break", "cts") that occur in it
  MtxTxFifoAmount, \* characters the ISR writes at once
  MtxTimeouts,     \* is a total write timeout configured?
  MtxXoffTimeout   \* do XOFF counters have a timeout?

MtxWrites == DOMAIN MtxLength
MtxCounters == DOMAIN MtxXoffs
MtxRequests == MtxWrites \cup MtxImmediates \cup MtxCounters

ASSUME MtxAssumption ==
  /\ \A load \in MtxLoads : /\ load.requests \subseteq MtxRequests
                            /\ load.holds \subseteq {"xoff", "break", "cts"}
  /\ MtxTxFifoAmount \in Nat \ {0}
  /\ \A w \in MtxWrites : MtxLength[w] \in Nat \ {0}
  /\ \A x \in MtxCounters : MtxXoffs[x] \in Nat \ {0}
  /\ MtxTimeouts \in BOOLEAN /\ MtxXoffTimeout \in BOOLEAN

VARIABLE mtx

MtxKinds == {"write", "imm", "xoff"}

\* Characters a request adds to TotalCharsQueued.
Chars(r) == IF r \in MtxWrites THEN MtxLength[r] ELSE 1

MtxInit == \E load \in MtxLoads :
  mtx = [load |-> load,
         ctx |-> [r \in MtxRequests |-> NewContext],
         cur |-> [k \in MtxKinds |-> NoReq],
         queue |-> [k \in {"write"} |-> <<>>],
         timer |-> [k \in MtxKinds |-> {}],
         ended |-> [r \in MtxRequests |-> 0],
         faults |-> {},
         arrived |-> {},
         dpc |-> {},
         WriteLength |-> 0, TransmitImmediate |-> FALSE, CountSinceXoff |-> 0,
         TotalCharsQueued |-> 0, HoldingEmpty |-> TRUE, TXHolding |-> {},
         send |-> "none",      \* SendXonChar, SendXoffChar
         cts |-> TRUE,         \* the modem line the handshake watches
         ier |-> FALSE,        \* SERIAL_IER_THR
         thr |-> FALSE,        \* the transmit interrupt is pending
         fifo |-> 0,
         sent |-> [w \in MtxWrites |-> 0],
         rmw |-> "no"]         \* SerialEvtIoWrite between its two accesses to IER

-----------------------------------------------------------------------------
(* The interrupt enable register.                                          *)

SetIer(s) == [s EXCEPT !.ier = TRUE, !.thr = @ \/ s.fifo = 0]

ClearIer(s) == [s EXCEPT !.ier = FALSE, !.thr = FALSE]

\* DISABLE_ALL_INTERRUPTS followed by ENABLE_ALL_INTERRUPTS.
Tickle(s) == SetIer(ClearIer(s))

TickleIf(s, cond) == IF cond THEN Tickle(s) ELSE s

SerialInsertQueueDpc(s, d) == [s EXCEPT !.dpc = @ \cup {d}]

-----------------------------------------------------------------------------
(* Routines run with the ISR locked out.                                   *)

SerialGiveWriteToIsr(s) ==
  LET r == s.cur["write"]
      t == SERIAL_SET_REFERENCE([s EXCEPT !.WriteLength = Chars(r)], r, "isr")
  IN  TickleIf(t, ~t.TransmitImmediate /\ t.HoldingEmpty)

\* Mutant: the characters already sent are reported as not sent.
GrabWriteWrongCount(s) ==
  LET r == s.cur["write"]
  IN  IF s.WriteLength = 0 THEN s
      ELSE SERIAL_CLEAR_REFERENCE(
             [s EXCEPT !.ctx[r].info = IF r \in MtxWrites THEN s.WriteLength ELSE 0,
                       !.WriteLength = 0], r, "isr")

\* Mutant: the ISR keeps the rest of the write.
GrabWriteKeepsLength(s) ==
  LET r == s.cur["write"]
  IN  IF s.WriteLength = 0 THEN s
      ELSE SERIAL_CLEAR_REFERENCE(
             [s EXCEPT !.ctx[r].info = IF r \in MtxWrites THEN MtxLength[r] - s.WriteLength
                                       ELSE 0], r, "isr")

SerialGrabWriteFromIsr(s) ==
  LET r == s.cur["write"]
  IN  IF s.WriteLength = 0 THEN s
      ELSE SERIAL_CLEAR_REFERENCE(
             [s EXCEPT !.ctx[r].info = IF r \in MtxWrites THEN MtxLength[r] - s.WriteLength
                                       ELSE 0,
                       !.WriteLength = 0], r, "isr")

SerialGiveXoffToIsr(s) ==
  LET r == s.cur["xoff"]
  IN  SERIAL_SET_REFERENCE([s EXCEPT !.CountSinceXoff = MtxXoffs[r]], r, "isr")

SerialGrabXoffFromIsr(s) ==
  IF s.CountSinceXoff = 0 THEN s
  ELSE SERIAL_CLEAR_REFERENCE([s EXCEPT !.CountSinceXoff = 0], s.cur["xoff"], "isr")

SerialGiveImmediateToIsr(s) ==
  LET t == SERIAL_SET_REFERENCE([s EXCEPT !.TransmitImmediate = TRUE], s.cur["imm"], "isr")
  IN  TickleIf(t, t.WriteLength = 0 /\ t.HoldingEmpty)

\* Mutant: the ISR's reference is given back, the character stays with the ISR.
GrabImmediateKeepsChar(s) ==
  IF ~s.TransmitImmediate THEN s ELSE SERIAL_CLEAR_REFERENCE(s, s.cur["imm"], "isr")

SerialGrabImmediateFromIsr(s) ==
  IF ~s.TransmitImmediate THEN s
  ELSE SERIAL_CLEAR_REFERENCE([s EXCEPT !.TransmitImmediate = FALSE], s.cur["imm"], "isr")

-----------------------------------------------------------------------------
(* Completion.                                                             *)

WriteTimer == [total |-> "write"]
XoffTimer == [total |-> "xoff"]
ImmediateTimer == [total |-> "imm"]
NoTimer == [none |-> "none"]

\* The XOFF counter ends because more is written (start of SerialStartWrite).
EndXoffForWrite(s) ==
  LET x == s.cur["xoff"]
  IN  IF x = NoReq \/ s.ctx[x].refs = {} THEN s
      ELSE CompleteOnly(
             SerialTryToCompleteCurrent(
               SerialGrabXoffFromIsr([SERIAL_SET_REFERENCE(s, x, "xoff")
                                        EXCEPT !.ctx[x].info = 0]),
               "xoff", "more_writes", XoffTimer, "xoff"), "xoff")

SerialStartWrite(s) ==
  LET r == s.cur["write"]
      a == [EndXoffForWrite(s) EXCEPT !.ctx[r].refs = {}]
      b == SerialSetCancelRoutine(a, r)
      c == IF MtxTimeouts THEN StartTimer(b, r, "write", "total") ELSE b
  IN  SerialGiveWriteToIsr(c)

(***************************************************************************)
(* A write whose character was sent on behalf of an XOFF counter turns     *)
(* into the current XOFF counter; any other write is complete.  The next   *)
(* one of the queue is started (Starter of SerialTryToCompleteCurrent).    *)
(***************************************************************************)
WriteToXoff(s) ==
  LET r == s.cur["write"]
      a == IF s.cur["xoff"] = NoReq THEN s ELSE Fault(s, "CurrentXoffRequest")
      b == SerialGiveXoffToIsr([SerialSetCancelRoutine(a, r) EXCEPT !.cur["xoff"] = r])
  IN  IF MtxXoffTimeout THEN StartTimer(b, r, "xoff", "total") ELSE b

SerialGetNextWrite(s) ==
  IF ~Finished(s, "write") THEN s ELSE
  LET r == s.cur["write"]
      a == [s EXCEPT !.TotalCharsQueued = @ - Chars(r)]
      b == IF a.TotalCharsQueued < 0 THEN Fault(a, "TotalCharsQueued") ELSE a
      turns == /\ r \in MtxCounters
               /\ s.ctx[r].status = "success" /\ ~s.ctx[r].cancelled
      c == SerialGetNextRequest(IF turns THEN WriteToXoff(b) ELSE b, "write", ~turns)
  IN  IF c.cur["write"] = NoReq THEN c ELSE SerialStartWrite(c)

SerialGetNextImmediate(s) ==
  IF ~Finished(s, "imm") THEN s ELSE
  LET a == [s EXCEPT !.TotalCharsQueued = @ - 1]
  IN  CompleteOnly(IF a.TotalCharsQueued < 0 THEN Fault(a, "TotalCharsQueued") ELSE a, "imm")

SerialCompleteWrite(s) ==
  SerialGetNextWrite(SerialTryToCompleteCurrent(s, "write", "success", WriteTimer, "isr"))

SerialCancelCurrentWrite(s) ==
  SerialGetNextWrite(
    SerialTryToCompleteCurrent(SerialGrabWriteFromIsr(s), "write", "cancelled", WriteTimer,
                               "cancel"))

\* Mutant: the timer is not passed on, as in SerialTimeoutXoff.
WriteTimeoutNoTimer(s) ==
  SerialGetNextWrite(
    SerialTryToCompleteCurrent(SerialGrabWriteFromIsr(s), "write", "timeout", NoTimer, "total"))

SerialWriteTimeout(s) ==
  SerialGetNextWrite(
    SerialTryToCompleteCurrent(SerialGrabWriteFromIsr(s), "write", "timeout", WriteTimer, "total"))

SerialCompleteXoff(s) ==
  CompleteOnly(SerialTryToCompleteCurrent(s, "xoff", "success", XoffTimer, "isr"), "xoff")

SerialTimeoutXoff(s) ==
  CompleteOnly(
    SerialTryToCompleteCurrent(SerialGrabXoffFromIsr(s), "xoff", "counter_timeout", NoTimer,
                               "total"), "xoff")

SerialCancelCurrentXoff(s) ==
  CompleteOnly(
    SerialTryToCompleteCurrent(SerialGrabXoffFromIsr(s), "xoff", "cancelled", XoffTimer,
                               "cancel"), "xoff")

SerialStartImmediate(s) ==
  LET r == s.cur["imm"]
      a == SerialSetCancelRoutine([s EXCEPT !.ctx[r].refs = {}], r)
      b == IF MtxTimeouts THEN StartTimer(a, r, "imm", "total") ELSE a
  IN  SerialGiveImmediateToIsr(b)

SerialCompleteImmediate(s) ==
  SerialGetNextImmediate(
    SerialTryToCompleteCurrent(s, "imm", "success", ImmediateTimer, "isr"))

SerialTimeoutImmediate(s) ==
  SerialGetNextImmediate(
    SerialTryToCompleteCurrent(SerialGrabImmediateFromIsr(s), "imm", "timeout", ImmediateTimer,
                               "total"))

SerialCancelImmediate(s) ==
  SerialGetNextImmediate(
    SerialTryToCompleteCurrent(SerialGrabImmediateFromIsr(s), "imm", "cancelled",
                               ImmediateTimer, "cancel"))

-----------------------------------------------------------------------------
(* Requests.  A callback needs the device lock, which SerialEvtIoWrite     *)
(* holds until it has written IER.                                         *)

DeviceLockFree == mtx.rmw = "no"

Arrive(s, r) == [s EXCEPT !.arrived = @ \cup {r}]

\* Started at once, or queued behind the current write.
QueueWrite(r) ==
  LET s == SerialStartOrQueue([Arrive(mtx, r) EXCEPT !.TotalCharsQueued = @ + Chars(r)],
                              r, "write")
  IN  IF s.cur["write"] = r THEN SerialStartWrite(s) ELSE s

SerialEvtIoWrite(w) ==
  /\ DeviceLockFree /\ w \in mtx.load.requests \ mtx.arrived
  /\ mtx' = [QueueWrite(w) EXCEPT !.rmw = "read"]

\* The second half: tempIER was read, the ISR may have run, IER is written.
SerialEvtIoWriteEnable ==
  /\ mtx.rmw = "read"
  /\ mtx' = [SetIer(mtx) EXCEPT !.rmw = "no"]

SerialXoffCounter(x) ==
  /\ DeviceLockFree /\ x \in mtx.load.requests \ mtx.arrived
  /\ mtx' = QueueWrite(x)

SerialImmediateChar(i) ==
  /\ DeviceLockFree /\ i \in mtx.load.requests \ mtx.arrived
  /\ IF mtx.cur["imm"] # NoReq
     THEN mtx' = SerialCompleteRequest(Arrive(mtx, i), i, "invalid_parameter", 0)
     ELSE mtx' = SerialStartImmediate([Arrive(mtx, i) EXCEPT !.cur["imm"] = i,
                                                             !.TotalCharsQueued = @ + 1])

\* Mutant: the characters of a write cancelled in the queue stay counted.
CanceledOnQueueKeepsCount(s, r) == SerialCompleteRequest(s, r, "cancelled", 0)

SerialEvtCanceledOnQueue(s, r) ==
  SerialCompleteRequest([s EXCEPT !.TotalCharsQueued = @ - Chars(r)], r, "cancelled", 0)

\* IOCTL_SERIAL_PURGE with SERIAL_PURGE_TXABORT.
SerialStartPurgeTx ==
  /\ DeviceLockFree
  /\ mtx.cur["write"] # NoReq \/ mtx.cur["xoff"] # NoReq
  /\ LET s == SerialFlushRequests(mtx, "write", "write", SerialEvtCanceledOnQueue,
                                  SerialCancelCurrentWrite)
     IN  mtx' = SerialFlushRequests(s, "write", "xoff", SerialEvtCanceledOnQueue,
                                    SerialCancelCurrentXoff)

(***************************************************************************)
(* The client cancels: in the queue the framework calls                    *)
(* SerialEvtCanceledOnQueue, otherwise the cancel routine is called when   *)
(* the device lock is free.                                                *)
(***************************************************************************)
MtxCancel(r) ==
  /\ r \in mtx.arrived /\ mtx.ended[r] = 0 /\ mtx.ctx[r].mark \in {"no", "marked"}
  /\ \/ /\ \A n \in DOMAIN mtx.queue["write"] : mtx.queue["write"][n] # r
        /\ mtx' = CancelRequest(mtx, r)
     \/ /\ DeviceLockFree
        /\ \E n \in DOMAIN mtx.queue["write"] :
             /\ mtx.queue["write"][n] = r
             /\ LET q == mtx.queue["write"]
                IN  mtx' = SerialEvtCanceledOnQueue(
                             [mtx EXCEPT !.queue["write"] =
                                SubSeq(q, 1, n - 1) \o SubSeq(q, n + 1, Len(q))], r)

MtxCancelRoutine(r) ==
  /\ DeviceLockFree /\ mtx.ended[r] = 0 /\ mtx.ctx[r].mark = "called"
  /\ mtx' = CASE r = mtx.cur["imm"] -> SerialCancelImmediate(mtx)
              [] r # mtx.cur["imm"] /\ r = mtx.cur["xoff"] -> SerialCancelCurrentXoff(mtx)
              [] OTHER -> SerialCancelCurrentWrite(mtx)

MtxExpire(t) == mtx.timer[t] = {"set"} /\ mtx' = Expire(mtx, t)

MtxTimer(t) ==
  /\ DeviceLockFree /\ "due" \in mtx.timer[t]
  /\ LET s == [mtx EXCEPT !.timer[t] = @ \ {"due"}]
     IN  mtx' = CASE t = "write" -> SerialWriteTimeout(s)
                  [] t = "imm" -> SerialTimeoutImmediate(s)
                  [] t = "xoff" -> SerialTimeoutXoff(s)

MtxDpc(d) ==
  /\ DeviceLockFree /\ d \in mtx.dpc
  /\ LET s == [mtx EXCEPT !.dpc = @ \ {d}]
     IN  mtx' = CASE d = "write" -> SerialCompleteWrite(s)
                  [] d = "imm" -> SerialCompleteImmediate(s)
                  [] d = "xoff" -> SerialCompleteXoff(s)

-----------------------------------------------------------------------------
(* Flow control.                                                           *)

\* Transmission may go on and something waits for it.
Resumed(s) == s.TXHolding = {} /\ (s.TransmitImmediate \/ s.WriteLength > 0) /\ s.HoldingEmpty

\* The handshake part of SerialHandleModemUpdate.
SerialHandleModemUpdate(s, doingTX) ==
  LET t == [s EXCEPT !.TXHolding = IF s.cts THEN @ \ {"cts"} ELSE @ \cup {"cts"}]
  IN  TickleIf(t, ~doingTX /\ s.TXHolding # {} /\ Resumed(t))

SerialTurnOnBreak(s) == [s EXCEPT !.TXHolding = @ \cup {"break"}]

SerialTurnOffBreak(s) ==
  LET t == [s EXCEPT !.TXHolding = @ \ {"break"}]
  IN  TickleIf(t, "break" \in s.TXHolding /\ Resumed(t))

SerialPretendXoff(s) == [s EXCEPT !.TXHolding = @ \cup {"xoff"}]

SerialPretendXon(s) ==
  LET t == [s EXCEPT !.TXHolding = @ \ {"xoff"}]
  IN  TickleIf(t, s.TXHolding # {} /\ Resumed(t))

SerialProdXonXoff(s, char) ==
  [TickleIf(s, s.send = "none" /\ s.HoldingEmpty) EXCEPT !.send = char]

\* IOCTL_SERIAL_SET_BREAK_ON/OFF, SET_XOFF/XON, GET_MODEMSTATUS.
MtxHold ==
  /\ DeviceLockFree
  /\ \/ "break" \in mtx.load.holds \ mtx.TXHolding /\ mtx' = SerialTurnOnBreak(mtx)
     \/ "break" \in mtx.TXHolding /\ mtx' = SerialTurnOffBreak(mtx)
     \/ "xoff" \in mtx.load.holds \ mtx.TXHolding /\ mtx' = SerialPretendXoff(mtx)
     \/ "xoff" \in mtx.TXHolding /\ mtx' = SerialPretendXon(mtx)
     \/ "cts" \in mtx.load.holds /\ mtx' = SerialHandleModemUpdate(mtx, FALSE)

\* The receive side asks for an XOFF or XON character.
MtxProd ==
  /\ "xoff" \in mtx.load.holds
  /\ \E char \in {"xon", "xoff"} \ {mtx.send} : mtx' = SerialProdXonXoff(mtx, char)

\* The peer raises or drops its line.
MtxModemLine == "cts" \in mtx.load.holds /\ mtx' = [mtx EXCEPT !.cts = ~@]

-----------------------------------------------------------------------------
(* The transmit interrupt.                                                 *)

\* A single character goes out.
PutOne(s) == [s EXCEPT !.HoldingEmpty = FALSE, !.fifo = @ + 1]

SendXon(s) == [PutOne(s) EXCEPT !.send = "none", !.TXHolding = @ \ {"xoff"}]

\* SERIAL_XOFF_CONTINUE is not set.
SendXoff(s) == [PutOne(s) EXCEPT !.send = "none", !.TXHolding = @ \cup {"xoff"}]

SendImmediate(s) ==
  SerialInsertQueueDpc([PutOne(s) EXCEPT !.TransmitImmediate = FALSE], "imm")

SendWrite(s) ==
  LET r == s.cur["write"]
      n == IF MtxTxFifoAmount < s.WriteLength THEN MtxTxFifoAmount ELSE s.WriteLength
      t == [s EXCEPT !.HoldingEmpty = FALSE, !.fifo = @ + n, !.WriteLength = @ - n,
                     !.sent = IF r \in MtxWrites THEN [@ EXCEPT ![r] = @ + n] ELSE @]
  IN  IF t.WriteLength > 0 THEN t
      ELSE SerialInsertQueueDpc([ClearIer(t) EXCEPT !.ctx[r].info = Chars(r)], "write")

(***************************************************************************)
(* One turn of SerialISR for SERIAL_IIR_THR.  When transmission is held    *)
(* nothing is written and only the enable bit can bring the interrupt back.*)
(***************************************************************************)
SerialISRTransmit ==
  /\ mtx.thr
  /\ LET a == [mtx EXCEPT !.thr = FALSE, !.HoldingEmpty = TRUE]
         b == IF "cts" \in mtx.load.holds THEN SerialHandleModemUpdate(a, TRUE) ELSE a
     IN  mtx' = IF a.WriteLength = 0 /\ ~a.TransmitImmediate /\ a.send = "none" THEN ClearIer(a)
                ELSE IF b.send = "xon" /\ b.TXHolding \subseteq {"xoff"} THEN SendXon(b)
                ELSE IF b.send = "xoff" /\ b.TXHolding = {} THEN SendXoff(b)
                ELSE IF b.TransmitImmediate /\ b.TXHolding \subseteq {"xoff"} THEN SendImmediate(b)
                ELSE IF b.TXHolding = {} THEN SendWrite(b)
                ELSE b

\* The FIFO drains.
MtxDrain == mtx.fifo > 0 /\ mtx' = [mtx EXCEPT !.fifo = 0, !.thr = @ \/ mtx.ier]

(***************************************************************************)
(* A character is received (SerialProcessLSR, then SerialPutChar): it is   *)
(* counted by a running XOFF counter, and after a line error with an empty *)
(* FIFO the transmit interrupt is asked for again.                         *)
(***************************************************************************)
CountReceived(s) ==
  IF s.CountSinceXoff # 1 THEN [s EXCEPT !.CountSinceXoff = @ - 1]
  ELSE SerialInsertQueueDpc(
         [s EXCEPT !.CountSinceXoff = 0, !.ctx[s.cur["xoff"]].status = "success",
                   !.ctx[s.cur["xoff"]].info = 0], "xoff")

SerialISRReceive ==
  /\ mtx.CountSinceXoff > 0
  /\ \E error \in BOOLEAN :
       LET s == [mtx EXCEPT !.HoldingEmpty = mtx.fifo = 0]
       IN  mtx' = CountReceived(TickleIf(s, /\ error /\ s.HoldingEmpty
                                            /\ s.WriteLength > 0 \/ s.TransmitImmediate))

-----------------------------------------------------------------------------
MtxCallback ==
  \/ SerialEvtIoWriteEnable
  \/ \E r \in MtxRequests : MtxCancelRoutine(r)
  \/ \E k \in MtxKinds : MtxTimer(k) \/ MtxDpc(k)

MtxNext ==
  \/ \E w \in MtxWrites : SerialEvtIoWrite(w)
  \/ \E x \in MtxCounters : SerialXoffCounter(x)
  \/ \E i \in MtxImmediates : SerialImmediateChar(i)
  \/ \E r \in MtxRequests : MtxCancel(r)
  \/ SerialStartPurgeTx
  \/ MtxCallback
  \/ \E t \in MtxKinds : MtxExpire(t)
  \/ MtxHold
  \/ MtxProd
  \/ MtxModemLine
  \/ SerialISRTransmit
  \/ MtxDrain
  \/ SerialISRReceive

(***************************************************************************)
(* Fairness.  The FIFO drains, running timers expire, and whatever waits   *)
(* to be run is run: an interrupt, a DPC, a due timer, a cancel routine.   *)
(* Each of them takes its own mark away, so that being served again and    *)
(* again is the same as never waiting for ever.                            *)
(***************************************************************************)
MtxFairness ==
  /\ WF_mtx(MtxDrain)
  /\ []<>(mtx.rmw = "no") /\ []<>(~mtx.thr)
  /\ \A k \in MtxKinds : /\ []<>(k \notin mtx.dpc)
                         /\ []<>("set" \notin mtx.timer[k])
                         /\ []<>("due" \notin mtx.timer[k])
  /\ \A r \in MtxRequests : []<>(mtx.ctx[r].mark # "called")

-----------------------------------------------------------------------------
(***************************************************************************)
(* No ASSERT of the request machinery fails: a reference is never taken    *)
(* twice or given back by a party that does not hold it, no request is     *)
(* completed with a reference outstanding or twice, and the count of       *)
(* queued characters never goes below zero (serialp.h, utils.c, write.c).  *)
(***************************************************************************)
MtxAssertionsHold == mtx.faults = {} /\ \A r \in MtxRequests : mtx.ended[r] <= 1

(***************************************************************************)
(* Whatever the ISR is about to send or to count belongs to a request that *)
(* is still the driver's: the buffer behind WriteCurrentChar, the          *)
(* immediate character and the XOFF counter are never those of a request   *)
(* that was completed by a timeout, a cancellation or a purge.             *)
(***************************************************************************)
MtxIsrHoldsReference ==
  /\ mtx.WriteLength > 0 => "isr" \in mtx.ctx[mtx.cur["write"]].refs
  /\ mtx.TransmitImmediate => "isr" \in mtx.ctx[mtx.cur["imm"]].refs
  /\ mtx.CountSinceXoff > 0 => "isr" \in mtx.ctx[mtx.cur["xoff"]].refs
  /\ \A r \in MtxRequests : mtx.ended[r] > 0 => mtx.ctx[r].refs = {}

(***************************************************************************)
(* TotalCharsQueued, which clients read as AmountInOutQueue, is the number *)
(* of characters of the requests still to be sent, through every order of  *)
(* completion, timeout, cancellation and purge.                            *)
(***************************************************************************)
MtxCharsAccounted ==
  LET Waiting == {r \in MtxRequests : /\ r \in mtx.arrived /\ mtx.ended[r] = 0
                                      /\ r # mtx.cur["xoff"]}
  IN  mtx.TotalCharsQueued = FoldSet(LAMBDA r, n : n + Chars(r), 0, Waiting)

(***************************************************************************)
(* The transmit side implements SerialWriter: writes are sent and started  *)
(* in the order they came, whatever ends the one before, and each reports  *)
(* the characters given to the FIFO, also when its timer expires while the *)
(* ISR sends the rest (SerialGetNextWrite, SerialGrabWriteFromIsr).        *)
(***************************************************************************)
Writer == INSTANCE SerialWriter WITH
  Writes <- MtxWrites,
  Length <- MtxLength,
  line <- SelectSeq((IF mtx.cur["write"] = NoReq THEN <<>> ELSE <<mtx.cur["write"]>>)
                      \o mtx.queue["write"], LAMBDA r : r \in MtxWrites),
  sent <- mtx.sent,
  report <- [w \in MtxWrites |->
               IF mtx.ended[w] = 0 THEN [kind |-> "open", chars |-> 0]
               ELSE [kind |-> mtx.ctx[w].status, chars |-> mtx.ctx[w].info]]

MtxImplementsWriter == Writer!Spec

(***************************************************************************)
(* Every write and immediate character the driver accepts ends: by being   *)
(* sent, or, when it is held for ever, by its timeout (SerialWriteTimeout, *)
(* SerialTimeoutImmediate).                                                *)
(***************************************************************************)
MtxAllEnded ==
  \A r \in mtx.arrived \cap (MtxWrites \cup MtxImmediates) : mtx.ended[r] > 0

MtxRequestsEnd == []<>MtxAllEnded
=============================================================================
