----------------------------- MODULE MiniUartRx -----------------------------
(***************************************************************************)
(* The receive side of the mini UART driver: the interrupt buffer and the  *)
(* switch of the ISR to the buffer of a waiting read (read.c, SerialPutChar*)
(* in isr.c), the two read timers, resizing of the buffer, receive flow    *)
(* control (modmflow.c) and the purges (purge.c, error.c).                 *)
(*                                                                         *)
(* The received characters are 1, 2, 3, ... so that their order shows.     *)
(* SerialStartRead runs with the device lock held but copies from the      *)
(* interrupt buffer without locking out the ISR; op says how far it is:    *)
(*   "get"    about to copy what is in the interrupt buffer                *)
(*   "switch" copied; about to switch with the ISR locked out              *)
(*   "arm"    the ISR has the user buffer; cancel routine and timers to set*)
(*   "move", "tonew"  the same for SerialResizeBuffer                      *)
(***************************************************************************)
EXTENDS MiniUartRequest, FiniteSetsExt

CONSTANTS
  MrxLength,     \* read request -> its length
  MrxSizes,      \* IOCTL_SERIAL_SET_QUEUE_SIZE request -> the size asked for
  MrxBufferSize, \* size of the first interrupt buffer
  MrxXonLimit, MrxXoffLimit,
  MrxChars,      \* how many characters arrive (bound)
  MrxLoads       \* loads: [requests, total, int, present, os2, crunch, abort, lines]

MrxReads == DOMAIN MrxLength
MrxRequests == MrxReads \cup DOMAIN MrxSizes

ASSUME MrxAssumption ==
  /\ MrxBufferSize \in Nat \ {0} /\ MrxChars \in Nat
  \* BufferSize >> 1 and BufferSize >> 3 when the port is opened
  /\ MrxXonLimit \in Nat /\ MrxXoffLimit \in Nat /\ MrxXonLimit + MrxXoffLimit < MrxBufferSize
  /\ \A r \in MrxReads : MrxLength[r] \in Nat \ {0}
  /\ \A r \in DOMAIN MrxSizes : MrxSizes[r] \in Nat
  /\ NoReq \notin MrxRequests
  /\ \A load \in MrxLoads :
       load.requests \subseteq MrxRequests /\ load.lines \subseteq {"dtr", "rts", "xoff"}

VARIABLE mrx

MrxInit == \E load \in MrxLoads :
  mrx = [load |-> load,
         ctx |-> [r \in MrxRequests |-> NewContext],
         cur |-> [k \in {"read"} |-> NoReq],
         queue |-> [k \in {"read"} |-> <<>>],
         timer |-> [k \in {"total", "int"} |-> {}],
         ended |-> [r \in MrxRequests |-> 0],
         faults |-> {}, arrived |-> {}, dpc |-> {},
         op |-> "none",
         copied |-> 0,        \* SERIAL_UPDATE_CHAR.CharsCopied, SERIAL_RESIZE_PARAMS.NumberMoved
         newbuf |-> <<>>,     \* the larger buffer while it is filled
         ring |-> [n \in 0 .. MrxBufferSize - 1 |-> 0],
         BufferSize |-> MrxBufferSize,
         first |-> 0,         \* FirstReadableChar
         slot |-> 0,          \* CurrentCharSlot within the interrupt buffer
         count |-> 0,         \* CharsInInterruptBuffer
         base |-> "int",      \* ReadBufferBase: "int" or "user"
         len |-> [r \in MrxReads |-> MrxLength[r]],
         buf |-> [r \in MrxReads |-> <<>>],
         need |-> 0,          \* NumberNeededForRead
         CountOnLastRead |-> "zero", ReadByIsr |-> FALSE,
         XonLimit |-> MrxXonLimit, XoffLimit |-> MrxXoffLimit,
         lines |-> load.lines, RXHolding |-> {},
         send |-> "none",     \* SendXonChar, SendXoffChar
         ErrorWord |-> FALSE,
         received |-> 0, lost |-> {}]

Cur(s) == s.cur["read"]
ReadTimers == [total |-> "total", int |-> "int"]

-----------------------------------------------------------------------------
(* Flow control.                                                           *)

\* Mutant: the sender stays held.
HandleReducedNever(s) == s

\* The lines are raised again; an XON is requested, and RXHolding keeps "xoff"
\* until the ISR has sent it.
SerialHandleReducedIntBuffer(s) ==
  IF s.count > s.XonLimit THEN s
  ELSE [s EXCEPT !.RXHolding = @ \ {"dtr", "rts"},
                 !.send = IF "xoff" \in s.RXHolding THEN "xon" ELSE @]

\* The part of SerialPutChar that stops the sender.
StopSender(s) ==
  IF s.BufferSize - s.XoffLimit > s.count + 1 THEN s
  ELSE [s EXCEPT !.RXHolding = @ \cup s.lines,
                 !.send = IF "xoff" \in s.lines \ s.RXHolding THEN "xoff" ELSE @]

\* IOCTL_SERIAL_SET_HANDFLOW: a line is put under handshake or taken from it.
SerialSetupNewHandFlow(s, line) ==
  LET full == s.BufferSize - s.XoffLimit <= s.count
  IN  IF line \in s.lines
      THEN [s EXCEPT !.lines = @ \ {line}, !.RXHolding = @ \ {line},
                     !.send = IF line = "xoff" /\ line \in s.RXHolding THEN "xon" ELSE @]
      ELSE [s EXCEPT !.lines = @ \cup {line},
                     !.RXHolding = IF full THEN @ \cup {line} ELSE @,
                     !.send = IF full /\ line = "xoff" THEN "xoff" ELSE @]

\* The ISR sends the requested character (the transmit branch of SerialISR).
MrxSendXonXoff ==
  /\ mrx.send # "none"
  /\ mrx' = [mrx EXCEPT !.send = "none",
                        !.RXHolding = IF mrx.send = "xon" THEN @ \ {"xoff"} ELSE @]

-----------------------------------------------------------------------------
(* The interrupt buffer.                                                   *)

\* Back to an empty interrupt buffer.
ToInterruptBuffer(s) == [s EXCEPT !.base = "int", !.slot = 0, !.first = 0, !.count = 0]

\* n characters of the interrupt buffer, from FirstReadableChar on.
Readable(s, n) == [i \in 1 .. n |-> s.ring[(s.first + i - 1) % s.BufferSize]]

\* Mutant: FirstReadableChar does not wrap when the copy ends at LastCharSlot.
GetCharsNoWrap(s) ==
  LET r == Cur(s)
      n == IF s.count > s.need THEN s.need ELSE s.count
  IN  [s EXCEPT !.buf[r] = @ \o Readable(s, n), !.need = @ - n, !.copied = n,
                !.first = IF @ + n > s.BufferSize THEN (@ + n) % s.BufferSize
                          ELSE IF @ + n = s.BufferSize THEN @ ELSE @ + n,
                !.ctx[r].info = @ + n]

SerialGetCharsFromIntBuffer(s) ==
  LET r == Cur(s)
      n == IF s.count > s.need THEN s.need ELSE s.count
  IN  [s EXCEPT !.buf[r] = @ \o Readable(s, n), !.need = @ - n, !.copied = n,
                !.first = (@ + n) % s.BufferSize,
                !.ctx[r].info = @ + n]

SerialUpdateInterruptBuffer(s) ==
  LET t == IF s.count >= s.copied THEN s ELSE Fault(s, "CharsInInterruptBuffer")
  IN  SerialHandleReducedIntBuffer([t EXCEPT !.count = @ - s.copied, !.copied = 0])

(***************************************************************************)
(* What arrived since the copy is copied too; if the read still needs      *)
(* characters the ISR gets its buffer.                                     *)
(***************************************************************************)
SerialUpdateAndSwitchToUser(s) ==
  LET r == Cur(s)
      a == SerialUpdateInterruptBuffer(SerialGetCharsFromIntBuffer(SerialUpdateInterruptBuffer(s)))
      b == IF a.count = 0 THEN a ELSE Fault(a, "CharsInInterruptBuffer left")
  IN  IF a.need = 0 THEN a
      ELSE SERIAL_SET_REFERENCE(
             [b EXCEPT !.CountOnLastRead = IF b.ctx[r].info = 0 THEN "zero" ELSE "some",
                       !.ReadByIsr = FALSE, !.base = "user"], r, "isr")

\* Mutant: the ISR goes on writing into the buffer of the ended read.
GrabReadKeepsBase(s) ==
  IF s.base = "int" THEN s
  ELSE SERIAL_CLEAR_REFERENCE(
         [s EXCEPT !.ctx[Cur(s)].info = Len(s.buf[Cur(s)])], Cur(s), "isr")

SerialGrabReadFromIsr(s) ==
  IF s.base = "int" THEN s
  ELSE SERIAL_CLEAR_REFERENCE(
         [ToInterruptBuffer(s) EXCEPT !.ctx[Cur(s)].info = Len(s.buf[Cur(s)])], Cur(s), "isr")

SerialMoveToNewIntBuffer(s) ==
  [s EXCEPT !.newbuf = @ \o Readable(s, s.count), !.first = (@ + s.count) % s.BufferSize]

SerialUpdateAndSwitchToNew(s, size) ==
  LET rest == [s EXCEPT !.count = @ - s.copied]
      chars == IF rest.count = 0 THEN s.newbuf ELSE SerialMoveToNewIntBuffer(rest).newbuf
      t == IF s.count >= s.copied THEN s ELSE Fault(s, "NumberMoved")
  IN  SerialHandleReducedIntBuffer(
        [t EXCEPT !.ring = [n \in 0 .. size - 1 |-> IF n < Len(chars) THEN chars[n + 1] ELSE 0],
                  !.BufferSize = size, !.first = 0, !.slot = s.count % size,
                  !.XoffLimit = size \div 8, !.XonLimit = size \div 2,
                  !.newbuf = <<>>, !.copied = 0])

-----------------------------------------------------------------------------
(* Reads.                                                                  *)

\* SerialStartRead is entered or turns its loop: the request is looked at.
SerialStartRead(s) ==
  LET r == Cur(s)
  IN  IF r \notin MrxReads THEN [s EXCEPT !.op = "move"]
      ELSE [SerialCancelTimer(SerialCancelTimer(s, "total"), "int")
             EXCEPT !.op = "get", !.need = s.len[r]]

\* SerialGetNextRequest followed by the starter.
NextRead(s) ==
  LET t == SerialGetNextRequest([s EXCEPT !.op = "none"], "read", TRUE)
  IN  IF Cur(t) = NoReq THEN t ELSE SerialStartRead(t)

Succeed(s) == NextRead([s EXCEPT !.ctx[Cur(s)].status = "success"])

TryToCompleteRead(s, status, caller) ==
  LET t == SerialTryToCompleteCurrent(s, "read", status, ReadTimers, caller)
  IN  IF Finished(t, "read") THEN NextRead(t) ELSE t

SerialCompleteRead(s) ==
  TryToCompleteRead([s EXCEPT !.CountOnLastRead = "complete"], "success", "isr")

SerialCancelCurrentRead(s) ==
  TryToCompleteRead(SerialGrabReadFromIsr([s EXCEPT !.CountOnLastRead = "cancel"]),
                    "cancelled", "cancel")

\* Mutant: the interval timer is not told that the total timer ended the read.
ReadTimeoutSilent(s) == TryToCompleteRead(SerialGrabReadFromIsr(s), "timeout", "total")

SerialReadTimeout(s) ==
  TryToCompleteRead(SerialGrabReadFromIsr([s EXCEPT !.CountOnLastRead = "total"]),
                    "timeout", "total")

SerialUpdateReadByIsr(s) == [s EXCEPT !.CountOnLastRead = "some", !.ReadByIsr = FALSE]

\* elapsed: has the interval passed since LastReadTime?
SerialIntervalReadTimeout(s, elapsed) ==
  LET End(status) == TryToCompleteRead(SerialGrabReadFromIsr(s), status, "int")
  IN  CASE s.CountOnLastRead = "total" -> End("timeout")
        [] s.CountOnLastRead = "complete" -> End("success")
        [] s.CountOnLastRead = "cancel" -> End("cancelled")
        [] s.CountOnLastRead \in {"zero", "some"} /\ s.ReadByIsr ->
             SerialSetTimer(SerialUpdateReadByIsr(s), "int")
        [] s.CountOnLastRead = "some" /\ ~s.ReadByIsr /\ elapsed -> End("timeout")
        [] OTHER -> SerialSetTimer(s, "int")

-----------------------------------------------------------------------------
MrxLockFree == mrx.op = "none"

\* SerialCompleteIfError: nothing but a status query is served after an error.
Refused(s) == s.load.abort /\ s.ErrorWord

SerialEvtIoRead(r) ==
  /\ MrxLockFree /\ r \in mrx.load.requests \ mrx.arrived
  /\ LET s == [mrx EXCEPT !.arrived = @ \cup {r}]
         t == SerialStartOrQueue(s, r, "read")
     IN  mrx' = IF Refused(s) THEN SerialCompleteRequest(s, r, "cancelled", 0)
                ELSE IF r \notin MrxReads /\ MrxSizes[r] <= s.BufferSize
                THEN SerialCompleteRequest(s, r, "success", 0)
                ELSE IF Cur(t) = r THEN SerialStartRead(t) ELSE t

StartReadGet ==
  /\ mrx.op = "get"
  /\ LET s == SerialGetCharsFromIntBuffer(mrx)
     IN  mrx' = [s EXCEPT !.op = "switch"]

StartReadSwitch ==
  /\ mrx.op = "switch"
  /\ LET load == mrx.load
         r == Cur(mrx)
         s == IF load.crunch
              THEN [IF mrx.ctx[r].info = 0 THEN mrx ELSE Fault(mrx, "crunchDownToOne")
                     EXCEPT !.need = 1, !.len[r] = 1]
              ELSE mrx
         t == SerialUpdateAndSwitchToUser([s EXCEPT !.ctx[r].refs = {}])
     IN  mrx' = IF load.present \/ mrx.need = 0 \/ (load.os2 /\ mrx.ctx[r].info > 0)
                THEN Succeed(SerialUpdateInterruptBuffer(mrx))
                ELSE IF t.base = "user" THEN [t EXCEPT !.op = "arm"]
                ELSE Succeed(t)

StartReadArm ==
  /\ mrx.op = "arm"
  /\ LET r == Cur(mrx)
         a == SerialSetCancelRoutine(mrx, r)
         b == IF mrx.load.total THEN StartTimer(a, r, "total", "total") ELSE a
         c == IF mrx.load.int THEN StartTimer(b, r, "int", "int") ELSE b
     IN  mrx' = [c EXCEPT !.op = "none"]

\* The move of SerialResizeBuffer, or nothing when the buffer is large enough.
ResizeMove ==
  /\ mrx.op = "move"
  /\ LET s == SerialMoveToNewIntBuffer(mrx)
     IN  mrx' = IF MrxSizes[Cur(mrx)] <= mrx.BufferSize THEN Succeed(mrx)
                ELSE [s EXCEPT !.copied = mrx.count, !.op = "tonew"]

ResizeSwitch ==
  /\ mrx.op = "tonew"
  /\ mrx' = Succeed(SerialUpdateAndSwitchToNew(mrx, MrxSizes[Cur(mrx)]))

DropRead(s, r) == SerialCompleteRequest(s, r, "cancelled", 0)

FlushReads(s) ==
  SerialFlushRequests(s, "read", "read", DropRead, SerialCancelCurrentRead)

SerialPurgeInterruptBuff(s) ==
  IF s.base = "int"
  THEN [SerialHandleReducedIntBuffer(ToInterruptBuffer(s))
         EXCEPT !.lost = @ \cup {Readable(s, s.count)[i] : i \in 1 .. s.count}]
  ELSE s

\* SERIAL_PURGE_RXABORT and SERIAL_PURGE_RXCLEAR.
SerialStartPurgeRx ==
  /\ MrxLockFree
  /\ \/ Cur(mrx) # NoReq /\ mrx' = FlushReads(mrx)
     \/ mrx.count > 0 /\ mrx' = SerialPurgeInterruptBuff(mrx)

SerialCommError ==
  /\ MrxLockFree /\ "error" \in mrx.dpc
  /\ mrx' = FlushReads([mrx EXCEPT !.dpc = @ \ {"error"}])

\* IOCTL_SERIAL_GET_COMMSTATUS
MrxGetCommStatus == MrxLockFree /\ mrx.ErrorWord /\ mrx' = [mrx EXCEPT !.ErrorWord = FALSE]

MrxHandFlow ==
  /\ MrxLockFree /\ mrx.load.lines # {}
  /\ \E line \in {"dtr", "rts", "xoff"} : mrx' = SerialSetupNewHandFlow(mrx, line)

MrxCancel(r) ==
  /\ r \in mrx.arrived /\ mrx.ended[r] = 0 /\ mrx.ctx[r].mark \in {"no", "marked"}
  /\ \/ r = Cur(mrx) /\ mrx' = CancelRequest(mrx, r)
     \/ /\ MrxLockFree
        /\ \E n \in DOMAIN mrx.queue["read"] :
             /\ mrx.queue["read"][n] = r
             /\ LET q == mrx.queue["read"]
                IN  mrx' = DropRead([mrx EXCEPT !.queue["read"] =
                                       SubSeq(q, 1, n - 1) \o SubSeq(q, n + 1, Len(q))], r)

MrxCancelRoutine(r) ==
  /\ MrxLockFree /\ mrx.ended[r] = 0 /\ mrx.ctx[r].mark = "called"
  /\ mrx' = SerialCancelCurrentRead(mrx)

MrxExpire(t) == mrx.timer[t] = {"set"} /\ mrx' = Expire(mrx, t)

MrxTimer(t) ==
  /\ MrxLockFree /\ "due" \in mrx.timer[t]
  /\ LET s == [mrx EXCEPT !.timer[t] = @ \ {"due"}]
     IN  \/ t = "total" /\ mrx' = SerialReadTimeout(s)
         \/ t = "int" /\ \E e \in BOOLEAN : mrx' = SerialIntervalReadTimeout(s, e)

MrxReadDpc ==
  /\ MrxLockFree /\ "read" \in mrx.dpc
  /\ mrx' = SerialCompleteRead([mrx EXCEPT !.dpc = @ \ {"read"}])

-----------------------------------------------------------------------------
(* The receive interrupt.                                                  *)

PutInUserBuffer(s, char) ==
  LET r == Cur(s)
      t == [s EXCEPT !.ReadByIsr = TRUE, !.buf[r] = Append(@, char)]
  IN  IF Len(t.buf[r]) < t.len[r] THEN t
      ELSE [ToInterruptBuffer(t) EXCEPT !.ctx[r].info = t.len[r], !.dpc = @ \cup {"read"}]

PutInInterruptBuffer(s, char) ==
  LET t == StopSender(s)
  IN  IF t.count < t.BufferSize
      THEN [t EXCEPT !.ring[t.slot] = char, !.count = @ + 1, !.slot = (@ + 1) % t.BufferSize]
      ELSE [t EXCEPT !.ErrorWord = TRUE, !.lost = @ \cup {char},
                     !.dpc = IF t.load.abort THEN @ \cup {"error"} ELSE @]

SerialPutChar ==
  /\ mrx.received < MrxChars
  /\ LET s == [mrx EXCEPT !.received = @ + 1]
     IN  mrx' = IF s.base = "user" THEN PutInUserBuffer(s, s.received)
                ELSE PutInInterruptBuffer(s, s.received)

-----------------------------------------------------------------------------
MrxNext ==
  \/ \E r \in MrxRequests : SerialEvtIoRead(r) \/ MrxCancel(r) \/ MrxCancelRoutine(r)
  \/ StartReadGet
  \/ StartReadSwitch
  \/ StartReadArm
  \/ ResizeMove
  \/ ResizeSwitch
  \/ SerialStartPurgeRx
  \/ SerialCommError
  \/ MrxGetCommStatus
  \/ MrxHandFlow
  \/ \E t \in {"total", "int"} : MrxExpire(t) \/ MrxTimer(t)
  \/ MrxReadDpc
  \/ MrxSendXonXoff
  \/ SerialPutChar

\* Fairness, as in MiniUartTx: timers expire and what waits to be run is run.
MrxFairness ==
  /\ []<>(mrx.op = "none")
  /\ \A d \in {"read", "error"} : []<>(d \notin mrx.dpc)
  /\ \A t \in {"total", "int"} : []<>("due" \notin mrx.timer[t])
  /\ []<>("set" \notin mrx.timer["total"])
  /\ \A r \in MrxRequests : []<>(mrx.ctx[r].mark # "called")

-----------------------------------------------------------------------------
(***************************************************************************)
(* No ASSERT of the receive path fails (references, counts, a switch to    *)
(* the user buffer with characters left behind) and no read is completed   *)
(* twice.                                                                  *)
(***************************************************************************)
MrxAssertionsHold == mrx.faults = {} /\ \A r \in MrxRequests : mrx.ended[r] <= 1

(***************************************************************************)
(* While the ISR writes into the buffer of a read, that read is the        *)
(* current one, the ISR holds a reference and there is room: the buffer of *)
(* a completed read is never written.                                      *)
(***************************************************************************)
MrxIsrHoldsReference ==
  mrx.base = "user" =>
    /\ Cur(mrx) \in MrxReads /\ mrx.ended[Cur(mrx)] = 0
    /\ "isr" \in mrx.ctx[Cur(mrx)].refs
    /\ Len(mrx.buf[Cur(mrx)]) < mrx.len[Cur(mrx)]

(***************************************************************************)
(* Every received character is in one place and in order: those given to   *)
(* reads come before those of the current read, which come before those of *)
(* the interrupt buffer; a character is missing only if the buffer was     *)
(* full, was purged, or its read was cancelled.                            *)
(***************************************************************************)
MrxCharsInOrder ==
  LET Chars(r) == {mrx.buf[r][i] : i \in 1 .. (IF mrx.ended[r] = 0 THEN Len(mrx.buf[r])
                                               ELSE mrx.ctx[r].info)}
      all == UNION {Chars(r) : r \in MrxReads}
      wasted == UNION {{mrx.buf[r][i] : i \in DOMAIN mrx.buf[r]} :
                         r \in {q \in MrxReads : mrx.ended[q] > 0 /\ mrx.ctx[q].status = "cancelled"}}
      left == mrx.count - mrx.copied
      ring == {Readable(mrx, left)[i] : i \in 1 .. left}
  IN  \* outside the copy of SerialResizeBuffer
      mrx.op # "tonew" =>
        /\ all \cup ring \cup mrx.lost \cup wasted = 1 .. mrx.received
        /\ all \cap ring = {} /\ \A a \in all, b \in ring : a < b
        /\ \A r \in MrxReads : \A i, j \in DOMAIN mrx.buf[r] : i < j => mrx.buf[r][i] < mrx.buf[r][j]
        /\ \A q, r \in MrxReads : q # r => Chars(q) \cap Chars(r) = {}
        /\ \A i, j \in 1 .. left : i < j => Readable(mrx, left)[i] < Readable(mrx, left)[j]

(***************************************************************************)
(* A sender that was stopped by flow control is released again: while the  *)
(* interrupt buffer is at or below XonLimit its line is up or an XON is on *)
(* the way (SerialHandleReducedIntBuffer after every copy, purge, resize). *)
(***************************************************************************)
MrxHoldReleased ==
  mrx.count <= mrx.XonLimit =>
    /\ mrx.RXHolding \subseteq {"xoff"}
    /\ "xoff" \in mrx.RXHolding => mrx.send = "xon"

\* With a total timeout every read ends, whatever arrives and in whatever order
\* its timers, its DPC and its cancellation run.
MrxAllEnded ==
  mrx.load.total => \A r \in mrx.arrived \cap MrxReads : mrx.ended[r] > 0

MrxReadsEnd == []<>MrxAllEnded
=============================================================================
