------------------------------- MODULE BcmI2c -------------------------------
(***************************************************************************)
(* The I2C controller driver: a request is started by its SpbCx callback   *)
(* (OnRead, OnWrite, OnSequence), moved on by the interrupt handler and    *)
(* completed by the DPC, unless OnRequestCancel completes it first.        *)
(*                                                                         *)
(* SpbCx hands over one request at a time, so the request needs no name:   *)
(* the next one starts when the current one is completed.  Bytes are       *)
(* counted and the boundaries between the MDLs of a sequence are left out. *)
(* CancelLock and the lock of the interrupt make most of their critical    *)
(* sections one step; the two sections in which other actors act (the      *)
(* one-byte write of a sequence, the copy loops of the interrupt handler)  *)
(* are several.                                                            *)
(***************************************************************************)
EXTENDS Naturals

CONSTANTS
  Lengths,  \* lengths of a transfer, in bytes
  Fifo      \* bytes the data FIFO holds

ASSUME I2cAssumption ==
  /\ Lengths \subseteq Nat \ {0}
  /\ Fifo \in Nat \ {0}

VARIABLES
  (* the controller *)
  hw,         \* the transfer on the bus and the Status register
  en,         \* interrupt enables in the Control register
  (* the interrupt context *)
  spb,        \* SpbRequest # WDF_NO_HANDLE
  state,      \* State without ERROR_FLAG
  errFlag,    \* ERROR_FLAG of State
  capStatus,  \* CapturedStatus: the bits ProcessRequestCompletion looks at
  capLen,     \* CapturedDataLength
  xfer,       \* WriteContext, ReadContext or SequenceContext
  (* the actors *)
  disp,       \* where the callback that starts the request is
  isr,        \* the state a copy loop of HandleInterrupt runs for, or "idle"
  dpc,        \* OnInterruptDpc is queued
  claimed,    \* OnInterruptDpc owns the request it will complete
  (* the framework's view of the request, and history *)
  active,     \* a request was handed over and not completed
  mark,       \* its cancelability
  twice,      \* something was completed that was not active (history)
  overtaken   \* a request ended under HandleInterrupt or its DPC (history)

hwVars == <<hw, en>>
ctxVars == <<spb, state, errFlag, capStatus, capLen, xfer>>
frameVars == <<active, mark, twice, overtaken>>
vars == <<hwVars, ctxVars, disp, isr, dpc, claimed, frameVars>>

Sending == {"SENDING", "SENDING_WAIT_FOR_DONE"}
Receiving == {"RECEIVING", "RECEIVING_WAIT_FOR_DONE"}
ReceivingSequence == {"RECEIVING_SEQUENCE", "RECEIVING_SEQUENCE_WAIT_FOR_DONE"}
Copying == {"SENDING", "RECEIVING", "SENDING_SEQUENCE", "RECEIVING_SEQUENCE"}
WaitForDone == {"SENDING_WAIT_FOR_DONE", "RECEIVING_WAIT_FOR_DONE",
                "RECEIVING_SEQUENCE_WAIT_FOR_DONE"}
States == Copying \cup WaitForDone \cup {"INVALID"}
Counts == Lengths \cup {0}
UpTo(S) == UNION {0..n : n \in S}

TypeOK ==
  /\ hw \in [phase : {"idle", "start", "active"}, rd : BOOLEAN,
             left : UpTo(Lengths), pend : Counts, fifo : 0..Fifo,
             ta : BOOLEAN, done : BOOLEAN, err : BOOLEAN, clkt : BOOLEAN,
             halt : BOOLEAN, acked : UpTo(Lengths)]
  /\ en \subseteq {"INTR", "INTT", "INTD"}
  /\ spb \in BOOLEAN /\ errFlag \in BOOLEAN
  /\ state \in States
  /\ capStatus \subseteq {"CLKT", "ERR", "DONE"}
  /\ capLen \in UpTo(Lengths)
  /\ xfer \in [kind : {"none", "read", "write", "sequence"}, toWrite : Counts,
               toRead : Counts, w : UpTo(Lengths), r : UpTo(Lengths)]
  /\ xfer.w <= xfer.toWrite /\ xfer.r <= xfer.toRead
  /\ disp \in {"idle", "read", "fill", "mark", "sequence", "active",
               "seqMark", "fail", "failHw", "failComplete"}
  /\ isr \in Copying \cup {"idle"}
  /\ dpc \in BOOLEAN /\ claimed \in BOOLEAN
  /\ active \in BOOLEAN
  /\ mark \in {"unmarked", "marked", "cancelled", "callback"}
  /\ twice \in BOOLEAN /\ overtaken \in BOOLEAN

-----------------------------------------------------------------------------
(* The controller. *)

Idle == [phase |-> "idle", rd |-> FALSE, left |-> 0, pend |-> 0, fifo |-> 0,
         ta |-> FALSE, done |-> FALSE, err |-> FALSE, clkt |-> FALSE,
         halt |-> FALSE, acked |-> 0]

\* InitializeTransfer and the write of ST: FIFO and Status are cleared, the
\* Control register has no interrupt enabled.
Started(read, n) ==
  [Idle EXCEPT !.phase = "start", !.rd = read, !.left = n]
Start(read, n) == hw' = Started(read, n) /\ en' = {}

TXD == hw.fifo < Fifo
TXW == hw.phase = "active" /\ ~hw.rd /\ hw.ta /\ hw.fifo = 0 /\ hw.left > 0
RXD == hw.rd /\ hw.fifo > 0
RXR == hw.rd /\ hw.ta /\ hw.fifo = Fifo
\* The DataLength register: the read, once it is programmed.
DataLength == IF hw.pend # 0 THEN hw.pend ELSE hw.left
\* The level of the interrupt line.
Line == \/ "INTR" \in en /\ RXR
        \/ "INTT" \in en /\ TXW
        \/ "INTD" \in en /\ hw.done
Ack(h) == [h EXCEPT !.err = FALSE, !.clkt = FALSE, !.done = FALSE]

Running == hw.phase = "active" /\ hw.ta /\ ~hw.halt

HwActivate ==
  /\ hw.phase = "start"
  /\ hw' = [hw EXCEPT !.phase = "active", !.ta = TRUE]

HwSend ==
  /\ Running /\ ~hw.rd /\ hw.fifo > 0 /\ hw.left > 0
  /\ LET last == hw.left = 1 /\ hw.pend = 0
     IN  hw' = [hw EXCEPT !.fifo = @ - 1, !.left = @ - 1, !.acked = @ + 1,
                          !.ta = ~last, !.done = last]

\* The repeated start between the two parts of a sequence.
HwRestart ==
  /\ Running /\ ~hw.rd /\ hw.left = 0 /\ hw.pend # 0
  /\ hw' = [hw EXCEPT !.rd = TRUE, !.left = hw.pend, !.pend = 0]

HwReceive ==
  /\ Running /\ hw.rd /\ hw.left > 0 /\ hw.fifo < Fifo
  /\ hw' = [hw EXCEPT !.fifo = @ + 1, !.left = @ - 1,
                      !.ta = hw.left # 1, !.done = hw.left = 1]

\* An address or a byte is not acknowledged; the refused byte counts as sent.
HwNack ==
  \E done \in BOOLEAN :
    \/ /\ \/ hw.phase = "start"
          \/ Running /\ ~hw.rd /\ hw.left = 0 /\ hw.pend # 0
       /\ hw' = [hw EXCEPT !.phase = "active", !.ta = TRUE, !.err = TRUE,
                           !.halt = TRUE, !.done = done]
    \/ /\ Running /\ ~hw.rd /\ hw.fifo > 0 /\ hw.left > 0
       /\ hw' = [hw EXCEPT !.fifo = @ - 1, !.left = @ - 1, !.err = TRUE,
                           !.halt = TRUE, !.done = done]

\* The slave stretches the clock for too long.
HwTimeout ==
  \E done \in BOOLEAN :
    /\ hw.phase = "start" \/ Running
    /\ hw' = [hw EXCEPT !.err = TRUE, !.clkt = TRUE, !.halt = TRUE,
                        !.phase = "active", !.ta = TRUE, !.done = done]

\* After an error the transfer ends some time later.
HwStop ==
  /\ hw.halt /\ hw.ta
  /\ hw' = [hw EXCEPT !.ta = FALSE, !.done = TRUE]

Hardware ==
  /\ \/ HwActivate \/ HwSend \/ HwRestart \/ HwReceive
     \/ HwNack \/ HwTimeout \/ HwStop
  /\ UNCHANGED <<en, ctxVars, disp, isr, dpc, claimed, frameVars>>

-----------------------------------------------------------------------------
(* The framework. *)

\* SpbRequestComplete.  If the handler or its DPC is still at work for the
\* request, it is overtaken and may meet the next one.
Complete ==
  /\ active' = FALSE
  /\ mark' = "unmarked"
  /\ twice' = (twice \/ ~active)
  /\ overtaken' = (overtaken \/ dpc' \/ isr # "idle")

\* The client cancels: the callback runs if the request is cancelable.
ClientCancels ==
  /\ active /\ ~claimed
  /\ \/ mark = "unmarked" /\ mark' = "cancelled"
     \/ mark = "marked" /\ mark' = "callback"
  /\ UNCHANGED <<hwVars, ctxVars, disp, isr, dpc, claimed,
                 active, twice, overtaken>>

\* WdfRequestMarkCancelableEx succeeds.
Markable == active /\ mark = "unmarked"

\* ResetHardwareAndRequestContext: the context, then the controller.
ResetContext == state' = "INVALID" /\ errFlag' = FALSE /\ spb' = FALSE
ResetHardware == hw' = Idle /\ en' = {}

-----------------------------------------------------------------------------
(* The callbacks that start a request. *)

Hand ==
  /\ disp = "idle" /\ ~active
  /\ active' = TRUE
  /\ UNCHANGED <<isr, dpc, claimed, mark, twice, overtaken>>

Transfer(kind, w, r) ==
  [kind |-> kind, toWrite |-> w, toRead |-> r, w |-> 0, r |-> 0]

OnRead ==
  /\ Hand
  /\ \E n \in Lengths :
       /\ Start(TRUE, n)
       /\ xfer' = Transfer("read", 0, n)
  /\ disp' = "read"
  /\ UNCHANGED <<spb, state, errFlag, capStatus, capLen>>

OnWrite ==
  /\ Hand
  /\ \E n \in Lengths :
       /\ Start(FALSE, n)
       /\ xfer' = Transfer("write", n, 0)
  /\ disp' = "fill"
  /\ UNCHANGED <<spb, state, errFlag, capStatus, capLen>>

SetContext(s) ==
  /\ spb' = TRUE
  /\ state' = s
  /\ errFlag' = FALSE
  /\ capStatus' = {}
  /\ capLen' = 0

ReadContext ==
  /\ disp = "read"
  /\ SetContext("RECEIVING")
  /\ disp' = "mark"
  /\ UNCHANGED <<hwVars, xfer, isr, dpc, claimed, frameVars>>

\* WriteFifo: the initial fill, then WriteContext.
FillByte ==
  /\ disp = "fill" /\ xfer.w < xfer.toWrite /\ TXD
  /\ hw' = [hw EXCEPT !.fifo = @ + 1]
  /\ xfer' = [xfer EXCEPT !.w = @ + 1]
  /\ UNCHANGED <<en, spb, state, errFlag, capStatus, capLen, disp, isr, dpc,
                 claimed, frameVars>>

WriteContext ==
  /\ disp = "fill" /\ (xfer.w = xfer.toWrite \/ ~TXD)
  /\ SetContext(IF xfer.w = xfer.toWrite THEN "SENDING_WAIT_FOR_DONE"
                                         ELSE "SENDING")
  /\ disp' = "mark"
  /\ UNCHANGED <<hwVars, xfer, isr, dpc, claimed, frameVars>>

\* OnSequence sets the context up before it touches the controller.
OnSequence ==
  /\ Hand
  /\ \E n, m \in Lengths : xfer' = Transfer("sequence", n, m)
  /\ SetContext("SENDING_SEQUENCE")
  /\ disp' = "sequence"
  /\ UNCHANGED hwVars

\* The start of the write; its first byte unless that is also the last.
StartSequenceWrite ==
  /\ disp = "sequence"
  /\ IF xfer.toWrite = 1
       THEN /\ Start(FALSE, 1)
            /\ disp' = "active"
            /\ UNCHANGED xfer
       ELSE /\ hw' = [Started(FALSE, xfer.toWrite) EXCEPT !.fifo = 1]
            /\ en' = {}
            /\ xfer' = [xfer EXCEPT !.w = 1]
            /\ disp' = "mark"
  /\ UNCHANGED <<spb, state, errFlag, capStatus, capLen, isr, dpc, claimed,
                 frameVars>>

\* "active" and "seqMark" are inside CancelLock, a loop of HandleInterrupt is
\* inside the lock of the interrupt.
CancelLockFree == disp \notin {"active", "seqMark"}
InterruptLockFree == isr = "idle"

ProgramRead(h) == [h EXCEPT !.pend = xfer.toRead, !.fifo = @ + 1]

\* A one-byte write: the transfer is active, the read is programmed with its
\* interrupts enabled before the request is cancelable.
SequenceActive ==
  /\ disp = "active" /\ hw.ta /\ InterruptLockFree
  /\ hw' = ProgramRead(hw)
  /\ en' = {"INTR", "INTD"}
  /\ xfer' = [xfer EXCEPT !.w = 1]
  /\ state' = "RECEIVING_SEQUENCE"
  /\ disp' = "seqMark"
  /\ UNCHANGED <<spb, errFlag, capStatus, capLen, isr, dpc, claimed, frameVars>>

\* WaitForTransferActive gives up.
SequenceInactive ==
  /\ disp = "active" /\ ~hw.ta
  /\ disp' = "fail"
  /\ UNCHANGED <<hwVars, ctxVars, isr, dpc, claimed, frameVars>>

SequenceMark ==
  /\ disp = "seqMark"
  /\ IF Markable THEN disp' = "idle" /\ mark' = "marked"
                 ELSE disp' = "fail" /\ UNCHANGED mark
  /\ UNCHANGED <<hwVars, ctxVars, isr, dpc, claimed, active, twice, overtaken>>

MarkRequestCancelable ==
  /\ disp = "mark"
  /\ IF Markable
       THEN /\ disp' = "idle"
            /\ mark' = "marked"
            /\ en' = {"INTD", IF xfer.kind = "read" THEN "INTR" ELSE "INTT"}
       ELSE disp' = "fail" /\ UNCHANGED <<mark, en>>
  /\ UNCHANGED <<hw, ctxVars, isr, dpc, claimed, active, twice, overtaken>>

\* ResetHardwareAndRequestContext and SpbRequestComplete, without a lock.
FailContext ==
  /\ disp = "fail"
  /\ ResetContext
  /\ disp' = "failHw"
  /\ UNCHANGED <<hwVars, capStatus, capLen, xfer, isr, dpc, claimed, frameVars>>

FailHardware ==
  /\ disp = "failHw"
  /\ ResetHardware
  /\ disp' = "failComplete"
  /\ UNCHANGED <<ctxVars, isr, dpc, claimed, frameVars>>

FailComplete ==
  /\ disp = "failComplete"
  /\ UNCHANGED dpc
  /\ Complete
  /\ disp' = "idle"
  /\ UNCHANGED <<hwVars, ctxVars, isr, claimed>>

Dispatch == \/ ReadContext \/ FillByte \/ WriteContext \/ StartSequenceWrite
            \/ SequenceActive \/ SequenceInactive \/ SequenceMark
            \/ MarkRequestCancelable
            \/ FailContext \/ FailHardware \/ FailComplete

-----------------------------------------------------------------------------
(* OnRequestCancel. *)

Lost ==
  /\ ~spb
  /\ mark' = "unmarked"
  /\ UNCHANGED <<hwVars, ctxVars, active, twice, overtaken>>

CancelCurrent ==
  /\ spb
  /\ ResetContext
  /\ ResetHardware
  /\ Complete
  /\ UNCHANGED <<capStatus, capLen, xfer>>

OnRequestCancel ==
  /\ mark = "callback" /\ CancelLockFree /\ InterruptLockFree
  /\ UNCHANGED <<disp, isr, dpc, claimed>>
  /\ Lost \/ CancelCurrent

-----------------------------------------------------------------------------
(* HandleInterrupt.  In state INVALID it only claims the interrupt. *)

Interrupt ==
  /\ isr = "idle" /\ Line /\ state # "INVALID"
  /\ UNCHANGED <<disp, claimed, frameVars>>

StatusBits == {b \in {"CLKT", "ERR", "DONE"} :
                 CASE b = "CLKT" -> hw.clkt
                   [] b = "ERR" -> hw.err
                   [] b = "DONE" -> hw.done}

Capture == capStatus' = StatusBits /\ capLen' = DataLength

\* Mutant: the interrupts stay enabled.
GoToDpcEnabled ==
  /\ hw' = Ack(hw)
  /\ dpc' = TRUE
  /\ UNCHANGED en

\* The end of every path to the DPC: interrupts off, Status acknowledged.
GoToDpc ==
  /\ en' = {}
  /\ hw' = Ack(hw)
  /\ dpc' = TRUE

\* The second interrupt of an error: TA has been waited for.
IsrErrorEnds ==
  /\ Interrupt /\ errFlag
  /\ GoToDpc
  /\ UNCHANGED <<ctxVars, isr>>

\* Mutant: the handler masks the interrupts and then waits for one.
IsrErrorMasks ==
  /\ Interrupt /\ ~errFlag /\ (hw.err \/ hw.clkt)
  /\ errFlag' = TRUE
  /\ Capture
  /\ IF hw.done /\ hw.ta
       THEN hw' = [hw EXCEPT !.done = FALSE] /\ en' = {} /\ UNCHANGED dpc
       ELSE GoToDpc
  /\ UNCHANGED <<spb, state, xfer, isr>>

\* The first one.  With DONE set, DONE is acknowledged and TA looked at: if it
\* is still set the handler leaves and waits for DONE to be set again.
IsrError ==
  /\ Interrupt /\ ~errFlag /\ (hw.err \/ hw.clkt)
  /\ errFlag' = TRUE
  /\ Capture
  /\ IF hw.done /\ hw.ta
       THEN hw' = [hw EXCEPT !.done = FALSE] /\ UNCHANGED <<en, dpc>>
       ELSE GoToDpc
  /\ UNCHANGED <<spb, state, xfer, isr>>

NoError == ~errFlag /\ ~hw.err /\ ~hw.clkt

\* The transfer state is copied and a loop entered.
IsrCopy ==
  /\ Interrupt /\ NoError /\ state \in Copying
  /\ isr' = state
  /\ UNCHANGED <<hwVars, ctxVars, dpc>>

IsrDone ==
  /\ Interrupt /\ NoError /\ state \in WaitForDone
  /\ Capture
  /\ GoToDpc
  /\ UNCHANGED <<spb, state, errFlag, xfer, isr>>

InLoop(s) ==
  /\ isr = s
  /\ UNCHANGED <<spb, errFlag, capStatus, capLen, disp, dpc, claimed,
                 frameVars>>

LeaveLoop ==
  /\ isr' = "idle"
  /\ UNCHANGED <<hwVars, state, xfer>>

\* Mutant: the end of the buffer is noticed one byte late.
IsrSendByteLate ==
  /\ InLoop("SENDING") /\ TXD
  /\ hw' = [hw EXCEPT !.fifo = @ + 1]
  /\ xfer' = [xfer EXCEPT !.w = @ + 1]
  /\ IF xfer.w = xfer.toWrite
       THEN state' = "SENDING_WAIT_FOR_DONE" /\ isr' = "idle"
       ELSE UNCHANGED <<state, isr>>
  /\ UNCHANGED en

\* One byte to the FIFO; the state moves on with the last one.
IsrSendByte ==
  /\ InLoop("SENDING") /\ TXD
  /\ hw' = [hw EXCEPT !.fifo = @ + 1]
  /\ xfer' = [xfer EXCEPT !.w = @ + 1]
  /\ IF xfer.w + 1 = xfer.toWrite
       THEN state' = "SENDING_WAIT_FOR_DONE" /\ isr' = "idle"
       ELSE UNCHANGED <<state, isr>>
  /\ UNCHANGED en

IsrSendFull == InLoop("SENDING") /\ ~TXD /\ LeaveLoop

\* The end of a receive loop, a sequence's or not.
NextReceive ==
  IF isr = "RECEIVING" THEN "RECEIVING_WAIT_FOR_DONE"
                       ELSE "RECEIVING_SEQUENCE_WAIT_FOR_DONE"

IsrReceiveByte ==
  /\ \E s \in {"RECEIVING", "RECEIVING_SEQUENCE"} : InLoop(s)
  /\ RXD
  /\ hw' = [hw EXCEPT !.fifo = @ - 1]
  /\ xfer' = [xfer EXCEPT !.r = @ + 1]
  /\ IF xfer.r + 1 = xfer.toRead
       THEN state' = NextReceive /\ isr' = "idle"
       ELSE UNCHANGED <<state, isr>>
  /\ UNCHANGED en

IsrReceiveEmpty ==
  /\ \E s \in {"RECEIVING", "RECEIVING_SEQUENCE"} : InLoop(s)
  /\ ~RXD
  /\ LeaveLoop

LastByte == xfer.w + 1 = xfer.toWrite

\* The write of a sequence, all but its last byte.
IsrSequenceByte ==
  /\ InLoop("SENDING_SEQUENCE") /\ ~LastByte /\ TXD
  /\ hw' = [hw EXCEPT !.fifo = @ + 1]
  /\ xfer' = [xfer EXCEPT !.w = @ + 1]
  /\ UNCHANGED <<en, state, isr>>

\* The FIFO is full, or not empty enough for the read to be programmed.
IsrSequenceWait ==
  /\ InLoop("SENDING_SEQUENCE")
  /\ IF LastByte THEN ~TXW ELSE ~TXD
  /\ LeaveLoop

IsrSequenceRead ==
  /\ InLoop("SENDING_SEQUENCE") /\ LastByte /\ TXW
  /\ hw' = ProgramRead(hw)
  /\ en' = {"INTR", "INTD"}
  /\ xfer' = [xfer EXCEPT !.w = @ + 1]
  /\ state' = "RECEIVING_SEQUENCE"
  /\ isr' = "idle"

HandleInterrupt ==
  \/ IsrErrorEnds \/ IsrError \/ IsrCopy \/ IsrDone
  \/ IsrSendByte \/ IsrSendFull \/ IsrReceiveByte \/ IsrReceiveEmpty
  \/ IsrSequenceByte \/ IsrSequenceWait \/ IsrSequenceRead

-----------------------------------------------------------------------------
(* OnInterruptDpc.  It does not run beside a copy loop: a DPC of the current  *)
(* request finds the interrupts disabled, so there is no loop; one that was   *)
(* overtaken might, and is wrong enough without.                              *)

Answer(status, info) == [status |-> status, info |-> info]

\* Mutant: the refused byte is reported as sent.
SendCompletionCountsNak ==
  LET sent == xfer.toWrite - capLen
  IN  CASE "CLKT" \in capStatus -> Answer("timeout", 0)
        [] "CLKT" \notin capStatus /\ "ERR" \in capStatus /\ sent = 0 ->
             Answer("no_such_device", 0)
        [] OTHER -> Answer("success", sent)

SendCompletion ==
  LET sent == xfer.toWrite - capLen
      whole == capLen <= xfer.toWrite
      clocked == whole /\ "CLKT" \notin capStatus
      nak == clocked /\ "ERR" \in capStatus
  IN  CASE whole /\ ~clocked -> Answer("timeout", 0)
        [] nak /\ sent = 0 -> Answer("no_such_device", 0)
        [] nak /\ sent # 0 -> Answer("success", sent - 1)
        [] clocked /\ ~nak /\ "DONE" \in capStatus /\ sent = xfer.toWrite ->
             Answer("success", sent)
        [] OTHER -> Answer("internal_error", 0)

ReceiveCompletion ==
  CASE "CLKT" \in capStatus -> Answer("timeout", 0)
    [] "CLKT" \notin capStatus /\ "ERR" \in capStatus -> Answer("no_such_device", 0)
    [] OTHER -> Answer("success", xfer.r)

\* A NAK after the read was programmed is a partial transfer of no bytes.
SequenceCompletion ==
  CASE "CLKT" \in capStatus -> Answer("timeout", 0)
    [] "CLKT" \notin capStatus /\ "ERR" \in capStatus ->
         IF "DONE" \notin capStatus \/ capLen = 0
           THEN Answer("success", 0) ELSE Answer("no_such_device", 0)
    [] OTHER -> Answer("success", xfer.w + xfer.r)

ProcessRequestCompletion ==
  CASE state \in Sending \cup {"SENDING_SEQUENCE"} -> SendCompletion
    [] state \in Receiving -> ReceiveCompletion
    [] state \in ReceivingSequence -> SequenceCompletion
    [] OTHER -> Answer("internal_error", 0)

\* Mutant: STATUS_CANCELLED is a failure like any other.
DpcClaimIgnoresCancelled ==
  /\ dpc /\ ~claimed /\ CancelLockFree /\ InterruptLockFree
  /\ dpc' = FALSE
  /\ \/ ~spb /\ UNCHANGED <<spb, claimed, frameVars>>
     \/ /\ spb /\ mark = "marked"
        /\ spb' = FALSE
        /\ mark' = "unmarked"
        /\ claimed' = TRUE
        /\ UNCHANGED <<active, twice, overtaken>>
     \/ /\ spb /\ mark # "marked"
        /\ spb' = FALSE
        /\ Complete
        /\ UNCHANGED claimed
  /\ UNCHANGED <<hwVars, state, errFlag, capStatus, capLen, xfer, disp, isr>>

\* Under CancelLock: is there a request, and is it still ours to complete?
\* A request that was never marked fails with another status than
\* STATUS_CANCELLED and is completed at once.
DpcClaim ==
  /\ dpc /\ ~claimed /\ CancelLockFree /\ InterruptLockFree
  /\ dpc' = FALSE
  /\ \/ /\ ~spb \/ mark \in {"callback", "cancelled"}
        /\ UNCHANGED <<spb, claimed, frameVars>>
     \/ /\ spb /\ mark = "marked"
        /\ spb' = FALSE
        /\ mark' = "unmarked"
        /\ claimed' = TRUE
        /\ UNCHANGED <<active, twice, overtaken>>
     \/ /\ spb /\ mark = "unmarked"
        /\ spb' = FALSE
        /\ Complete
        /\ UNCHANGED claimed
  /\ UNCHANGED <<hwVars, state, errFlag, capStatus, capLen, xfer, disp, isr>>

\* ProcessRequestCompletion, the reset and the completion.
DpcComplete ==
  /\ claimed /\ InterruptLockFree
  /\ claimed' = FALSE
  /\ ResetContext
  /\ ResetHardware
  /\ UNCHANGED dpc
  /\ Complete
  /\ UNCHANGED <<capStatus, capLen, xfer, disp, isr>>

OnInterruptDpc == DpcClaim \/ DpcComplete

Init ==
  /\ hw = Idle /\ en = {}
  /\ spb = FALSE /\ state = "INVALID" /\ errFlag = FALSE
  /\ capStatus = {} /\ capLen = 0
  /\ xfer = Transfer("none", 0, 0)
  /\ disp = "idle" /\ isr = "idle" /\ dpc = FALSE /\ claimed = FALSE
  /\ active = FALSE /\ mark = "unmarked"
  /\ twice = FALSE /\ overtaken = FALSE

Next ==
  \/ Hardware \/ ClientCancels
  \/ OnRead \/ OnWrite \/ OnSequence \/ Dispatch
  \/ OnRequestCancel \/ HandleInterrupt \/ OnInterruptDpc

\* The bus makes progress or reports an error, interrupts and DPCs are
\* delivered, callbacks run; nobody has to send or cancel requests.
Fairness ==
  /\ WF_vars(Hardware)
  /\ WF_vars(Dispatch)
  /\ WF_vars(OnRequestCancel)
  /\ WF_vars(HandleInterrupt)
  /\ WF_vars(OnInterruptDpc)

Spec == Init /\ [][Next]_vars /\ Fairness

-----------------------------------------------------------------------------
(* Properties. *)

\* SpbRequestComplete is called once for a request, by the DPC, by
\* OnRequestCancel or by the callback that failed to start it, as long as no
\* request ended with its interrupt or DPC still under way.
CompletedOnce == ~overtaken => ~twice

\* "Interrupts should be disabled when the DPC is invoked" (OnInterruptDpc).
DpcFindsInterruptsDisabled == dpc => en = {}

\* The same until an interrupt or DPC was overtaken by the end of its request.
InterruptsStayDisabled == ~overtaken => DpcFindsInterruptsDisabled

\* What ProcessRequestCompletion reports is what happened on the bus: the bytes
\* a slave acknowledged, all bytes of a transfer without errors, and never the
\* STATUS_INTERNAL_ERROR of states that should not be.  (With the read of a
\* sequence programmed DataLength no longer tells which part was refused.)
Truthful ==
  (claimed /\ ~overtaken) =>
    LET answer == ProcessRequestCompletion
    IN  /\ answer.status # "internal_error"
        /\ (answer.status = "no_such_device" /\ state \notin ReceivingSequence)
              => hw.acked = 0
        /\ (answer.status = "success" /\ xfer.kind = "write")
              => answer.info = hw.acked
        /\ (answer.status = "success" /\ capStatus \cap {"ERR", "CLKT"} = {})
              => /\ answer.info = xfer.toWrite + xfer.toRead
                 /\ hw.acked = xfer.toWrite

\* "Expecting a current request" (HandleInterrupt): an interrupt that is acted
\* upon belongs to a request.  It may not while a callback that failed resets
\* the context without the lock of the interrupt.
InterruptHasRequest ==
  (~overtaken /\ disp # "failHw" /\ isr = "idle" /\ Line /\ state # "INVALID")
     => spb
=============================================================================
