---------------------------- MODULE MiniUartLine ----------------------------
(***************************************************************************)
(* Opening and closing the mini UART port (openclos.c) and the lowering of *)
(* RTS under SERIAL_TRANSMIT_TOGGLE (modmflow.c), whose DPC and timer the  *)
(* close waits for by CountOfTryingToLowerRTS.                             *)
(***************************************************************************)
EXTENDS Naturals

CONSTANTS
  MlnOpens,        \* how often the port is opened (bound)
  MlnStopIdleFails \* may WdfDeviceStopIdle fail?

ASSUME MlnAssumption == MlnOpens \in Nat /\ MlnStopIdleFails \in BOOLEAN

VARIABLE mln

MlnInit ==
  mln = [pc |-> "closed",   \* "closed", "open", then the stages of SerialFileCloseWorker
         opens |-> 0,
         buffers |-> 0,     \* interrupt buffers allocated and not freed
         DeviceIsOpened |-> FALSE,
         rx |-> FALSE,      \* SERIAL_IER_RDA
         toggle |-> FALSE,  \* SERIAL_TRANSMIT_TOGGLE is in force
         rts |-> FALSE,
         busy |-> FALSE,    \* a write or an immediate character is current
         brk |-> FALSE,     \* SERIAL_TX_BREAK
         temt |-> TRUE,     \* holding and shift register are empty
         count |-> 0,       \* CountOfTryingToLowerRTS
         dpc |-> FALSE,     \* StartTimerLowerRTSDpc is queued
         timer |-> {},      \* LowerRTSTimer: subset of {"set", "due"}
         usedFreed |-> FALSE]

-----------------------------------------------------------------------------
\* Mutant: the count is raised for a DPC that was queued already.
StartLowerRTSCountsTwice(s) == [s EXCEPT !.dpc = TRUE, !.count = @ + 1]

\* SerialInsertQueueDpc(StartTimerLowerRTSDpc) ? CountOfTryingToLowerRTS++ : 0
StartLowerRTS(s) == IF s.dpc THEN s ELSE [s EXCEPT !.dpc = TRUE, !.count = @ + 1]

SerialPerhapsLowerRTS(s) ==
  LET t == IF ~s.toggle \/ s.brk \/ s.busy THEN s
           ELSE IF s.temt THEN [s EXCEPT !.rts = FALSE]
           ELSE StartLowerRTS(s)
  IN  [t EXCEPT !.count = @ - 1]

TryToLowerRTS(s) == SerialPerhapsLowerRTS([s EXCEPT !.count = @ + 1])

\* The DPC: a timer that runs already stands for both attempts.
SerialStartTimerLowerRTS ==
  /\ mln.dpc
  /\ mln' = [mln EXCEPT !.dpc = FALSE, !.timer = @ \cup {"set"},
                        !.count = IF "set" \in mln.timer THEN @ - 1 ELSE @]

\* An expiry whose callback has not run yet precedes the next one.
MlnExpire == mln.timer = {"set"} /\ mln' = [mln EXCEPT !.timer = {"due"}]

SerialInvokePerhapsLowerRTS ==
  /\ "due" \in mln.timer
  /\ mln' = SerialPerhapsLowerRTS([mln EXCEPT !.timer = @ \ {"due"}])

-----------------------------------------------------------------------------
(* Opening.                                                                *)

(***************************************************************************)
(* SerialDeviceFileCreateWorker.  When WdfDeviceStopIdle fails the open    *)
(* fails with the buffer allocated, and nothing will free it.              *)
(***************************************************************************)
SerialDeviceFileCreateWorker ==
  /\ mln.pc = "closed" /\ mln.opens < MlnOpens
  /\ LET s == [mln EXCEPT !.opens = @ + 1, !.buffers = @ + 1]
     IN  \/ mln' = [s EXCEPT !.pc = "open", !.DeviceIsOpened = TRUE, !.rx = TRUE]
         \/ MlnStopIdleFails /\ mln' = s
         \/ mln' = [mln EXCEPT !.opens = @ + 1]   \* no memory

\* A character is received; the ISR drops it when the port is not open.
MlnReceive ==
  /\ mln.rx
  /\ mln' = [mln EXCEPT !.usedFreed = @ \/ (mln.DeviceIsOpened /\ mln.buffers = 0)]

MlnOpen == mln.pc = "open"

\* Handshake, break, and the first and last character of a transmission.
SetTransmitToggle == MlnOpen /\ ~mln.toggle /\
  LET s == [mln EXCEPT !.toggle = TRUE]
  IN  mln' = IF s.brk \/ ~s.temt \/ s.busy THEN [s EXCEPT !.rts = TRUE] ELSE TryToLowerRTS(s)

SetRtsControl == MlnOpen /\ mln.toggle /\ mln' = [mln EXCEPT !.toggle = FALSE, !.rts = TRUE]

MlnBreakOn == MlnOpen /\ ~mln.brk /\ mln' = [mln EXCEPT !.brk = TRUE, !.rts = @ \/ mln.toggle]

BreakOff(s) == IF s.brk THEN TryToLowerRTS([s EXCEPT !.brk = FALSE]) ELSE s

MlnBreakOff == MlnOpen /\ mln.brk /\ mln' = BreakOff(mln)

MlnStart == MlnOpen /\ ~mln.busy /\ mln' = [mln EXCEPT !.busy = TRUE, !.rts = @ \/ mln.toggle]

\* The ISR writes to the FIFO: in toggle mode RTS is raised first and the DPC queued.
MlnTransmit == MlnOpen /\ mln.busy /\
  LET s == [mln EXCEPT !.temt = FALSE]
  IN  mln' = IF s.toggle THEN StartLowerRTS([s EXCEPT !.rts = TRUE]) ELSE s

\* The last request ends (SerialProcessEmptyTransmit).
MlnEnd == MlnOpen /\ mln.busy /\ mln' = TryToLowerRTS([mln EXCEPT !.busy = FALSE])

MlnShiftedOut == ~mln.temt /\ mln' = [mln EXCEPT !.temt = TRUE]

-----------------------------------------------------------------------------
(* Closing: all requests of the file have ended.                           *)

CloseBegin ==
  /\ MlnOpen /\ ~mln.busy
  /\ mln' = [BreakOff([mln EXCEPT !.rx = FALSE, !.DeviceIsOpened = FALSE]) EXCEPT !.pc = "drain"]

\* The wait for the transmitter is bounded; then the UART is disabled and DTR dropped.
SerialMarkClose ==
  /\ mln.pc = "drain"
  /\ mln' = [mln EXCEPT !.pc = "lower"]

\* Mutant: RTS is lowered without waiting for the attempts under way.
CloseNoWait == mln.pc = "lower" /\ mln' = [mln EXCEPT !.pc = "free", !.rts = FALSE]

\* do KeDelayExecutionThread while (CountOfTryingToLowerRTS), then SerialClrRTS.
CloseLowerRTS ==
  mln.pc = "lower" /\ mln.count = 0 /\ mln' = [mln EXCEPT !.pc = "free", !.rts = FALSE]

CloseFree == mln.pc = "free" /\ mln' = [mln EXCEPT !.pc = "drained", !.buffers = @ - 1]

SerialDrainTimersAndDpcs ==
  /\ mln.pc = "drained"
  /\ mln' = [mln EXCEPT !.pc = "closed", !.timer = {}, !.dpc = FALSE]

MlnNext ==
  \/ SerialStartTimerLowerRTS
  \/ MlnExpire
  \/ SerialInvokePerhapsLowerRTS
  \/ SerialDeviceFileCreateWorker
  \/ MlnReceive
  \/ SetTransmitToggle
  \/ SetRtsControl
  \/ MlnBreakOn
  \/ MlnBreakOff
  \/ MlnStart
  \/ MlnTransmit
  \/ MlnEnd
  \/ MlnShiftedOut
  \/ CloseBegin
  \/ SerialMarkClose
  \/ CloseLowerRTS
  \/ CloseFree
  \/ SerialDrainTimersAndDpcs

\* The transmitter shifts out, DPC and timer run, and the closing thread goes on.
MlnFairness ==
  /\ []<>(mln.temt)
  /\ WF_mln(SerialStartTimerLowerRTS) /\ WF_mln(MlnExpire)
  /\ WF_mln(SerialInvokePerhapsLowerRTS)
  /\ WF_mln(SerialMarkClose \/ CloseLowerRTS \/ CloseFree \/ SerialDrainTimersAndDpcs)

-----------------------------------------------------------------------------
(***************************************************************************)
(* CountOfTryingToLowerRTS is exactly the number of attempts under way: a  *)
(* queued DPC, a running timer, a due timer callback.  Too high and the    *)
(* close never ends, too low and it ends under the feet of the callback.   *)
(***************************************************************************)
MlnCountIsAttempts ==
  mln.count = (IF mln.dpc THEN 1 ELSE 0) + (IF "set" \in mln.timer THEN 1 ELSE 0)
                + (IF "due" \in mln.timer THEN 1 ELSE 0)

(***************************************************************************)
(* A closed port keeps nothing: RTS is down, no attempt to lower it is     *)
(* left, the buffer is freed, and the ISR never stored into a freed one.   *)
(***************************************************************************)
MlnClosedIsQuiet ==
  /\ ~mln.usedFreed
  /\ mln.pc = "closed" =>
       /\ ~mln.rts /\ mln.count = 0 /\ ~mln.dpc /\ mln.timer = {}
       /\ mln.buffers = 0 \/ MlnStopIdleFails

\* A close that has begun ends: the wait for CountOfTryingToLowerRTS terminates.
MlnNotClosing == mln.pc \in {"open", "closed"}

MlnCloseEnds == []<>MlnNotClosing
=============================================================================
