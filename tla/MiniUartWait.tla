---------------------------- MODULE MiniUartWait ----------------------------
(***************************************************************************)
(* IOCTL_SERIAL_WAIT_ON_MASK and IOCTL_SERIAL_SET_WAIT_MASK of the mini    *)
(* UART driver (waitmask.c) against the events the ISR reports: it stores  *)
(* the event word in the buffer of the waiting request (IrpMaskLocation)   *)
(* or keeps it in HistoryMask, and queues CommWaitDpc.                     *)
(***************************************************************************)
EXTENDS MiniUartRequest

CONSTANTS
  MwtWaits,   \* the IOCTL_SERIAL_WAIT_ON_MASK requests
  MwtMasks,   \* IOCTL_SERIAL_SET_WAIT_MASK request -> the events it asks for
  MwtEvents   \* the events

MwtRequests == MwtWaits \cup DOMAIN MwtMasks

ASSUME MwtAssumption == \A m \in DOMAIN MwtMasks : MwtMasks[m] \subseteq MwtEvents

VARIABLE mwt

MwtInit ==
  mwt = [ctx |-> [r \in MwtRequests |-> NewContext],
         cur |-> [k \in {"mask", "wait"} |-> NoReq],
         queue |-> [k \in {"mask"} |-> <<>>],
         timer |-> <<>>,
         ended |-> [r \in MwtRequests |-> 0],
         faults |-> {}, arrived |-> {},
         IsrWaitMask |-> {}, HistoryMask |-> {},
         IrpMaskLocation |-> NoReq,  \* the request whose buffer the ISR fills
         word |-> [w \in MwtWaits |-> {}],
         dpc |-> FALSE,              \* CommWaitDpc is queued
         busy |-> FALSE]             \* SerialStartMask runs (it holds the device lock)

NoMwtTimers == [none |-> "none"]

-----------------------------------------------------------------------------
\* Mutant: the waiting request is forgotten.
FinishOldWaitKeepsWaiting(s, mask) ==
  [s EXCEPT !.HistoryMask = @ \cap mask, !.IsrWaitMask = mask, !.IrpMaskLocation = NoReq]

\* A new mask ends the current wait with an empty word.
SerialFinishOldWait(s, mask) ==
  LET t == [s EXCEPT !.HistoryMask = @ \cap mask, !.IsrWaitMask = mask]
  IN  IF s.IrpMaskLocation = NoReq THEN t
      ELSE [t EXCEPT !.word[s.IrpMaskLocation] = {}, !.IrpMaskLocation = NoReq, !.dpc = TRUE]

SerialGiveWaitToIsr(s) ==
  LET w == s.cur["wait"]
      a == IF s.IrpMaskLocation = NoReq THEN s ELSE Fault(s, "IrpMaskLocation")
      t == SERIAL_SET_REFERENCE(a, w, "isr")
  IN  IF t.HistoryMask = {} THEN [t EXCEPT !.IrpMaskLocation = w]
      ELSE [t EXCEPT !.word[w] = t.HistoryMask, !.HistoryMask = {}, !.dpc = TRUE,
                     !.ctx[w].status = "success"]

\* Mutant: the ISR keeps the place to store the word.
GrabWaitKeepsLocation(s) ==
  IF s.IrpMaskLocation = NoReq THEN s
  ELSE SERIAL_CLEAR_REFERENCE([s EXCEPT !.word[s.cur["wait"]] = {}], s.cur["wait"], "isr")

SerialGrabWaitFromIsr(s) ==
  IF s.IrpMaskLocation = NoReq THEN s
  ELSE SERIAL_CLEAR_REFERENCE([s EXCEPT !.word[s.cur["wait"]] = {}, !.IrpMaskLocation = NoReq],
                              s.cur["wait"], "isr")

SerialCancelWait(s) ==
  CompleteOnly(SerialTryToCompleteCurrent(SerialGrabWaitFromIsr(s), "wait", "cancelled",
                                          NoMwtTimers, "cancel"), "wait")

SerialCompleteWait(s) ==
  CompleteOnly(SerialTryToCompleteCurrent(s, "wait", "success", NoMwtTimers, "isr"), "wait")

\* SerialGetNextRequest, and the end of the loop of SerialStartMask.
NextMask(s, completeCurrent) ==
  LET t == SerialGetNextRequest(s, "mask", completeCurrent)
  IN  [t EXCEPT !.busy = t.cur["mask"] # NoReq]

(***************************************************************************)
(* One turn of the loop of SerialStartMask.  A wait becomes the current    *)
(* wait unless there is one or no event is asked for.                      *)
(***************************************************************************)
SerialStartMask ==
  /\ mwt.busy
  /\ LET m == mwt.cur["mask"]
         a == SerialSetCancelRoutine([mwt EXCEPT !.ctx[m].refs = {}], m)
         b == IF a.cur["wait"] = NoReq /\ a.IrpMaskLocation = NoReq THEN a
              ELSE Fault(a, "CurrentWaitRequest")
     IN  mwt' = IF m \notin MwtWaits
                THEN NextMask([SerialFinishOldWait(mwt, MwtMasks[m])
                                 EXCEPT !.ctx[m].status = "success"], TRUE)
                ELSE IF mwt.IsrWaitMask = {} \/ mwt.cur["wait"] # NoReq
                THEN NextMask([mwt EXCEPT !.ctx[m].status = "invalid_parameter"], TRUE)
                ELSE NextMask([SerialGiveWaitToIsr([b EXCEPT !.cur["wait"] = m])
                                 EXCEPT !.cur["mask"] = NoReq], FALSE)

MwtArrive(r) ==
  /\ ~mwt.busy /\ r \notin mwt.arrived
  /\ LET s == SerialStartOrQueue([mwt EXCEPT !.arrived = @ \cup {r}], r, "mask")
     IN  mwt' = [s EXCEPT !.busy = s.cur["mask"] = r]

MwtCancel(r) ==
  /\ r \in mwt.arrived /\ mwt.ended[r] = 0 /\ mwt.ctx[r].mark \in {"no", "marked"}
  /\ mwt' = CancelRequest(mwt, r)

MwtCancelRoutine(r) ==
  /\ ~mwt.busy /\ mwt.ended[r] = 0 /\ mwt.ctx[r].mark = "called"
  /\ mwt' = SerialCancelWait(mwt)

MwtDpc == ~mwt.busy /\ mwt.dpc /\ mwt' = SerialCompleteWait([mwt EXCEPT !.dpc = FALSE])

(***************************************************************************)
(* An event at the ISR (SerialISR, SerialPutChar, SerialProcessLSR,        *)
(* SerialHandleModemUpdate share this ending).                             *)
(***************************************************************************)
ReportEvent(e) ==
  /\ e \in mwt.IsrWaitMask
  /\ LET w == mwt.IrpMaskLocation
         history == mwt.HistoryMask \cup {e}
     IN  mwt' = IF w = NoReq THEN [mwt EXCEPT !.HistoryMask = history]
                ELSE [mwt EXCEPT !.word[w] = history, !.HistoryMask = {},
                                 !.IrpMaskLocation = NoReq, !.dpc = TRUE]

MwtNext ==
  \/ SerialStartMask
  \/ \E r \in MwtRequests : MwtArrive(r) \/ MwtCancel(r) \/ MwtCancelRoutine(r)
  \/ MwtDpc
  \/ \E e \in MwtEvents : ReportEvent(e)

MwtFairness ==
  /\ []<>(~mwt.busy) /\ []<>(~mwt.dpc)
  /\ \A r \in MwtRequests : []<>(mwt.ctx[r].mark # "called")

-----------------------------------------------------------------------------
\* The ASSERTs of the wait path hold and no request is completed twice.
MwtAssertionsHold == mwt.faults = {} /\ \A r \in MwtRequests : mwt.ended[r] <= 1

\* The ISR stores the event word only in the buffer of a wait it holds a
\* reference to, never in that of a completed one.
MwtIsrHoldsReference ==
  mwt.IrpMaskLocation # NoReq =>
    /\ mwt.IrpMaskLocation = mwt.cur["wait"] /\ mwt.ended[mwt.cur["wait"]] = 0
    /\ "isr" \in mwt.ctx[mwt.cur["wait"]].refs

(***************************************************************************)
(* A wait whose word the ISR no longer fills ends, and a new mask ends the *)
(* current wait: both rest on CommWaitDpc being queued exactly then.       *)
(***************************************************************************)
MwtAnswered == mwt.cur["wait"] = NoReq \/ mwt.IrpMaskLocation = mwt.cur["wait"]

MwtWaitsAnswered == []<>MwtAnswered
=============================================================================
