-------------------------- MODULE MiniUartRequest --------------------------
(***************************************************************************)
(* How the mini UART driver (uart/bcm2836/miniUart) keeps a request alive  *)
(* while several parties may still touch it.                               *)
(*                                                                         *)
(* Reads, writes, waits, immediate characters and XOFF counters each have  *)
(* a "current" request.  Its context holds one reference bit per party:    *)
(* the ISR, the cancel routine, the total timer, the interval timer.  A    *)
(* party that finishes calls SerialTryToCompleteCurrent, which takes back  *)
(* the references of the others and completes the request when none is     *)
(* left.                                                                   *)
(*                                                                         *)
(* The operators below are state transformers: s is a record with at least *)
(* the fields                                                              *)
(*   ctx     request -> context                                            *)
(*   cur     kind    -> current request or NoReq                           *)
(*   queue   kind    -> sequence of requests (the manual framework queues) *)
(*   timer   name    -> subset of {"set", "due"}: "set" while it runs, "due"*)
(*                      from its expiry until its callback runs            *)
(*   ended   request -> how often it was completed, up to 2                *)
(*   faults  set of the ASSERTs of the code that failed                    *)
(* Callbacks of queues, timers, DPCs and cancellation share the device     *)
(* lock (SynchronizationScopeDevice), so a callback is one step; the ISR   *)
(* runs beside it and shares only what WdfInterruptSynchronize guards.     *)
(***************************************************************************)
EXTENDS Integers, Sequences, FiniteSets

\* No current request (a NULL pointer).
NoReq == "NoReq"

\* REQUEST_CONTEXT, as far as completion depends on it.
NewContext == [refs |-> {}, mark |-> "no", status |-> "none", info |-> 0, cancelled |-> FALSE]

Fault(s, name) == [s EXCEPT !.faults = @ \cup {name}]

SERIAL_SET_REFERENCE(s, r, ref) ==
  LET t == [s EXCEPT !.ctx[r].refs = @ \cup {ref}]
  IN  IF ref \in s.ctx[r].refs THEN Fault(t, "SERIAL_SET_REFERENCE") ELSE t

SERIAL_CLEAR_REFERENCE(s, r, ref) ==
  LET t == [s EXCEPT !.ctx[r].refs = @ \ {ref}]
  IN  IF ref \in s.ctx[r].refs THEN t ELSE Fault(t, "SERIAL_CLEAR_REFERENCE")

(***************************************************************************)
(* WdfRequestMarkCancelable: a request that was cancelled meanwhile has    *)
(* its cancel routine called.                                              *)
(***************************************************************************)
SerialSetCancelRoutine(s, r) ==
  SERIAL_SET_REFERENCE(
    [s EXCEPT !.ctx[r].mark = IF @ = "wanted" THEN "called" ELSE "marked"], r, "cancel")

(***************************************************************************)
(* WdfRequestUnmarkCancelable fails once the cancel routine is on its way. *)
(***************************************************************************)
Unmarked(s, r) == "cancel" \in s.ctx[r].refs => s.ctx[r].mark = "marked"

SerialClearCancelRoutine(s, r, clearReference) ==
  IF "cancel" \in s.ctx[r].refs /\ s.ctx[r].mark = "marked"
  THEN [s EXCEPT !.ctx[r].mark = "no",
                 !.ctx[r].refs = IF clearReference THEN @ \ {"cancel"} ELSE @]
  ELSE s

SerialCompleteRequest(s, r, status, info) ==
  LET t == [s EXCEPT !.ended[r] = IF @ < 2 THEN @ + 1 ELSE @,
                     !.ctx[r] = [@ EXCEPT !.status = status, !.info = info,
                                          !.mark = "no", !.cancelled = FALSE]]
  IN  IF s.ctx[r].refs = {} THEN t ELSE Fault(t, "SerialCompleteRequest")

\* WdfTimerStart: TRUE when the timer was running already.
TimerWasSet(s, t) == "set" \in s.timer[t]

SerialSetTimer(s, t) == [s EXCEPT !.timer[t] = @ \cup {"set"}]

\* WdfTimerStop without waiting succeeds only for a timer that did not expire.
SerialCancelTimer(s, t) == [s EXCEPT !.timer[t] = @ \ {"set"}]

\* SerialSetTimer, with a reference for the timer unless it was running.
StartTimer(s, r, t, ref) ==
  IF TimerWasSet(s, t) THEN SerialSetTimer(s, t)
  ELSE SERIAL_SET_REFERENCE(SerialSetTimer(s, t), r, ref)

\* One timer of SerialRundownIrpRefs.
RundownTimer(s, r, t, ref, caller) ==
  IF TimerWasSet(s, t) \/ caller = ref
  THEN SERIAL_CLEAR_REFERENCE(SerialCancelTimer(s, t), r, ref)
  ELSE s

(***************************************************************************)
(* timers: reference -> name of the timer passed by the caller; a          *)
(* reference that is not in its domain stands for a NULL timer.            *)
(***************************************************************************)
SerialRundownIrpRefs(s, r, timers, caller) ==
  LET a == IF caller = "cancel"
           THEN [SERIAL_CLEAR_REFERENCE(s, r, "cancel") EXCEPT !.ctx[r].mark = "no"]
           ELSE SerialClearCancelRoutine(s, r, TRUE)
      b == IF "int" \in DOMAIN timers
           THEN RundownTimer(a, r, timers["int"], "int", caller) ELSE a
  IN  IF "total" \in DOMAIN timers
      THEN RundownTimer(b, r, timers["total"], "total", caller) ELSE b

(***************************************************************************)
(* The head of a queue becomes the current request of its kind.            *)
(***************************************************************************)
SerialGetNextRequest(s, k, completeCurrent) ==
  LET old == s.cur[k]
      t == [s EXCEPT !.cur[k] = IF s.queue[k] = <<>> THEN NoReq ELSE Head(s.queue[k]),
                     !.queue[k] = IF @ = <<>> THEN @ ELSE Tail(@)]
  IN  IF completeCurrent /\ old # NoReq
      THEN SerialCompleteRequest(t, old, t.ctx[old].status, t.ctx[old].info)
      ELSE t

(***************************************************************************)
(* k is the kind whose current request ends, caller the reference its      *)
(* caller holds; the caller has run its Grab routine with the ISR locked   *)
(* out.  When no reference is left the request is ready to be completed    *)
(* (Finished), and the caller goes on with its GetNextRequest routine.     *)
(***************************************************************************)
SerialTryToCompleteCurrent(s, k, status, timers, caller) ==
  IF s.cur[k] = NoReq THEN Fault(s, "CurrentOpRequest is NULL") ELSE
  LET r == s.cur[k]
      a == IF caller \in {"isr", "xoff"} THEN SERIAL_CLEAR_REFERENCE(s, r, caller) ELSE s
      b == SerialRundownIrpRefs(a, r, timers, caller)
      c == [b EXCEPT !.ctx[r].cancelled = @ \/ status = "cancelled"]
  IN  IF c.ctx[r].refs # {} THEN c
      ELSE [c EXCEPT !.ctx[r] = [@ EXCEPT !.status = status,
                                          !.info = IF status = "cancelled" THEN 0 ELSE c.ctx[r].info]]

Finished(s, k) == s.cur[k] # NoReq /\ s.ctx[s.cur[k]].refs = {}

\* Completion without a GetNextRequest routine.
CompleteOnly(s, k) ==
  IF ~Finished(s, k) THEN s ELSE
  SerialCompleteRequest([s EXCEPT !.cur[k] = NoReq], s.cur[k],
                        s.ctx[s.cur[k]].status, s.ctx[s.cur[k]].info)

(***************************************************************************)
(* The request is current, and its caller starts it, if nothing of its     *)
(* kind is current or queued.                                              *)
(***************************************************************************)
SerialStartOrQueue(s, r, k) ==
  IF s.queue[k] = <<>> /\ s.cur[k] = NoReq
  THEN [s EXCEPT !.cur[k] = r]
  ELSE [s EXCEPT !.queue[k] = Append(@, r)]

(***************************************************************************)
(* SerialFlushRequests: purge the queue, then call the cancel routine of   *)
(* the current request (CancelIt) if the framework has not called it.      *)
(* Requests purged in the queue end in SerialEvtCanceledOnQueue (Drop).    *)
(***************************************************************************)
SerialFlushRequests(s, q, k, Drop(_, _), CancelIt(_)) ==
  LET Purged[n \in 0 .. Len(s.queue[q])] ==
        IF n = 0 THEN [s EXCEPT !.queue[q] = <<>>]
        ELSE Drop(Purged[n - 1], s.queue[q][n])
      t == Purged[Len(s.queue[q])]
      r == t.cur[k]
  IN  IF r # NoReq /\ "cancel" \in t.ctx[r].refs /\ t.ctx[r].mark = "marked"
      THEN CancelIt(SerialClearCancelRoutine(t, r, FALSE))
      ELSE t

\* The client gives up on a request the driver owns.
CancelRequest(s, r) ==
  [s EXCEPT !.ctx[r].mark = IF @ = "marked" THEN "called" ELSE IF @ = "no" THEN "wanted" ELSE @]

\* A timer expires; its callback, which waits for the device lock, precedes its next expiry.
Expire(s, t) == [s EXCEPT !.timer[t] = {"due"}]
=============================================================================
