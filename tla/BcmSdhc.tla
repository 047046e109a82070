------------------------------ MODULE BcmSdhc ------------------------------
(***************************************************************************)
(* The driver of the Arasan SD host (sd/bcm2836/bcm2836sdhc).  Sdport      *)
(* issues a command, then StartTransfer once for every block; the DPC ends *)
(* each step when the events it requires have come.  The part of a CMD53   *)
(* transfer that does not fill a block is moved by an internal request     *)
(* after it.  Lengths are counted in half blocks.                          *)
(*                                                                         *)
(* Sdport calls the DPC and the issuing functions one after the other, and *)
(* the next step of a transfer before the DPC; it may call the DPC with a  *)
(* request that is not issued yet.                                         *)
(***************************************************************************)
EXTENDS Integers

CONSTANTS
  SdhcLengths,     \* of transfers, in half blocks
  SdhcRequests     \* most requests (bound)

ASSUME SdhcAssumption == SdhcLengths \subseteq Nat \ {0} /\ SdhcRequests \in Nat

VARIABLE sdhc

BlockSize == 2

SdhcInit ==
  sdhc = [stage |-> "idle",           \* Sdport: idle, prepared, issued, next, expired, failed
          issued |-> 0, type |-> "none", read |-> TRUE, ext |-> FALSE, length |-> 0,
          phase |-> "command",
          count |-> 0, size |-> 0, required |-> {}, status |-> "none",    \* the request
          out |-> FALSE, current |-> {},             \* OutstandingRequest, CurrentEvents
          unaligned |-> "idle", tail |-> 0, tailCount |-> 0,              \* UnalignedRequest
          events |-> {},                             \* kept by Sdport for the DPC
          is |-> {}, command |-> FALSE, complete |-> FALSE,               \* the controller
          left |-> 0, width |-> 0, fifo |-> 0, offered |-> FALSE,
          moved |-> 0, early |-> FALSE, skipped |-> FALSE, last |-> "none",
          broken |-> FALSE]

SdhcAssert(s, P) == [s EXCEPT !.broken = @ \/ ~P]

-----------------------------------------------------------------------------
(* Sending a command.                                                      *)

\* The command register: the controller begins with blocks of a width.
CommandRegister(s, busy, blocks, width) ==
  [s EXCEPT !.current = {}, !.command = TRUE, !.complete = busy,
            !.left = blocks, !.width = width, !.fifo = 0, !.offered = FALSE]

\* BlockCount and BlockSize from Length, and the internal request for the rest.
SetTransferMode(s) ==
  LET whole == s.length \div BlockSize
      t == [s EXCEPT !.count = IF whole = 0 THEN 1 ELSE whole,
                     !.size = IF whole = 0 THEN s.length ELSE BlockSize]
  IN  CASE ~s.ext -> [t EXCEPT !.unaligned = "idle"]
        [] s.ext /\ s.length > t.count * t.size ->
             [SdhcAssert(t, t.unaligned = "idle")
                EXCEPT !.unaligned = "ready", !.tail = s.length % BlockSize, !.tailCount = 1]
        [] OTHER -> t

SendCommand(s) ==
  LET t == IF s.type = "data" THEN SetTransferMode(s) ELSE s
  IN  [CommandRegister(t, s.type = "busy", IF s.type = "data" THEN t.count ELSE 0, t.size)
         EXCEPT !.required = {"command"} \cup (CASE s.type = "busy" -> {"complete"}
                                                 [] s.type = "data" -> {"ready"}
                                                 [] OTHER -> {})]

SendTail(s) == [CommandRegister(s, FALSE, 1, s.tail) EXCEPT !.unaligned = "sent"]

-----------------------------------------------------------------------------
(* Completion and transfer.                                                *)

\* The request of a transfer stays outstanding until its blocks are moved.
CompleteRequest(s, status) ==
  LET ended == s.type # "data" \/ s.count = 0
      t == IF ended THEN [SdhcAssert(s, s.out) EXCEPT !.out = FALSE] ELSE s
  IN  [t EXCEPT !.stage = CASE status \notin {"success", "more"} -> "failed"
                            [] /\ status \in {"success", "more"} /\ s.type = "data"
                               /\ s.phase = "command" \/ status = "more" -> "next"
                            [] OTHER -> "idle",
                !.last = IF status = "success" /\ s.type = "data" /\ s.phase = "transfer"
                         THEN "success" ELSE "none",
                !.skipped = @ \/ (status = "success" /\ ended /\ s.unaligned = "ready")]

\* Reading or writing the data port; what is read early is not the card's data.
DataPort(s, n) ==
  [s EXCEPT !.moved = @ + n, !.early = @ \/ (s.read /\ s.fifo = 0) \/ (~s.read /\ ~s.offered),
            !.fifo = IF s.read THEN 0 ELSE n, !.offered = FALSE]

\* Mutant of StartPioTransfer: the last block is left.
StartPioTransferShort(s) ==
  LET t == [DataPort(s, s.size) EXCEPT !.current = {}, !.count = @ - 1]
  IN  IF t.count > 1
      THEN [t EXCEPT !.required = @ \cup {"ready"}, !.status = "more"]
      ELSE [t EXCEPT !.required = @ \cup {"complete"}, !.status = "success"]

\* The end of the transfer may have been reported together with the last block.
StartPioTransfer(s) ==
  LET t == [DataPort(s, s.size) EXCEPT !.current = {}, !.count = @ - 1]
  IN  CASE t.count >= 1 -> [t EXCEPT !.required = @ \cup {"ready"}, !.status = "more"]
        [] t.count = 0 /\ "complete" \in s.current ->
             CompleteRequest([t EXCEPT !.status = "success"], "success")
        [] OTHER -> [t EXCEPT !.required = @ \cup {"complete"}, !.status = "success"]

(***************************************************************************)
(* The state machine of the internal request: the pair of the state and    *)
(* whether the request has to wait.  The DPC looks at the events required  *)
(* of Sdport's request, which are none by now, not of the internal one.    *)
(***************************************************************************)
NonBlockSizeAlignedRequestSM(s) ==
  CASE s.unaligned = "ready" /\ s.count = 0 -> <<SendTail(s), TRUE>>
    [] s.unaligned = "sent" ->
         LET t == [DataPort(s, s.tail) EXCEPT !.current = {}, !.tailCount = 0]
         IN  IF "complete" \in s.current THEN <<[t EXCEPT !.unaligned = "idle"], FALSE>>
             ELSE <<[t EXCEPT !.unaligned = "started"], TRUE>>
    [] s.unaligned = "started" -> <<[s EXCEPT !.unaligned = "idle"], FALSE>>
    [] OTHER -> <<s, FALSE>>

-----------------------------------------------------------------------------
(* Functions Sdport calls.                                                 *)

\* Sdport takes up a request before it issues it.
SdportPrepares ==
  /\ sdhc.stage = "idle" /\ sdhc.issued < SdhcRequests
  /\ \E t \in {"command", "busy", "data"}, r, x \in BOOLEAN, n \in SdhcLengths :
       /\ t # "data" => r /\ ~x /\ \A m \in SdhcLengths : n <= m
       /\ ~x => n < BlockSize \/ n % BlockSize = 0
       /\ sdhc' = [sdhc EXCEPT !.stage = "prepared", !.type = t, !.read = r, !.ext = x,
                               !.length = n, !.phase = "command", !.status = "none", !.required = {}, !.moved = 0,
                               !.count = 0, !.size = 0, !.early = FALSE, !.last = "none",
                               !.issued = @ + 1]

SlotIssueRequest ==
  \/ sdhc.stage = "prepared"
       /\ sdhc' = SendCommand([sdhc EXCEPT !.out = TRUE, !.stage = "issued"])
  \/ sdhc.stage = "next"
       /\ sdhc' = StartPioTransfer([sdhc EXCEPT !.out = TRUE, !.stage = "issued",
                                                !.phase = "transfer"])

SdhcSlotInterrupt ==
  /\ sdhc.is # {} /\ sdhc.stage \notin {"expired", "failed"}
  /\ sdhc' = [sdhc EXCEPT !.events = @ \cup sdhc.is, !.is = {}]

DpcEvents(s, events) ==
  LET r == [s EXCEPT !.required = @ \ events]
      status == IF r.status = "more" THEN "more" ELSE "success"
      m == NonBlockSizeAlignedRequestSM(r)
  IN  CASE "error" \in events ->
             CompleteRequest([r EXCEPT !.unaligned = "idle", !.required = {}, !.current = {}],
                             "error")
        [] "error" \notin events /\ r.required = {} /\ m[2] -> m[1]
        [] "error" \notin events /\ r.required = {} /\ ~m[2] -> CompleteRequest(m[1], status)
        [] OTHER -> r

\* Events are kept even when no request is outstanding any more or yet.
SdhcRequestDpc ==
  /\ sdhc.events # {} /\ sdhc.stage # "next"
  /\ LET s == [sdhc EXCEPT !.events = {}]
         kept == [s EXCEPT !.current = @ \cup sdhc.events]
     IN  sdhc' = CASE sdhc.stage = "idle" -> s
                   [] sdhc.stage # "idle" /\ ~sdhc.out -> kept
                   [] OTHER -> DpcEvents(kept, sdhc.events)

SdhcSdportTimeout ==
  /\ sdhc.stage = "issued" /\ sdhc' = [sdhc EXCEPT !.stage = "expired"]

\* Mutant: the state of the internal request outlives the reset.
ResetHostKeepsUnaligned ==
  /\ sdhc.stage \in {"expired", "failed"}
  /\ sdhc' = [sdhc EXCEPT !.stage = "idle", !.out = FALSE, !.events = {},
                          !.is = {}, !.command = FALSE, !.complete = FALSE, !.left = 0,
                          !.fifo = 0, !.offered = FALSE]

\* Sdport has turned the events off, and turns them on afterwards.
SdhcResetHost ==
  /\ sdhc.stage \in {"expired", "failed"}
  /\ sdhc' = [sdhc EXCEPT !.stage = "idle", !.out = FALSE, !.unaligned = "idle", !.events = {},
                          !.is = {}, !.command = FALSE, !.complete = FALSE, !.left = 0,
                          !.fifo = 0, !.offered = FALSE]

-----------------------------------------------------------------------------
(* The controller and the card.                                            *)

SdhcResponds ==
  /\ sdhc.command
  /\ sdhc' = [sdhc EXCEPT !.command = FALSE, !.is = @ \cup {"command"}]

\* A block was received, or there is room for one to send.
SdhcBlock ==
  /\ ~sdhc.command /\ sdhc.left > 0 /\ sdhc.fifo = 0 /\ ~sdhc.offered
  /\ sdhc' = IF sdhc.read
             THEN [sdhc EXCEPT !.fifo = sdhc.width, !.left = @ - 1, !.complete = sdhc.left = 1,
                               !.is = @ \cup {"ready"}]
             ELSE [sdhc EXCEPT !.offered = TRUE, !.is = @ \cup {"ready"}]

SdhcSent ==
  /\ ~sdhc.read /\ sdhc.fifo > 0
  /\ sdhc' = [sdhc EXCEPT !.fifo = 0, !.left = @ - 1, !.complete = sdhc.left = 1]

SdhcDone ==
  /\ sdhc.complete /\ ~sdhc.command
  /\ sdhc' = [sdhc EXCEPT !.complete = FALSE, !.is = @ \cup {"complete"}]

SdhcError ==
  /\ sdhc.command \/ sdhc.left > 0
  /\ sdhc' = [sdhc EXCEPT !.command = FALSE, !.left = 0, !.complete = FALSE, !.is = @ \cup {"error"}]

SdhcHandling == SlotIssueRequest \/ SdhcSlotInterrupt \/ SdhcRequestDpc \/ SdhcResetHost

SdhcNext ==
  \/ SdportPrepares
  \/ SdhcHandling
  \/ SdhcSdportTimeout
  \/ SdhcResponds \/ SdhcBlock \/ SdhcSent \/ SdhcDone \/ SdhcError

SdhcFairness == WF_sdhc(SdhcHandling) /\ WF_sdhc(SdhcSdportTimeout)

-----------------------------------------------------------------------------
(***************************************************************************)
(* A transfer that ended with success moved its whole length, from and to  *)
(* a data port that was ready.  (Not so when a block is followed by an     *)
(* internal request; nor after one was forgotten.)                         *)
(***************************************************************************)
SdhcTransferExact ==
  (sdhc.last = "success" /\ ~sdhc.skipped /\ sdhc.tailCount = 0) =>
     sdhc.moved = sdhc.length /\ (~sdhc.early \/ (sdhc.ext /\ sdhc.length % BlockSize # 0))

\* The NT_ASSERTs of the driver hold as long as no internal request is forgotten.
SdhcAssertionsHold == sdhc.skipped \/ ~sdhc.broken

\* A transfer that ends with success has moved its last, incomplete block too.
SdhcTailMoved == sdhc.last = "success" => sdhc.moved >= sdhc.length

SdhcGoingOn == sdhc.stage = "idle"
=============================================================================
