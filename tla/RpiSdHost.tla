----------------------------- MODULE RpiSdHost -----------------------------
(***************************************************************************)
(* The driver of the Pi's own SD host (sd/bcm2836/rpisdhc): Sdport issues  *)
(* one request at a time, an interrupt and its DPC end commands, and a     *)
(* worker thread moves the blocks of a transfer through the FIFO.  A       *)
(* request Sdport gave up is taken back by the host reset.  In crash dump  *)
(* mode there is no worker: the transfer runs inside the issuing call.     *)
(***************************************************************************)
EXTENDS Integers

CONSTANT SdBlocks        \* most blocks of a transfer (bound)

ASSUME SdAssumption == SdBlocks \in Nat \ {0}

VARIABLE sd

SdErrors == {"cmdTimeout", "crc"}
SdWorking == {"block", "stop", "done"}     \* the worker has the request

SdInit ==
  \E d \in BOOLEAN :
    sd = [dump |-> d,                                  \* crashdumpMode
          stage |-> "idle",                            \* Sdport: idle, issued, expired, failed
          follow |-> FALSE,                            \* Sdport: StartTransfer comes next
          type |-> "command", multi |-> FALSE, select |-> FALSE,
          count |-> 0, blocks |-> 0,                   \* asked for; Command.BlockCount
          required |-> {}, status |-> "success",       \* of the request
          out |-> FALSE, doIo |-> FALSE, lock |-> "none",
          worker |-> "wait", result |-> "success", shutdown |-> FALSE,
          reset |-> "none",
          hsts |-> {}, dataEn |-> FALSE, busyEn |-> TRUE,
          events |-> {},                               \* kept by Sdport for the DPC
          dataDue |-> FALSE, busyDue |-> FALSE, erred |-> FALSE,   \* the card
          moved |-> 0, last |-> "none", twice |-> FALSE, stale |-> FALSE]

-----------------------------------------------------------------------------
(* Parts of the driver.                                                    *)

\* SdPortCompleteRequest; what comes after Sdport has given up changes nothing.
completeRequest(s, status) ==
  [s EXCEPT !.status = status, !.twice = @ \/ s.stage \in {"idle", "failed"},
            !.stage = CASE @ = "issued" /\ status = "success" -> "idle"
                        [] @ = "issued" /\ status # "success" -> "failed"
                        [] OTHER -> @,
            !.follow = s.stage = "issued" /\ s.type \in {"read", "write"} /\ status = "success",
            !.last = IF s.type = "transfer" /\ s.stage = "issued" THEN status ELSE "none"]

getErrorStatus(errors) == IF "crc" \in errors THEN "crc" ELSE "timeout"

(***************************************************************************)
(* Waits for the previous command, acknowledges its errors, drains the     *)
(* FIFO before a read and writes the command: the pairs of the new state   *)
(* and the status.                                                         *)
(***************************************************************************)
sendCommandInternal(s, transfer, busy) ==
  LET clean == [s EXCEPT !.hsts = @ \ SdErrors]
      sent == [clean EXCEPT !.dataDue = transfer # "none", !.busyDue = busy,
                            !.hsts = IF transfer = "read" THEN @ \ {"data"} ELSE @]
  IN  {<<s, "timeout">>, <<sent, "success">>}
        \cup (IF transfer = "read" /\ "data" \in s.hsts THEN {<<clean, "timeout">>} ELSE {})

\* A command that is waited for may fail, and its errors stay in HSTS.
waitForLastCommandCompletion(pairs) ==
  pairs \cup { <<[p[1] EXCEPT !.hsts = @ \cup {e}], getErrorStatus({e})>> :
               p \in {q \in pairs : q[2] = "success"}, e \in SdErrors }

-----------------------------------------------------------------------------
(* Requests of Sdport.                                                     *)

SdFresh(t, m, n, c) ==
  [sd EXCEPT !.stage = "issued", !.type = t, !.multi = m, !.count = n, !.blocks = n,
             !.select = c, !.moved = 0, !.last = "none", !.erred = FALSE,
             !.status = "pending",
             !.required = CASE t = "busy" -> {"busy"}
                            [] t \in {"read", "write"} -> {"data"}
                            [] OTHER -> {},
             !.dataEn = @ \/ t \in {"read", "write"}]

\* A command without required events ends before the call returns.
sendRequestCommand(t, m, n, c) ==
  /\ sd.stage = "idle" /\ ~sd.follow /\ sd.reset = "none" /\ ~sd.shutdown
  /\ (c => t \in {"busy", "command"}) /\ (t \notin {"read", "write"} => n = 1 /\ ~m)
  /\ (~m => n = 1)
  /\ LET s == SdFresh(t, m, n, c)
         transfer == IF t \in {"read", "write"} THEN t ELSE "none"
         waits == s.required = {}
         sent == sendCommandInternal(s, transfer, t = "busy")
     IN  \E p \in IF waits THEN waitForLastCommandCompletion(sent) ELSE sent :
           sd' = CASE waits -> completeRequest(p[1], p[2])
                   [] ~waits /\ p[2] = "success" -> p[1]
                   [] OTHER -> [p[1] EXCEPT !.stage = "failed", !.status = p[2]]

\* Handed to the worker; a crash dump makes the transfer in this call.
startTransferPio ==
  /\ sd.stage = "idle" /\ sd.follow
  /\ LET s == [sd EXCEPT !.follow = FALSE, !.stage = "issued", !.type = "transfer",
                         !.required = IF sd.multi THEN @ \cup {"busy"} ELSE @]
     IN  sd' = CASE s.dump -> [s EXCEPT !.worker = "block"]
                 [] ~s.dump /\ s.out -> [s EXCEPT !.stale = TRUE, !.stage = "failed"]
                 [] OTHER -> [s EXCEPT !.out = TRUE, !.doIo = TRUE]

-----------------------------------------------------------------------------
(* The interrupt and its DPC.                                              *)

\* The flag of the data interrupt cannot be acknowledged: the source is masked.
sdhcInterrupt ==
  /\ (sd.dataEn /\ "data" \in sd.hsts) \/ (sd.busyEn /\ "busy" \in sd.hsts)
  /\ sd' = [sd EXCEPT !.dataEn = @ /\ "data" \notin sd.hsts,
                      !.events = @ \cup sd.hsts, !.hsts = @ \cap {"data"}]

\* Mutant: a transfer of several blocks is reported like any other request.
DpcReportsSuccess(s, events) ==
  LET r == [s EXCEPT !.required = @ \ events]
  IN  IF r.required = {} THEN completeRequest(r, "success") ELSE r

RequestDpc(s, events) ==
  LET errors == IF s.select THEN events \cap {"crc"} ELSE events \cap SdErrors
      r == [s EXCEPT !.required = IF errors # {} THEN {} ELSE @ \ events]
      status == IF s.type = "transfer" /\ s.multi THEN s.status ELSE "success"
  IN  CASE errors # {} -> completeRequest(r, getErrorStatus(errors))
        [] errors = {} /\ r.required = {} -> completeRequest(r, status)
        [] OTHER -> r

\* Sdport calls it with what it kept while a request is outstanding.
sdhcRequestDpc ==
  /\ sd.events # {}
  /\ LET s == [sd EXCEPT !.events = {}]
     IN  sd' = IF sd.stage = "issued" THEN RequestDpc(s, sd.events) ELSE s

-----------------------------------------------------------------------------
(* The worker.                                                             *)

transferWorkerWakes ==
  /\ sd.worker = "wait" /\ (sd.doIo \/ sd.shutdown)
  /\ sd' = IF sd.doIo THEN [sd EXCEPT !.doIo = FALSE, !.worker = "lock"]
           ELSE [sd EXCEPT !.worker = "ended"]

\* Under the lock; a request that was taken back is not found any more.
transferWorkerTakes ==
  /\ sd.worker = "lock" /\ sd.lock = "none"
  /\ sd' = IF sd.out THEN [sd EXCEPT !.out = FALSE, !.lock = "worker", !.worker = "block"]
           ELSE [sd EXCEPT !.worker = "wait"]

AfterBlock(s, status) ==
  [s EXCEPT !.result = status,
            !.worker = CASE ~s.multi -> "done"
                         [] s.multi /\ status = "success" /\ s.blocks > 0 -> "block"
                         [] OTHER -> "stop"]

OneLess(s) == [s EXCEPT !.blocks = IF s.multi THEN @ - 1 ELSE @]

\* An error flag or too long a wait ends it; after a write the card may fail.
transferSingleBlockPio ==
  /\ sd.worker = "block"
  /\ LET errors == sd.hsts \cap SdErrors
         moves == [sd EXCEPT !.moved = @ + 1, !.hsts = @ \ {"data"},
                             !.dataDue = @ /\ sd.multi]
     IN  \/ errors # {} /\ sd' = AfterBlock(sd, getErrorStatus(errors))
         \/ errors = {} /\ "data" \notin sd.hsts /\ sd' = AfterBlock(sd, "timeout")
         \/ errors = {} /\ "data" \in sd.hsts /\ sd' = AfterBlock(OneLess(moves), "success")
         \/ errors = {} /\ "data" \in sd.hsts /\ \E e \in SdErrors :
              sd' = AfterBlock([moves EXCEPT !.hsts = @ \cup {e}], getErrorStatus({e}))

SdFreed(s) ==
  [s EXCEPT !.lock = IF @ = "worker" THEN "none" ELSE @, !.worker = "wait"]

\* Always: otherwise the card stays in its data state.  The DPC reports status.
stopTransmission ==
  /\ sd.worker = "stop"
  /\ \E p \in sendCommandInternal([sd EXCEPT !.status = sd.result], "none", TRUE) :
       sd' = [p[1] EXCEPT !.worker = "release",
                          !.stage = IF sd.dump /\ sd.result # "success" THEN "failed" ELSE @]

transferSingleBlockDone ==
  /\ sd.worker = "done"
  /\ sd' = [completeRequest(sd, sd.result) EXCEPT !.worker = "release"]

transferWorkerReleases == sd.worker = "release" /\ sd' = SdFreed(sd)

sdhcCleanup ==
  /\ sd.stage = "idle" /\ ~sd.follow /\ sd.reset = "none" /\ ~sd.shutdown /\ ~sd.dump
  /\ sd' = [sd EXCEPT !.shutdown = TRUE]

-----------------------------------------------------------------------------
(* Sdport gives a request up; after that, and after a failure, the host is *)
(* reset under the lock.                                                   *)

SdportTimeout ==
  /\ sd.stage = "issued" /\ sd.reset = "none" /\ (sd.dump => sd.worker = "wait")
  /\ sd' = [sd EXCEPT !.stage = "expired"]

\* Sdport turns the events off before, and drops what it kept for the DPC.
sdhcToggleEvents ==
  /\ sd.stage \in {"expired", "failed"} /\ sd.reset = "none" /\ (sd.dump => sd.worker = "wait")
  /\ sd' = [sd EXCEPT !.busyEn = FALSE, !.events = {}, !.reset = "command"]

\* Mutant: the request is left to the worker.
ResetLeaves(s) == s

\* The request the worker has not taken is taken back.
ResetTakes(s) == [s EXCEPT !.out = FALSE]

\* SdResetTypeCmd writes HSTS with bits nobody initialised.
resetHostCommand ==
  /\ sd.reset = "command" /\ sd.lock = "none"
  /\ \E gone \in SUBSET sd.hsts :
       sd' = [ResetTakes(sd) EXCEPT !.hsts = @ \ (gone \cup {"busy"}), !.reset = "data"]

\* The FIFO is cleared; Sdport ends the request and turns the events on again.
resetHostData ==
  /\ sd.reset = "data" /\ sd.lock = "none"
  /\ sd' = [ResetTakes(sd) EXCEPT !.hsts = @ \ {"data", "busy"}, !.dataDue = FALSE,
              !.busyDue = FALSE, !.busyEn = TRUE, !.events = {}, !.reset = "none",
              !.stage = "idle", !.follow = FALSE, !.last = "none"]

-----------------------------------------------------------------------------
(* The card and its controller.                                            *)

SdCardData ==
  /\ sd.dataDue /\ "data" \notin sd.hsts
  /\ sd' = [sd EXCEPT !.hsts = @ \cup {"data"}]

SdCardReady ==
  /\ sd.busyDue /\ sd' = [sd EXCEPT !.hsts = @ \cup {"busy"}, !.busyDue = FALSE]

\* At most one error for each request.
SdCardError ==
  /\ (sd.dataDue \/ sd.busyDue) /\ ~sd.erred
  /\ \E e \in SdErrors : sd' = [sd EXCEPT !.hsts = @ \cup {e}, !.erred = TRUE]

SdWorker ==
  \/ transferWorkerWakes
  \/ transferWorkerTakes
  \/ transferSingleBlockPio
  \/ stopTransmission
  \/ transferSingleBlockDone
  \/ transferWorkerReleases

SdHandling ==
  \/ SdWorker
  \/ sdhcInterrupt
  \/ sdhcRequestDpc
  \/ sdhcToggleEvents
  \/ resetHostCommand
  \/ resetHostData

SdNext ==
  \/ \E t \in {"command", "busy", "read", "write"}, m, c \in BOOLEAN, n \in 1 .. SdBlocks :
       sendRequestCommand(t, m, n, c)
  \/ startTransferPio
  \/ SdHandling
  \/ SdportTimeout
  \/ sdhcCleanup
  \/ SdCardData \/ SdCardReady \/ SdCardError

\* Sdport times every request out.
SdFairness == WF_sd(SdHandling) /\ WF_sd(SdportTimeout)

-----------------------------------------------------------------------------
(***************************************************************************)
(* The worker has a request only while Sdport waits for it or has not      *)
(* finished taking it back: nothing completes a request under the worker   *)
(* and no completed one is found by it or by startTransferPio.             *)
(***************************************************************************)
SdOwned ==
  /\ ~sd.twice /\ ~sd.stale
  /\ (sd.out \/ sd.worker \in SdWorking) => sd.stage \in {"issued", "expired"}

\* A transfer that ended with success moved all its blocks, and no more.
SdTransferExact == sd.last = "success" => sd.moved = sd.count

SdGoingOn == sd.stage = "idle"
=============================================================================
