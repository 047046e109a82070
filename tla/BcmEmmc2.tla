------------------------------ MODULE BcmEmmc2 ------------------------------
(***************************************************************************)
(* The driver of the eMMC2 host of the Pi 4 (sd/bcm2711/brcme88c).  Short  *)
(* transfers go block by block through the data port; longer ones by DMA   *)
(* through a bounce buffer described by a chain of descriptors, of which   *)
(* every transfer marks another one as the last.  The signaling voltage is *)
(* the product of a host register and of a regulator behind the firmware.  *)
(*                                                                         *)
(* Sdport calls the DPC and the issuing functions one after the other and  *)
(* resets the host after a request that failed or that it gave up.         *)
(* Lengths are counted in blocks, and a page has two of them.              *)
(***************************************************************************)
EXTENDS Integers, FiniteSets
LOCAL INSTANCE Functions

CONSTANTS
  EmmcLengths,     \* of transfers, in blocks
  EmmcPages,       \* of the bounce buffer at first
  EmmcThreshold    \* PioTransferMaxThreshold, in blocks

ASSUME EmmcAssumption ==
  EmmcLengths \subseteq Nat \ {0} /\ EmmcPages \in Nat \ {0} /\ EmmcThreshold \in Nat

VARIABLE emmc

PageBlocks == 2

\* The descriptors of a new buffer: whole pages, the first one marked.
Descriptors(pages) == [i \in 0 .. pages - 1 |-> [end |-> i = 0, length |-> PageBlocks]]

EmmcInit ==
  emmc = [stage |-> "idle",            \* Sdport: idle, issued, next, expired, failed
          type |-> "none", read |-> TRUE, length |-> 0, phase |-> "command",
          blocks |-> 0, required |-> {}, status |-> "none",          \* the request
          dma |-> "none", desc |-> Descriptors(EmmcPages), endAt |-> 0,
          bounce |-> 0,                                              \* of this transfer
          events |-> {},                               \* kept by Sdport for the DPC
          is |-> {}, errorsOn |-> TRUE, command |-> FALSE, complete |-> FALSE,
          left |-> 0, port |-> FALSE,                                \* the controller
          moved |-> 0, early |-> FALSE, last |-> "none",
          regulator |-> FALSE, signaling |-> FALSE,    \* 1.8 V: the regulator, the host
          misled |-> FALSE]                            \* a switch failed half-way

-----------------------------------------------------------------------------
(* Sending a command.                                                      *)

\* The states with a buffer for a long transfer; the old one stays when it fails.
AllocateDmaBuffers(s) ==
  LET pages == (s.length + PageBlocks - 1) \div PageBlocks
  IN  {[s EXCEPT !.desc = Descriptors(pages), !.endAt = 0]}

\* The pairs of the state and whether it uses DMA.
CommandShouldUseDma(s) ==
  LET room == PageBlocks * Cardinality(DOMAIN s.desc)
  IN  CASE s.length <= EmmcThreshold -> {<<s, FALSE>>}
        [] s.length > EmmcThreshold /\ s.length <= room -> {<<s, TRUE>>}
        [] OTHER -> {<<s, FALSE>>} \cup {<<t, TRUE>> : t \in AllocateDmaBuffers(s)}

\* Mutant: the last descriptor of the previous transfer stays marked.
EndDescriptorLeaves(s) ==
  LET e == (s.length - 1) \div PageBlocks
  IN  [s EXCEPT !.endAt = e,
                !.desc = [@ EXCEPT ![e] = [end |-> TRUE, length |-> s.length - e * PageBlocks]]]

\* The mark moves from the last descriptor of the previous transfer to this one's.
EndDescriptor(s) ==
  LET e == (s.length - 1) \div PageBlocks
      clean == [s.desc EXCEPT ![s.endAt] = [end |-> FALSE, length |-> PageBlocks]]
  IN  [s EXCEPT !.endAt = e,
                !.desc = [clean EXCEPT ![e] = [end |-> TRUE, length |-> s.length - e * PageBlocks]]]

\* A write is copied to the bounce buffer before the command starts.
SetUpDma(s) ==
  [EndDescriptor(s) EXCEPT !.dma = IF s.read THEN "read" ELSE "write",
                           !.bounce = IF s.read THEN 0 ELSE s.length,
                           !.required = {"command", "complete"}]

EmmcSendCommand(s) ==
  LET t == [s EXCEPT !.dma = "none", !.command = TRUE, !.complete = s.type = "busy",
                     !.blocks = IF s.type = "data" THEN s.length ELSE 0,
                     !.left = IF s.type = "data" THEN s.length ELSE 0, !.port = FALSE,
                     !.required = {"command"} \cup (CASE s.type = "busy" -> {"complete"}
                                                      [] s.type = "data" -> {"ready"}
                                                      [] OTHER -> {})]
  IN  IF s.type = "data"
      THEN {IF p[2] THEN SetUpDma(p[1]) ELSE p[1] : p \in CommandShouldUseDma(t)}
      ELSE {t}

-----------------------------------------------------------------------------
(* Requests, the interrupt and the DPC.                                    *)

EmmcComplete(s, status) ==
  [s EXCEPT !.stage = CASE status = "error" -> "failed"
                        [] s.type = "data" /\ status # "error"
                             /\ (s.phase = "command" \/ status = "more") -> "next"
                        [] OTHER -> "idle",
            !.status = status,
            !.last = IF status = "success" /\ s.type = "data" /\ s.phase = "transfer"
                     THEN "success" ELSE "none"]

EmmcStartPioTransfer(s) ==
  LET last == s.blocks = 1
  IN  [s EXCEPT !.moved = @ + 1, !.blocks = @ - 1, !.early = @ \/ ~s.port,
                !.port = FALSE, !.left = IF @ > 0 THEN @ - 1 ELSE 0, !.complete = s.left = 1,
                !.required = @ \cup {IF last THEN "complete" ELSE "ready"},
                !.status = IF last THEN "success" ELSE "more"]

\* The transfer was done when the command ended: this completes at once.
StartDmaTransfer(s) ==
  EmmcComplete([s EXCEPT !.moved = IF s.dma = "read" THEN s.bounce ELSE @, !.dma = "none"],
               "success")

EmmcIssueRequest ==
  \/ /\ emmc.stage = "idle"
     /\ \E t \in {"command", "busy", "data"}, r \in BOOLEAN, n \in EmmcLengths :
          /\ t # "data" => r /\ \A m \in EmmcLengths : n <= m
          /\ emmc' \in EmmcSendCommand([emmc EXCEPT !.stage = "issued", !.type = t,
               !.read = r, !.length = n, !.phase = "command", !.status = "none",
               !.moved = 0, !.early = FALSE, !.last = "none"])
  \/ /\ emmc.stage = "next"
     /\ LET s == [emmc EXCEPT !.stage = "issued", !.phase = "transfer"]
        IN  emmc' = IF s.dma # "none" THEN StartDmaTransfer(s) ELSE EmmcStartPioTransfer(s)

EmmcSlotInterrupt ==
  /\ emmc.is # {}
  /\ emmc' = [emmc EXCEPT !.events = @ \cup emmc.is, !.is = {}]

EmmcDpc(s, events) ==
  LET r == [s EXCEPT !.required = IF "error" \in events THEN {} ELSE @ \ events]
  IN  CASE "error" \in events -> EmmcComplete(r, "error")
        [] "error" \notin events /\ r.required = {} ->
             EmmcComplete(r, IF r.status = "more" THEN "more" ELSE "success")
        [] OTHER -> r

EmmcRequestDpc ==
  /\ emmc.events # {}
  /\ LET s == [emmc EXCEPT !.events = {}]
     IN  emmc' = IF emmc.stage = "issued" THEN EmmcDpc(s, emmc.events) ELSE s

EmmcSdportTimeout ==
  /\ emmc.stage = "issued" /\ emmc' = [emmc EXCEPT !.stage = "expired"]

\* Masking any event, the card's interrupt too, masks all errors with it.
EmmcToggleEvents ==
  /\ emmc.stage = "issued"
  /\ emmc' = [emmc EXCEPT !.errorsOn = ~@]

\* Mutant of HostSignaling: the register is left as the reset leaves it.
HostSignalingCleared(s, all) == [s EXCEPT !.signaling = ~all /\ @, !.misled = @ /\ ~all]

\* The register follows the regulator only one way, but a full reset clears it.
HostSignaling(s, all) == [s EXCEPT !.signaling = (~all /\ @) \/ s.regulator,
                                   !.misled = @ /\ ~all]

\* Sdport turns the events off, resets both lines, and turns the events on again.
EmmcResetHost ==
  \/ /\ emmc.stage \in {"expired", "failed"}
     /\ emmc' = [HostSignaling(emmc, FALSE) EXCEPT !.stage = "idle", !.is = {}, !.events = {},
                   !.command = FALSE, !.complete = FALSE, !.left = 0, !.port = FALSE,
                   !.errorsOn = TRUE]
  \/ /\ emmc.stage = "idle"
     /\ emmc' = [HostSignaling(emmc, TRUE) EXCEPT !.is = {}, !.events = {}, !.complete = FALSE]

(***************************************************************************)
(* Switching the signaling voltage: the data lines have to be low, the     *)
(* regulator is asked, the register is written and has to hold the value,  *)
(* and the data lines have to be high; the regulator alone is set back     *)
(* after a failure, if the firmware obeys.                                 *)
(***************************************************************************)
SetSignalingVoltage(v) ==
  /\ emmc.stage = "idle"
  /\ LET set == [emmc EXCEPT !.regulator = v]
         back == {emmc.regulator, v}
     IN  \/ UNCHANGED emmc
         \/ \E g \in back : emmc' = [set EXCEPT !.regulator = g, !.misled = TRUE]
         \/ \E g \in back : emmc' = [set EXCEPT !.signaling = v, !.regulator = g, !.misled = TRUE]
         \/ emmc' = [set EXCEPT !.signaling = v, !.misled = FALSE]

-----------------------------------------------------------------------------
(* The controller and the card.                                            *)

EmmcResponds ==
  /\ emmc.command
  /\ emmc' = [emmc EXCEPT !.command = FALSE, !.is = @ \cup {"command"}]

\* A block to read, or room for one to write.
EmmcBlock ==
  /\ ~emmc.command /\ emmc.left > 0 /\ emmc.dma = "none" /\ ~emmc.port
  /\ emmc' = [emmc EXCEPT !.port = TRUE, !.is = @ \cup {"ready"}]

\* What the descriptors describe, up to the first one marked.
ChainLength(desc) ==
  LET end == CHOOSE i \in DOMAIN desc : desc[i].end /\ \A j \in 0 .. i - 1 : ~desc[j].end
  IN  FoldFunctionOnSet(+, 0, [i \in DOMAIN desc |-> desc[i].length], 0 .. end)

EmmcDma ==
  /\ ~emmc.command /\ emmc.left > 0 /\ emmc.dma # "none"
  /\ emmc' = [emmc EXCEPT !.left = 0, !.complete = TRUE,
                !.bounce = IF emmc.read THEN ChainLength(emmc.desc) ELSE @,
                !.moved = IF emmc.read THEN @ ELSE ChainLength(emmc.desc)]

EmmcDone ==
  /\ emmc.complete /\ ~emmc.command /\ emmc.left = 0
  /\ emmc' = [emmc EXCEPT !.complete = FALSE, !.is = @ \cup {"complete"}]

EmmcError ==
  /\ emmc.command \/ emmc.left > 0
  /\ emmc' = [emmc EXCEPT !.command = FALSE, !.left = 0, !.complete = FALSE,
                !.is = IF emmc.errorsOn THEN @ \cup {"error"} ELSE @]

EmmcHandling ==
  \/ emmc.stage = "next" /\ EmmcIssueRequest
  \/ EmmcSlotInterrupt
  \/ EmmcRequestDpc
  \/ emmc.stage # "idle" /\ EmmcResetHost

EmmcNext ==
  \/ EmmcIssueRequest \/ EmmcResetHost
  \/ EmmcSlotInterrupt \/ EmmcRequestDpc
  \/ EmmcToggleEvents
  \/ \E v \in BOOLEAN : SetSignalingVoltage(v)
  \/ EmmcSdportTimeout
  \/ EmmcResponds \/ EmmcBlock \/ EmmcDma \/ EmmcDone \/ EmmcError

\* Sdport times every request out.
EmmcFairness == WF_emmc(EmmcHandling) /\ WF_emmc(EmmcSdportTimeout)

-----------------------------------------------------------------------------
(***************************************************************************)
(* A transfer that ended with success moved its whole length and no more,  *)
(* whatever transfers, failures and new buffers went before: the chain of  *)
(* descriptors covers it, and no block went through a port not ready.      *)
(***************************************************************************)
EmmcTransferExact ==
  emmc.last = "success" => emmc.moved = emmc.length /\ ~emmc.early

\* Until a switch fails half-way, the host signals at the regulator's voltage.
EmmcSignaling == emmc.misled \/ emmc.signaling = emmc.regulator

\* The register matches the regulator, also when a switch has failed.
EmmcSignalingMatches == emmc.signaling = emmc.regulator

EmmcGoingOn == emmc.stage = "idle"
=============================================================================
