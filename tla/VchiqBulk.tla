----------------------------- MODULE VchiqBulk ------------------------------
(***************************************************************************)
(* Bulk transfers of one service in one direction: IOCTL_VCHIQ_BULK_*      *)
(* (VchiqProcessBulkTransfer, VchiqBulkTransfer), the firmware that does   *)
(* them in order, the trigger thread that completes the request at the     *)
(* head of the queue for every BULK_*_DONE (VchiqProcessRxSlot), and the   *)
(* AWAIT_COMPLETION request that takes the user data of the transfer from  *)
(* PendingBulkMsgList (VchiqRemovePendingMsg).                             *)
(*                                                                         *)
(* Requests, list and DONE messages are tied together by their order only. *)
(* PendingBulkMsgMutex is held from the first step of the handler to its   *)
(* last.                                                                   *)
(***************************************************************************)
EXTENDS Naturals, SequencesExt

CONSTANTS
  Bulks,      \* transfers the client asks for
  BulkUpsets  \* what may happen: "cancel", "fail", "abort"

NoBulk == "no_bulk"

ASSUME BulkAssumption == NoBulk \notin Bulks /\ BulkUpsets \subseteq {"cancel", "fail", "abort"}

VARIABLE blk  \* a record, see BulkInit

BulkInit ==
  blk = [pc |-> "idle",        \* the handler: "idle", "listed", "forwarded", "mapped",
                               \* "remove", "retrieve"
         cur |-> NoBulk,       \* its transfer
         state |-> [b \in Bulks |-> "new"],  \* ... "active", "success", "failed", "cancelled"
         list |-> <<>>,        \* PendingBulkMsgList[BulkType]
         queue |-> <<>>,       \* FileQueue[FILE_QUEUE_RX_DATA or _TX_DATA]
         pages |-> {},         \* transfers whose page list is allocated
         toFirmware |-> <<>>,  \* BULK_RX or BULK_TX messages, in order
         moved |-> {},         \* transfers the firmware has done
         toArm |-> <<>>,       \* DONE messages, in order
         hand |-> NoBulk,      \* the DONE message between queue and PendingDataMsgList
         inbox |-> <<>>,       \* DONE messages in PendingDataMsgList
         twice |-> FALSE,      \* history: a request was completed that had been already
         mixed |-> FALSE,      \* history: a client was told the user data of another transfer
         upset |-> {}]         \* history: what has happened

InBulkQueue(s, b) == \E i \in 1 .. Len(s.queue) : s.queue[i] = b

\* WdfIoQueueRetrieveFoundRequest, or the framework's cancellation of a request in its queue.
TakenFrom(q, b) == RemoveAt(q, CHOOSE i \in 1 .. Len(q) : q[i] = b)

(***************************************************************************)
(* WdfRequestComplete: the request's context is cleaned up with it, which  *)
(* frees the page list (VchiqTransferRequestContextCleanup).               *)
(***************************************************************************)
BulkComplete(s, b, how) ==
  [s EXCEPT !.state[b] = how, !.pages = @ \ {b}, !.twice = @ \/ s.state[b] # "active"]

-----------------------------------------------------------------------------
(* The handler. *)

\* The mutex is taken and the transfer listed, if there is memory for the entry.
AddPendingBulkMsg(b) ==
  /\ blk.pc = "idle"
  /\ blk.state[b] = "new"
  /\ LET active == [blk EXCEPT !.state[b] = "active"]
     IN  \/ blk' = [active EXCEPT !.pc = "listed", !.cur = b, !.list = Append(@, b)]
         \/ /\ "fail" \in BulkUpsets
            /\ blk' = BulkComplete(active, b, "failed")

\* VchiqRemovePendingBulkMsg without completion data: the last entry goes.
DropLast(s) == [s EXCEPT !.list = IF @ = <<>> THEN @ ELSE Front(@)]

\* From here on the request can be cancelled.
ForwardBulk ==
  /\ blk.pc = "listed"
  /\ \/ blk' = [blk EXCEPT !.pc = "forwarded", !.queue = Append(@, blk.cur)]
     \/ /\ "fail" \in BulkUpsets
        /\ blk' = [BulkComplete(DropLast(blk), blk.cur, "failed") EXCEPT !.pc = "idle"]

(***************************************************************************)
(* VchiqBulkTransfer: the scatter-gather list, the page list and the       *)
(* context that frees both.  What is allocated before a failure is freed.  *)
(***************************************************************************)
MapBulk ==
  /\ blk.pc = "forwarded"
  /\ \/ blk' = [blk EXCEPT !.pc = "mapped",
                           !.pages = IF blk.state[blk.cur] = "active" THEN @ \cup {blk.cur} ELSE @]
     \/ "fail" \in BulkUpsets /\ blk' = [blk EXCEPT !.pc = "remove"]

\* Mutant of SendBulk: after a failure the entry of the list stays.
SendBulkKeepsEntry ==
  /\ blk.pc = "mapped"
  /\ \/ blk' = [blk EXCEPT !.pc = "idle", !.cur = NoBulk, !.toFirmware = Append(@, blk.cur)]
     \/ "fail" \in BulkUpsets /\ blk' = [blk EXCEPT !.pc = "retrieve"]

\* VchiqQueueMessageAsync; without a free slot it gives up.
SendBulk ==
  /\ blk.pc = "mapped"
  /\ \/ blk' = [blk EXCEPT !.pc = "idle", !.cur = NoBulk, !.toFirmware = Append(@, blk.cur)]
     \/ "fail" \in BulkUpsets /\ blk' = [blk EXCEPT !.pc = "remove"]

RemoveBulk ==
  /\ blk.pc = "remove"
  /\ blk' = [DropLast(blk) EXCEPT !.pc = "retrieve"]

\* A request that is not in the queue any more is somebody else's to complete.
RetrieveBulk ==
  /\ blk.pc = "retrieve"
  /\ LET mine == InBulkQueue(blk, blk.cur)
         s == IF mine THEN BulkComplete(blk, blk.cur, "failed") ELSE blk
     IN  blk' = [s EXCEPT !.queue = IF mine THEN TakenFrom(@, blk.cur) ELSE @,
                          !.pc = "idle", !.cur = NoBulk]

-----------------------------------------------------------------------------
(* The trigger thread. *)

(***************************************************************************)
(* BULK_*_DONE: the request at the head of the queue is completed, with    *)
(* success if the transfer was not aborted and the request has a context.  *)
(* Without a request the message is dropped.                               *)
(***************************************************************************)
BulkDone ==
  /\ blk.hand = NoBulk
  /\ blk.toArm # <<>>
  /\ LET s == [blk EXCEPT !.toArm = Tail(@), !.hand = Head(blk.toArm).bulk]
         b == Head(blk.queue)
     IN  IF blk.queue = <<>> THEN blk' = [blk EXCEPT !.toArm = Tail(@)]
         ELSE blk' = [BulkComplete(s, b, IF Head(blk.toArm).ok /\ b \in blk.pages
                                         THEN "success" ELSE "failed")
                        EXCEPT !.queue = Tail(@)]

\* VchiqProcessNewRxMsg, which every client of the service sees in order.
AddPendingDone ==
  /\ blk.hand # NoBulk
  /\ blk' = [blk EXCEPT !.inbox = Append(@, blk.hand), !.hand = NoBulk]

(***************************************************************************)
(* VchiqRemovePendingMsg, VchiqRemovePendingBulkMsg: the first entry of    *)
(* the list has the user data and the mode of the transfer that is done.   *)
(***************************************************************************)
TakePendingBulkMsg ==
  /\ blk.inbox # <<>>
  /\ blk.pc = "idle"
  /\ blk' = [blk EXCEPT !.inbox = Tail(@), !.list = IF @ = <<>> THEN @ ELSE Tail(@),
                        !.mixed = @ \/ (blk.list # <<>> /\ Head(blk.list) # Head(blk.inbox))]

-----------------------------------------------------------------------------
(* External: the firmware and the client. *)

FirmwareBulk ==
  /\ blk.toFirmware # <<>>
  /\ LET b == Head(blk.toFirmware)
     IN  \/ blk' = [blk EXCEPT !.toFirmware = Tail(@), !.moved = @ \cup {b},
                               !.toArm = Append(@, [bulk |-> b, ok |-> TRUE])]
         \/ /\ "abort" \in BulkUpsets
            /\ blk' = [blk EXCEPT !.toFirmware = Tail(@),
                                  !.toArm = Append(@, [bulk |-> b, ok |-> FALSE])]

\* A queued request is cancelled; closing the file purges the queue alike.
CancelBulk(b) ==
  /\ "cancel" \in BulkUpsets
  /\ InBulkQueue(blk, b)
  /\ blk' = [BulkComplete(blk, b, "cancelled")
               EXCEPT !.queue = TakenFrom(@, b), !.upset = @ \cup {"cancel"}]

BulkHandler == ForwardBulk \/ MapBulk \/ SendBulk \/ RemoveBulk \/ RetrieveBulk
BulkTrigger == BulkDone \/ AddPendingDone \/ TakePendingBulkMsg

BulkNext ==
  \/ \E b \in Bulks : AddPendingBulkMsg(b) \/ CancelBulk(b)
  \/ BulkHandler \/ BulkTrigger \/ FirmwareBulk

BulkFairness == WF_blk(BulkHandler) /\ WF_blk(BulkTrigger) /\ WF_blk(FirmwareBulk)

BulkSpec == BulkInit /\ [][BulkNext]_blk /\ BulkFairness

-----------------------------------------------------------------------------
(* Properties. *)

\* No request is completed twice, whoever of handler, thread and client ends it.
BulkCompletedOnce == ~blk.twice

\* Until a request is cancelled, success means that its data were moved, ...
BulkTruthful ==
  blk.upset = {} => \A b \in Bulks : blk.state[b] = "success" => b \in blk.moved

\* ... the client is told the user data of the transfer that is done, ...
BulkDataOwn == blk.upset = {} => ~blk.mixed

\* ... and the firmware finds the page list of what it has still to do.
BulkPagesKept ==
  blk.upset = {} => \A i \in 1 .. Len(blk.toFirmware) : blk.toFirmware[i] \in blk.pages

\* A bulk request ends once and truthfully, and its user data and page list are its own.
BulkTransfersOwn == BulkCompletedOnce /\ BulkTruthful /\ BulkDataOwn /\ BulkPagesKept

\* No transfer stays without an answer.
BulkAllEnded == blk.queue = <<>> /\ blk.inbox = <<>> /\ blk.pc = "idle"
=============================================================================
