----------------------------- MODULE MCVchiqRx -----------------------------
(***************************************************************************)
(* What clients of VCHIQ do, for TLC: a behaviour is one of                *)
(*   "ahead"    VchiqRx: two services whose requests are queued ahead,     *)
(*              three slots of the stream in two slots of memory           *)
(*   "late"     VchiqRx: one vchi service whose client sends requests at   *)
(*              any time                                                   *)
(*   "bulk"     VchiqBulk: the bulk transfers of a service                 *)
(*   "service"  VchiqService: files that open and close services           *)
(***************************************************************************)
EXTENDS VchiqRx, VchiqBulk, VchiqService

CONSTANTS f1, f2, b1, b2, b3

VARIABLE scene

Late == INSTANCE VchiqRx WITH
  Files <- {f1}, VchiFiles <- {f1}, LateFiles <- {f1}, Kinds <- {"data", "done", "big"},
  MsgBufCount <- 1, Ahead <- 0, DequeuesAhead <- 0, MaxSlot <- 1

rxVars == <<scene, vars, blk, svc>>

RxInit ==
  /\ \/ scene = "late" /\ Late!Init
     \/ scene \in {"ahead", "bulk", "service"} /\ Init
  /\ BulkInit /\ ServiceInit

RxNext ==
  /\ UNCHANGED scene
  /\ \/ scene = "ahead" /\ Next /\ UNCHANGED <<blk, svc>>
     \/ scene = "late" /\ Late!Next /\ UNCHANGED <<blk, svc>>
     \/ scene = "bulk" /\ BulkNext /\ UNCHANGED <<vars, svc>>
     \/ scene = "service" /\ ServiceNext /\ UNCHANGED <<vars, blk>>

RxFairness ==
  /\ WF_vars(scene = "ahead" /\ TriggerStep)
  /\ \A t \in Threads : WF_vars(scene = "ahead" /\ ThreadStep(t))
  /\ WF_vars(scene = "late" /\ Late!TriggerStep)
  /\ \A t \in Late!Threads : WF_vars(scene = "late" /\ Late!ThreadStep(t))
  /\ BulkFairness
  /\ \A f \in ServiceFiles : WF_svc(scene = "service" /\ ServiceHandler(f))
  /\ WF_svc(scene = "service" /\ ServiceTrigger)
  /\ WF_svc(scene = "service" /\ FirmwareTakes)

RxSpec == RxInit /\ [][RxNext]_rxVars /\ RxFairness

-----------------------------------------------------------------------------
\* Requests queued ahead: VchiqRecycleSlot returns a slot only when no message in it is needed.
RxNoEarlyRecycle == scene = "ahead" => NoEarlyRecycle

\* Requests queued ahead: VchiqRecycleSlot returns a slot once per use.
RxRecycledOnce == scene = "ahead" => RecycledOnce

\* Requests queued ahead: the reference counts of VchiqReleaseMsg leak no slot.
RxNoSlotLeak == scene = "ahead" => NoSlotLeak

\* VchiqRemovePendingMsg copies what the firmware sent, in order, each once.
RxDeliveredIsPosted == scene = "ahead" => DeliveredIsPosted

\* VchiqProcessPendingMsg and the late request never miss each other.
RxNoStrandedMessage == IF scene = "ahead" THEN NoStrandedMessage ELSE Late!NoStrandedMessage

\* Requests queued ahead: the stream gets through, slots keep coming back.
RxPostedIsDelivered == \A f \in Files : []<>(scene = "ahead" => CaughtUp(f))

\* A pending message meets a queued request; bulk requests, CREATE and CLOSE are answered.
RxRequestsAreServed ==
  []<>((scene = "late" => Late!Served(f1)) /\ BulkAllEnded /\ ServiceRequestsEnd)
=============================================================================
