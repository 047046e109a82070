---------------------------- MODULE VchiqService ----------------------------
(***************************************************************************)
(* Services and their ports: a client's file gets a context and a port     *)
(* with its first request (VchiqAllocateFileObjContext), CREATE and CLOSE  *)
(* wait for the firmware's OPENACK and CLOSE (VchiqIoDeviceControl,        *)
(* VchiqUpdateQueueDispatchMessage), the trigger thread finds the file by  *)
(* the port of a message (VchiqProcessRxSlot), and closing the file gives  *)
(* the port to the next one (VchiqFileClose).  Requests are refused until  *)
(* the firmware, told by VchiqInterfaceCallback where the slots are, has   *)
(* sent its CONNECT.                                                       *)
(***************************************************************************)
EXTENDS Naturals, SequencesExt, FiniteSetsExt

CONSTANTS
  ServiceFiles,  \* files that are opened, each once
  LastPort,      \* MAX_ARM_PORTS - 1; the first is ARM_PORT_START
  ServiceUpsets  \* what may happen: "abrupt", "full"

ServicePorts == 1 .. LastPort

NoFile == "no_file"

ASSUME ServiceAssumption ==
  /\ LastPort \in Nat \ {0}
  /\ ServiceUpsets \subseteq {"abrupt", "full"}
  /\ NoFile \notin ServiceFiles

VARIABLE svc  \* a record, see ServiceInit

NoServiceMessage == [type |-> "none", arm |-> 0, of |-> NoFile]

ServiceInit ==
  svc = [connected |-> FALSE,                        \* VCConnected
         handles |-> [p \in ServicePorts |-> NoFile], \* ArmPortHandles
         pc |-> [f \in ServiceFiles |-> "new"],      \* what is under way for the file
         context |-> [f \in ServiceFiles |-> FALSE], \* the file context is allocated
         port |-> [f \in ServiceFiles |-> 0],        \* ArmPortNumber
         vcPort |-> [f \in ServiceFiles |-> NoFile], \* VCHIQPortNumber, by the file of the service
         state |-> [f \in ServiceFiles |-> "min"],   \* State: "min", "open", "close"
         queued |-> [f \in ServiceFiles |-> "none"], \* the request queued: "create", "close"
         toFirmware |-> <<>>,
         toArm |-> <<[type |-> "connect", arm |-> 0, of |-> NoFile]>>,
         opened |-> {},         \* services the firmware has, by their file
         sent |-> {},           \* services that have sent their data
         message |-> NoServiceMessage, \* the message the trigger thread looks at
         file |-> NoFile,       \* the context it found for it
         astray |-> FALSE,      \* history: a message reached another file
         stale |-> FALSE,       \* history: a context was used after its file was gone
         upset |-> {}]          \* history: what has happened

ToFirmware(s, f, type, dst) ==
  [s EXCEPT !.toFirmware = Append(@, [type |-> type, arm |-> s.port[f], of |-> f, dst |-> dst])]

-----------------------------------------------------------------------------
(* Requests of the client. *)

(***************************************************************************)
(* The first request, CONNECT or CREATE, looks for a port; before the      *)
(* firmware is connected every request fails with DEVICE_NOT_READY.        *)
(***************************************************************************)
OpenFile(f) ==
  /\ svc.connected
  /\ svc.pc[f] = "new"
  /\ svc' = [svc EXCEPT !.pc[f] = "claim", !.context[f] = TRUE]

(***************************************************************************)
(* The loop exchanges the first empty handle it meets; a port that becomes *)
(* free behind it is not seen, and then the open fails.                    *)
(***************************************************************************)
ClaimPort(f) ==
  /\ svc.pc[f] = "claim"
  /\ \/ \E p \in ServicePorts :
          /\ svc.handles[p] = NoFile
          /\ svc' = [svc EXCEPT !.handles[p] = f, !.port[f] = p, !.pc[f] = "ready"]
     \/ /\ \E p \in ServicePorts : svc.handles[p] # NoFile
        /\ svc' = [svc EXCEPT !.pc[f] = "failed"]

\* IOCTL_VCHIQ_CONNECT tells the firmware, and nobody waits for an answer.
ConnectFile(f) ==
  /\ svc.pc[f] = "ready"
  /\ svc' = [ToFirmware(svc, f, "connect", NoFile) EXCEPT !.pc[f] = "linked"]

\* IOCTL_VCHIQ_CREATE_SERVICE and CLOSE_SERVICE: the request is queued first, ...
ForwardRequest(f) ==
  \/ /\ svc.pc[f] \in {"ready", "linked"}
     /\ svc' = [svc EXCEPT !.queued[f] = "create", !.pc[f] = "create"]
  \/ /\ svc.pc[f] = "open"
     /\ svc' = [svc EXCEPT !.queued[f] = "close", !.pc[f] = "close"]

\* Mutant of DispatchMessage: CLOSE is sent and nobody waits for the answer.
DispatchAnswersClose(f) ==
  /\ svc.pc[f] \in {"create", "close"}
  /\ LET type == IF svc.pc[f] = "create" THEN "open" ELSE "close"
     IN  svc' = [ToFirmware(svc, f, type, svc.vcPort[f])
                   EXCEPT !.pc[f] = IF type = "open" THEN "waiting" ELSE "closed",
                          !.queued[f] = IF type = "open" THEN @ ELSE "none",
                          !.state[f] = IF type = "open" THEN @ ELSE "close"]

(***************************************************************************)
(* ... then the message goes.  Without a free slot the request is taken    *)
(* back and fails, and the client closes the file.                         *)
(***************************************************************************)
DispatchMessage(f) ==
  /\ svc.pc[f] \in {"create", "close"}
  /\ LET type == IF svc.pc[f] = "create" THEN "open" ELSE "close"
     IN  \/ svc' = [ToFirmware(svc, f, type, svc.vcPort[f])
                      EXCEPT !.pc[f] = IF svc.queued[f] # "none" THEN "waiting"
                                       ELSE IF type = "open" THEN "open" ELSE "closed"]
         \/ /\ "full" \in ServiceUpsets
            /\ svc' = [svc EXCEPT !.queued[f] = "none",
                                  !.pc[f] = IF type = "open" THEN "failed" ELSE "open"]

-----------------------------------------------------------------------------
(* The handle is closed. *)

(***************************************************************************)
(* The client closes it when its service is closed or could not be opened, *)
(* or, abruptly, at any time; the framework cancels the requests it finds  *)
(* queued before it calls EvtFileClose.                                    *)
(***************************************************************************)
CloseHandle(f) ==
  \/ /\ svc.pc[f] \in {"closed", "failed", "linked"}
     /\ svc' = [svc EXCEPT !.pc[f] = "leaving"]
  \/ /\ "abrupt" \in ServiceUpsets
     /\ svc.pc[f] \in {"waiting", "open"}
     /\ svc' = [svc EXCEPT !.pc[f] = "leaving", !.queued[f] = "none", !.upset = @ \cup {"abrupt"}]

\* The firmware is told, unless it has said that the service is closed.
FileCloseMessage(f) ==
  /\ svc.pc[f] = "leaving"
  /\ svc' = [IF svc.state[f] = "close" THEN svc ELSE ToFirmware(svc, f, "close", svc.vcPort[f])
               EXCEPT !.pc[f] = "told"]

\* The port is free, and the queues and lists are emptied; port 0 is nobody's.
FileClosePort(f) ==
  /\ svc.pc[f] = "told"
  /\ svc' = [svc EXCEPT !.pc[f] = "gone", !.context[f] = FALSE,
                        !.handles = [p \in ServicePorts |->
                                       IF p = svc.port[f] THEN NoFile ELSE @[p]]]

-----------------------------------------------------------------------------
(* The trigger thread. *)

\* The context is read from ArmPortHandles; CONNECT needs none.
TriggerLook ==
  /\ svc.message = NoServiceMessage
  /\ svc.toArm # <<>>
  /\ LET m == Head(svc.toArm)
     IN  svc' = [svc EXCEPT !.toArm = Tail(@), !.message = m,
                            !.file = IF m.arm \in ServicePorts THEN svc.handles[m.arm] ELSE NoFile]

\* The thread is through with its message, which it gave to f.
Through(f) ==
  [svc EXCEPT !.message = NoServiceMessage, !.file = NoFile, !.astray = @ \/ svc.message.of # f,
              !.stale = @ \/ ~svc.context[f]]

TriggerConnect ==
  /\ svc.message.type = "connect"
  /\ svc' = [svc EXCEPT !.message = NoServiceMessage, !.connected = TRUE]

\* No file has the port: the message is dropped.
TriggerUnknown ==
  /\ svc.message.type \in {"openack", "close", "data"}
  /\ svc.file = NoFile
  /\ svc' = [svc EXCEPT !.message = NoServiceMessage]

\* OPENACK: the port of the service, and the CREATE request if it is still queued.
TriggerOpenAck ==
  /\ svc.message.type = "openack"
  /\ svc.file # NoFile
  /\ LET f == svc.file
         s == [Through(f) EXCEPT !.vcPort[f] = svc.message.of]
     IN  svc' = IF svc.queued[f] # "create" THEN s
                ELSE [s EXCEPT !.queued[f] = "none", !.state[f] = "open",
                               !.pc[f] = IF @ = "waiting" THEN "open" ELSE @]

\* CLOSE: only a client that asked for it learns that the service is closed.
TriggerClose ==
  /\ svc.message.type = "close"
  /\ svc.file # NoFile
  /\ LET f == svc.file
     IN  svc' = IF svc.queued[f] # "close" THEN Through(f)
                ELSE [Through(f) EXCEPT !.queued[f] = "none", !.state[f] = "close",
                                        !.pc[f] = IF @ = "waiting" THEN "closed" ELSE @]

\* DATA: see VchiqRx.
TriggerData ==
  /\ svc.message.type = "data"
  /\ svc.file # NoFile
  /\ svc' = Through(svc.file)

-----------------------------------------------------------------------------
(* External: the firmware. *)

ToArm(s, type, f, arm) == [s EXCEPT !.toArm = Append(@, [type |-> type, arm |-> arm, of |-> f])]

\* A service is opened, closed if there is one, or the client is greeted.
FirmwareTakes ==
  /\ svc.toFirmware # <<>>
  /\ LET m == Head(svc.toFirmware)
         s == [svc EXCEPT !.toFirmware = Tail(@)]
     IN  CASE m.type = "open" ->
                svc' = [ToArm(s, "openack", m.of, m.arm) EXCEPT !.opened = @ \cup {<<m.of, m.arm>>}]
           [] m.type = "close" /\ <<m.dst, m.arm>> \in svc.opened ->
                svc' = [ToArm(s, "close", m.dst, m.arm) EXCEPT !.opened = @ \ {<<m.dst, m.arm>>}]
           [] OTHER -> svc' = s

FirmwareSends ==
  \E service \in svc.opened :
    /\ service[1] \notin svc.sent
    /\ svc' = [ToArm(svc, "data", service[1], service[2]) EXCEPT !.sent = @ \cup {service[1]}]

-----------------------------------------------------------------------------
ServiceHandler(f) ==
  ClaimPort(f) \/ DispatchMessage(f) \/ FileCloseMessage(f) \/ FileClosePort(f)

ServiceTrigger ==
  TriggerLook \/ TriggerConnect \/ TriggerUnknown \/ TriggerOpenAck \/ TriggerClose \/ TriggerData

ServiceNext ==
  \/ \E f \in ServiceFiles :
       OpenFile(f) \/ ConnectFile(f) \/ ForwardRequest(f) \/ CloseHandle(f) \/ ServiceHandler(f)
  \/ ServiceTrigger \/ FirmwareTakes \/ FirmwareSends

ServiceFairness ==
  /\ \A f \in ServiceFiles : WF_svc(ServiceHandler(f))
  /\ WF_svc(ServiceTrigger) /\ WF_svc(FirmwareTakes)

ServiceSpec == ServiceInit /\ [][ServiceNext]_svc /\ ServiceFairness

-----------------------------------------------------------------------------
(* Properties. *)

\* A port leads to the one file that has it, as long as the file has a context.
PortsOwned ==
  \A f \in ServiceFiles : svc.context[f] /\ svc.port[f] # 0 => svc.handles[svc.port[f]] = f

(***************************************************************************)
(* If clients await the answer to CLOSE before they close the file, then   *)
(* no message of a closed service reaches the file that got its port, ...  *)
(***************************************************************************)
MessagesReachTheirFile == svc.upset = {} => ~svc.astray

\* ... the thread uses no context of a file that is gone, ...
ContextAlive == svc.upset = {} => ~svc.stale

\* ... and a closed file leaves no open service in the firmware.
ClosedInFirmware ==
  svc.upset = {} =>
    \A f \in ServiceFiles : svc.pc[f] = "gone" => \A s \in svc.opened : s[1] # f

\* Ports and messages lead to the file they are for, and closing leaves nothing behind.
ServicesApart == PortsOwned /\ MessagesReachTheirFile /\ ContextAlive /\ ClosedInFirmware

\* No CREATE or CLOSE stays without its answer.
ServiceRequestsEnd == \A f \in ServiceFiles : svc.pc[f] # "waiting"
=============================================================================
