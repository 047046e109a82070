---------------------------- MODULE RpiqMailbox ------------------------------
(***************************************************************************)
(* The mailbox driver (rpiq): clients send property queries to the         *)
(* VideoCore firmware through a hardware FIFO and get the answers through  *)
(* another one, an interrupt and a DPC.                                    *)
(*                                                                         *)
(* A query lies in physical memory that belongs to its request; what goes  *)
(* through the FIFOs is its address.  The driver parks the request in the  *)
(* queue of the channel and completes the head of that queue for every     *)
(* word it reads: it never looks at the address that came back.            *)
(*                                                                         *)
(* A client has one request at a time.  The default queue is sequential:   *)
(* the framework hands over the next request once the previous one was     *)
(* completed or forwarded, so a handler that has forwarded its request may *)
(* overlap with the next handler.                                          *)
(***************************************************************************)
EXTENDS Naturals, FiniteSets, SequencesExt

CONSTANTS
  Clients,     \* processes with the device open
  Addresses,   \* pages MmAllocateContiguousNodeMemory can return
  FifoSize,    \* words a mailbox FIFO holds
  MaxPoll,     \* MAX_POLL
  MacRetries,  \* the retries of RpiSetDeviceMacAddress
  Upsets       \* what may happen: "cancel", "slow_boot", "release"

NoAddress == "no_address"
NoClient == "no_client"

ASSUME MailboxAssumption ==
  /\ NoAddress \notin Addresses
  /\ NoClient \notin Clients
  /\ FifoSize \in Nat \ {0}
  /\ MaxPoll \in Nat
  /\ MacRetries \in Nat \ {0}
  /\ Upsets \subseteq {"cancel", "slow_boot", "release"}

VARIABLES
  (* memory and hardware *)
  pages,       \* what lies at an address: "free", "query" or "answer"
  writeFifo,   \* words on their way to the firmware
  readFifo,    \* words on their way to the driver
  irqEnabled,  \* MAILBOX_DATA_AVAIL_ENABLE_IRQ
  (* device *)
  phase,       \* "boot", "mac", "running", "released"
  macAddr,     \* addrProperty of RpiSetDeviceMacAddress
  retries,     \* its retries left
  writeLock,   \* holder of WriteLock
  queue,       \* ChannelQueue[MAILBOX_CHANNEL_PROPERTY_ARM_VC]
  dpc,         \* where RpiqMailboxDpc is
  more,        \* its copy of the status: not empty
  (* requests and their handlers *)
  at,          \* where RpiqProcessChannel is for a client
  kind,        \* "property" (IOCTL_MAILBOX_PROPERTY) or "vchiq"
  addr,        \* PropertyMemory of the client's last property request
  polls,       \* count of RpiqMailboxWrite
  result,      \* how the client's last request was completed
  (* outside of the driver *)
  job,         \* the address the firmware works on
  upset        \* the Upsets that have happened (history)

hwVars == <<pages, writeFifo, readFifo, irqEnabled>>
devVars == <<phase, macAddr, retries, writeLock, queue>>
dpcVars == <<dpc, more>>
reqVars == <<at, kind, addr, polls, result>>
outsideVars == <<job, upset>>
mailboxVars == <<hwVars, devVars, dpcVars, reqVars, outsideVars>>

\* A word in a FIFO.  The word of a vchiq write is not an address to answer.
Words == Addresses \cup {NoAddress}

Free == {a \in Addresses : pages[a] = "free"}
Full == Len(writeFifo) >= FifoSize

Pc == {"idle", "lock", "poll", "forward", "write"}
\* The request is still the default queue's: the next one is not handed over.
Owned == {"lock", "poll", "forward"}

MailboxTypeOK ==
  /\ pages \in [Addresses -> {"free", "query", "answer"}]
  /\ writeFifo \in Seq(Words)
  /\ readFifo \in Seq(Addresses)
  /\ irqEnabled \in BOOLEAN
  /\ phase \in {"boot", "mac", "running", "released"}
  /\ macAddr \in Addresses \cup {NoAddress}
  /\ retries \in 0..MacRetries
  /\ writeLock \in Clients \cup {NoClient}
  /\ queue \in Seq(Clients)
  /\ dpc \in {"idle", "start", "loop", "retrieve"}
  /\ more \in BOOLEAN
  /\ at \in [Clients -> Pc]
  /\ kind \in [Clients -> {"property", "vchiq"}]
  /\ addr \in [Clients -> Addresses \cup {NoAddress}]
  /\ polls \in [Clients -> 0..(MaxPoll + 1)]
  /\ result \in [Clients -> {"none", "done", "answered", "unanswered",
                             "failed", "cancelled"}]
  /\ job \in Addresses \cup {NoAddress}
  /\ upset \subseteq {"cancel", "slow_boot", "release"}

MailboxInit ==
  /\ pages = [a \in Addresses |-> "free"]
  /\ writeFifo = <<>>
  /\ readFifo = <<>>
  /\ irqEnabled = FALSE
  /\ phase = "boot"
  /\ macAddr = NoAddress
  /\ retries = MacRetries
  /\ writeLock = NoClient
  /\ queue = <<>>
  /\ dpc = "idle"
  /\ more = FALSE
  /\ at = [c \in Clients |-> "idle"]
  /\ kind = [c \in Clients |-> "property"]
  /\ addr = [c \in Clients |-> NoAddress]
  /\ polls = [c \in Clients |-> 0]
  /\ result = [c \in Clients |-> "none"]
  /\ job = NoAddress
  /\ upset = {}

-----------------------------------------------------------------------------
(* RpiqInitOperation on the first boot: the query for the MAC address is    *)
(* polled for, before interrupts are enabled and before any request is      *)
(* handed over.                                                             *)

\* Nothing is in the FIFO yet, so RpiqMailboxWrite does not wait.
InitWrite ==
  /\ phase = "boot"
  /\ \E a \in Free :
       /\ pages' = [pages EXCEPT ![a] = "query"]
       /\ writeFifo' = Append(writeFifo, a)
       /\ macAddr' = a
  /\ phase' = "mac"
  /\ UNCHANGED <<readFifo, irqEnabled, retries, writeLock, queue, dpcVars,
                 reqVars, outsideVars>>

(* The query is over, whatever its outcome: its memory is freed, boot goes  *)
(* on and RpiqEnableInterrupts is called.                                   *)
InitDone ==
  /\ pages' = [pages EXCEPT ![macAddr] = "free"]
  /\ macAddr' = NoAddress
  /\ phase' = "running"
  /\ irqEnabled' = TRUE
  /\ UNCHANGED <<writeFifo, retries, writeLock, queue, dpcVars, reqVars, job>>

\* Our address came back.  (Success or not, the address is all that differs.)
InitReply ==
  /\ phase = "mac"
  /\ retries > 0
  /\ readFifo # <<>>
  /\ Head(readFifo) = macAddr
  /\ readFifo' = Tail(readFifo)
  /\ InitDone
  /\ UNCHANGED upset

\* One millisecond passes.  Only a slow firmware lets the retries run out.
InitRetry ==
  /\ phase = "mac"
  /\ "slow_boot" \in Upsets
  /\ readFifo = <<>>
  /\ retries > 0
  /\ retries' = retries - 1
  /\ UNCHANGED <<hwVars, phase, macAddr, writeLock, queue, dpcVars, reqVars,
                 outsideVars>>

InitTimeout ==
  /\ phase = "mac"
  /\ retries = 0
  /\ InitDone
  /\ upset' = upset \cup {"slow_boot"}
  /\ UNCHANGED readFifo

-----------------------------------------------------------------------------
(* RpiqProcessChannel, RpiqMailboxProperty and RpiqMailboxWrite.  A request *)
(* that fails a check of its buffers, or that gets no memory, is completed  *)
(* with an error and has no other effect.                                   *)

InQueue(c) == \E i \in 1..Len(queue) : queue[i] = c

\* The framework hands over a request; a property query is copied to memory.
Start(c, k) ==
  /\ phase = "running"
  /\ at[c] = "idle"
  /\ ~InQueue(c)
  /\ \A d \in Clients : at[d] \notin Owned
  /\ \/ /\ k = "vchiq"
        /\ UNCHANGED <<pages, addr>>
     \/ /\ k = "property"
        /\ \E a \in Free :
             /\ pages' = [pages EXCEPT ![a] = "query"]
             /\ addr' = [addr EXCEPT ![c] = a]
  /\ kind' = [kind EXCEPT ![c] = k]
  /\ result' = [result EXCEPT ![c] = "none"]
  /\ at' = [at EXCEPT ![c] = "lock"]
  /\ UNCHANGED <<writeFifo, readFifo, irqEnabled, devVars, dpcVars, polls,
                 outsideVars>>

\* The request of c is completed; its memory is freed with it
\* (RpiqRequestContextCleanup).
Complete(c, r) ==
  /\ result' = [result EXCEPT ![c] = r]
  /\ pages' = IF kind[c] = "property" THEN [pages EXCEPT ![addr[c]] = "free"]
               ELSE pages

TakeWriteLock(c) ==
  /\ at[c] = "lock"
  /\ writeLock = NoClient
  /\ writeLock' = c
  /\ at' = [at EXCEPT ![c] = "poll"]
  /\ UNCHANGED <<hwVars, phase, macAddr, retries, queue, dpcVars, kind, addr,
                 polls, result, outsideVars>>

\* Mutant of Poll: the rounds are not limited.
PollForever(c) ==
  /\ at[c] = "poll"
  /\ Full
  /\ polls' = [polls EXCEPT ![c] = @ + 1]
  /\ UNCHANGED <<hwVars, devVars, dpcVars, at, kind, addr, result, outsideVars>>

\* MAILBOX_STATUS_FULL: wait a millisecond and look again.
Poll(c) ==
  /\ at[c] = "poll"
  /\ Full
  /\ polls[c] <= MaxPoll
  /\ polls' = [polls EXCEPT ![c] = @ + 1]
  /\ UNCHANGED <<hwVars, devVars, dpcVars, at, kind, addr, result, outsideVars>>

\* Mutant of PollTimeout: the request is left in the queue of the channel.
PollTimeoutQueued(c) ==
  /\ at[c] = "poll"
  /\ Full
  /\ polls[c] > MaxPoll
  /\ polls' = [polls EXCEPT ![c] = 0]
  /\ writeLock' = NoClient
  /\ at' = [at EXCEPT ![c] = "idle"]
  /\ queue' = Append(queue, c)
  /\ UNCHANGED <<hwVars, phase, macAddr, retries, dpcVars, kind, addr, result,
                 outsideVars>>

\* Still full after more than MAX_POLL rounds: STATUS_IO_TIMEOUT.
PollTimeout(c) ==
  /\ at[c] = "poll"
  /\ Full
  /\ polls[c] > MaxPoll
  /\ polls' = [polls EXCEPT ![c] = 0]
  /\ writeLock' = NoClient
  /\ at' = [at EXCEPT ![c] = "idle"]
  /\ Complete(c, "failed")
  /\ UNCHANGED <<writeFifo, readFifo, irqEnabled, phase, macAddr, retries, queue,
                 dpcVars, kind, addr, outsideVars>>

\* Mutant of PollReady: the lock only covers the polling.
PollReadyUnlock(c) ==
  /\ at[c] = "poll"
  /\ ~Full
  /\ polls' = [polls EXCEPT ![c] = 0]
  /\ at' = [at EXCEPT ![c] = IF kind[c] = "property" THEN "forward" ELSE "write"]
  /\ writeLock' = NoClient
  /\ UNCHANGED <<hwVars, phase, macAddr, retries, queue, dpcVars, kind, addr,
                 result, outsideVars>>

\* There is room.  A vchiq write has no request to park.
PollReady(c) ==
  /\ at[c] = "poll"
  /\ ~Full
  /\ polls' = [polls EXCEPT ![c] = 0]
  /\ at' = [at EXCEPT ![c] = IF kind[c] = "property" THEN "forward" ELSE "write"]
  /\ UNCHANGED <<hwVars, devVars, dpcVars, kind, addr, result, outsideVars>>

\* WdfRequestForwardToIoQueue: from here on the request can be cancelled.
Forward(c) ==
  /\ at[c] = "forward"
  /\ queue' = Append(queue, c)
  /\ at' = [at EXCEPT ![c] = "write"]
  /\ UNCHANGED <<hwVars, phase, macAddr, retries, writeLock, dpcVars, kind, addr,
                 polls, result, outsideVars>>

\* Mutant of WriteRegister: every request is completed here.
WriteRegisterComplete(c) ==
  /\ at[c] = "write"
  /\ writeFifo' = Append(writeFifo,
                         IF kind[c] = "property" THEN addr[c] ELSE NoAddress)
  /\ writeLock' = NoClient
  /\ at' = [at EXCEPT ![c] = "idle"]
  /\ Complete(c, "done")
  /\ UNCHANGED <<readFifo, irqEnabled, phase, macAddr, retries, queue, dpcVars,
                 kind, addr, polls, outsideVars>>

\* The write to the mailbox register; a vchiq request is completed here.
WriteRegister(c) ==
  /\ at[c] = "write"
  /\ writeFifo' = Append(writeFifo,
                         IF kind[c] = "property" THEN addr[c] ELSE NoAddress)
  /\ writeLock' = NoClient
  /\ at' = [at EXCEPT ![c] = "idle"]
  /\ result' = IF kind[c] = "vchiq" THEN [result EXCEPT ![c] = "done"] ELSE result
  /\ UNCHANGED <<pages, readFifo, irqEnabled, phase, macAddr, retries, queue,
                 dpcVars, kind, addr, polls, outsideVars>>

\* The client cancels, or dies: the framework takes the request off the queue.
Cancel(c) ==
  /\ "cancel" \in Upsets
  /\ \E i \in 1..Len(queue) :
       /\ queue[i] = c
       /\ queue' = RemoveAt(queue, i)
  /\ Complete(c, "cancelled")
  /\ upset' = upset \cup {"cancel"}
  /\ UNCHANGED <<writeFifo, readFifo, irqEnabled, phase, macAddr, retries,
                 writeLock, dpcVars, at, kind, addr, polls, job>>

-----------------------------------------------------------------------------
(* The firmware takes the words in order and answers the property queries   *)
(* one by one, in the memory they lie in.                                   *)
FwTake ==
  /\ job = NoAddress
  /\ writeFifo # <<>>
  /\ job' = Head(writeFifo)
  /\ writeFifo' = Tail(writeFifo)
  /\ UNCHANGED <<pages, readFifo, irqEnabled, devVars, dpcVars, reqVars,
                 upset>>

FwAnswer ==
  /\ job # NoAddress
  /\ Len(readFifo) < FifoSize
  /\ pages' = IF pages[job] = "query" THEN [pages EXCEPT ![job] = "answer"]
               ELSE pages
  /\ readFifo' = Append(readFifo, job)
  /\ job' = NoAddress
  /\ UNCHANGED <<writeFifo, irqEnabled, devVars, dpcVars, reqVars,
                 upset>>

-----------------------------------------------------------------------------
(* RpiqMailboxIsr and RpiqMailboxDpc. *)

\* The interrupt is level-sensitive: data is available and the bit is set.
MailboxIsr ==
  /\ phase = "running"
  /\ irqEnabled
  /\ readFifo # <<>>
  /\ irqEnabled' = FALSE
  /\ dpc' = "start"
  /\ UNCHANGED <<pages, writeFifo, readFifo, devVars, more, reqVars,
                 outsideVars>>

DpcStart ==
  /\ dpc = "start"
  /\ more' = (readFifo # <<>>)
  /\ dpc' = "loop"
  /\ UNCHANGED <<hwVars, devVars, reqVars, outsideVars>>

\* A word is read, then the status that decides about the next round.
DpcRead ==
  /\ dpc = "loop"
  /\ more
  /\ readFifo' = Tail(readFifo)
  /\ more' = (Tail(readFifo) # <<>>)
  /\ dpc' = "retrieve"
  /\ UNCHANGED <<pages, writeFifo, irqEnabled, devVars, reqVars, outsideVars>>

\* The word has no request to complete.
DpcNoRequest ==
  /\ dpc = "retrieve"
  /\ queue = <<>>
  /\ dpc' = "loop"
  /\ UNCHANGED <<hwVars, devVars, more, reqVars, outsideVars>>

\* Mutant of DpcComplete: the youngest request is taken.
DpcCompleteLast ==
  LET c == queue[Len(queue)]
  IN /\ dpc = "retrieve"
     /\ queue # <<>>
     /\ queue' = RemoveAt(queue, Len(queue))
     /\ Complete(c, IF pages[addr[c]] = "answer" THEN "answered" ELSE "unanswered")
     /\ dpc' = "loop"
     /\ UNCHANGED <<writeFifo, readFifo, irqEnabled, phase, macAddr, retries,
                    writeLock, more, at, kind, addr, polls, outsideVars>>

\* The request at the head gets what lies in its own memory.
DpcComplete ==
  /\ dpc = "retrieve"
  /\ queue # <<>>
  /\ queue' = Tail(queue)
  /\ Complete(Head(queue),
              IF pages[addr[Head(queue)]] = "answer" THEN "answered"
                                                      ELSE "unanswered")
  /\ dpc' = "loop"
  /\ UNCHANGED <<writeFifo, readFifo, irqEnabled, phase, macAddr, retries,
                 writeLock, more, at, kind, addr, polls, outsideVars>>

\* Mutant of DpcEnable: the interrupt stays off.
DpcLeave ==
  /\ dpc = "loop"
  /\ ~more
  /\ dpc' = "idle"
  /\ UNCHANGED <<hwVars, devVars, more, reqVars, outsideVars>>

DpcEnable ==
  /\ dpc = "loop"
  /\ ~more
  /\ irqEnabled' = TRUE
  /\ dpc' = "idle"
  /\ UNCHANGED <<pages, writeFifo, readFifo, devVars, more, reqVars,
                 outsideVars>>

-----------------------------------------------------------------------------
(* RpiqReleaseHardware: the framework has drained handlers and DPC.  The    *)
(* interrupt is disabled and the channel queues are purged.                 *)
ReleaseHardware ==
  /\ "release" \in Upsets
  /\ phase = "running"
  /\ dpc = "idle"
  /\ \A c \in Clients : at[c] = "idle"
  /\ phase' = "released"
  /\ irqEnabled' = FALSE
  /\ queue' = <<>>
  /\ result' = [c \in Clients |-> IF InQueue(c) THEN "cancelled" ELSE result[c]]
  /\ pages' = [a \in Addresses |->
                  IF \E c \in Clients : InQueue(c) /\ addr[c] = a THEN "free"
                  ELSE pages[a]]
  /\ upset' = upset \cup {"release"}
  /\ UNCHANGED <<writeFifo, readFifo, macAddr, retries, writeLock, dpcVars, at,
                 kind, addr, polls, job>>

-----------------------------------------------------------------------------
InitStep == InitWrite \/ InitReply \/ InitRetry \/ InitTimeout
Handler(c) ==
  \/ TakeWriteLock(c) \/ Poll(c) \/ PollTimeout(c) \/ PollReady(c)
  \/ Forward(c) \/ WriteRegister(c)
MailboxDpc == DpcStart \/ DpcRead \/ DpcNoRequest \/ DpcComplete \/ DpcEnable

MailboxNext ==
  \/ InitStep
  \/ \E c \in Clients :
       \/ \E k \in {"property", "vchiq"} : Start(c, k)
       \/ Handler(c)
       \/ Cancel(c)
  \/ FwTake \/ FwAnswer
  \/ MailboxIsr \/ MailboxDpc
  \/ ReleaseHardware

(* Threads, interrupts and DPCs run; the firmware answers every query.  No  *)
(* client has to send anything.                                             *)
MailboxFairness ==
  /\ WF_mailboxVars(InitStep)
  /\ \A c \in Clients : WF_mailboxVars(Handler(c))
  /\ WF_mailboxVars(FwTake) /\ WF_mailboxVars(FwAnswer)
  /\ WF_mailboxVars(MailboxIsr) /\ WF_mailboxVars(MailboxDpc)

MailboxSpec == MailboxInit /\ [][MailboxNext]_mailboxVars /\ MailboxFairness

-----------------------------------------------------------------------------
(* Properties. *)

(* RpiqMailboxWrite never writes to a full mailbox, where the word would be *)
(* lost: the room it saw is still there when it writes.                     *)
MailboxNeverOverflows == Len(writeFifo) <= FifoSize

Count(s) == Cardinality({i \in 1..Len(s) : s[i] # NoAddress})

\* Answers that are still to be taken by the DPC.
Outstanding ==
  Count(writeFifo) + (IF job = NoAddress THEN 0 ELSE 1) + Len(readFifo)
  + (IF dpc = "retrieve" THEN 1 ELSE 0)
  + Cardinality({c \in Clients : at[c] = "write" /\ kind[c] = "property"})

(* No request is parked without an answer on its way: the channel queue is  *)
(* never longer than the words the DPC has still to read.                   *)
QueuedIsOutstanding == Len(queue) <= Outstanding

(* A property request completed with success by RpiqMailboxDpc holds the    *)
(* answer of the firmware to this very query.                               *)
AnsweredRequests == \A c \in Clients : result[c] # "unanswered"

(* ... it does as long as no request was cancelled and the query of the     *)
(* boot was not given up.                                                   *)
AnsweredUndisturbed == upset \subseteq {"release"} => AnsweredRequests

(* A parked request waits for an answer to come, and what is answered       *)
(* belongs to the request it completes (interrupt.c pairs them by           *)
(* position), with that proviso.                                            *)
AnswersMatch == QueuedIsOutstanding /\ AnsweredUndisturbed

(* The memory of a query is not freed while the firmware may still write an *)
(* answer to it.                                                            *)
FirmwareMemoryIsAllocated ==
  /\ \A i \in 1..Len(writeFifo) :
       writeFifo[i] # NoAddress => pages[writeFifo[i]] # "free"
  /\ job # NoAddress => pages[job] # "free"

(* ... it is not, with the same proviso.                                    *)
MemoryUndisturbed == upset = {} => FirmwareMemoryIsAllocated

(* A property request that was parked does not stay parked, also when       *)
(* requests are cancelled and when the query of the boot is answered late.  *)
(* Clients are interchangeable: what holds of one of them holds of all.     *)
ClientServed == ~InQueue(CHOOSE c \in Clients : TRUE)
=============================================================================
