------------------------------ MODULE Pl011Rx ------------------------------
(***************************************************************************)
(* The receive side of the PL011 driver (pl011rx.cpp) against its          *)
(* interrupt (PL011interrupt.cpp): the mirror image of Pl011Tx.  Thread,   *)
(* ISR and DPC copy from the FIFO to the ring under RxBufferLock;          *)
(* a read that finds ring and FIFO empty waits for a notification.         *)
(*                                                                         *)
(* Received bytes are numbered 1, 2, 3, ...  The interrupt is raised when  *)
(* the FIFO reaches its trigger level, or when a byte in it is followed by *)
(* silence; emptying the FIFO takes it back.                               *)
(***************************************************************************)
EXTENDS Integers, Sequences, SequencesExt

CONSTANTS
  PlrSize,     \* PL011_RX_BUFFER_SIZE_BYTES
  PlrFifo,     \* depth of the FIFO
  PlrTrigger,  \* its receive trigger level
  PlrReads,    \* lengths of the reads, one after the other
  PlrBytes     \* how many bytes arrive (bound)

ASSUME PlrAssumption ==
  /\ PlrSize \in Nat \ {0} /\ PlrTrigger \in 1 .. PlrFifo /\ PlrBytes \in Nat
  /\ \A i \in DOMAIN PlrReads : PlrReads[i] \in Nat \ {0}

VARIABLE plr

PL011RxPioReceiveStart ==
  plr = [pc |-> "idle",       \* SerCx2's thread
         read |-> 0,          \* reads begun
         left |-> 0,          \* bytes the read still wants
         got |-> <<>>,        \* bytes handed to SerCx2
         state |-> "off",     \* RxPioState
         ring |-> [n \in 0 .. PlrSize - 1 |-> 0],
         In |-> 0, Out |-> 0, Count |-> 0,
         lock |-> "none",     \* who holds RxBufferLock
         empty |-> FALSE,     \* the thread's copy returned STATUS_NO_MORE_FILES
         fifo |-> <<>>,
         arrived |-> 0,
         gone |-> {},         \* bytes lost to an overrun, or purged
         quiet |-> FALSE,     \* a byte arrived, and the timeout is to come
         raw |-> {},          \* subset of {"RXIS", "RTIS"}
         ack |-> {},          \* what the ISR read, and will acknowledge
         isr |-> "none", events |-> FALSE, dpc |-> FALSE, d |-> "none",
         skipped |-> FALSE,   \* an interrupt was acknowledged that no copy has answered,
                             \* before the thread waits
         ready |-> FALSE,     \* SerCx2PioReceiveReady was called
         strayReady |-> FALSE]

-----------------------------------------------------------------------------
(* PL011RxPioFifoCopy by one of "thread", "isr", "dpc".  The latter two     *)
(* copy and unlock in one step, the thread may be interrupted in between.  *)

LockRx(s, who) == IF s.lock = "none" THEN [s EXCEPT !.lock = who] ELSE s

MoveRx(s) ==
  LET room == PlrSize - s.Count
      n == IF Len(s.fifo) < room THEN Len(s.fifo) ELSE room
      left == Len(s.fifo) - n
  IN  [s EXCEPT !.fifo = SubSeq(@, n + 1, n + left), !.Count = @ + n, !.In = (@ + n) % PlrSize,
                !.ring = [k \in DOMAIN @ |-> LET i == (k - s.In) % PlrSize
                                             IN  IF i < n THEN s.fifo[i + 1] ELSE @[k]],
                !.raw = {i \in @ : IF i = "RXIS" THEN left >= PlrTrigger ELSE left > 0},
                !.quiet = @ /\ left > 0, !.skipped = FALSE]

PlrReady(s) ==
  [s EXCEPT !.ready = TRUE, !.strayReady = @ \/ s.ready \/ s.pc \in {"idle", "cancelled"}]

-----------------------------------------------------------------------------
(* SerCx2's thread.                                                        *)

PlrRead ==
  /\ plr.pc = "idle" /\ plr.read < Len(PlrReads)
  /\ plr' = [plr EXCEPT !.read = @ + 1, !.left = PlrReads[plr.read + 1],
                        !.pc = "copy", !.state = "read"]

PL011pRxPioBufferCopy ==
  /\ plr.pc = "copy"
  /\ LET n == IF plr.left < plr.Count THEN plr.left ELSE plr.Count
     IN  plr' = [plr EXCEPT !.pc = "lock", !.left = @ - n, !.Count = @ - n,
                            !.Out = (@ + n) % PlrSize,
                            !.got = @ \o [i \in 1 .. n |-> plr.ring[(plr.Out + i - 1) % PlrSize]]]

AfterCopyRx(s) ==
  CASE s.left = 0 -> "idle"
    [] s.left # 0 /\ s.empty -> "enable"
    [] OTHER -> "copy"

ThreadLockRx ==
  /\ plr.pc = "lock"
  /\ LET s == LockRx(plr, "thread")
     IN  plr' = IF s.lock = "thread" THEN [s EXCEPT !.pc = "move"]
                ELSE [plr EXCEPT !.pc = AfterCopyRx([plr EXCEPT !.empty = FALSE]), !.empty = FALSE]

ThreadMoveRx ==
  /\ plr.pc = "move"
  /\ plr' = [MoveRx(plr) EXCEPT !.pc = "unlock", !.empty = plr.Count = 0 /\ plr.fifo = <<>>]

ThreadUnlockRx ==
  /\ plr.pc = "unlock"
  /\ plr' = [plr EXCEPT !.lock = "none", !.pc = AfterCopyRx(plr)]

ReadAgain(s) == [s EXCEPT !.pc = "copy", !.state = "read", !.ready = FALSE]

EnableReadyNotificationRx ==
  /\ plr.pc = "enable"
  /\ LET s == [plr EXCEPT !.state = "read"]
     IN  plr' = IF s.Count > 0 THEN ReadAgain(s) ELSE [s EXCEPT !.pc = "wait"]

\* Data came in between: the state is no longer the one just set.
EnableReadyWaitRx ==
  /\ plr.pc = "wait"
  /\ plr' = IF plr.state = "read" THEN [plr EXCEPT !.state = "wait_data", !.pc = "waiting"]
            ELSE ReadAgain(plr)

PlrNotified == plr.pc = "waiting" /\ plr.ready /\ plr' = ReadAgain(plr)

CancelReadyNotificationRx ==
  /\ plr.pc = "waiting" /\ ~plr.ready
  /\ plr' = [plr EXCEPT !.state = "idle",
                        !.pc = IF plr.state # "wait_read_data" THEN "idle" ELSE "late"]

PlrNotifiedLate ==
  plr.pc = "late" /\ plr.ready /\ plr' = [plr EXCEPT !.pc = "idle", !.ready = FALSE]

(***************************************************************************)
(* IOCTL_SERIAL_PURGE.  Assumed: no copy is under way, where the code      *)
(* asserts it (pl011rx.cpp:699).                                           *)
(***************************************************************************)
PL011pRxPioPurgeFifo ==
  /\ plr.pc = "idle" /\ plr.isr = "none" /\ plr.d = "none" /\ plr.gone = {}
  /\ plr' = [plr EXCEPT !.gone = (plr.arrived - Len(plr.fifo) - plr.Count) + 1 .. plr.arrived,
                        !.fifo = <<>>, !.raw = {}, !.quiet = FALSE,
                        !.Count = 0, !.In = 0, !.Out = 0, !.state = "idle"]

PlrThread ==
  \/ PL011pRxPioBufferCopy
  \/ ThreadLockRx
  \/ ThreadMoveRx
  \/ ThreadUnlockRx
  \/ EnableReadyNotificationRx
  \/ EnableReadyWaitRx
  \/ PlrNotified
  \/ PlrNotifiedLate

-----------------------------------------------------------------------------
(* The interrupt.                                                          *)

InterruptIsrRx ==
  /\ plr.isr = "none" /\ plr.raw # {}
  /\ plr' = [plr EXCEPT !.isr = "lock", !.ack = plr.raw, !.events = TRUE]

IsrCopyRx ==
  \/ /\ plr.isr = "lock"
     /\ LET s == LockRx(plr, "isr")
        IN  plr' = IF s.lock = "isr" THEN [s EXCEPT !.isr = "move"]
                   ELSE [plr EXCEPT !.isr = "copied"]
  \/ plr.isr = "move" /\ plr' = [MoveRx(plr) EXCEPT !.lock = "none", !.isr = "copied"]

InterruptAckRx ==
  /\ plr.isr = "copied"
  /\ plr' = [plr EXCEPT !.state = IF @ = "read" THEN "data_ready" ELSE @,
                        !.raw = @ \ plr.ack, !.ack = {}, !.dpc = TRUE, !.isr = "none",
                        !.skipped = @ \/ (plr.raw \cap plr.ack # {} /\ plr.pc # "waiting")]

InterruptDpcRx ==
  /\ plr.dpc /\ plr.d = "none"
  /\ plr' = [plr EXCEPT !.dpc = FALSE, !.events = FALSE, !.d = IF plr.events THEN "lock" ELSE @]

DpcCopyRx ==
  \/ /\ plr.d = "lock"
     /\ LET s == LockRx(plr, "dpc")
        IN  plr' = IF s.lock = "dpc" THEN [s EXCEPT !.d = "move"]
                   ELSE [plr EXCEPT !.d = "look"]
  \/ plr.d = "move" /\ plr' = [MoveRx(plr) EXCEPT !.lock = "none", !.d = "look"]

DpcNotifyRx ==
  \/ plr.d = "look" /\ plr' = [plr EXCEPT !.d = IF plr.Count > 0 THEN "decide" ELSE "none"]
  \/ /\ plr.d = "decide"
     /\ plr' = IF plr.state = "wait_data"
               THEN [plr EXCEPT !.state = "wait_read_data", !.d = "ready"]
               ELSE [plr EXCEPT !.d = "none"]
  \/ plr.d = "ready" /\ plr' = [PlrReady(plr) EXCEPT !.d = "none"]

\* A byte arrives; the FIFO drops it when it is full (an overrun).
PlrArrive ==
  /\ plr.arrived < PlrBytes
  /\ LET byte == plr.arrived + 1
         s == [plr EXCEPT !.arrived = byte, !.quiet = TRUE]
     IN  plr' = IF Len(s.fifo) = PlrFifo THEN [s EXCEPT !.gone = @ \cup {byte}]
                ELSE [s EXCEPT !.fifo = Append(@, byte),
                               !.raw = IF Len(s.fifo) + 1 = PlrTrigger THEN @ \cup {"RXIS"}
                                       ELSE @]

\* Silence after a byte.
PlrTimeout ==
  /\ plr.quiet /\ plr.fifo # <<>>
  /\ plr' = [plr EXCEPT !.raw = @ \cup {"RTIS"}, !.quiet = FALSE]

PlrIsr == InterruptIsrRx \/ IsrCopyRx \/ InterruptAckRx
PlrDpc == plr.isr = "none" /\ (InterruptDpcRx \/ DpcCopyRx \/ DpcNotifyRx)

PlrNext ==
  \/ PlrRead
  \/ PlrThread
  \/ CancelReadyNotificationRx
  \/ PL011pRxPioPurgeFifo
  \/ PlrIsr
  \/ PlrDpc
  \/ PlrArrive
  \/ PlrTimeout

\* As in Pl011Tx; silence follows the last byte.
PlrFairness ==
  /\ WF_plr(PlrThread)
  /\ []<>(plr.raw = {}) /\ []<>(plr.isr = "none")
  /\ []<>(~plr.dpc) /\ []<>(plr.d = "none")
  /\ []<>(~plr.quiet)

-----------------------------------------------------------------------------
(***************************************************************************)
(* Every byte that was neither purged nor dropped by a full FIFO is in     *)
(* the hands of SerCx2, in the ring or in the FIFO, in the order of its    *)
(* arrival, whoever of thread, ISR and DPC copied it.                      *)
(***************************************************************************)
PlrBytesInOrder ==
  LET ring == [i \in 1 .. plr.Count |-> plr.ring[(plr.Out + i - 1) % PlrSize]]
  IN  plr.got \o ring \o plr.fifo
        = SelectSeq([i \in 1 .. plr.arrived |-> i], LAMBDA b : b \notin plr.gone)

\* SerCx2 gets a notification only when it waits for one (PL011EvtInterruptDpc).
PlrReadyExpected == ~plr.strayReady

(***************************************************************************)
(* A read that waits when a byte comes into the FIFO is notified, unless   *)
(* the interrupt of that byte was acknowledged unanswered.                 *)
(***************************************************************************)
PlrGoingOn == plr.pc # "waiting" \/ plr.fifo = <<>> \/ plr.skipped

PlrReaderGoesOn == []<>PlrGoingOn

(***************************************************************************)
(* A read does not wait for data that is in the ring: "if we already have  *)
(* new RX data, [...] tell SerCx2 to come and get it" (pl011rx.cpp:338).   *)
(***************************************************************************)
PlrRingIsRead == []<>(plr.pc # "waiting" \/ plr.Count = 0)
=============================================================================
