------------------------------ MODULE Pl011Tx ------------------------------
(***************************************************************************)
(* The transmit side of the PL011 driver (PL011tx.cpp) against its         *)
(* interrupt (PL011interrupt.cpp).                                         *)
(*                                                                         *)
(* SerCx2 hands a write to PL011SerCx2EvtPioTransmitWriteBuffer.  What the *)
(* ring cannot take waits for a "ready" notification: the transmit state   *)
(* and its compare-and-set decide who notifies, SerCx2's thread or the     *)
(* DPC.  Thread, ISR and DPC copy from the ring to the FIFO, one at a time *)
(* by TxBufferLock; who finds it taken goes on without copying.            *)
(*                                                                         *)
(* Bytes are numbered 1, 2, 3, ... in the order SerCx2 hands them over.    *)
(* The interrupt is the PL011's: raised when the FIFO falls to its trigger *)
(* level, taken back when it is filled above it or acknowledged (ICR).     *)
(***************************************************************************)
EXTENDS Integers, Sequences, SequencesExt

CONSTANTS
  PltSize,     \* PL011_TX_BUFFER_SIZE_BYTES
  PltFifo,     \* depth of the FIFO
  PltTrigger,  \* its transmit trigger level
  PltWrites,   \* lengths of the writes, one after the other
  PltEndings   \* what SerCx2 does besides: subset of {"cancel", "drain"}

ASSUME PltAssumption ==
  /\ PltSize \in Nat \ {0} /\ PltFifo \in Nat \ {0} /\ PltTrigger \in 0 .. PltFifo - 1
  /\ \A i \in DOMAIN PltWrites : PltWrites[i] \in Nat \ {0}

VARIABLE plt

PL011TxPioTransmitStart ==
  plt = [pc |-> "idle",       \* SerCx2's thread
         ret |-> "write",     \* which loop of the thread copies to the FIFO
         write |-> 0,         \* writes begun
         left |-> 0,          \* bytes of the write not yet in the ring
         next |-> 1,          \* the next byte SerCx2 hands over
         state |-> "off",     \* TxPioState
         ring |-> [n \in 0 .. PltSize - 1 |-> 0],
         In |-> 0, Out |-> 0, Count |-> 0,
         lock |-> "none",     \* who holds TxBufferLock
         full |-> FALSE,      \* the thread's copy returned STATUS_NO_MORE_FILES
         fifo |-> <<>>, wire |-> <<>>,
         gone |-> {},         \* purged bytes
         raw |-> FALSE,       \* UARTRIS_TXIS
         im |-> FALSE,        \* UARTIMSC_TXIM
         isr |-> "none", events |-> FALSE, dpc |-> FALSE, d |-> "none",
         skipped |-> FALSE,   \* an interrupt was acknowledged that no copy has answered,
                             \* before the thread waits
         ready |-> FALSE,     \* SerCx2PioTransmitReady was called
         strayReady |-> FALSE,
         drain |-> "none"]

-----------------------------------------------------------------------------
(* PL011TxPioFifoCopy by one of "thread", "isr", "dpc".  The latter two     *)
(* copy and unlock in one step, the thread may be interrupted in between.  *)

Lock(s, who) == IF s.lock = "none" THEN [s EXCEPT !.lock = who] ELSE s

Move(s) ==
  LET room == PltFifo - Len(s.fifo)
      n == IF s.Count < room THEN s.Count ELSE room
      fifo == s.fifo \o [i \in 1 .. n |-> s.ring[(s.Out + i - 1) % PltSize]]
  IN  [s EXCEPT !.fifo = fifo, !.Count = @ - n, !.Out = (@ + n) % PltSize,
                !.raw = @ /\ (Len(fifo) <= PltTrigger \/ n = 0), !.skipped = FALSE]

\* STATUS_NO_MORE_FILES: ring and FIFO are full.
NoMoreRoom(s) == s.Count = PltSize /\ Len(s.fifo) = PltFifo

\* A notification nobody waits for is a stray one.
PltReady(s) ==
  [s EXCEPT !.ready = TRUE, !.strayReady = @ \/ s.ready \/ s.pc \in {"idle", "cancelled", "purge"}]

-----------------------------------------------------------------------------
(* SerCx2's thread.                                                        *)

PltWrite ==
  /\ plt.pc = "idle" /\ plt.write < Len(PltWrites)
  /\ plt' = [plt EXCEPT !.write = @ + 1, !.left = PltWrites[plt.write + 1],
                        !.pc = "copy", !.ret = "write", !.state = "send"]

PL011pTxPioBufferCopy ==
  /\ plt.pc = "copy"
  /\ LET room == PltSize - plt.Count
         n == IF plt.left < room THEN plt.left ELSE room
     IN  plt' = [plt EXCEPT !.pc = "lock", !.left = @ - n, !.next = @ + n, !.Count = @ + n,
                            !.In = (@ + n) % PltSize,
                            !.ring = [k \in DOMAIN @ |->
                                        LET i == (k - plt.In) % PltSize
                                        IN  IF i < n THEN plt.next + i ELSE @[k]]]

\* The loop around the thread's copy goes on, or the call returns.
AfterCopy(s) ==
  CASE s.ret = "drain" -> IF s.Count # 0 \/ s.fifo # <<>> THEN "lock" ELSE "drained"
    [] s.ret # "drain" /\ s.left = 0 -> "idle"
    [] s.ret # "drain" /\ s.left # 0 /\ s.full -> "enable"
    [] OTHER -> "copy"

ThreadLock ==
  /\ plt.pc = "lock"
  /\ LET s == Lock(plt, "thread")
     IN  plt' = IF s.lock = "thread" THEN [s EXCEPT !.pc = "move"]
                ELSE [plt EXCEPT !.pc = AfterCopy([plt EXCEPT !.full = FALSE]), !.full = FALSE]

ThreadMove ==
  /\ plt.pc = "move"
  /\ plt' = [Move(plt) EXCEPT !.pc = "unlock", !.full = NoMoreRoom(plt)]

ThreadUnlock ==
  /\ plt.pc = "unlock"
  /\ plt' = [plt EXCEPT !.lock = "none", !.pc = AfterCopy(plt)]

\* Ready at once: SerCx2 calls WriteBuffer again.
WriteAgain(s) == [s EXCEPT !.pc = "copy", !.state = "send", !.ready = FALSE]

EnableReadyNotification ==
  /\ plt.pc = "enable"
  /\ LET s == [plt EXCEPT !.state = "send"]
     IN  plt' = IF s.Count < PltSize THEN WriteAgain(s) ELSE [s EXCEPT !.pc = "wait"]

EnableReadyWait ==
  /\ plt.pc = "wait"
  /\ plt' = IF plt.state = "send" THEN [plt EXCEPT !.state = "wait_data_sent", !.pc = "unmask"]
            ELSE WriteAgain(plt)

EnableReadyUnmask == plt.pc = "unmask" /\ plt' = [plt EXCEPT !.im = TRUE, !.pc = "waiting"]

PltNotified == plt.pc = "waiting" /\ plt.ready /\ plt' = WriteAgain(plt)

\* Mutant: the cancellation succeeds whatever the DPC has decided.
CancelReadyAlways ==
  /\ "cancel" \in PltEndings /\ plt.pc = "waiting" /\ ~plt.ready
  /\ plt' = [plt EXCEPT !.state = "idle", !.im = FALSE, !.pc = "cancelled"]

(***************************************************************************)
(* FALSE, and SerCx2 waits for the notification, only if the DPC has       *)
(* decided to give it.                                                     *)
(***************************************************************************)
CancelReadyNotification ==
  /\ "cancel" \in PltEndings /\ plt.pc = "waiting" /\ ~plt.ready
  /\ plt' = [plt EXCEPT !.state = "idle", !.im = FALSE,
                        !.pc = IF plt.state # "wait_send_data" THEN "cancelled" ELSE "late"]

PltNotifiedLate ==
  plt.pc = "late" /\ plt.ready /\ plt' = [plt EXCEPT !.pc = "cancelled", !.ready = FALSE]

(***************************************************************************)
(* SerCx2 purges what a cancelled write left.  Assumed: no copy is under   *)
(* way then, where the code asserts it (PL011tx.cpp:872).                  *)
(***************************************************************************)
PurgeFifo ==
  /\ plt.pc = "cancelled" /\ plt.lock = "none" /\ plt.isr = "none" /\ plt.d = "none"
  /\ plt' = [plt EXCEPT !.im = FALSE, !.state = "purge", !.lock = "thread", !.pc = "purge"]

\* The FIFO is waited for, then the ring is emptied; SerCx2 hears how much it lost.
PL011pTxPioPurgeFifo ==
  /\ plt.pc = "purge" /\ plt.fifo = <<>>
  /\ plt' = [plt EXCEPT !.gone = @ \cup (plt.next - plt.Count .. plt.next - 1),
                        !.Count = 0, !.In = 0, !.Out = 0, !.left = 0,
                        !.state = "idle", !.lock = "none", !.pc = "idle"]

DrainFifo ==
  /\ "drain" \in PltEndings /\ plt.pc = "idle" /\ plt.drain = "none"
  /\ plt' = [plt EXCEPT !.state = "drain", !.im = FALSE, !.ret = "drain", !.full = FALSE,
                        !.pc = "lock", !.drain = "running"]

DrainFifoEnd ==
  /\ plt.pc = "drained"
  /\ plt' = [plt EXCEPT !.state = "idle", !.pc = "idle",
                        !.drain = IF plt.state = "drain" THEN "complete" ELSE @]

CancelDrainFifo ==
  /\ plt.drain = "running" /\ "cancel" \in PltEndings
  /\ plt' = [plt EXCEPT !.state = "idle",
                        !.drain = IF plt.state = "drain" THEN "cancelled" ELSE @]

PltThread ==
  \/ PL011pTxPioBufferCopy
  \/ ThreadLock
  \/ ThreadMove
  \/ ThreadUnlock
  \/ EnableReadyNotification
  \/ EnableReadyWait
  \/ EnableReadyUnmask
  \/ PltNotified
  \/ PltNotifiedLate
  \/ PurgeFifo
  \/ PL011pTxPioPurgeFifo
  \/ DrainFifoEnd

-----------------------------------------------------------------------------
(***************************************************************************)
(* The interrupt.  The ISR reads the raw status, so an interrupt of the    *)
(* receive side brings it here too while TXIM is masked.                   *)
(***************************************************************************)
PL011pInterruptIsr ==
  /\ plt.isr = "none" /\ plt.raw
  /\ plt' = [plt EXCEPT !.isr = "lock", !.events = TRUE]

IsrCopy ==
  \/ /\ plt.isr = "lock"
     /\ LET s == Lock(plt, "isr")
        IN  plt' = IF s.lock = "isr" THEN [s EXCEPT !.isr = "move"]
                   ELSE [plt EXCEPT !.isr = "copied"]
  \/ plt.isr = "move" /\ plt' = [Move(plt) EXCEPT !.lock = "none", !.isr = "copied"]

\* The state is updated, the interrupt acknowledged, the DPC queued.
PL011EvtInterruptIsr ==
  /\ plt.isr = "copied"
  /\ plt' = [plt EXCEPT !.state = IF @ = "send" THEN "data_sent" ELSE @,
                        !.raw = FALSE, !.dpc = TRUE, !.isr = "none",
                        !.skipped = @ \/ (plt.raw /\ plt.pc # "waiting")]

PL011EvtInterruptDpc ==
  /\ plt.dpc /\ plt.d = "none"
  /\ plt' = [plt EXCEPT !.dpc = FALSE, !.events = FALSE, !.d = IF plt.events THEN "lock" ELSE @]

DpcCopy ==
  \/ /\ plt.d = "lock"
     /\ LET s == Lock(plt, "dpc")
        IN  plt' = IF s.lock = "dpc" THEN [s EXCEPT !.d = "move"]
                   ELSE [plt EXCEPT !.d = "look"]
  \/ plt.d = "move" /\ plt' = [Move(plt) EXCEPT !.lock = "none", !.d = "look"]

DpcNotify ==
  \/ plt.d = "look" /\ plt' = [plt EXCEPT !.d = IF plt.Count < PltSize THEN "decide" ELSE "none"]
  \/ /\ plt.d = "decide"
     /\ plt' = IF plt.state = "wait_data_sent"
               THEN [plt EXCEPT !.state = "wait_send_data", !.d = "ready"]
               ELSE [plt EXCEPT !.d = "none"]
  \/ plt.d = "ready" /\ plt' = [PltReady(plt) EXCEPT !.d = "none"]

\* The transmitter takes a byte from the FIFO.
PltShift ==
  /\ plt.fifo # <<>>
  /\ plt' = [plt EXCEPT !.wire = Append(@, Head(plt.fifo)), !.fifo = Tail(@),
                        !.raw = @ \/ Len(plt.fifo) = PltTrigger + 1]

PltIsr == PL011pInterruptIsr \/ IsrCopy \/ PL011EvtInterruptIsr

\* The DPC runs on the processor that takes the interrupt, below the ISR.
PltDpc == plt.isr = "none" /\ (PL011EvtInterruptDpc \/ DpcCopy \/ DpcNotify)

PltNext ==
  \/ PltWrite
  \/ PltThread
  \/ CancelReadyNotification
  \/ DrainFifo
  \/ CancelDrainFifo
  \/ PltIsr
  \/ PltDpc
  \/ PltShift

(***************************************************************************)
(* Fairness.  SerCx2's thread goes on; an unmasked interrupt is taken; ISR *)
(* and DPC run to their end; the FIFO drains.                              *)
(***************************************************************************)
PltFairness ==
  /\ WF_plt(PltThread)
  /\ []<>(~(plt.raw /\ plt.im)) /\ []<>(plt.isr = "none")
  /\ []<>(~plt.dpc) /\ []<>(plt.d = "none")
  /\ []<>(plt.fifo = <<>>)

-----------------------------------------------------------------------------
(***************************************************************************)
(* Every byte accepted from SerCx2 is on the wire, in the FIFO, in the ring*)
(* or purged, and they leave in the order they came, whoever of thread,    *)
(* ISR and DPC copies; TxBufferCount counts exactly the rest.              *)
(***************************************************************************)
PltBytesInOrder ==
  LET ring == [i \in 1 .. plt.Count |-> plt.ring[(plt.Out + i - 1) % PltSize]]
  IN  plt.wire \o plt.fifo \o ring
        = SelectSeq([i \in 1 .. plt.next - 1 |-> i], LAMBDA b : b \notin plt.gone)

(***************************************************************************)
(* SerCx2 gets a notification only when it waits for one: never a second,  *)
(* never after its cancellation was answered with TRUE.                    *)
(***************************************************************************)
PltReadyExpected == ~plt.strayReady

(***************************************************************************)
(* A writer that waits is notified (EnableReadyNotification, DPC), unless  *)
(* the interrupt it needs was acknowledged unanswered: by an ISR that found*)
(* the lock taken, or that the FIFO outran before it acknowledged.  A      *)
(* drain ends.                                                             *)
(***************************************************************************)
PltGoingOn ==
  /\ plt.pc # "waiting" \/ plt.skipped
  /\ plt.drain # "running"

PltWriterGoesOn == []<>PltGoingOn
=============================================================================
