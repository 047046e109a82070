-------------------------- MODULE GenetInterrupts --------------------------
(***************************************************************************)
(* Notification of the Ethernet driver's queues (bcmgenet/driver.c): a     *)
(* queue that found nothing to do arms its interrupt and sleeps until the  *)
(* DPC calls it back; one interrupt with one mask and one DPC serves both  *)
(* queues, and starting, stopping, the receive filter and the link timer   *)
(* share the lock and the command register UMAC.Cmd.                       *)
(*                                                                         *)
(* A queue is stopped and disarmed under the adapter's spin lock, and      *)
(* disarming flushes the DPCs: with the timer's DPC waiting for that lock  *)
(* this never ends, and the behaviour ends there (upset).  Assumed is that *)
(* flushing with the lock held is allowed at all.                          *)
(***************************************************************************)
EXTENDS Integers

CONSTANTS
  GniPackets,   \* completions of each queue
  GniStops      \* how often each queue may be stopped

ASSUME GniAssumption == GniPackets \in Nat /\ GniStops \in Nat

VARIABLE
  gni
  \* notify, saved: txNotify/rxNotify and savedStatus;  status, masked: INTRL2_0;
  \* dpcQueued, dpc: what the DPC still has to look at, and the queue it is about to call;
  \* lock: the holder of adapter->lock;  queue: what a queue does;  work: completions it has not
  \* seen;  left: those to come;  woken: it was called;  stops: stops left;
  \* cmd, read: UMAC.Cmd and what the holder of the lock read of it;  timer, filter: their steps;
  \* want: the bits the callers asked for;  upset

Queues == {"tx", "rx"}
Nobody == "nobody"

\* A behaviour has packets, or the timer and the filter.
GniInit ==
  \E packets \in {0, GniPackets} :
  gni = [notify |-> [q \in Queues |-> FALSE], saved |-> {}, status |-> {}, masked |-> Queues,
         dpcQueued |-> FALSE, dpc |-> [pc |-> "idle", bits |-> {}, call |-> Nobody],
         lock |-> Nobody, queue |-> [q \in Queues |-> "stopped"],
         work |-> [q \in Queues |-> 0], left |-> [q \in Queues |-> packets],
         woken |-> [q \in Queues |-> FALSE], stops |-> [q \in Queues |-> GniStops],
         cmd |-> {}, read |-> {}, timer |-> IF packets = 0 THEN "idle" ELSE "off",
         filter |-> IF packets = 0 THEN "idle" ELSE "off", want |-> {}, upset |-> {}]

-----------------------------------------------------------------------------
(* Hardware *)

\* A packet was sent or received: the status is latched, masked or not.
Completion(q) ==
  /\ gni.left[q] > 0 /\ gni.queue[q] # "stopped"
  /\ gni' = [gni EXCEPT !.left[q] = @ - 1, !.work[q] = @ + 1, !.status = @ \cup {q}]

-----------------------------------------------------------------------------
(* ISR and DPC *)

\* Mutant: the ISR acknowledges what it masks out, too.
IsrClearsAll ==
  LET bits == gni.status \ gni.masked
  IN /\ bits # {}
     /\ gni' = [gni EXCEPT !.status = {}, !.masked = @ \cup bits,
                  !.saved = @ \cup bits, !.dpcQueued = TRUE]

GenetInterruptIsr ==
  LET bits == gni.status \ gni.masked
  IN /\ bits # {}
     /\ gni' = [gni EXCEPT !.status = @ \ bits, !.masked = @ \cup bits,
                  !.saved = @ \cup bits, !.dpcQueued = TRUE]

DpcTake ==
  /\ gni.dpcQueued /\ gni.dpc.pc = "idle"
  /\ gni' = [gni EXCEPT !.dpcQueued = FALSE, !.saved = {},
               !.dpc = [pc |-> "look", bits |-> gni.saved, call |-> Nobody]]

DpcLook ==
  /\ gni.dpc.pc = "look"
  /\ \/ /\ gni.dpc.bits = {}
        /\ gni' = [gni EXCEPT !.dpc.pc = "idle"]
     \/ \E q \in gni.dpc.bits :
          /\ "tx" \in gni.dpc.bits => q = "tx"
          /\ gni' = [gni EXCEPT !.notify[q] = FALSE,
                       !.dpc = [pc |-> IF gni.notify[q] THEN "call" ELSE "look",
                                bits |-> @.bits \ {q},
                                call |-> IF gni.notify[q] THEN q ELSE Nobody]]

\* NetTxQueueNotifyMoreCompletedPacketsAvailable, NetRxQueueNotifyMoreReceivedPacketsAvailable
DpcCall ==
  /\ gni.dpc.pc = "call"
  /\ gni' = [gni EXCEPT !.woken[gni.dpc.call] = TRUE,
               !.dpc = [@ EXCEPT !.pc = "look", !.call = Nobody]]

GenetInterruptDpc == DpcTake \/ DpcLook \/ DpcCall

-----------------------------------------------------------------------------
(* Queues *)

\* GenetInterruptSetCommon: the flag is set before the interrupt lock is taken ...
NotifySet(q, enabled) ==
  [gni EXCEPT !.lock = q, !.notify[q] = enabled, !.queue[q] = IF enabled THEN "arm" ELSE "disarm"]

\* ... and the masks follow both flags.
InterruptMasks(s) == [s EXCEPT !.masked = {q \in Queues : ~s.notify[q]}]

\* GenetTxQueueAdvance, GenetRxQueueAdvance
Advance(q) ==
  /\ gni.queue[q] = "polling" /\ gni.work[q] > 0
  /\ gni' = [gni EXCEPT !.work[q] = 0]

SetNotificationEnabled(q) ==
  /\ gni.queue[q] = "polling" /\ gni.work[q] = 0 /\ gni.lock = Nobody
  /\ gni' = NotifySet(q, TRUE)

ArmMasks(q) ==
  /\ gni.queue[q] = "arm"
  /\ gni' = [InterruptMasks(gni) EXCEPT !.lock = Nobody, !.queue[q] = "waiting"]

Wake(q) ==
  /\ gni.queue[q] = "waiting" /\ gni.woken[q]
  /\ gni' = [gni EXCEPT !.woken[q] = FALSE, !.queue[q] = "polling"]

\* GenetTxQueueStart, GenetRxQueueStart, GenetTxQueueStop and GenetRxQueueCancel read and
\* write UMAC.Cmd under the lock.
StartRead(q) ==
  /\ gni.queue[q] = "stopped" /\ gni.lock = Nobody
  /\ gni' = [gni EXCEPT !.lock = q, !.read = gni.cmd, !.queue[q] = "start", !.want = @ \cup {q}]

StartWrite(q) ==
  /\ gni.queue[q] = "start"
  /\ gni' = [gni EXCEPT !.lock = Nobody, !.cmd = gni.read \cup {q}, !.queue[q] = "polling"]

StopRead(q) ==
  /\ gni.queue[q] \in {"polling", "waiting"} /\ gni.stops[q] > 0 /\ gni.lock = Nobody
  /\ gni' = [gni EXCEPT !.lock = q, !.read = gni.cmd, !.queue[q] = "stop", !.want = @ \ {q},
               !.stops[q] = @ - 1]

\* The transmit queue keeps the lock until it has disarmed its interrupt, the receive queue
\* takes it again.
StopWrite(q) ==
  /\ gni.queue[q] = "stop"
  /\ gni' = [gni EXCEPT !.cmd = gni.read \ {q}, !.queue[q] = "cancelled",
               !.lock = IF q = "tx" THEN q ELSE Nobody]

Disarm(q) ==
  /\ gni.queue[q] = "cancelled" /\ gni.lock \in {q, Nobody}
  /\ gni' = NotifySet(q, FALSE)

DisarmMasks(q) ==
  /\ gni.queue[q] = "disarm"
  /\ gni' = [InterruptMasks(gni) EXCEPT !.queue[q] = "flush"]

\* KeFlushQueuedDpcs, with the lock held: the timer's DPC, waiting for it, never ends.
Flush(q) ==
  /\ gni.queue[q] = "flush"
  /\ \/ /\ gni.timer \in {"lock", "write"}
        /\ gni' = [gni EXCEPT !.upset = {"flush"}]
     \/ /\ gni.timer \in {"idle", "off"} /\ ~gni.dpcQueued /\ gni.dpc.pc = "idle"
        /\ gni' = [gni EXCEPT !.queue[q] = "stopped", !.lock = Nobody, !.woken[q] = FALSE,
                     !.work[q] = 0]

-----------------------------------------------------------------------------
(* Timer and filter *)

\* GenetTimerFunc is a DPC that waits for the lock.
TimerDue ==
  /\ gni.timer = "idle" /\ "speed" \notin gni.cmd
  /\ gni' = [gni EXCEPT !.timer = "lock"]

TimerRead ==
  /\ gni.timer = "lock" /\ gni.lock = Nobody
  /\ gni' = [gni EXCEPT !.timer = "write", !.lock = "timer", !.read = gni.cmd]

\* GenetMacSetLinkState
TimerWrite ==
  /\ gni.timer = "write"
  /\ gni' = [gni EXCEPT !.timer = "idle", !.lock = Nobody, !.cmd = gni.read \cup {"speed"},
               !.want = @ \cup {"speed"}]

\* GenetSetReceiveFilter, GenetSetMacAddressFilters
FilterRead ==
  /\ gni.filter = "idle" /\ gni.lock = Nobody /\ "promiscuous" \notin gni.want
  /\ gni' = [gni EXCEPT !.filter = "write", !.lock = "filter", !.read = gni.cmd]

FilterWrite ==
  /\ gni.filter = "write"
  /\ gni' = [gni EXCEPT !.filter = "idle", !.lock = Nobody, !.cmd = gni.read \cup {"promiscuous"},
               !.want = @ \cup {"promiscuous"}]

-----------------------------------------------------------------------------
QueueStep(q) == \/ Advance(q) \/ SetNotificationEnabled(q) \/ ArmMasks(q) \/ Wake(q)
                \/ StartRead(q) \/ StartWrite(q)
StopStep(q) == StopWrite(q) \/ Disarm(q) \/ DisarmMasks(q) \/ Flush(q)
OtherLocks == TimerRead \/ TimerWrite \/ FilterWrite

GniNext ==
  /\ gni.upset = {}
  /\ \/ GenetInterruptIsr \/ GenetInterruptDpc \/ OtherLocks \/ TimerDue \/ FilterRead
     \/ \E q \in Queues : Completion(q) \/ QueueStep(q) \/ StopStep(q) \/ StopRead(q)

-----------------------------------------------------------------------------
\* A queue that sleeps with work to do is about to be woken: the completion between its last
\* look and the arming of its interrupt is not lost.
GniNoLostNotification ==
  \A q \in Queues :
    gni.queue[q] = "waiting" /\ gni.work[q] > 0 /\ ~gni.woken[q] =>
      \/ q \in gni.status \ gni.masked \/ q \in gni.saved
      \/ q \in gni.dpc.bits \/ gni.dpc.call = q

\* The DPC never calls a queue that has been stopped.
GniStoppedIsQuiet == \A q \in Queues : gni.queue[q] = "stopped" => gni.dpc.call # q

\* No change of UMAC.Cmd is lost: not the enabling of a queue, nor the speed, nor the filter.
GniCommandKept == gni.lock = Nobody => gni.cmd = gni.want

\* Queues see what was completed, and a stop ends, unless it meets the timer.
GniGoingOn ==
  gni.upset # {} \/ \A q \in Queues : gni.work[q] = 0 /\ gni.queue[q] \in {"waiting", "stopped"}
=============================================================================
