----------------------------- MODULE MCDevices -----------------------------
(***************************************************************************)
(* The drivers with queues of requests that must end, for TLC: the four    *)
(* parts of the mini UART driver, the two of the PL011 driver, audio       *)
(* through the PWM controller, and the notification of the Ethernet        *)
(* driver's queues.  They share no state that matters to each other, so a  *)
(* behaviour exercises one of them (its scene) and the others stay where   *)
(* they start.                                                             *)
(***************************************************************************)
EXTENDS MiniUartTx, MiniUartRx, MiniUartWait, MiniUartLine, Pl011Tx, Pl011Rx,
        PwmAudio, GenetInterrupts

VARIABLE scene

miniVars == <<mtx, mrx, mwt, mln>>
vars == <<scene, miniVars, plt, plr>>

WriteSizes == [w1 |-> 2, w2 |-> 1]
CounterSizes == [x1 |-> 1]
ReadSizes == [r1 |-> 2, r2 |-> 1]
BufferSizes == [s1 |-> 4]
Masks == [m1 |-> {"rx"}, m2 |-> {"tx"}]
PioWrites == <<3, 1>>
PioReads == <<3>>

TxLoads == {[requests |-> {"w1", "w2"}, holds |-> {"break"}],
            [requests |-> {"w1", "x1"}, holds |-> {}],
            [requests |-> {"w2", "i1"}, holds |-> {"xoff"}],
            [requests |-> {"w2", "i1"}, holds |-> {"cts"}]}

RxLoad == [requests |-> {"r1", "r2"}, total |-> FALSE, int |-> FALSE, present |-> FALSE,
           os2 |-> FALSE, crunch |-> FALSE, abort |-> FALSE, lines |-> {}]

RxLoads == {[RxLoad EXCEPT !.requests = {"r1"}, !.total = TRUE, !.int = TRUE],
            [RxLoad EXCEPT !.total = TRUE],
            [RxLoad EXCEPT !.os2 = TRUE, !.crunch = TRUE, !.total = TRUE, !.requests = {"r1"}],
            [RxLoad EXCEPT !.abort = TRUE],
            [RxLoad EXCEPT !.present = TRUE],
            [RxLoad EXCEPT !.requests = {"r1", "s1"}, !.lines = {"dtr", "xoff"}]}

UartScenes == {"tx", "rx", "wait", "line", "pl011tx", "pl011rx"}

UartInit ==
  /\ MtxInit /\ MrxInit /\ MwtInit /\ MlnInit
  /\ PL011TxPioTransmitStart /\ PL011RxPioReceiveStart
  /\ scene # "tx" => mtx.load = CHOOSE load \in MtxLoads : TRUE
  /\ scene # "rx" => mrx.load = CHOOSE load \in RxLoads : TRUE

Next ==
  /\ UNCHANGED scene
  /\ \/ scene = "tx" /\ MtxNext /\ UNCHANGED <<mrx, mwt, mln, plt, plr>>
     \/ scene = "rx" /\ MrxNext /\ UNCHANGED <<mtx, mwt, mln, plt, plr>>
     \/ scene = "wait" /\ MwtNext /\ UNCHANGED <<mtx, mrx, mln, plt, plr>>
     \/ scene = "line" /\ MlnNext /\ UNCHANGED <<mtx, mrx, mwt, plt, plr>>
     \/ scene = "pl011tx" /\ PltNext /\ UNCHANGED <<miniVars, plr>>
     \/ scene = "pl011rx" /\ PlrNext /\ UNCHANGED <<miniVars, plt>>

UartFairness ==
  /\ MtxFairness /\ MrxFairness /\ MwtFairness /\ MlnFairness
  /\ PltFairness /\ PlrFairness

-----------------------------------------------------------------------------
others == <<pwa, gni>>
deviceVars == <<vars, others>>

DeviceInit ==
  /\ scene \in UartScenes \cup {"audio", "genet"}
  /\ UartInit /\ PwaInit /\ GniInit
  /\ scene # "genet" => gni.timer = "idle"

DeviceNext ==
  \/ Next /\ UNCHANGED others
  \/ scene = "audio" /\ PwaNext /\ UNCHANGED <<vars, gni>>
  \/ scene = "genet" /\ GniNext /\ UNCHANGED <<vars, pwa>>

\* Each driver's fairness counts in its scene only: nothing else moves there.
DeviceFairness ==
  /\ UartFairness
  /\ WF_pwa(scene = "audio" /\ PwaIsr) /\ WF_pwa(scene = "audio" /\ PwaDpc)
  /\ WF_pwa(scene = "audio" /\ PwaDma)
  /\ WF_pwa(scene = "audio" /\ (SetWritePacket \/ PauseDma))
  /\ WF_gni(scene = "genet" /\ (GenetInterruptIsr \/ GenetInterruptDpc))
  /\ WF_gni(scene = "genet" /\ OtherLocks)
  /\ \A q \in Queues : WF_gni(scene = "genet" /\ (QueueStep(q) \/ StopStep(q)))

DeviceSpec == DeviceInit /\ [][DeviceNext]_deviceVars /\ DeviceFairness

\* Transmission alone, with the queue of writes never empty.
QueuedWrites == {[requests |-> {"w1", "w2"}, holds |-> {}]}

TxSpec == DeviceInit /\ scene = "tx" /\ [][DeviceNext]_deviceVars /\ MtxFairness

\* The PL011's reads alone.
ReadSpec == DeviceInit /\ scene = "pl011rx" /\ [][DeviceNext]_deviceVars /\ PlrFairness

-----------------------------------------------------------------------------
(***************************************************************************)
(* No ASSERT of the driver fails: a reference is never taken twice or      *)
(* given back by a party that does not hold it, no request is completed    *)
(* with a reference outstanding or twice (serialp.h, utils.c).             *)
(***************************************************************************)
AssertionsHold == MtxAssertionsHold /\ MrxAssertionsHold /\ MwtAssertionsHold

(***************************************************************************)
(* What the ISR reads or writes of a request -- the rest of a write, the   *)
(* buffer of a read, the mask of a wait -- is of a request that has not    *)
(* been completed, whatever timer, cancellation or purge came first.       *)
(***************************************************************************)
IsrHoldsReference == MtxIsrHoldsReference /\ MrxIsrHoldsReference /\ MwtIsrHoldsReference

(***************************************************************************)
(* Characters are neither lost nor counted twice: TotalCharsQueued is what *)
(* is still to be sent, and what was received or is to be sent is in order,*)
(* in one place, whoever of thread, ISR and DPC moves it.                  *)
(***************************************************************************)
CharactersKept == MtxCharsAccounted /\ MrxCharsInOrder /\ PltBytesInOrder /\ PlrBytesInOrder

(***************************************************************************)
(* SerCx2 hears "ready" from the PL011 driver only while it waits for it:  *)
(* never twice, never after a cancellation that was answered with TRUE.    *)
(***************************************************************************)
ReadyIsExpected == PltReadyExpected /\ PlrReadyExpected

(***************************************************************************)
(* CountOfTryingToLowerRTS counts the attempts under way, and a closed     *)
(* port keeps no line raised, no timer, no DPC and no buffer.              *)
(***************************************************************************)
CloseLeavesNothing == MlnCountIsAttempts /\ MlnClosedIsQuiet

(***************************************************************************)
(* Every request of a kind that has a timeout, every wait and every close  *)
(* ends, in whatever order timers, DPCs, interrupt and cancellation run;   *)
(* the PL011's writers, readers and drains go on.                          *)
(***************************************************************************)
UartGoesOn ==
  /\ MtxAllEnded /\ MrxAllEnded /\ MwtAnswered /\ MlnNotClosing
  /\ PltGoingOn /\ PlrGoingOn

\* The audio client's packets are played in order, the count of packets under way covers what
\* the DMA can reach, and no underflow is missed and no position reported ahead of the sound.
AudioInOrder == PwaPlaysInOrder /\ PwaInUseCovers /\ PwaUnderflowSeen /\ PwaPositionTrue

\* No event of the Ethernet driver is missed and none comes late: completions of a sleeping
\* queue, calls into a stopped one, changes of UMAC.Cmd.
EventsSeen == GniNoLostNotification /\ GniStoppedIsQuiet /\ GniCommandKept

\* UART requests end, the audio client is asked for packets, queues see their completions.
RequestsEnd == []<>(UartGoesOn /\ PwaGoesOn /\ GniGoingOn)
=============================================================================
