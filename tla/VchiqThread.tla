---------------------------- MODULE VchiqThread -----------------------------
(***************************************************************************)
(* A slot-processing thread of the VCHIQ driver (VchiqTriggerThreadRoutine *)
(* or VchiqRecycleThreadRoutine) against the firmware that posts work for  *)
(* it and against VchiqRelease that stops it.                              *)
(*                                                                         *)
(* The two threads differ only in what an item of work is: a message of    *)
(* the master stream (posted = Master.TxPos, done = CurrentRxPos) or a     *)
(* recycled slot (posted = Slave.SlotQueueRecycle, done =                  *)
(* currentAvailableSlot).  Items are counted here; VchiqTx and VchiqRx     *)
(* model what handling one does.                                           *)
(*                                                                         *)
(* First one VCHIQ_REMOTE_EVENT of the slave side of slot zero             *)
(* (Slave.Trigger or Slave.Recycle): the two words Armed and Fired the     *)
(* VideoCore firmware shares with the driver, the doorbell BELL0, the      *)
(* interrupt service routine and DPC, and the dispatcher event the DPC     *)
(* sets for the thread.  The firmware writes Fired and rings the bell the  *)
(* way VchiqSignalVC does in the other direction.  The DPC tests the two   *)
(* words and then writes Armed and sets the event in separate steps,       *)
(* because the thread and the firmware touch the same words meanwhile.     *)
(***************************************************************************)
EXTENDS Naturals

CONSTANT MaxPosted  \* bound on the work the firmware posts

ASSUME MaxPostedAssumption == MaxPosted \in Nat \ {0}

VARIABLES
  fired,      \* VCHIQ_REMOTE_EVENT.Fired = 1
  armed,      \* VCHIQ_REMOTE_EVENT.Armed = 1
  bell,       \* bit 0x4 of BELL0: the firmware rang, the ISR has not run
  dpcQueued,  \* a DPC is queued
  dpcPc,      \* where the running DPC is in VchiqDpc
  event       \* VchiqThreadEvent[...], a synchronization event

eventVars == <<fired, armed, bell, dpcQueued, dpcPc, event>>

EventTypeOK ==
  /\ fired \in BOOLEAN
  /\ armed \in BOOLEAN
  /\ bell \in BOOLEAN
  /\ dpcQueued \in BOOLEAN
  /\ dpcPc \in {"idle", "disarm", "set"}
  /\ event \in BOOLEAN

\* VchiqInit arms the event; slot zero was zeroed before.
EventInit ==
  /\ fired = FALSE
  /\ armed = TRUE
  /\ bell = FALSE
  /\ dpcQueued = FALSE
  /\ dpcPc = "idle"
  /\ event = FALSE

-----------------------------------------------------------------------------
(* The firmware's half of the signal. *)

\* First the word ...
FireEvent ==
  /\ fired' = TRUE
  /\ UNCHANGED <<armed, bell, dpcQueued, dpcPc, event>>

\* ... then the doorbell, only when the driver asked for it.
RingIfArmed ==
  /\ bell' = (bell \/ armed)
  /\ UNCHANGED <<fired, armed, dpcQueued, dpcPc, event>>

-----------------------------------------------------------------------------
(* Interrupt service routine and DPC. *)

\* Reading BELL0 clears it; a DPC that is already queued is not queued twice.
VchiqIsr ==
  /\ bell
  /\ bell' = FALSE
  /\ dpcQueued' = TRUE
  /\ UNCHANGED <<fired, armed, dpcPc, event>>

\* Only the DPC clears Armed, so testing the two words is one step.
DpcTest ==
  /\ dpcQueued
  /\ dpcPc = "idle"
  /\ dpcQueued' = FALSE
  /\ dpcPc' = IF armed /\ fired THEN "disarm" ELSE "idle"
  /\ UNCHANGED <<fired, armed, bell, event>>

DpcDisarm ==
  /\ dpcPc = "disarm"
  /\ armed' = FALSE
  /\ dpcPc' = "set"
  /\ UNCHANGED <<fired, bell, dpcQueued, event>>

DpcSetEvent ==
  /\ dpcPc = "set"
  /\ event' = TRUE
  /\ dpcPc' = "idle"
  /\ UNCHANGED <<fired, armed, bell, dpcQueued>>

VchiqDpc == DpcTest \/ DpcDisarm \/ DpcSetEvent

-----------------------------------------------------------------------------
(* What the thread does to the event. *)

\* VCHIQ_RESET_EVENT_SIGNAL
ResetSignal ==
  /\ fired' = FALSE
  /\ UNCHANGED <<armed, bell, dpcQueued, dpcPc, event>>

\* VCHIQ_ENABLE_EVENT_INTERRUPT
EnableInterrupt ==
  /\ armed' = TRUE
  /\ UNCHANGED <<fired, bell, dpcQueued, dpcPc, event>>

\* A wait satisfied by the synchronization event resets it.
TakeEvent ==
  /\ event
  /\ event' = FALSE
  /\ UNCHANGED <<fired, armed, bell, dpcQueued, dpcPc>>

-----------------------------------------------------------------------------
(* The thread, the firmware as poster of work, and VchiqRelease. *)

VARIABLES
  posted,    \* work the firmware made visible in slot zero
  done,      \* work the thread has handled
  posterPc,  \* the firmware: "idle", "fire", "ring"
  threadPc,  \* the thread, see ThreadPc
  stop,      \* VchiqThreadEventStop, a notification event
  slotZero,  \* the shared memory: "mapped" or "freed"
  relPc      \* VchiqRelease: "idle", "freed", "join", "done"

threadVars ==
  <<eventVars, posted, done, posterPc, threadPc, stop, slotZero, relPc>>

\* "check": top of the while loop; "wait": in VchiqWaitForEvents; "loop":
\* the while test of the processing routine; "reset", "arm": about to write
\* Fired, Armed; "exited": terminated; "fault": touched slot zero after it
\* was freed.
ThreadPc == {"check", "wait", "loop", "reset", "arm", "exited", "fault"}

ThreadTypeOK ==
  /\ EventTypeOK
  /\ posted \in 0..MaxPosted
  /\ done \in 0..posted
  /\ posterPc \in {"idle", "fire", "ring"}
  /\ threadPc \in ThreadPc
  /\ stop \in BOOLEAN
  /\ slotZero \in {"mapped", "freed"}
  /\ relPc \in {"idle", "freed", "join", "done"}

ThreadInit ==
  /\ EventInit
  /\ posted = 0
  /\ done = 0
  /\ posterPc = "idle"
  /\ threadPc = "check"
  /\ stop = FALSE
  /\ slotZero = "mapped"
  /\ relPc = "idle"

-----------------------------------------------------------------------------
(* Firmware (external): publish the work, set Fired, ring if Armed. *)

FwPost ==
  /\ slotZero = "mapped"
  /\ posterPc = "idle"
  /\ posted < MaxPosted
  /\ posted' = posted + 1
  /\ posterPc' = "fire"
  /\ UNCHANGED <<eventVars, done, threadPc, stop, slotZero, relPc>>

FwFire ==
  /\ posterPc = "fire"
  /\ FireEvent
  /\ posterPc' = "ring"
  /\ UNCHANGED <<posted, done, threadPc, stop, slotZero, relPc>>

FwRing ==
  /\ posterPc = "ring"
  /\ RingIfArmed
  /\ posterPc' = "idle"
  /\ UNCHANGED <<posted, done, threadPc, stop, slotZero, relPc>>

ThreadFirmware == FwPost \/ FwFire \/ FwRing

-----------------------------------------------------------------------------
(* Interrupts are connected while the slot memory is mapped. *)

Isr ==
  /\ slotZero = "mapped"
  /\ VchiqIsr
  /\ UNCHANGED <<posted, done, posterPc, threadPc, stop, slotZero, relPc>>

Dpc ==
  /\ slotZero = "mapped"
  /\ VchiqDpc
  /\ UNCHANGED <<posted, done, posterPc, threadPc, stop, slotZero, relPc>>

-----------------------------------------------------------------------------
(* The thread. *)

\* A step that reads or writes slot zero after VchiqRelease freed it.
ThreadFault ==
  /\ slotZero = "freed"
  /\ threadPc \in {"check", "loop", "reset", "arm"}
  /\ threadPc' = "fault"
  /\ UNCHANGED <<eventVars, posted, done, posterPc, stop, slotZero, relPc>>

\* Fired = 1 skips the wait altogether, and with it the stop event.
ThreadCheck ==
  /\ slotZero = "mapped"
  /\ threadPc = "check"
  /\ threadPc' = IF fired THEN "loop" ELSE "wait"
  /\ UNCHANGED <<eventVars, posted, done, posterPc, stop, slotZero, relPc>>

\* KeWaitForMultipleObjects reports the event before the stop event.
ThreadWake ==
  /\ threadPc = "wait"
  /\ TakeEvent
  /\ threadPc' = "loop"
  /\ UNCHANGED <<posted, done, posterPc, stop, slotZero, relPc>>

\* Mutant of ThreadStop: the stop event is only looked at after a wake-up.
ThreadStopAfterWake ==
  /\ threadPc = "wait"
  /\ event
  /\ stop
  /\ threadPc' = "exited"
  /\ UNCHANGED <<eventVars, posted, done, posterPc, stop, slotZero, relPc>>

ThreadStop ==
  /\ threadPc = "wait"
  /\ ~event
  /\ stop
  /\ threadPc' = "exited"
  /\ UNCHANGED <<eventVars, posted, done, posterPc, stop, slotZero, relPc>>

\* Mutant of ThreadItem: the loop runs one turn too many.
ThreadItemOffByOne ==
  /\ slotZero = "mapped"
  /\ threadPc = "loop"
  /\ done <= posted
  /\ done' = done + 1
  /\ threadPc' = "reset"
  /\ UNCHANGED <<eventVars, posted, posterPc, stop, slotZero, relPc>>

\* One turn of the processing loop, up to the reset of Fired.
ThreadItem ==
  /\ slotZero = "mapped"
  /\ threadPc = "loop"
  /\ done < posted
  /\ done' = done + 1
  /\ threadPc' = "reset"
  /\ UNCHANGED <<eventVars, posted, posterPc, stop, slotZero, relPc>>

ThreadReset ==
  /\ slotZero = "mapped"
  /\ threadPc = "reset"
  /\ ResetSignal
  /\ threadPc' = "loop"
  /\ UNCHANGED <<posted, done, posterPc, stop, slotZero, relPc>>

ThreadNoItem ==
  /\ slotZero = "mapped"
  /\ threadPc = "loop"
  /\ ~(done < posted)
  /\ threadPc' = "arm"
  /\ UNCHANGED <<eventVars, posted, done, posterPc, stop, slotZero, relPc>>

\* Mutant of ThreadArm: Fired is reset when the interrupt is enabled.
ThreadArmAndReset ==
  /\ slotZero = "mapped"
  /\ threadPc = "arm"
  /\ armed' = TRUE
  /\ fired' = FALSE
  /\ threadPc' = "check"
  /\ UNCHANGED <<bell, dpcQueued, dpcPc, event, posted, done, posterPc, stop,
                 slotZero, relPc>>

ThreadArm ==
  /\ slotZero = "mapped"
  /\ threadPc = "arm"
  /\ EnableInterrupt
  /\ threadPc' = "check"
  /\ UNCHANGED <<posted, done, posterPc, stop, slotZero, relPc>>

Thread ==
  \/ ThreadFault
  \/ ThreadCheck
  \/ ThreadWake
  \/ ThreadStop
  \/ ThreadItem
  \/ ThreadReset
  \/ ThreadNoItem
  \/ ThreadArm

-----------------------------------------------------------------------------
(* VchiqRelease, called from EvtDeviceReleaseHardware: the framework has   *)
(* disconnected the interrupt by then, with no DPC left.                   *)

ReleaseFree ==
  /\ relPc = "idle"
  /\ ~dpcQueued
  /\ dpcPc = "idle"
  /\ slotZero' = "freed"
  /\ relPc' = "freed"
  /\ UNCHANGED <<eventVars, posted, done, posterPc, threadPc, stop>>

\* Mutant of ReleaseSetStop: the thread is stopped through its own event.
ReleaseSetStopByEvent ==
  /\ relPc = "freed"
  /\ stop' = TRUE
  /\ event' = TRUE
  /\ relPc' = "join"
  /\ UNCHANGED <<fired, armed, bell, dpcQueued, dpcPc, posted, done, posterPc,
                 threadPc, slotZero>>

ReleaseSetStop ==
  /\ relPc = "freed"
  /\ stop' = TRUE
  /\ relPc' = "join"
  /\ UNCHANGED <<eventVars, posted, done, posterPc, threadPc, slotZero>>

\* The thread ended, or one second passed: both end the wait.
ReleaseJoin ==
  /\ relPc = "join"
  /\ relPc' = "done"
  /\ UNCHANGED <<eventVars, posted, done, posterPc, threadPc, stop, slotZero>>

VchiqRelease == ReleaseFree \/ ReleaseSetStop \/ ReleaseJoin

-----------------------------------------------------------------------------
ThreadNext == ThreadFirmware \/ Isr \/ Dpc \/ Thread \/ VchiqRelease

(* The processor keeps running the thread, the ISR, the DPC and a release   *)
(* that has begun; the firmware finishes a signal it began.  Nothing makes  *)
(* the firmware post or the framework release the device.                   *)
ThreadFairness ==
  /\ WF_threadVars(FwFire)
  /\ WF_threadVars(FwRing)
  /\ WF_threadVars(Isr)
  /\ WF_threadVars(Dpc)
  /\ WF_threadVars(Thread)
  /\ WF_threadVars(ReleaseSetStop)
  /\ WF_threadVars(ReleaseJoin)

ThreadSpec == ThreadInit /\ [][ThreadNext]_threadVars /\ ThreadFairness

-----------------------------------------------------------------------------
(* Properties. *)

\* The thread never parks on work without a wake-up on its way: whenever it
\* is in VchiqWaitForEvents although the firmware posted work it has not
\* handled, either the firmware is still signalling, or the doorbell, the
\* DPC or the thread event will wake it.
NoLostWakeup ==
  (slotZero = "mapped" /\ threadPc = "wait" /\ done < posted) =>
    \/ posterPc # "idle"
    \/ bell \/ dpcQueued \/ dpcPc # "idle"
    \/ event

\* The inductive strengthening of NoLostWakeup.  While slot zero is mapped: an
\* event that is not armed has a wake-up coming or the thread is about to arm
\* it again; work that was announced and not handled is still marked in Fired
\* once the thread has left its loop; and only VchiqRelease stops the thread.
NotArmedIsTransient ==
  (slotZero = "mapped" /\ ~armed) =>
    dpcPc = "set" \/ event \/ threadPc \in {"loop", "reset", "arm"}

UnhandledIsFired ==
  (/\ slotZero = "mapped"
   /\ done < posted
   /\ posterPc # "fire"
   /\ threadPc \in {"arm", "check", "wait"}) => fired

StopAfterFree ==
  /\ relPc # "idle" => slotZero = "freed"
  /\ stop => relPc # "idle"

WakeupInv ==
  /\ ThreadTypeOK
  /\ NotArmedIsTransient
  /\ UnhandledIsFired
  /\ StopAfterFree
  /\ NoLostWakeup

\* A thread that is parked with no event pending when the slot memory is gone
\* never touches it: the stop event takes it straight out of its loop.
ParkedThreadNeverFaults ==
  [](slotZero = "freed" /\ threadPc = "wait" /\ ~event
       => [](threadPc # "fault"))
=============================================================================
