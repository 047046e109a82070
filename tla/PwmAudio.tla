------------------------------ MODULE PwmAudio ------------------------------
(***************************************************************************)
(* Audio through the PWM controller: the stream of the audio driver        *)
(* (minwavertstream.cpp) and the DMA of the PWM driver (dma.cpp,           *)
(* dmaInterrupt.cpp).  The DMA buffer holds PwaNum packets of two control  *)
(* blocks each; only the second raises an interrupt, and its NEXTCONBK is  *)
(* the link to the next packet, which the stream sets when the packet is   *)
(* written and the ISR clears when it was played.  The stream reads and    *)
(* writes the driver's counters directly, without a lock, and neither ISR  *)
(* nor DPC takes the driver's lock.                                        *)
(*                                                                         *)
(* Assumed of the client, the audio engine: it writes a packet when its    *)
(* event is set, and leaves PAUSE downwards all the way to STOP.  Errors   *)
(* of the DMA controller, after which nothing tells whether it goes on,    *)
(* are left out.  upset holds the races the code does not decide.          *)
(***************************************************************************)
EXTENDS Integers, FiniteSets

CONSTANTS
  PwaNum,       \* DmaNumPackets
  PwaPackets,   \* the packets the client writes
  PwaStreams    \* how often the stream is acquired

ASSUME PwaAssumption == /\ PwaNum \in Nat \ {0, 1} /\ PwaPackets \in Nat /\ PwaStreams \in Nat

VARIABLE
  pwa
  \* ks, pwm: m_KsState, m_PwmState;  inited: m_PwmInitialized;
  \* inRestart, base: m_RestartInProgress, m_RestartPacketNumber;
  \* inUse, processed, toPrime, restart, lastKnown: the dma... fields of the device context;
  \* link[i]: the second control block before packet i names i;  content[i]: the packet in slot i;
  \* at: the packet of CONBLK_AD or None;  tail: whether it is in its second block;  next: the
  \* link latched with that block;  active, int: of CS;  source: the last packet SOURCE_AD passed;
  \* played: packets played since STOP_AUDIO;  event: the client's event;
  \* isr, dpc, writer, call: what the ISR, the DPC, SetWritePacket and a PAUSE call have read;
  \* dpcQueued;  turn: the next packet of the client;  streams: the streams so far;  upset

None == -1
Silence == -1

Slots == 0..PwaNum - 1
PwaPreset == PwaNum \div 4
Previous(i) == IF i = 0 THEN PwaNum - 1 ELSE i - 1
Following(i) == (i + 1) % PwaNum

IdleIsr == [pc |-> "idle", conblk |-> None, tail |-> FALSE, active |-> FALSE, int |-> FALSE,
            count |-> 0]
IdleWriter == [pc |-> "idle", prime |-> 0]

PwaInit ==
  pwa = [ks |-> "stop", pwm |-> "stop", inited |-> FALSE, inRestart |-> FALSE, base |-> 0,
         inUse |-> 0, processed |-> 0, toPrime |-> 0, restart |-> FALSE, lastKnown |-> None,
         link |-> [i \in Slots |-> FALSE], content |-> [i \in Slots |-> Silence],
         at |-> None, tail |-> FALSE, next |-> FALSE, active |-> FALSE, int |-> FALSE,
         source |-> None, played |-> 0, event |-> TRUE,
         isr |-> IdleIsr, dpc |-> [pc |-> "idle", active |-> FALSE], writer |-> IdleWriter,
         call |-> "none", dpcQueued |-> FALSE, turn |-> 0, streams |-> 0, upset |-> {}]

-----------------------------------------------------------------------------
(* The DMA controller *)

\* The packets played whose links the ISR has not cleared yet.
Unaccounted(s) == (s.at - 1 - s.lastKnown) % PwaNum

\* The first block of a packet is done: the second, with its link, is read.  An ISR that is
\* late by the whole buffer leaves a link to a packet that was played.
DmaEntersTail ==
  /\ pwa.active /\ pwa.at # None /\ ~pwa.tail
  /\ pwa' = [pwa EXCEPT !.tail = TRUE, !.next = pwa.link[Following(pwa.at)],
               !.upset = @ \cup (IF Unaccounted(pwa) = PwaNum - 1 THEN {"late"} ELSE {})]

DmaEndsPacket ==
  /\ pwa.active /\ pwa.at # None /\ pwa.tail
  /\ pwa' = [pwa EXCEPT !.tail = FALSE, !.int = TRUE, !.source = pwa.at,
               !.played = @ + 1, !.active = pwa.next,
               !.at = IF pwa.next THEN Following(pwa.at) ELSE None]

\* Writes 1 to INT and the given ACTIVE: without a control block the DMA stays idle.
WriteCs(s, on, clear) ==
  [s EXCEPT !.active = on /\ s.at # None, !.int = IF clear THEN FALSE ELSE s.int]

-----------------------------------------------------------------------------
(* ISR and DPC *)

\* Mutant: at the end of the buffer the packets are not taken modulo the buffer.
ProcessedPacketsNoWrap(completed, lastKnown) ==
  IF lastKnown = None THEN completed + 1 ELSE completed + PwaNum - lastKnown

\* GetNumberOfProcessedPackets
ProcessedPackets(completed, lastKnown) ==
  IF lastKnown = None THEN completed + 1
  ELSE IF completed > lastKnown THEN completed - lastKnown
  ELSE completed + PwaNum - lastKnown

\* HandleUnderflow: a pause, with a control block still named, is no underflow.
HandleUnderflow(s) ==
  LET completed == IF s.source = None THEN PwaNum - 1 ELSE s.source
  IN IF s.at # None THEN s
     ELSE [s EXCEPT !.inUse = 0, !.restart = TRUE,
             !.processed = @ + ProcessedPackets(completed, s.lastKnown),
             !.upset = @ \cup (IF s.restart \/ s.pwm = "stop" THEN {"twice"} ELSE {})]

DmaIsrConblk ==
  /\ pwa.isr.pc = "idle" /\ pwa.int
  /\ pwa' = [pwa EXCEPT !.isr = [@ EXCEPT !.pc = "cs", !.conblk = pwa.at, !.tail = pwa.tail]]

DmaIsrCs ==
  /\ pwa.isr.pc = "cs"
  /\ pwa' = [pwa EXCEPT !.isr = [@ EXCEPT !.pc = "write", !.active = pwa.active, !.int = pwa.int]]

\* The ACTIVE that was read is written back, and a completion since then loses its interrupt.
DmaIsrWrite ==
  /\ pwa.isr.pc = "write"
  /\ pwa' = [WriteCs(pwa, pwa.isr.active, pwa.isr.int) EXCEPT
               !.isr = IF pwa.isr.int THEN [@ EXCEPT !.pc = "handle"] ELSE IdleIsr]

\* CONBLK_AD in a second block, a whole packet late, counts the packet under way as played.
IsrCompleted(s) == IF s.isr.tail THEN s.isr.conblk ELSE Previous(s.isr.conblk)

DmaIsrUnderflow ==
  /\ pwa.isr.pc = "handle" /\ (~pwa.isr.active \/ pwa.isr.conblk = None)
  /\ pwa' = [HandleUnderflow(pwa) EXCEPT !.isr = IdleIsr, !.dpcQueued = TRUE]

\* Mutant: the links of played packets stay.
DmaIsrKeepsLinks ==
  /\ pwa.isr.pc = "handle" /\ pwa.isr.active /\ pwa.isr.conblk # None
  /\ LET done == IsrCompleted(pwa)
     IN pwa' = [pwa EXCEPT !.lastKnown = done,
          !.isr = [@ EXCEPT !.pc = "count", !.count = ProcessedPackets(done, pwa.lastKnown)]]

DmaIsrUnlink ==
  /\ pwa.isr.pc = "handle" /\ pwa.isr.active /\ pwa.isr.conblk # None
  /\ LET done == IsrCompleted(pwa)
         count == ProcessedPackets(done, pwa.lastKnown)
         unlinked == {i \in Slots : (done + PwaNum - i) % PwaNum < count}
     IN pwa' = [pwa EXCEPT
          !.toPrime = IF pwa.inUse < PwaNum - PwaPreset /\ @ < PwaPreset THEN PwaPreset ELSE @,
          !.upset = @ \cup (IF pwa.writer.pc = "exchange" THEN {"prime"} ELSE {})
                      \cup (IF pwa.isr.tail THEN {"late"} ELSE {}),
          !.lastKnown = done,
          !.link = [i \in Slots |-> @[i] /\ i \notin unlinked],
          !.isr = [@ EXCEPT !.pc = "count", !.count = count]]

DmaIsrCount ==
  /\ pwa.isr.pc = "count"
  /\ pwa' = [pwa EXCEPT !.inUse = @ - pwa.isr.count, !.processed = @ + pwa.isr.count,
               !.isr = IdleIsr, !.dpcQueued = TRUE]

\* The ISR preempts the DPC at every point.
DmaDpcCs ==
  /\ pwa.dpcQueued /\ pwa.dpc.pc = "idle" /\ pwa.isr.pc = "idle"
  /\ pwa' = [pwa EXCEPT !.dpcQueued = FALSE, !.dpc = [pc |-> "check", active |-> pwa.active]]

\* Mutant: the DPC trusts the ISR.
DmaDpcTrusts == pwa.dpc.pc = "check" /\ pwa.isr.pc = "idle" /\ pwa' = [pwa EXCEPT !.dpc.pc = "notify"]

DmaDpcCheck ==
  /\ pwa.dpc.pc = "check" /\ pwa.isr.pc = "idle"
  /\ pwa' = [pwa EXCEPT
       !.dpc.pc = IF ~pwa.dpc.active /\ ~pwa.restart THEN "underflow" ELSE "notify"]

DmaDpcUnderflow ==
  /\ pwa.dpc.pc = "underflow" /\ pwa.isr.pc = "idle"
  /\ pwa' = [HandleUnderflow(pwa) EXCEPT !.dpc.pc = "notify"]

DmaDpcNotify ==
  /\ pwa.dpc.pc = "notify" /\ pwa.isr.pc = "idle"
  /\ pwa' = [pwa EXCEPT !.event = TRUE, !.dpc = [pc |-> "idle", active |-> FALSE]]

-----------------------------------------------------------------------------
(* SetWritePacket *)

Underway(s) == s.isr.pc # "idle" \/ s.dpc.pc # "idle" \/ s.dpcQueued

\* UpdatePosition comes first; what it stores no other step reads.
\* A restart drops the packet and asks for the next.
WriteRestart ==
  /\ pwa.ks = "run" /\ pwa.writer.pc = "idle" /\ pwa.call = "none"
  /\ pwa.event /\ pwa.turn < PwaPackets
  /\ ~pwa.inRestart /\ pwa.restart
  /\ pwa' = [pwa EXCEPT !.pwm = "stop", !.base = pwa.turn, !.inRestart = TRUE,
               !.link = [i \in Slots |-> FALSE], !.inUse = 0, !.turn = @ + 1, !.event = TRUE]

\* STATUS_DATA_OVERRUN: the client writes the packet again at the next event.
WriteOverrun ==
  /\ pwa.ks = "run" /\ pwa.writer.pc = "idle" /\ pwa.call = "none"
  /\ pwa.event /\ pwa.turn < PwaPackets
  /\ pwa.inRestart \/ ~pwa.restart
  /\ pwa.inUse = PwaNum
  /\ pwa' = [pwa EXCEPT !.event = FALSE]

\* SilenceToPWM for the packets before the first, ConvertPCMToPWM, and the link of
\* AddPacketToDma: no packet is seen before its link.
WriteCopy ==
  /\ pwa.ks = "run" /\ pwa.writer.pc = "idle" /\ pwa.call = "none"
  /\ pwa.event /\ pwa.turn < PwaPackets
  /\ pwa.inRestart \/ ~pwa.restart
  /\ pwa.inUse # PwaNum
  /\ LET number == pwa.turn - pwa.base
         stopped == pwa.pwm = "stop"
         primed == IF stopped THEN {i \in Slots : i < number /\ i < PwaNum - 1} ELSE {}
     IN pwa' = [pwa EXCEPT !.event = FALSE, !.turn = @ + 1,
          !.content = [i \in Slots |-> IF i = number % PwaNum THEN pwa.turn
                                       ELSE IF i \in primed THEN Silence ELSE @[i]],
          !.link = [i \in Slots |-> i = number % PwaNum \/ i \in primed \/ @[i]],
          !.inUse = @ + Cardinality(primed),
          !.toPrime = IF stopped THEN PwaNum \div 2 ELSE @,
          !.writer = [pc |-> "count", prime |-> 0]]

\* The count of AddPacketToDma.
WriteCount ==
  /\ pwa.writer.pc = "count"
  /\ pwa' = [pwa EXCEPT !.inUse = @ + 1, !.writer.pc = "prime"]

WritePrime ==
  /\ pwa.writer.pc = "prime"
  /\ pwa' = [pwa EXCEPT !.writer = [@ EXCEPT !.pc = "exchange", !.prime = pwa.toPrime]]

\* The value read before is written back; what the exchange returns is counted down.
WriteExchange ==
  /\ pwa.writer.pc = "exchange"
  /\ pwa' = [pwa EXCEPT !.event = @ \/ pwa.toPrime > 0,
               !.toPrime = pwa.writer.prime - pwa.toPrime,
               !.writer.pc = IF pwa.pwm = "run" THEN "idle" ELSE "start"]

\* DmaRestartRequired is cleared, then START_AUDIO: StartAudio, StartDma, StartChannel.
StartAudio ==
  /\ pwa.writer.pc = "start"
  /\ pwa' = [pwa EXCEPT !.lastKnown = None, !.restart = FALSE, !.inRestart = FALSE,
               !.at = 0, !.tail = FALSE, !.active = TRUE, !.int = FALSE, !.pwm = "run", !.writer = IdleWriter,
               !.upset = @ \cup (IF Underway(pwa) \/ pwa.int THEN {"start"} ELSE {})]

-----------------------------------------------------------------------------
(* SetState *)

Still(s) == s.writer.pc = "idle" /\ s.call = "none"

\* STOP to ACQUIRE (AQUIRE_AUDIO), PAUSE, and the first RUN (INITIALIZE_AUDIO).
SetStateRunFirst ==
  /\ Still(pwa) /\ pwa.ks = "stop" /\ pwa.streams < PwaStreams
  /\ pwa' = [pwa EXCEPT !.ks = "run", !.inited = TRUE, !.toPrime = PwaPreset,
               !.link = [i \in Slots |-> FALSE], !.streams = @ + 1, !.event = TRUE, !.turn = 0]

\* PAUSE_AUDIO reads CS and pauses a DMA that is active.
SetStatePause ==
  /\ Still(pwa) /\ pwa.ks = "run"
  /\ IF pwa.pwm = "run" /\ pwa.active
     THEN pwa' = [pwa EXCEPT !.call = "pause"]
     ELSE pwa' = [pwa EXCEPT !.ks = "pause", !.pwm = IF @ = "run" THEN "pause" ELSE @]

\* PauseDma also clears a pending interrupt.
PauseDma ==
  /\ pwa.call = "pause"
  /\ pwa' = [WriteCs(pwa, FALSE, TRUE) EXCEPT !.call = "none", !.ks = "pause", !.pwm = "pause",
               !.upset = @ \cup (IF pwa.at = None \/ pwa.isr.pc # "idle" THEN {"pause"} ELSE {})]

\* RESUME_AUDIO
SetStateRun ==
  /\ Still(pwa) /\ pwa.ks = "pause"
  /\ pwa' = [(IF pwa.pwm = "pause" /\ ~pwa.active THEN WriteCs(pwa, TRUE, TRUE) ELSE pwa) EXCEPT
               !.ks = "run", !.pwm = IF @ = "pause" THEN "run" ELSE @,
               !.upset = @ \cup (IF pwa.pwm = "pause" /\ (pwa.int \/ pwa.isr.pc # "idle")
                                 THEN {"resume"} ELSE {})]

\* PAUSE to ACQUIRE (STOP_AUDIO, RELEASE_AUDIO) and STOP.
SetStateStop ==
  /\ Still(pwa) /\ pwa.ks = "pause"
  /\ pwa' = [pwa EXCEPT !.ks = "stop", !.pwm = "stop", !.inited = FALSE, !.inRestart = FALSE,
               !.base = 0, !.inUse = 0, !.processed = 0, !.toPrime = PwaPreset, !.restart = FALSE,
               !.lastKnown = None, !.at = None, !.tail = FALSE, !.active = FALSE, !.int = FALSE,
               !.source = None, !.played = 0,
               !.upset = @ \cup (IF Underway(pwa) THEN {"stop"} ELSE {})]

-----------------------------------------------------------------------------
PwaIsr == DmaIsrConblk \/ DmaIsrCs \/ DmaIsrWrite \/ DmaIsrUnderflow \/ DmaIsrUnlink \/ DmaIsrCount
PwaDpc == DmaDpcCs \/ DmaDpcCheck \/ DmaDpcUnderflow \/ DmaDpcNotify
SetWritePacket == \/ WriteRestart \/ WriteOverrun \/ WriteCopy \/ WriteCount
                  \/ WritePrime \/ WriteExchange \/ StartAudio
PwaDma == DmaEntersTail \/ DmaEndsPacket
SetState == SetStateRunFirst \/ SetStatePause \/ PauseDma \/ SetStateRun \/ SetStateStop

\* A behaviour ends where a race is lost.
PwaNext == pwa.upset = {} /\ (PwaIsr \/ PwaDpc \/ SetWritePacket \/ PwaDma \/ SetState)

-----------------------------------------------------------------------------
(* Correctness, as long as none of the races above was lost *)

\* The distances from the packet under way to those the DMA will play without another link.
Ahead ==
  {k \in 0..PwaNum - 1 - Unaccounted(pwa) : \A j \in 1..k :
     IF j = 1 /\ pwa.tail THEN pwa.next ELSE pwa.link[(pwa.at + j) % PwaNum]}

Playing == pwa.upset = {} /\ pwa.active /\ pwa.at # None

\* What the DMA plays on without a stop is the client's packets one after the other.
PwaPlaysInOrder ==
  Playing =>
    \A k \in Ahead \ {0} :
      LET before == pwa.content[(pwa.at + k - 1) % PwaNum]
      IN before # Silence => pwa.content[(pwa.at + k) % PwaNum] = before + 1

\* DmaPacketsInUse counts at least what is still to be played, and at most the buffer.
PwaInUseCovers ==
  /\ Playing => pwa.inUse + (IF pwa.writer.pc = "count" THEN 1 ELSE 0) >= Cardinality(Ahead)
  /\ pwa.upset = {} => pwa.inUse <= PwaNum

Quiet == /\ pwa.upset = {} /\ ~pwa.int /\ pwa.isr.pc = "idle" /\ ~pwa.dpcQueued
         /\ pwa.dpc.pc \in {"idle", "notify"}

\* The position never runs ahead of the sound, and agrees with it after an underflow.
PwaPositionTrue ==
  /\ pwa.upset = {} => pwa.processed <= pwa.played
  /\ Quiet /\ pwa.restart => pwa.processed = pwa.played

\* A DMA that ran dry is noticed, whichever interrupt was lost on the way.
PwaUnderflowSeen ==
  Quiet /\ pwa.pwm = "run" /\ pwa.at = None => pwa.restart

\* The client of a running stream is always asked for the next packet again.
PwaGoesOn == pwa.upset # {} \/ pwa.turn = PwaPackets \/ pwa.ks # "run" \/ pwa.event
=============================================================================
