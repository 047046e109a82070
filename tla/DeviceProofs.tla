---------------------------- MODULE DeviceProofs ----------------------------
(***************************************************************************)
(* Six components of the devices, proved for every value of the constants: *)
(* closing the mini UART leaves nothing raised, counted or allocated; the  *)
(* PL011 driver says "ready" only to a thread that waits for it; a queue of*)
(* the Ethernet driver sees its completions, is left alone once it stopped,*)
(* and no change of UMAC.Cmd is lost; the packets of an audio stream are   *)
(* played in order, counted, and their end noticed; the mini UART's        *)
(* receiver stops a sender no longer than its buffer is filled.            *)
(***************************************************************************)
EXTENDS MCDevices, FiniteSetTheorems, TLAPS

MlnFields == {"pc", "opens", "buffers", "DeviceIsOpened", "rx", "toggle", "rts", "busy", "brk",
              "temt", "count", "dpc", "timer", "usedFreed"}

\* The types of a port's state.
MlnTyped(s) ==
  /\ DOMAIN s = MlnFields
  /\ s.pc \in {"closed", "open", "drain", "lower", "free", "drained"}
  /\ s.buffers \in Nat /\ s.count \in Int /\ s.timer \subseteq {"set", "due"}
  /\ s.dpc \in BOOLEAN /\ s.rts \in BOOLEAN /\ s.toggle \in BOOLEAN
  /\ s.usedFreed \in BOOLEAN /\ s.rx \in BOOLEAN

\* The attempts that the count stands for.
Attempts(s) == (IF s.dpc THEN 1 ELSE 0) + (IF "set" \in s.timer THEN 1 ELSE 0)
                 + (IF "due" \in s.timer THEN 1 ELSE 0)

\* What each stage of a close has already put in order: RTS, attempts, buffer, receiver.
MlnStages ==
  /\ mln.rx => mln.pc = "open"
  /\ mln.pc \in {"free", "drained", "closed"} => mln.count = 0 /\ ~mln.rts
  /\ mln.pc = "closed" => ~mln.dpc /\ mln.timer = {}
  /\ mln.pc \in {"open", "drain", "lower", "free"} =>
       mln.buffers > 0 /\ (mln.buffers = 1 \/ MlnStopIdleFails)
  /\ mln.pc \in {"drained", "closed"} => mln.buffers = 0 \/ MlnStopIdleFails

\* The invariant: the count alone is not inductive, the close relies on the stages before it.
MlnInv == MlnTyped(mln) /\ MlnCountIsAttempts /\ MlnStages /\ ~mln.usedFreed

\* s and t differ in RTS and, by the same number, in the count and the attempts under way.
SameBut(s, t) ==
  /\ MlnTyped(t) /\ t.pc = s.pc /\ t.buffers = s.buffers /\ t.rx = s.rx
  /\ t.usedFreed = s.usedFreed /\ t.timer = s.timer
  /\ t.count - Attempts(t) = s.count - Attempts(s)

\* One attempt has ended, another may have begun.
Attempted(s, t) ==
  /\ MlnTyped(t) /\ t.pc = s.pc /\ t.buffers = s.buffers /\ t.rx = s.rx
  /\ t.usedFreed = s.usedFreed /\ t.timer = s.timer
  /\ t.count - Attempts(t) = s.count - 1 - Attempts(s)

\* Starting an attempt to lower RTS counts it, unless its DPC is queued already
\* (StartTimerLowerRTSDpc).
LEMMA StartsToLower == ASSUME NEW s, MlnTyped(s) PROVE SameBut(s, StartLowerRTS(s))
<1>1. CASE s.dpc
  <2>1. StartLowerRTS(s) = s
    BY <1>1 DEF StartLowerRTS
  <2> QED
    BY <2>1 DEF SameBut
<1>2. CASE ~s.dpc
  <2>1. StartLowerRTS(s) = [s EXCEPT !.dpc = TRUE, !.count = @ + 1]
    BY <1>2 DEF StartLowerRTS
  <2> QED
    BY <1>2, <2>1 DEF SameBut, MlnTyped, MlnFields, Attempts
<1> QED
  BY <1>1, <1>2 DEF MlnTyped

\* An attempt that runs takes itself off the count, whether it lowers RTS or starts the next
\* (SerialPerhapsLowerRTS).
LEMMA PerhapsLowers ==
  ASSUME NEW s, MlnTyped(s) PROVE Attempted(s, SerialPerhapsLowerRTS(s))
<1>1. SameBut(s, s)
  BY DEF SameBut
<1>2. SameBut(s, [s EXCEPT !.rts = FALSE])
  BY DEF SameBut, MlnTyped, MlnFields, Attempts
<1>3. SameBut(s, StartLowerRTS(s))
  BY StartsToLower
<1>4. \A t : SameBut(s, t) => Attempted(s, [t EXCEPT !.count = @ - 1])
  <2> SUFFICES ASSUME NEW t, SameBut(s, t) PROVE Attempted(s, [t EXCEPT !.count = @ - 1])
    OBVIOUS
  <2> DEFINE u == [t EXCEPT !.count = @ - 1]
  <2>1. /\ MlnTyped(u) /\ u.pc = t.pc /\ u.buffers = t.buffers /\ u.rx = t.rx
        /\ u.usedFreed = t.usedFreed /\ u.timer = t.timer /\ u.count = t.count - 1
        /\ u.dpc = t.dpc
    BY DEF SameBut, MlnTyped, MlnFields
  <2> HIDE DEF u
  <2>2. Attempts(u) = Attempts(t) /\ Attempts(t) \in Int /\ Attempts(s) \in Int
    BY <2>1 DEF Attempts
  <2>3. t.count \in Int /\ s.count \in Int
    BY DEF MlnTyped, SameBut
  <2>4. Attempted(s, u)
    BY <2>1, <2>2, <2>3 DEF Attempted, SameBut
  <2> QED
    BY <2>4 DEF u
<1> QED
  BY <1>1, <1>2, <1>3, <1>4 DEF SerialPerhapsLowerRTS

\* One attempt more and, at once, one less.
LEMMA TriesToLower ==
  ASSUME NEW s, MlnTyped(s), NEW t, t = TryToLowerRTS(s)
  PROVE  SameBut(s, t)
<1> DEFINE u == [s EXCEPT !.count = @ + 1]
<1>1. /\ MlnTyped(u) /\ u.pc = s.pc /\ u.buffers = s.buffers /\ u.rx = s.rx
      /\ u.usedFreed = s.usedFreed /\ u.timer = s.timer /\ u.count = s.count + 1
      /\ u.dpc = s.dpc
  BY DEF MlnTyped, MlnFields
<1>2. t = SerialPerhapsLowerRTS(u)
  BY DEF TryToLowerRTS
<1> HIDE DEF u
<1>3. Attempted(u, t)
  BY <1>1, <1>2, PerhapsLowers
<1>4. Attempts(u) = Attempts(s) /\ Attempts(s) \in Int /\ Attempts(t) \in Int
  BY <1>1 DEF Attempts
<1>5. s.count \in Int /\ t.count \in Int
  BY <1>3 DEF MlnTyped, Attempted
<1> QED
  BY <1>1, <1>3, <1>4, <1>5 DEF Attempted, SameBut

\* Two numbers without a difference are the same.
LEMMA SameWhenNoDifference ==
  ASSUME NEW a \in Int, NEW b \in Int, NEW c \in Int, a - b = c - c PROVE a = b
OBVIOUS

\* What a step needs to keep of the invariant when it leaves stage, buffers and receiver alone.
LEMMA MlnKept ==
  ASSUME MlnInv, MlnTyped(mln'), mln'.pc = mln.pc, mln'.buffers = mln.buffers,
         mln'.rx = mln.rx, mln'.usedFreed = mln.usedFreed,
         mln'.count = Attempts(mln'),
         mln.pc \in {"free", "drained", "closed"} => mln'.count = 0 /\ ~mln'.rts,
         mln.pc = "closed" => ~mln'.dpc /\ mln'.timer = {}
  PROVE  MlnInv'
BY DEF MlnInv, MlnStages, MlnCountIsAttempts, Attempts

\* What an open port does to RTS keeps the invariant, with the attempt that may follow it.
LEMMA MlnKeptOpen ==
  ASSUME MlnInv, MlnOpen, NEW s, SameBut(mln, s),
         mln' = s \/ mln' = TryToLowerRTS(s)
  PROVE  MlnInv'
<1>1. mln.count = Attempts(mln) /\ mln.count \in Int /\ s.count \in Int
  BY DEF SameBut, MlnInv, MlnTyped, MlnCountIsAttempts, Attempts
<1>2. /\ MlnTyped(mln') /\ mln'.pc = s.pc /\ mln'.buffers = s.buffers /\ mln'.rx = s.rx
      /\ mln'.usedFreed = s.usedFreed /\ mln'.count - Attempts(mln') = s.count - Attempts(s)
  BY TriesToLower DEF SameBut
<1>3. mln'.count = Attempts(mln')
  <2>1. Attempts(mln') \in Int /\ Attempts(s) \in Int /\ mln'.count \in Int
    BY <1>2 DEF Attempts, MlnTyped
  <2>2. mln'.count - Attempts(mln') = mln.count - mln.count
    BY <1>1, <1>2 DEF SameBut
  <2> QED
    BY <1>1, <2>1, <2>2, SameWhenNoDifference
<1> QED
  BY <1>2, <1>3, MlnKept DEF MlnOpen, SameBut

\* A port starts closed and quiet.
LEMMA MlnInitially == MlnInit => MlnInv
BY DEF MlnInit, MlnInv, MlnTyped, MlnFields, MlnCountIsAttempts, MlnStages

\* Every step of the port, of its timer and of its DPC keeps the invariant.
LEMMA MlnStep == ASSUME MlnInv, [MlnNext]_mln PROVE MlnInv'
<1> USE MlnAssumption
<1>1. CASE SerialStartTimerLowerRTS
  BY <1>1 DEF SerialStartTimerLowerRTS, MlnInv, MlnTyped, MlnCountIsAttempts, MlnStages, MlnFields
<1>2. CASE MlnExpire
  BY <1>2 DEF MlnExpire, MlnInv, MlnTyped, MlnCountIsAttempts, MlnStages, MlnFields
<1>3. CASE SerialInvokePerhapsLowerRTS
  <2> DEFINE s == [mln EXCEPT !.timer = @ \ {"due"}]
  <2>1. /\ MlnTyped(s) /\ s.pc = mln.pc /\ s.buffers = mln.buffers /\ s.rx = mln.rx
        /\ s.usedFreed = mln.usedFreed /\ s.count = mln.count /\ s.dpc = mln.dpc
        /\ s.timer = mln.timer \ {"due"}
    BY DEF MlnInv, MlnTyped, MlnFields
  <2>2. "due" \in mln.timer /\ mln' = SerialPerhapsLowerRTS(s)
    BY <1>3 DEF SerialInvokePerhapsLowerRTS
  <2> HIDE DEF s
  <2>3. Attempted(s, mln')
    BY <2>1, <2>2, PerhapsLowers
  <2>4. mln.count = Attempts(mln) /\ mln.count > 0 /\ Attempts(s) = mln.count - 1
    BY <2>1, <2>2 DEF MlnInv, MlnTyped, MlnCountIsAttempts, Attempts
  <2>5. mln.pc \notin {"free", "drained", "closed"}
    BY <2>4 DEF MlnInv, MlnStages
  <2>6. mln'.count = Attempts(mln')
    <3>1. Attempts(mln') \in Int /\ Attempts(s) \in Int /\ mln'.count \in Int /\ mln.count \in Int
      BY <2>3, <2>4 DEF MlnInv, MlnTyped, Attempts, Attempted
    <3>2. mln'.count - Attempts(mln') = s.count - 1 - Attempts(s)
      BY <2>3 DEF Attempted
    <3>3. s.count - 1 - Attempts(s) = mln.count - mln.count
      BY <2>1, <2>4, <3>1
    <3>4. mln'.count - Attempts(mln') = mln.count - mln.count
      BY <3>2, <3>3
    <3> QED
      BY <3>1, <3>4, SameWhenNoDifference
  <2>7. /\ MlnTyped(mln') /\ mln'.pc = mln.pc /\ mln'.buffers = mln.buffers
        /\ mln'.rx = mln.rx /\ mln'.usedFreed = mln.usedFreed
    BY <2>1, <2>3 DEF Attempted
  <2> QED
    BY <2>5, <2>6, <2>7, MlnKept
<1>4. CASE SerialDeviceFileCreateWorker
  <2>1. /\ mln.pc = "closed" /\ mln'.timer = mln.timer /\ mln'.count = mln.count
        /\ mln'.rts = mln.rts /\ mln'.dpc = mln.dpc /\ mln'.usedFreed = mln.usedFreed
        /\ mln'.toggle = mln.toggle /\ mln'.rx \in BOOLEAN /\ DOMAIN mln' = MlnFields
    BY <1>4 DEF SerialDeviceFileCreateWorker, MlnInv, MlnTyped, MlnFields
  <2>2. \/ mln'.pc = "open" /\ mln'.buffers = mln.buffers + 1
        \/ ~mln'.rx /\ mln'.pc = "closed" /\ mln'.buffers = mln.buffers
        \/ MlnStopIdleFails /\ ~mln'.rx /\ mln'.pc = "closed" /\ mln'.buffers = mln.buffers + 1
    BY <1>4 DEF SerialDeviceFileCreateWorker, MlnInv, MlnTyped, MlnFields, MlnStages
  <2>3. MlnTyped(mln')
    BY <2>1, <2>2 DEF MlnInv, MlnTyped
  <2> QED
    BY <2>1, <2>2, <2>3 DEF MlnInv, MlnTyped, MlnStages, MlnCountIsAttempts
<1>5. CASE MlnReceive
  <2>1. mln.pc = "open" /\ mln.buffers # 0
    BY <1>5 DEF MlnReceive, MlnInv, MlnTyped, MlnStages
  <2>2. mln' = [mln EXCEPT !.usedFreed = FALSE]
    BY <1>5, <2>1 DEF MlnReceive, MlnInv
  <2> QED
    BY <2>2 DEF MlnInv, MlnTyped, MlnCountIsAttempts, MlnStages, MlnFields
<1>6. CASE SetTransmitToggle
  <2> DEFINE s == [mln EXCEPT !.toggle = TRUE]
             t == [s EXCEPT !.rts = TRUE]
  <2>1. MlnOpen /\ (mln' = t \/ mln' = TryToLowerRTS(s))
    BY <1>6 DEF SetTransmitToggle
  <2>2. SameBut(mln, s)
    BY DEF SameBut, MlnInv, MlnTyped, MlnFields, Attempts
  <2>3. SameBut(mln, t)
    BY DEF SameBut, MlnInv, MlnTyped, MlnFields, Attempts
  <2> HIDE DEF s, t
  <2> QED
    BY <2>1, <2>2, <2>3, MlnKeptOpen
<1>7. CASE SetRtsControl
  BY <1>7 DEF SetRtsControl, MlnOpen, MlnInv, MlnTyped, MlnCountIsAttempts, MlnStages, MlnFields
<1>8. CASE MlnBreakOn
  BY <1>8 DEF MlnBreakOn, MlnOpen, MlnInv, MlnTyped, MlnCountIsAttempts, MlnStages, MlnFields
<1>9. CASE MlnBreakOff
  <2> DEFINE s == [mln EXCEPT !.brk = FALSE]
  <2>1. MlnOpen /\ mln' = TryToLowerRTS(s)
    BY <1>9 DEF MlnBreakOff, BreakOff
  <2>2. SameBut(mln, s)
    BY DEF SameBut, MlnInv, MlnTyped, MlnFields, Attempts
  <2> HIDE DEF s
  <2> QED
    BY <2>1, <2>2, MlnKeptOpen
<1>10. CASE MlnStart
  BY <1>10 DEF MlnStart, MlnOpen, MlnInv, MlnTyped, MlnCountIsAttempts, MlnStages, MlnFields
<1>11. CASE MlnTransmit
  <2> DEFINE s == [mln EXCEPT !.temt = FALSE]
             r == [s EXCEPT !.rts = TRUE]
             t == StartLowerRTS(r)
  <2>1. MlnOpen /\ (mln' = s \/ mln' = t)
    BY <1>11 DEF MlnTransmit
  <2>2. SameBut(mln, s)
    BY DEF SameBut, MlnInv, MlnTyped, MlnFields, Attempts
  <2>3. /\ MlnTyped(r) /\ r.pc = mln.pc /\ r.buffers = mln.buffers /\ r.rx = mln.rx
        /\ r.usedFreed = mln.usedFreed /\ r.timer = mln.timer
        /\ r.count = mln.count /\ r.dpc = mln.dpc
    BY DEF MlnInv, MlnTyped, MlnFields
  <2> HIDE DEF s, r
  <2>4. SameBut(mln, t)
    BY <2>3, StartsToLower DEF SameBut, Attempts
  <2> HIDE DEF t
  <2> QED
    BY <2>1, <2>2, <2>4, MlnKeptOpen
<1>12. CASE MlnEnd
  <2> DEFINE s == [mln EXCEPT !.busy = FALSE]
  <2>1. MlnOpen /\ mln' = TryToLowerRTS(s)
    BY <1>12 DEF MlnEnd
  <2>2. SameBut(mln, s)
    BY DEF SameBut, MlnInv, MlnTyped, MlnFields, Attempts
  <2> HIDE DEF s
  <2> QED
    BY <2>1, <2>2, MlnKeptOpen
<1>13. CASE MlnShiftedOut
  BY <1>13 DEF MlnShiftedOut, MlnInv, MlnTyped, MlnCountIsAttempts, MlnStages, MlnFields
<1>14. CASE CloseBegin
  <2> DEFINE r == [mln EXCEPT !.rx = FALSE, !.DeviceIsOpened = FALSE]
             s == [r EXCEPT !.brk = FALSE]
             t == BreakOff(r)
  <2>1. /\ MlnTyped(r) /\ r.pc = mln.pc /\ r.buffers = mln.buffers /\ ~r.rx
        /\ r.usedFreed = mln.usedFreed /\ r.count - Attempts(r) = mln.count - Attempts(mln)
    BY DEF SameBut, MlnInv, MlnTyped, MlnFields, Attempts
  <2>2. /\ MlnTyped(s) /\ s.pc = mln.pc /\ s.buffers = mln.buffers /\ ~s.rx
        /\ s.usedFreed = mln.usedFreed /\ s.count - Attempts(s) = mln.count - Attempts(mln)
    BY DEF SameBut, MlnInv, MlnTyped, MlnFields, Attempts
  <2>3. t = r \/ t = TryToLowerRTS(s)
    BY DEF BreakOff
  <2>4. mln' = [t EXCEPT !.pc = "drain"] /\ mln.pc = "open"
    BY <1>14 DEF CloseBegin, MlnOpen
  <2> HIDE DEF r, s, t
  <2>5. /\ MlnTyped(t) /\ t.buffers = mln.buffers /\ ~t.rx
        /\ t.usedFreed = mln.usedFreed /\ t.count - Attempts(t) = mln.count - Attempts(mln)
    BY <2>1, <2>2, <2>3, TriesToLower DEF SameBut
  <2>6. t.count = Attempts(t)
    <3>1. /\ Attempts(t) \in Int /\ Attempts(mln) \in Int /\ t.count \in Int /\ mln.count \in Int
          /\ mln.count = Attempts(mln)
      BY <2>5 DEF MlnInv, MlnTyped, Attempts, MlnCountIsAttempts
    <3> QED
      BY <2>5, <3>1
  <2>7. /\ MlnTyped(mln') /\ mln'.buffers = mln.buffers /\ ~mln'.rx
        /\ mln'.usedFreed = mln.usedFreed /\ mln'.count = Attempts(mln') /\ mln'.pc = "drain"
    BY <2>4, <2>5, <2>6 DEF MlnTyped, MlnFields, Attempts
  <2> QED
    BY <2>4, <2>7 DEF MlnInv, MlnStages, MlnCountIsAttempts, Attempts
<1>15. CASE SerialMarkClose
  BY <1>15 DEF SerialMarkClose, MlnInv, MlnTyped, MlnCountIsAttempts, MlnStages, MlnFields
<1>16. CASE CloseLowerRTS
  BY <1>16 DEF CloseLowerRTS, MlnInv, MlnTyped, MlnCountIsAttempts, MlnStages, MlnFields
<1>17. CASE CloseFree
  BY <1>17 DEF CloseFree, MlnInv, MlnTyped, MlnCountIsAttempts, MlnStages, MlnFields
<1>18. CASE SerialDrainTimersAndDpcs
  BY <1>18 DEF SerialDrainTimersAndDpcs, MlnInv, MlnTyped, MlnCountIsAttempts, MlnStages, MlnFields
<1>19. CASE UNCHANGED mln
  BY <1>19 DEF MlnInv, MlnTyped, MlnCountIsAttempts, MlnStages
<1> QED
  BY <1>1, <1>2, <1>3, <1>4, <1>5, <1>6, <1>7, <1>8, <1>9, <1>10, <1>11, <1>12, <1>13, <1>14,
     <1>15, <1>16, <1>17, <1>18, <1>19 DEF MlnNext

-----------------------------------------------------------------------------
PltFields == {"pc", "ret", "write", "left", "next", "state", "ring", "In", "Out", "Count", "lock",
              "full", "fifo", "wire", "gone", "raw", "im", "isr", "events", "dpc", "d", "skipped",
              "ready", "strayReady", "drain"}

\* The thread between EnableReadyNotification and the notification.
PltWaits == plt.pc \in {"unmask", "waiting"}

\* The states of a notification, and where the thread is in each: the DPC that has taken
\* wait_data_sent away is the only one that says "ready".
PltExpects ==
  /\ plt.state = "wait_data_sent" => PltWaits /\ ~plt.ready /\ plt.d # "ready"
  /\ plt.state = "wait_send_data" => PltWaits
  /\ plt.d = "ready" =>
       ~plt.ready /\ ((PltWaits /\ plt.state = "wait_send_data") \/ plt.pc = "late")
  /\ plt.ready => PltWaits \/ plt.pc = "late"

\* A drain that runs is the thread's own.
PltDrains ==
  plt.drain = "running" =>
    plt.state = "drain" /\ plt.ret = "drain" /\ plt.pc \in {"lock", "move", "unlock", "drained"}

\* The invariant of the transmitter.
PltInv ==
  /\ DOMAIN plt = PltFields /\ plt.ready \in BOOLEAN /\ ~plt.strayReady
  /\ PltExpects /\ PltDrains

\* PL011TxPioTransmitStart leaves nobody waiting.
LEMMA PltInitially == PL011TxPioTransmitStart => PltInv
BY DEF PL011TxPioTransmitStart, PltInv, PltFields, PltExpects, PltWaits, PltDrains

\* A copy to the FIFO touches neither thread, state nor notification.
LEMMA MoveKeeps ==
  ASSUME NEW s, DOMAIN s = PltFields
  PROVE  /\ DOMAIN Move(s) = PltFields /\ Move(s).pc = s.pc /\ Move(s).ret = s.ret
         /\ Move(s).state = s.state /\ Move(s).d = s.d /\ Move(s).ready = s.ready
         /\ Move(s).strayReady = s.strayReady /\ Move(s).drain = s.drain
BY DEF Move, PltFields

\* Nor does what leaves them alone.
LEMMA PltKept ==
  ASSUME PltInv, DOMAIN plt' = PltFields, plt'.pc = plt.pc, plt'.ret = plt.ret,
         plt'.state = plt.state, plt'.d = plt.d, plt'.ready = plt.ready,
         plt'.strayReady = plt.strayReady, plt'.drain = plt.drain
  PROVE  PltInv'
BY DEF PltInv, PltExpects, PltWaits, PltDrains

\* Where the loop around a copy leads.
LEMMA AfterCopyLeads ==
  ASSUME NEW s
  PROVE  /\ s.ret = "drain" => AfterCopy(s) \in {"lock", "drained"}
         /\ s.ret # "drain" => AfterCopy(s) \in {"idle", "enable", "copy"}
<1>1. CASE s.ret = "drain"
  BY <1>1 DEF AfterCopy
<1>2. CASE s.ret # "drain" /\ s.left = 0
  BY <1>2 DEF AfterCopy
<1>3. CASE s.ret # "drain" /\ s.left # 0 /\ s.full
  BY <1>3 DEF AfterCopy
<1>4. CASE s.ret # "drain" /\ s.left # 0 /\ ~s.full
  BY <1>4 DEF AfterCopy
<1> QED
  BY <1>1, <1>2, <1>3, <1>4

\* Every step of the transmitting thread keeps the invariant.
LEMMA PltThreadKept == ASSUME PltInv, PltThread PROVE PltInv'
<1> USE DEF PltInv, PltFields, PltExpects, PltWaits, PltDrains
<1>1. CASE PL011pTxPioBufferCopy
  BY <1>1 DEF PL011pTxPioBufferCopy
<1>2. CASE ThreadLock
  <2> DEFINE u == [plt EXCEPT !.full = FALSE]
             pc == AfterCopy(u)
  <2>1. /\ u.ret # "drain" => pc \in {"idle", "enable", "copy"}
        /\ u.ret = "drain" => pc \in {"lock", "drained"}
    BY AfterCopyLeads
  <2>2. u.ret = plt.ret
    OBVIOUS
  <2> HIDE DEF pc
  <2>3. plt.pc = "lock" /\ (\/ plt' = [plt EXCEPT !.lock = "thread", !.pc = "move"]
                           \/ plt' = [plt EXCEPT !.pc = "move"]
                           \/ plt' = [plt EXCEPT !.pc = pc, !.full = FALSE])
    BY <1>2 DEF ThreadLock, Lock, pc
  <2> HIDE DEF u
  <2> QED
    BY <2>1, <2>2, <2>3, ZenonT(40)
<1>3. CASE ThreadMove
  BY <1>3, MoveKeeps DEF ThreadMove
<1>4. CASE ThreadUnlock
  <2> DEFINE pc == AfterCopy(plt)
  <2>1. /\ plt.ret # "drain" => pc \in {"idle", "enable", "copy"}
        /\ plt.ret = "drain" => pc \in {"lock", "drained"}
    BY AfterCopyLeads
  <2>2. plt.pc = "unlock" /\ plt' = [plt EXCEPT !.lock = "none", !.pc = pc]
    BY <1>4 DEF ThreadUnlock
  <2> HIDE DEF pc
  <2> QED
    BY <2>1, <2>2
<1>5. CASE EnableReadyNotification
  BY <1>5 DEF EnableReadyNotification, WriteAgain
<1>6. CASE EnableReadyWait
  BY <1>6 DEF EnableReadyWait, WriteAgain
<1>7. CASE EnableReadyUnmask
  BY <1>7 DEF EnableReadyUnmask
<1>8. CASE PltNotified
  BY <1>8 DEF PltNotified, WriteAgain
<1>9. CASE PltNotifiedLate
  BY <1>9 DEF PltNotifiedLate
<1>10. CASE PurgeFifo
  BY <1>10 DEF PurgeFifo
<1>11. CASE PL011pTxPioPurgeFifo
  BY <1>11 DEF PL011pTxPioPurgeFifo
<1>12. CASE DrainFifoEnd
  BY <1>12 DEF DrainFifoEnd
<1> QED
  BY <1>1, <1>2, <1>3, <1>4, <1>5, <1>6, <1>7, <1>8, <1>9, <1>10, <1>11, <1>12 DEF PltThread

\* So does every step of the ISR, the DPC, the shift register and a cancellation.
LEMMA PltStep == ASSUME PltInv, [PltNext]_plt PROVE PltInv'
<1>1. CASE PltWrite
  BY <1>1 DEF PltWrite, PltInv, PltFields, PltExpects, PltWaits, PltDrains
<1>2. CASE PltThread
  BY <1>2, PltThreadKept
<1>3. CASE CancelReadyNotification
  BY <1>3 DEF CancelReadyNotification, PltInv, PltFields, PltExpects, PltWaits, PltDrains
<1>4. CASE DrainFifo
  BY <1>4 DEF DrainFifo, PltInv, PltFields, PltExpects, PltWaits, PltDrains
<1>5. CASE CancelDrainFifo
  BY <1>5 DEF CancelDrainFifo, PltInv, PltFields, PltExpects, PltWaits, PltDrains
<1>6. CASE PltIsr
  <2>1. CASE PL011pInterruptIsr
    BY <2>1, PltKept DEF PL011pInterruptIsr, PltInv, PltFields
  <2>2. CASE IsrCopy
    <3>1. CASE plt.isr = "lock"
      BY <2>2, <3>1, PltKept DEF IsrCopy, Lock, PltInv, PltFields
    <3>2. CASE plt.isr = "move"
      <4> DEFINE m == Move(plt)
      <4>1. /\ DOMAIN m = PltFields /\ m.pc = plt.pc /\ m.ret = plt.ret
            /\ m.state = plt.state /\ m.d = plt.d /\ m.ready = plt.ready
            /\ m.strayReady = plt.strayReady /\ m.drain = plt.drain
        BY MoveKeeps DEF PltInv
      <4>2. plt' = [m EXCEPT !.lock = "none", !.isr = "copied"]
        BY <2>2, <3>2 DEF IsrCopy
      <4> HIDE DEF m
      <4> QED
        BY <4>1, <4>2, PltKept DEF PltFields
    <3> QED
      BY <2>2, <3>1, <3>2 DEF IsrCopy
  <2>3. CASE PL011EvtInterruptIsr
    BY <2>3 DEF PL011EvtInterruptIsr, PltInv, PltFields, PltExpects, PltWaits, PltDrains
  <2> QED
    BY <1>6, <2>1, <2>2, <2>3 DEF PltIsr
<1>7. CASE PltDpc
  <2> USE DEF PltInv, PltFields, PltExpects, PltWaits, PltDrains
  <2>1. CASE PL011EvtInterruptDpc
    BY <2>1 DEF PL011EvtInterruptDpc
  <2>2. CASE DpcCopy
    <3>1. CASE plt.d = "lock"
      BY <2>2, <3>1 DEF DpcCopy, Lock
    <3>2. CASE plt.d = "move"
      <4> DEFINE m == Move(plt)
      <4>1. /\ DOMAIN m = PltFields /\ m.pc = plt.pc /\ m.ret = plt.ret
            /\ m.state = plt.state /\ m.d = plt.d /\ m.ready = plt.ready
            /\ m.strayReady = plt.strayReady /\ m.drain = plt.drain
        BY MoveKeeps
      <4>2. plt' = [m EXCEPT !.lock = "none", !.d = "look"]
        BY <2>2, <3>2 DEF DpcCopy
      <4> HIDE DEF m
      <4> QED
        BY <3>2, <4>1, <4>2
    <3> QED
      BY <2>2, <3>1, <3>2 DEF DpcCopy
  <2>3. CASE DpcNotify
    <3>1. CASE plt.d = "look"
      BY <2>3, <3>1 DEF DpcNotify
    <3>2. CASE plt.d = "decide"
      <4>1. \/ plt' = [plt EXCEPT !.d = "none"]
            \/ /\ plt.state = "wait_data_sent"
               /\ plt' = [plt EXCEPT !.state = "wait_send_data", !.d = "ready"]
        BY <2>3, <3>2 DEF DpcNotify
      <4> QED
        BY <3>2, <4>1, ZenonT(40)
    <3>3. CASE plt.d = "ready"
      <4>1. plt' = [plt EXCEPT !.ready = TRUE, !.strayReady = FALSE, !.d = "none"]
        BY <2>3, <3>3 DEF DpcNotify, PltReady
      <4> QED
        BY <3>3, <4>1
    <3> QED
      BY <2>3, <3>1, <3>2, <3>3 DEF DpcNotify
  <2> QED
    BY <1>7, <2>1, <2>2, <2>3 DEF PltDpc
<1>8. CASE PltShift
  BY <1>8, PltKept DEF PltShift, PltInv, PltFields
<1>9. CASE UNCHANGED plt
  BY <1>9 DEF PltInv, PltExpects, PltWaits, PltDrains
<1> QED
  BY <1>1, <1>2, <1>3, <1>4, <1>5, <1>6, <1>7, <1>8, <1>9 DEF PltNext

-----------------------------------------------------------------------------
PlrFields == {"pc", "read", "left", "got", "state", "ring", "In", "Out", "Count", "lock", "empty",
              "fifo", "arrived", "gone", "quiet", "raw", "ack", "isr", "events", "dpc", "d",
              "skipped", "ready", "strayReady"}

\* The same for the receiver.
PlrExpects ==
  /\ plr.state = "wait_data" => plr.pc = "waiting" /\ ~plr.ready /\ plr.d # "ready"
  /\ plr.state = "wait_read_data" => plr.pc = "waiting"
  /\ plr.d = "ready" =>
       ~plr.ready /\ ((plr.pc = "waiting" /\ plr.state = "wait_read_data") \/ plr.pc = "late")
  /\ plr.ready => plr.pc \in {"waiting", "late"}

\* The invariant of the receiver.
PlrInv ==
  /\ DOMAIN plr = PlrFields /\ plr.ready \in BOOLEAN /\ ~plr.strayReady
  /\ PlrExpects

\* PL011RxPioReceiveStart leaves nobody waiting.
LEMMA PlrInitially == PL011RxPioReceiveStart => PlrInv
BY DEF PL011RxPioReceiveStart, PlrInv, PlrFields, PlrExpects

\* A copy from the FIFO touches neither thread, state nor notification.
LEMMA MoveRxKeeps ==
  ASSUME NEW s, DOMAIN s = PlrFields
  PROVE  /\ DOMAIN MoveRx(s) = PlrFields /\ MoveRx(s).pc = s.pc
         /\ MoveRx(s).state = s.state /\ MoveRx(s).d = s.d /\ MoveRx(s).ready = s.ready
         /\ MoveRx(s).strayReady = s.strayReady
BY DEF MoveRx, PlrFields

\* What leaves thread, state and notification of the receiver alone keeps the invariant.
LEMMA PlrKept ==
  ASSUME PlrInv, DOMAIN plr' = PlrFields, plr'.pc = plr.pc, plr'.state = plr.state,
         plr'.d = plr.d, plr'.ready = plr.ready, plr'.strayReady = plr.strayReady
  PROVE  PlrInv'
BY DEF PlrInv, PlrExpects

\* Where the loop around a copy of the receiver leads.
LEMMA AfterCopyRxLeads == ASSUME NEW s PROVE AfterCopyRx(s) \in {"idle", "enable", "copy"}
<1>1. CASE s.left = 0
  BY <1>1 DEF AfterCopyRx
<1>2. CASE s.left # 0 /\ s.empty
  BY <1>2 DEF AfterCopyRx
<1>3. CASE s.left # 0 /\ ~s.empty
  BY <1>3 DEF AfterCopyRx
<1> QED
  BY <1>1, <1>2, <1>3

\* Every step of the receiving thread keeps the invariant.
LEMMA PlrThreadKept == ASSUME PlrInv, PlrThread PROVE PlrInv'
<1> USE DEF PlrInv, PlrFields, PlrExpects
<1>1. CASE PL011pRxPioBufferCopy
  BY <1>1 DEF PL011pRxPioBufferCopy
<1>2. CASE ThreadLockRx
  <2> DEFINE pc == AfterCopyRx([plr EXCEPT !.empty = FALSE])
  <2>1. pc \in {"idle", "enable", "copy"}
    BY AfterCopyRxLeads
  <2> HIDE DEF pc
  <2>2. plr.pc = "lock" /\ (\/ plr' = [plr EXCEPT !.lock = "thread", !.pc = "move"]
                           \/ plr' = [plr EXCEPT !.pc = "move"]
                           \/ plr' = [plr EXCEPT !.pc = pc, !.empty = FALSE])
    BY <1>2 DEF ThreadLockRx, LockRx, pc
  <2>3. /\ plr'.pc \in {"move", "idle", "enable", "copy"} /\ plr'.state = plr.state
        /\ plr'.d = plr.d /\ plr'.ready = plr.ready /\ plr'.strayReady = plr.strayReady
        /\ DOMAIN plr' = DOMAIN plr
    <3>1. CASE plr' = [plr EXCEPT !.lock = "thread", !.pc = "move"]
      BY <3>1
    <3>2. CASE plr' = [plr EXCEPT !.pc = "move"]
      BY <3>2
    <3>3. CASE plr' = [plr EXCEPT !.pc = pc, !.empty = FALSE]
      BY <3>3, <2>1
    <3> QED
      BY <2>2, <3>1, <3>2, <3>3
  <2>4. ~plr.ready /\ plr.state \notin {"wait_data", "wait_read_data"} /\ plr.d # "ready"
    BY <2>2
  <2> QED
    BY <2>3, <2>4
<1>3. CASE ThreadMoveRx
  BY <1>3, MoveRxKeeps DEF ThreadMoveRx
<1>4. CASE ThreadUnlockRx
  <2> DEFINE pc == AfterCopyRx(plr)
  <2>1. pc \in {"idle", "enable", "copy"}
    BY AfterCopyRxLeads
  <2>2. plr.pc = "unlock" /\ plr' = [plr EXCEPT !.lock = "none", !.pc = pc]
    BY <1>4 DEF ThreadUnlockRx
  <2> HIDE DEF pc
  <2>3. /\ plr'.pc \in {"idle", "enable", "copy"} /\ plr'.state = plr.state
        /\ plr'.d = plr.d /\ plr'.ready = plr.ready /\ plr'.strayReady = plr.strayReady
        /\ DOMAIN plr' = DOMAIN plr
    BY <2>1, <2>2
  <2>4. ~plr.ready /\ plr.state \notin {"wait_data", "wait_read_data"} /\ plr.d # "ready"
    BY <2>2
  <2> QED
    BY <2>3, <2>4
<1>5. CASE EnableReadyNotificationRx
  BY <1>5 DEF EnableReadyNotificationRx, ReadAgain
<1>6. CASE EnableReadyWaitRx
  BY <1>6 DEF EnableReadyWaitRx, ReadAgain
<1>7. CASE PlrNotified
  BY <1>7 DEF PlrNotified, ReadAgain
<1>8. CASE PlrNotifiedLate
  BY <1>8 DEF PlrNotifiedLate
<1> QED
  BY <1>1, <1>2, <1>3, <1>4, <1>5, <1>6, <1>7, <1>8 DEF PlrThread

\* So does every step of the ISR, the DPC, the line and a cancellation.
LEMMA PlrStep == ASSUME PlrInv, [PlrNext]_plr PROVE PlrInv'
<1>1. CASE PlrRead
  BY <1>1 DEF PlrRead, PlrInv, PlrFields, PlrExpects
<1>2. CASE PlrThread
  BY <1>2, PlrThreadKept
<1>3. CASE CancelReadyNotificationRx
  BY <1>3 DEF CancelReadyNotificationRx, PlrInv, PlrFields, PlrExpects
<1>4. CASE PL011pRxPioPurgeFifo
  BY <1>4 DEF PL011pRxPioPurgeFifo, PlrInv, PlrFields, PlrExpects
<1>5. CASE PlrIsr
  <2>1. CASE InterruptIsrRx
    BY <2>1, PlrKept DEF InterruptIsrRx, PlrInv, PlrFields
  <2>2. CASE IsrCopyRx
    <3>1. CASE plr.isr = "lock"
      BY <2>2, <3>1, PlrKept DEF IsrCopyRx, LockRx, PlrInv, PlrFields
    <3>2. CASE plr.isr = "move"
      <4> DEFINE m == MoveRx(plr)
      <4>1. /\ DOMAIN m = PlrFields /\ m.pc = plr.pc /\ m.state = plr.state
            /\ m.d = plr.d /\ m.ready = plr.ready /\ m.strayReady = plr.strayReady
        BY MoveRxKeeps DEF PlrInv
      <4>2. plr' = [m EXCEPT !.lock = "none", !.isr = "copied"]
        BY <2>2, <3>2 DEF IsrCopyRx
      <4> HIDE DEF m
      <4> QED
        BY <4>1, <4>2, PlrKept DEF PlrFields
    <3> QED
      BY <2>2, <3>1, <3>2 DEF IsrCopyRx
  <2>3. CASE InterruptAckRx
    BY <2>3 DEF InterruptAckRx, PlrInv, PlrFields, PlrExpects
  <2> QED
    BY <1>5, <2>1, <2>2, <2>3 DEF PlrIsr
<1>6. CASE PlrDpc
  <2> USE DEF PlrInv, PlrFields, PlrExpects
  <2>1. CASE InterruptDpcRx
    BY <2>1 DEF InterruptDpcRx
  <2>2. CASE DpcCopyRx
    <3>1. CASE plr.d = "lock"
      BY <2>2, <3>1 DEF DpcCopyRx, LockRx
    <3>2. CASE plr.d = "move"
      <4> DEFINE m == MoveRx(plr)
      <4>1. /\ DOMAIN m = PlrFields /\ m.pc = plr.pc /\ m.state = plr.state
            /\ m.d = plr.d /\ m.ready = plr.ready /\ m.strayReady = plr.strayReady
        BY MoveRxKeeps
      <4>2. plr' = [m EXCEPT !.lock = "none", !.d = "look"]
        BY <2>2, <3>2 DEF DpcCopyRx
      <4> HIDE DEF m
      <4> QED
        BY <3>2, <4>1, <4>2
    <3> QED
      BY <2>2, <3>1, <3>2 DEF DpcCopyRx
  <2>3. CASE DpcNotifyRx
    <3>1. CASE plr.d = "look"
      BY <2>3, <3>1 DEF DpcNotifyRx
    <3>2. CASE plr.d = "decide"
      <4>1. \/ plr' = [plr EXCEPT !.d = "none"]
            \/ /\ plr.state = "wait_data"
               /\ plr' = [plr EXCEPT !.state = "wait_read_data", !.d = "ready"]
        BY <2>3, <3>2 DEF DpcNotifyRx
      <4> QED
        BY <3>2, <4>1
    <3>3. CASE plr.d = "ready"
      <4>1. plr' = [plr EXCEPT !.ready = TRUE, !.strayReady = FALSE, !.d = "none"]
        BY <2>3, <3>3 DEF DpcNotifyRx, PlrReady
      <4> QED
        BY <3>3, <4>1
    <3> QED
      BY <2>3, <3>1, <3>2, <3>3 DEF DpcNotifyRx
  <2> QED
    BY <1>6, <2>1, <2>2, <2>3 DEF PlrDpc
<1>7. CASE PlrArrive
  BY <1>7, PlrKept DEF PlrArrive, PlrInv, PlrFields
<1>8. CASE PlrTimeout
  BY <1>8, PlrKept DEF PlrTimeout, PlrInv, PlrFields
<1>9. CASE UNCHANGED plr
  BY <1>9 DEF PlrInv, PlrExpects
<1> QED
  BY <1>1, <1>2, <1>3, <1>4, <1>5, <1>6, <1>7, <1>8, <1>9 DEF PlrNext

-----------------------------------------------------------------------------
GniFields == {"notify", "saved", "status", "masked", "dpcQueued", "dpc", "lock", "queue", "work",
              "left", "woken", "stops", "cmd", "read", "timer", "filter", "want", "upset"}

\* The types of the state.
GniTyped ==
  /\ DOMAIN gni = GniFields /\ DOMAIN gni.dpc = {"pc", "bits", "call"}
  /\ DOMAIN gni.queue = Queues /\ DOMAIN gni.stops = Queues /\ DOMAIN gni.left = Queues
  /\ gni.notify \in [Queues -> BOOLEAN] /\ gni.woken \in [Queues -> BOOLEAN]
  /\ gni.work \in [Queues -> Nat]
  /\ gni.dpc.pc \in {"idle", "look", "call"}
  /\ gni.dpc.call \in Queues \cup {Nobody} /\ (gni.dpc.call \in Queues => gni.dpc.pc = "call")
  /\ gni.status \subseteq Queues /\ gni.saved \subseteq Queues
  /\ gni.dpc.bits \subseteq Queues /\ (gni.dpc.bits # {} => gni.dpc.pc # "idle")

\* What holds the lock, and for what.
Holding(q) ==
  \/ gni.queue[q] \in {"arm", "start", "stop", "disarm", "flush"}
  \/ q = "tx" /\ gni.queue[q] = "cancelled"

GniLocked ==
  /\ gni.lock \in Queues \cup {Nobody, "timer", "filter"}
  /\ \A q \in Queues : gni.lock = q <=> Holding(q)
  /\ gni.lock = "timer" <=> gni.timer = "write"
  /\ gni.lock = "filter" <=> gni.filter = "write"

\* UMAC.Cmd, or what its next write makes of what was read of it.
GniCommand ==
  /\ (\A q \in Queues : gni.queue[q] \notin {"start", "stop"}) => gni.cmd = gni.want
  /\ \A q \in Queues : gni.queue[q] = "start" => gni.want = gni.read \cup {q}
  /\ \A q \in Queues : gni.queue[q] = "stop" => gni.want = gni.read \ {q}
  /\ gni.lock \in {"timer", "filter"} => gni.want = gni.read

\* A queue that arms its interrupt or sleeps is being called, or its flag is set and the
\* interrupt, the ISR or the DPC has what it has not seen.
GniExpects ==
  \A q \in Queues : gni.queue[q] \in {"arm", "waiting"} /\ ~gni.woken[q] =>
    \/ gni.dpc.call = q
    \/ /\ gni.notify[q]
       /\ gni.work[q] > 0 => q \in gni.status \cup gni.saved \cup gni.dpc.bits
       /\ gni.queue[q] = "waiting" /\ q \in gni.masked => q \in gni.saved \cup gni.dpc.bits

\* A queue that is being stopped is not called once its flag is down and the DPCs are flushed.
GniDisarmed ==
  \A q \in Queues :
    /\ gni.queue[q] \in {"disarm", "flush", "stopped"} => ~gni.notify[q]
    /\ gni.queue[q] = "stopped" => gni.dpc.call # q

\* The invariant of notifications and of the adapter's lock.
GniInv == GniTyped /\ GniLocked /\ GniCommand /\ GniExpects /\ GniDisarmed

\* The adapter starts with its queues stopped.
LEMMA GniInitially == GniInit => GniInv
BY SMTT(30) DEF GniInit, GniInv, GniTyped, GniFields, GniLocked, Holding, GniCommand, GniExpects,
       GniDisarmed, Queues, Nobody

\* Every step of the ISR, the DPC, the queues, the link timer and the filter keeps it.
LEMMA GniStep == ASSUME GniInv, [GniNext]_gni PROVE GniInv'
<1> USE DEF GniInv, GniTyped, GniFields, GniLocked, Holding, GniCommand, GniExpects, GniDisarmed,
            Queues, Nobody
<1>1. CASE GenetInterruptIsr
  BY <1>1 DEF GenetInterruptIsr
<1>2. CASE DpcTake
  <2>1. GniTyped'
    BY <1>2 DEF DpcTake
  <2>2. GniLocked'
    BY <1>2 DEF DpcTake
  <2>3. GniCommand'
    BY <1>2 DEF DpcTake
  <2>4. GniExpects'
    BY <1>2 DEF DpcTake
  <2>5. GniDisarmed'
    BY <1>2, SMTT(30) DEF DpcTake
  <2> QED
    BY <2>1, <2>2, <2>3, <2>4, <2>5
<1>3. CASE DpcLook
  <2>1. CASE gni' = [gni EXCEPT !.dpc.pc = "idle"] /\ gni.dpc.bits = {} /\ gni.dpc.pc = "look"
    BY <2>1
  <2>2. ASSUME NEW q \in gni.dpc.bits, gni.dpc.pc = "look",
               gni' = [gni EXCEPT !.notify[q] = FALSE,
                         !.dpc = [pc |-> IF gni.notify[q] THEN "call" ELSE "look",
                                  bits |-> gni.dpc.bits \ {q},
                                  call |-> IF gni.notify[q] THEN q ELSE Nobody]]
        PROVE  GniInv'
    <3>1. CASE gni.notify[q]
      <4>1. gni' = [gni EXCEPT !.notify[q] = FALSE,
                      !.dpc = [pc |-> "call", bits |-> gni.dpc.bits \ {q}, call |-> q]]
        BY <2>2, <3>1
      <4> QED
        BY <2>2, <3>1, <4>1
    <3>2. CASE ~gni.notify[q]
      <4>1. gni' = [gni EXCEPT !.notify[q] = FALSE,
                      !.dpc = [pc |-> "look", bits |-> gni.dpc.bits \ {q}, call |-> Nobody]]
        BY <2>2, <3>2
      <4> QED
        BY <2>2, <3>2, <4>1
    <3> QED
      BY <3>1, <3>2
  <2> QED
    BY <1>3, <2>1, <2>2 DEF DpcLook
<1>4. CASE DpcCall
  <2>1. GniTyped'
    BY <1>4 DEF DpcCall
  <2>2. GniLocked'
    BY <1>4 DEF DpcCall
  <2>3. GniCommand'
    BY <1>4 DEF DpcCall
  <2>4. GniExpects'
    BY <1>4, ZenonT(40) DEF DpcCall
  <2>5. GniDisarmed'
    BY <1>4 DEF DpcCall
  <2> QED
    BY <2>1, <2>2, <2>3, <2>4, <2>5
<1>5. CASE TimerRead
  BY <1>5 DEF TimerRead
<1>6. CASE TimerWrite
  BY <1>6 DEF TimerWrite
<1>7. CASE FilterWrite
  BY <1>7 DEF FilterWrite
<1>8. CASE TimerDue
  BY <1>8 DEF TimerDue
<1>9. CASE FilterRead
  BY <1>9 DEF FilterRead
<1>10. ASSUME NEW q \in Queues, Completion(q) PROVE GniInv'
  BY <1>10 DEF Completion
<1>11. ASSUME NEW q \in Queues, Advance(q) PROVE GniInv'
  BY <1>11 DEF Advance
<1>12. ASSUME NEW q \in Queues, SetNotificationEnabled(q) PROVE GniInv'
  BY <1>12 DEF SetNotificationEnabled, NotifySet
<1>13. ASSUME NEW q \in Queues, ArmMasks(q) PROVE GniInv'
  BY <1>13 DEF ArmMasks, InterruptMasks
<1>14. ASSUME NEW q \in Queues, Wake(q) PROVE GniInv'
  BY <1>14 DEF Wake
<1>15. ASSUME NEW q \in Queues, StartRead(q) PROVE GniInv'
  BY <1>15 DEF StartRead
<1>16. ASSUME NEW q \in Queues, StartWrite(q) PROVE GniInv'
  BY <1>16 DEF StartWrite
<1>17. ASSUME NEW q \in Queues, StopRead(q) PROVE GniInv'
  BY <1>17 DEF StopRead
<1>18. ASSUME NEW q \in Queues, StopWrite(q) PROVE GniInv'
  BY <1>18 DEF StopWrite
<1>19. ASSUME NEW q \in Queues, Disarm(q) PROVE GniInv'
  BY <1>19 DEF Disarm, NotifySet
<1>20. ASSUME NEW q \in Queues, DisarmMasks(q) PROVE GniInv'
  BY <1>20 DEF DisarmMasks, InterruptMasks
<1>21. ASSUME NEW q \in Queues, Flush(q) PROVE GniInv'
  <2>1. CASE gni' = [gni EXCEPT !.upset = {"flush"}]
    BY <2>1
  <2>2. CASE /\ gni.queue[q] = "flush" /\ ~gni.dpcQueued /\ gni.dpc.pc = "idle"
             /\ gni' = [gni EXCEPT !.queue[q] = "stopped", !.lock = Nobody, !.woken[q] = FALSE,
                          !.work[q] = 0]
    BY <2>2
  <2> QED
    BY <1>21, <2>1, <2>2 DEF Flush
<1>22. CASE UNCHANGED gni
  BY <1>22
<1> QED
  BY ZenonT(40), <1>1, <1>2, <1>3, <1>4, <1>5, <1>6, <1>7, <1>8, <1>9, <1>10, <1>11, <1>12, <1>13, <1>14,
     <1>15, <1>16, <1>17, <1>18, <1>19, <1>20, <1>21, <1>22
  DEF GniNext, GenetInterruptDpc, OtherLocks, QueueStep, StopStep

-----------------------------------------------------------------------------
(* Audio through the PWM controller (PwmAudio) *)

PwaFields == {"ks", "pwm", "inited", "inRestart", "base", "inUse", "processed", "toPrime",
              "restart", "lastKnown", "link", "content", "at", "tail", "next", "active", "int",
              "source", "played", "event", "isr", "dpc", "writer", "call", "dpcQueued", "turn",
              "streams", "upset"}

PwaIsrStates ==
  [pc : {"idle", "cs", "write", "handle", "count"}, conblk : Slots \cup {None},
   tail : BOOLEAN, active : BOOLEAN, int : BOOLEAN, count : Nat]
PwaDpcStates == [pc : {"idle", "check", "underflow", "notify"}, active : BOOLEAN]
PwaWriterStates == [pc : {"idle", "count", "prime", "exchange", "start"}, prime : Int]

\* The types of the stream's and the DMA's state.
PwaTyped ==
  /\ DOMAIN pwa = PwaFields
  /\ pwa.ks \in {"stop", "run", "pause"} /\ pwa.pwm \in {"stop", "run", "pause"}
  /\ pwa.inRestart \in BOOLEAN /\ pwa.restart \in BOOLEAN
  /\ pwa.base \in Nat /\ pwa.turn \in Nat /\ pwa.played \in Nat
  /\ pwa.inUse \in Int /\ pwa.processed \in Int /\ pwa.toPrime \in Int
  /\ pwa.lastKnown \in Slots \cup {None} /\ pwa.at \in Slots \cup {None}
  /\ pwa.source \in Slots \cup {None}
  /\ pwa.link \in [Slots -> BOOLEAN] /\ DOMAIN pwa.content = Slots
  /\ pwa.tail \in BOOLEAN /\ pwa.next \in BOOLEAN /\ pwa.active \in BOOLEAN /\ pwa.int \in BOOLEAN
  /\ pwa.isr \in PwaIsrStates /\ pwa.dpc \in PwaDpcStates /\ pwa.dpcQueued \in BOOLEAN
  /\ pwa.writer \in PwaWriterStates
  /\ pwa.call \in {"none", "pause"}

\* What the writer has linked and not counted, and what the ISR has unlinked and not counted down.
PwaCounting == IF pwa.writer.pc = "count" THEN 1 ELSE 0
PwaClearing == IF pwa.isr.pc = "count" THEN pwa.isr.count ELSE 0

\* The packets linked; the packets written since the start; the number of the first that is
\* linked; how many of those linked have been played.
PwaHeld == pwa.inUse + PwaCounting - PwaClearing
PwaWritten == pwa.turn - pwa.base
PwaFirst == PwaWritten - PwaHeld
PwaBehind == pwa.played - pwa.processed - PwaClearing

\* The slot of the packet with a number.
PwaSlot(n) == n % PwaNum

\* The slot of the packet before a number: lastKnown, when it is the first to account for.
PwaLast(n) == IF n = 0 THEN None ELSE PwaSlot(n - 1)

\* The DMA has a stream that did not run dry.
PwaGoing == pwa.pwm # "stop" /\ ~pwa.restart

\* How the states of the stream, of the PWM driver and of the writer go together.
PwaOrder ==
  /\ pwa.active => pwa.at # None
  /\ pwa.inUse + PwaCounting <= PwaNum
  /\ pwa.ks = "stop" => pwa.pwm = "stop" /\ pwa.base = 0 /\ ~pwa.restart /\ pwa.inUse = 0
  /\ pwa.ks = "run" => pwa.pwm # "pause"
  /\ pwa.writer.pc # "idle" => pwa.ks = "run" /\ pwa.call = "none"
  /\ pwa.writer.pc = "start" => pwa.pwm = "stop"
  /\ pwa.call = "pause" => pwa.ks = "run" /\ pwa.pwm = "run"
  /\ pwa.inRestart => pwa.restart /\ pwa.pwm = "stop"
  /\ pwa.pwm = "stop" /\ pwa.restart => pwa.inRestart

\* No stream, or one that ran dry: all that was played is accounted.
PwaStopped ==
  ~PwaGoing =>
    /\ pwa.at = None /\ pwa.processed = pwa.played
    /\ pwa.isr.pc # "count" /\ (pwa.isr.pc # "idle" => pwa.isr.conblk = None)

\* Before a first start nothing of an earlier stream is under way.
PwaFresh ==
  pwa.pwm = "stop" /\ ~pwa.restart =>
    /\ ~pwa.int /\ pwa.isr.pc = "idle" /\ pwa.dpc.pc = "idle" /\ ~pwa.dpcQueued

\* The buffer before a start: the first packet, after a restart the second behind silence.
PwaFrom == IF pwa.inRestart THEN 1 ELSE 0
PwaEmpty == PwaWritten = PwaFrom /\ pwa.inUse = 0 /\ \A i \in Slots : ~pwa.link[i]
PwaFilled ==
  /\ PwaWritten = PwaFrom + 1 /\ PwaHeld = PwaWritten
  /\ \A i \in Slots : pwa.link[i] <=> i <= PwaFrom
  /\ pwa.content[PwaFrom] = pwa.base + PwaFrom
  /\ pwa.inRestart => pwa.content[0] = Silence
PwaFilling ==
  pwa.pwm = "stop" /\ pwa.ks # "stop" =>
    /\ ~pwa.inRestart => pwa.base = 0
    /\ IF pwa.writer.pc = "idle" THEN PwaEmpty ELSE PwaFilled

\* Where the DMA is in the packets held.
PwaPlace ==
  PwaGoing =>
    /\ PwaFirst \in Nat /\ PwaBehind \in 0..PwaNum - 1
    /\ pwa.lastKnown = PwaLast(PwaFirst)
    /\ pwa.at # None =>
         /\ pwa.at = PwaSlot(PwaFirst + PwaBehind) /\ PwaBehind < PwaHeld
         /\ pwa.tail => PwaBehind < PwaNum - 1 /\ (pwa.next => PwaBehind + 1 < PwaHeld)
    /\ pwa.at = None =>
         pwa.source = PwaSlot(PwaFirst + PwaBehind - 1) /\ PwaBehind \in 1..PwaHeld

\* The links are those of the packets held, the contents what the client wrote.
PwaLinks ==
  PwaGoing =>
    /\ \A i \in Slots : pwa.link[i] <=> \E n \in PwaFirst..PwaWritten - 1 : i = PwaSlot(n)
    /\ \A n \in PwaFirst..PwaWritten - 1 :
         pwa.content[PwaSlot(n)] = pwa.base + n \/ (n = 0 /\ pwa.content[0] = Silence)

\* What the ISR has read is a packet that was under way after the last one accounted; an
\* interrupt that came meanwhile is of a packet behind it.
PwaRead(c) ==
  /\ pwa.isr.conblk = PwaSlot(PwaFirst + c) /\ (c = PwaBehind => pwa.at # None)
  /\ pwa.isr.pc = "handle" /\ pwa.int => c < PwaBehind
PwaInterrupt ==
  PwaGoing =>
    /\ pwa.int => PwaBehind > 0
    /\ pwa.isr.pc \in {"cs", "write", "handle"} =>
         IF pwa.isr.conblk = None THEN pwa.at = None ELSE \E c \in 1..PwaBehind : PwaRead(c)
    /\ pwa.isr.pc = "count" => pwa.isr.count > 0

\* A stream that ran dry will be noticed: by an interrupt, the ISR or the DPC.
PwaSeen ==
  /\ pwa.isr.pc = "cs" => pwa.int
  /\ pwa.isr.pc = "write" => pwa.isr.int
  /\ PwaGoing /\ pwa.at = None =>
       \/ pwa.int \/ pwa.isr.pc # "idle" \/ pwa.dpcQueued
       \/ pwa.dpc.pc = "check" /\ ~pwa.dpc.active
       \/ pwa.dpc.pc = "underflow"

PwaGood == /\ PwaOrder /\ PwaStopped /\ PwaFresh /\ PwaFilling /\ PwaPlace /\ PwaLinks
           /\ PwaInterrupt /\ PwaSeen

\* The invariant, until a race is lost.
PwaInv == PwaTyped /\ (pwa.upset = {} => PwaGood)
-----------------------------------------------------------------------------
(* Packets and their slots *)

\* Numbers less than the buffer apart have slots of their own.
LEMMA PwaSlots ==
  /\ \A n \in Nat : PwaSlot(n) \in Slots
  /\ \A n \in Slots : PwaSlot(n) = n
  /\ \A m, n \in Nat : m < n /\ n < m + PwaNum => PwaSlot(m) # PwaSlot(n)
<1> USE PwaAssumption
<1>1. \A n \in Nat : PwaSlot(n) \in Slots
  BY DEF PwaSlot, Slots
<1>2. \A n \in Slots : PwaSlot(n) = n
  BY DEF PwaSlot, Slots
<1>3. ASSUME NEW m \in Nat, NEW n \in Nat, m < n, n < m + PwaNum, PwaSlot(m) = PwaSlot(n)
      PROVE  FALSE
  <2>1. PICK a \in Int, b \in Int : /\ m = PwaNum * a + PwaSlot(m) /\ n = PwaNum * b + PwaSlot(n)
    <3>1. \A k \in Nat : k = PwaNum * (k \div PwaNum) + (k % PwaNum) /\ k \div PwaNum \in Int
      BY Z3
    <3> QED
      BY <3>1 DEF PwaSlot
  <2>2. n - m = PwaNum * (b - a)
    BY <1>1, <1>3, <2>1 DEF Slots
  <2>3. b - a > 0
    BY <1>3, <2>2
  <2>4. PwaNum * (b - a) >= PwaNum
    BY <2>1, <2>3
  <2> QED
    BY <1>3, <2>2, <2>4
<1> QED
  BY <1>1, <1>2, <1>3

\* A remainder is the only one.
LEMMA PwaRemainder ==
  ASSUME NEW a \in Int, NEW b \in Int, NEW r \in 0..PwaNum - 1, NEW s \in 0..PwaNum - 1,
         PwaNum * a + r = PwaNum * b + s
  PROVE  r = s
<1> USE PwaAssumption
<1>1. PwaNum * (a - b) = s - r
  BY Z3
<1>2. \A x \in Int : x > 0 => PwaNum * x >= PwaNum
  BY Z3
<1>3. \A x \in Int : x < 0 => PwaNum * x <= -PwaNum
  BY Z3
<1>4. a - b = 0
  BY <1>1, <1>2, <1>3
<1> QED
  BY <1>1, <1>4

\* A slot so many packets further on.
LEMMA PwaSlotAdd ==
  ASSUME NEW n \in Nat, NEW k \in Nat PROVE (PwaSlot(n) + k) % PwaNum = PwaSlot(n + k)
<1> USE PwaAssumption
<1>1. \A x \in Nat : \E q \in Int : x = PwaNum * q + (x % PwaNum) /\ x % PwaNum \in 0..PwaNum - 1
  <2>1. \A x \in Nat : /\ x = PwaNum * (x \div PwaNum) + (x % PwaNum)
                       /\ x \div PwaNum \in Int /\ x % PwaNum \in 0..PwaNum - 1
    BY Z3
  <2> QED
    BY <2>1
<1>2. PICK a \in Int : n = PwaNum * a + (n % PwaNum) /\ n % PwaNum \in 0..PwaNum - 1
  BY <1>1
<1>3. PICK b \in Int :
        n + k = PwaNum * b + ((n + k) % PwaNum) /\ (n + k) % PwaNum \in 0..PwaNum - 1
  <2>1. n + k \in Nat
    OBVIOUS
  <2> QED
    BY <1>1, <2>1
<1>4. PICK m \in Nat : m = (n % PwaNum) + k
  BY <1>2
<1>5. PICK c \in Int : m = PwaNum * c + (m % PwaNum) /\ m % PwaNum \in 0..PwaNum - 1
  BY <1>1
<1>6. PwaNum * (c + a) + (m % PwaNum) = PwaNum * b + ((n + k) % PwaNum)
  <2>1. PICK x \in Nat, y \in Nat, z \in Nat :
          x = n % PwaNum /\ y = m % PwaNum /\ z = (n + k) % PwaNum
    BY <1>2, <1>3, <1>5
  <2>2. PwaNum * (c + a) + y = PwaNum * b + z
    <3>1. n = PwaNum * a + x /\ n + k = PwaNum * b + z /\ x + k = PwaNum * c + y
      BY <1>2, <1>3, <1>4, <1>5, <2>1
    <3> QED
      BY <3>1, Z3
  <2> QED
    BY <2>1, <2>2
<1>7. m % PwaNum = (n + k) % PwaNum
  <2>1. c + a \in Int
    OBVIOUS
  <2> QED
    BY <1>3, <1>5, <1>6, <2>1, PwaRemainder
<1> QED
  BY <1>4, <1>7 DEF PwaSlot

\* A sum less than twice the buffer is taken modulo the buffer by one subtraction.
LEMMA PwaWrap ==
  ASSUME NEW a \in Slots, NEW b \in Slots
  PROVE  (a + b) % PwaNum = IF a + b < PwaNum THEN a + b ELSE a + b - PwaNum
<1>1. \A x \in 0..2 * PwaNum - 1 : x % PwaNum = IF x < PwaNum THEN x ELSE x - PwaNum
  BY Z3, PwaAssumption
<1> QED
  BY <1>1, PwaAssumption DEF Slots

\* The slots before and after.
LEMMA PwaSlotNext ==
  ASSUME NEW n \in Nat
  PROVE  Following(PwaSlot(n)) = PwaSlot(n + 1) /\ Previous(PwaSlot(n + 1)) = PwaSlot(n)
<1>1. Following(PwaSlot(n)) = PwaSlot(n + 1)
  BY PwaSlotAdd DEF Following
<1>2. PwaSlot(n) \in Slots
  BY PwaSlots
<1>3. PwaSlot(n + 1) = IF PwaSlot(n) = PwaNum - 1 THEN 0 ELSE PwaSlot(n) + 1
  <2>1. PwaSlot(n + 1) = (PwaSlot(n) + 1) % PwaNum
    BY PwaSlotAdd
  <2>2. PwaNum % PwaNum = 0 /\ \A x \in 0..PwaNum - 1 : x % PwaNum = x
    BY PwaAssumption
  <2> QED
    BY <1>2, <2>1, <2>2, PwaAssumption DEF Slots
<1> QED
  BY <1>1, <1>2, <1>3, PwaAssumption DEF Previous, Slots

\* Slot distance, where the first slot is that of a packet or precedes the first.
LEMMA PwaSlotBack ==
  ASSUME NEW f \in Nat, NEW b \in 0..PwaNum - 1
  PROVE  (PwaSlot(f + b) - 1 - PwaLast(f)) % PwaNum = b
<1> USE PwaAssumption
<1> DEFINE p == IF f = 0 THEN PwaNum - 1 ELSE PwaSlot(f - 1)
<1>1. \A x \in -PwaNum..PwaNum - 1 : x % PwaNum = IF x < 0 THEN x + PwaNum ELSE x
  <2>1. \A x \in 0..PwaNum - 1 : x % PwaNum = x
    OBVIOUS
  <2>2. \A x \in -PwaNum..-1 : x % PwaNum = x + PwaNum
    BY Z3
  <2> QED
    BY <2>1, <2>2
<1>2. PwaSlot(f + b) \in Slots /\ PwaSlot(f) \in Slots
  BY PwaSlots
<1>3. PwaSlot(f + b) = IF PwaSlot(f) + b < PwaNum THEN PwaSlot(f) + b ELSE PwaSlot(f) + b - PwaNum
  <2>1. PwaSlot(f + b) = (PwaSlot(f) + b) % PwaNum
    BY PwaSlotAdd
  <2>2. \A x \in 0..2 * PwaNum - 1 : x % PwaNum = IF x < PwaNum THEN x ELSE x - PwaNum
    BY Z3
  <2> QED
    BY <1>2, <2>1, <2>2 DEF Slots
<1>4. CASE f = 0
  <2>1. PwaSlot(f) = 0
    BY <1>4, PwaSlots DEF Slots
  <2> QED
    BY <1>1, <1>3, <1>4, <2>1 DEF PwaLast, None
<1>5. CASE f > 0
  <2>1. PwaSlot(f - 1) = Previous(PwaSlot(f)) /\ PwaSlot(f - 1) \in Slots
    BY <1>5, PwaSlotNext, PwaSlots
  <2>2. PwaSlot(f + b) - 1 - PwaSlot(f - 1) \in {b, b - PwaNum}
    BY <1>2, <1>3, <2>1 DEF Previous, Slots
  <2> QED
    BY <1>1, <1>5, <2>2 DEF PwaLast
<1> QED
  BY <1>4, <1>5

\* GetNumberOfProcessedPackets, from the last packet accounted to one at most a buffer later.
LEMMA PwaProcessed ==
  ASSUME NEW f \in Nat, NEW c \in 1..PwaNum
  PROVE  ProcessedPackets(PwaSlot(f + c - 1), PwaLast(f)) = c
<1> USE PwaAssumption
<1>1. PwaSlot(f + c - 1) \in Slots
  BY PwaSlots
<1>2. CASE f = 0
  <2>1. c - 1 \in Slots
    BY DEF Slots
  <2>2. PwaSlot(f + c - 1) = c - 1
    BY <1>2, <2>1, PwaSlots
  <2> QED
    BY <1>2, <2>2 DEF ProcessedPackets, PwaLast
<1>3. CASE f > 0
  <2> DEFINE l == PwaSlot(f - 1)
  <2>1. l \in Slots /\ l # None
    BY <1>3, PwaSlots DEF Slots, None
  <2>2. PwaSlot(f + c - 1) = (l + c) % PwaNum
    BY <1>3, PwaSlotAdd
  <2>3. \A x \in 0..2 * PwaNum - 1 : x % PwaNum = IF x < PwaNum THEN x ELSE x - PwaNum
    BY Z3
  <2>4. PwaSlot(f + c - 1) = IF l + c < PwaNum THEN l + c ELSE l + c - PwaNum
    BY <2>1, <2>2, <2>3 DEF Slots
  <2> HIDE DEF l
  <2>5. ProcessedPackets(PwaSlot(f + c - 1), l) = c
    BY <2>1, <2>4 DEF ProcessedPackets, Slots
  <2> QED
    BY <1>3, <2>5 DEF PwaLast, l
<1> QED
  BY <1>2, <1>3

\* The slots the ISR unlinks are those of the packets it accounts.
LEMMA PwaUnlinked ==
  ASSUME NEW f \in Nat, NEW c \in 1..PwaNum, NEW i \in Slots
  PROVE  (PwaSlot(f + c - 1) + PwaNum - i) % PwaNum < c <=> \E n \in f..f + c - 1 : i = PwaSlot(n)
<1> USE PwaAssumption
<1> DEFINE d == PwaSlot(f + c - 1)
           k == IF i <= d THEN d - i ELSE d + PwaNum - i
<1>1. d \in Slots /\ k \in 0..PwaNum - 1
  BY PwaSlots DEF Slots
<1>2. (d + PwaNum - i) % PwaNum = k
  <2>1. \A x \in 0..2 * PwaNum - 1 : x % PwaNum = IF x < PwaNum THEN x ELSE x - PwaNum
    BY Z3
  <2> QED
    BY <1>1, <2>1 DEF Slots
<1>3. \A n \in f..f + c - 1 : i = PwaSlot(n) => k = f + c - 1 - n
  <2> SUFFICES ASSUME NEW n \in f..f + c - 1, i = PwaSlot(n) PROVE k = f + c - 1 - n
    OBVIOUS
  <2> DEFINE j == f + c - 1 - n
  <2>1. j \in 0..PwaNum - 1 /\ n \in Nat
    OBVIOUS
  <2>2. d = (i + j) % PwaNum
    BY <2>1, PwaSlotAdd
  <2>3. \A x \in 0..2 * PwaNum - 1 : x % PwaNum = IF x < PwaNum THEN x ELSE x - PwaNum
    BY Z3
  <2>4. d = IF i + j < PwaNum THEN i + j ELSE i + j - PwaNum
    BY <2>1, <2>2, <2>3 DEF Slots
  <2> HIDE DEF d, j
  <2> QED
    BY <1>1, <2>1, <2>4 DEF Slots, j
<1>4. k < c => \E n \in f..f + c - 1 : i = PwaSlot(n)
  <2> SUFFICES ASSUME k < c PROVE i = PwaSlot(f + c - 1 - k) /\ f + c - 1 - k \in f..f + c - 1
    OBVIOUS
  <2>1. f + c - 1 - k \in Nat /\ k \in Nat
    BY <1>1
  <2> DEFINE e == PwaSlot(f + c - 1 - k)
  <2>2. d = (e + k) % PwaNum /\ e \in Slots
    <3>1. (e + k) % PwaNum = PwaSlot((f + c - 1 - k) + k)
      BY <2>1, PwaSlotAdd
    <3>2. (f + c - 1 - k) + k = f + c - 1
      BY <1>1
    <3> QED
      BY <2>1, <3>1, <3>2, PwaSlots
  <2>3. k \in Slots
    BY <1>1 DEF Slots
  <2>4. d = IF e + k < PwaNum THEN e + k ELSE e + k - PwaNum
    <3> HIDE DEF d, e, k
    <3> QED
      BY <2>2, <2>3, PwaWrap
  <2>5. i = e
    <3> HIDE DEF d, e
    <3> QED
      BY <1>1, <2>2, <2>4 DEF Slots
  <2> QED
    BY <1>1, <2>5
<1> QED
  BY <1>1, <1>2, <1>3, <1>4

-----------------------------------------------------------------------------
(* What the invariant says of a state *)

\* The numbers of packets.
LEMMA PwaNumbers ==
  ASSUME PwaTyped
  PROVE  /\ PwaCounting \in {0, 1} /\ PwaClearing \in Nat /\ PwaHeld \in Int /\ PwaWritten \in Int
         /\ PwaFirst \in Int /\ PwaBehind \in Int /\ PwaWritten = PwaFirst + PwaHeld
         /\ PwaHeld <= pwa.inUse + PwaCounting
<1>1. PwaCounting \in {0, 1} /\ PwaClearing \in Nat
  BY DEF PwaTyped, PwaIsrStates, PwaCounting, PwaClearing
<1> QED
  BY <1>1 DEF PwaTyped, PwaHeld, PwaWritten, PwaFirst, PwaBehind

\* The packets the DMA finds linked, as far as the buffer goes.
LEMMA PwaWindow ==
  ASSUME PwaTyped, PwaGood, PwaGoing
  PROVE  /\ PwaHeld \in 1..PwaNum /\ PwaBehind \in 0..PwaNum - 1 /\ PwaFirst \in Nat
         /\ PwaBehind <= PwaHeld
         /\ \A k \in 0..PwaNum - 1 : pwa.link[PwaSlot(PwaFirst + k)] => k < PwaHeld
<1>1. /\ PwaHeld \in 1..PwaNum /\ PwaBehind \in 0..PwaNum - 1 /\ PwaFirst \in Nat
      /\ PwaBehind <= PwaHeld
  BY PwaNumbers, PwaAssumption DEF PwaGood, PwaPlace, PwaOrder, PwaTyped
<1>2. ASSUME NEW k \in 0..PwaNum - 1, pwa.link[PwaSlot(PwaFirst + k)] PROVE k < PwaHeld
  <2>1. PICK n \in PwaFirst..PwaWritten - 1 : PwaSlot(PwaFirst + k) = PwaSlot(n)
    BY <1>1, <1>2, PwaSlots DEF PwaGood, PwaLinks
  <2>2. n \in Nat /\ n - PwaFirst \in 0..PwaNum - 1 /\ n - PwaFirst < PwaHeld
    BY <1>1, <2>1, PwaNumbers, PwaAssumption
  <2>3. n = PwaFirst + k
    BY <1>1, <2>1, <2>2, PwaSlots, PwaAssumption
  <2> QED
    BY <2>2, <2>3, <1>1
<1> QED
  BY <1>1, <1>2

\* The next slot.
LEMMA FollowingTyped == \A i \in Slots : Following(i) \in Slots
BY PwaAssumption DEF Following, Slots

\* The ISR at rest.
LEMMA IdleIsrTyped == IdleIsr \in PwaIsrStates /\ IdleIsr.pc = "idle"
BY DEF IdleIsr, PwaIsrStates

\* HandleUnderflow, when the DMA has no control block: all that was played is accounted, unless
\* an earlier underflow was accounted already.
LEMMA HandleUnderflowRanDry ==
  ASSUME PwaTyped, PwaGood, pwa.upset = {}, pwa.at = None, pwa.isr.pc # "count"
  PROVE  \E x \in Int, u \in SUBSET {"twice"} :
           /\ HandleUnderflow(pwa) = [pwa EXCEPT !.inUse = 0, !.restart = TRUE,
                                       !.processed = x, !.upset = u]
           /\ u = {} => PwaGoing /\ x = pwa.played
<1> DEFINE completed == IF pwa.source = None THEN PwaNum - 1 ELSE pwa.source
           p == ProcessedPackets(completed, pwa.lastKnown)
           u == pwa.upset \cup (IF pwa.restart \/ pwa.pwm = "stop" THEN {"twice"} ELSE {})
<1>1. /\ HandleUnderflow(pwa) = [pwa EXCEPT !.inUse = 0, !.restart = TRUE,
                                  !.processed = pwa.processed + p, !.upset = u]
  BY DEF HandleUnderflow, PwaFields
<1>2. completed \in Slots /\ p \in Int
  <2>1. pwa.source \in Slots \cup {None} /\ pwa.lastKnown \in Slots \cup {None}
    BY DEF PwaTyped
  <2>2. completed \in Slots
    BY <2>1, PwaAssumption DEF Slots
  <2> HIDE DEF completed
  <2> QED
    BY <2>1, <2>2, PwaAssumption DEF ProcessedPackets, Slots, None
<1>3. u = {} => PwaGoing
  BY DEF PwaGoing
<1>4. ASSUME PwaGoing PROVE pwa.processed + p = pwa.played
  <2>1. /\ pwa.source = PwaSlot(PwaFirst + PwaBehind - 1) /\ PwaBehind \in 1..PwaNum
        /\ pwa.lastKnown = PwaLast(PwaFirst) /\ PwaFirst \in Nat
    BY <1>4, PwaWindow, PwaAssumption DEF PwaGood, PwaPlace
  <2>2. PwaSlot(PwaFirst + PwaBehind - 1) # None
    BY <2>1, PwaSlots DEF Slots, None
  <2>3. p = PwaBehind
    BY <2>1, <2>2, PwaProcessed
  <2>4. PwaBehind = pwa.played - pwa.processed
    BY DEF PwaBehind, PwaClearing, PwaTyped
  <2> QED
    BY <2>3, <2>4 DEF PwaTyped
<1>5. pwa.processed + p \in Int /\ u \in SUBSET {"twice"}
  BY <1>2 DEF PwaTyped
<1> HIDE DEF p, u
<1> QED
  BY <1>1, <1>3, <1>4, <1>5

-----------------------------------------------------------------------------
(* The DMA and its ISR *)

\* The second block latches the link to the next packet.
LEMMA DmaEntersTailKept ==
  ASSUME PwaTyped, PwaGood, pwa.upset = {}, DmaEntersTail PROVE PwaInv'
<1>1. /\ pwa.active /\ pwa.at # None /\ ~pwa.tail
      /\ pwa'.upset = {} => Unaccounted(pwa) # PwaNum - 1
      /\ DOMAIN pwa' = PwaFields /\ pwa'.ks = pwa.ks /\ pwa'.pwm = pwa.pwm
      /\ pwa'.inRestart = pwa.inRestart /\ pwa'.base = pwa.base /\ pwa'.inUse = pwa.inUse
      /\ pwa'.processed = pwa.processed /\ pwa'.toPrime = pwa.toPrime
      /\ pwa'.restart = pwa.restart /\ pwa'.lastKnown = pwa.lastKnown /\ pwa'.link = pwa.link
      /\ pwa'.content = pwa.content /\ pwa'.at = pwa.at /\ pwa'.tail = TRUE
      /\ pwa'.next = pwa.link[Following(pwa.at)] /\ pwa'.active = pwa.active /\ pwa'.int = pwa.int
      /\ pwa'.source = pwa.source /\ pwa'.played = pwa.played /\ pwa'.isr = pwa.isr
      /\ pwa'.dpc = pwa.dpc /\ pwa'.writer = pwa.writer /\ pwa'.call = pwa.call
      /\ pwa'.dpcQueued = pwa.dpcQueued /\ pwa'.turn = pwa.turn
  BY DEF DmaEntersTail, PwaTyped, PwaFields
<1>2. /\ PwaCounting' = PwaCounting /\ PwaClearing' = PwaClearing /\ PwaHeld' = PwaHeld
      /\ PwaWritten' = PwaWritten /\ PwaFirst' = PwaFirst /\ PwaBehind' = PwaBehind
      /\ (PwaGoing' <=> PwaGoing)
  BY <1>1 DEF PwaWritten, PwaHeld, PwaFirst, PwaBehind, PwaCounting, PwaClearing, PwaGoing
<1>3. PwaTyped'
  <2>1. pwa.link[Following(pwa.at)] \in BOOLEAN
    <3>1. Following(pwa.at) \in Slots
      BY <1>1, FollowingTyped DEF PwaTyped, None
    <3> QED
      BY <3>1 DEF PwaTyped
  <2> QED
    BY <1>1, <2>1 DEF PwaTyped
<1>4. ASSUME pwa'.upset = {} PROVE PwaOrder'
  BY <1>1, <1>2, <1>4 DEF PwaGood, PwaOrder
<1>5. ASSUME pwa'.upset = {} PROVE PwaStopped'
  BY <1>1, <1>2, <1>5 DEF PwaGood, PwaStopped
<1>6. ASSUME pwa'.upset = {} PROVE PwaFresh'
  BY <1>1, <1>2, <1>6 DEF PwaGood, PwaFresh
<1>7. ASSUME pwa'.upset = {} PROVE PwaFilling'
  BY <1>1, <1>2, <1>7 DEF PwaGood, PwaFilling, PwaFrom, PwaEmpty, PwaFilled
<1>8. ASSUME pwa'.upset = {} PROVE PwaPlace'
  <2>1. PwaGoing /\ pwa.at = PwaSlot(PwaFirst + PwaBehind) /\ pwa.lastKnown = PwaLast(PwaFirst)
    BY <1>1 DEF PwaGood, PwaStopped, PwaPlace
  <2>2. PwaBehind # PwaNum - 1
    BY <1>1, <1>8, <2>1, PwaWindow, PwaSlotBack DEF Unaccounted
  <2>3. Following(pwa.at) = PwaSlot(PwaFirst + (PwaBehind + 1))
    BY <2>1, PwaWindow, PwaSlotNext
  <2>4. pwa.link[Following(pwa.at)] => PwaBehind + 1 < PwaHeld
    BY <2>1, <2>2, <2>3, PwaWindow, PwaAssumption
  <2> QED
    BY <1>1, <1>2, <2>1, <2>2, <2>4, PwaWindow, PwaAssumption DEF PwaGood, PwaPlace
<1>9. ASSUME pwa'.upset = {} PROVE PwaLinks'
  BY <1>1, <1>2, <1>9 DEF PwaGood, PwaLinks
<1>10. ASSUME pwa'.upset = {} PROVE PwaInterrupt'
  BY <1>1, <1>2, <1>10 DEF PwaGood, PwaInterrupt, PwaRead
<1>11. ASSUME pwa'.upset = {} PROVE PwaSeen'
  BY <1>1, <1>2, <1>11 DEF PwaGood, PwaSeen
<1> QED
  BY <1>3, <1>4, <1>5, <1>6, <1>7, <1>8, <1>9, <1>10, <1>11 DEF PwaInv, PwaGood

\* A packet has been played: the DMA goes on with the next, or stops.
LEMMA DmaEndsPacketKept ==
  ASSUME PwaTyped, PwaGood, pwa.upset = {}, DmaEndsPacket PROVE PwaInv'
<1>1. /\ pwa.active /\ pwa.at # None /\ pwa.tail
      /\ pwa'.at = IF pwa.next THEN Following(pwa.at) ELSE None
      /\ DOMAIN pwa' = PwaFields /\ pwa'.ks = pwa.ks /\ pwa'.pwm = pwa.pwm
      /\ pwa'.inRestart = pwa.inRestart /\ pwa'.base = pwa.base /\ pwa'.inUse = pwa.inUse
      /\ pwa'.processed = pwa.processed /\ pwa'.toPrime = pwa.toPrime
      /\ pwa'.restart = pwa.restart /\ pwa'.lastKnown = pwa.lastKnown /\ pwa'.link = pwa.link
      /\ pwa'.content = pwa.content /\ pwa'.tail = FALSE /\ pwa'.next = pwa.next
      /\ pwa'.active = pwa.next /\ pwa'.int = TRUE /\ pwa'.source = pwa.at
      /\ pwa'.played = pwa.played + 1 /\ pwa'.isr = pwa.isr /\ pwa'.dpc = pwa.dpc
      /\ pwa'.writer = pwa.writer /\ pwa'.call = pwa.call /\ pwa'.dpcQueued = pwa.dpcQueued
      /\ pwa'.turn = pwa.turn /\ pwa'.upset = pwa.upset
  BY DEF DmaEndsPacket, PwaGood, PwaStopped, PwaTyped, PwaFields
<1>2. /\ PwaCounting' = PwaCounting /\ PwaClearing' = PwaClearing /\ PwaHeld' = PwaHeld
      /\ PwaWritten' = PwaWritten /\ PwaFirst' = PwaFirst /\ PwaBehind' = PwaBehind + 1
      /\ (PwaGoing' <=> PwaGoing) /\ PwaGoing
  BY <1>1
  DEF PwaTyped, PwaIsrStates, PwaWritten, PwaHeld, PwaFirst, PwaBehind, PwaCounting, PwaClearing,
      PwaGoing, PwaGood, PwaStopped
<1>3. PwaTyped'
  <2>1. Following(pwa.at) \in Slots
    BY <1>1, FollowingTyped DEF PwaTyped, None
  <2>2. pwa'.at \in Slots \cup {None} /\ pwa'.played \in Nat
    BY <1>1, <2>1 DEF PwaTyped
  <2> QED
    BY <1>1, <2>2 DEF PwaTyped
<1>4. PwaOrder'
  <2>1. pwa.next => Following(pwa.at) # None
    BY <1>1, PwaAssumption DEF PwaTyped, Following, Slots, None
  <2> QED
    BY <1>1, <1>2, <2>1 DEF PwaGood, PwaOrder
<1>5. PwaStopped'
  BY <1>1, <1>2 DEF PwaStopped
<1>6. PwaFresh'
  BY <1>1, <1>2 DEF PwaFresh, PwaGoing
<1>7. PwaFilling'
  BY <1>1, <1>2 DEF PwaGood, PwaFilling, PwaFrom, PwaEmpty, PwaFilled
<1>8. PwaPlace'
  <2>1. /\ pwa.at = PwaSlot(PwaFirst + PwaBehind) /\ pwa.lastKnown = PwaLast(PwaFirst)
        /\ PwaBehind < PwaNum - 1 /\ (pwa.next => PwaBehind + 1 < PwaHeld) /\ PwaBehind < PwaHeld
    BY <1>1, <1>2 DEF PwaGood, PwaPlace
  <2>2. Following(pwa.at) = PwaSlot(PwaFirst + (PwaBehind + 1))
    BY <1>2, <2>1, PwaWindow, PwaSlotNext
  <2>3. PwaFirst + PwaBehind = PwaFirst + (PwaBehind + 1) - 1
    BY <1>2, PwaWindow
  <2> QED
    BY <1>1, <1>2, <2>1, <2>2, <2>3, PwaWindow, PwaAssumption DEF PwaPlace
<1>9. PwaLinks'
  BY <1>1, <1>2 DEF PwaGood, PwaLinks
<1>10. PwaInterrupt'
  <2>1. \A c \in 1..PwaBehind : PwaRead(c) => c \in 1..PwaBehind' /\ PwaRead(c)'
    BY <1>1, <1>2, PwaWindow DEF PwaRead
  <2> QED
    BY <1>1, <1>2, <2>1, PwaWindow DEF PwaGood, PwaInterrupt
<1>11. PwaSeen'
  BY <1>1, <1>2 DEF PwaGood, PwaSeen
<1> QED
  BY <1>3, <1>4, <1>5, <1>6, <1>7, <1>8, <1>9, <1>10, <1>11 DEF PwaInv, PwaGood

\* The ISR reads CONBLK_AD.
LEMMA DmaIsrConblkKept ==
  ASSUME PwaTyped, PwaGood, pwa.upset = {}, DmaIsrConblk PROVE PwaInv'
<1>1. /\ pwa.isr.pc = "idle" /\ pwa.int
      /\ DOMAIN pwa' = PwaFields /\ pwa'.ks = pwa.ks /\ pwa'.pwm = pwa.pwm
      /\ pwa'.inRestart = pwa.inRestart /\ pwa'.base = pwa.base /\ pwa'.inUse = pwa.inUse
      /\ pwa'.processed = pwa.processed /\ pwa'.toPrime = pwa.toPrime
      /\ pwa'.restart = pwa.restart /\ pwa'.lastKnown = pwa.lastKnown /\ pwa'.link = pwa.link
      /\ pwa'.content = pwa.content /\ pwa'.at = pwa.at /\ pwa'.tail = pwa.tail
      /\ pwa'.next = pwa.next /\ pwa'.active = pwa.active /\ pwa'.int = pwa.int
      /\ pwa'.source = pwa.source /\ pwa'.played = pwa.played
      /\ pwa'.isr = [pwa.isr EXCEPT !.pc = "cs", !.conblk = pwa.at, !.tail = pwa.tail]
      /\ pwa'.dpc = pwa.dpc /\ pwa'.writer = pwa.writer /\ pwa'.call = pwa.call
      /\ pwa'.dpcQueued = pwa.dpcQueued /\ pwa'.turn = pwa.turn /\ pwa'.upset = pwa.upset
  BY DEF DmaIsrConblk, PwaTyped, PwaFields
<1>2. /\ PwaCounting' = PwaCounting /\ PwaClearing' = PwaClearing /\ PwaHeld' = PwaHeld
      /\ PwaWritten' = PwaWritten /\ PwaFirst' = PwaFirst /\ PwaBehind' = PwaBehind
      /\ (PwaGoing' <=> PwaGoing) /\ pwa'.isr.pc = "cs" /\ pwa'.isr.conblk = pwa.at
  BY <1>1 DEF PwaWritten, PwaHeld, PwaFirst, PwaBehind, PwaCounting, PwaClearing, PwaGoing
<1>3. PwaTyped'
  BY <1>1 DEF PwaTyped, PwaIsrStates
<1>4. PwaOrder'
  BY <1>1, <1>2 DEF PwaGood, PwaOrder
<1>5. PwaStopped'
  BY <1>1, <1>2 DEF PwaGood, PwaStopped
<1>6. PwaFresh'
  BY <1>1, <1>2 DEF PwaGood, PwaFresh
<1>7. PwaFilling'
  BY <1>1, <1>2 DEF PwaGood, PwaFilling, PwaFrom, PwaEmpty, PwaFilled
<1>8. PwaPlace'
  BY <1>1, <1>2 DEF PwaGood, PwaPlace
<1>9. PwaLinks'
  BY <1>1, <1>2 DEF PwaGood, PwaLinks
<1>10. PwaInterrupt'
  <2>1. ASSUME PwaGoing, pwa.at # None PROVE PwaBehind \in 1..PwaBehind /\ PwaRead(PwaBehind)'
    BY <1>1, <1>2, <2>1 DEF PwaGood, PwaPlace, PwaInterrupt, PwaRead
  <2> QED
    BY <1>1, <1>2, <2>1 DEF PwaGood, PwaInterrupt
<1>11. PwaSeen'
  BY <1>1, <1>2 DEF PwaGood, PwaSeen
<1> QED
  BY <1>3, <1>4, <1>5, <1>6, <1>7, <1>8, <1>9, <1>10, <1>11 DEF PwaInv, PwaGood

\* It reads CS.
LEMMA DmaIsrCsKept ==
  ASSUME PwaTyped, PwaGood, pwa.upset = {}, DmaIsrCs PROVE PwaInv'
<1>1. /\ pwa.isr.pc = "cs"
      /\ DOMAIN pwa' = PwaFields /\ pwa'.ks = pwa.ks /\ pwa'.pwm = pwa.pwm
      /\ pwa'.inRestart = pwa.inRestart /\ pwa'.base = pwa.base /\ pwa'.inUse = pwa.inUse
      /\ pwa'.processed = pwa.processed /\ pwa'.toPrime = pwa.toPrime
      /\ pwa'.restart = pwa.restart /\ pwa'.lastKnown = pwa.lastKnown /\ pwa'.link = pwa.link
      /\ pwa'.content = pwa.content /\ pwa'.at = pwa.at /\ pwa'.tail = pwa.tail
      /\ pwa'.next = pwa.next /\ pwa'.active = pwa.active /\ pwa'.int = pwa.int
      /\ pwa'.source = pwa.source /\ pwa'.played = pwa.played
      /\ pwa'.isr = [pwa.isr EXCEPT !.pc = "write", !.active = pwa.active, !.int = pwa.int]
      /\ pwa'.dpc = pwa.dpc /\ pwa'.writer = pwa.writer /\ pwa'.call = pwa.call
      /\ pwa'.dpcQueued = pwa.dpcQueued /\ pwa'.turn = pwa.turn /\ pwa'.upset = pwa.upset
  BY DEF DmaIsrCs, PwaTyped, PwaFields
<1>2. /\ PwaCounting' = PwaCounting /\ PwaClearing' = PwaClearing /\ PwaHeld' = PwaHeld
      /\ PwaWritten' = PwaWritten /\ PwaFirst' = PwaFirst /\ PwaBehind' = PwaBehind
      /\ (PwaGoing' <=> PwaGoing)
  BY <1>1 DEF PwaWritten, PwaHeld, PwaFirst, PwaBehind, PwaCounting, PwaClearing, PwaGoing
<1>3. PwaTyped'
  BY <1>1 DEF PwaTyped, PwaIsrStates
<1>4. PwaOrder'
  BY <1>1, <1>2 DEF PwaGood, PwaOrder
<1>5. PwaStopped'
  BY <1>1, <1>2 DEF PwaGood, PwaStopped
<1>6. PwaFresh'
  BY <1>1, <1>2 DEF PwaGood, PwaFresh
<1>7. PwaFilling'
  BY <1>1, <1>2 DEF PwaGood, PwaFilling, PwaFrom, PwaEmpty, PwaFilled
<1>8. PwaPlace'
  BY <1>1, <1>2 DEF PwaGood, PwaPlace
<1>9. PwaLinks'
  BY <1>1, <1>2 DEF PwaGood, PwaLinks
<1>10. PwaInterrupt'
  BY <1>1, <1>2 DEF PwaGood, PwaInterrupt, PwaRead
<1>11. PwaSeen'
  BY <1>1, <1>2 DEF PwaGood, PwaSeen
<1> QED
  BY <1>3, <1>4, <1>5, <1>6, <1>7, <1>8, <1>9, <1>10, <1>11 DEF PwaInv, PwaGood

\* It writes CS back.
LEMMA DmaIsrWriteKept ==
  ASSUME PwaTyped, PwaGood, pwa.upset = {}, DmaIsrWrite PROVE PwaInv'
<1>1. /\ pwa.isr.pc = "write"
      /\ pwa'.active \in BOOLEAN /\ (pwa'.active => pwa.at # None)
      /\ DOMAIN pwa' = PwaFields /\ pwa'.ks = pwa.ks /\ pwa'.pwm = pwa.pwm
      /\ pwa'.inRestart = pwa.inRestart /\ pwa'.base = pwa.base /\ pwa'.inUse = pwa.inUse
      /\ pwa'.processed = pwa.processed /\ pwa'.toPrime = pwa.toPrime
      /\ pwa'.restart = pwa.restart /\ pwa'.lastKnown = pwa.lastKnown /\ pwa'.link = pwa.link
      /\ pwa'.content = pwa.content /\ pwa'.at = pwa.at /\ pwa'.tail = pwa.tail
      /\ pwa'.next = pwa.next /\ pwa'.int = FALSE /\ pwa'.source = pwa.source
      /\ pwa'.played = pwa.played /\ pwa'.isr = [pwa.isr EXCEPT !.pc = "handle"]
      /\ pwa'.dpc = pwa.dpc /\ pwa'.writer = pwa.writer /\ pwa'.call = pwa.call
      /\ pwa'.dpcQueued = pwa.dpcQueued /\ pwa'.turn = pwa.turn /\ pwa'.upset = pwa.upset
  BY DEF DmaIsrWrite, WriteCs, IdleIsr, PwaGood, PwaSeen, PwaTyped, PwaFields
<1>2. /\ PwaCounting' = PwaCounting /\ PwaClearing' = PwaClearing /\ PwaHeld' = PwaHeld
      /\ PwaWritten' = PwaWritten /\ PwaFirst' = PwaFirst /\ PwaBehind' = PwaBehind
      /\ (PwaGoing' <=> PwaGoing) /\ pwa'.isr.pc = "handle"
  BY <1>1 DEF PwaWritten, PwaHeld, PwaFirst, PwaBehind, PwaCounting, PwaClearing, PwaGoing
<1>3. PwaTyped'
  BY <1>1 DEF PwaTyped, PwaIsrStates
<1>4. PwaOrder'
  BY <1>1, <1>2 DEF PwaGood, PwaOrder
<1>5. PwaStopped'
  BY <1>1, <1>2 DEF PwaGood, PwaStopped
<1>6. PwaFresh'
  BY <1>1, <1>2 DEF PwaGood, PwaFresh
<1>7. PwaFilling'
  BY <1>1, <1>2 DEF PwaGood, PwaFilling, PwaFrom, PwaEmpty, PwaFilled
<1>8. PwaPlace'
  BY <1>1, <1>2 DEF PwaGood, PwaPlace
<1>9. PwaLinks'
  BY <1>1, <1>2 DEF PwaGood, PwaLinks
<1>10. PwaInterrupt'
  BY <1>1, <1>2 DEF PwaGood, PwaInterrupt, PwaRead
<1>11. PwaSeen'
  BY <1>1, <1>2 DEF PwaGood, PwaSeen
<1> QED
  BY <1>3, <1>4, <1>5, <1>6, <1>7, <1>8, <1>9, <1>10, <1>11 DEF PwaInv, PwaGood

\* A CONBLK_AD that names a block is no underflow.
LEMMA IsrSpuriousKept ==
  ASSUME PwaTyped, PwaGood, pwa.upset = {}, DmaIsrUnderflow, pwa.at # None PROVE PwaInv'
<1>1. /\ pwa.isr.pc = "handle"
      /\ DOMAIN pwa' = PwaFields /\ pwa'.ks = pwa.ks /\ pwa'.pwm = pwa.pwm
      /\ pwa'.inRestart = pwa.inRestart /\ pwa'.base = pwa.base /\ pwa'.inUse = pwa.inUse
      /\ pwa'.processed = pwa.processed /\ pwa'.toPrime = pwa.toPrime
      /\ pwa'.restart = pwa.restart /\ pwa'.lastKnown = pwa.lastKnown /\ pwa'.link = pwa.link
      /\ pwa'.content = pwa.content /\ pwa'.at = pwa.at /\ pwa'.tail = pwa.tail
      /\ pwa'.next = pwa.next /\ pwa'.active = pwa.active /\ pwa'.int = pwa.int
      /\ pwa'.source = pwa.source /\ pwa'.played = pwa.played /\ pwa'.isr = IdleIsr
      /\ pwa'.dpc = pwa.dpc /\ pwa'.writer = pwa.writer /\ pwa'.call = pwa.call
      /\ pwa'.dpcQueued = TRUE /\ pwa'.turn = pwa.turn /\ pwa'.upset = pwa.upset
  BY DEF DmaIsrUnderflow, HandleUnderflow, PwaTyped, PwaFields
<1>2. /\ PwaCounting' = PwaCounting /\ PwaClearing' = PwaClearing /\ PwaHeld' = PwaHeld
      /\ PwaWritten' = PwaWritten /\ PwaFirst' = PwaFirst /\ PwaBehind' = PwaBehind
      /\ (PwaGoing' <=> PwaGoing) /\ pwa'.isr.pc = "idle"
  BY <1>1
  DEF PwaWritten, PwaHeld, PwaFirst, PwaBehind, PwaCounting, PwaClearing, PwaGoing, IdleIsr
<1>3. PwaTyped'
  BY <1>1, IdleIsrTyped DEF PwaTyped
<1>4. PwaOrder'
  BY <1>1, <1>2 DEF PwaGood, PwaOrder
<1>5. PwaStopped'
  BY <1>1, <1>2 DEF PwaGood, PwaStopped
<1>6. PwaFresh'
  BY <1>1, <1>2 DEF PwaGood, PwaFresh
<1>7. PwaFilling'
  BY <1>1, <1>2 DEF PwaGood, PwaFilling, PwaFrom, PwaEmpty, PwaFilled
<1>8. PwaPlace'
  BY <1>1, <1>2 DEF PwaGood, PwaPlace
<1>9. PwaLinks'
  BY <1>1, <1>2 DEF PwaGood, PwaLinks
<1>10. PwaInterrupt'
  BY <1>1, <1>2 DEF PwaGood, PwaInterrupt, PwaRead
<1>11. PwaSeen'
  BY <1>1, <1>2 DEF PwaGood, PwaSeen
<1> QED
  BY <1>3, <1>4, <1>5, <1>6, <1>7, <1>8, <1>9, <1>10, <1>11 DEF PwaInv, PwaGood

\* The ISR accounts an underflow.
LEMMA IsrRanDryKept ==
  ASSUME PwaTyped, PwaGood, pwa.upset = {}, DmaIsrUnderflow, pwa.at = None PROVE PwaInv'
<1>1. PICK x \in Int, u \in SUBSET {"twice"} :
         /\ HandleUnderflow(pwa) = [pwa EXCEPT !.inUse = 0, !.restart = TRUE,
                                     !.processed = x, !.upset = u]
         /\ u = {} => PwaGoing /\ x = pwa.played
  BY HandleUnderflowRanDry DEF DmaIsrUnderflow
<1>2. /\ pwa.isr.pc = "handle"
      /\ x \in Int /\ (u = {} => PwaGoing /\ x = pwa.played)
      /\ DOMAIN pwa' = PwaFields /\ pwa'.ks = pwa.ks /\ pwa'.pwm = pwa.pwm
      /\ pwa'.inRestart = pwa.inRestart /\ pwa'.base = pwa.base /\ pwa'.inUse = 0
      /\ pwa'.processed = x /\ pwa'.toPrime = pwa.toPrime /\ pwa'.restart = TRUE
      /\ pwa'.lastKnown = pwa.lastKnown /\ pwa'.link = pwa.link /\ pwa'.content = pwa.content
      /\ pwa'.at = pwa.at /\ pwa'.tail = pwa.tail /\ pwa'.next = pwa.next
      /\ pwa'.active = pwa.active /\ pwa'.int = pwa.int /\ pwa'.source = pwa.source
      /\ pwa'.played = pwa.played /\ pwa'.isr = IdleIsr /\ pwa'.dpc = pwa.dpc
      /\ pwa'.writer = pwa.writer /\ pwa'.call = pwa.call /\ pwa'.dpcQueued = TRUE
      /\ pwa'.turn = pwa.turn /\ pwa'.upset = u
  BY <1>1 DEF DmaIsrUnderflow, PwaTyped, PwaFields
<1>3. /\ PwaCounting' = PwaCounting /\ PwaWritten' = PwaWritten /\ pwa'.isr.pc = "idle"
      /\ ~PwaGoing'
  BY <1>2
  DEF PwaWritten, PwaHeld, PwaFirst, PwaBehind, PwaCounting, PwaClearing, PwaGoing, IdleIsr
<1>4. PwaTyped'
  <2>1. pwa'.inUse \in Int /\ pwa'.processed \in Int
    BY <1>2
  <2>2. pwa'.restart \in BOOLEAN
    BY <1>2
  <2>3. pwa'.isr \in PwaIsrStates /\ pwa'.dpc \in PwaDpcStates /\ pwa'.dpcQueued \in BOOLEAN
    BY <1>2, IdleIsrTyped DEF PwaTyped
  <2> QED
    BY <1>2, <2>1, <2>2, <2>3 DEF PwaTyped
<1>5. ASSUME pwa'.upset = {} PROVE PwaOrder'
  <2>1. pwa'.inUse + PwaCounting' <= PwaNum
    BY <1>2, <1>3, PwaNumbers, PwaAssumption
  <2> QED
    BY <1>2, <1>3, <1>5, <2>1 DEF PwaGood, PwaOrder, PwaGoing
<1>6. ASSUME pwa'.upset = {} PROVE PwaStopped'
  BY <1>2, <1>3, <1>6 DEF PwaGood, PwaStopped
<1>7. ASSUME pwa'.upset = {} PROVE PwaFresh'
  BY <1>2, <1>3 DEF PwaFresh, PwaGoing
<1>8. ASSUME pwa'.upset = {} PROVE PwaFilling'
  BY <1>2, <1>8 DEF PwaFilling, PwaGoing
<1>9. ASSUME pwa'.upset = {} PROVE PwaPlace'
  BY <1>2, <1>3 DEF PwaPlace, PwaGoing
<1>10. ASSUME pwa'.upset = {} PROVE PwaLinks'
  BY <1>2, <1>3 DEF PwaLinks, PwaGoing
<1>11. ASSUME pwa'.upset = {} PROVE PwaInterrupt'
  BY <1>2, <1>3 DEF PwaInterrupt, PwaGoing
<1>12. ASSUME pwa'.upset = {} PROVE PwaSeen'
  BY <1>2, <1>3 DEF PwaSeen, PwaGood, PwaGoing
<1> QED
  BY <1>4, <1>5, <1>6, <1>7, <1>8, <1>9, <1>10, <1>11, <1>12 DEF PwaInv, PwaGood

\* The ISR unlinks the packets played and will count them down.
LEMMA DmaIsrUnlinkKept ==
  ASSUME PwaTyped, PwaGood, pwa.upset = {}, DmaIsrUnlink PROVE PwaInv'
<1>1. PICK done, count : done = IsrCompleted(pwa) /\ count = ProcessedPackets(done, pwa.lastKnown)
  OBVIOUS
<1>2. /\ pwa.isr.pc = "handle" /\ pwa.isr.conblk # None /\ PwaGoing
      /\ pwa'.toPrime \in Int /\ (pwa'.upset = {} => ~pwa.isr.tail)
      /\ pwa'.isr = [pwa.isr EXCEPT !.pc = "count", !.count = count]
      /\ pwa'.link = [i \in Slots |->
           pwa.link[i] /\ i \notin {j \in Slots : (done + PwaNum - j) % PwaNum < count}]
      /\ DOMAIN pwa' = PwaFields /\ pwa'.ks = pwa.ks /\ pwa'.pwm = pwa.pwm
      /\ pwa'.inRestart = pwa.inRestart /\ pwa'.base = pwa.base /\ pwa'.inUse = pwa.inUse
      /\ pwa'.processed = pwa.processed /\ pwa'.restart = pwa.restart
      /\ pwa'.lastKnown = done /\ pwa'.content = pwa.content /\ pwa'.at = pwa.at
      /\ pwa'.tail = pwa.tail /\ pwa'.next = pwa.next /\ pwa'.active = pwa.active
      /\ pwa'.int = pwa.int /\ pwa'.source = pwa.source /\ pwa'.played = pwa.played
      /\ pwa'.dpc = pwa.dpc /\ pwa'.writer = pwa.writer /\ pwa'.call = pwa.call
      /\ pwa'.dpcQueued = pwa.dpcQueued /\ pwa'.turn = pwa.turn
  <2>1. PwaPreset \in Int
    BY PwaAssumption DEF PwaPreset
  <2> QED
    BY <1>1, <2>1 DEF DmaIsrUnlink, PwaGood, PwaStopped, PwaTyped, PwaFields
<1>3. done \in Slots /\ count \in Nat
  <2>1. pwa.isr.conblk \in Slots /\ pwa.lastKnown \in Slots \cup {None}
    BY <1>2 DEF PwaTyped, PwaIsrStates
  <2>2. done \in Slots
    BY <1>1, <2>1, PwaAssumption DEF IsrCompleted, Previous, Slots
  <2> QED
    BY <1>1, <2>1, <2>2, PwaAssumption DEF ProcessedPackets, Slots, None
<1>4. PwaTyped'
  <2>1. pwa'.link \in [Slots -> BOOLEAN]
    BY <1>2
  <2>2. pwa'.isr \in PwaIsrStates
    BY <1>2, <1>3 DEF PwaTyped, PwaIsrStates
  <2> QED
    BY <1>2, <1>3, <2>1, <2>2 DEF PwaTyped
<1>5. ASSUME pwa'.upset = {} PROVE PwaGood'
  <2>1. PICK c \in 1..PwaBehind : PwaRead(c) /\ pwa.isr.conblk = PwaSlot(PwaFirst + c)
    BY <1>2 DEF PwaGood, PwaInterrupt, PwaRead
  <2>2. /\ c \in 1..PwaNum /\ c <= PwaBehind /\ PwaFirst \in Nat /\ PwaBehind <= PwaHeld
        /\ PwaHeld <= PwaNum
        /\ PwaBehind \in 0..PwaNum - 1 /\ PwaHeld \in Int /\ PwaWritten = PwaFirst + PwaHeld
    BY <1>2, <2>1, PwaWindow, PwaNumbers, PwaAssumption
  <2>3. done = PwaSlot(PwaFirst + c - 1) /\ count = c
    <3>1. done = Previous(PwaSlot((PwaFirst + c - 1) + 1))
      BY <1>1, <1>2, <1>5, <2>1, <2>2 DEF IsrCompleted
    <3>2. done = PwaSlot(PwaFirst + c - 1)
      BY <2>2, <3>1, PwaSlotNext
    <3>3. pwa.lastKnown = PwaLast(PwaFirst)
      BY <1>2 DEF PwaGood, PwaPlace
    <3> QED
      BY <1>1, <2>2, <3>2, <3>3, PwaProcessed
  <2>4. pwa'.isr.pc = "count" /\ pwa'.isr.count = c
    BY <1>2, <2>3
  <2>5. /\ PwaCounting' = PwaCounting /\ PwaWritten' = PwaWritten /\ (PwaGoing' <=> PwaGoing)
        /\ PwaHeld' = PwaHeld - c /\ PwaFirst' = PwaFirst + c /\ PwaBehind' = PwaBehind - c
    BY <1>2, <2>2, <2>4
    DEF PwaTyped, PwaWritten, PwaHeld, PwaFirst, PwaBehind, PwaCounting, PwaClearing, PwaGoing
  <2>6. PwaOrder'
    BY <1>2, <2>5 DEF PwaGood, PwaOrder
  <2>7. PwaStopped'
    BY <1>2, <2>5 DEF PwaStopped
  <2>8. PwaFresh' /\ PwaFilling'
    BY <1>2, <2>5 DEF PwaGoing, PwaFresh, PwaFilling
  <2>9. PwaPlace'
    <3>1. PwaFirst' + PwaBehind' = PwaFirst + PwaBehind /\ PwaFirst' # 0
      BY <2>2, <2>5
    <3>2. PwaLast(PwaFirst + c) = done
      BY <2>2, <2>3 DEF PwaLast
    <3>3. PwaFirst' \in Nat /\ PwaBehind' \in 0..PwaNum - 1
      BY <2>2, <2>5, PwaAssumption
    <3>4. ASSUME pwa.at # None
          PROVE  /\ pwa.at = PwaSlot(PwaFirst' + PwaBehind') /\ PwaBehind' < PwaHeld'
                 /\ pwa.tail => PwaBehind' < PwaNum - 1 /\ (pwa.next => PwaBehind' + 1 < PwaHeld')
      <4>1. /\ pwa.at = PwaSlot(PwaFirst + PwaBehind) /\ PwaBehind < PwaHeld
            /\ pwa.tail => PwaBehind < PwaNum - 1 /\ (pwa.next => PwaBehind + 1 < PwaHeld)
        BY <1>2, <3>4 DEF PwaGood, PwaPlace
      <4>2. PwaBehind' < PwaHeld' /\ (PwaBehind < PwaNum - 1 => PwaBehind' < PwaNum - 1)
            /\ (PwaBehind + 1 < PwaHeld => PwaBehind' + 1 < PwaHeld')
        BY <2>2, <2>5, <4>1, PwaAssumption
      <4> QED
        BY <3>1, <4>1, <4>2
    <3>5. ASSUME pwa.at = None
          PROVE  /\ pwa.source = PwaSlot(PwaFirst' + PwaBehind' - 1) /\ PwaBehind' \in 1..PwaHeld'
      <4>1. c < PwaBehind
        BY <2>1, <2>2, <3>5 DEF PwaRead
      <4> QED
        BY <1>2, <2>2, <2>5, <3>1, <3>5, <4>1 DEF PwaGood, PwaPlace
    <3>6. pwa'.lastKnown = PwaLast(PwaFirst')
      BY <1>2, <2>5, <3>2
    <3> QED
      BY <1>2, <3>3, <3>4, <3>5, <3>6 DEF PwaPlace
  <2>10. PwaLinks'
    <3>1. ASSUME NEW i \in Slots
          PROVE  pwa'.link[i] <=> \E n \in PwaFirst + c..PwaWritten - 1 : i = PwaSlot(n)
      <4>1. pwa'.link[i] <=> pwa.link[i] /\ ~\E n \in PwaFirst..PwaFirst + c - 1 : i = PwaSlot(n)
        <5>1. pwa'.link[i] <=> pwa.link[i] /\ ~((done + PwaNum - i) % PwaNum < count)
          BY <1>2
        <5>2. (done + PwaNum - i) % PwaNum < count
                <=> \E n \in PwaFirst..PwaFirst + c - 1 : i = PwaSlot(n)
          BY <2>2, <2>3, PwaUnlinked
        <5> QED
          BY <5>1, <5>2
      <4>2. pwa.link[i] <=> \E n \in PwaFirst..PwaWritten - 1 : i = PwaSlot(n)
        BY <1>2 DEF PwaGood, PwaLinks
      <4>3. \A n \in PwaFirst..PwaWritten - 1 : n < PwaFirst + c => n \in PwaFirst..PwaFirst + c - 1
        BY <2>2
      <4>4. ASSUME NEW n \in PwaFirst + c..PwaWritten - 1, NEW m \in PwaFirst..PwaFirst + c - 1
            PROVE  PwaSlot(m) # PwaSlot(n)
        <5>1. m \in Nat /\ n \in Nat /\ m < n /\ n < m + PwaNum
          BY <2>2, PwaAssumption
        <5> QED
          BY <5>1, PwaSlots
      <4>5. PwaFirst + c..PwaWritten - 1 \subseteq PwaFirst..PwaWritten - 1
        BY <2>2
      <4>6. \A n \in PwaFirst..PwaWritten - 1 :
              ~(n < PwaFirst + c) => n \in PwaFirst + c..PwaWritten - 1
        BY <2>2
      <4> QED
        BY <4>1, <4>2, <4>3, <4>4, <4>5, <4>6
    <3>2. \A n \in PwaFirst + c..PwaWritten - 1 : n \in PwaFirst..PwaWritten - 1
      BY <2>2
    <3> QED
      BY <1>2, <2>5, <3>1, <3>2 DEF PwaGood, PwaLinks
  <2>11. PwaInterrupt'
    <3>1. pwa.int => c < PwaBehind
      BY <1>2, <2>1 DEF PwaRead
    <3> QED
      BY <1>2, <2>2, <2>4, <2>5, <3>1 DEF PwaInterrupt
  <2>12. PwaSeen'
    BY <2>4 DEF PwaSeen
  <2> QED
    BY <2>6, <2>7, <2>8, <2>9, <2>10, <2>11, <2>12 DEF PwaGood
<1> QED
  BY <1>4, <1>5 DEF PwaInv

\* The packets played are counted down.
LEMMA DmaIsrCountKept ==
  ASSUME PwaTyped, PwaGood, pwa.upset = {}, DmaIsrCount PROVE PwaInv'
<1>1. /\ pwa.isr.pc = "count" /\ PwaGoing /\ pwa.isr.count \in Nat
      /\ DOMAIN pwa' = PwaFields /\ pwa'.ks = pwa.ks /\ pwa'.pwm = pwa.pwm
      /\ pwa'.inRestart = pwa.inRestart /\ pwa'.base = pwa.base
      /\ pwa'.inUse = pwa.inUse - pwa.isr.count /\ pwa'.processed = pwa.processed + pwa.isr.count
      /\ pwa'.toPrime = pwa.toPrime /\ pwa'.restart = pwa.restart
      /\ pwa'.lastKnown = pwa.lastKnown /\ pwa'.link = pwa.link /\ pwa'.content = pwa.content
      /\ pwa'.at = pwa.at /\ pwa'.tail = pwa.tail /\ pwa'.next = pwa.next
      /\ pwa'.active = pwa.active /\ pwa'.int = pwa.int /\ pwa'.source = pwa.source
      /\ pwa'.played = pwa.played /\ pwa'.isr = IdleIsr /\ pwa'.dpc = pwa.dpc
      /\ pwa'.writer = pwa.writer /\ pwa'.call = pwa.call /\ pwa'.dpcQueued = TRUE
      /\ pwa'.turn = pwa.turn /\ pwa'.upset = pwa.upset
  BY DEF DmaIsrCount, PwaGood, PwaStopped, PwaTyped, PwaIsrStates, PwaFields
<1>2. /\ PwaCounting' = PwaCounting /\ PwaClearing' = 0 /\ PwaClearing = pwa.isr.count
      /\ PwaHeld' = PwaHeld /\ PwaWritten' = PwaWritten /\ PwaFirst' = PwaFirst
      /\ PwaBehind' = PwaBehind /\ (PwaGoing' <=> PwaGoing) /\ pwa'.isr.pc = "idle"
  BY <1>1
  DEF PwaTyped, PwaWritten, PwaHeld, PwaFirst, PwaBehind, PwaCounting, PwaClearing, PwaGoing,
      IdleIsr
<1>3. PwaTyped'
  <2>1. pwa'.inUse \in Int /\ pwa'.processed \in Int
    BY <1>1 DEF PwaTyped
  <2> QED
    BY <1>1, <2>1, IdleIsrTyped DEF PwaTyped
<1>4. PwaOrder'
  <2>1. pwa'.inUse + PwaCounting' <= PwaNum
    BY <1>1, <1>2, PwaAssumption DEF PwaGood, PwaOrder, PwaTyped, PwaCounting
  <2> QED
    BY <1>1, <1>2, <2>1 DEF PwaGood, PwaOrder, PwaGoing
<1>5. PwaStopped'
  BY <1>1, <1>2 DEF PwaGood, PwaStopped
<1>6. PwaFresh'
  BY <1>1, <1>2 DEF PwaGood, PwaFresh
<1>7. PwaFilling'
  BY <1>1, <1>2 DEF PwaGoing, PwaFilling
<1>8. PwaPlace'
  BY <1>1, <1>2 DEF PwaGood, PwaPlace
<1>9. PwaLinks'
  BY <1>1, <1>2 DEF PwaGood, PwaLinks
<1>10. PwaInterrupt'
  BY <1>1, <1>2 DEF PwaGood, PwaInterrupt, PwaRead
<1>11. PwaSeen'
  BY <1>1, <1>2 DEF PwaGood, PwaSeen
<1> QED
  BY <1>3, <1>4, <1>5, <1>6, <1>7, <1>8, <1>9, <1>10, <1>11 DEF PwaInv, PwaGood

-----------------------------------------------------------------------------
(* The audio DPC *)

\* The DPC reads CS.
LEMMA DmaDpcCsKept ==
  ASSUME PwaTyped, PwaGood, pwa.upset = {}, DmaDpcCs PROVE PwaInv'
<1>1. /\ pwa.dpcQueued /\ pwa.dpc.pc = "idle" /\ pwa.isr.pc = "idle"
      /\ DOMAIN pwa' = PwaFields /\ pwa'.ks = pwa.ks /\ pwa'.pwm = pwa.pwm
      /\ pwa'.inRestart = pwa.inRestart /\ pwa'.base = pwa.base /\ pwa'.inUse = pwa.inUse
      /\ pwa'.processed = pwa.processed /\ pwa'.toPrime = pwa.toPrime
      /\ pwa'.restart = pwa.restart /\ pwa'.lastKnown = pwa.lastKnown /\ pwa'.link = pwa.link
      /\ pwa'.content = pwa.content /\ pwa'.at = pwa.at /\ pwa'.tail = pwa.tail
      /\ pwa'.next = pwa.next /\ pwa'.active = pwa.active /\ pwa'.int = pwa.int
      /\ pwa'.source = pwa.source /\ pwa'.played = pwa.played /\ pwa'.isr = pwa.isr
      /\ pwa'.dpc = [pc |-> "check", active |-> pwa.active] /\ pwa'.writer = pwa.writer
      /\ pwa'.call = pwa.call /\ pwa'.dpcQueued = FALSE /\ pwa'.turn = pwa.turn
      /\ pwa'.upset = pwa.upset
  BY DEF DmaDpcCs, PwaTyped, PwaFields
<1>2. /\ PwaCounting' = PwaCounting /\ PwaClearing' = PwaClearing /\ PwaHeld' = PwaHeld
      /\ PwaWritten' = PwaWritten /\ PwaFirst' = PwaFirst /\ PwaBehind' = PwaBehind
      /\ (PwaGoing' <=> PwaGoing) /\ pwa'.dpc.pc = "check" /\ (pwa'.dpc.active <=> pwa.active)
  BY <1>1 DEF PwaWritten, PwaHeld, PwaFirst, PwaBehind, PwaCounting, PwaClearing, PwaGoing
<1>3. PwaTyped'
  <2>1. pwa.active \in BOOLEAN
    BY DEF PwaTyped
  <2>2. pwa'.dpc \in PwaDpcStates
    <3>1. [pc |-> "check", active |-> pwa.active] \in PwaDpcStates
      BY <2>1, Zenon DEF PwaDpcStates
    <3> QED
      BY <1>1, <3>1
  <2> QED
    BY <1>1, <2>2 DEF PwaTyped
<1>4. PwaOrder'
  BY <1>1, <1>2 DEF PwaGood, PwaOrder
<1>5. PwaStopped'
  BY <1>1, <1>2 DEF PwaGood, PwaStopped
<1>6. PwaFresh'
  BY <1>1, <1>2 DEF PwaGood, PwaFresh
<1>7. PwaFilling'
  BY <1>1, <1>2 DEF PwaGood, PwaFilling, PwaFrom, PwaEmpty, PwaFilled
<1>8. PwaPlace'
  BY <1>1, <1>2 DEF PwaGood, PwaPlace
<1>9. PwaLinks'
  BY <1>1, <1>2 DEF PwaGood, PwaLinks
<1>10. PwaInterrupt'
  BY <1>1, <1>2 DEF PwaGood, PwaInterrupt, PwaRead
<1>11. PwaSeen'
  <2>1. pwa.at = None => ~pwa.active
    BY DEF PwaGood, PwaOrder
  <2> QED
    BY <1>1, <1>2, <2>1 DEF PwaGood, PwaSeen
<1> QED
  BY <1>3, <1>4, <1>5, <1>6, <1>7, <1>8, <1>9, <1>10, <1>11 DEF PwaInv, PwaGood

\* It decides whether the stream ran dry.
LEMMA DmaDpcCheckKept ==
  ASSUME PwaTyped, PwaGood, pwa.upset = {}, DmaDpcCheck PROVE PwaInv'
<1>1. /\ pwa.dpc.pc = "check" /\ pwa.isr.pc = "idle"
      /\ DOMAIN pwa' = PwaFields /\ pwa'.ks = pwa.ks /\ pwa'.pwm = pwa.pwm
      /\ pwa'.inRestart = pwa.inRestart /\ pwa'.base = pwa.base /\ pwa'.inUse = pwa.inUse
      /\ pwa'.processed = pwa.processed /\ pwa'.toPrime = pwa.toPrime
      /\ pwa'.restart = pwa.restart /\ pwa'.lastKnown = pwa.lastKnown /\ pwa'.link = pwa.link
      /\ pwa'.content = pwa.content /\ pwa'.at = pwa.at /\ pwa'.tail = pwa.tail
      /\ pwa'.next = pwa.next /\ pwa'.active = pwa.active /\ pwa'.int = pwa.int
      /\ pwa'.source = pwa.source /\ pwa'.played = pwa.played /\ pwa'.isr = pwa.isr
      /\ pwa'.dpc = [pwa.dpc EXCEPT !.pc = IF ~pwa.dpc.active /\ ~pwa.restart
                                           THEN "underflow" ELSE "notify"]
      /\ pwa'.writer = pwa.writer /\ pwa'.call = pwa.call /\ pwa'.dpcQueued = pwa.dpcQueued
      /\ pwa'.turn = pwa.turn /\ pwa'.upset = pwa.upset
  BY DEF DmaDpcCheck, PwaTyped, PwaFields
<1>2. /\ PwaCounting' = PwaCounting /\ PwaClearing' = PwaClearing /\ PwaHeld' = PwaHeld
      /\ PwaWritten' = PwaWritten /\ PwaFirst' = PwaFirst /\ PwaBehind' = PwaBehind
      /\ (PwaGoing' <=> PwaGoing)
      /\ pwa'.dpc.pc = (IF ~pwa.dpc.active /\ ~pwa.restart THEN "underflow" ELSE "notify")
  BY <1>1 DEF PwaWritten, PwaHeld, PwaFirst, PwaBehind, PwaCounting, PwaClearing, PwaGoing
<1>3. PwaTyped'
  BY <1>1 DEF PwaTyped, PwaDpcStates
<1>4. PwaOrder'
  BY <1>1, <1>2 DEF PwaGood, PwaOrder
<1>5. PwaStopped'
  BY <1>1, <1>2 DEF PwaGood, PwaStopped
<1>6. PwaFresh'
  BY <1>1, <1>2 DEF PwaGood, PwaFresh
<1>7. PwaFilling'
  BY <1>1, <1>2 DEF PwaGood, PwaFilling, PwaFrom, PwaEmpty, PwaFilled
<1>8. PwaPlace'
  BY <1>1, <1>2 DEF PwaGood, PwaPlace
<1>9. PwaLinks'
  BY <1>1, <1>2 DEF PwaGood, PwaLinks
<1>10. PwaInterrupt'
  BY <1>1, <1>2 DEF PwaGood, PwaInterrupt, PwaRead
<1>11. PwaSeen'
  <2>1. PwaGoing /\ pwa.at = None => pwa.int \/ pwa.dpcQueued \/ ~pwa.dpc.active
    BY <1>1 DEF PwaGood, PwaSeen
  <2>2. PwaGoing => ~pwa.restart
    BY DEF PwaGoing
  <2> QED
    BY <1>1, <1>2, <2>1, <2>2 DEF PwaGood, PwaSeen
<1> QED
  BY <1>3, <1>4, <1>5, <1>6, <1>7, <1>8, <1>9, <1>10, <1>11 DEF PwaInv, PwaGood

\* Nor is it one for the DPC.
LEMMA DpcSpuriousKept ==
  ASSUME PwaTyped, PwaGood, pwa.upset = {}, DmaDpcUnderflow, pwa.at # None PROVE PwaInv'
<1>1. /\ pwa.dpc.pc = "underflow" /\ pwa.isr.pc = "idle"
      /\ DOMAIN pwa' = PwaFields /\ pwa'.ks = pwa.ks /\ pwa'.pwm = pwa.pwm
      /\ pwa'.inRestart = pwa.inRestart /\ pwa'.base = pwa.base /\ pwa'.inUse = pwa.inUse
      /\ pwa'.processed = pwa.processed /\ pwa'.toPrime = pwa.toPrime
      /\ pwa'.restart = pwa.restart /\ pwa'.lastKnown = pwa.lastKnown /\ pwa'.link = pwa.link
      /\ pwa'.content = pwa.content /\ pwa'.at = pwa.at /\ pwa'.tail = pwa.tail
      /\ pwa'.next = pwa.next /\ pwa'.active = pwa.active /\ pwa'.int = pwa.int
      /\ pwa'.source = pwa.source /\ pwa'.played = pwa.played /\ pwa'.isr = pwa.isr
      /\ pwa'.dpc = [pwa.dpc EXCEPT !.pc = "notify"] /\ pwa'.writer = pwa.writer
      /\ pwa'.call = pwa.call /\ pwa'.dpcQueued = pwa.dpcQueued /\ pwa'.turn = pwa.turn
      /\ pwa'.upset = pwa.upset
  BY DEF DmaDpcUnderflow, HandleUnderflow, PwaTyped, PwaFields
<1>2. /\ PwaCounting' = PwaCounting /\ PwaClearing' = PwaClearing /\ PwaHeld' = PwaHeld
      /\ PwaWritten' = PwaWritten /\ PwaFirst' = PwaFirst /\ PwaBehind' = PwaBehind
      /\ (PwaGoing' <=> PwaGoing)
  BY <1>1 DEF PwaWritten, PwaHeld, PwaFirst, PwaBehind, PwaCounting, PwaClearing, PwaGoing
<1>3. PwaTyped'
  BY <1>1 DEF PwaTyped, PwaDpcStates
<1>4. PwaOrder'
  BY <1>1, <1>2 DEF PwaGood, PwaOrder
<1>5. PwaStopped'
  BY <1>1, <1>2 DEF PwaGood, PwaStopped
<1>6. PwaFresh'
  BY <1>1, <1>2 DEF PwaGood, PwaFresh
<1>7. PwaFilling'
  BY <1>1, <1>2 DEF PwaGood, PwaFilling, PwaFrom, PwaEmpty, PwaFilled
<1>8. PwaPlace'
  BY <1>1, <1>2 DEF PwaGood, PwaPlace
<1>9. PwaLinks'
  BY <1>1, <1>2 DEF PwaGood, PwaLinks
<1>10. PwaInterrupt'
  BY <1>1, <1>2 DEF PwaGood, PwaInterrupt, PwaRead
<1>11. PwaSeen'
  BY <1>1, <1>2 DEF PwaGood, PwaSeen
<1> QED
  BY <1>3, <1>4, <1>5, <1>6, <1>7, <1>8, <1>9, <1>10, <1>11 DEF PwaInv, PwaGood

\* The DPC accounts an underflow the ISR missed.
LEMMA DpcRanDryKept ==
  ASSUME PwaTyped, PwaGood, pwa.upset = {}, DmaDpcUnderflow, pwa.at = None PROVE PwaInv'
<1>1. PICK x \in Int, u \in SUBSET {"twice"} :
         /\ HandleUnderflow(pwa) = [pwa EXCEPT !.inUse = 0, !.restart = TRUE,
                                     !.processed = x, !.upset = u]
         /\ u = {} => PwaGoing /\ x = pwa.played
  BY HandleUnderflowRanDry DEF DmaDpcUnderflow
<1>2. /\ pwa.dpc.pc = "underflow" /\ pwa.isr.pc = "idle"
      /\ x \in Int /\ (u = {} => PwaGoing /\ x = pwa.played)
      /\ DOMAIN pwa' = PwaFields /\ pwa'.ks = pwa.ks /\ pwa'.pwm = pwa.pwm
      /\ pwa'.inRestart = pwa.inRestart /\ pwa'.base = pwa.base /\ pwa'.inUse = 0
      /\ pwa'.processed = x /\ pwa'.toPrime = pwa.toPrime /\ pwa'.restart = TRUE
      /\ pwa'.lastKnown = pwa.lastKnown /\ pwa'.link = pwa.link /\ pwa'.content = pwa.content
      /\ pwa'.at = pwa.at /\ pwa'.tail = pwa.tail /\ pwa'.next = pwa.next
      /\ pwa'.active = pwa.active /\ pwa'.int = pwa.int /\ pwa'.source = pwa.source
      /\ pwa'.played = pwa.played /\ pwa'.isr = pwa.isr
      /\ pwa'.dpc = [pwa.dpc EXCEPT !.pc = "notify"] /\ pwa'.writer = pwa.writer
      /\ pwa'.call = pwa.call /\ pwa'.dpcQueued = pwa.dpcQueued /\ pwa'.turn = pwa.turn
      /\ pwa'.upset = u
  BY <1>1 DEF DmaDpcUnderflow, PwaTyped, PwaFields
<1>3. /\ PwaCounting' = PwaCounting /\ PwaWritten' = PwaWritten /\ ~PwaGoing'
  BY <1>2 DEF PwaWritten, PwaHeld, PwaFirst, PwaBehind, PwaCounting, PwaClearing, PwaGoing
<1>4. PwaTyped'
  <2>1. pwa'.inUse \in Int /\ pwa'.processed \in Int
    BY <1>2
  <2>2. pwa'.restart \in BOOLEAN
    BY <1>2
  <2>3. pwa'.isr \in PwaIsrStates /\ pwa'.dpc \in PwaDpcStates /\ pwa'.dpcQueued \in BOOLEAN
    BY <1>2, IdleIsrTyped DEF PwaTyped, PwaDpcStates
  <2> QED
    BY <1>2, <2>1, <2>2, <2>3 DEF PwaTyped
<1>5. ASSUME pwa'.upset = {} PROVE PwaOrder'
  <2>1. pwa'.inUse + PwaCounting' <= PwaNum
    BY <1>2, <1>3, PwaNumbers, PwaAssumption
  <2> QED
    BY <1>2, <1>3, <1>5, <2>1 DEF PwaGood, PwaOrder, PwaGoing
<1>6. ASSUME pwa'.upset = {} PROVE PwaStopped'
  BY <1>2, <1>3, <1>6 DEF PwaGood, PwaStopped
<1>7. ASSUME pwa'.upset = {} PROVE PwaFresh'
  BY <1>2, <1>3 DEF PwaFresh, PwaGoing
<1>8. ASSUME pwa'.upset = {} PROVE PwaFilling'
  BY <1>2, <1>8 DEF PwaFilling, PwaGoing
<1>9. ASSUME pwa'.upset = {} PROVE PwaPlace'
  BY <1>2, <1>3 DEF PwaPlace, PwaGoing
<1>10. ASSUME pwa'.upset = {} PROVE PwaLinks'
  BY <1>2, <1>3 DEF PwaLinks, PwaGoing
<1>11. ASSUME pwa'.upset = {} PROVE PwaInterrupt'
  BY <1>2, <1>3 DEF PwaInterrupt, PwaGoing
<1>12. ASSUME pwa'.upset = {} PROVE PwaSeen'
  BY <1>2, <1>3 DEF PwaSeen, PwaGood, PwaGoing
<1> QED
  BY <1>4, <1>5, <1>6, <1>7, <1>8, <1>9, <1>10, <1>11, <1>12 DEF PwaInv, PwaGood

\* It sets the client's event.
LEMMA DmaDpcNotifyKept ==
  ASSUME PwaTyped, PwaGood, pwa.upset = {}, DmaDpcNotify PROVE PwaInv'
<1>1. /\ pwa.dpc.pc = "notify" /\ pwa.isr.pc = "idle"
      /\ DOMAIN pwa' = PwaFields /\ pwa'.ks = pwa.ks /\ pwa'.pwm = pwa.pwm
      /\ pwa'.inRestart = pwa.inRestart /\ pwa'.base = pwa.base /\ pwa'.inUse = pwa.inUse
      /\ pwa'.processed = pwa.processed /\ pwa'.toPrime = pwa.toPrime
      /\ pwa'.restart = pwa.restart /\ pwa'.lastKnown = pwa.lastKnown /\ pwa'.link = pwa.link
      /\ pwa'.content = pwa.content /\ pwa'.at = pwa.at /\ pwa'.tail = pwa.tail
      /\ pwa'.next = pwa.next /\ pwa'.active = pwa.active /\ pwa'.int = pwa.int
      /\ pwa'.source = pwa.source /\ pwa'.played = pwa.played /\ pwa'.isr = pwa.isr
      /\ pwa'.dpc = [pc |-> "idle", active |-> FALSE] /\ pwa'.writer = pwa.writer
      /\ pwa'.call = pwa.call /\ pwa'.dpcQueued = pwa.dpcQueued /\ pwa'.turn = pwa.turn
      /\ pwa'.upset = pwa.upset
  BY DEF DmaDpcNotify, PwaTyped, PwaFields
<1>2. /\ PwaCounting' = PwaCounting /\ PwaClearing' = PwaClearing /\ PwaHeld' = PwaHeld
      /\ PwaWritten' = PwaWritten /\ PwaFirst' = PwaFirst /\ PwaBehind' = PwaBehind
      /\ (PwaGoing' <=> PwaGoing)
  BY <1>1 DEF PwaWritten, PwaHeld, PwaFirst, PwaBehind, PwaCounting, PwaClearing, PwaGoing
<1>3. PwaTyped'
  BY <1>1 DEF PwaTyped, PwaDpcStates
<1>4. PwaOrder'
  BY <1>1, <1>2 DEF PwaGood, PwaOrder
<1>5. PwaStopped'
  BY <1>1, <1>2 DEF PwaGood, PwaStopped
<1>6. PwaFresh'
  BY <1>1, <1>2 DEF PwaGood, PwaFresh
<1>7. PwaFilling'
  BY <1>1, <1>2 DEF PwaGood, PwaFilling, PwaFrom, PwaEmpty, PwaFilled
<1>8. PwaPlace'
  BY <1>1, <1>2 DEF PwaGood, PwaPlace
<1>9. PwaLinks'
  BY <1>1, <1>2 DEF PwaGood, PwaLinks
<1>10. PwaInterrupt'
  BY <1>1, <1>2 DEF PwaGood, PwaInterrupt, PwaRead
<1>11. PwaSeen'
  BY <1>1, <1>2 DEF PwaGood, PwaSeen
<1> QED
  BY <1>3, <1>4, <1>5, <1>6, <1>7, <1>8, <1>9, <1>10, <1>11 DEF PwaInv, PwaGood

-----------------------------------------------------------------------------
(* SetWritePacket and SetState *)

\* A restart empties the buffer and drops the packet.
LEMMA WriteRestartKept ==
  ASSUME PwaTyped, PwaGood, pwa.upset = {}, WriteRestart PROVE PwaInv'
<1>1. /\ pwa.ks = "run" /\ pwa.writer.pc = "idle" /\ pwa.call = "none" /\ pwa.restart
      /\ DOMAIN pwa' = PwaFields /\ pwa'.ks = pwa.ks /\ pwa'.pwm = "stop" /\ pwa'.inRestart = TRUE
      /\ pwa'.base = pwa.turn /\ pwa'.inUse = 0 /\ pwa'.processed = pwa.processed
      /\ pwa'.toPrime = pwa.toPrime /\ pwa'.restart = pwa.restart
      /\ pwa'.lastKnown = pwa.lastKnown /\ pwa'.link = [i \in Slots |-> FALSE]
      /\ pwa'.content = pwa.content /\ pwa'.at = pwa.at /\ pwa'.tail = pwa.tail
      /\ pwa'.next = pwa.next /\ pwa'.active = pwa.active /\ pwa'.int = pwa.int
      /\ pwa'.source = pwa.source /\ pwa'.played = pwa.played /\ pwa'.isr = pwa.isr
      /\ pwa'.dpc = pwa.dpc /\ pwa'.writer = pwa.writer /\ pwa'.call = pwa.call
      /\ pwa'.dpcQueued = pwa.dpcQueued /\ pwa'.turn = pwa.turn + 1 /\ pwa'.upset = pwa.upset
  BY DEF WriteRestart, PwaTyped, PwaFields
<1>2. /\ PwaCounting' = 0 /\ PwaCounting = 0 /\ PwaClearing' = PwaClearing /\ PwaWritten' = 1
      /\ PwaBehind' = PwaBehind /\ ~PwaGoing /\ ~PwaGoing'
  BY <1>1
  DEF PwaTyped, PwaWritten, PwaHeld, PwaFirst, PwaBehind, PwaCounting, PwaClearing, PwaGoing
<1>3. PwaTyped'
  <2>1. pwa'.link \in [Slots -> BOOLEAN]
    BY <1>1
  <2>2. pwa'.inRestart \in BOOLEAN
    BY <1>1
  <2>3. pwa'.turn \in Nat /\ pwa'.base \in Nat
    BY <1>1 DEF PwaTyped
  <2> QED
    BY <1>1, <2>1, <2>2, <2>3 DEF PwaTyped
<1>4. PwaOrder'
  <2>1. pwa'.inUse + PwaCounting' <= PwaNum
    BY <1>1, <1>2, PwaAssumption
  <2> QED
    BY <1>1, <1>2, <2>1 DEF PwaGood, PwaOrder
<1>5. PwaStopped'
  BY <1>1, <1>2 DEF PwaGood, PwaStopped
<1>6. PwaFresh'
  BY <1>1 DEF PwaFresh
<1>7. PwaFilling'
  <2>1. PwaEmpty'
    BY <1>1, <1>2 DEF PwaEmpty, PwaFrom
  <2> QED
    BY <1>1, <2>1 DEF PwaFilling
<1>8. PwaPlace'
  BY <1>1, <1>2 DEF PwaPlace, PwaGoing
<1>9. PwaLinks'
  BY <1>1, <1>2 DEF PwaLinks, PwaGoing
<1>10. PwaInterrupt'
  BY <1>1, <1>2 DEF PwaInterrupt, PwaGoing
<1>11. PwaSeen'
  BY <1>1, <1>2 DEF PwaGood, PwaSeen
<1> QED
  BY <1>3, <1>4, <1>5, <1>6, <1>7, <1>8, <1>9, <1>10, <1>11 DEF PwaInv, PwaGood

\* A packet that has no room only clears the event.
LEMMA WriteOverrunKept ==
  ASSUME PwaTyped, PwaGood, pwa.upset = {}, WriteOverrun PROVE PwaInv'
<1>1. /\ DOMAIN pwa' = PwaFields /\ pwa'.ks = pwa.ks /\ pwa'.pwm = pwa.pwm
      /\ pwa'.inRestart = pwa.inRestart /\ pwa'.base = pwa.base /\ pwa'.inUse = pwa.inUse
      /\ pwa'.processed = pwa.processed /\ pwa'.toPrime = pwa.toPrime
      /\ pwa'.restart = pwa.restart /\ pwa'.lastKnown = pwa.lastKnown /\ pwa'.link = pwa.link
      /\ pwa'.content = pwa.content /\ pwa'.at = pwa.at /\ pwa'.tail = pwa.tail
      /\ pwa'.next = pwa.next /\ pwa'.active = pwa.active /\ pwa'.int = pwa.int
      /\ pwa'.source = pwa.source /\ pwa'.played = pwa.played /\ pwa'.isr = pwa.isr
      /\ pwa'.dpc = pwa.dpc /\ pwa'.writer = pwa.writer /\ pwa'.call = pwa.call
      /\ pwa'.dpcQueued = pwa.dpcQueued /\ pwa'.turn = pwa.turn /\ pwa'.upset = pwa.upset
  BY DEF WriteOverrun, PwaTyped, PwaFields
<1>2. /\ PwaCounting' = PwaCounting /\ PwaClearing' = PwaClearing /\ PwaHeld' = PwaHeld
      /\ PwaWritten' = PwaWritten /\ PwaFirst' = PwaFirst /\ PwaBehind' = PwaBehind
      /\ (PwaGoing' <=> PwaGoing)
  BY <1>1 DEF PwaWritten, PwaHeld, PwaFirst, PwaBehind, PwaCounting, PwaClearing, PwaGoing
<1>3. PwaTyped'
  BY <1>1 DEF PwaTyped
<1>4. PwaOrder'
  BY <1>1, <1>2 DEF PwaGood, PwaOrder
<1>5. PwaStopped'
  BY <1>1, <1>2 DEF PwaGood, PwaStopped
<1>6. PwaFresh'
  BY <1>1, <1>2 DEF PwaGood, PwaFresh
<1>7. PwaFilling'
  BY <1>1, <1>2 DEF PwaGood, PwaFilling, PwaFrom, PwaEmpty, PwaFilled
<1>8. PwaPlace'
  BY <1>1, <1>2 DEF PwaGood, PwaPlace
<1>9. PwaLinks'
  BY <1>1, <1>2 DEF PwaGood, PwaLinks
<1>10. PwaInterrupt'
  BY <1>1, <1>2 DEF PwaGood, PwaInterrupt, PwaRead
<1>11. PwaSeen'
  BY <1>1, <1>2 DEF PwaGood, PwaSeen
<1> QED
  BY <1>3, <1>4, <1>5, <1>6, <1>7, <1>8, <1>9, <1>10, <1>11 DEF PwaInv, PwaGood

\* SetWritePacket before the start: silence up to the packet, then the packet.
LEMMA WriteFirstKept ==
  ASSUME PwaTyped, PwaGood, pwa.upset = {}, WriteCopy, pwa.pwm = "stop" PROVE PwaInv'
<1>1. /\ pwa.ks = "run" /\ pwa.writer.pc = "idle" /\ pwa.call = "none" /\ ~PwaGoing
  BY DEF WriteCopy, PwaGoing
<1>2. PwaEmpty /\ PwaFrom \in {0, 1} /\ (PwaFrom = 1 <=> pwa.inRestart)
  BY <1>1 DEF PwaGood, PwaFilling, PwaFrom
<1>3. PICK primed : primed = {i \in Slots : i < PwaWritten /\ i < PwaNum - 1}
  OBVIOUS
<1>4. /\ DOMAIN pwa' = PwaFields /\ pwa'.ks = pwa.ks /\ pwa'.pwm = pwa.pwm
      /\ pwa'.inRestart = pwa.inRestart /\ pwa'.base = pwa.base
      /\ pwa'.inUse = pwa.inUse + Cardinality(primed) /\ pwa'.processed = pwa.processed
      /\ pwa'.toPrime = PwaNum \div 2 /\ pwa'.restart = pwa.restart
      /\ pwa'.lastKnown = pwa.lastKnown /\ pwa'.at = pwa.at /\ pwa'.tail = pwa.tail
      /\ pwa'.link = [i \in Slots |-> i = PwaSlot(PwaWritten) \/ i \in primed \/ pwa.link[i]]
      /\ pwa'.content = [i \in Slots |-> IF i = PwaSlot(PwaWritten) THEN pwa.turn
                                         ELSE IF i \in primed THEN Silence ELSE pwa.content[i]]
      /\ pwa'.next = pwa.next /\ pwa'.active = pwa.active /\ pwa'.int = pwa.int
      /\ pwa'.source = pwa.source /\ pwa'.played = pwa.played /\ pwa'.isr = pwa.isr
      /\ pwa'.dpc = pwa.dpc /\ pwa'.writer = [pc |-> "count", prime |-> 0]
      /\ pwa'.call = pwa.call /\ pwa'.dpcQueued = pwa.dpcQueued /\ pwa'.turn = pwa.turn + 1
      /\ pwa'.upset = pwa.upset
  BY <1>3 DEF WriteCopy, PwaSlot, PwaWritten, PwaTyped, PwaFields
<1>5. /\ PwaWritten = PwaFrom /\ pwa.inUse = 0 /\ \A i \in Slots : ~pwa.link[i]
  BY <1>2 DEF PwaEmpty
<1>6. Cardinality(primed) = PwaFrom /\ primed = IF PwaFrom = 0 THEN {} ELSE {0}
  <2>1. PwaFrom = 0 => primed = {}
    BY <1>3, <1>5 DEF Slots
  <2>2. PwaFrom = 1 => primed = {0}
    BY <1>3, <1>5, PwaAssumption DEF Slots
  <2> QED
    <3>1. Cardinality({}) = 0 /\ Cardinality({0}) = 1
      BY FS_EmptySet, FS_Singleton
    <3> QED
      BY <1>2, <2>1, <2>2, <3>1
<1>7. PwaFrom \in Slots /\ PwaSlot(PwaWritten) = PwaFrom
  BY <1>2, <1>5, PwaSlots, PwaAssumption DEF Slots
<1>8. /\ PwaCounting' = 1 /\ PwaClearing' = PwaClearing /\ PwaClearing = 0
      /\ PwaWritten' = PwaFrom + 1 /\ PwaHeld' = PwaFrom + 1 /\ PwaFrom' = PwaFrom
      /\ ~PwaGoing' /\ pwa'.writer.pc = "count" /\ pwa'.inUse = PwaFrom
  <2>1. pwa'.inUse = PwaFrom /\ pwa'.writer.pc = "count"
    BY <1>2, <1>4, <1>5, <1>6
  <2>2. pwa.isr.pc # "count"
    BY <1>1 DEF PwaGood, PwaStopped
  <2>3. PwaCounting' = 1 /\ PwaClearing' = 0 /\ PwaClearing = 0
    BY <1>4, <2>1, <2>2 DEF PwaCounting, PwaClearing
  <2> QED
    BY <1>1, <1>2, <1>4, <1>5, <2>1, <2>3
    DEF PwaWritten, PwaHeld, PwaFrom, PwaGoing, PwaTyped
<1>9. PwaTyped'
  <2>1. pwa'.toPrime \in Int
    BY <1>4, PwaAssumption
  <2>2. pwa'.link \in [Slots -> BOOLEAN] /\ DOMAIN pwa'.content = Slots
    BY <1>4
  <2>3. pwa'.writer \in PwaWriterStates
    BY <1>4 DEF PwaWriterStates
  <2> QED
    BY <1>2, <1>4, <1>8, <2>1, <2>2, <2>3 DEF PwaTyped
<1>10. PwaOrder'
  <2>1. pwa'.inUse + PwaCounting' <= PwaNum
    BY <1>2, <1>8, PwaAssumption
  <2> QED
    BY <1>1, <1>4, <1>8, <2>1 DEF PwaGood, PwaOrder
<1>11. PwaStopped' /\ PwaFresh' /\ PwaSeen'
  BY <1>1, <1>4, <1>8 DEF PwaGood, PwaStopped, PwaFresh, PwaSeen
<1>12. PwaFilled'
  <2>1. \A i \in Slots : pwa'.link[i] <=> i <= PwaFrom
    <3>1. \A i \in Slots : pwa'.link[i] <=> i = PwaFrom \/ i \in primed
      BY <1>4, <1>5, <1>7
    <3>2. \A i \in Slots : i <= PwaFrom <=> i = PwaFrom \/ i \in primed
      BY <1>2, <1>6 DEF Slots
    <3> QED
      BY <3>1, <3>2
  <2>2. pwa'.content[PwaFrom] = pwa'.base + PwaFrom
    BY <1>4, <1>5, <1>7 DEF PwaWritten, PwaTyped
  <2>3. pwa.inRestart => pwa'.content[0] = Silence
    BY <1>2, <1>4, <1>6, <1>7, PwaAssumption DEF Slots
  <2> QED
    BY <1>4, <1>8, <2>1, <2>2, <2>3 DEF PwaFilled
<1>13. PwaFilling'
  BY <1>1, <1>4, <1>8, <1>12 DEF PwaGood, PwaFilling
<1>14. PwaPlace' /\ PwaLinks' /\ PwaInterrupt'
  BY <1>8 DEF PwaPlace, PwaLinks, PwaInterrupt
<1> QED
  BY <1>9, <1>10, <1>11, <1>13, <1>14 DEF PwaInv, PwaGood

\* SetWritePacket while the DMA plays: one more packet, in a slot that is free.
LEMMA WriteNextKept ==
  ASSUME PwaTyped, PwaGood, pwa.upset = {}, WriteCopy, pwa.pwm # "stop" PROVE PwaInv'
<1>1. /\ pwa.ks = "run" /\ pwa.writer.pc = "idle" /\ pwa.call = "none" /\ PwaGoing
      /\ pwa.inUse # PwaNum
  BY DEF WriteCopy, PwaGoing, PwaGood, PwaOrder
<1>2. /\ DOMAIN pwa' = PwaFields /\ pwa'.ks = pwa.ks /\ pwa'.pwm = pwa.pwm
      /\ pwa'.inRestart = pwa.inRestart /\ pwa'.base = pwa.base
      /\ pwa'.inUse = pwa.inUse + Cardinality({}) /\ pwa'.processed = pwa.processed
      /\ pwa'.toPrime = pwa.toPrime /\ pwa'.restart = pwa.restart
      /\ pwa'.lastKnown = pwa.lastKnown /\ pwa'.at = pwa.at /\ pwa'.tail = pwa.tail
      /\ pwa'.link = [i \in Slots |-> i = PwaSlot(PwaWritten) \/ pwa.link[i]]
      /\ pwa'.content = [i \in Slots |-> IF i = PwaSlot(PwaWritten) THEN pwa.turn
                                         ELSE pwa.content[i]]
      /\ pwa'.next = pwa.next /\ pwa'.active = pwa.active /\ pwa'.int = pwa.int
      /\ pwa'.source = pwa.source /\ pwa'.played = pwa.played /\ pwa'.isr = pwa.isr
      /\ pwa'.dpc = pwa.dpc /\ pwa'.writer = [pc |-> "count", prime |-> 0]
      /\ pwa'.call = pwa.call /\ pwa'.dpcQueued = pwa.dpcQueued /\ pwa'.turn = pwa.turn + 1
      /\ pwa'.upset = pwa.upset
  BY DEF WriteCopy, PwaSlot, PwaWritten, PwaTyped, PwaFields
<1>3. pwa'.inUse = pwa.inUse /\ pwa'.writer.pc = "count"
  BY <1>2, FS_EmptySet DEF PwaTyped
<1>4. /\ PwaCounting' = 1 /\ PwaCounting = 0 /\ PwaClearing' = PwaClearing
      /\ PwaWritten' = PwaWritten + 1 /\ PwaHeld' = PwaHeld + 1 /\ PwaFirst' = PwaFirst
      /\ PwaBehind' = PwaBehind /\ (PwaGoing' <=> PwaGoing)
  <2>1. PwaCounting' = 1 /\ PwaCounting = 0 /\ PwaClearing' = PwaClearing
    BY <1>1, <1>2, <1>3 DEF PwaCounting, PwaClearing
  <2>2. PwaClearing \in Nat
    BY PwaNumbers
  <2> QED
    BY <1>2, <1>3, <2>1, <2>2
    DEF PwaWritten, PwaHeld, PwaFirst, PwaBehind, PwaGoing, PwaTyped
<1>5. /\ PwaHeld \in Nat /\ PwaHeld < PwaNum /\ PwaFirst \in Nat /\ PwaBehind \in 0..PwaNum - 1
      /\ PwaWritten = PwaFirst + PwaHeld
  <2>1. pwa.inUse + 1 <= PwaNum
    BY <1>1, <1>4, PwaAssumption DEF PwaGood, PwaOrder, PwaTyped
  <2> QED
    BY <1>1, <1>4, <2>1, PwaWindow, PwaNumbers, PwaAssumption DEF PwaTyped
<1>6. PwaTyped'
  <2>1. pwa'.link \in [Slots -> BOOLEAN] /\ DOMAIN pwa'.content = Slots
    BY <1>2
  <2>2. pwa'.writer \in PwaWriterStates
    BY <1>2 DEF PwaWriterStates
  <2> QED
    BY <1>2, <1>3, <2>1, <2>2 DEF PwaTyped
<1>7. PwaOrder'
  <2>1. pwa'.inUse + PwaCounting' <= PwaNum
    BY <1>1, <1>3, <1>4, PwaAssumption DEF PwaGood, PwaOrder, PwaTyped
  <2> QED
    BY <1>1, <1>2, <1>3, <2>1 DEF PwaGood, PwaOrder
<1>8. PwaStopped' /\ PwaFresh' /\ PwaFilling'
  BY <1>1, <1>2, <1>4 DEF PwaStopped, PwaFresh, PwaFilling, PwaGoing
<1>9. PwaPlace'
  BY <1>1, <1>2, <1>4, <1>5 DEF PwaGood, PwaPlace
<1>10. PwaLinks'
  <2>1. \A n \in PwaFirst..PwaWritten - 1 : PwaSlot(n) # PwaSlot(PwaWritten) /\ PwaSlot(n) \in Slots
    <3> SUFFICES ASSUME NEW n \in PwaFirst..PwaWritten - 1
                 PROVE  PwaSlot(n) # PwaSlot(PwaWritten) /\ PwaSlot(n) \in Slots
      OBVIOUS
    <3>1. n \in Nat /\ PwaWritten \in Nat /\ n < PwaWritten /\ PwaWritten < n + PwaNum
      BY <1>5, PwaAssumption
    <3> QED
      BY <3>1, PwaSlots
  <2>2. PwaSlot(PwaWritten) \in Slots
    BY <1>5, PwaSlots
  <2>3. \A n : n \in PwaFirst..PwaWritten <=> n \in PwaFirst..PwaWritten - 1 \/ n = PwaWritten
    BY <1>5
  <2>4. \A i \in Slots : pwa'.link[i] <=> \E n \in PwaFirst..PwaWritten : i = PwaSlot(n)
    <3>1. \A i \in Slots : pwa'.link[i] <=> i = PwaSlot(PwaWritten) \/ pwa.link[i]
      BY <1>2
    <3>2. \A i \in Slots : pwa.link[i] <=> \E n \in PwaFirst..PwaWritten - 1 : i = PwaSlot(n)
      BY <1>1 DEF PwaGood, PwaLinks
    <3> QED
      BY <2>3, <3>1, <3>2, Zenon
  <2>5. \A n \in PwaFirst..PwaWritten - 1 :
          pwa'.content[PwaSlot(n)] = pwa.base + n \/ (n = 0 /\ pwa'.content[0] = Silence)
    <3> SUFFICES ASSUME NEW n \in PwaFirst..PwaWritten - 1
                 PROVE  \/ pwa'.content[PwaSlot(n)] = pwa.base + n
                        \/ n = 0 /\ pwa'.content[0] = Silence
      OBVIOUS
    <3>1. pwa'.content[PwaSlot(n)] = pwa.content[PwaSlot(n)]
      BY <1>2, <2>1
    <3>2. n = 0 => PwaSlot(n) = 0
      BY PwaSlots, PwaAssumption DEF Slots
    <3> QED
      BY <1>1, <3>1, <3>2 DEF PwaGood, PwaLinks
  <2>6. pwa'.content[PwaSlot(PwaWritten)] = pwa.base + PwaWritten
    <3>1. pwa'.content[PwaSlot(PwaWritten)] = pwa.turn
      BY <1>2, <2>2
    <3> QED
      BY <3>1 DEF PwaWritten, PwaTyped
  <2>7. PwaWritten' - 1 = PwaWritten
    BY <1>4, <1>5
  <2> QED
    <3>1. pwa'.base = pwa.base
      BY <1>2
    <3>2. \A n \in PwaFirst..PwaWritten :
            pwa'.content[PwaSlot(n)] = pwa.base + n \/ (n = 0 /\ pwa'.content[0] = Silence)
      BY <2>3, <2>5, <2>6
    <3> QED
      BY <1>4, <2>4, <2>7, <3>1, <3>2, Zenon DEF PwaLinks
<1>11. PwaInterrupt'
  BY <1>1, <1>2, <1>4 DEF PwaGood, PwaInterrupt, PwaRead
<1>12. PwaSeen'
  BY <1>1, <1>2, <1>4 DEF PwaGood, PwaSeen
<1> QED
  BY <1>6, <1>7, <1>8, <1>9, <1>10, <1>11, <1>12 DEF PwaInv, PwaGood

\* The packet linked is counted.
LEMMA WriteCountKept ==
  ASSUME PwaTyped, PwaGood, pwa.upset = {}, WriteCount PROVE PwaInv'
<1>1. /\ pwa.writer.pc = "count"
      /\ DOMAIN pwa' = PwaFields /\ pwa'.ks = pwa.ks /\ pwa'.pwm = pwa.pwm
      /\ pwa'.inRestart = pwa.inRestart /\ pwa'.base = pwa.base /\ pwa'.inUse = pwa.inUse + 1
      /\ pwa'.processed = pwa.processed /\ pwa'.toPrime = pwa.toPrime
      /\ pwa'.restart = pwa.restart /\ pwa'.lastKnown = pwa.lastKnown /\ pwa'.link = pwa.link
      /\ pwa'.content = pwa.content /\ pwa'.at = pwa.at /\ pwa'.tail = pwa.tail
      /\ pwa'.next = pwa.next /\ pwa'.active = pwa.active /\ pwa'.int = pwa.int
      /\ pwa'.source = pwa.source /\ pwa'.played = pwa.played /\ pwa'.isr = pwa.isr
      /\ pwa'.dpc = pwa.dpc /\ pwa'.writer = [pwa.writer EXCEPT !.pc = "prime"]
      /\ pwa'.call = pwa.call /\ pwa'.dpcQueued = pwa.dpcQueued /\ pwa'.turn = pwa.turn
      /\ pwa'.upset = pwa.upset
  BY DEF WriteCount, PwaTyped, PwaFields
<1>2. /\ PwaCounting' = 0 /\ PwaCounting = 1 /\ PwaClearing' = PwaClearing /\ PwaHeld' = PwaHeld
      /\ PwaWritten' = PwaWritten /\ PwaFirst' = PwaFirst /\ PwaBehind' = PwaBehind
      /\ (PwaGoing' <=> PwaGoing)
  BY <1>1
  DEF PwaTyped, PwaIsrStates, PwaWritten, PwaHeld, PwaFirst, PwaBehind, PwaCounting, PwaClearing,
      PwaGoing
<1>3. PwaTyped'
  BY <1>1 DEF PwaTyped, PwaWriterStates
<1>4. PwaOrder'
  BY <1>1, <1>2 DEF PwaGood, PwaOrder, PwaTyped
<1>5. PwaStopped'
  BY <1>1, <1>2 DEF PwaGood, PwaStopped
<1>6. PwaFresh'
  BY <1>1, <1>2 DEF PwaGood, PwaFresh
<1>7. PwaFilling'
  BY <1>1, <1>2 DEF PwaGood, PwaFilling, PwaFrom, PwaEmpty, PwaFilled
<1>8. PwaPlace'
  BY <1>1, <1>2 DEF PwaGood, PwaPlace
<1>9. PwaLinks'
  BY <1>1, <1>2 DEF PwaGood, PwaLinks
<1>10. PwaInterrupt'
  BY <1>1, <1>2 DEF PwaGood, PwaInterrupt, PwaRead
<1>11. PwaSeen'
  BY <1>1, <1>2 DEF PwaGood, PwaSeen
<1> QED
  BY <1>3, <1>4, <1>5, <1>6, <1>7, <1>8, <1>9, <1>10, <1>11 DEF PwaInv, PwaGood

\* SetWritePacket reads the count of packets to prime.
LEMMA WritePrimeKept ==
  ASSUME PwaTyped, PwaGood, pwa.upset = {}, WritePrime PROVE PwaInv'
<1>1. /\ pwa.writer.pc = "prime"
      /\ DOMAIN pwa' = PwaFields /\ pwa'.ks = pwa.ks /\ pwa'.pwm = pwa.pwm
      /\ pwa'.inRestart = pwa.inRestart /\ pwa'.base = pwa.base /\ pwa'.inUse = pwa.inUse
      /\ pwa'.processed = pwa.processed /\ pwa'.toPrime = pwa.toPrime
      /\ pwa'.restart = pwa.restart /\ pwa'.lastKnown = pwa.lastKnown /\ pwa'.link = pwa.link
      /\ pwa'.content = pwa.content /\ pwa'.at = pwa.at /\ pwa'.tail = pwa.tail
      /\ pwa'.next = pwa.next /\ pwa'.active = pwa.active /\ pwa'.int = pwa.int
      /\ pwa'.source = pwa.source /\ pwa'.played = pwa.played /\ pwa'.isr = pwa.isr
      /\ pwa'.dpc = pwa.dpc
      /\ pwa'.writer = [pwa.writer EXCEPT !.pc = "exchange", !.prime = pwa.toPrime]
      /\ pwa'.call = pwa.call /\ pwa'.dpcQueued = pwa.dpcQueued /\ pwa'.turn = pwa.turn
      /\ pwa'.upset = pwa.upset
  BY DEF WritePrime, PwaTyped, PwaFields
<1>2. /\ PwaCounting' = PwaCounting /\ PwaClearing' = PwaClearing /\ PwaHeld' = PwaHeld
      /\ PwaWritten' = PwaWritten /\ PwaFirst' = PwaFirst /\ PwaBehind' = PwaBehind
      /\ (PwaGoing' <=> PwaGoing)
  BY <1>1 DEF PwaWritten, PwaHeld, PwaFirst, PwaBehind, PwaCounting, PwaClearing, PwaGoing
<1>3. PwaTyped'
  BY <1>1 DEF PwaTyped, PwaWriterStates
<1>4. PwaOrder'
  BY <1>1, <1>2 DEF PwaGood, PwaOrder
<1>5. PwaStopped'
  BY <1>1, <1>2 DEF PwaGood, PwaStopped
<1>6. PwaFresh'
  BY <1>1, <1>2 DEF PwaGood, PwaFresh
<1>7. PwaFilling'
  BY <1>1, <1>2 DEF PwaGood, PwaFilling, PwaFrom, PwaEmpty, PwaFilled
<1>8. PwaPlace'
  BY <1>1, <1>2 DEF PwaGood, PwaPlace
<1>9. PwaLinks'
  BY <1>1, <1>2 DEF PwaGood, PwaLinks
<1>10. PwaInterrupt'
  BY <1>1, <1>2 DEF PwaGood, PwaInterrupt, PwaRead
<1>11. PwaSeen'
  BY <1>1, <1>2 DEF PwaGood, PwaSeen
<1> QED
  BY <1>3, <1>4, <1>5, <1>6, <1>7, <1>8, <1>9, <1>10, <1>11 DEF PwaInv, PwaGood

\* It writes the count back.
LEMMA WriteExchangeKept ==
  ASSUME PwaTyped, PwaGood, pwa.upset = {}, WriteExchange PROVE PwaInv'
<1>1. /\ pwa.writer.pc = "exchange"
      /\ DOMAIN pwa' = PwaFields /\ pwa'.ks = pwa.ks /\ pwa'.pwm = pwa.pwm
      /\ pwa'.inRestart = pwa.inRestart /\ pwa'.base = pwa.base /\ pwa'.inUse = pwa.inUse
      /\ pwa'.processed = pwa.processed /\ pwa'.toPrime = pwa.writer.prime - pwa.toPrime
      /\ pwa'.restart = pwa.restart /\ pwa'.lastKnown = pwa.lastKnown /\ pwa'.link = pwa.link
      /\ pwa'.content = pwa.content /\ pwa'.at = pwa.at /\ pwa'.tail = pwa.tail
      /\ pwa'.next = pwa.next /\ pwa'.active = pwa.active /\ pwa'.int = pwa.int
      /\ pwa'.source = pwa.source /\ pwa'.played = pwa.played /\ pwa'.isr = pwa.isr
      /\ pwa'.dpc = pwa.dpc
      /\ pwa'.writer = [pwa.writer EXCEPT !.pc = IF pwa.pwm = "run" THEN "idle" ELSE "start"]
      /\ pwa'.call = pwa.call /\ pwa'.dpcQueued = pwa.dpcQueued /\ pwa'.turn = pwa.turn
      /\ pwa'.upset = pwa.upset
  BY DEF WriteExchange, PwaTyped, PwaFields
<1>2. /\ PwaCounting' = PwaCounting /\ PwaClearing' = PwaClearing /\ PwaHeld' = PwaHeld
      /\ PwaWritten' = PwaWritten /\ PwaFirst' = PwaFirst /\ PwaBehind' = PwaBehind
      /\ (PwaGoing' <=> PwaGoing)
  BY <1>1 DEF PwaWritten, PwaHeld, PwaFirst, PwaBehind, PwaCounting, PwaClearing, PwaGoing
<1>3. PwaTyped'
  BY <1>1 DEF PwaTyped, PwaWriterStates
<1>4. PwaOrder'
  BY <1>1, <1>2 DEF PwaGood, PwaOrder, PwaTyped
<1>5. PwaStopped'
  BY <1>1, <1>2 DEF PwaGood, PwaStopped
<1>6. PwaFresh'
  BY <1>1, <1>2 DEF PwaGood, PwaFresh
<1>7. PwaFilling'
  BY <1>1, <1>2 DEF PwaGood, PwaFilling, PwaFrom, PwaEmpty, PwaFilled
<1>8. PwaPlace'
  BY <1>1, <1>2 DEF PwaGood, PwaPlace
<1>9. PwaLinks'
  BY <1>1, <1>2 DEF PwaGood, PwaLinks
<1>10. PwaInterrupt'
  BY <1>1, <1>2 DEF PwaGood, PwaInterrupt, PwaRead
<1>11. PwaSeen'
  BY <1>1, <1>2 DEF PwaGood, PwaSeen
<1> QED
  BY <1>3, <1>4, <1>5, <1>6, <1>7, <1>8, <1>9, <1>10, <1>11 DEF PwaInv, PwaGood

\* The start forgets what was played and goes to the first packet.
LEMMA StartAudioKept ==
  ASSUME PwaTyped, PwaGood, pwa.upset = {}, StartAudio PROVE PwaInv'
<1>1. pwa.pwm = "stop" /\ pwa.ks = "run" /\ pwa.call = "none"
  BY DEF StartAudio, PwaGood, PwaOrder
<1>2. /\ pwa.writer.pc = "start" /\ pwa.pwm = "stop" /\ pwa.ks = "run" /\ pwa.call = "none"
      /\ pwa'.upset = {} => pwa.isr.pc = "idle"
      /\ DOMAIN pwa' = PwaFields /\ pwa'.ks = pwa.ks /\ pwa'.pwm = "run" /\ pwa'.inRestart = FALSE
      /\ pwa'.base = pwa.base /\ pwa'.inUse = pwa.inUse /\ pwa'.processed = pwa.processed
      /\ pwa'.toPrime = pwa.toPrime /\ pwa'.restart = FALSE /\ pwa'.lastKnown = None
      /\ pwa'.link = pwa.link /\ pwa'.content = pwa.content /\ pwa'.at = 0 /\ pwa'.tail = FALSE
      /\ pwa'.next = pwa.next /\ pwa'.active = TRUE /\ pwa'.int = FALSE
      /\ pwa'.source = pwa.source /\ pwa'.played = pwa.played /\ pwa'.isr = pwa.isr
      /\ pwa'.dpc = pwa.dpc /\ pwa'.writer = IdleWriter /\ pwa'.call = pwa.call
      /\ pwa'.dpcQueued = pwa.dpcQueued /\ pwa'.turn = pwa.turn
  BY <1>1 DEF StartAudio, Underway, PwaTyped, PwaFields
<1>3. /\ PwaCounting' = 0 /\ PwaCounting = 0 /\ PwaClearing' = PwaClearing /\ PwaHeld' = PwaHeld
      /\ PwaWritten' = PwaWritten /\ PwaFirst' = PwaFirst /\ PwaBehind' = PwaBehind
      /\ pwa'.writer.pc = "idle" /\ PwaGoing' /\ ~PwaGoing /\ pwa'.at # None
  BY <1>2
  DEF PwaWritten, PwaHeld, PwaFirst, PwaBehind, PwaCounting, PwaClearing, PwaGoing, IdleWriter,
      None
<1>4. PwaTyped'
  <2>1. 0 \in Slots
    BY PwaAssumption DEF Slots
  <2>2. IdleWriter \in PwaWriterStates
    BY DEF IdleWriter, PwaWriterStates
  <2>3. /\ pwa'.restart \in BOOLEAN /\ pwa'.inRestart \in BOOLEAN /\ pwa'.tail \in BOOLEAN
       /\ pwa'.active \in BOOLEAN /\ pwa'.int \in BOOLEAN
    BY <1>2
  <2> QED
    BY <1>2, <2>1, <2>2, <2>3 DEF PwaTyped
<1>5. ASSUME pwa'.upset = {} PROVE PwaOrder'
  <2>1. pwa'.inUse + PwaCounting' <= PwaNum
    BY <1>2, <1>3, PwaAssumption DEF PwaGood, PwaOrder
  <2> QED
    BY <1>2, <1>3, <2>1 DEF PwaOrder
<1>6. ASSUME pwa'.upset = {} PROVE PwaStopped'
  BY <1>2, <1>3, <1>6 DEF PwaGood, PwaStopped
<1>7. ASSUME pwa'.upset = {} PROVE PwaFresh'
  BY <1>2, <1>3, <1>7 DEF PwaGood, PwaFresh
<1>8. ASSUME pwa'.upset = {} PROVE PwaFilling'
  BY <1>2 DEF PwaFilling
<1>9. ASSUME pwa'.upset = {} PROVE PwaPlace'
  <2>1. PwaFilled /\ PwaFrom \in {0, 1}
    BY <1>2 DEF PwaGood, PwaFilling, PwaFrom
  <2>2. PwaFirst = 0 /\ PwaHeld > 0 /\ PwaHeld \in Int
    BY <2>1, PwaNumbers DEF PwaFilled
  <2>3. PwaBehind = 0
    BY <1>2, <1>3, <1>9 DEF PwaGood, PwaStopped, PwaBehind, PwaClearing, PwaTyped
  <2>4. 0 = PwaSlot(0 + 0) /\ 0 \in 0..PwaNum - 1
    BY PwaSlots, PwaAssumption DEF Slots
  <2> QED
    BY <1>2, <1>3, <2>2, <2>3, <2>4 DEF PwaPlace, PwaLast
<1>10. ASSUME pwa'.upset = {} PROVE PwaLinks'
  <2>1. PwaFilled /\ PwaFrom = IF pwa.inRestart THEN 1 ELSE 0
    BY <1>2 DEF PwaGood, PwaFilling, PwaFrom
  <2>2. PwaFirst = 0 /\ PwaWritten = PwaFrom + 1 /\ PwaFrom \in {0, 1}
    BY <2>1, PwaNumbers DEF PwaFilled
  <2>3. 0 \in Slots /\ 1 \in Slots /\ PwaSlot(0) = 0 /\ PwaSlot(1) = 1
    BY PwaSlots, PwaAssumption DEF Slots
  <2>4. \A n \in 0..PwaFrom : n \in {0, 1} /\ PwaSlot(n) = n
    BY <2>2, <2>3
  <2>5. \A i \in Slots : pwa.link[i] <=> \E n \in 0..PwaFrom : i = PwaSlot(n)
    BY <2>1, <2>2, <2>4 DEF PwaFilled, Slots
  <2>6. \A n \in 0..PwaFrom :
           pwa.content[PwaSlot(n)] = pwa.base + n \/ (n = 0 /\ pwa.content[0] = Silence)
    BY <2>1, <2>2, <2>4 DEF PwaFilled
  <2>7. PwaFirst'..PwaWritten' - 1 = 0..PwaFrom
    BY <1>3, <2>2
  <2>8. \A i \in Slots : pwa'.link[i] <=> \E n \in PwaFirst'..PwaWritten' - 1 : i = PwaSlot(n)
    <3>1. pwa'.link = pwa.link
      BY <1>2
    <3> QED
      BY <2>5, <2>7, <3>1, Zenon
  <2>9. \A n \in PwaFirst'..PwaWritten' - 1 :
           pwa'.content[PwaSlot(n)] = pwa'.base + n \/ (n = 0 /\ pwa'.content[0] = Silence)
    BY <1>2, <2>6, <2>7
  <2> QED
    BY <2>8, <2>9 DEF PwaLinks
<1>11. ASSUME pwa'.upset = {} PROVE PwaInterrupt'
  BY <1>2, <1>3, <1>11 DEF PwaInterrupt
<1>12. ASSUME pwa'.upset = {} PROVE PwaSeen'
  BY <1>2, <1>3, <1>12 DEF PwaSeen, PwaGood
<1> QED
  BY <1>4, <1>5, <1>6, <1>7, <1>8, <1>9, <1>10, <1>11, <1>12 DEF PwaInv, PwaGood

\* A new stream.
LEMMA SetStateRunFirstKept ==
  ASSUME PwaTyped, PwaGood, pwa.upset = {}, SetStateRunFirst PROVE PwaInv'
<1>1. /\ pwa.ks = "stop" /\ pwa.pwm = "stop" /\ pwa.writer.pc = "idle" /\ pwa.call = "none"
      /\ pwa.base = 0 /\ pwa.inUse = 0 /\ ~pwa.restart /\ ~pwa.inRestart
      /\ DOMAIN pwa' = PwaFields /\ pwa'.ks = "run" /\ pwa'.pwm = pwa.pwm
      /\ pwa'.inRestart = pwa.inRestart /\ pwa'.base = pwa.base /\ pwa'.inUse = pwa.inUse
      /\ pwa'.processed = pwa.processed /\ pwa'.toPrime = PwaPreset /\ pwa'.restart = pwa.restart
      /\ pwa'.lastKnown = pwa.lastKnown /\ pwa'.link = [i \in Slots |-> FALSE]
      /\ pwa'.content = pwa.content /\ pwa'.at = pwa.at /\ pwa'.tail = pwa.tail
      /\ pwa'.next = pwa.next /\ pwa'.active = pwa.active /\ pwa'.int = pwa.int
      /\ pwa'.source = pwa.source /\ pwa'.played = pwa.played /\ pwa'.isr = pwa.isr
      /\ pwa'.dpc = pwa.dpc /\ pwa'.writer = pwa.writer /\ pwa'.call = pwa.call
      /\ pwa'.dpcQueued = pwa.dpcQueued /\ pwa'.turn = 0 /\ pwa'.upset = pwa.upset
  BY DEF SetStateRunFirst, Still, PwaGood, PwaOrder, PwaTyped, PwaFields
<1>2. /\ PwaCounting' = PwaCounting /\ PwaClearing' = PwaClearing /\ PwaWritten' = 0
      /\ PwaBehind' = PwaBehind /\ (PwaGoing' <=> PwaGoing) /\ ~PwaGoing /\ ~PwaGoing'
  BY <1>1 DEF PwaWritten, PwaHeld, PwaFirst, PwaBehind, PwaCounting, PwaClearing, PwaGoing
<1>3. PwaTyped'
  <2>1. pwa'.link \in [Slots -> BOOLEAN]
    BY <1>1
  <2>2. pwa'.toPrime \in Int
    BY <1>1, PwaAssumption DEF PwaPreset
  <2> QED
    BY <1>1, <2>1, <2>2 DEF PwaTyped
<1>4. PwaOrder'
  BY <1>1, <1>2 DEF PwaGood, PwaOrder
<1>5. PwaStopped'
  BY <1>1, <1>2 DEF PwaGood, PwaStopped
<1>6. PwaFresh'
  BY <1>1, <1>2 DEF PwaGood, PwaFresh
<1>7. PwaFilling'
  <2>1. PwaEmpty'
    BY <1>1, <1>2 DEF PwaEmpty, PwaFrom
  <2> QED
    BY <1>1, <2>1 DEF PwaFilling
<1>8. PwaPlace'
  BY <1>1, <1>2 DEF PwaPlace, PwaGoing
<1>9. PwaLinks'
  BY <1>1, <1>2 DEF PwaLinks, PwaGoing
<1>10. PwaInterrupt'
  BY <1>1, <1>2 DEF PwaInterrupt, PwaGoing
<1>11. PwaSeen'
  BY <1>1, <1>2 DEF PwaGood, PwaSeen
<1> QED
  BY <1>3, <1>4, <1>5, <1>6, <1>7, <1>8, <1>9, <1>10, <1>11 DEF PwaInv, PwaGood

\* PAUSE_AUDIO finds the DMA active.
LEMMA PauseBeginsKept ==
  ASSUME PwaTyped, PwaGood, pwa.upset = {},
         SetStatePause, pwa.pwm = "run" /\ pwa.active
  PROVE  PwaInv'
<1>1. Still(pwa) /\ pwa.ks = "run" /\ pwa' = [pwa EXCEPT !.call = "pause"]
  BY Zenon DEF SetStatePause
<1>2. /\ pwa.ks = "run" /\ pwa.pwm = "run" /\ pwa.writer.pc = "idle"
      /\ DOMAIN pwa' = PwaFields /\ pwa'.ks = pwa.ks /\ pwa'.pwm = pwa.pwm
      /\ pwa'.inRestart = pwa.inRestart /\ pwa'.base = pwa.base /\ pwa'.inUse = pwa.inUse
      /\ pwa'.processed = pwa.processed /\ pwa'.toPrime = pwa.toPrime
      /\ pwa'.restart = pwa.restart /\ pwa'.lastKnown = pwa.lastKnown /\ pwa'.link = pwa.link
      /\ pwa'.content = pwa.content /\ pwa'.at = pwa.at /\ pwa'.tail = pwa.tail
      /\ pwa'.next = pwa.next /\ pwa'.active = pwa.active /\ pwa'.int = pwa.int
      /\ pwa'.source = pwa.source /\ pwa'.played = pwa.played /\ pwa'.isr = pwa.isr
      /\ pwa'.dpc = pwa.dpc /\ pwa'.writer = pwa.writer /\ pwa'.call = "pause"
      /\ pwa'.dpcQueued = pwa.dpcQueued /\ pwa'.turn = pwa.turn /\ pwa'.upset = pwa.upset
  BY <1>1 DEF Still, PwaTyped, PwaFields
<1>3. /\ PwaCounting' = PwaCounting /\ PwaClearing' = PwaClearing /\ PwaHeld' = PwaHeld
      /\ PwaWritten' = PwaWritten /\ PwaFirst' = PwaFirst /\ PwaBehind' = PwaBehind
      /\ (PwaGoing' <=> PwaGoing)
  BY <1>2 DEF PwaWritten, PwaHeld, PwaFirst, PwaBehind, PwaCounting, PwaClearing, PwaGoing
<1>4. PwaTyped'
  BY <1>2 DEF PwaTyped
<1>5. PwaOrder'
  BY <1>2, <1>3 DEF PwaGood, PwaOrder
<1>6. PwaStopped'
  BY <1>2, <1>3 DEF PwaGood, PwaStopped
<1>7. PwaFresh'
  BY <1>2, <1>3 DEF PwaGood, PwaFresh
<1>8. PwaFilling'
  BY <1>2, <1>3 DEF PwaGood, PwaFilling, PwaFrom, PwaEmpty, PwaFilled
<1>9. PwaPlace'
  BY <1>2, <1>3 DEF PwaGood, PwaPlace
<1>10. PwaLinks'
  BY <1>2, <1>3 DEF PwaGood, PwaLinks
<1>11. PwaInterrupt'
  BY <1>2, <1>3 DEF PwaGood, PwaInterrupt, PwaRead
<1>12. PwaSeen'
  BY <1>2, <1>3 DEF PwaGood, PwaSeen
<1> QED
  BY <1>4, <1>5, <1>6, <1>7, <1>8, <1>9, <1>10, <1>11, <1>12 DEF PwaInv, PwaGood

\* It finds the DMA idle.
LEMMA PauseIdleKept ==
  ASSUME PwaTyped, PwaGood, pwa.upset = {},
         SetStatePause, ~(pwa.pwm = "run" /\ pwa.active)
  PROVE  PwaInv'
<1>1. /\ Still(pwa) /\ pwa.ks = "run"
       /\ pwa' = [pwa EXCEPT !.ks = "pause", !.pwm = IF @ = "run" THEN "pause" ELSE @]
  BY Zenon DEF SetStatePause
<1>2. /\ pwa.ks = "run" /\ pwa.writer.pc = "idle" /\ pwa.call = "none"
      /\ DOMAIN pwa' = PwaFields /\ pwa'.ks = "pause"
      /\ pwa'.pwm = (IF pwa.pwm = "run" THEN "pause" ELSE pwa.pwm)
      /\ pwa'.inRestart = pwa.inRestart /\ pwa'.base = pwa.base /\ pwa'.inUse = pwa.inUse
      /\ pwa'.processed = pwa.processed /\ pwa'.toPrime = pwa.toPrime
      /\ pwa'.restart = pwa.restart /\ pwa'.lastKnown = pwa.lastKnown /\ pwa'.link = pwa.link
      /\ pwa'.content = pwa.content /\ pwa'.at = pwa.at /\ pwa'.tail = pwa.tail
      /\ pwa'.next = pwa.next /\ pwa'.active = pwa.active /\ pwa'.int = pwa.int
      /\ pwa'.source = pwa.source /\ pwa'.played = pwa.played /\ pwa'.isr = pwa.isr
      /\ pwa'.dpc = pwa.dpc /\ pwa'.writer = pwa.writer /\ pwa'.call = pwa.call
      /\ pwa'.dpcQueued = pwa.dpcQueued /\ pwa'.turn = pwa.turn /\ pwa'.upset = pwa.upset
  BY <1>1 DEF Still, PwaTyped, PwaFields
<1>3. /\ PwaCounting' = PwaCounting /\ PwaClearing' = PwaClearing /\ PwaHeld' = PwaHeld
      /\ PwaWritten' = PwaWritten /\ PwaFirst' = PwaFirst /\ PwaBehind' = PwaBehind
      /\ (PwaGoing' <=> PwaGoing)
  BY <1>2 DEF PwaWritten, PwaHeld, PwaFirst, PwaBehind, PwaCounting, PwaClearing, PwaGoing
<1>4. PwaTyped'
  BY <1>2 DEF PwaTyped
<1>5. PwaOrder'
  BY <1>2, <1>3 DEF PwaGood, PwaOrder
<1>6. PwaStopped'
  BY <1>2, <1>3 DEF PwaGood, PwaStopped
<1>7. PwaFresh'
  BY <1>2, <1>3 DEF PwaGood, PwaFresh
<1>8. PwaFilling'
  BY <1>2, <1>3 DEF PwaGood, PwaFilling, PwaFrom, PwaEmpty, PwaFilled
<1>9. PwaPlace'
  BY <1>2, <1>3 DEF PwaGood, PwaPlace
<1>10. PwaLinks'
  BY <1>2, <1>3 DEF PwaGood, PwaLinks
<1>11. PwaInterrupt'
  BY <1>2, <1>3 DEF PwaGood, PwaInterrupt, PwaRead
<1>12. PwaSeen'
  BY <1>2, <1>3 DEF PwaGood, PwaSeen
<1> QED
  BY <1>4, <1>5, <1>6, <1>7, <1>8, <1>9, <1>10, <1>11, <1>12 DEF PwaInv, PwaGood

\* The DMA pauses.
LEMMA PauseDmaKept ==
  ASSUME PwaTyped, PwaGood, pwa.upset = {}, PauseDma PROVE PwaInv'
<1>1. /\ pwa.call = "pause" /\ pwa.ks = "run" /\ pwa.pwm = "run" /\ pwa.writer.pc = "idle"
      /\ pwa'.upset = {} => pwa.at # None /\ pwa.isr.pc = "idle"
      /\ DOMAIN pwa' = PwaFields /\ pwa'.ks = "pause" /\ pwa'.pwm = "pause"
      /\ pwa'.inRestart = pwa.inRestart /\ pwa'.base = pwa.base /\ pwa'.inUse = pwa.inUse
      /\ pwa'.processed = pwa.processed /\ pwa'.toPrime = pwa.toPrime
      /\ pwa'.restart = pwa.restart /\ pwa'.lastKnown = pwa.lastKnown /\ pwa'.link = pwa.link
      /\ pwa'.content = pwa.content /\ pwa'.at = pwa.at /\ pwa'.tail = pwa.tail
      /\ pwa'.next = pwa.next /\ pwa'.active = FALSE /\ pwa'.int = FALSE
      /\ pwa'.source = pwa.source /\ pwa'.played = pwa.played /\ pwa'.isr = pwa.isr
      /\ pwa'.dpc = pwa.dpc /\ pwa'.writer = pwa.writer /\ pwa'.call = "none"
      /\ pwa'.dpcQueued = pwa.dpcQueued /\ pwa'.turn = pwa.turn
  BY DEF PauseDma, WriteCs, PwaGood, PwaOrder, PwaTyped, PwaFields
<1>2. /\ PwaCounting' = PwaCounting /\ PwaClearing' = PwaClearing /\ PwaHeld' = PwaHeld
      /\ PwaWritten' = PwaWritten /\ PwaFirst' = PwaFirst /\ PwaBehind' = PwaBehind
      /\ (PwaGoing' <=> PwaGoing)
  BY <1>1 DEF PwaWritten, PwaHeld, PwaFirst, PwaBehind, PwaCounting, PwaClearing, PwaGoing
<1>3. PwaTyped'
  BY <1>1 DEF PwaTyped
<1>4. ASSUME pwa'.upset = {} PROVE PwaOrder'
  BY <1>1, <1>2, <1>4 DEF PwaGood, PwaOrder
<1>5. ASSUME pwa'.upset = {} PROVE PwaStopped'
  BY <1>1, <1>2, <1>5 DEF PwaGood, PwaStopped
<1>6. ASSUME pwa'.upset = {} PROVE PwaFresh'
  BY <1>1, <1>2, <1>6 DEF PwaGood, PwaFresh
<1>7. ASSUME pwa'.upset = {} PROVE PwaFilling'
  BY <1>1, <1>2, <1>7 DEF PwaGood, PwaFilling, PwaFrom, PwaEmpty, PwaFilled
<1>8. ASSUME pwa'.upset = {} PROVE PwaPlace'
  BY <1>1, <1>2, <1>8 DEF PwaGood, PwaPlace
<1>9. ASSUME pwa'.upset = {} PROVE PwaLinks'
  BY <1>1, <1>2, <1>9 DEF PwaGood, PwaLinks
<1>10. ASSUME pwa'.upset = {} PROVE PwaInterrupt'
  BY <1>1, <1>2, <1>10 DEF PwaGood, PwaInterrupt, PwaRead
<1>11. ASSUME pwa'.upset = {} PROVE PwaSeen'
  BY <1>1, <1>2, <1>11 DEF PwaGood, PwaSeen
<1> QED
  BY <1>3, <1>4, <1>5, <1>6, <1>7, <1>8, <1>9, <1>10, <1>11 DEF PwaInv, PwaGood

\* RESUME_AUDIO finds the DMA paused.
LEMMA ResumeDmaKept ==
  ASSUME PwaTyped, PwaGood, pwa.upset = {},
         SetStateRun, pwa.pwm = "pause" /\ ~pwa.active
  PROVE  PwaInv'
<1>1. /\ Still(pwa) /\ pwa.ks = "pause"
       /\ pwa' = [WriteCs(pwa, TRUE, TRUE) EXCEPT
                    !.ks = "run", !.pwm = IF @ = "pause" THEN "run" ELSE @,
                    !.upset = @ \cup (IF pwa.pwm = "pause" /\ (pwa.int \/ pwa.isr.pc # "idle")
                                      THEN {"resume"} ELSE {})]
  BY Zenon DEF SetStateRun
<1>2. /\ pwa.ks = "pause" /\ pwa.writer.pc = "idle" /\ pwa.call = "none"
      /\ pwa'.active \in BOOLEAN /\ (pwa'.active => pwa.at # None)
      /\ pwa'.upset = {} => ~pwa.int /\ pwa.isr.pc = "idle"
      /\ DOMAIN pwa' = PwaFields /\ pwa'.ks = "run" /\ pwa'.pwm = "run"
      /\ pwa'.inRestart = pwa.inRestart /\ pwa'.base = pwa.base /\ pwa'.inUse = pwa.inUse
      /\ pwa'.processed = pwa.processed /\ pwa'.toPrime = pwa.toPrime
      /\ pwa'.restart = pwa.restart /\ pwa'.lastKnown = pwa.lastKnown /\ pwa'.link = pwa.link
      /\ pwa'.content = pwa.content /\ pwa'.at = pwa.at /\ pwa'.tail = pwa.tail
      /\ pwa'.next = pwa.next /\ pwa'.int = FALSE /\ pwa'.source = pwa.source
      /\ pwa'.played = pwa.played /\ pwa'.isr = pwa.isr /\ pwa'.dpc = pwa.dpc
      /\ pwa'.writer = pwa.writer /\ pwa'.call = pwa.call /\ pwa'.dpcQueued = pwa.dpcQueued
      /\ pwa'.turn = pwa.turn
  BY <1>1 DEF WriteCs, Still, PwaTyped, PwaFields
<1>3. /\ PwaCounting' = PwaCounting /\ PwaClearing' = PwaClearing /\ PwaHeld' = PwaHeld
      /\ PwaWritten' = PwaWritten /\ PwaFirst' = PwaFirst /\ PwaBehind' = PwaBehind
      /\ (PwaGoing' <=> PwaGoing)
  BY <1>2 DEF PwaWritten, PwaHeld, PwaFirst, PwaBehind, PwaCounting, PwaClearing, PwaGoing
<1>4. PwaTyped'
  BY <1>2 DEF PwaTyped
<1>5. ASSUME pwa'.upset = {} PROVE PwaOrder'
  BY <1>2, <1>3, <1>5 DEF PwaGood, PwaOrder
<1>6. ASSUME pwa'.upset = {} PROVE PwaStopped'
  BY <1>2, <1>3, <1>6 DEF PwaGood, PwaStopped
<1>7. ASSUME pwa'.upset = {} PROVE PwaFresh'
  BY <1>2, <1>3, <1>7 DEF PwaGood, PwaFresh
<1>8. ASSUME pwa'.upset = {} PROVE PwaFilling'
  BY <1>2, <1>3, <1>8 DEF PwaGood, PwaFilling, PwaFrom, PwaEmpty, PwaFilled
<1>9. ASSUME pwa'.upset = {} PROVE PwaPlace'
  BY <1>2, <1>3, <1>9 DEF PwaGood, PwaPlace
<1>10. ASSUME pwa'.upset = {} PROVE PwaLinks'
  BY <1>2, <1>3, <1>10 DEF PwaGood, PwaLinks
<1>11. ASSUME pwa'.upset = {} PROVE PwaInterrupt'
  BY <1>2, <1>3, <1>11 DEF PwaGood, PwaInterrupt, PwaRead
<1>12. ASSUME pwa'.upset = {} PROVE PwaSeen'
  BY <1>2, <1>3, <1>12 DEF PwaGood, PwaSeen
<1> QED
  BY <1>4, <1>5, <1>6, <1>7, <1>8, <1>9, <1>10, <1>11, <1>12 DEF PwaInv, PwaGood

\* There was no pause.
LEMMA ResumeIdleKept ==
  ASSUME PwaTyped, PwaGood, pwa.upset = {},
         SetStateRun, ~(pwa.pwm = "pause" /\ ~pwa.active)
  PROVE  PwaInv'
<1>1. /\ Still(pwa) /\ pwa.ks = "pause"
       /\ pwa' = [pwa EXCEPT
                    !.ks = "run", !.pwm = IF @ = "pause" THEN "run" ELSE @,
                    !.upset = @ \cup (IF pwa.pwm = "pause" /\ (pwa.int \/ pwa.isr.pc # "idle")
                                      THEN {"resume"} ELSE {})]
  BY Zenon DEF SetStateRun
<1>2. /\ pwa.ks = "pause" /\ pwa.writer.pc = "idle" /\ pwa.call = "none"
      /\ DOMAIN pwa' = PwaFields /\ pwa'.ks = "run"
      /\ pwa'.pwm = (IF pwa.pwm = "pause" THEN "run" ELSE pwa.pwm)
      /\ pwa'.inRestart = pwa.inRestart /\ pwa'.base = pwa.base /\ pwa'.inUse = pwa.inUse
      /\ pwa'.processed = pwa.processed /\ pwa'.toPrime = pwa.toPrime
      /\ pwa'.restart = pwa.restart /\ pwa'.lastKnown = pwa.lastKnown /\ pwa'.link = pwa.link
      /\ pwa'.content = pwa.content /\ pwa'.at = pwa.at /\ pwa'.tail = pwa.tail
      /\ pwa'.next = pwa.next /\ pwa'.active = pwa.active /\ pwa'.int = pwa.int
      /\ pwa'.source = pwa.source /\ pwa'.played = pwa.played /\ pwa'.isr = pwa.isr
      /\ pwa'.dpc = pwa.dpc /\ pwa'.writer = pwa.writer /\ pwa'.call = pwa.call
      /\ pwa'.dpcQueued = pwa.dpcQueued /\ pwa'.turn = pwa.turn
  BY <1>1 DEF Still, PwaTyped, PwaFields
<1>3. /\ PwaCounting' = PwaCounting /\ PwaClearing' = PwaClearing /\ PwaHeld' = PwaHeld
      /\ PwaWritten' = PwaWritten /\ PwaFirst' = PwaFirst /\ PwaBehind' = PwaBehind
      /\ (PwaGoing' <=> PwaGoing)
  BY <1>2 DEF PwaWritten, PwaHeld, PwaFirst, PwaBehind, PwaCounting, PwaClearing, PwaGoing
<1>4. PwaTyped'
  BY <1>2 DEF PwaTyped
<1>5. ASSUME pwa'.upset = {} PROVE PwaOrder'
  BY <1>2, <1>3, <1>5 DEF PwaGood, PwaOrder
<1>6. ASSUME pwa'.upset = {} PROVE PwaStopped'
  BY <1>2, <1>3, <1>6 DEF PwaGood, PwaStopped
<1>7. ASSUME pwa'.upset = {} PROVE PwaFresh'
  BY <1>2, <1>3, <1>7 DEF PwaGood, PwaFresh
<1>8. ASSUME pwa'.upset = {} PROVE PwaFilling'
  BY <1>2, <1>3, <1>8 DEF PwaGood, PwaFilling, PwaFrom, PwaEmpty, PwaFilled
<1>9. ASSUME pwa'.upset = {} PROVE PwaPlace'
  BY <1>2, <1>3, <1>9 DEF PwaGood, PwaPlace
<1>10. ASSUME pwa'.upset = {} PROVE PwaLinks'
  BY <1>2, <1>3, <1>10 DEF PwaGood, PwaLinks
<1>11. ASSUME pwa'.upset = {} PROVE PwaInterrupt'
  BY <1>2, <1>3, <1>11 DEF PwaGood, PwaInterrupt, PwaRead
<1>12. ASSUME pwa'.upset = {} PROVE PwaSeen'
  BY <1>2, <1>3, <1>12 DEF PwaGood, PwaSeen
<1> QED
  BY <1>4, <1>5, <1>6, <1>7, <1>8, <1>9, <1>10, <1>11, <1>12 DEF PwaInv, PwaGood

\* The stream ends and the driver is reset.
LEMMA SetStateStopKept ==
  ASSUME PwaTyped, PwaGood, pwa.upset = {}, SetStateStop PROVE PwaInv'
<1>1. /\ pwa.writer.pc = "idle" /\ pwa.call = "none"
      /\ pwa'.upset = {} => pwa.isr.pc = "idle" /\ pwa.dpc.pc = "idle" /\ ~pwa.dpcQueued
      /\ DOMAIN pwa' = PwaFields /\ pwa'.ks = "stop" /\ pwa'.pwm = "stop"
      /\ pwa'.inRestart = FALSE /\ pwa'.base = 0 /\ pwa'.inUse = 0 /\ pwa'.processed = 0
      /\ pwa'.toPrime = PwaPreset /\ pwa'.restart = FALSE /\ pwa'.lastKnown = None
      /\ pwa'.link = pwa.link /\ pwa'.content = pwa.content /\ pwa'.at = None /\ pwa'.tail = FALSE
      /\ pwa'.next = pwa.next /\ pwa'.active = FALSE /\ pwa'.int = FALSE /\ pwa'.source = None
      /\ pwa'.played = 0 /\ pwa'.isr = pwa.isr /\ pwa'.dpc = pwa.dpc /\ pwa'.writer = pwa.writer
      /\ pwa'.call = pwa.call /\ pwa'.dpcQueued = pwa.dpcQueued /\ pwa'.turn = pwa.turn
  BY DEF SetStateStop, Underway, Still, PwaTyped, PwaFields
<1>2. /\ PwaCounting' = 0 /\ ~PwaGoing'
  BY <1>1 DEF PwaWritten, PwaHeld, PwaFirst, PwaBehind, PwaCounting, PwaClearing, PwaGoing
<1>3. PwaTyped'
  <2>1. pwa'.toPrime \in Int
    BY <1>1, PwaAssumption DEF PwaPreset
  <2>2. pwa'.inRestart \in BOOLEAN /\ pwa'.restart \in BOOLEAN
    BY <1>1
  <2>3. pwa'.tail \in BOOLEAN /\ pwa'.active \in BOOLEAN /\ pwa'.int \in BOOLEAN
    BY <1>1
  <2> QED
    BY <1>1, <2>1, <2>2, <2>3 DEF PwaTyped
<1>4. ASSUME pwa'.upset = {} PROVE PwaOrder'
  <2>1. pwa'.inUse + PwaCounting' <= PwaNum
    BY <1>1, <1>2, PwaAssumption
  <2> QED
    BY <1>1, <1>2, <2>1 DEF PwaOrder
<1>5. ASSUME pwa'.upset = {} PROVE PwaStopped'
  BY <1>1, <1>5 DEF PwaStopped
<1>6. ASSUME pwa'.upset = {} PROVE PwaFresh'
  BY <1>1, <1>6 DEF PwaFresh
<1>7. ASSUME pwa'.upset = {} PROVE PwaFilling'
  BY <1>1 DEF PwaFilling
<1>8. ASSUME pwa'.upset = {} PROVE PwaPlace'
  BY <1>1, <1>2 DEF PwaPlace, PwaGoing
<1>9. ASSUME pwa'.upset = {} PROVE PwaLinks'
  BY <1>1, <1>2 DEF PwaLinks, PwaGoing
<1>10. ASSUME pwa'.upset = {} PROVE PwaInterrupt'
  BY <1>1, <1>2 DEF PwaInterrupt, PwaGoing
<1>11. ASSUME pwa'.upset = {} PROVE PwaSeen'
  BY <1>1, <1>2, <1>11 DEF PwaSeen
<1> QED
  BY <1>3, <1>4, <1>5, <1>6, <1>7, <1>8, <1>9, <1>10, <1>11 DEF PwaInv, PwaGood

-----------------------------------------------------------------------------
(* The invariant, and what it says of the stream *)

\* The audio stream starts in the invariant.
LEMMA PwaInitially == PwaInit => PwaInv
<1> SUFFICES ASSUME PwaInit PROVE PwaInv
  OBVIOUS
<1>1. IdleIsr \in PwaIsrStates /\ IdleWriter \in PwaWriterStates
  BY IdleIsrTyped DEF IdleWriter, PwaWriterStates
<1>2. [pc |-> "idle", active |-> FALSE] \in PwaDpcStates
  BY DEF PwaDpcStates
<1>3. PwaTyped
  <2>1. pwa.link \in [Slots -> BOOLEAN] /\ DOMAIN pwa.content = Slots
    BY DEF PwaInit
  <2> QED
    BY <1>1, <1>2, <2>1 DEF PwaInit, PwaTyped, PwaFields
<1>4. PwaCounting = 0 /\ ~PwaGoing /\ pwa.isr.pc = "idle"
  BY DEF PwaInit, PwaCounting, PwaGoing, IdleIsr, IdleWriter
<1>5. PwaOrder
  BY <1>4, PwaAssumption DEF PwaInit, PwaOrder, IdleWriter
<1>6. PwaStopped /\ PwaFresh /\ PwaFilling /\ PwaSeen
  BY <1>4 DEF PwaInit, PwaStopped, PwaFresh, PwaFilling, PwaSeen, IdleIsr
<1>7. PwaPlace /\ PwaLinks /\ PwaInterrupt
  BY <1>4 DEF PwaPlace, PwaLinks, PwaInterrupt
<1> QED
  BY <1>3, <1>5, <1>6, <1>7 DEF PwaInv, PwaGood

\* Every step keeps it.
LEMMA PwaStep == PwaInv /\ [PwaNext]_pwa => PwaInv'
<1>1. ASSUME PwaInv, UNCHANGED pwa PROVE PwaInv'
  BY <1>1
  DEF PwaInv, PwaGood, PwaTyped, PwaOrder, PwaStopped, PwaFresh, PwaFilling, PwaPlace, PwaLinks,
              PwaInterrupt, PwaSeen, PwaEmpty, PwaFilled, PwaFrom, PwaGoing, PwaRead, PwaHeld,
              PwaWritten, PwaFirst, PwaBehind, PwaCounting, PwaClearing
<1>2. ASSUME PwaInv, PwaNext PROVE PwaInv'
  <2>1. PwaTyped /\ PwaGood /\ pwa.upset = {}
    BY <1>2 DEF PwaInv, PwaNext
  <2>2. CASE PwaDma
    BY <2>1, <2>2, DmaEntersTailKept, DmaEndsPacketKept DEF PwaDma
  <2>3. CASE PwaIsr
    BY <2>1, <2>3, DmaIsrConblkKept, DmaIsrCsKept, DmaIsrWriteKept, IsrSpuriousKept,
       IsrRanDryKept,
       DmaIsrUnlinkKept, DmaIsrCountKept DEF PwaIsr
  <2>4. CASE PwaDpc
    BY <2>1, <2>4, DmaDpcCsKept, DmaDpcCheckKept, DpcSpuriousKept, DpcRanDryKept, DmaDpcNotifyKept
    DEF PwaDpc
  <2>5. CASE SetWritePacket
    BY <2>1, <2>5, WriteRestartKept, WriteOverrunKept, WriteFirstKept, WriteNextKept,
       WriteCountKept,
       WritePrimeKept, WriteExchangeKept, StartAudioKept DEF SetWritePacket
  <2>6. CASE SetState
    BY <2>1, <2>6, SetStateRunFirstKept, PauseBeginsKept, PauseIdleKept, PauseDmaKept,
       ResumeDmaKept,
       ResumeIdleKept, SetStateStopKept DEF SetState
  <2> QED
    BY <1>2, <2>2, <2>3, <2>4, <2>5, <2>6 DEF PwaNext
<1> QED
  BY <1>1, <1>2

\* While the DMA plays, what it will play without another link are packets held, one after the
\* other behind the one under way.
LEMMA PwaAhead ==
  ASSUME PwaInv, Playing
  PROVE  /\ PwaGoing /\ Unaccounted(pwa) = PwaBehind
         /\ \A k \in Ahead : /\ k \in Nat /\ PwaBehind + k < PwaHeld
                             /\ (pwa.at + k) % PwaNum = PwaSlot(PwaFirst + PwaBehind + k)
<1> USE PwaAssumption
<1>1. PwaTyped /\ PwaGood /\ PwaGoing
  BY DEF Playing, PwaInv, PwaGood, PwaStopped
<1>2. /\ pwa.at = PwaSlot(PwaFirst + PwaBehind) /\ PwaBehind < PwaHeld
      /\ pwa.lastKnown = PwaLast(PwaFirst)
      /\ pwa.tail => (pwa.next => PwaBehind + 1 < PwaHeld)
  BY <1>1 DEF Playing, PwaGood, PwaPlace
<1>3. /\ PwaFirst \in Nat /\ PwaBehind \in 0..PwaNum - 1 /\ PwaHeld \in 1..PwaNum
      /\ \A k \in 0..PwaNum - 1 : pwa.link[PwaSlot(PwaFirst + k)] => k < PwaHeld
  BY <1>1, PwaWindow
<1>4. Unaccounted(pwa) = PwaBehind
  BY <1>2, <1>3, PwaSlotBack DEF Unaccounted
<1>5. ASSUME NEW k \in Nat PROVE (pwa.at + k) % PwaNum = PwaSlot(PwaFirst + PwaBehind + k)
  <2>1. PwaFirst + PwaBehind \in Nat
    BY <1>3
  <2> QED
    BY <1>2, <2>1, PwaSlotAdd
<1>6. ASSUME NEW k \in Ahead PROVE k \in Nat /\ PwaBehind + k < PwaHeld
  <2>1. /\ k \in 0..PwaNum - 1 - PwaBehind
        /\ \A j \in 1..k : IF j = 1 /\ pwa.tail THEN pwa.next ELSE pwa.link[(pwa.at + j) % PwaNum]
    BY <1>4 DEF Ahead
  <2>2. CASE k = 0
    BY <1>2, <1>3, <2>2
  <2>3. CASE k = 1 /\ pwa.tail
    BY <1>2, <1>3, <2>1, <2>3
  <2>4. CASE k > 0 /\ ~(k = 1 /\ pwa.tail)
    <3>1. k \in 1..k /\ k \in Nat /\ PwaBehind + k \in 0..PwaNum - 1
      BY <1>3, <2>1, <2>4
    <3>2. pwa.link[(pwa.at + k) % PwaNum]
      BY <2>1, <2>4, <3>1
    <3>3. PwaFirst + PwaBehind + k = PwaFirst + (PwaBehind + k)
      BY <1>3, <3>1
    <3>4. pwa.link[PwaSlot(PwaFirst + (PwaBehind + k))]
      BY <1>5, <3>1, <3>2, <3>3
    <3> QED
      BY <1>3, <3>1, <3>4
  <2> QED
    BY <2>1, <2>2, <2>3, <2>4
<1> QED
  BY <1>1, <1>4, <1>5, <1>6

\* A packet is followed by the next the client wrote.
LEMMA PwaPlaysOn == PwaInv => PwaPlaysInOrder
<1> SUFFICES ASSUME PwaInv, Playing, NEW k \in Ahead \ {0},
                    pwa.content[(pwa.at + k - 1) % PwaNum] # Silence
             PROVE  pwa.content[(pwa.at + k) % PwaNum] = pwa.content[(pwa.at + k - 1) % PwaNum] + 1
  BY DEF PwaPlaysInOrder
<1> DEFINE n == PwaFirst + PwaBehind + k - 1
<1>1. PwaTyped /\ PwaGood /\ PwaGoing
  BY PwaAhead DEF Playing, PwaInv
<1>2. /\ k \in Nat /\ k > 0 /\ PwaBehind + k < PwaHeld
      /\ PwaFirst \in Nat /\ PwaBehind \in Nat /\ PwaHeld \in Nat /\ PwaWritten = PwaFirst + PwaHeld
      /\ (pwa.at + k) % PwaNum = PwaSlot(PwaFirst + PwaBehind + k)
  BY <1>1, PwaAhead, PwaWindow, PwaNumbers
<1>3. n \in PwaFirst..PwaWritten - 1 /\ n + 1 \in PwaFirst..PwaWritten - 1 /\ n \in Nat
  BY <1>2
<1>4. (pwa.at + k) % PwaNum = PwaSlot(n + 1)
  <2>1. n + 1 = PwaFirst + PwaBehind + k
    BY <1>2
  <2> QED
    BY <1>2, <2>1
<1>5. (pwa.at + k - 1) % PwaNum = PwaSlot(n)
  <2>1. /\ pwa.at = PwaSlot(PwaFirst + PwaBehind) /\ pwa.at \in Slots
    BY <1>1, <1>2, PwaSlots DEF Playing, PwaGood, PwaPlace
  <2>2. pwa.at + k - 1 = pwa.at + (k - 1) /\ k - 1 \in Nat /\ PwaFirst + PwaBehind \in Nat
    BY <1>2, <2>1, PwaAssumption DEF Slots
  <2>3. n = PwaFirst + PwaBehind + (k - 1)
    BY <1>2
  <2> QED
    BY <2>1, <2>2, <2>3, PwaSlotAdd
<1>6. /\ pwa.content[PwaSlot(n)] = pwa.base + n \/ pwa.content[PwaSlot(n)] = Silence
      /\ pwa.content[PwaSlot(n + 1)] = pwa.base + (n + 1)
  <2>1. \A m \in PwaFirst..PwaWritten - 1 :
          pwa.content[PwaSlot(m)] = pwa.base + m \/ (m = 0 /\ pwa.content[0] = Silence)
    BY <1>1 DEF PwaGood, PwaLinks
  <2>2. PwaSlot(0) = 0
    BY PwaSlots, PwaAssumption DEF Slots
  <2>3. n + 1 # 0
    BY <1>3
  <2> HIDE DEF n
  <2> QED
    BY <1>3, <2>1, <2>2, <2>3
<1>7. pwa.content[PwaSlot(n)] = pwa.base + n
  BY <1>5, <1>6
<1>8. pwa.base + (n + 1) = pwa.base + n + 1
  BY <1>1, <1>3 DEF PwaTyped
<1> HIDE DEF n
<1> QED
  BY <1>4, <1>5, <1>6, <1>7, <1>8

\* DmaPacketsInUse counts what is still to be played, and never more than the buffer.
LEMMA PwaCovered == PwaInv => PwaInUseCovers
<1>1. ASSUME PwaInv, Playing PROVE pwa.inUse + PwaCounting >= Cardinality(Ahead)
  <2>1. PwaTyped /\ PwaGood /\ PwaGoing
    BY <1>1, PwaAhead DEF Playing, PwaInv
  <2>2. /\ PwaHeld \in Nat /\ PwaBehind \in Nat /\ PwaHeld <= pwa.inUse + PwaCounting
        /\ pwa.inUse \in Int /\ PwaCounting \in Int
    BY <2>1, PwaWindow, PwaNumbers DEF PwaTyped
  <2>3. Ahead \subseteq 0..PwaHeld - 1
    BY <1>1, <2>2, PwaAhead
  <2>4. IsFiniteSet(0..PwaHeld - 1) /\ Cardinality(0..PwaHeld - 1) = PwaHeld
    <3>1. 0 - 1 < PwaHeld /\ 0 \in Int /\ PwaHeld - 1 \in Int
      BY <2>2
    <3>2. Cardinality(0..PwaHeld - 1) = IF 0 > PwaHeld - 1 THEN 0 ELSE PwaHeld - 1 - 0 + 1
      BY <3>1, FS_Interval
    <3> QED
      BY <2>2, <3>1, <3>2, FS_Interval
  <2>5. Cardinality(Ahead) <= PwaHeld /\ Cardinality(Ahead) \in Nat
    BY <2>3, <2>4, FS_Subset, FS_CardinalityType
  <2> QED
    BY <2>2, <2>5
<1>2. ASSUME PwaInv, pwa.upset = {} PROVE pwa.inUse <= PwaNum
  BY <1>2, PwaNumbers, PwaAssumption DEF PwaInv, PwaGood, PwaOrder, PwaTyped
<1> QED
  BY <1>1, <1>2 DEF PwaInUseCovers, PwaCounting

\* Where nothing is under way, a DMA that ran dry has been noticed.
LEMMA PwaNoticed == PwaInv => PwaUnderflowSeen
BY DEF PwaInv, PwaGood, PwaSeen, PwaGoing, PwaUnderflowSeen, Quiet

\* What is accounted is what was played, or less while an account is due.
LEMMA PwaPositioned == PwaInv => PwaPositionTrue
<1> SUFFICES ASSUME PwaTyped, PwaGood
             PROVE  pwa.processed <= pwa.played /\ (pwa.restart => pwa.processed = pwa.played)
  BY DEF PwaInv, PwaPositionTrue, Quiet
<1>1. CASE PwaGoing
  <2>1. PwaBehind \in Nat /\ PwaClearing \in Nat
    BY <1>1, PwaWindow, PwaNumbers
  <2> QED
    BY <1>1, <2>1 DEF PwaBehind, PwaGoing, PwaTyped
<1>2. CASE ~PwaGoing
  BY <1>2 DEF PwaGood, PwaStopped, PwaTyped
<1> QED
  BY <1>1, <1>2

-----------------------------------------------------------------------------
\* Every set of naturals that is not empty has a least element.
LEMMA Least ==
  ASSUME NEW T, T \subseteq Nat, T # {}
  PROVE  \E m \in T : \A k \in T : ~(k < m)
<1> DEFINE Below == {0 .. m : m \in T}
<1>1. IsWellFoundedOn(StrictSubsetOrdering(Nat), FiniteSubsetsOf(Nat))
  BY FS_StrictSubsetOrderingWellFounded
<1>2. Below \subseteq FiniteSubsetsOf(Nat) /\ Below # {}
  <2>1. ASSUME NEW m \in T PROVE 0 .. m \in SUBSET Nat /\ IsFiniteSet(0 .. m)
    BY <2>1, FS_Interval
  <2> QED
    BY <2>1 DEF FiniteSubsetsOf
<1>3. PICK x \in Below : \A y \in Below : ~(<<y, x>> \in StrictSubsetOrdering(Nat))
  <2> HIDE DEF Below
  <2> QED
    BY <1>1, <1>2, WFMin
<1>4. PICK m \in T : x = 0 .. m
  BY <1>3
<1>5. ASSUME NEW k \in T, k < m PROVE FALSE
  <2>1. 0 .. k \in Below /\ 0 .. k \subseteq 0 .. m /\ m \in 0 .. m /\ m \notin 0 .. k
    BY <1>5
  <2>2. 0 .. k \in SUBSET Nat /\ 0 .. m \in SUBSET Nat /\ 0 .. k # 0 .. m
    BY <2>1
  <2>3. <<0 .. k, 0 .. m>> \in StrictSubsetOrdering(Nat)
    BY <2>1, <2>2 DEF StrictSubsetOrdering
  <2> QED
    BY <1>3, <1>4, <2>1, <2>3
<1> QED
  BY <1>5

\* What a step of the receive side may assume of the record it changes.
MrxFields == {"load", "ctx", "cur", "queue", "timer", "ended", "faults", "arrived", "dpc", "op",
              "copied", "newbuf", "ring", "BufferSize", "first", "slot", "count", "base", "len",
              "buf", "need", "CountOnLastRead", "ReadByIsr", "XonLimit", "XoffLimit", "lines",
              "RXHolding", "send", "ErrorWord", "received", "lost"}
MrxLines == {"dtr", "rts", "xoff"}

MrxTyped(s) ==
  /\ DOMAIN s = MrxFields
  /\ DOMAIN s.ctx = MrxRequests
  /\ \A r \in MrxRequests : DOMAIN s.ctx[r] = {"refs", "mark", "status", "info", "cancelled"}
  /\ s.arrived \subseteq MrxRequests
  /\ DOMAIN s.cur = {"read"} /\ s.cur["read"] \in s.arrived \cup {NoReq}
  /\ DOMAIN s.queue = {"read"} /\ s.queue["read"] \in Seq(s.arrived)
  /\ s.len \in [MrxReads -> Int]
  /\ s.count \in Int /\ s.need \in Int /\ s.copied \in Int /\ s.BufferSize \in Int
  /\ s.base \in {"int", "user"}
  /\ s.lines \subseteq MrxLines /\ s.RXHolding \subseteq MrxLines

\* The limits of the flow control leave room between them; so a sender is only held while more
\* than XonLimit characters wait, and it is let go when there are fewer.
MrxLimits(s) ==
  /\ s.XonLimit \in Nat /\ s.XoffLimit \in Nat
  /\ s.XonLimit + s.XoffLimit < s.BufferSize

MrxReleased(s) ==
  s.count <= s.XonLimit =>
    /\ s.RXHolding \subseteq {"xoff"}
    /\ "xoff" \in s.RXHolding => s.send = "xon"

\* While a read is started the ISR writes into the interrupt buffer; it writes into the buffer of
\* a read only when the interrupt buffer is empty, and its reference is taken back by its DPC.
MrxHanded(s) ==
  /\ s.op \in {"get", "switch", "move", "tonew"} => s.base = "int" /\ "read" \notin s.dpc
  /\ s.op \in {"get", "switch", "move", "tonew", "arm"} => Cur(s) # NoReq
  /\ s.op \in {"move", "tonew"} => Cur(s) \in DOMAIN MrxSizes
  /\ s.op = "tonew" => MrxSizes[Cur(s)] > 0
  /\ s.base = "user" => /\ s.count = 0 /\ Cur(s) # NoReq /\ "isr" \in s.ctx[Cur(s)].refs
                        /\ "read" \notin s.dpc
  /\ "read" \in s.dpc => Cur(s) # NoReq /\ "isr" \in s.ctx[Cur(s)].refs

MrxGood(s) == MrxTyped(s) /\ MrxLimits(s) /\ MrxReleased(s) /\ MrxHanded(s)

\* t differs from s in the contexts, timers and completions of requests only.
MrxBeside(s, t) ==
  /\ MrxTyped(t)
  /\ \A f \in MrxFields \ {"ctx", "timer", "ended", "faults"} : t[f] = s[f]

\* Whoever held the ISR's reference still does.
IsrStays(s, t) == \A r \in MrxRequests : "isr" \in s.ctx[r].refs => "isr" \in t.ctx[r].refs

\* What the invariant reads of the fields that did not change.
LEMMA BesideReads ==
  ASSUME NEW s, NEW t, MrxBeside(s, t)
  PROVE  /\ t.cur = s.cur /\ Cur(t) = Cur(s) /\ t.queue = s.queue /\ t.op = s.op /\ t.base = s.base
         /\ t.dpc = s.dpc /\ t.count = s.count /\ t.XonLimit = s.XonLimit
         /\ t.XoffLimit = s.XoffLimit /\ t.BufferSize = s.BufferSize /\ t.RXHolding = s.RXHolding
         /\ t.send = s.send /\ t.need = s.need /\ t.copied = s.copied /\ t.len = s.len
         /\ t.load = s.load /\ t.lines = s.lines
BY DEF MrxBeside, MrxFields, Cur

\* Requests and references come and go without touching the buffers.
LEMMA BesideGood ==
  ASSUME NEW s, NEW t, MrxGood(s), MrxBeside(s, t), IsrStays(s, t)
  PROVE  MrxGood(t)
<1>1. MrxTyped(s) /\ MrxTyped(t)
  BY DEF MrxGood, MrxBeside
<1>2. MrxLimits(t) /\ MrxReleased(t)
  BY BesideReads DEF MrxGood, MrxLimits, MrxReleased
<1>3. Cur(s) # NoReq => Cur(s) \in MrxRequests
  BY <1>1 DEF MrxTyped, Cur
<1>4. MrxHanded(t)
  BY <1>3, BesideReads DEF MrxGood, MrxHanded, IsrStays
<1> QED
  BY <1>1, <1>2, <1>4 DEF MrxGood

\* Two such steps are one, ...
LEMMA BesideChain ==
  ASSUME NEW s, NEW t, NEW u, MrxBeside(s, t), MrxBeside(t, u)
  PROVE  MrxBeside(s, u)
BY DEF MrxBeside

\* ... and none is one.
LEMMA BesideSelf ==
  ASSUME NEW s, MrxTyped(s)
  PROVE  MrxBeside(s, s) /\ IsrStays(s, s)
BY DEF MrxBeside, IsrStays

\* A failed ASSERT is remembered.
LEMMA FaultIs ==
  ASSUME NEW s, MrxTyped(s), NEW name
  PROVE  MrxBeside(s, Fault(s, name)) /\ Fault(s, name).ctx = s.ctx
BY DEF Fault, MrxBeside, MrxTyped, MrxFields

\* A change of one context.
WithContext(s, r, c) == [s EXCEPT !.ctx[r] = c]

\* Replacing the context of a request replaces nothing else.
LEMMA ContextIs ==
  ASSUME NEW s, MrxTyped(s), NEW r, NEW c,
         DOMAIN c = {"refs", "mark", "status", "info", "cancelled"}
  PROVE  /\ MrxBeside(s, WithContext(s, r, c)) /\ MrxTyped(WithContext(s, r, c))
         /\ \A q \in MrxRequests : WithContext(s, r, c).ctx[q] = IF q = r THEN c ELSE s.ctx[q]
<1> DEFINE t == WithContext(s, r, c)
<1>1. /\ DOMAIN t = MrxFields /\ t.ctx = [s.ctx EXCEPT ![r] = c]
      /\ \A f \in MrxFields \ {"ctx"} : t[f] = s[f]
  BY DEF MrxTyped, MrxFields, WithContext
<1> HIDE DEF t
<1>2. /\ DOMAIN t.ctx = MrxRequests
      /\ \A q \in MrxRequests : t.ctx[q] = IF q = r THEN c ELSE s.ctx[q]
  BY <1>1 DEF MrxTyped
<1>3. MrxTyped(t)
  BY <1>1, <1>2 DEF MrxTyped, MrxFields
<1>4. MrxBeside(s, t)
  BY <1>1, <1>3 DEF MrxBeside
<1> QED
  BY <1>2, <1>3, <1>4 DEF t

\* A change of the references of one request.
WithRefs(s, r, x) == WithContext(s, r, [s.ctx[r] EXCEPT !.refs = x])

\* A request whose references alone are replaced.
LEMMA RefsAre ==
  ASSUME NEW s, MrxTyped(s), NEW r \in MrxRequests, NEW x
  PROVE  /\ MrxBeside(s, WithRefs(s, r, x)) /\ MrxTyped(WithRefs(s, r, x))
         /\ WithRefs(s, r, x).ctx[r].refs = x
         /\ \A q \in MrxRequests : q # r => WithRefs(s, r, x).ctx[q] = s.ctx[q]
<1> DEFINE c == [s.ctx[r] EXCEPT !.refs = x]
<1>1. DOMAIN c = {"refs", "mark", "status", "info", "cancelled"} /\ c.refs = x
  BY DEF MrxTyped
<1>2. WithRefs(s, r, x) = WithContext(s, r, c)
  BY DEF WithRefs
<1> HIDE DEF c
<1> QED
  BY <1>1, <1>2, ContextIs

\* SERIAL_SET_REFERENCE adds one reference, ...
LEMMA SetReferenceIs ==
  ASSUME NEW s, MrxTyped(s), NEW r \in MrxRequests, NEW ref
  PROVE  /\ MrxBeside(s, SERIAL_SET_REFERENCE(s, r, ref))
         /\ MrxTyped(SERIAL_SET_REFERENCE(s, r, ref))
         /\ IsrStays(s, SERIAL_SET_REFERENCE(s, r, ref))
         /\ ref \in SERIAL_SET_REFERENCE(s, r, ref).ctx[r].refs
<1> DEFINE t == SERIAL_SET_REFERENCE(s, r, ref)
           u == WithRefs(s, r, s.ctx[r].refs \cup {ref})
<1>1. t = u \/ t = Fault(u, "SERIAL_SET_REFERENCE")
  BY DEF SERIAL_SET_REFERENCE, WithRefs, WithContext, MrxTyped, MrxFields
<1>2. /\ MrxBeside(s, u) /\ MrxTyped(u) /\ u.ctx[r].refs = s.ctx[r].refs \cup {ref}
      /\ \A q \in MrxRequests : q # r => u.ctx[q] = s.ctx[q]
  BY RefsAre
<1> HIDE DEF u, t
<1>3. MrxBeside(u, t) /\ t.ctx = u.ctx
  BY <1>1, <1>2, FaultIs, BesideSelf
<1>4. MrxBeside(s, t) /\ MrxTyped(t)
  BY <1>2, <1>3, BesideChain DEF MrxBeside
<1> QED
  BY <1>2, <1>3, <1>4 DEF IsrStays, t

\* ... SERIAL_CLEAR_REFERENCE takes one away.
LEMMA ClearReferenceIs ==
  ASSUME NEW s, MrxTyped(s), NEW r \in MrxRequests, NEW ref
  PROVE  /\ MrxBeside(s, SERIAL_CLEAR_REFERENCE(s, r, ref))
         /\ MrxTyped(SERIAL_CLEAR_REFERENCE(s, r, ref))
         /\ SERIAL_CLEAR_REFERENCE(s, r, ref).ctx[r].refs = s.ctx[r].refs \ {ref}
         /\ \A q \in MrxRequests : q # r => SERIAL_CLEAR_REFERENCE(s, r, ref).ctx[q] = s.ctx[q]
         /\ ref # "isr" => IsrStays(s, SERIAL_CLEAR_REFERENCE(s, r, ref))
<1> DEFINE t == SERIAL_CLEAR_REFERENCE(s, r, ref)
           u == WithRefs(s, r, s.ctx[r].refs \ {ref})
<1>1. t = u \/ t = Fault(u, "SERIAL_CLEAR_REFERENCE")
  BY DEF SERIAL_CLEAR_REFERENCE, WithRefs, WithContext, MrxTyped, MrxFields
<1>2. /\ MrxBeside(s, u) /\ MrxTyped(u) /\ u.ctx[r].refs = s.ctx[r].refs \ {ref}
      /\ \A q \in MrxRequests : q # r => u.ctx[q] = s.ctx[q]
  BY RefsAre
<1> HIDE DEF u, t
<1>3. MrxBeside(u, t) /\ t.ctx = u.ctx
  BY <1>1, <1>2, FaultIs, BesideSelf
<1>4. MrxBeside(s, t) /\ MrxTyped(t)
  BY <1>2, <1>3, BesideChain DEF MrxBeside
<1> QED
  BY <1>2, <1>3, <1>4 DEF IsrStays, t

\* A completed request keeps what references it has.
LEMMA CompleteRequestIs ==
  ASSUME NEW s, MrxTyped(s), NEW r \in MrxRequests, NEW status, NEW info
  PROVE  /\ MrxBeside(s, SerialCompleteRequest(s, r, status, info))
         /\ MrxTyped(SerialCompleteRequest(s, r, status, info))
         /\ \A q \in MrxRequests : SerialCompleteRequest(s, r, status, info).ctx[q].refs = s.ctx[q].refs
<1> DEFINE t == SerialCompleteRequest(s, r, status, info)
           c == [s.ctx[r] EXCEPT !.status = status, !.info = info, !.mark = "no", !.cancelled = FALSE]
           u == WithContext(s, r, c)
           e == [s.ended EXCEPT ![r] = IF @ < 2 THEN @ + 1 ELSE @]
           v == [u EXCEPT !.ended = e]
<1>1. DOMAIN c = {"refs", "mark", "status", "info", "cancelled"} /\ c.refs = s.ctx[r].refs
  BY DEF MrxTyped
<1>2. t = v \/ t = Fault(v, "SerialCompleteRequest")
  <2> DEFINE w == [s EXCEPT !.ended[r] = IF @ < 2 THEN @ + 1 ELSE @,
                            !.ctx[r] = [@ EXCEPT !.status = status, !.info = info,
                                                 !.mark = "no", !.cancelled = FALSE]]
  <2>1. t = w \/ t = Fault(w, "SerialCompleteRequest")
    BY DEF SerialCompleteRequest
  <2> HIDE DEF t
  <2>2. w = [s EXCEPT !.ended = e, !.ctx[r] = c]
    BY DEF MrxTyped, MrxFields
  <2>3. [s EXCEPT !.ended = e, !.ctx[r] = c] = v
    <3> HIDE DEF e, c
    <3> QED
      BY DEF MrxTyped, MrxFields, WithContext
  <2> HIDE DEF v, w
  <2> QED
    BY <2>1, <2>2, <2>3
<1> HIDE DEF c, e, t
<1>3. MrxBeside(s, u) /\ MrxTyped(u) /\ \A q \in MrxRequests : u.ctx[q].refs = s.ctx[q].refs
  BY <1>1, ContextIs
<1> HIDE DEF u
<1>4. MrxBeside(u, v) /\ v.ctx = u.ctx /\ MrxTyped(v)
  BY <1>3 DEF MrxBeside, MrxTyped, MrxFields
<1> HIDE DEF v
<1>5. MrxBeside(v, t) /\ t.ctx = v.ctx
  BY <1>2, <1>4, FaultIs, BesideSelf
<1>6. MrxBeside(s, t) /\ MrxTyped(t)
  BY <1>3, <1>4, <1>5, BesideChain DEF MrxBeside
<1> QED
  BY <1>3, <1>4, <1>5, <1>6 DEF t

\* A timer is started or stopped.
LEMMA TimerIs ==
  ASSUME NEW s, MrxTyped(s), NEW n
  PROVE  /\ MrxBeside(s, SerialCancelTimer(s, n)) /\ MrxTyped(SerialCancelTimer(s, n))
         /\ SerialCancelTimer(s, n).ctx = s.ctx
         /\ MrxBeside(s, SerialSetTimer(s, n)) /\ MrxTyped(SerialSetTimer(s, n))
         /\ SerialSetTimer(s, n).ctx = s.ctx
<1>1. ASSUME NEW x PROVE /\ MrxBeside(s, [s EXCEPT !.timer = x]) /\ MrxTyped([s EXCEPT !.timer = x])
                         /\ [s EXCEPT !.timer = x].ctx = s.ctx
  BY DEF MrxBeside, MrxTyped, MrxFields
<1>2. /\ MrxBeside(s, SerialCancelTimer(s, n)) /\ MrxTyped(SerialCancelTimer(s, n))
      /\ SerialCancelTimer(s, n).ctx = s.ctx
  <2> DEFINE x == [s.timer EXCEPT ![n] = @ \ {"set"}]
  <2>1. SerialCancelTimer(s, n) = [s EXCEPT !.timer = x]
    BY DEF SerialCancelTimer, MrxTyped, MrxFields
  <2> HIDE DEF x
  <2> QED
    BY <1>1, <2>1
<1>3. /\ MrxBeside(s, SerialSetTimer(s, n)) /\ MrxTyped(SerialSetTimer(s, n))
      /\ SerialSetTimer(s, n).ctx = s.ctx
  <2> DEFINE x == [s.timer EXCEPT ![n] = @ \cup {"set"}]
  <2>1. SerialSetTimer(s, n) = [s EXCEPT !.timer = x]
    BY DEF SerialSetTimer, MrxTyped, MrxFields
  <2> HIDE DEF x
  <2> QED
    BY <1>1, <2>1
<1> QED
  BY <1>2, <1>3

\* A timer that is started, or was wanted and could not be, ...
LEMMA StartTimerIs ==
  ASSUME NEW s, MrxTyped(s), NEW r \in MrxRequests, NEW n, NEW ref
  PROVE  /\ MrxBeside(s, StartTimer(s, r, n, ref)) /\ MrxTyped(StartTimer(s, r, n, ref))
         /\ IsrStays(s, StartTimer(s, r, n, ref))
<1> DEFINE t == StartTimer(s, r, n, ref)
           u == SerialSetTimer(s, n)
<1>1. MrxBeside(s, u) /\ MrxTyped(u) /\ u.ctx = s.ctx
  BY TimerIs
<1>2. t = u \/ t = SERIAL_SET_REFERENCE(u, r, ref)
  BY DEF StartTimer
<1> HIDE DEF u, t
<1>3. MrxBeside(u, t) /\ IsrStays(u, t)
  BY <1>1, <1>2, SetReferenceIs, BesideSelf
<1>4. MrxBeside(s, t) /\ MrxTyped(t)
  BY <1>1, <1>3, BesideChain DEF MrxBeside
<1> QED
  BY <1>1, <1>3, <1>4 DEF IsrStays, t

\* ... and one that is cancelled with its reference: the ISR's reference stays.
LEMMA RundownTimerIs ==
  ASSUME NEW s, MrxTyped(s), NEW r \in MrxRequests, NEW n, NEW ref, ref # "isr", NEW caller
  PROVE  /\ MrxBeside(s, RundownTimer(s, r, n, ref, caller))
         /\ MrxTyped(RundownTimer(s, r, n, ref, caller))
         /\ IsrStays(s, RundownTimer(s, r, n, ref, caller))
<1> DEFINE t == RundownTimer(s, r, n, ref, caller)
           u == SerialCancelTimer(s, n)
<1>1. MrxBeside(s, u) /\ MrxTyped(u) /\ u.ctx = s.ctx
  BY TimerIs
<1>2. t = s \/ t = SERIAL_CLEAR_REFERENCE(u, r, ref)
  BY DEF RundownTimer
<1> HIDE DEF u, t
<1>3. CASE t = s
  BY <1>3, BesideSelf DEF t
<1>4. CASE t = SERIAL_CLEAR_REFERENCE(u, r, ref)
  <2>1. MrxBeside(u, t) /\ IsrStays(u, t)
    BY <1>1, <1>4, ClearReferenceIs
  <2>2. MrxBeside(s, t) /\ MrxTyped(t)
    BY <1>1, <2>1, BesideChain DEF MrxBeside
  <2> QED
    BY <1>1, <2>1, <2>2 DEF IsrStays, t
<1> QED
  BY <1>2, <1>3, <1>4

\* A change of one context that leaves its references.
SameRefs(s, t) == \A q \in MrxRequests : t.ctx[q].refs = s.ctx[q].refs

\* A context with the references it had.
LEMMA ContextKeepsRefs ==
  ASSUME NEW s, MrxTyped(s), NEW r \in MrxRequests, NEW c,
         DOMAIN c = {"refs", "mark", "status", "info", "cancelled"}, c.refs = s.ctx[r].refs
  PROVE  /\ MrxBeside(s, WithContext(s, r, c)) /\ MrxTyped(WithContext(s, r, c))
         /\ SameRefs(s, WithContext(s, r, c))
BY ContextIs DEF SameRefs

\* A request is no longer cancellable, ...
LEMMA ClearCancelIs ==
  ASSUME NEW s, MrxTyped(s), NEW r \in MrxRequests, NEW also \in BOOLEAN
  PROVE  /\ MrxBeside(s, SerialClearCancelRoutine(s, r, also))
         /\ MrxTyped(SerialClearCancelRoutine(s, r, also))
         /\ IsrStays(s, SerialClearCancelRoutine(s, r, also))
<1> DEFINE t == SerialClearCancelRoutine(s, r, also)
           c == [s.ctx[r] EXCEPT !.mark = "no", !.refs = IF also THEN @ \ {"cancel"} ELSE @]
           u == WithContext(s, r, c)
<1>1. t = s \/ t = u
  <2> DEFINE v == [s EXCEPT !.ctx[r].mark = "no",
                            !.ctx[r].refs = IF also THEN @ \ {"cancel"} ELSE @]
  <2>1. t = s \/ t = v
    BY DEF SerialClearCancelRoutine
  <2>2. CASE also
    <3>1. v = u
      BY <2>2, ZenonT(60) DEF MrxTyped, MrxFields, WithContext
    <3> QED
      BY <2>1, <3>1
  <2>3. CASE ~also
    <3>1. v = u
      BY <2>3, ZenonT(60) DEF MrxTyped, MrxFields, WithContext
    <3> QED
      BY <2>1, <3>1
  <2> QED
    BY <2>2, <2>3
<1>2. /\ DOMAIN c = {"refs", "mark", "status", "info", "cancelled"}
      /\ "isr" \in s.ctx[r].refs => "isr" \in c.refs
  BY DEF MrxTyped
<1> HIDE DEF c, t
<1>3. /\ MrxBeside(s, u) /\ MrxTyped(u)
      /\ \A q \in MrxRequests : u.ctx[q] = IF q = r THEN c ELSE s.ctx[q]
  BY <1>2, ContextIs
<1> HIDE DEF u
<1>4. IsrStays(s, u)
  BY <1>2, <1>3 DEF IsrStays
<1>5. MrxBeside(s, t) /\ MrxTyped(t) /\ IsrStays(s, t)
  BY <1>1, <1>3, <1>4, BesideSelf
<1> QED
  BY <1>5 DEF t

\* ... or becomes so: the ISR's reference stays.
LEMMA SetCancelIs ==
  ASSUME NEW s, MrxTyped(s), NEW r \in MrxRequests
  PROVE  /\ MrxBeside(s, SerialSetCancelRoutine(s, r)) /\ MrxTyped(SerialSetCancelRoutine(s, r))
         /\ IsrStays(s, SerialSetCancelRoutine(s, r))
<1> DEFINE t == SerialSetCancelRoutine(s, r)
           c == [s.ctx[r] EXCEPT !.mark = IF @ = "wanted" THEN "called" ELSE "marked"]
           u == WithContext(s, r, c)
<1>1. t = SERIAL_SET_REFERENCE(u, r, "cancel")
  BY DEF SerialSetCancelRoutine, WithContext, MrxTyped, MrxFields
<1>2. DOMAIN c = {"refs", "mark", "status", "info", "cancelled"} /\ c.refs = s.ctx[r].refs
  BY DEF MrxTyped
<1> HIDE DEF c, t
<1>3. MrxBeside(s, u) /\ MrxTyped(u) /\ SameRefs(s, u)
  BY <1>2, ContextKeepsRefs
<1> HIDE DEF u
<1>4. MrxBeside(u, t) /\ MrxTyped(t) /\ IsrStays(u, t)
  BY <1>1, <1>3, SetReferenceIs
<1>5. MrxBeside(s, t) /\ IsrStays(s, t)
  BY <1>3, <1>4, BesideChain DEF IsrStays, SameRefs
<1> QED
  BY <1>4, <1>5 DEF t

\* The references that a party takes back from the others are never the ISR's.
LEMMA RundownIs ==
  ASSUME NEW s, MrxTyped(s), NEW r \in MrxRequests, NEW caller
  PROVE  /\ MrxBeside(s, SerialRundownIrpRefs(s, r, ReadTimers, caller))
         /\ MrxTyped(SerialRundownIrpRefs(s, r, ReadTimers, caller))
         /\ IsrStays(s, SerialRundownIrpRefs(s, r, ReadTimers, caller))
<1> DEFINE u == SERIAL_CLEAR_REFERENCE(s, r, "cancel")
           v == [u EXCEPT !.ctx[r].mark = "no"]
           w == SerialClearCancelRoutine(s, r, TRUE)
           a == IF caller = "cancel" THEN v ELSE w
           b == RundownTimer(a, r, ReadTimers["int"], "int", caller)
           t == RundownTimer(b, r, ReadTimers["total"], "total", caller)
<1>1. SerialRundownIrpRefs(s, r, ReadTimers, caller) = t
  <2>1. "int" \in DOMAIN ReadTimers /\ "total" \in DOMAIN ReadTimers
    BY DEF ReadTimers
  <2> QED
    BY <2>1 DEF SerialRundownIrpRefs
<1>2. MrxBeside(s, v) /\ MrxTyped(v) /\ IsrStays(s, v)
  <2> DEFINE c == [u.ctx[r] EXCEPT !.mark = "no"]
  <2>1. MrxBeside(s, u) /\ MrxTyped(u) /\ IsrStays(s, u)
    BY ClearReferenceIs
  <2> HIDE DEF u
  <2>2. DOMAIN c = {"refs", "mark", "status", "info", "cancelled"} /\ c.refs = u.ctx[r].refs
    BY <2>1 DEF MrxTyped
  <2>3. v = WithContext(u, r, c)
    BY <2>1 DEF WithContext, MrxTyped, MrxFields
  <2> HIDE DEF c, v
  <2>4. MrxBeside(u, v) /\ MrxTyped(v) /\ SameRefs(u, v)
    BY <2>1, <2>2, <2>3, ContextKeepsRefs
  <2> QED
    BY <2>1, <2>4, BesideChain DEF IsrStays, SameRefs
<1>3. MrxBeside(s, w) /\ MrxTyped(w) /\ IsrStays(s, w)
  BY ClearCancelIs
<1> HIDE DEF v, w
<1>4. MrxBeside(s, a) /\ MrxTyped(a) /\ IsrStays(s, a)
  BY <1>2, <1>3
<1> HIDE DEF a
<1>5. MrxBeside(a, b) /\ MrxTyped(b) /\ IsrStays(a, b)
  BY <1>4, RundownTimerIs
<1> HIDE DEF b
<1>6. MrxBeside(b, t) /\ MrxTyped(t) /\ IsrStays(b, t)
  BY <1>5, RundownTimerIs
<1> HIDE DEF t
<1>7. MrxBeside(s, t) /\ IsrStays(s, t)
  BY <1>4, <1>5, <1>6, BesideChain DEF IsrStays
<1> QED
  BY <1>1, <1>6, <1>7

\* Nor does trying to complete a request touch the buffers; only the ISR's DPC clears the ISR's
\* reference.
LEMMA TryToCompleteIs ==
  ASSUME NEW s, MrxTyped(s), NEW status, NEW caller, caller # "xoff"
  PROVE  /\ MrxBeside(s, SerialTryToCompleteCurrent(s, "read", status, ReadTimers, caller))
         /\ MrxTyped(SerialTryToCompleteCurrent(s, "read", status, ReadTimers, caller))
         /\ caller # "isr" =>
              IsrStays(s, SerialTryToCompleteCurrent(s, "read", status, ReadTimers, caller))
<1> DEFINE t == SerialTryToCompleteCurrent(s, "read", status, ReadTimers, caller)
           r == s.cur["read"]
           a == IF caller \in {"isr", "xoff"} THEN SERIAL_CLEAR_REFERENCE(s, r, caller) ELSE s
           b == SerialRundownIrpRefs(a, r, ReadTimers, caller)
           k == [b.ctx[r] EXCEPT !.cancelled = @ \/ status = "cancelled"]
           c == WithContext(b, r, k)
           e == [c.ctx[r] EXCEPT !.status = status,
                                 !.info = IF status = "cancelled" THEN 0 ELSE c.ctx[r].info]
           d == WithContext(c, r, e)
<1>1. CASE r = NoReq
  <2>1. t = Fault(s, "CurrentOpRequest is NULL")
    BY <1>1 DEF SerialTryToCompleteCurrent
  <2> HIDE DEF t
  <2>2. MrxBeside(s, t) /\ t.ctx = s.ctx
    BY <2>1, FaultIs, Zenon
  <2> QED
    BY <2>2 DEF MrxBeside, IsrStays, t
<1>2. CASE r # NoReq
  <2>0. r \in MrxRequests
    BY <1>2 DEF MrxTyped
  <2>1. MrxBeside(s, a) /\ MrxTyped(a) /\ (caller # "isr" => IsrStays(s, a))
    BY <2>0, ClearReferenceIs, BesideSelf
  <2>2. t = IF c.ctx[r].refs # {} THEN c ELSE d
    <3> DEFINE f == [b EXCEPT !.ctx[r].cancelled = @ \/ status = "cancelled"]
               g == [f EXCEPT !.ctx[r] = [@ EXCEPT !.status = status,
                       !.info = IF status = "cancelled" THEN 0 ELSE f.ctx[r].info]]
    <3>0. t = IF f.ctx[r].refs # {} THEN f ELSE g
      BY <1>2 DEF SerialTryToCompleteCurrent
    <3> HIDE DEF a, t
    <3>1. MrxTyped(b)
      BY <2>0, <2>1, RundownIs
    <3>2. f = c
      <4> HIDE DEF b
      <4> QED
        BY <3>1, <2>0 DEF MrxTyped, MrxFields, WithContext
    <3>3. MrxTyped(c)
      <4> HIDE DEF b, k
      <4>1. DOMAIN k = {"refs", "mark", "status", "info", "cancelled"}
        BY <3>1, <2>0 DEF k, MrxTyped
      <4> QED
        BY <3>1, <4>1, ContextIs
    <3> HIDE DEF f
    <3>4. g = d
      <4> HIDE DEF c
      <4> QED
        BY <3>2, <3>3, <2>0 DEF MrxTyped, MrxFields, WithContext
    <3> HIDE DEF c, d, g
    <3> QED
      BY <3>0, <3>2, <3>4
  <2> HIDE DEF a, t
  <2>3. MrxBeside(a, b) /\ MrxTyped(b) /\ IsrStays(a, b)
    BY <2>0, <2>1, RundownIs
  <2> HIDE DEF b
  <2>4. DOMAIN k = {"refs", "mark", "status", "info", "cancelled"} /\ k.refs = b.ctx[r].refs
    BY <2>0, <2>3 DEF MrxTyped
  <2> HIDE DEF k
  <2>5. MrxBeside(b, c) /\ MrxTyped(c) /\ SameRefs(b, c)
    BY <2>0, <2>3, <2>4, ContextKeepsRefs
  <2> HIDE DEF c
  <2>6. DOMAIN e = {"refs", "mark", "status", "info", "cancelled"} /\ e.refs = c.ctx[r].refs
    BY <2>0, <2>5 DEF MrxTyped
  <2> HIDE DEF e
  <2>7. MrxBeside(c, d) /\ MrxTyped(d) /\ SameRefs(c, d)
    BY <2>0, <2>5, <2>6, ContextKeepsRefs
  <2> HIDE DEF d
  <2>8. MrxBeside(s, c) /\ MrxBeside(s, d)
    BY <2>1, <2>3, <2>5, <2>7, BesideChain
  <2>9. MrxBeside(s, t) /\ MrxTyped(t)
    BY <2>2, <2>5, <2>7, <2>8
  <2>10. ASSUME caller # "isr" PROVE IsrStays(s, c) /\ IsrStays(s, d)
    BY <2>1, <2>3, <2>5, <2>7, <2>10 DEF IsrStays, SameRefs
  <2> QED
    BY <2>2, <2>9, <2>10 DEF t
<1> QED
  BY <1>1, <1>2

\* When the ISR has nothing of a read and owes none, the next may be started.
MrxReady(s) ==
  MrxTyped(s) /\ MrxLimits(s) /\ MrxReleased(s) /\ s.base = "int" /\ "read" \notin s.dpc

\* What only touches requests keeps the port ready for the next read.
LEMMA BesideReady ==
  ASSUME NEW s, NEW t, MrxReady(s), MrxBeside(s, t)
  PROVE  MrxReady(t)
BY BesideReads DEF MrxReady, MrxLimits, MrxReleased, MrxBeside

\* SerialGetNextRequest keeps the port ready, whatever it completes.
LEMMA GetNextReady ==
  ASSUME NEW s, MrxReady(s)
  PROVE  /\ MrxReady(SerialGetNextRequest(s, "read", TRUE))
         /\ SerialGetNextRequest(s, "read", TRUE).op = s.op
<1> DEFINE t == SerialGetNextRequest(s, "read", TRUE)
           old == s.cur["read"]
           next == IF s.queue["read"] = <<>> THEN NoReq ELSE Head(s.queue["read"])
           rest == IF s.queue["read"] = <<>> THEN s.queue["read"] ELSE Tail(s.queue["read"])
           u == [s EXCEPT !.cur["read"] = next, !.queue["read"] = rest]
<1>1. t = IF old # NoReq THEN SerialCompleteRequest(u, old, u.ctx[old].status, u.ctx[old].info)
          ELSE u
  <2>1. u = [s EXCEPT !.cur["read"] = IF s.queue["read"] = <<>> THEN NoReq ELSE Head(s.queue["read"]),
                      !.queue["read"] = IF @ = <<>> THEN @ ELSE Tail(@)]
    BY DEF MrxReady, MrxTyped, MrxFields
  <2> HIDE DEF u
  <2> QED
    BY <2>1 DEF SerialGetNextRequest
<1>2. next \in s.arrived \cup {NoReq} /\ rest \in Seq(s.arrived)
  <2> DEFINE q == s.queue["read"]
             S == s.arrived
  <2>1. q \in Seq(S)
    BY DEF MrxReady, MrxTyped
  <2> HIDE DEF q, S
  <2>2. /\ q = <<>> => <<>> \in Seq(S)
        /\ q # <<>> => Head(q) \in S /\ Tail(q) \in Seq(S)
    BY <2>1
  <2> QED
    BY <2>1, <2>2 DEF q, S
<1> HIDE DEF next, rest, t
<1>3. MrxReady(u) /\ u.op = s.op
  <2>1. /\ DOMAIN u = MrxFields /\ \A f \in MrxFields \ {"cur", "queue"} : u[f] = s[f]
        /\ DOMAIN u.cur = {"read"} /\ u.cur["read"] = next
        /\ DOMAIN u.queue = {"read"} /\ u.queue["read"] = rest
    BY DEF MrxReady, MrxTyped, MrxFields
  <2> HIDE DEF u
  <2>2. MrxTyped(u)
    BY <1>2, <2>1 DEF MrxReady, MrxTyped, MrxFields
  <2> QED
    BY <2>1, <2>2 DEF MrxReady, MrxLimits, MrxReleased, MrxFields
<1> HIDE DEF u
<1>4. CASE old # NoReq
  <2>1. old \in MrxRequests /\ MrxTyped(u)
    BY <1>3, <1>4 DEF MrxReady, MrxTyped
  <2> DEFINE status == u.ctx[old].status
             info == u.ctx[old].info
  <2>2. t = SerialCompleteRequest(u, old, status, info)
    BY <1>1, <1>4
  <2> HIDE DEF status, info, old
  <2>3. MrxBeside(u, t)
    BY <2>1, <2>2, CompleteRequestIs
  <2> QED
    BY <1>3, <2>3, BesideReady, BesideReads, ZenonT(60) DEF t
<1> QED
  BY <1>1, <1>3, <1>4 DEF t

\* The starter looks at the request that is current now.
LEMMA StartReadGood ==
  ASSUME NEW s, MrxReady(s), Cur(s) # NoReq
  PROVE  MrxGood(SerialStartRead(s))
<1> DEFINE r == Cur(s)
           t == SerialStartRead(s)
           u == SerialCancelTimer(SerialCancelTimer(s, "total"), "int")
<1>1. MrxReady(u) /\ Cur(u) # NoReq /\ u.len = s.len
  <2>1. MrxTyped(s)
    BY DEF MrxReady
  <2>2. MrxBeside(s, u)
    BY <2>1, TimerIs, BesideChain
  <2> QED
    BY <2>2, BesideReady, BesideReads
<1> HIDE DEF u
<1>2. CASE r \notin MrxReads
  <2>1. t = [s EXCEPT !.op = "move"]
    BY <1>2 DEF SerialStartRead
  <2>2. r \in DOMAIN MrxSizes
    BY <1>2 DEF MrxReady, MrxTyped, MrxRequests, Cur
  <2> QED
    BY <2>1, <2>2 DEF MrxReady, MrxGood, MrxTyped, MrxFields, MrxLimits, MrxReleased, MrxHanded, Cur, t
<1>3. CASE r \in MrxReads
  <2> DEFINE n == s.len[r]
  <2>1. t = [u EXCEPT !.op = "get", !.need = n]
    BY <1>3 DEF SerialStartRead, u
  <2>2. n \in Int
    BY <1>3 DEF MrxReady, MrxTyped
  <2> HIDE DEF t, n
  <2>3. /\ DOMAIN t = MrxFields /\ t.op = "get" /\ t.need = n
        /\ \A f \in MrxFields \ {"op", "need"} : t[f] = u[f]
    BY <1>1, <2>1 DEF MrxReady, MrxTyped, MrxFields
  <2>4. /\ t.ctx = u.ctx /\ t.arrived = u.arrived /\ t.cur = u.cur /\ t.queue = u.queue
        /\ t.len = u.len /\ t.copied = u.copied /\ t.count = u.count /\ t.base = u.base
        /\ t.BufferSize = u.BufferSize /\ t.lines = u.lines /\ t.RXHolding = u.RXHolding
        /\ t.XonLimit = u.XonLimit /\ t.XoffLimit = u.XoffLimit /\ t.send = u.send
        /\ t.dpc = u.dpc
    BY <2>3 DEF MrxFields
  <2>5. MrxTyped(t)
    BY <1>1, <2>2, <2>3, <2>4 DEF MrxReady, MrxTyped
  <2> QED
    BY <1>1, <2>3, <2>4, <2>5 DEF MrxReady, MrxGood, MrxLimits, MrxReleased, MrxHanded, Cur, t
<1> QED
  BY <1>2, <1>3

\* The next read starts, or there is none.
LEMMA NextReadGood ==
  ASSUME NEW s, MrxReady(s)
  PROVE  MrxGood(NextRead(s))
<1> DEFINE u == [s EXCEPT !.op = "none"]
           t == SerialGetNextRequest(u, "read", TRUE)
<1>1. MrxReady(u) /\ u.op = "none"
  BY DEF MrxReady, MrxTyped, MrxFields, MrxLimits, MrxReleased
<1>2. NextRead(s) = IF Cur(t) = NoReq THEN t ELSE SerialStartRead(t)
  BY DEF NextRead
<1> HIDE DEF u
<1>3. MrxReady(t) /\ t.op = "none"
  BY <1>1, GetNextReady
<1> HIDE DEF t
<1>4. Cur(t) = NoReq => MrxGood(t)
  BY <1>3 DEF MrxGood, MrxReady, MrxHanded
<1> QED
  BY <1>2, <1>3, <1>4, StartReadGood

\* A party that ends its part of a read: the others are told, and if that was the last part the
\* next read is started.
LEMMA TryToCompleteGood ==
  ASSUME NEW s, MrxGood(s), s.op = "none", NEW status,
         NEW caller, caller # "xoff", caller = "isr" => MrxReady(s)
  PROVE  MrxGood(TryToCompleteRead(s, status, caller))
<1> DEFINE t == SerialTryToCompleteCurrent(s, "read", status, ReadTimers, caller)
<1>1. TryToCompleteRead(s, status, caller) = IF Finished(t, "read") THEN NextRead(t) ELSE t
  BY DEF TryToCompleteRead
<1>2. MrxBeside(s, t) /\ MrxTyped(t) /\ (caller # "isr" => IsrStays(s, t))
  BY TryToCompleteIs DEF MrxGood
<1> HIDE DEF t
<1>3. t.op = "none"
  BY <1>2, BesideReads
<1>4. CASE caller = "isr"
  <2>1. MrxReady(t)
    BY <1>2, <1>4, BesideReady
  <2>2. MrxGood(t)
    BY <1>3, <2>1 DEF MrxGood, MrxReady, MrxHanded
  <2> QED
    BY <1>1, <2>1, <2>2, NextReadGood
<1>5. CASE caller # "isr"
  <2>1. MrxGood(t)
    BY <1>2, <1>5, BesideGood
  <2>2. ASSUME Finished(t, "read") PROVE MrxReady(t)
    BY <1>2, <2>1, <2>2 DEF MrxGood, MrxReady, MrxHanded, MrxTyped, Finished, Cur
  <2> QED
    BY <1>1, <2>1, <2>2, NextReadGood
<1> QED
  BY <1>4, <1>5

\* The read at hand is completed and the next one starts.
LEMMA SucceedGood ==
  ASSUME NEW s, MrxReady(s), Cur(s) # NoReq
  PROVE  MrxGood(Succeed(s))
<1> DEFINE r == Cur(s)
           c == [s.ctx[r] EXCEPT !.status = "success"]
           t == WithContext(s, r, c)
<1>1. r \in MrxRequests /\ MrxTyped(s)
  BY DEF MrxReady, MrxTyped, Cur
<1>2. Succeed(s) = NextRead(t)
  <2>1. [s EXCEPT !.ctx[r].status = "success"] = t
    BY <1>1 DEF WithContext, MrxTyped, MrxFields
  <2> HIDE DEF t
  <2> QED
    BY <2>1 DEF Succeed
<1>3. DOMAIN c = {"refs", "mark", "status", "info", "cancelled"} /\ c.refs = s.ctx[r].refs
  BY <1>1 DEF MrxTyped
<1> HIDE DEF c
<1>4. MrxReady(t)
  BY <1>1, <1>3, ContextIs, BesideReady
<1> HIDE DEF t
<1> QED
  BY <1>2, <1>4, NextReadGood

-----------------------------------------------------------------------------
\* A field that no part of the invariant reads, or a completion that ended differently.
MrxApart(s, t) ==
  /\ MrxTyped(t)
  /\ \A f \in {"load", "ctx", "cur", "queue", "op", "BufferSize", "count", "base", "XonLimit",
               "XoffLimit", "lines", "RXHolding", "send"} : t[f] = s[f]
  /\ "read" \in t.dpc <=> "read" \in s.dpc

\* What touches none of the fields of the invariant keeps it.
LEMMA ApartGood ==
  ASSUME NEW s, NEW t, MrxGood(s), MrxApart(s, t)
  PROVE  MrxGood(t) /\ t.op = s.op /\ t.base = s.base /\ Cur(t) = Cur(s)
<1>1. /\ t.ctx = s.ctx /\ t.cur = s.cur /\ t.op = s.op /\ t.BufferSize = s.BufferSize
      /\ t.count = s.count /\ t.base = s.base /\ t.XonLimit = s.XonLimit
      /\ t.XoffLimit = s.XoffLimit /\ t.RXHolding = s.RXHolding /\ t.send = s.send
  BY DEF MrxApart
<1> QED
  BY <1>1 DEF MrxApart, MrxGood, MrxLimits, MrxReleased, MrxHanded, Cur

\* The buffer of a read is taken from the ISR, with its reference.
LEMMA GrabGood ==
  ASSUME NEW s, MrxGood(s), s.op = "none"
  PROVE  MrxGood(SerialGrabReadFromIsr(s)) /\ SerialGrabReadFromIsr(s).op = "none"
<1> DEFINE t == SerialGrabReadFromIsr(s)
           r == Cur(s)
           i == ToInterruptBuffer(s)
           c == [i.ctx[r] EXCEPT !.info = Len(s.buf[r])]
           u == WithContext(i, r, c)
<1>1. CASE s.base = "int"
  BY <1>1 DEF SerialGrabReadFromIsr
<1>2. CASE s.base # "int"
  <2>1. /\ s.base = "user" /\ s.count = 0 /\ r # NoReq /\ "read" \notin s.dpc
        /\ MrxTyped(s) /\ r \in MrxRequests
    BY <1>2 DEF MrxGood, MrxTyped, MrxHanded, Cur
  <2>2. MrxReady(i) /\ i.op = "none"
    BY <2>1 DEF ToInterruptBuffer, MrxGood, MrxReady, MrxTyped, MrxFields, MrxLimits, MrxReleased
  <2>3. t = SERIAL_CLEAR_REFERENCE(u, r, "isr")
    <3>1. [i EXCEPT !.ctx[r].info = Len(s.buf[r])] = u
      <4> HIDE DEF i
      <4> QED
        BY <2>1, <2>2 DEF WithContext, MrxReady, MrxTyped, MrxFields
    <3> HIDE DEF u
    <3> QED
      BY <1>2, <3>1 DEF SerialGrabReadFromIsr
  <2> HIDE DEF i, t
  <2>4. DOMAIN c = {"refs", "mark", "status", "info", "cancelled"}
    BY <2>1, <2>2 DEF MrxReady, MrxTyped
  <2> HIDE DEF c
  <2>5. MrxBeside(i, u) /\ MrxTyped(u)
    BY <2>1, <2>2, <2>4, ContextIs DEF MrxReady
  <2> HIDE DEF u
  <2>6. MrxBeside(u, t)
    BY <2>1, <2>3, <2>5, ClearReferenceIs
  <2>7. MrxReady(t) /\ t.op = "none"
    BY <2>2, <2>5, <2>6, BesideChain, BesideReady, BesideReads
  <2> QED
    BY <2>7 DEF MrxReady, MrxGood, MrxHanded, t
<1> QED
  BY <1>1, <1>2

\* A read is cancelled, or one of its timers ends it.
LEMMA EndReadGood ==
  ASSUME NEW s, MrxGood(s), s.op = "none", NEW status, NEW caller, caller \notin {"isr", "xoff"}
  PROVE  MrxGood(TryToCompleteRead(SerialGrabReadFromIsr(s), status, caller))
BY GrabGood, TryToCompleteGood

\* CountOnLastRead tells the interval timer how the read went.
LEMMA CountOnLastReadGood ==
  ASSUME NEW s, MrxGood(s), NEW x
  PROVE  /\ MrxGood([s EXCEPT !.CountOnLastRead = x])
         /\ [s EXCEPT !.CountOnLastRead = x].op = s.op
         /\ MrxReady(s) => MrxReady([s EXCEPT !.CountOnLastRead = x])
<1> DEFINE t == [s EXCEPT !.CountOnLastRead = x]
<1>1. MrxApart(s, t)
  BY DEF MrxGood, MrxApart, MrxTyped, MrxFields
<1> HIDE DEF t
<1>2. MrxGood(t) /\ t.op = s.op
  BY <1>1, ApartGood
<1>3. MrxReady(s) => MrxReady(t)
  BY <1>1, <1>2, ApartGood DEF MrxReady, MrxGood, MrxApart
<1> QED
  BY <1>2, <1>3 DEF t

\* The cancellation of the current read, and its total timeout.
LEMMA CancelReadGood ==
  ASSUME NEW s, MrxGood(s), s.op = "none"
  PROVE  MrxGood(SerialCancelCurrentRead(s)) /\ MrxGood(SerialReadTimeout(s))
<1>1. MrxGood(SerialCancelCurrentRead(s))
  <2> DEFINE t == [s EXCEPT !.CountOnLastRead = "cancel"]
  <2>1. MrxGood(t) /\ t.op = "none"
    BY CountOnLastReadGood
  <2>2. SerialCancelCurrentRead(s) = TryToCompleteRead(SerialGrabReadFromIsr(t), "cancelled", "cancel")
    BY DEF SerialCancelCurrentRead
  <2> HIDE DEF t
  <2> QED
    BY <2>1, <2>2, EndReadGood
<1>2. MrxGood(SerialReadTimeout(s))
  <2> DEFINE t == [s EXCEPT !.CountOnLastRead = "total"]
  <2>1. MrxGood(t) /\ t.op = "none"
    BY CountOnLastReadGood
  <2>2. SerialReadTimeout(s) = TryToCompleteRead(SerialGrabReadFromIsr(t), "timeout", "total")
    BY DEF SerialReadTimeout
  <2> HIDE DEF t
  <2> QED
    BY <2>1, <2>2, EndReadGood
<1> QED
  BY <1>1, <1>2

-----------------------------------------------------------------------------
(* Copies from the interrupt buffer. *)

\* t differs from s in what the flow control decides.
MrxRest == MrxFields \ {"RXHolding", "send"}

\* SerialHandleReducedIntBuffer lets the sender go, whatever happened to the count.
LEMMA HandleReducedIs ==
  ASSUME NEW s, MrxTyped(s), MrxLimits(s)
  PROVE  /\ MrxTyped(SerialHandleReducedIntBuffer(s)) /\ MrxLimits(SerialHandleReducedIntBuffer(s))
         /\ MrxReleased(SerialHandleReducedIntBuffer(s))
         /\ \A f \in MrxRest : SerialHandleReducedIntBuffer(s)[f] = s[f]
<1> DEFINE t == SerialHandleReducedIntBuffer(s)
           u == [s EXCEPT !.RXHolding = @ \ {"dtr", "rts"},
                          !.send = IF "xoff" \in s.RXHolding THEN "xon" ELSE @]
<1>1. CASE s.count > s.XonLimit
  <2>1. t = s
    BY <1>1 DEF SerialHandleReducedIntBuffer
  <2>2. MrxReleased(s)
    BY <1>1 DEF MrxTyped, MrxLimits, MrxReleased
  <2> HIDE DEF t
  <2> QED
    BY <2>1, <2>2 DEF t
<1>2. CASE ~(s.count > s.XonLimit)
  <2>1. t = u
    BY <1>2 DEF SerialHandleReducedIntBuffer
  <2> HIDE DEF t
  <2>2. /\ DOMAIN u = MrxFields /\ \A f \in MrxRest : u[f] = s[f]
        /\ u.RXHolding = s.RXHolding \ {"dtr", "rts"}
        /\ "xoff" \in s.RXHolding => u.send = "xon"
    BY DEF MrxTyped, MrxFields, MrxRest
  <2> HIDE DEF u
  <2>3. MrxTyped(u)
    BY <2>2 DEF MrxTyped, MrxFields, MrxRest
  <2>4. MrxLimits(u) /\ MrxReleased(u)
    BY <2>2 DEF MrxTyped, MrxLimits, MrxReleased, MrxFields, MrxRest, MrxLines
  <2> QED
    BY <2>1, <2>2, <2>3, <2>4 DEF t
<1> QED
  BY <1>1, <1>2

\* The count is reduced by what was copied; the ISR may have added to it meanwhile.
LEMMA UpdateInterruptBufferIs ==
  ASSUME NEW s, MrxReady(s)
  PROVE  /\ MrxReady(SerialUpdateInterruptBuffer(s))
         /\ SerialUpdateInterruptBuffer(s).count = s.count - s.copied
         /\ \A f \in MrxRest \ {"count", "copied", "faults"} :
              SerialUpdateInterruptBuffer(s)[f] = s[f]
<1> DEFINE t == SerialUpdateInterruptBuffer(s)
           a == IF s.count >= s.copied THEN s ELSE Fault(s, "CharsInInterruptBuffer")
           b == [a EXCEPT !.count = a.count - s.copied, !.copied = 0]
<1>1. t = SerialHandleReducedIntBuffer(b)
  <2>1. b = [a EXCEPT !.count = @ - s.copied, !.copied = 0]
    OBVIOUS
  <2> HIDE DEF b
  <2> QED
    BY <2>1 DEF SerialUpdateInterruptBuffer
<1>2. MrxTyped(a) /\ \A f \in MrxFields \ {"faults"} : a[f] = s[f]
  BY DEF Fault, MrxReady, MrxTyped, MrxFields
<1> HIDE DEF a, t
<1>3. /\ DOMAIN b = MrxFields /\ b.count = s.count - s.copied /\ b.copied = 0
      /\ \A f \in MrxFields \ {"faults", "count", "copied"} : b[f] = s[f]
  BY <1>2 DEF MrxTyped, MrxFields
<1> HIDE DEF b
<1>4. MrxTyped(b) /\ MrxLimits(b)
  <2>1. /\ b.ctx = s.ctx /\ b.arrived = s.arrived /\ b.cur = s.cur /\ b.queue = s.queue /\ b.len = s.len /\ b.need = s.need
        /\ b.BufferSize = s.BufferSize /\ b.base = s.base /\ b.lines = s.lines
        /\ b.RXHolding = s.RXHolding /\ b.XonLimit = s.XonLimit /\ b.XoffLimit = s.XoffLimit
    BY <1>3 DEF MrxFields
  <2> QED
    BY <1>3, <2>1 DEF MrxReady, MrxTyped, MrxLimits
<1>5. /\ MrxTyped(t) /\ MrxLimits(t) /\ MrxReleased(t)
      /\ \A f \in MrxRest : t[f] = b[f]
  BY <1>1, <1>4, HandleReducedIs
<1>6. MrxReady(t) /\ t.count = s.count - s.copied
  BY <1>3, <1>5 DEF MrxReady, MrxRest, MrxFields
<1>7. \A f \in MrxRest \ {"count", "copied", "faults"} : t[f] = s[f]
  BY <1>3, <1>5 DEF MrxRest
<1> QED
  BY <1>6, <1>7 DEF t

\* SerialGetCharsFromIntBuffer copies what the read needs or what there is; when it needs more
\* than that, everything was copied.
LEMMA GetCharsIs ==
  ASSUME NEW s, MrxReady(s), Cur(s) # NoReq
  PROVE  /\ MrxReady(SerialGetCharsFromIntBuffer(s))
         /\ SerialGetCharsFromIntBuffer(s).count = s.count
         /\ SerialGetCharsFromIntBuffer(s).need # 0 => SerialGetCharsFromIntBuffer(s).copied = s.count
         /\ Cur(SerialGetCharsFromIntBuffer(s)) = Cur(s)
         /\ SerialGetCharsFromIntBuffer(s).op = s.op
         /\ SerialGetCharsFromIntBuffer(s).load = s.load
<1> DEFINE t == SerialGetCharsFromIntBuffer(s)
           r == Cur(s)
           n == IF s.count > s.need THEN s.need ELSE s.count
           u == [s EXCEPT !.buf[r] = @ \o Readable(s, n), !.need = @ - n, !.copied = n,
                          !.first = (@ + n) % s.BufferSize]
           c == [s.ctx[r] EXCEPT !.info = s.ctx[r].info + n]
           v == WithContext(u, r, c)
<1>0. r \in MrxRequests /\ MrxTyped(s)
  BY DEF MrxReady, MrxTyped, Cur
<1>1. n \in Int /\ (s.need - n # 0 => n = s.count)
  BY <1>0 DEF MrxTyped
<1>2. t = v
  <2> HIDE DEF n
  <2> QED
    BY <1>0 DEF SerialGetCharsFromIntBuffer, WithContext, MrxTyped, MrxFields, n
<1>3. /\ DOMAIN u = MrxFields /\ \A f \in MrxFields \ {"buf", "need", "copied", "first"} : u[f] = s[f]
      /\ u.need = s.need - n /\ u.copied = n
  <2> HIDE DEF n
  <2> QED
    BY <1>0 DEF MrxTyped, MrxFields
<1>4. DOMAIN c = {"refs", "mark", "status", "info", "cancelled"}
  BY <1>0 DEF MrxTyped
<1> HIDE DEF t, u, c, n
<1>5. MrxReady(u)
  <2>1. MrxTyped(u)
    <3>1. /\ u.ctx = s.ctx /\ u.arrived = s.arrived /\ u.cur = s.cur /\ u.queue = s.queue /\ u.len = s.len
          /\ u.BufferSize = s.BufferSize /\ u.base = s.base /\ u.lines = s.lines
          /\ u.RXHolding = s.RXHolding /\ u.count = s.count
      BY <1>3 DEF MrxFields
    <3>2. u.need \in Int /\ u.copied \in Int
      BY <1>0, <1>1, <1>3 DEF MrxTyped
    <3> QED
      BY <1>0, <1>3, <3>1, <3>2 DEF MrxTyped
  <2> QED
    BY <1>3, <2>1 DEF MrxReady, MrxLimits, MrxReleased, MrxFields
<1>6. MrxBeside(u, v)
  BY <1>4, <1>5, ContextIs DEF MrxReady
<1>7. MrxReady(v) /\ v.count = u.count /\ v.need = u.need /\ v.copied = u.copied /\ Cur(v) = Cur(u)
      /\ v.op = u.op /\ v.load = u.load
  BY <1>5, <1>6, BesideReady, BesideReads
<1>8. u.count = s.count /\ Cur(u) = Cur(s) /\ u.op = s.op /\ u.load = s.load
  BY <1>3 DEF MrxFields, Cur
<1> QED
  BY <1>1, <1>2, <1>3, <1>7, <1>8 DEF t

\* Either the read has all it needs, or the interrupt buffer is empty and the ISR goes on with
\* the buffer of the read and a reference to it.
LEMMA SwitchToUserIs ==
  ASSUME NEW s, MrxReady(s), Cur(s) # NoReq, s.op = "switch"
  PROVE  LET t == SerialUpdateAndSwitchToUser(s)
         IN  /\ Cur(t) # NoReq
             /\ t.base # "user" => MrxReady(t)
             /\ t.base = "user" => MrxGood([t EXCEPT !.op = "arm"]) /\ MrxTyped(t)
<1> DEFINE t == SerialUpdateAndSwitchToUser(s)
           r == Cur(s)
           x == SerialUpdateInterruptBuffer(s)
           y == SerialGetCharsFromIntBuffer(x)
           a == SerialUpdateInterruptBuffer(y)
           b == IF a.count = 0 THEN a ELSE Fault(a, "CharsInInterruptBuffer left")
           w == [b EXCEPT !.CountOnLastRead = IF b.ctx[r].info = 0 THEN "zero" ELSE "some",
                          !.ReadByIsr = FALSE, !.base = "user"]
<1>1. t = IF a.need = 0 THEN a ELSE SERIAL_SET_REFERENCE(w, r, "isr")
  BY DEF SerialUpdateAndSwitchToUser
<1>2. MrxReady(x) /\ Cur(x) = r /\ x.op = s.op
  BY UpdateInterruptBufferIs DEF MrxRest, MrxFields, Cur
<1> HIDE DEF t, x
<1>3. MrxReady(y) /\ Cur(y) = r /\ y.op = s.op /\ (y.need # 0 => y.copied = y.count)
  BY <1>2, GetCharsIs
<1> HIDE DEF y
<1>4. MrxReady(a) /\ Cur(a) = r /\ a.op = s.op /\ (a.need # 0 => a.count = 0)
  <2>1. /\ MrxReady(a) /\ a.count = y.count - y.copied
        /\ \A f \in MrxRest \ {"count", "copied", "faults"} : a[f] = y[f]
    BY <1>3, UpdateInterruptBufferIs
  <2>2. Cur(a) = r /\ a.op = s.op /\ a.need = y.need
    BY <1>3, <2>1 DEF MrxRest, MrxFields, Cur
  <2>3. y.count \in Int /\ y.copied \in Int
    BY <1>3 DEF MrxReady, MrxTyped
  <2> QED
    BY <1>3, <2>1, <2>2, <2>3
<1> HIDE DEF a
<1>5. CASE a.need = 0
  BY <1>1, <1>4, <1>5 DEF MrxReady, t
<1>6. CASE a.need # 0
  <2>1. b = a /\ a.count = 0
    BY <1>4, <1>6
  <2> HIDE DEF b
  <2>2. /\ DOMAIN w = MrxFields /\ w.base = "user"
        /\ \A f \in MrxFields \ {"CountOnLastRead", "ReadByIsr", "base"} : w[f] = a[f]
    BY <1>4, <2>1 DEF MrxReady, MrxTyped, MrxFields
  <2> HIDE DEF w
  <2>3. MrxTyped(w) /\ MrxLimits(w) /\ MrxReleased(w) /\ w.count = 0 /\ Cur(w) = r
        /\ "read" \notin w.dpc
    <3>1. /\ w.ctx = a.ctx /\ w.arrived = a.arrived /\ w.cur = a.cur /\ w.queue = a.queue /\ w.len = a.len /\ w.need = a.need
          /\ w.BufferSize = a.BufferSize /\ w.lines = a.lines /\ w.count = a.count /\ w.dpc = a.dpc
          /\ w.RXHolding = a.RXHolding /\ w.XonLimit = a.XonLimit /\ w.XoffLimit = a.XoffLimit
          /\ w.copied = a.copied /\ w.send = a.send
      BY <2>2 DEF MrxFields
    <3>2. MrxTyped(w)
      BY <1>4, <2>2, <3>1 DEF MrxReady, MrxTyped
    <3> QED
      BY <1>4, <2>1, <3>1, <3>2 DEF MrxReady, MrxLimits, MrxReleased, Cur
  <2>4. r \in MrxRequests
    BY DEF MrxReady, MrxTyped, Cur
  <2>5. t = SERIAL_SET_REFERENCE(w, r, "isr")
    BY <1>1, <1>6
  <2>6. MrxBeside(w, t) /\ MrxTyped(t) /\ "isr" \in t.ctx[r].refs
    BY <2>3, <2>4, <2>5, SetReferenceIs
  <2>7. /\ Cur(t) = r /\ t.base = "user" /\ t.count = 0 /\ "read" \notin t.dpc
        /\ MrxLimits(t) /\ MrxReleased(t)
    BY <2>2, <2>3, <2>6, BesideReads DEF MrxLimits, MrxReleased
  <2> DEFINE z == [t EXCEPT !.op = "arm"]
  <2>8. DOMAIN z = MrxFields /\ z.op = "arm" /\ \A f \in MrxFields \ {"op"} : z[f] = t[f]
    BY <2>6 DEF MrxTyped, MrxFields
  <2> HIDE DEF z
  <2>9. MrxTyped(z) /\ MrxLimits(z) /\ MrxReleased(z) /\ Cur(z) = r /\ z.ctx = t.ctx
    <3>1. /\ z.ctx = t.ctx /\ z.arrived = t.arrived /\ z.cur = t.cur /\ z.queue = t.queue
          /\ z.len = t.len /\ z.need = t.need /\ z.copied = t.copied /\ z.count = t.count
          /\ z.base = t.base /\ z.BufferSize = t.BufferSize /\ z.lines = t.lines
          /\ z.RXHolding = t.RXHolding /\ z.XonLimit = t.XonLimit /\ z.XoffLimit = t.XoffLimit
          /\ z.send = t.send /\ z.dpc = t.dpc
      BY <2>8 DEF MrxFields
    <3>2. MrxTyped(z)
      BY <2>6, <2>8, <3>1 DEF MrxTyped
    <3> QED
      BY <2>7, <3>1, <3>2 DEF MrxLimits, MrxReleased, Cur
  <2>10. MrxHanded(z)
    BY <2>6, <2>7, <2>8, <2>9 DEF MrxHanded, MrxFields
  <2> QED
    BY <2>6, <2>7, <2>9, <2>10 DEF MrxGood, t, z
<1> QED
  BY <1>5, <1>6

-----------------------------------------------------------------------------
(* The actions of the receive side. *)

\* The requests in the queue are purged one after the other; then the current one is cancelled.
LEMMA FlushGood ==
  ASSUME NEW s, MrxGood(s), s.op = "none"
  PROVE  MrxGood(FlushReads(s))
<1> DEFINE q == s.queue["read"]
           e == [s EXCEPT !.queue["read"] = <<>>]
           Recursion(f, m) == f = [n \in 0 .. m |-> IF n = 0 THEN e ELSE DropRead(f[n - 1], q[n])]
           P == CHOOSE f : Recursion(f, Len(q))
           t == P[Len(q)]
           r == t.cur["read"]
           c == SerialClearCancelRoutine(t, r, FALSE)
<1>0. q \in Seq(s.arrived) /\ s.arrived \subseteq MrxRequests /\ Len(q) \in Nat /\ \A n \in 1 .. Len(q) : q[n] \in MrxRequests
  BY DEF MrxGood, MrxTyped
<1>1. \A m \in Nat : \E f : Recursion(f, m)
  <2> DEFINE T == {m \in Nat : ~ \E f : Recursion(f, m)}
  <2> SUFFICES ASSUME T # {} PROVE FALSE
    OBVIOUS
  <2>1. PICK m \in T : \A k \in T : ~(k < m)
    <3>1. T \subseteq Nat
      OBVIOUS
    <3> HIDE DEF T
    <3> QED
      BY <3>1, Least
  <2> HIDE DEF q, e
  <2>2. CASE m = 0
    <3>1. Recursion([n \in 0 .. 0 |-> e], 0)
      OBVIOUS
    <3> QED
      BY <2>1, <2>2, <3>1
  <2>3. CASE m # 0
    <3>1. m \in Nat /\ m - 1 \in Nat /\ m - 1 < m
      BY <2>1, <2>3
    <3>2. PICK f : Recursion(f, m - 1)
      BY <3>1, <2>1
    <3> DEFINE g == [n \in 0 .. m |-> IF n = m THEN DropRead(f[m - 1], q[m]) ELSE f[n]]
    <3>3. ASSUME NEW n \in 0 .. m
          PROVE  g[n] = IF n = 0 THEN e ELSE DropRead(g[n - 1], q[n])
      BY <3>1, <3>2, <2>3
    <3>4. Recursion(g, m)
      <4>1. g = [n \in 0 .. m |-> g[n]]
        OBVIOUS
      <4> HIDE DEF g
      <4> QED
        BY <3>3, <4>1
    <3> QED
      BY <3>4, <2>1
  <2> QED
    BY <2>2, <2>3
<1>2. FlushReads(s) = IF r # NoReq /\ "cancel" \in t.ctx[r].refs /\ t.ctx[r].mark = "marked"
                      THEN SerialCancelCurrentRead(c) ELSE t
  BY DEF FlushReads, SerialFlushRequests
<1>3. P = [n \in 0 .. Len(q) |-> IF n = 0 THEN e ELSE DropRead(P[n - 1], q[n])]
  <2> HIDE DEF q, e
  <2> QED
    BY <1>0, <1>1
<1> HIDE DEF P
<1>4. MrxGood(e) /\ e.op = "none"
  <2>1. /\ DOMAIN e = MrxFields /\ \A f \in MrxFields \ {"queue"} : e[f] = s[f]
        /\ DOMAIN e.queue = {"read"} /\ e.queue["read"] = <<>>
    BY DEF MrxGood, MrxTyped, MrxFields
  <2> HIDE DEF e
  <2>2. e.queue["read"] \in Seq(s.arrived)
    BY <2>1
  <2>3. MrxTyped(e)
    <3>1. /\ e.ctx = s.ctx /\ e.arrived = s.arrived /\ e.cur = s.cur /\ e.len = s.len
          /\ e.need = s.need /\ e.copied = s.copied /\ e.count = s.count /\ e.base = s.base
          /\ e.BufferSize = s.BufferSize /\ e.lines = s.lines /\ e.RXHolding = s.RXHolding
          /\ e.XonLimit = s.XonLimit /\ e.XoffLimit = s.XoffLimit /\ e.send = s.send
          /\ e.dpc = s.dpc /\ e.op = s.op
      BY <2>1 DEF MrxFields
    <3> QED
      BY <2>1, <2>2, <3>1 DEF MrxGood, MrxTyped
  <2> QED
    BY <2>1, <2>3 DEF MrxGood, MrxLimits, MrxReleased, MrxHanded, MrxFields, Cur
<1> HIDE DEF e
<1>5. \A n \in 0 .. Len(q) : MrxGood(P[n]) /\ P[n].op = "none"
  <2> DEFINE T == {n \in 0 .. Len(q) : ~(MrxGood(P[n]) /\ P[n].op = "none")}
  <2> SUFFICES ASSUME T # {} PROVE FALSE
    OBVIOUS
  <2>1. PICK m \in T : \A k \in T : ~(k < m)
    <3>1. T \subseteq Nat
      OBVIOUS
    <3> HIDE DEF T
    <3> QED
      BY <3>1, Least
  <2>2. m # 0
    BY <1>0, <1>3, <1>4, <2>1
  <2>3. m - 1 \in 0 .. Len(q) /\ m - 1 < m /\ m \in 1 .. Len(q)
    BY <1>0, <2>1, <2>2
  <2>4. MrxGood(P[m - 1]) /\ P[m - 1].op = "none"
    BY <2>1, <2>3
  <2>5. P[m] = DropRead(P[m - 1], q[m])
    BY <1>0, <1>3, <2>2, <2>3
  <2>6. MrxBeside(P[m - 1], P[m]) /\ IsrStays(P[m - 1], P[m])
    <3>1. q[m] \in MrxRequests /\ MrxTyped(P[m - 1])
      BY <1>0, <2>3, <2>4 DEF MrxGood
    <3> QED
      BY <2>5, <3>1, CompleteRequestIs DEF DropRead, IsrStays
  <2>7. MrxGood(P[m]) /\ P[m].op = "none"
    BY <2>4, <2>6, BesideGood, BesideReads
  <2> QED
    BY <2>1, <2>7
<1>6. MrxGood(t) /\ t.op = "none"
  BY <1>0, <1>5
<1> HIDE DEF t, q
<1>7. r # NoReq => MrxGood(c) /\ c.op = "none"
  <2> SUFFICES ASSUME r # NoReq PROVE MrxGood(c) /\ c.op = "none"
    OBVIOUS
  <2>1. MrxTyped(t) /\ r \in MrxRequests
    BY <1>6 DEF MrxGood, MrxTyped
  <2>2. MrxBeside(t, c) /\ IsrStays(t, c)
    BY <2>1, ClearCancelIs
  <2> HIDE DEF c, r
  <2> QED
    BY <1>6, <2>2, BesideGood, BesideReads
<1> HIDE DEF c
<1> QED
  BY <1>2, <1>6, <1>7, CancelReadGood

\* A request arrives: it is refused, or answered at once, or queued, or started.
LEMMA EvtIoReadGood ==
  ASSUME MrxGood(mrx), NEW r \in MrxRequests, SerialEvtIoRead(r)
  PROVE  MrxGood(mrx')
<1> DEFINE s == [mrx EXCEPT !.arrived = @ \cup {r}]
           t == SerialStartOrQueue(s, r, "read")
<1>0. mrx.op = "none"
  BY DEF SerialEvtIoRead, MrxLockFree
<1>1. \/ \E status : mrx' = SerialCompleteRequest(s, r, status, 0)
      \/ mrx' = IF Cur(t) = r THEN SerialStartRead(t) ELSE t
  BY DEF SerialEvtIoRead
<1>2. MrxGood(s) /\ s.op = "none" /\ Cur(s) = Cur(mrx) /\ r \in s.arrived /\ Cur(s) # r
  <2>1. s.arrived = mrx.arrived \cup {r} /\ DOMAIN s = MrxFields
        /\ \A f \in MrxFields \ {"arrived"} : s[f] = mrx[f]
    BY DEF MrxGood, MrxTyped, MrxFields
  <2>2. mrx.queue["read"] \in Seq(mrx.arrived \cup {r})
    BY DEF MrxGood, MrxTyped
  <2> HIDE DEF s
  <2>3. MrxTyped(s)
    <3>1. /\ s.ctx = mrx.ctx /\ s.cur = mrx.cur /\ s.queue = mrx.queue /\ s.len = mrx.len
          /\ s.need = mrx.need /\ s.copied = mrx.copied /\ s.count = mrx.count
          /\ s.base = mrx.base /\ s.BufferSize = mrx.BufferSize /\ s.lines = mrx.lines
          /\ s.RXHolding = mrx.RXHolding /\ s.XonLimit = mrx.XonLimit
          /\ s.XoffLimit = mrx.XoffLimit /\ s.send = mrx.send /\ s.dpc = mrx.dpc /\ s.op = mrx.op
      BY <2>1 DEF MrxFields
    <3> QED
      BY <2>1, <2>2, <3>1 DEF MrxGood, MrxTyped
  <2>4. MrxApart(mrx, s)
    BY <2>1, <2>3 DEF MrxApart, MrxFields
  <2>5. r \notin mrx.arrived /\ r # NoReq
    BY MrxAssumption DEF SerialEvtIoRead
  <2>6. Cur(mrx) = NoReq \/ Cur(mrx) \in mrx.arrived
    BY DEF MrxGood, MrxTyped, Cur
  <2>7. MrxGood(s) /\ s.op = mrx.op /\ Cur(s) = Cur(mrx)
    BY <2>4, ApartGood
  <2> QED
    BY <1>0, <2>1, <2>5, <2>6, <2>7
<1> HIDE DEF s
<1>3. ASSUME NEW status, mrx' = SerialCompleteRequest(s, r, status, 0) PROVE MrxGood(mrx')
  <2>1. MrxBeside(s, mrx') /\ IsrStays(s, mrx')
    BY <1>2, <1>3, CompleteRequestIs DEF MrxGood, IsrStays
  <2> QED
    BY <1>2, <2>1, BesideGood
<1>4. ASSUME mrx' = IF Cur(t) = r THEN SerialStartRead(t) ELSE t PROVE MrxGood(mrx')
  <2>1. CASE s.queue["read"] = <<>> /\ s.cur["read"] = NoReq
    <3>1. t = [s EXCEPT !.cur["read"] = r]
      BY <2>1 DEF SerialStartOrQueue
    <3>2. /\ DOMAIN t = MrxFields /\ \A f \in MrxFields \ {"cur"} : t[f] = s[f]
          /\ DOMAIN t.cur = {"read"} /\ t.cur["read"] = r
      BY <1>2, <3>1 DEF MrxGood, MrxTyped, MrxFields
    <3> HIDE DEF t
    <3>3. r # NoReq
      BY MrxAssumption
    <3>4. MrxTyped(t)
      <4>1. /\ t.ctx = s.ctx /\ t.arrived = s.arrived /\ t.queue = s.queue /\ t.len = s.len
            /\ t.need = s.need /\ t.copied = s.copied /\ t.count = s.count /\ t.base = s.base
            /\ t.BufferSize = s.BufferSize /\ t.lines = s.lines /\ t.RXHolding = s.RXHolding
        BY <3>2 DEF MrxFields
      <4> QED
        BY <1>2, <3>2, <4>1 DEF MrxGood, MrxTyped
    <3>5. MrxReady(s)
      BY <1>2, <2>1 DEF MrxGood, MrxHanded, MrxReady, MrxTyped, Cur
    <3>6. MrxReady(t) /\ Cur(t) = r
      BY <3>2, <3>4, <3>5 DEF MrxReady, MrxLimits, MrxReleased, MrxFields, Cur
    <3> QED
      BY <1>4, <3>3, <3>6, StartReadGood
  <2>2. CASE ~(s.queue["read"] = <<>> /\ s.cur["read"] = NoReq)
    <3> DEFINE q == Append(s.queue["read"], r)
    <3>1. t = [s EXCEPT !.queue["read"] = q]
      BY <1>2, <2>2 DEF SerialStartOrQueue, MrxGood, MrxTyped, MrxFields
    <3>2. q \in Seq(s.arrived)
      <4> DEFINE p == s.queue["read"]
                 S == s.arrived
      <4>1. p \in Seq(S) /\ r \in S
        BY <1>2 DEF MrxGood, MrxTyped
      <4> HIDE DEF p, S
      <4>2. Append(p, r) \in Seq(S)
        BY <4>1
      <4> QED
        BY <4>2 DEF p, S
    <3> HIDE DEF t, q
    <3>3. /\ DOMAIN t = MrxFields /\ \A f \in MrxFields \ {"queue"} : t[f] = s[f]
          /\ DOMAIN t.queue = {"read"} /\ t.queue["read"] = q
      BY <1>2, <3>1 DEF MrxGood, MrxTyped, MrxFields
    <3>4. MrxTyped(t)
      <4>1. /\ t.ctx = s.ctx /\ t.arrived = s.arrived /\ t.cur = s.cur /\ t.len = s.len
            /\ t.need = s.need /\ t.copied = s.copied /\ t.count = s.count /\ t.base = s.base
            /\ t.BufferSize = s.BufferSize /\ t.lines = s.lines /\ t.RXHolding = s.RXHolding
            /\ t.XonLimit = s.XonLimit /\ t.XoffLimit = s.XoffLimit /\ t.send = s.send
            /\ t.dpc = s.dpc /\ t.op = s.op
        BY <3>3 DEF MrxFields
      <4> QED
        BY <1>2, <3>2, <3>3, <4>1 DEF MrxGood, MrxTyped
    <3>5. MrxGood(t) /\ Cur(t) # r
      BY <1>2, <3>3, <3>4 DEF MrxGood, MrxLimits, MrxReleased, MrxHanded, MrxFields, Cur
    <3> QED
      BY <1>4, <3>5
  <2> QED
    BY <2>1, <2>2
<1> QED
  BY <1>1, <1>3, <1>4

\* The start of a read or of a resize goes a step further.
LEMMA OpGood ==
  ASSUME NEW s, NEW x, \/ MrxReady(s) /\ Cur(s) # NoReq /\ x = "switch"
                       \/ MrxGood(s) /\ x = "none"
  PROVE  MrxGood([s EXCEPT !.op = x])
<1> DEFINE t == [s EXCEPT !.op = x]
<1>1. MrxTyped(s) /\ MrxLimits(s) /\ MrxReleased(s)
  BY DEF MrxReady, MrxGood
<1>2. DOMAIN t = MrxFields /\ t.op = x /\ \A f \in MrxFields \ {"op"} : t[f] = s[f]
  BY <1>1 DEF MrxTyped, MrxFields
<1> HIDE DEF t
<1>3. /\ t.ctx = s.ctx /\ t.arrived = s.arrived /\ t.cur = s.cur /\ t.queue = s.queue
      /\ t.len = s.len /\ t.need = s.need /\ t.copied = s.copied /\ t.count = s.count
      /\ t.base = s.base /\ t.BufferSize = s.BufferSize /\ t.lines = s.lines
      /\ t.RXHolding = s.RXHolding /\ t.XonLimit = s.XonLimit /\ t.XoffLimit = s.XoffLimit
      /\ t.send = s.send /\ t.dpc = s.dpc
  BY <1>2 DEF MrxFields
<1>4. MrxTyped(t)
  BY <1>1, <1>2, <1>3 DEF MrxTyped
<1>5. MrxLimits(t) /\ MrxReleased(t)
  BY <1>1, <1>3 DEF MrxLimits, MrxReleased
<1>6. MrxHanded(t)
  BY <1>2, <1>3 DEF MrxReady, MrxGood, MrxHanded, Cur
<1> QED
  BY <1>4, <1>5, <1>6 DEF MrxGood, t

\* At the start of a read the ISR has nothing of one.
LEMMA StartIsReady ==
  ASSUME MrxGood(mrx), mrx.op \in {"get", "switch", "move", "tonew"}
  PROVE  MrxReady(mrx) /\ Cur(mrx) # NoReq /\ Cur(mrx) \in MrxRequests
BY DEF MrxGood, MrxReady, MrxHanded, MrxTyped, Cur

\* SerialStartRead takes what the buffer holds, ...
LEMMA StartReadGetGood == ASSUME MrxGood(mrx), StartReadGet PROVE MrxGood(mrx')
<1> DEFINE s == SerialGetCharsFromIntBuffer(mrx)
<1>1. MrxReady(s) /\ Cur(s) # NoReq
  BY StartIsReady, GetCharsIs DEF StartReadGet
<1>2. mrx' = [s EXCEPT !.op = "switch"]
  BY DEF StartReadGet
<1> HIDE DEF s
<1> QED
  BY <1>1, <1>2, OpGood

\* Two updates, as the proofs below write them.
LEMMA ExceptIn ==
  ASSUME NEW S, NEW T, NEW l \in [S -> T], NEW r, NEW v \in T
  PROVE  [l EXCEPT ![r] = v] \in [S -> T]
OBVIOUS

LEMMA RefsExcept ==
  ASSUME NEW s, NEW r
  PROVE  [s EXCEPT !.ctx[r].refs = {}] = WithRefs(s, r, {})
BY DEF WithRefs, WithContext

\* ... lets the ISR fill the buffer of the read if that is not enough, ...
LEMMA StartReadSwitchGood == ASSUME MrxGood(mrx), StartReadSwitch PROVE MrxGood(mrx')
<1> DEFINE r == Cur(mrx)
           n == SerialUpdateInterruptBuffer(mrx)
           m == IF mrx.ctx[r].info = 0 THEN mrx ELSE Fault(mrx, "crunchDownToOne")
           s == IF mrx.load.crunch THEN [m EXCEPT !.need = 1, !.len[r] = 1] ELSE mrx
           u == WithRefs(s, r, {})
           t == SerialUpdateAndSwitchToUser(u)
<1>1. MrxReady(mrx) /\ r # NoReq /\ r \in MrxRequests /\ mrx.op = "switch"
  BY StartIsReady DEF StartReadSwitch
<1>2. MrxReady(s) /\ Cur(s) = r /\ s.op = "switch"
  <2>1. MrxReady(m) /\ Cur(m) = r /\ m.op = "switch"
    <3>1. MrxBeside(mrx, m)
      BY <1>1, FaultIs, BesideSelf DEF MrxReady
    <3> HIDE DEF m
    <3> QED
      BY <1>1, <3>1, BesideReady, BesideReads
  <2> HIDE DEF m
  <2> DEFINE w == [m EXCEPT !.need = 1, !.len[r] = 1]
  <2>2. /\ DOMAIN w = MrxFields /\ w.need = 1 /\ w.len = [m.len EXCEPT ![r] = 1]
        /\ \A f \in MrxFields \ {"need", "len"} : w[f] = m[f]
    BY <2>1 DEF MrxReady, MrxTyped, MrxFields
  <2> HIDE DEF w
  <2>3. /\ w.ctx = m.ctx /\ w.arrived = m.arrived /\ w.cur = m.cur /\ w.queue = m.queue
        /\ w.copied = m.copied /\ w.count = m.count /\ w.base = m.base
        /\ w.BufferSize = m.BufferSize /\ w.lines = m.lines /\ w.RXHolding = m.RXHolding
        /\ w.XonLimit = m.XonLimit /\ w.XoffLimit = m.XoffLimit /\ w.send = m.send
        /\ w.dpc = m.dpc /\ w.op = m.op
    BY <2>2 DEF MrxFields
  <2>4. MrxTyped(w)
    <3>1. w.len \in [MrxReads -> Int]
      <4> DEFINE l == m.len
      <4>1. l \in [MrxReads -> Int]
        BY <2>1 DEF MrxReady, MrxTyped
      <4>2. w.len = [l EXCEPT ![r] = 1]
        BY <2>2
      <4> HIDE DEF l, r
      <4>3. [l EXCEPT ![r] = 1] \in [MrxReads -> Int]
        <5>1. 1 \in Int
          OBVIOUS
        <5> QED
          BY <4>1, <5>1, ExceptIn
      <4> QED
        BY <4>2, <4>3
    <3> QED
      BY <2>1, <2>2, <2>3, <3>1 DEF MrxReady, MrxTyped
  <2>5. MrxReady(w) /\ Cur(w) = r /\ w.op = "switch"
    BY <2>1, <2>3, <2>4 DEF MrxReady, MrxLimits, MrxReleased, Cur
  <2>6. s = w \/ s = mrx
    BY DEF w
  <2> QED
    BY <1>1, <2>5, <2>6
<1>3. mrx' = Succeed(n) \/ mrx' = IF t.base = "user" THEN [t EXCEPT !.op = "arm"] ELSE Succeed(t)
  <2> DEFINE v == [s EXCEPT !.ctx[r].refs = {}]
             x == SerialUpdateAndSwitchToUser(v)
  <2>1. mrx' = Succeed(n) \/ mrx' = IF x.base = "user" THEN [x EXCEPT !.op = "arm"] ELSE Succeed(x)
    BY DEF StartReadSwitch
  <2>2. v = u
    <3> HIDE DEF s
    <3> QED
      BY RefsExcept
  <2> HIDE DEF u, v, n
  <2>3. x = t
    BY <2>2, Zenon
  <2> HIDE DEF x, t, s
  <2> QED
    BY <2>1, <2>3, ZenonT(60)
<1> HIDE DEF s, t, n
<1>4. MrxReady(n) /\ Cur(n) = r
  BY <1>1, UpdateInterruptBufferIs DEF n, MrxRest, MrxFields, Cur
<1>5. MrxReady(u) /\ Cur(u) = r /\ u.op = "switch"
  <2>1. MrxBeside(s, u)
    BY <1>1, <1>2, RefsAre DEF MrxReady
  <2> HIDE DEF u
  <2> QED
    BY <1>2, <2>1, BesideReady, BesideReads
<1> HIDE DEF u
<1>6. /\ Cur(t) # NoReq /\ (t.base # "user" => MrxReady(t))
      /\ t.base = "user" => MrxGood([t EXCEPT !.op = "arm"])
  BY <1>1, <1>5, SwitchToUserIs DEF t
<1> QED
  BY <1>1, <1>3, <1>4, <1>6, SucceedGood

\* ... and makes it cancellable and sets its timers.
LEMMA StartReadArmGood == ASSUME MrxGood(mrx), StartReadArm PROVE MrxGood(mrx')
<1> DEFINE r == Cur(mrx)
           a == SerialSetCancelRoutine(mrx, r)
           b == IF mrx.load.total THEN StartTimer(a, r, "total", "total") ELSE a
           c == IF mrx.load.int THEN StartTimer(b, r, "int", "int") ELSE b
<1>1. r \in MrxRequests
  BY DEF StartReadArm, MrxGood, MrxTyped, MrxHanded, Cur
<1>2. mrx' = [c EXCEPT !.op = "none"]
  BY DEF StartReadArm
<1>3. MrxGood(a) /\ MrxTyped(a)
  BY <1>1, SetCancelIs, BesideGood DEF MrxGood
<1> HIDE DEF a
<1>4. MrxGood(b) /\ MrxTyped(b)
  BY <1>1, <1>3, StartTimerIs, BesideGood
<1> HIDE DEF b
<1>5. MrxGood(c)
  BY <1>1, <1>4, StartTimerIs, BesideGood
<1> HIDE DEF c
<1> QED
  BY <1>2, <1>5, OpGood

\* A larger interrupt buffer is filled with what the old one holds, ...
LEMMA ResizeMoveGood == ASSUME MrxGood(mrx), ResizeMove PROVE MrxGood(mrx')
<1> DEFINE r == Cur(mrx)
           s == SerialMoveToNewIntBuffer(mrx)
           t == [s EXCEPT !.copied = mrx.count, !.op = "tonew"]
<1>1. MrxReady(mrx) /\ r # NoReq /\ r \in DOMAIN MrxSizes
  BY StartIsReady DEF ResizeMove, MrxGood, MrxHanded
<1>2. mrx' = Succeed(mrx) \/ (mrx' = t /\ ~(MrxSizes[r] <= mrx.BufferSize))
  BY DEF ResizeMove
<1>3. CASE mrx' = Succeed(mrx)
  BY <1>1, <1>3, SucceedGood
<1>4. CASE mrx' = t /\ ~(MrxSizes[r] <= mrx.BufferSize)
  <2>1. MrxSizes[r] > 0
    BY <1>1, <1>4, MrxAssumption DEF MrxReady, MrxTyped, MrxLimits
  <2>2. /\ DOMAIN t = MrxFields /\ t.copied = mrx.count /\ t.op = "tonew"
        /\ \A f \in MrxFields \ {"newbuf", "first", "copied", "op"} : t[f] = mrx[f]
    BY <1>1 DEF SerialMoveToNewIntBuffer, MrxReady, MrxTyped, MrxFields
  <2> HIDE DEF t
  <2>3. /\ t.ctx = mrx.ctx /\ t.arrived = mrx.arrived /\ t.cur = mrx.cur /\ t.queue = mrx.queue
        /\ t.len = mrx.len /\ t.need = mrx.need /\ t.count = mrx.count /\ t.base = mrx.base
        /\ t.BufferSize = mrx.BufferSize /\ t.lines = mrx.lines /\ t.RXHolding = mrx.RXHolding
        /\ t.XonLimit = mrx.XonLimit /\ t.XoffLimit = mrx.XoffLimit /\ t.send = mrx.send
        /\ t.dpc = mrx.dpc
    BY <2>2 DEF MrxFields
  <2>4. MrxTyped(t)
    BY <1>1, <2>2, <2>3 DEF MrxReady, MrxTyped
  <2>5. MrxLimits(t) /\ MrxReleased(t) /\ MrxHanded(t)
    BY <1>1, <2>1, <2>2, <2>3 DEF MrxReady, MrxLimits, MrxReleased, MrxHanded, Cur
  <2> QED
    BY <1>4, <2>4, <2>5 DEF MrxGood
<1> QED
  BY <1>2, <1>3, <1>4

\* ... and takes its place, which may let the sender go.
LEMMA ResizeSwitchGood == ASSUME MrxGood(mrx), ResizeSwitch PROVE MrxGood(mrx')
<1> DEFINE r == Cur(mrx)
           size == MrxSizes[r]
           a == IF mrx.count >= mrx.copied THEN mrx ELSE Fault(mrx, "NumberMoved")
           rest == [mrx EXCEPT !.count = @ - mrx.copied]
           chars == IF rest.count = 0 THEN mrx.newbuf ELSE SerialMoveToNewIntBuffer(rest).newbuf
           new == [n \in 0 .. size - 1 |-> IF n < Len(chars) THEN chars[n + 1] ELSE 0]
           place == mrx.count % size
           b == [a EXCEPT !.ring = new, !.BufferSize = size, !.first = 0, !.slot = place,
                          !.XoffLimit = size \div 8, !.XonLimit = size \div 2,
                          !.newbuf = <<>>, !.copied = 0]
           t == SerialHandleReducedIntBuffer(b)
<1>1. MrxReady(mrx) /\ r # NoReq /\ r \in DOMAIN MrxSizes /\ size > 0 /\ size \in Nat
  BY StartIsReady, MrxAssumption DEF ResizeSwitch, MrxGood, MrxHanded
<1>2. mrx' = Succeed(t)
  BY DEF ResizeSwitch, SerialUpdateAndSwitchToNew
<1>3. MrxTyped(a) /\ \A f \in MrxFields \ {"faults"} : a[f] = mrx[f]
  BY <1>1 DEF Fault, MrxReady, MrxTyped, MrxFields
<1> HIDE DEF a, new, place, t
<1>4. /\ DOMAIN b = MrxFields /\ b.BufferSize = size /\ b.XoffLimit = size \div 8
      /\ b.XonLimit = size \div 2 /\ b.copied = 0
      /\ \A f \in MrxFields \ {"ring", "BufferSize", "first", "slot", "XoffLimit", "XonLimit", "newbuf",
                               "copied", "faults"} : b[f] = mrx[f]
  <2> HIDE DEF size
  <2> QED
    BY <1>3 DEF MrxTyped, MrxFields
<1> HIDE DEF b
<1>5. /\ b.ctx = mrx.ctx /\ b.arrived = mrx.arrived /\ b.cur = mrx.cur /\ b.queue = mrx.queue
      /\ b.len = mrx.len /\ b.need = mrx.need /\ b.count = mrx.count /\ b.base = mrx.base
      /\ b.lines = mrx.lines /\ b.RXHolding = mrx.RXHolding /\ b.send = mrx.send
      /\ b.dpc = mrx.dpc /\ b.op = mrx.op
  BY <1>4 DEF MrxFields
<1> HIDE DEF size
<1>6. MrxTyped(b)
  BY <1>1, <1>4, <1>5 DEF MrxReady, MrxTyped
<1>7. MrxLimits(b)
  BY <1>1, <1>4 DEF MrxLimits
<1>8. MrxTyped(t) /\ MrxLimits(t) /\ MrxReleased(t) /\ \A f \in MrxRest : t[f] = b[f]
  BY <1>6, <1>7, HandleReducedIs DEF t
<1>9. t.base = b.base /\ t.dpc = b.dpc /\ t.cur = b.cur
  BY <1>8 DEF MrxRest, MrxFields
<1>10. MrxReady(t) /\ Cur(t) = r
  BY <1>1, <1>5, <1>8, <1>9 DEF MrxReady, Cur
<1> QED
  BY <1>1, <1>2, <1>10, SucceedGood

\* An interrupt buffer that is purged lets the sender go.
LEMMA PurgeGood ==
  ASSUME MrxGood(mrx), SerialStartPurgeRx
  PROVE  MrxGood(mrx')
<1> DEFINE i == ToInterruptBuffer(mrx)
           t == SerialHandleReducedIntBuffer(i)
           x == t.lost \cup {Readable(mrx, mrx.count)[k] : k \in 1 .. mrx.count}
           u == [t EXCEPT !.lost = x]
<1>0. mrx.op = "none"
  BY DEF SerialStartPurgeRx, MrxLockFree
<1>1. mrx' = FlushReads(mrx) \/ mrx' = mrx \/ (mrx.base = "int" /\ mrx' = u)
  <2>1. u = [t EXCEPT !.lost = @ \cup {Readable(mrx, mrx.count)[k] : k \in 1 .. mrx.count}]
    OBVIOUS
  <2> HIDE DEF u
  <2> QED
    BY <2>1 DEF SerialStartPurgeRx, SerialPurgeInterruptBuff
<1>2. CASE mrx.base = "int" /\ mrx' = u
  <2>1. /\ DOMAIN i = MrxFields /\ i.base = "int" /\ i.count = 0
        /\ \A f \in MrxFields \ {"base", "slot", "first", "count"} : i[f] = mrx[f]
    BY DEF ToInterruptBuffer, MrxGood, MrxTyped, MrxFields
  <2> HIDE DEF i, x
  <2>2. /\ i.ctx = mrx.ctx /\ i.arrived = mrx.arrived /\ i.cur = mrx.cur /\ i.queue = mrx.queue
        /\ i.len = mrx.len /\ i.need = mrx.need /\ i.copied = mrx.copied
        /\ i.BufferSize = mrx.BufferSize /\ i.lines = mrx.lines /\ i.RXHolding = mrx.RXHolding
        /\ i.XonLimit = mrx.XonLimit /\ i.XoffLimit = mrx.XoffLimit /\ i.send = mrx.send
        /\ i.dpc = mrx.dpc /\ i.op = mrx.op
    BY <2>1 DEF MrxFields
  <2>3. MrxTyped(i) /\ MrxLimits(i)
    BY <2>1, <2>2 DEF MrxGood, MrxTyped, MrxLimits
  <2>4. MrxTyped(t) /\ MrxLimits(t) /\ MrxReleased(t) /\ \A f \in MrxRest : t[f] = i[f]
    BY <2>3, HandleReducedIs
  <2>5. t.base = "int" /\ t.dpc = mrx.dpc /\ t.cur = mrx.cur /\ t.op = "none" /\ t.ctx = mrx.ctx
    BY <1>0, <2>1, <2>2, <2>4 DEF MrxRest, MrxFields
  <2> HIDE DEF t
  <2>6. MrxGood(t)
    BY <2>4, <2>5 DEF MrxGood, MrxHanded, Cur
  <2>7. MrxApart(t, u)
    BY <2>4 DEF MrxApart, MrxTyped, MrxFields
  <2> QED
    BY <1>2, <2>6, <2>7, ApartGood
<1> HIDE DEF u
<1> QED
  BY <1>0, <1>1, <1>2, FlushGood

\* The DPC that an error queued flushes the reads.
LEMMA CommErrorGood == ASSUME MrxGood(mrx), SerialCommError PROVE MrxGood(mrx')
<1> DEFINE s == [mrx EXCEPT !.dpc = @ \ {"error"}]
<1>1. MrxApart(mrx, s)
  BY DEF MrxGood, MrxApart, MrxTyped, MrxFields
<1>2. mrx' = FlushReads(s) /\ mrx.op = "none"
  BY DEF SerialCommError, MrxLockFree
<1> HIDE DEF s
<1> QED
  BY <1>1, <1>2, ApartGood, FlushGood

\* A caller asks for, and clears, the errors.
LEMMA CommStatusGood == ASSUME MrxGood(mrx), MrxGetCommStatus PROVE MrxGood(mrx')
<1>1. MrxApart(mrx, mrx')
  BY DEF MrxGetCommStatus, MrxGood, MrxApart, MrxTyped, MrxFields
<1> QED
  BY <1>1, ApartGood

\* The lines under handshake change; a line that comes under it holds the sender only while the
\* buffer is fuller than both limits.
LEMMA HandFlowGood == ASSUME MrxGood(mrx), MrxHandFlow PROVE MrxGood(mrx')
<1>1. PICK line \in MrxLines : mrx' = SerialSetupNewHandFlow(mrx, line)
  BY DEF MrxHandFlow, MrxLines
<1> DEFINE full == mrx.BufferSize - mrx.XoffLimit <= mrx.count
<1>2. /\ DOMAIN mrx' = MrxFields
      /\ \A f \in MrxFields \ {"lines", "RXHolding", "send"} : mrx'[f] = mrx[f]
      /\ mrx'.lines \in {mrx.lines \ {line}, mrx.lines \cup {line}}
      /\ \/ /\ mrx'.RXHolding = mrx.RXHolding \ {line}
            /\ mrx'.send = IF line = "xoff" /\ line \in mrx.RXHolding THEN "xon" ELSE mrx.send
         \/ /\ mrx'.RXHolding = IF full THEN mrx.RXHolding \cup {line} ELSE mrx.RXHolding
            /\ full \/ mrx'.send = mrx.send
  <2> HIDE DEF full
  <2>1. CASE line \in mrx.lines
    BY <1>1, <2>1 DEF SerialSetupNewHandFlow, MrxGood, MrxTyped, MrxFields
  <2>2. CASE line \notin mrx.lines
    BY <1>1, <2>2 DEF SerialSetupNewHandFlow, MrxGood, MrxTyped, MrxFields, full
  <2> QED
    BY <2>1, <2>2
<1>3. /\ mrx'.ctx = mrx.ctx /\ mrx'.arrived = mrx.arrived /\ mrx'.cur = mrx.cur
      /\ mrx'.queue = mrx.queue /\ mrx'.len = mrx.len /\ mrx'.need = mrx.need
      /\ mrx'.copied = mrx.copied /\ mrx'.count = mrx.count /\ mrx'.base = mrx.base
      /\ mrx'.BufferSize = mrx.BufferSize /\ mrx'.XonLimit = mrx.XonLimit
      /\ mrx'.XoffLimit = mrx.XoffLimit /\ mrx'.dpc = mrx.dpc /\ mrx'.op = mrx.op
  BY <1>2 DEF MrxFields
<1>4. full => ~(mrx.count <= mrx.XonLimit)
  BY DEF MrxGood, MrxTyped, MrxLimits
<1> HIDE DEF full
<1>5. mrx'.lines \subseteq MrxLines /\ mrx'.RXHolding \subseteq MrxLines
  BY <1>2 DEF MrxGood, MrxTyped
<1>6. MrxTyped(mrx')
  BY <1>2, <1>3, <1>5 DEF MrxGood, MrxTyped
<1>7. MrxReleased(mrx')
  BY <1>2, <1>3, <1>4 DEF MrxGood, MrxReleased
<1>8. MrxLimits(mrx') /\ MrxHanded(mrx')
  BY <1>3 DEF MrxGood, MrxLimits, MrxHanded, Cur
<1> QED
  BY <1>6, <1>7, <1>8 DEF MrxGood

\* The client gives up on a request.
LEMMA CancelGood == ASSUME MrxGood(mrx), NEW r \in MrxRequests, MrxCancel(r) PROVE MrxGood(mrx')
<1>1. CASE r = Cur(mrx) /\ mrx' = CancelRequest(mrx, r)
  <2> DEFINE mark == IF mrx.ctx[r].mark = "marked" THEN "called"
                     ELSE IF mrx.ctx[r].mark = "no" THEN "wanted" ELSE mrx.ctx[r].mark
             c == [mrx.ctx[r] EXCEPT !.mark = mark]
             t == WithContext(mrx, r, c)
  <2>1. DOMAIN c = {"refs", "mark", "status", "info", "cancelled"} /\ c.refs = mrx.ctx[r].refs
    BY DEF MrxGood, MrxTyped
  <2>2. CancelRequest(mrx, r) = t
    <3>1. CancelRequest(mrx, r) = [mrx EXCEPT !.ctx[r].mark = mark]
      <4> HIDE DEF mark
      <4> QED
        BY DEF CancelRequest, MrxGood, MrxTyped, MrxFields, mark
    <3> HIDE DEF mark
    <3> QED
      BY <3>1 DEF WithContext, MrxGood, MrxTyped, MrxFields
  <2> HIDE DEF c
  <2>3. MrxBeside(mrx, t) /\ SameRefs(mrx, t)
    BY <2>1, ContextKeepsRefs DEF MrxGood
  <2> HIDE DEF t
  <2> QED
    BY <1>1, <2>2, <2>3, BesideGood DEF IsrStays, SameRefs
<1>2. ASSUME NEW n \in DOMAIN mrx.queue["read"],
             mrx' = DropRead([mrx EXCEPT !.queue["read"] =
                                SubSeq(mrx.queue["read"], 1, n - 1)
                                  \o SubSeq(mrx.queue["read"], n + 1, Len(mrx.queue["read"]))], r)
      PROVE  MrxGood(mrx')
  <2> DEFINE q == mrx.queue["read"]
             S == mrx.arrived
             p == SubSeq(q, 1, n - 1) \o SubSeq(q, n + 1, Len(q))
             s == [mrx EXCEPT !.queue["read"] = p]
  <2>1. q \in Seq(S)
    BY DEF MrxGood, MrxTyped
  <2>2. p \in Seq(S)
    <3> HIDE DEF q, S
    <3>1. n \in 1 .. Len(q) /\ Len(q) \in Nat
      BY <2>1 DEF q
    <3>2. SubSeq(q, 1, n - 1) \in Seq(S) /\ SubSeq(q, n + 1, Len(q)) \in Seq(S)
      BY <2>1, <3>1
    <3> QED
      BY <3>2
  <2> HIDE DEF p, S
  <2>3. /\ DOMAIN s = MrxFields /\ \A f \in MrxFields \ {"queue"} : s[f] = mrx[f]
        /\ DOMAIN s.queue = {"read"} /\ s.queue["read"] = p
    BY DEF MrxGood, MrxTyped, MrxFields
  <2>4. mrx' = SerialCompleteRequest(s, r, "cancelled", 0)
    BY <1>2 DEF DropRead, p
  <2> HIDE DEF s, q
  <2>5. /\ s.ctx = mrx.ctx /\ s.arrived = mrx.arrived /\ s.cur = mrx.cur /\ s.len = mrx.len
        /\ s.need = mrx.need /\ s.copied = mrx.copied /\ s.count = mrx.count /\ s.base = mrx.base
        /\ s.BufferSize = mrx.BufferSize /\ s.lines = mrx.lines /\ s.RXHolding = mrx.RXHolding
        /\ s.XonLimit = mrx.XonLimit /\ s.XoffLimit = mrx.XoffLimit /\ s.send = mrx.send
        /\ s.dpc = mrx.dpc /\ s.op = mrx.op
    BY <2>3 DEF MrxFields
  <2>6. MrxTyped(s)
    BY <2>2, <2>3, <2>5 DEF MrxGood, MrxTyped, S
  <2>7. MrxGood(s)
    BY <2>5, <2>6 DEF MrxGood, MrxLimits, MrxReleased, MrxHanded, Cur
  <2>8. MrxBeside(s, mrx') /\ IsrStays(s, mrx')
    BY <2>4, <2>6, CompleteRequestIs DEF IsrStays
  <2> QED
    BY <2>7, <2>8, BesideGood
<1> QED
  BY <1>1, <1>2 DEF MrxCancel

\* The interval timer ends the read, or is set again.
LEMMA IntervalGood ==
  ASSUME NEW s, MrxGood(s), s.op = "none", NEW elapsed
  PROVE  MrxGood(SerialIntervalReadTimeout(s, elapsed))
<1> DEFINE End(status) == TryToCompleteRead(SerialGrabReadFromIsr(s), status, "int")
           u == SerialUpdateReadByIsr(s)
           t == SerialIntervalReadTimeout(s, elapsed)
<1>1. t \in {End("timeout"), End("success"), End("cancelled"), SerialSetTimer(u, "int"),
             SerialSetTimer(s, "int")}
  BY DEF SerialIntervalReadTimeout
<1>2. MrxGood(End("timeout")) /\ MrxGood(End("success")) /\ MrxGood(End("cancelled"))
  BY EndReadGood
<1>3. MrxGood(u)
  <2>1. MrxApart(s, u)
    BY DEF SerialUpdateReadByIsr, MrxGood, MrxApart, MrxTyped, MrxFields
  <2> HIDE DEF u
  <2> QED
    BY <2>1, ApartGood
<1> HIDE DEF u
<1>4. ASSUME NEW v, MrxGood(v) PROVE MrxGood(SerialSetTimer(v, "int"))
  BY <1>4, TimerIs, BesideGood DEF MrxGood, IsrStays
<1> HIDE DEF t, End
<1> QED
  BY <1>1, <1>2, <1>3, <1>4 DEF t

\* The timers of a read run out, or their DPCs run.
LEMMA TimerGood ==
  ASSUME MrxGood(mrx), NEW n, MrxExpire(n) \/ MrxTimer(n)
  PROVE  MrxGood(mrx')
<1>1. ASSUME NEW x PROVE MrxGood([mrx EXCEPT !.timer = x]) /\ [mrx EXCEPT !.timer = x].op = mrx.op
  <2> DEFINE t == [mrx EXCEPT !.timer = x]
  <2>1. MrxApart(mrx, t)
    BY DEF MrxGood, MrxApart, MrxTyped, MrxFields
  <2> HIDE DEF t
  <2>2. MrxGood(t) /\ t.op = mrx.op
    BY <2>1, ApartGood
  <2> QED
    BY <2>2 DEF t
<1>2. CASE MrxExpire(n)
  <2> DEFINE x == [mrx.timer EXCEPT ![n] = {"due"}]
  <2>1. mrx' = [mrx EXCEPT !.timer = x]
    BY <1>2 DEF MrxExpire, Expire, MrxGood, MrxTyped, MrxFields
  <2> HIDE DEF x
  <2> QED
    BY <1>1, <2>1
<1>3. CASE MrxTimer(n)
  <2> DEFINE x == [mrx.timer EXCEPT ![n] = @ \ {"due"}]
             s == [mrx EXCEPT !.timer[n] = @ \ {"due"}]
  <2>1. s = [mrx EXCEPT !.timer = x]
    BY DEF MrxGood, MrxTyped, MrxFields
  <2>2. mrx.op = "none" /\ (mrx' = SerialReadTimeout(s)
          \/ \E elapsed \in BOOLEAN : mrx' = SerialIntervalReadTimeout(s, elapsed))
    BY <1>3 DEF MrxTimer, MrxLockFree
  <2> HIDE DEF x, s
  <2>3. MrxGood(s) /\ s.op = "none"
    BY <1>1, <2>1, <2>2
  <2> QED
    BY <2>2, <2>3, CancelReadGood, IntervalGood
<1> QED
  BY <1>2, <1>3

\* The DPC of the ISR completes a read that the ISR has filled.
LEMMA ReadDpcGood == ASSUME MrxGood(mrx), MrxReadDpc PROVE MrxGood(mrx')
<1> DEFINE s == [mrx EXCEPT !.dpc = @ \ {"read"}]
           t == [s EXCEPT !.CountOnLastRead = "complete"]
<1>1. mrx.op = "none" /\ "read" \in mrx.dpc /\ mrx' = TryToCompleteRead(t, "success", "isr")
  BY DEF MrxReadDpc, MrxLockFree, SerialCompleteRead
<1>2. mrx.base = "int"
  BY <1>1 DEF MrxGood, MrxTyped, MrxHanded
<1>3. DOMAIN s = MrxFields /\ "read" \notin s.dpc /\ \A f \in MrxFields \ {"dpc"} : s[f] = mrx[f]
  BY DEF MrxGood, MrxTyped, MrxFields
<1> HIDE DEF s
<1>4. /\ s.ctx = mrx.ctx /\ s.arrived = mrx.arrived /\ s.cur = mrx.cur /\ s.queue = mrx.queue
      /\ s.len = mrx.len /\ s.need = mrx.need /\ s.copied = mrx.copied /\ s.count = mrx.count
      /\ s.base = mrx.base /\ s.BufferSize = mrx.BufferSize /\ s.lines = mrx.lines
      /\ s.RXHolding = mrx.RXHolding /\ s.XonLimit = mrx.XonLimit /\ s.XoffLimit = mrx.XoffLimit
      /\ s.send = mrx.send /\ s.op = mrx.op /\ s.op = mrx.op
  BY <1>3 DEF MrxFields
<1>5. MrxTyped(s)
  BY <1>3, <1>4 DEF MrxGood, MrxTyped
<1>6. MrxReady(s) /\ MrxGood(s)
  BY <1>1, <1>2, <1>3, <1>4, <1>5 DEF MrxGood, MrxReady, MrxLimits, MrxReleased, MrxHanded
<1>7. MrxReady(t) /\ MrxGood(t) /\ t.op = "none"
  BY <1>1, <1>4, <1>6, CountOnLastReadGood
<1> HIDE DEF t
<1> QED
  BY <1>1, <1>7, TryToCompleteGood

\* An XON that is sent lets the sender go; an XOFF is sent only while the buffer is full enough.
LEMMA SendXonXoffGood == ASSUME MrxGood(mrx), MrxSendXonXoff PROVE MrxGood(mrx')
<1>1. /\ DOMAIN mrx' = MrxFields /\ \A f \in MrxFields \ {"RXHolding", "send"} : mrx'[f] = mrx[f]
      /\ mrx'.RXHolding = IF mrx.send = "xon" THEN mrx.RXHolding \ {"xoff"} ELSE mrx.RXHolding
  BY DEF MrxSendXonXoff, MrxGood, MrxTyped, MrxFields
<1>2. /\ mrx'.ctx = mrx.ctx /\ mrx'.arrived = mrx.arrived /\ mrx'.cur = mrx.cur
      /\ mrx'.queue = mrx.queue /\ mrx'.len = mrx.len /\ mrx'.need = mrx.need
      /\ mrx'.copied = mrx.copied /\ mrx'.count = mrx.count /\ mrx'.base = mrx.base
      /\ mrx'.BufferSize = mrx.BufferSize /\ mrx'.lines = mrx.lines
      /\ mrx'.XonLimit = mrx.XonLimit /\ mrx'.XoffLimit = mrx.XoffLimit /\ mrx'.dpc = mrx.dpc
      /\ mrx'.op = mrx.op
  BY <1>1 DEF MrxFields
<1>3. MrxTyped(mrx')
  BY <1>1, <1>2 DEF MrxGood, MrxTyped
<1> QED
  BY <1>1, <1>2, <1>3 DEF MrxGood, MrxLimits, MrxReleased, MrxHanded, Cur

\* A character goes into the buffer of the read, which may be full with it, ...
LEMMA PutInUserGood ==
  ASSUME NEW s, MrxGood(s), s.base = "user", NEW char
  PROVE  MrxGood(PutInUserBuffer(s, char))
<1> DEFINE r == Cur(s)
           t == [s EXCEPT !.ReadByIsr = TRUE, !.buf[r] = Append(@, char)]
           i == ToInterruptBuffer(t)
           c == [i.ctx[r] EXCEPT !.info = t.len[r]]
           u == WithContext(i, r, c)
           v == [u EXCEPT !.dpc = i.dpc \cup {"read"}]
<1>0. MrxTyped(s) /\ r # NoReq /\ r \in MrxRequests /\ s.count = 0 /\ "isr" \in s.ctx[r].refs
  BY DEF MrxGood, MrxTyped, MrxHanded, Cur
<1>1. MrxGood(t) /\ t.base = "user" /\ Cur(t) = r
  <2>1. MrxApart(s, t)
    BY <1>0 DEF MrxApart, MrxTyped, MrxFields
  <2> HIDE DEF t
  <2> QED
    BY <2>1, ApartGood
<1> HIDE DEF t
<1>2. /\ MrxTyped(i) /\ MrxLimits(i) /\ MrxReleased(i) /\ i.base = "int" /\ i.op = t.op
      /\ i.ctx = t.ctx /\ i.cur = t.cur /\ "isr" \in i.ctx[r].refs
      /\ t.op \notin {"get", "switch", "move", "tonew"}
  <2>1. MrxTyped(t) /\ t.count = 0 /\ "isr" \in t.ctx[r].refs /\ MrxLimits(t) /\ MrxReleased(t)
        /\ t.op \notin {"get", "switch", "move", "tonew"}
    BY <1>1 DEF MrxGood, MrxHanded
  <2>2. /\ DOMAIN i = MrxFields /\ i.base = "int" /\ i.count = 0
        /\ \A f \in MrxFields \ {"base", "slot", "first", "count"} : i[f] = t[f]
    BY <2>1 DEF ToInterruptBuffer, MrxTyped, MrxFields
  <2> HIDE DEF i
  <2>3. /\ i.ctx = t.ctx /\ i.arrived = t.arrived /\ i.cur = t.cur /\ i.queue = t.queue
        /\ i.len = t.len /\ i.need = t.need /\ i.copied = t.copied /\ i.BufferSize = t.BufferSize
        /\ i.lines = t.lines /\ i.RXHolding = t.RXHolding /\ i.XonLimit = t.XonLimit
        /\ i.XoffLimit = t.XoffLimit /\ i.send = t.send /\ i.dpc = t.dpc /\ i.op = t.op
    BY <2>2 DEF MrxFields
  <2>4. MrxTyped(i)
    BY <2>1, <2>2, <2>3 DEF MrxTyped
  <2> QED
    BY <2>1, <2>2, <2>3, <2>4 DEF MrxLimits, MrxReleased
<1>3. PutInUserBuffer(s, char) = t \/ PutInUserBuffer(s, char) = v
  <2> DEFINE w == [i EXCEPT !.ctx[r].info = t.len[r], !.dpc = @ \cup {"read"}]
  <2>1. PutInUserBuffer(s, char) = t \/ PutInUserBuffer(s, char) = w
    BY DEF PutInUserBuffer, t
  <2> HIDE DEF i
  <2>2. w = v
    BY <1>0, <1>2 DEF WithContext, MrxTyped, MrxFields
  <2> HIDE DEF v, w
  <2> QED
    BY <2>1, <2>2
<1> HIDE DEF i
<1>4. DOMAIN c = {"refs", "mark", "status", "info", "cancelled"} /\ c.refs = i.ctx[r].refs
  BY <1>0, <1>2 DEF MrxTyped
<1> HIDE DEF c
<1>5. MrxBeside(i, u) /\ MrxTyped(u) /\ SameRefs(i, u)
  BY <1>0, <1>2, <1>4, ContextKeepsRefs
<1> HIDE DEF u
<1>6. /\ MrxLimits(u) /\ MrxReleased(u) /\ u.base = "int" /\ Cur(u) = r /\ "isr" \in u.ctx[r].refs
      /\ u.op \notin {"get", "switch", "move", "tonew"}
  BY <1>0, <1>1, <1>2, <1>5, BesideReads DEF MrxLimits, MrxReleased, SameRefs, Cur
<1>7. DOMAIN v = MrxFields /\ \A f \in MrxFields \ {"dpc"} : v[f] = u[f]
  BY <1>5 DEF MrxTyped, MrxFields
<1> HIDE DEF v
<1>8. /\ v.ctx = u.ctx /\ v.arrived = u.arrived /\ v.cur = u.cur /\ v.queue = u.queue
      /\ v.len = u.len /\ v.need = u.need /\ v.copied = u.copied /\ v.count = u.count
      /\ v.base = u.base /\ v.BufferSize = u.BufferSize /\ v.lines = u.lines
      /\ v.RXHolding = u.RXHolding /\ v.XonLimit = u.XonLimit /\ v.XoffLimit = u.XoffLimit
      /\ v.send = u.send /\ v.op = u.op
  BY <1>7 DEF MrxFields
<1>9. MrxTyped(v)
  BY <1>5, <1>7, <1>8 DEF MrxTyped
<1>10. MrxGood(v)
  BY <1>0, <1>6, <1>8, <1>9 DEF MrxGood, MrxLimits, MrxReleased, MrxHanded, Cur
<1> QED
  BY <1>1, <1>3, <1>10

\* ... or into the interrupt buffer, where it may stop the sender.
LEMMA PutInInterruptGood ==
  ASSUME NEW s, MrxGood(s), s.base = "int", NEW char
  PROVE  MrxGood(PutInInterruptBuffer(s, char))
<1> DEFINE t == StopSender(s)
           slot == (t.slot + 1) % t.BufferSize
           ring == [t.ring EXCEPT ![t.slot] = char]
           room == [t EXCEPT !.ring = ring, !.count = t.count + 1, !.slot = slot]
           lost == t.lost \cup {char}
           dpc == IF t.load.abort THEN t.dpc \cup {"error"} ELSE t.dpc
           full == [t EXCEPT !.ErrorWord = TRUE, !.lost = lost, !.dpc = dpc]
           stops == s.BufferSize - s.XoffLimit <= s.count + 1
<1>0. MrxTyped(s) /\ MrxLimits(s) /\ MrxReleased(s) /\ MrxHanded(s)
  BY DEF MrxGood
<1>1. /\ MrxTyped(t) /\ MrxLimits(t) /\ MrxHanded(t)
      /\ t.count = s.count /\ t.base = "int" /\ t.XonLimit = s.XonLimit
      /\ t.BufferSize = s.BufferSize
      /\ stops \/ t = s
  <2>1. CASE s.BufferSize - s.XoffLimit > s.count + 1
    BY <1>0, <2>1 DEF StopSender
  <2>2. CASE ~(s.BufferSize - s.XoffLimit > s.count + 1)
    <3>1. stops
      BY <1>0, <2>2 DEF MrxTyped, MrxLimits
    <3>2. /\ DOMAIN t = MrxFields /\ t.RXHolding = s.RXHolding \cup s.lines
          /\ \A f \in MrxFields \ {"RXHolding", "send"} : t[f] = s[f]
      BY <1>0, <2>2 DEF StopSender, MrxTyped, MrxFields
    <3> HIDE DEF t, stops
    <3>3. /\ t.ctx = s.ctx /\ t.arrived = s.arrived /\ t.cur = s.cur /\ t.queue = s.queue
          /\ t.len = s.len /\ t.need = s.need /\ t.copied = s.copied /\ t.count = s.count
          /\ t.base = s.base /\ t.BufferSize = s.BufferSize /\ t.lines = s.lines
          /\ t.XonLimit = s.XonLimit /\ t.XoffLimit = s.XoffLimit /\ t.dpc = s.dpc /\ t.op = s.op
      BY <3>2 DEF MrxFields
    <3>4. MrxTyped(t)
      BY <1>0, <3>2, <3>3 DEF MrxTyped
    <3>5. MrxLimits(t) /\ MrxHanded(t)
      BY <1>0, <3>3 DEF MrxLimits, MrxHanded, Cur
    <3> QED
      BY <3>1, <3>3, <3>4, <3>5
  <2> QED
    BY <2>1, <2>2
<1>2. PutInInterruptBuffer(s, char) = IF t.count < t.BufferSize THEN room ELSE full
  <2>1. room = [t EXCEPT !.ring[t.slot] = char, !.count = @ + 1, !.slot = (@ + 1) % t.BufferSize]
    <3> HIDE DEF t
    <3> QED
      BY <1>1 DEF MrxTyped, MrxFields
  <2>2. full = [t EXCEPT !.ErrorWord = TRUE, !.lost = @ \cup {char},
                         !.dpc = IF t.load.abort THEN @ \cup {"error"} ELSE @]
    <3> HIDE DEF t
    <3> QED
      BY <1>1 DEF MrxTyped, MrxFields
  <2> HIDE DEF room, full
  <2> QED
    BY <2>1, <2>2 DEF PutInInterruptBuffer
<1> HIDE DEF t, slot, ring, lost
<1>3. stops => s.count + 1 > s.XonLimit
  BY <1>0 DEF MrxTyped, MrxLimits
<1>4. CASE t.count < t.BufferSize
  <2>1. /\ DOMAIN room = MrxFields /\ room.count = t.count + 1
        /\ \A f \in MrxFields \ {"ring", "count", "slot"} : room[f] = t[f]
    BY <1>1 DEF MrxTyped, MrxFields
  <2> HIDE DEF room, stops
  <2>2. /\ room.ctx = t.ctx /\ room.arrived = t.arrived /\ room.cur = t.cur
        /\ room.queue = t.queue /\ room.len = t.len /\ room.need = t.need
        /\ room.copied = t.copied /\ room.base = t.base /\ room.BufferSize = t.BufferSize
        /\ room.lines = t.lines /\ room.RXHolding = t.RXHolding /\ room.XonLimit = t.XonLimit
        /\ room.XoffLimit = t.XoffLimit /\ room.send = t.send /\ room.dpc = t.dpc
        /\ room.op = t.op
    BY <2>1 DEF MrxFields
  <2>3. MrxTyped(room)
    BY <1>1, <2>1, <2>2 DEF MrxTyped
  <2>4. MrxLimits(room) /\ MrxHanded(room)
    BY <1>1, <2>2 DEF MrxLimits, MrxHanded, Cur
  <2>5. MrxReleased(room)
    <3>1. s.count \in Int /\ s.XonLimit \in Int
      BY <1>0 DEF MrxTyped, MrxLimits
    <3> QED
      BY <1>0, <1>1, <1>3, <2>1, <2>2, <3>1 DEF MrxReleased
  <2> QED
    BY <1>2, <1>4, <2>3, <2>4, <2>5 DEF MrxGood
<1>5. CASE ~(t.count < t.BufferSize)
  <2>1. MrxReleased(t)
    <3>1. ~(t.count <= t.XonLimit)
      BY <1>1, <1>5 DEF MrxTyped, MrxLimits
    <3> QED
      BY <3>1 DEF MrxReleased
  <2>2. MrxGood(t)
    BY <1>1, <2>1 DEF MrxGood
  <2>3. MrxApart(t, full)
    BY <1>1 DEF MrxApart, MrxTyped, MrxFields
  <2> HIDE DEF full
  <2> QED
    BY <1>2, <1>5, <2>2, <2>3, ApartGood
<1> QED
  BY <1>4, <1>5

\* The ISR takes a character, wherever the buffer is.
LEMMA PutCharGood == ASSUME MrxGood(mrx), SerialPutChar PROVE MrxGood(mrx')
<1> DEFINE s == [mrx EXCEPT !.received = @ + 1]
<1>1. MrxApart(mrx, s)
  BY DEF MrxGood, MrxApart, MrxTyped, MrxFields
<1>2. mrx' = IF s.base = "user" THEN PutInUserBuffer(s, s.received)
             ELSE PutInInterruptBuffer(s, s.received)
  BY DEF SerialPutChar
<1> HIDE DEF s
<1>3. MrxGood(s) /\ s.base \in {"int", "user"}
  BY <1>1, ApartGood DEF MrxGood, MrxTyped
<1> QED
  BY <1>2, <1>3, PutInUserGood, PutInInterruptGood

\* The receive side starts in the invariant, ...
LEMMA MrxInitially == MrxInit => MrxGood(mrx)
<1> SUFFICES ASSUME MrxInit PROVE MrxGood(mrx)
  OBVIOUS
<1> USE MrxAssumption
<1>1. MrxTyped(mrx)
  <2>1. \A r \in MrxRequests : mrx.ctx[r] = NewContext
    BY DEF MrxInit
  <2>2. DOMAIN NewContext = {"refs", "mark", "status", "info", "cancelled"}
    BY DEF NewContext
  <2>3. /\ DOMAIN mrx = MrxFields /\ DOMAIN mrx.ctx = MrxRequests /\ mrx.arrived = {}
        /\ DOMAIN mrx.cur = {"read"} /\ mrx.cur["read"] = NoReq
        /\ DOMAIN mrx.queue = {"read"} /\ mrx.queue["read"] = <<>>
    BY DEF MrxInit, MrxFields
  <2>4. /\ mrx.count = 0 /\ mrx.need = 0 /\ mrx.copied = 0 /\ mrx.BufferSize = MrxBufferSize
        /\ mrx.base = "int" /\ mrx.RXHolding = {}
    BY DEF MrxInit
  <2>5. mrx.lines \subseteq MrxLines
    BY DEF MrxInit, MrxLines
  <2>6. mrx.len \in [MrxReads -> Int]
    BY DEF MrxInit, MrxReads
  <2>7. <<>> \in Seq(mrx.arrived)
    OBVIOUS
  <2> QED
    BY <2>1, <2>2, <2>3, <2>4, <2>5, <2>6, <2>7 DEF MrxTyped
<1>2. MrxLimits(mrx) /\ MrxReleased(mrx) /\ MrxHanded(mrx)
  BY DEF MrxInit, MrxLimits, MrxReleased, MrxHanded
<1> QED
  BY <1>1, <1>2 DEF MrxGood

\* ... and every step keeps it.
LEMMA MrxStep == MrxGood(mrx) /\ [MrxNext]_mrx => MrxGood(mrx')
<1> SUFFICES ASSUME MrxGood(mrx), [MrxNext]_mrx PROVE MrxGood(mrx')
  OBVIOUS
<1>1. CASE UNCHANGED mrx
  BY <1>1
<1>2. ASSUME NEW r \in MrxRequests, SerialEvtIoRead(r) \/ MrxCancel(r) \/ MrxCancelRoutine(r)
      PROVE  MrxGood(mrx')
  BY <1>2, EvtIoReadGood, CancelGood, CancelReadGood DEF MrxCancelRoutine, MrxLockFree
<1>3. CASE StartReadGet \/ StartReadSwitch \/ StartReadArm \/ ResizeMove \/ ResizeSwitch
  BY <1>3, StartReadGetGood, StartReadSwitchGood, StartReadArmGood, ResizeMoveGood, ResizeSwitchGood
<1>4. CASE SerialStartPurgeRx \/ SerialCommError \/ MrxGetCommStatus \/ MrxHandFlow
  BY <1>4, PurgeGood, CommErrorGood, CommStatusGood, HandFlowGood
<1>5. CASE \E n \in {"total", "int"} : MrxExpire(n) \/ MrxTimer(n)
  BY <1>5, TimerGood
<1>6. CASE MrxReadDpc \/ MrxSendXonXoff \/ SerialPutChar
  BY <1>6, ReadDpcGood, SendXonXoffGood, PutCharGood
<1> QED
  BY <1>1, <1>2, <1>3, <1>4, <1>5, <1>6 DEF MrxNext

-----------------------------------------------------------------------------
\* The invariant of all six.
DeviceInv == MlnInv /\ PltInv /\ PlrInv /\ GniInv /\ PwaInv /\ MrxGood(mrx)

\* A step of the system is a step of a component, or leaves it alone.
LEMMA DeviceSteps ==
  ASSUME [DeviceNext]_deviceVars
  PROVE  [MlnNext]_mln /\ [PltNext]_plt /\ [PlrNext]_plr /\ [GniNext]_gni /\ [PwaNext]_pwa
         /\ [MrxNext]_mrx
<1>1. CASE Next /\ UNCHANGED others
  BY <1>1 DEF Next, others, miniVars
<1>2. CASE PwaNext /\ UNCHANGED <<vars, gni>>
  BY <1>2 DEF vars, miniVars
<1>3. CASE GniNext /\ UNCHANGED <<vars, pwa>>
  BY <1>3 DEF vars, miniVars
<1>4. CASE UNCHANGED deviceVars
  BY <1>4 DEF deviceVars, vars, miniVars, others
<1> QED
  BY <1>1, <1>2, <1>3, <1>4 DEF DeviceNext

\* The devices start in the invariant and every step keeps it.
THEOREM DeviceInvariant == DeviceSpec => []DeviceInv
<1>1. DeviceInit => DeviceInv
  BY MlnInitially, PltInitially, PlrInitially, GniInitially, PwaInitially, MrxInitially
  DEF DeviceInit, UartInit, DeviceInv
<1>2. DeviceInv /\ [DeviceNext]_deviceVars => DeviceInv'
  BY DeviceSteps, MlnStep, PltStep, PlrStep, GniStep, PwaStep, MrxStep DEF DeviceInv
<1> QED
  BY <1>1, <1>2, PTL DEF DeviceSpec

\* CountOfTryingToLowerRTS counts the attempts under way, whatever timer, DPC and close do, and
\* a closed port keeps no line raised, no timer, no DPC and no buffer (openclos.c, modmflow.c).
THEOREM CloseLeavesNothingHolds == DeviceSpec => []CloseLeavesNothing
<1>1. DeviceInv => CloseLeavesNothing
  BY DEF DeviceInv, MlnInv, MlnStages, MlnClosedIsQuiet, CloseLeavesNothing
<1> QED
  BY <1>1, DeviceInvariant, PTL

\* SerCx2 hears "ready" only while it waits for it: never twice, never after a cancellation that
\* was answered with TRUE (PL011tx.cpp, pl011rx.cpp).
THEOREM ReadyIsExpectedHolds == DeviceSpec => []ReadyIsExpected
<1>1. DeviceInv => ReadyIsExpected
  BY DEF DeviceInv, PltInv, PlrInv, PltReadyExpected, PlrReadyExpected, ReadyIsExpected
<1> QED
  BY <1>1, DeviceInvariant, PTL

\* A sleeping queue with completions to see has an interrupt, an ISR or a DPC on the way, a
\* stopped queue is never called, and UMAC.Cmd is what its callers made of it whenever nobody
\* holds the adapter's lock (driver.c).
THEOREM EventsSeenHolds == DeviceSpec => []EventsSeen
<1>1. DeviceInv => EventsSeen
  <2> SUFFICES ASSUME GniInv PROVE EventsSeen
    BY DEF DeviceInv
  <2>1. GniNoLostNotification
    BY DEF GniInv, GniTyped, GniExpects, GniNoLostNotification
  <2>2. GniStoppedIsQuiet
    BY DEF GniInv, GniDisarmed, GniStoppedIsQuiet
  <2>3. GniCommandKept
    BY DEF GniInv, GniLocked, Holding, GniCommand, GniCommandKept, Queues, Nobody
  <2> QED
    BY <2>1, <2>2, <2>3 DEF EventsSeen
<1> QED
  BY <1>1, DeviceInvariant, PTL

\* The packets of the audio client are played one after the other, DmaPacketsInUse covers what the
\* DMA can still reach and never exceeds the buffer, a DMA that ran dry is noticed, and the position
\* reported is never ahead of the sound (dma.cpp, dmaInterrupt.cpp, minwavertstream.cpp).
THEOREM AudioInOrderHolds == DeviceSpec => []AudioInOrder
<1>1. DeviceInv => AudioInOrder
  BY PwaPlaysOn, PwaCovered, PwaNoticed, PwaPositioned DEF DeviceInv, AudioInOrder
<1> QED
  BY <1>1, DeviceInvariant, PTL

\* SerialHandleReducedIntBuffer is called wherever it must be: while the interrupt
\* buffer holds no more than XonLimit characters, neither DTR nor RTS is held back and an XOFF that
\* was sent has its XON on the way, whoever of read, purge, timer, ISR and cancellation emptied the
\* buffer, also into a larger one (modmflow.c, read.c, purge.c, isr.c).
THEOREM HoldReleasedHolds == DeviceSpec => []MrxHoldReleased
<1>1. DeviceInv => MrxHoldReleased
  BY DEF DeviceInv, MrxGood, MrxReleased, MrxHoldReleased
<1> QED
  BY <1>1, DeviceInvariant, PTL
=============================================================================
