-------------------------- MODULE PeripheralProofs --------------------------
(***************************************************************************)
(* The drivers of the serial and SD buses, proved for every value of the   *)
(* constants: a request of the I2C driver and of the Pi's SD host is       *)
(* completed once and by who owns it; the DPCs of I2C and auxiliary SPI    *)
(* find interrupts disabled; chip select is active as long as the request  *)
(* or the lock; the assertions of the main SPI driver and of the driver of *)
(* the Arasan host hold; the divisors of all clocks are the best there are *)
(* and the host of the Pi 4 signals at the card's voltage.  Last, each     *)
(* bounce buffer of the USB filter is one transfer's or free, and the data *)
(* of a transfer reaches the other side, for every number of buffers and   *)
(* transfers.  Each driver has its own invariant.                          *)
(***************************************************************************)
EXTENDS MCPeripherals, UsbBounce, SequenceTheorems, FiniteSetTheorems, TLAPS

-----------------------------------------------------------------------------
(* The I2C controller.                                                     *)

\* The ways a request is failed before its transfer has started.
Failing == {"fail", "failHw", "failComplete"}

\* The types of the driver's state.
I2cTyped ==
  /\ disp \in {"idle", "read", "fill", "mark", "sequence", "active", "seqMark"} \cup Failing
  /\ isr \in Copying \cup {"idle"} /\ state \in States
  /\ mark \in {"unmarked", "marked", "cancelled", "callback"}
  /\ spb \in BOOLEAN /\ dpc \in BOOLEAN /\ claimed \in BOOLEAN /\ active \in BOOLEAN
  /\ twice \in BOOLEAN /\ overtaken \in BOOLEAN

\* Who may still complete the request: its callback, the cancellation, or the interrupt's DPC.
I2cOwned ==
  /\ disp # "idle" => active
  /\ disp \in {"mark", "sequence", "active", "seqMark"} => spb
  /\ mark \in {"marked", "callback"} => active /\ disp = "idle" /\ ~claimed /\ spb
  /\ claimed => active /\ disp = "idle" /\ mark = "unmarked" /\ en = {} /\ ~dpc /\ isr = "idle"

\* Interrupts are enabled only while the request is marked cancelable, or being started or failed.
I2cInterrupts ==
  /\ dpc => en = {} /\ isr = "idle"
  /\ dpc \/ en # {} \/ isr # "idle" =>
       \/ mark \in {"marked", "callback"}
       \/ disp = "seqMark"
       \/ disp \in Failing /\ mark = "cancelled"
  /\ disp \in {"seqMark"} \cup Failing /\ isr # "idle" => isr = "RECEIVING_SEQUENCE"
  /\ disp \in {"seqMark"} \cup Failing /\ (en # {} \/ isr # "idle") =>
       state \in ReceivingSequence \cup {"INVALID"}
  /\ disp = "failComplete" => en = {}

\* The invariant: once a handler was overtaken only the types are left.
I2cInv == I2cTyped /\ (~overtaken => ~twice /\ I2cOwned /\ I2cInterrupts)

\* The driver starts in the invariant.
LEMMA I2cInitially == Init => I2cInv
BY DEF Init, I2cInv, I2cTyped, I2cOwned, I2cInterrupts, Failing, States, Copying, WaitForDone

\* The controller and the slave move on: what the driver keeps in memory stays.
LEMMA HardwareKept == ASSUME I2cInv, Hardware PROVE I2cInv'
BY DEF Hardware, ctxVars, frameVars, I2cInv, I2cTyped, I2cOwned, I2cInterrupts

\* The client asks for the cancellation.
LEMMA ClientCancelsKept == ASSUME I2cInv, ClientCancels PROVE I2cInv'
BY DEF ClientCancels, hwVars, ctxVars, I2cInv, I2cTyped, I2cOwned, I2cInterrupts, Failing

\* OnRead, OnWrite and OnSequence are called for a request when there is none.
LEMMA HandedKept == ASSUME I2cInv, OnRead \/ OnWrite \/ OnSequence PROVE I2cInv'
<1> USE DEF hwVars, ctxVars, frameVars, I2cInv, I2cTyped, I2cOwned, I2cInterrupts, Failing,
     States, Copying, WaitForDone
<1>1. CASE OnRead
  BY <1>1 DEF OnRead, Hand, Start
<1>2. CASE OnWrite
  BY <1>2 DEF OnWrite, Hand, Start
<1>3. CASE OnSequence
  BY <1>3 DEF OnSequence, Hand, SetContext
<1> QED
  BY <1>1, <1>2, <1>3

\* What the callbacks do: fill the FIFO, mark the request, enable interrupts, or fail it.
LEMMA DispatchKept == ASSUME I2cInv, Dispatch PROVE I2cInv'
<1> USE DEF hwVars, ctxVars, frameVars, I2cInv, I2cTyped, I2cOwned, I2cInterrupts, Failing
<1>1. CASE ReadContext
  BY <1>1 DEF ReadContext, SetContext, States, Copying, WaitForDone
<1>2. CASE WriteContext
  BY <1>2 DEF WriteContext, SetContext, States, Copying, WaitForDone
<1>3. CASE FillByte \/ SequenceInactive
  BY <1>3 DEF FillByte, SequenceInactive
<1>4. CASE StartSequenceWrite
  BY <1>4 DEF StartSequenceWrite, Start
<1>5. CASE SequenceActive
  BY <1>5 DEF SequenceActive, InterruptLockFree, States, Copying, WaitForDone, ReceivingSequence
<1>6. CASE SequenceMark
  BY <1>6 DEF SequenceMark, Markable
<1>7. CASE MarkRequestCancelable
  BY <1>7 DEF MarkRequestCancelable, Markable
<1>8. CASE FailContext
  BY <1>8 DEF FailContext, ResetContext, States
<1>9. CASE FailHardware
  BY <1>9 DEF FailHardware, ResetHardware
<1>10. CASE FailComplete
  BY <1>10 DEF FailComplete, Complete
<1> QED
  BY <1>1, <1>3, <1>4, <1>5, <1>6, <1>7, <1>8, <1>10, <1>2, <1>9 DEF Dispatch

\* The cancellation takes the request from its DPC, disables interrupts and completes it.
LEMMA OnRequestCancelKept == ASSUME I2cInv, OnRequestCancel PROVE I2cInv'
<1> USE DEF hwVars, ctxVars, frameVars, I2cInv, I2cTyped, I2cOwned, I2cInterrupts, Failing,
     States, CancelLockFree, InterruptLockFree
<1>1. CASE OnRequestCancel /\ Lost
  BY <1>1 DEF OnRequestCancel, Lost
<1>2. CASE OnRequestCancel /\ CancelCurrent
  <2>1. /\ mark = "callback" /\ isr = "idle" /\ state' = "INVALID" /\ spb' = FALSE /\ en' = {}
        /\ active' = FALSE /\ mark' = "unmarked" /\ twice' = (twice \/ ~active)
        /\ overtaken' = (overtaken \/ dpc') /\ UNCHANGED <<disp, isr, dpc, claimed>>
    BY <1>2 DEF OnRequestCancel, CancelCurrent, ResetContext, ResetHardware, Complete
  <2>2. I2cTyped'
    BY <2>1
  <2>3. ASSUME ~overtaken' PROVE ~twice' /\ I2cOwned' /\ I2cInterrupts'
    BY <2>1, <2>3
  <2> QED
    BY <2>2, <2>3
<1> QED
  BY <1>1, <1>2 DEF OnRequestCancel

\* The interrupt: it copies data, or disables interrupts and queues the DPC.
LEMMA HandleInterruptKept == ASSUME I2cInv, HandleInterrupt PROVE I2cInv'
<1> USE DEF hwVars, ctxVars, frameVars, I2cInv, I2cTyped, I2cOwned, I2cInterrupts, Failing,
     Interrupt, GoToDpc, InLoop, LeaveLoop
<1>1. Line => en # {}
  BY DEF Line
<1>2. CASE IsrErrorEnds
  BY <1>1, <1>2 DEF IsrErrorEnds
<1>3. CASE IsrError
  BY <1>1, <1>3, ZenonT(60) DEF IsrError
<1>4. CASE IsrCopy
  BY <1>1, <1>4 DEF IsrCopy, States, Copying, WaitForDone, ReceivingSequence
<1>5. CASE IsrDone
  BY <1>1, <1>5 DEF IsrDone
<1>6. CASE IsrSendByte \/ IsrSequenceByte
  BY <1>6 DEF IsrSendByte, IsrSequenceByte, States, Copying, WaitForDone
<1>7. CASE IsrSendFull \/ IsrReceiveEmpty \/ IsrSequenceWait
  BY <1>7 DEF IsrSendFull, IsrReceiveEmpty, IsrSequenceWait
<1>8. CASE IsrReceiveByte
  BY <1>8 DEF IsrReceiveByte, NextReceive, States, Copying, WaitForDone, ReceivingSequence
<1>9. CASE IsrSequenceRead
  BY <1>9 DEF IsrSequenceRead, States, Copying, WaitForDone
<1> QED
  BY <1>2, <1>3, <1>4, <1>5, <1>6, <1>7, <1>8, <1>9 DEF HandleInterrupt

\* The DPC claims the request, unless the cancellation did, and completes it.
LEMMA OnInterruptDpcKept == ASSUME I2cInv, OnInterruptDpc PROVE I2cInv'
<1> USE DEF hwVars, ctxVars, frameVars, I2cInv, I2cTyped, I2cOwned, I2cInterrupts, Failing,
     CancelLockFree, InterruptLockFree
<1>1. CASE DpcClaim
  <2>1. CASE (~spb \/ mark \in {"callback", "cancelled"}) /\ UNCHANGED <<spb, claimed, frameVars>>
    BY <1>1, <2>1 DEF DpcClaim
  <2>2. CASE spb /\ mark = "marked" /\ mark' = "unmarked" /\ claimed' = TRUE
             /\ UNCHANGED <<active, twice, overtaken>>
    BY <1>1, <2>2 DEF DpcClaim
  <2>3. CASE spb /\ mark = "unmarked" /\ Complete /\ UNCHANGED claimed
    BY <1>1, <2>3 DEF DpcClaim, Complete
  <2> QED
    BY <1>1, <2>1, <2>2, <2>3 DEF DpcClaim
<1>2. CASE DpcComplete
  BY <1>2 DEF DpcComplete, ResetContext, ResetHardware, Complete, States, Copying, WaitForDone
<1> QED
  BY <1>1, <1>2 DEF OnInterruptDpc

\* Every step of the I2C driver keeps the invariant.
LEMMA I2cStep == I2cInv /\ [Next]_vars => I2cInv'
<1> SUFFICES ASSUME I2cInv, [Next]_vars PROVE I2cInv'
  OBVIOUS
<1>1. CASE UNCHANGED vars
  BY <1>1 DEF vars, hwVars, ctxVars, frameVars, I2cInv, I2cTyped, I2cOwned, I2cInterrupts
<1> QED
  BY <1>1, HardwareKept, ClientCancelsKept, HandedKept, DispatchKept, OnRequestCancelKept,
     HandleInterruptKept,
     OnInterruptDpcKept DEF Next

\* The invariant gives that a request is completed once, and interrupts off in the DPC.
LEMMA I2cInvGives == I2cInv => CompletedOnce /\ InterruptsStayDisabled
BY DEF I2cInv, I2cInterrupts, CompletedOnce, InterruptsStayDisabled, DpcFindsInterruptsDisabled

-----------------------------------------------------------------------------
(* Auxiliary SPI.                                                          *)

\* The fields of the driver's state.
AuxFields == {"pc", "active", "kind", "w", "r", "mode", "mark", "asked", "spb", "state", "fifo", "Written",
              "Read", "buffer", "tx", "rx", "heard", "clock", "doneIrq", "cs", "locked", "queued", "dpc",
              "cancel", "last", "overtaken"}

\* The types the proof needs.
AuxTyped ==
  /\ DOMAIN aux = AuxFields
  /\ aux.pc \in {"idle", "mark", "enable"} /\ aux.dpc \in {"none", "claimed", "ours"}
  /\ aux.cancel \in {"none", "called", "claimed"} /\ aux.mark \in {"unmarked", "marked", "called"}
  /\ aux.w \in Nat /\ aux.r \in Nat /\ aux.Read \in Nat /\ aux.Written \in Nat
  /\ aux.fifo \in DOMAIN WordBytes

\* Full duplex: what was written is one FIFO ahead of what was read.
AuxAhead ==
  aux.state = "FULL_DUPLEX" =>
    aux.w = aux.r /\ aux.Written = aux.Read + AuxLeast(Capacity(aux.fifo), aux.r - aux.Read)

\* Who has the request - callback, interrupt, DPC or cancellation - and what each of them relies on.
AuxFlow ==
  ~aux.overtaken =>
    /\ (aux.queued \/ aux.dpc # "none") =>
         ~aux.doneIrq /\ (aux.cs <=> aux.locked) /\ aux.tx = <<>> /\ aux.active /\ aux.pc = "idle"
    /\ aux.pc # "idle" => aux.active /\ ~aux.doneIrq /\ aux.cs
    /\ aux.pc = "mark" => aux.mark = "unmarked"
    /\ aux.dpc # "none" => ~aux.spb /\ aux.cancel # "claimed"
    /\ aux.cancel = "claimed" => ~aux.spb
    /\ aux.dpc = "ours" => aux.mark = "unmarked"
    /\ aux.cancel # "none" => aux.active /\ aux.mark = "called"
    /\ (aux.tx # <<>> \/ aux.locked) => aux.cs
    /\ (~aux.active /\ ~aux.locked) => ~aux.cs
    /\ (aux.doneIrq /\ aux.state # "INVALID") => aux.cs /\ aux.active

\* The invariant.
AuxInv == AuxTyped /\ AuxAhead /\ AuxFlow

\* A FIFO of either width holds a byte at least.
LEMMA CapacityPositive == \A f \in DOMAIN WordBytes : Capacity(f) \in Nat \ {0}
BY AuxAssumption DEF Capacity, WordBytes

\* selectFifoMode gives one of the widths.
LEMMA FifoModes == \A m, n : selectFifoMode(m, n) \in DOMAIN WordBytes
BY DEF selectFifoMode, WordBytes

\* The driver starts in the invariant.
LEMMA AuxInitially == AuxInit => AuxInv
BY DEF AuxInit, AuxInv, AuxTyped, AuxAhead, AuxFlow, AuxFields, WordBytes

\* writeFifoMdl writes what the FIFO holds of the bytes that are left.
LEMMA WriteMdl ==
  ASSUME NEW s, DOMAIN s = AuxFields
  PROVE  \E x : writeFifoMdl(s) = [s EXCEPT !.tx = x,
                                            !.Written = s.Written + AuxLeast(Capacity(s.fifo), s.w - s.Written)]
<1>1. PICK n : n = AuxLeast(Capacity(s.fifo), s.w - s.Written)
  OBVIOUS
<1>2. PICK t : t = writeFifo(s, Numbers(s.Written + 1, s.Written + n))
  OBVIOUS
<1>3. PICK x : t = [s EXCEPT !.tx = x]
  BY <1>2 DEF writeFifo
<1>4. t.Written = s.Written
  BY <1>3 DEF AuxFields
<1>5. writeFifoMdl(s) = [t EXCEPT !.Written = s.Written + n]
  BY <1>1, <1>2, <1>4 DEF writeFifoMdl
<1> QED
  BY <1>1, <1>3, <1>5 DEF AuxFields

\* A read begins: chip select, the zeros that clock it in, the FIFO's width.
LEMMA EvtSpbIoReadKept == ASSUME AuxInv, EvtSpbIoRead PROVE AuxInv'
<1>1. PICK n \in AuxLengths, m \in AuxModes : MayBegin /\ aux' = writeFifoZeros(Begin("read", "READ", 0, n, m), n)
  BY DEF EvtSpbIoRead
<1>2. PICK b : b = Begin("read", "READ", 0, n, m)
  OBVIOUS
<1>3. /\ ~aux.active /\ aux.pc = "idle" /\ b.fifo \in DOMAIN WordBytes
      /\ DOMAIN b = AuxFields /\ b.dpc = aux.dpc /\ b.cancel = aux.cancel
      /\ b.locked = aux.locked /\ b.queued = aux.queued /\ b.overtaken = aux.overtaken
      /\ b.pc = "mark" /\ b.active = TRUE /\ b.mark = "unmarked" /\ b.spb = TRUE
      /\ b.Read = 0 /\ b.doneIrq = FALSE /\ b.cs = TRUE /\ b.w = 0 /\ b.r = n
      /\ b.state = "READ" /\ b.Written = 0
  BY <1>1, <1>2, FifoModes DEF MayBegin, Begin, AuxInv, AuxTyped, AuxFields
<1>4. PICK x : aux' = [b EXCEPT !.tx = x]
  BY <1>1, <1>2 DEF writeFifoZeros, writeFifo
<1>5. /\ aux'.fifo \in DOMAIN WordBytes
      /\ DOMAIN aux' = AuxFields /\ aux'.dpc = aux.dpc /\ aux'.cancel = aux.cancel
      /\ aux'.locked = aux.locked /\ aux'.queued = aux.queued /\ aux'.overtaken = aux.overtaken
      /\ aux'.pc = "mark" /\ aux'.active = TRUE /\ aux'.mark = "unmarked" /\ aux'.spb = TRUE
      /\ aux'.Read = 0 /\ aux'.doneIrq = FALSE /\ aux'.cs = TRUE /\ aux'.w = 0 /\ aux'.r = n
      /\ aux'.state = "READ" /\ aux'.Written = 0
  BY <1>3, <1>4 DEF AuxFields
<1>6. n \in Nat
  BY AuxAssumption
<1>7. AuxTyped'
  BY <1>3, <1>5, <1>6 DEF AuxInv, AuxTyped
<1>8. AuxAhead'
  BY <1>3, <1>5, <1>6 DEF AuxInv, AuxTyped, AuxAhead
<1>9. AuxFlow'
  BY <1>3, <1>5 DEF AuxInv, AuxTyped, AuxFlow
<1> QED
  BY <1>7, <1>8, <1>9 DEF AuxInv

\* A write begins.
LEMMA EvtSpbIoWriteKept == ASSUME AuxInv, EvtSpbIoWrite PROVE AuxInv'
<1>1. PICK n \in AuxLengths, m \in AuxModes : MayBegin /\ aux' = writeFifoMdl(Begin("write", "WRITE", n, 0, m))
  BY DEF EvtSpbIoWrite
<1>2. PICK b : b = Begin("write", "WRITE", n, 0, m)
  OBVIOUS
<1>3. /\ ~aux.active /\ aux.pc = "idle" /\ b.fifo \in DOMAIN WordBytes
      /\ DOMAIN b = AuxFields /\ b.dpc = aux.dpc /\ b.cancel = aux.cancel
      /\ b.locked = aux.locked /\ b.queued = aux.queued /\ b.overtaken = aux.overtaken
      /\ b.pc = "mark" /\ b.active = TRUE /\ b.mark = "unmarked" /\ b.spb = TRUE
      /\ b.Read = 0 /\ b.doneIrq = FALSE /\ b.cs = TRUE /\ b.w = n /\ b.r = 0
      /\ b.state = "WRITE" /\ b.Written = 0
  BY <1>1, <1>2, FifoModes DEF MayBegin, Begin, AuxInv, AuxTyped, AuxFields
<1>4. PICK x : aux' = [b EXCEPT !.tx = x, !.Written = 0 + AuxLeast(Capacity(b.fifo), n - 0)]
  <2>1. PICK x : writeFifoMdl(b) =
                   [b EXCEPT !.tx = x,
                             !.Written = b.Written + AuxLeast(Capacity(b.fifo), b.w - b.Written)]
    BY <1>3, WriteMdl
  <2>2. aux' = [b EXCEPT !.tx = x, !.Written = 0 + AuxLeast(Capacity(b.fifo), n - 0)]
    BY <1>1, <1>2, <1>3, <2>1
  <2> QED
    BY <2>2
<1>5. /\ aux'.fifo \in DOMAIN WordBytes
      /\ DOMAIN aux' = AuxFields /\ aux'.dpc = aux.dpc /\ aux'.cancel = aux.cancel
      /\ aux'.locked = aux.locked /\ aux'.queued = aux.queued /\ aux'.overtaken = aux.overtaken
      /\ aux'.pc = "mark" /\ aux'.active = TRUE /\ aux'.mark = "unmarked" /\ aux'.spb = TRUE
      /\ aux'.Read = 0 /\ aux'.doneIrq = FALSE /\ aux'.cs = TRUE /\ aux'.w = n /\ aux'.r = 0
      /\ aux'.state = "WRITE" /\ aux'.Written = 0 + AuxLeast(Capacity(aux'.fifo), n - 0)
  BY <1>3, <1>4 DEF AuxFields
<1>6. n \in Nat /\ aux'.Written \in Nat
  BY <1>3, <1>5, CapacityPositive, AuxAssumption DEF AuxLeast
<1>7. AuxTyped'
  BY <1>3, <1>5, <1>6 DEF AuxInv, AuxTyped
<1>8. AuxAhead'
  BY <1>3, <1>5, <1>6 DEF AuxInv, AuxTyped, AuxAhead
<1>9. AuxFlow'
  BY <1>3, <1>5 DEF AuxInv, AuxTyped, AuxFlow
<1> QED
  BY <1>7, <1>8, <1>9 DEF AuxInv

\* A full duplex request begins, one FIFO ahead.
LEMMA EvtSpbIoOtherKept == ASSUME AuxInv, EvtSpbIoOther PROVE AuxInv'
<1>1. PICK n \in AuxLengths, m \in AuxModes : MayBegin /\ aux' = writeFifoMdl(Begin("duplex", "FULL_DUPLEX", n, n, m))
  BY DEF EvtSpbIoOther
<1>2. PICK b : b = Begin("duplex", "FULL_DUPLEX", n, n, m)
  OBVIOUS
<1>3. /\ ~aux.active /\ aux.pc = "idle" /\ b.fifo \in DOMAIN WordBytes
      /\ DOMAIN b = AuxFields /\ b.dpc = aux.dpc /\ b.cancel = aux.cancel
      /\ b.locked = aux.locked /\ b.queued = aux.queued /\ b.overtaken = aux.overtaken
      /\ b.pc = "mark" /\ b.active = TRUE /\ b.mark = "unmarked" /\ b.spb = TRUE
      /\ b.Read = 0 /\ b.doneIrq = FALSE /\ b.cs = TRUE /\ b.w = n /\ b.r = n
      /\ b.state = "FULL_DUPLEX" /\ b.Written = 0
  BY <1>1, <1>2, FifoModes DEF MayBegin, Begin, AuxInv, AuxTyped, AuxFields
<1>4. PICK x : aux' = [b EXCEPT !.tx = x, !.Written = 0 + AuxLeast(Capacity(b.fifo), n - 0)]
  <2>1. PICK x : writeFifoMdl(b) =
                   [b EXCEPT !.tx = x,
                             !.Written = b.Written + AuxLeast(Capacity(b.fifo), b.w - b.Written)]
    BY <1>3, WriteMdl
  <2>2. aux' = [b EXCEPT !.tx = x, !.Written = 0 + AuxLeast(Capacity(b.fifo), n - 0)]
    BY <1>1, <1>2, <1>3, <2>1
  <2> QED
    BY <2>2
<1>5. /\ aux'.fifo \in DOMAIN WordBytes
      /\ DOMAIN aux' = AuxFields /\ aux'.dpc = aux.dpc /\ aux'.cancel = aux.cancel
      /\ aux'.locked = aux.locked /\ aux'.queued = aux.queued /\ aux'.overtaken = aux.overtaken
      /\ aux'.pc = "mark" /\ aux'.active = TRUE /\ aux'.mark = "unmarked" /\ aux'.spb = TRUE
      /\ aux'.Read = 0 /\ aux'.doneIrq = FALSE /\ aux'.cs = TRUE /\ aux'.w = n /\ aux'.r = n
      /\ aux'.state = "FULL_DUPLEX" /\ aux'.Written = 0 + AuxLeast(Capacity(aux'.fifo), n - 0)
  BY <1>3, <1>4 DEF AuxFields
<1>6. n \in Nat /\ aux'.Written \in Nat
  BY <1>3, <1>5, CapacityPositive, AuxAssumption DEF AuxLeast
<1>7. AuxTyped'
  BY <1>3, <1>5, <1>6 DEF AuxInv, AuxTyped
<1>8. AuxAhead'
  BY <1>3, <1>5, <1>6 DEF AuxInv, AuxTyped, AuxAhead
<1>9. AuxFlow'
  BY <1>3, <1>5 DEF AuxInv, AuxTyped, AuxFlow
<1> QED
  BY <1>7, <1>8, <1>9 DEF AuxInv

\* A sequence begins with its write.
LEMMA EvtSpbIoSequenceKept == ASSUME AuxInv, EvtSpbIoSequence PROVE AuxInv'
<1>1. PICK w \in AuxLengths, r \in AuxLengths, m \in AuxModes : MayBegin /\ \E s :
        s = writeFifoMdl(Begin("sequence", "SEQUENCE_WRITE", w, r, m))
        /\ aux' = IF s.Written = w THEN [s EXCEPT !.state = "SEQUENCE_READ_INIT"] ELSE s
  BY DEF EvtSpbIoSequence
<1>2. PICK b : b = Begin("sequence", "SEQUENCE_WRITE", w, r, m)
  OBVIOUS
<1>3. /\ ~aux.active /\ aux.pc = "idle" /\ b.fifo \in DOMAIN WordBytes
      /\ DOMAIN b = AuxFields /\ b.dpc = aux.dpc /\ b.cancel = aux.cancel
      /\ b.locked = aux.locked /\ b.queued = aux.queued /\ b.overtaken = aux.overtaken
      /\ b.pc = "mark" /\ b.active = TRUE /\ b.mark = "unmarked" /\ b.spb = TRUE
      /\ b.Read = 0 /\ b.doneIrq = FALSE /\ b.cs = TRUE /\ b.w = w /\ b.r = r
      /\ b.state = "SEQUENCE_WRITE" /\ b.Written = 0
  BY <1>1, <1>2, FifoModes DEF MayBegin, Begin, AuxInv, AuxTyped, AuxFields
<1>4. PICK x, t : /\ t \in {"SEQUENCE_WRITE", "SEQUENCE_READ_INIT"}
                  /\ aux' = [b EXCEPT !.tx = x, !.Written = 0 + AuxLeast(Capacity(b.fifo), w - 0), !.state = t]
  <2>1. PICK s : /\ s = writeFifoMdl(b)
                 /\ aux' = IF s.Written = w THEN [s EXCEPT !.state = "SEQUENCE_READ_INIT"] ELSE s
    BY <1>1, <1>2
  <2>2. PICK x : s = [b EXCEPT !.tx = x, !.Written = 0 + AuxLeast(Capacity(b.fifo), w - 0)]
    <3>1. PICK x : writeFifoMdl(b) =
                     [b EXCEPT !.tx = x,
                               !.Written = b.Written + AuxLeast(Capacity(b.fifo), b.w - b.Written)]
      BY <1>3, WriteMdl
    <3> QED
      BY <1>3, <2>1, <3>1
  <2>3. DOMAIN s = AuxFields /\ s = [s EXCEPT !.state = "SEQUENCE_WRITE"]
    BY <1>3, <2>2 DEF AuxFields
  <2>4. PICK t \in {"SEQUENCE_WRITE", "SEQUENCE_READ_INIT"} : aux' = [s EXCEPT !.state = t]
    BY <2>1, <2>3
  <2> QED
    BY <1>3, <2>2, <2>4 DEF AuxFields
<1>5. /\ aux'.fifo \in DOMAIN WordBytes
      /\ DOMAIN aux' = AuxFields /\ aux'.dpc = aux.dpc /\ aux'.cancel = aux.cancel
      /\ aux'.locked = aux.locked /\ aux'.queued = aux.queued /\ aux'.overtaken = aux.overtaken
      /\ aux'.pc = "mark" /\ aux'.active = TRUE /\ aux'.mark = "unmarked" /\ aux'.spb = TRUE
      /\ aux'.Read = 0 /\ aux'.doneIrq = FALSE /\ aux'.cs = TRUE /\ aux'.w = w /\ aux'.r = r
      /\ aux'.state \in {"SEQUENCE_WRITE", "SEQUENCE_READ_INIT"}
      /\ aux'.Written = 0 + AuxLeast(Capacity(aux'.fifo), w - 0)
  BY <1>3, <1>4 DEF AuxFields
<1>6. w \in Nat /\ r \in Nat /\ aux'.Written \in Nat
  BY <1>3, <1>5, CapacityPositive, AuxAssumption DEF AuxLeast
<1>7. AuxTyped'
  BY <1>3, <1>5, <1>6 DEF AuxInv, AuxTyped
<1>8. AuxAhead'
  BY <1>3, <1>5, <1>6 DEF AuxInv, AuxTyped, AuxAhead
<1>9. AuxFlow'
  BY <1>3, <1>5 DEF AuxInv, AuxTyped, AuxFlow
<1> QED
  BY <1>7, <1>8, <1>9 DEF AuxInv

\* The callback enables the interrupt, after the request was marked cancelable.
LEMMA EnableInterruptKept == ASSUME AuxInv, EnableInterrupt PROVE AuxInv'
<1>1. /\ aux.pc = "enable"
      /\ DOMAIN aux' = AuxFields /\ aux'.dpc = aux.dpc /\ aux'.cancel = aux.cancel
      /\ aux'.state = aux.state /\ aux'.w = aux.w /\ aux'.r = aux.r /\ aux'.Read = aux.Read
      /\ aux'.Written = aux.Written /\ aux'.fifo = aux.fifo /\ aux'.tx = aux.tx
      /\ aux'.cs = aux.cs /\ aux'.locked = aux.locked /\ aux'.queued = aux.queued
      /\ aux'.active = aux.active /\ aux'.mark = aux.mark /\ aux'.spb = aux.spb
      /\ aux'.overtaken = aux.overtaken /\ aux'.pc = "idle" /\ aux'.doneIrq = TRUE
  BY DEF EnableInterrupt, AuxInv, AuxTyped, AuxFields
<1>2. AuxTyped'
  BY <1>1 DEF AuxInv, AuxTyped
<1>3. AuxAhead'
  BY <1>1 DEF AuxInv, AuxTyped, AuxAhead
<1>4. AuxFlow'
  BY <1>1 DEF AuxInv, AuxTyped, AuxFlow
<1> QED
  BY <1>2, <1>3, <1>4 DEF AuxInv

\* The lock activates chip select.
LEMMA EvtSpbControllerLockKept == ASSUME AuxInv, EvtSpbControllerLock PROVE AuxInv'
<1>1. /\ aux.pc = "idle" /\ ~aux.active
      /\ DOMAIN aux' = AuxFields /\ aux'.pc = aux.pc /\ aux'.dpc = aux.dpc
      /\ aux'.cancel = aux.cancel /\ aux'.state = aux.state /\ aux'.w = aux.w /\ aux'.r = aux.r
      /\ aux'.Read = aux.Read /\ aux'.Written = aux.Written /\ aux'.fifo = aux.fifo
      /\ aux'.queued = aux.queued /\ aux'.active = aux.active /\ aux'.mark = aux.mark
      /\ aux'.spb = aux.spb /\ aux'.overtaken = aux.overtaken /\ aux'.tx = <<>> /\ aux'.cs = TRUE
      /\ aux'.locked = TRUE /\ aux'.doneIrq = FALSE
  BY DEF EvtSpbControllerLock, MayBegin, ClearFifos, AuxInv, AuxTyped, AuxFields
<1>2. AuxTyped'
  BY <1>1 DEF AuxInv, AuxTyped
<1>3. AuxAhead'
  BY <1>1 DEF AuxInv, AuxTyped, AuxAhead
<1>4. AuxFlow'
  BY <1>1 DEF AuxInv, AuxTyped, AuxFlow
<1> QED
  BY <1>2, <1>3, <1>4 DEF AuxInv

\* The unlock deactivates it.
LEMMA EvtSpbControllerUnlockKept == ASSUME AuxInv, EvtSpbControllerUnlock PROVE AuxInv'
<1>1. /\ aux.pc = "idle" /\ ~aux.active
      /\ DOMAIN aux' = AuxFields /\ aux'.pc = aux.pc /\ aux'.dpc = aux.dpc
      /\ aux'.cancel = aux.cancel /\ aux'.state = aux.state /\ aux'.w = aux.w /\ aux'.r = aux.r
      /\ aux'.Read = aux.Read /\ aux'.Written = aux.Written /\ aux'.fifo = aux.fifo
      /\ aux'.doneIrq = aux.doneIrq /\ aux'.queued = aux.queued /\ aux'.active = aux.active
      /\ aux'.mark = aux.mark /\ aux'.spb = aux.spb /\ aux'.overtaken = aux.overtaken
      /\ aux'.tx = <<>> /\ aux'.cs = FALSE /\ aux'.locked = FALSE
  BY DEF EvtSpbControllerUnlock, MayBegin, deassertCs, ClearFifos, AuxInv, AuxTyped, AuxFields
<1>2. AuxTyped'
  BY <1>1 DEF AuxInv, AuxTyped
<1>3. AuxAhead'
  BY <1>1 DEF AuxInv, AuxTyped, AuxAhead
<1>4. AuxFlow'
  BY <1>1 DEF AuxInv, AuxTyped, AuxFlow
<1> QED
  BY <1>2, <1>3, <1>4 DEF AuxInv

\* The shift register moves a byte.
LEMMA AuxShiftKept == ASSUME AuxInv, AuxShift PROVE AuxInv'
<1>1. /\ aux.tx # <<>>
      /\ DOMAIN aux' = AuxFields /\ aux'.pc = aux.pc /\ aux'.dpc = aux.dpc
      /\ aux'.cancel = aux.cancel /\ aux'.state = aux.state /\ aux'.w = aux.w /\ aux'.r = aux.r
      /\ aux'.Read = aux.Read /\ aux'.Written = aux.Written /\ aux'.fifo = aux.fifo
      /\ aux'.doneIrq = aux.doneIrq /\ aux'.cs = aux.cs /\ aux'.locked = aux.locked
      /\ aux'.queued = aux.queued /\ aux'.active = aux.active /\ aux'.mark = aux.mark
      /\ aux'.spb = aux.spb /\ aux'.overtaken = aux.overtaken
  BY DEF AuxShift, AuxInv, AuxTyped, AuxFields
<1>2. AuxTyped'
  BY <1>1 DEF AuxInv, AuxTyped
<1>3. AuxAhead'
  BY <1>1 DEF AuxInv, AuxTyped, AuxAhead
<1>4. AuxFlow'
  BY <1>1 DEF AuxInv, AuxTyped, AuxFlow
<1> QED
  BY <1>2, <1>3, <1>4 DEF AuxInv

\* An interrupt without a request switches the controller off.
LEMMA IsrDefaultKept == ASSUME AuxInv, IsrDefault PROVE AuxInv'
<1>1. /\ aux.tx = <<>> /\ aux.state = "INVALID"
      /\ DOMAIN aux' = AuxFields /\ aux'.pc = aux.pc /\ aux'.dpc = aux.dpc
      /\ aux'.cancel = aux.cancel /\ aux'.state = aux.state /\ aux'.w = aux.w /\ aux'.r = aux.r
      /\ aux'.Read = aux.Read /\ aux'.Written = aux.Written /\ aux'.fifo = aux.fifo
      /\ aux'.tx = aux.tx /\ aux'.cs = aux.cs /\ aux'.locked = aux.locked
      /\ aux'.queued = aux.queued /\ aux'.active = aux.active /\ aux'.mark = aux.mark
      /\ aux'.spb = aux.spb /\ aux'.overtaken = aux.overtaken /\ aux'.doneIrq = FALSE
  BY DEF IsrDefault, AuxLine, AuxInv, AuxTyped, AuxFields
<1>2. AuxTyped'
  BY <1>1 DEF AuxInv, AuxTyped
<1>3. AuxAhead'
  BY <1>1 DEF AuxInv, AuxTyped, AuxAhead
<1>4. AuxFlow'
  BY <1>1 DEF AuxInv, AuxTyped, AuxFlow
<1> QED
  BY <1>2, <1>3, <1>4 DEF AuxInv

\* The client asks for the cancellation.
LEMMA AuxClientCancelsKept == ASSUME AuxInv, AuxClientCancels PROVE AuxInv'
<1>1. /\ aux.active
      /\ DOMAIN aux' = AuxFields /\ aux'.pc = aux.pc /\ aux'.dpc = aux.dpc
      /\ aux'.state = aux.state /\ aux'.w = aux.w /\ aux'.r = aux.r /\ aux'.Read = aux.Read
      /\ aux'.Written = aux.Written /\ aux'.fifo = aux.fifo /\ aux'.tx = aux.tx
      /\ aux'.doneIrq = aux.doneIrq /\ aux'.cs = aux.cs /\ aux'.locked = aux.locked
      /\ aux'.queued = aux.queued /\ aux'.active = aux.active /\ aux'.spb = aux.spb
      /\ aux'.overtaken = aux.overtaken
      /\ aux'.mark = IF aux.mark = "marked" THEN "called" ELSE aux.mark
      /\ aux'.cancel = IF aux.mark = "marked" THEN "called" ELSE aux.cancel
  BY DEF AuxClientCancels, AuxInv, AuxTyped, AuxFields
<1>2. AuxTyped'
  BY <1>1 DEF AuxInv, AuxTyped
<1>3. AuxAhead'
  BY <1>1 DEF AuxInv, AuxTyped, AuxAhead
<1>4. AuxFlow'
  BY <1>1 DEF AuxInv, AuxTyped, AuxFlow
<1> QED
  BY <1>2, <1>3, <1>4 DEF AuxInv

\* The cancellation takes the request from its DPC and disables the interrupt, or is too late.
LEMMA CancelClaimKept == ASSUME AuxInv, CancelClaim PROVE AuxInv'
<1>1. /\ aux.cancel = "called"
      /\ DOMAIN aux' = AuxFields /\ aux'.pc = aux.pc /\ aux'.dpc = aux.dpc
      /\ aux'.state = aux.state /\ aux'.w = aux.w /\ aux'.r = aux.r /\ aux'.Read = aux.Read
      /\ aux'.Written = aux.Written /\ aux'.fifo = aux.fifo /\ aux'.tx = aux.tx
      /\ aux'.cs = aux.cs /\ aux'.locked = aux.locked /\ aux'.queued = aux.queued
      /\ aux'.active = aux.active /\ aux'.mark = aux.mark /\ aux'.overtaken = aux.overtaken
      /\ aux'.spb = IF aux.spb THEN FALSE ELSE aux.spb
      /\ aux'.doneIrq = IF aux.spb THEN FALSE ELSE aux.doneIrq
      /\ aux'.cancel = IF aux.spb THEN "claimed" ELSE "none"
  BY DEF CancelClaim, AuxInv, AuxTyped, AuxFields
<1>2. AuxTyped'
  BY <1>1 DEF AuxInv, AuxTyped
<1>3. AuxAhead'
  BY <1>1 DEF AuxInv, AuxTyped, AuxAhead
<1>4. AuxFlow'
  BY <1>1 DEF AuxInv, AuxTyped, AuxFlow
<1> QED
  BY <1>2, <1>3, <1>4 DEF AuxInv

\* The DPC takes the request, unless the cancellation has.
LEMMA AuxDpcClaimKept == ASSUME AuxInv, AuxDpcClaim PROVE AuxInv'
<1>1. /\ aux.queued /\ aux.dpc = "none"
      /\ DOMAIN aux' = AuxFields /\ aux'.pc = aux.pc /\ aux'.cancel = aux.cancel
      /\ aux'.state = aux.state /\ aux'.w = aux.w /\ aux'.r = aux.r /\ aux'.Read = aux.Read
      /\ aux'.Written = aux.Written /\ aux'.fifo = aux.fifo /\ aux'.tx = aux.tx
      /\ aux'.doneIrq = aux.doneIrq /\ aux'.cs = aux.cs /\ aux'.locked = aux.locked
      /\ aux'.active = aux.active /\ aux'.mark = aux.mark /\ aux'.overtaken = aux.overtaken
      /\ aux'.queued = FALSE /\ aux'.spb = FALSE
      /\ aux'.dpc = IF aux.spb THEN "claimed" ELSE "none"
  BY DEF AuxDpcClaim, AuxInv, AuxTyped, AuxFields
<1>2. AuxTyped'
  BY <1>1 DEF AuxInv, AuxTyped
<1>3. AuxAhead'
  BY <1>1 DEF AuxInv, AuxTyped, AuxAhead
<1>4. AuxFlow'
  BY <1>1 DEF AuxInv, AuxTyped, AuxFlow
<1> QED
  BY <1>2, <1>3, <1>4 DEF AuxInv

\* The cancellation ends the transfer and completes the request.
LEMMA CancelCompleteKept == ASSUME AuxInv, CancelComplete PROVE AuxInv'
<1>1. /\ aux.cancel = "claimed"
      /\ DOMAIN aux' = AuxFields /\ aux'.pc = aux.pc /\ aux'.dpc = aux.dpc /\ aux'.w = aux.w
      /\ aux'.r = aux.r /\ aux'.Read = aux.Read /\ aux'.Written = aux.Written
      /\ aux'.fifo = aux.fifo /\ aux'.doneIrq = aux.doneIrq /\ aux'.locked = aux.locked
      /\ aux'.queued = aux.queued /\ aux'.spb = aux.spb /\ aux'.state = "INVALID"
      /\ aux'.tx = <<>> /\ aux'.active = FALSE /\ aux'.mark = "unmarked"
      /\ aux'.overtaken = (aux.overtaken \/ aux.queued \/ aux.pc = "enable")
      /\ aux'.cancel = "none" /\ aux'.cs = IF aux.locked THEN aux.cs ELSE FALSE
  <2>1. CASE aux.locked
    BY <2>1 DEF CancelComplete, AuxComplete, abortTransfer, ClearFifos, AuxInv, AuxTyped, AuxFields
  <2>2. CASE ~aux.locked
    BY <2>2 DEF CancelComplete, AuxComplete, abortTransfer, deassertCs, ClearFifos, AuxInv,
       AuxTyped, AuxFields
  <2> QED
    BY <2>1, <2>2
<1>2. AuxTyped'
  BY <1>1 DEF AuxInv, AuxTyped
<1>3. AuxAhead'
  BY <1>1 DEF AuxInv, AuxTyped, AuxAhead
<1>4. AuxFlow'
  BY <1>1 DEF AuxInv, AuxTyped, AuxFlow
<1> QED
  BY <1>2, <1>3, <1>4 DEF AuxInv

\* The DPC completes the request.
LEMMA AuxDpcCompleteKept == ASSUME AuxInv, AuxDpcComplete PROVE AuxInv'
<1>1. /\ aux.dpc = "ours"
      /\ DOMAIN aux' = AuxFields /\ aux'.pc = aux.pc /\ aux'.cancel = aux.cancel /\ aux'.w = aux.w
      /\ aux'.r = aux.r /\ aux'.Read = aux.Read /\ aux'.Written = aux.Written
      /\ aux'.fifo = aux.fifo /\ aux'.doneIrq = aux.doneIrq /\ aux'.cs = aux.cs
      /\ aux'.locked = aux.locked /\ aux'.queued = aux.queued /\ aux'.spb = aux.spb
      /\ aux'.state = "INVALID" /\ aux'.tx = <<>> /\ aux'.active = FALSE /\ aux'.mark = "unmarked"
      /\ aux'.overtaken = (aux.overtaken \/ aux.queued \/ aux.pc = "enable") /\ aux'.dpc = "none"
  BY DEF AuxDpcComplete, AuxComplete, ClearFifos, AuxInv, AuxTyped, AuxFields
<1>2. AuxTyped'
  BY <1>1 DEF AuxInv, AuxTyped
<1>3. AuxAhead'
  BY <1>1 DEF AuxInv, AuxTyped, AuxAhead
<1>4. AuxFlow'
  BY <1>1 DEF AuxInv, AuxTyped, AuxFlow
<1> QED
  BY <1>2, <1>3, <1>4 DEF AuxInv

\* The request is marked cancelable, or was cancelled before and ends here.
LEMMA MarkCancelableKept == ASSUME AuxInv, MarkCancelable PROVE AuxInv'
<1>1. CASE ~aux.active
  <2>1. /\ aux.pc = "mark"
        /\ DOMAIN aux' = AuxFields /\ aux'.dpc = aux.dpc /\ aux'.cancel = aux.cancel
        /\ aux'.state = aux.state /\ aux'.w = aux.w /\ aux'.r = aux.r /\ aux'.Read = aux.Read
        /\ aux'.Written = aux.Written /\ aux'.fifo = aux.fifo /\ aux'.tx = aux.tx
        /\ aux'.doneIrq = aux.doneIrq /\ aux'.cs = aux.cs /\ aux'.locked = aux.locked
        /\ aux'.queued = aux.queued /\ aux'.active = aux.active /\ aux'.mark = aux.mark
        /\ aux'.spb = aux.spb /\ aux'.overtaken = aux.overtaken /\ aux'.pc = "enable"
    BY <1>1 DEF MarkCancelable, AuxInv, AuxTyped, AuxFields
  <2>2. AuxTyped'
    BY <1>1, <2>1 DEF AuxInv, AuxTyped
  <2>3. AuxAhead'
    BY <1>1, <2>1 DEF AuxInv, AuxTyped, AuxAhead
  <2>4. AuxFlow'
    BY <1>1, <2>1 DEF AuxInv, AuxTyped, AuxFlow
  <2> QED
    BY <2>2, <2>3, <2>4 DEF AuxInv
<1>2. CASE aux.active /\ ~aux.asked
  <2>1. /\ aux.pc = "mark"
        /\ DOMAIN aux' = AuxFields /\ aux'.dpc = aux.dpc /\ aux'.cancel = aux.cancel
        /\ aux'.state = aux.state /\ aux'.w = aux.w /\ aux'.r = aux.r /\ aux'.Read = aux.Read
        /\ aux'.Written = aux.Written /\ aux'.fifo = aux.fifo /\ aux'.tx = aux.tx
        /\ aux'.doneIrq = aux.doneIrq /\ aux'.cs = aux.cs /\ aux'.locked = aux.locked
        /\ aux'.queued = aux.queued /\ aux'.active = aux.active /\ aux'.spb = aux.spb
        /\ aux'.overtaken = aux.overtaken /\ aux'.pc = "enable" /\ aux'.mark = "marked"
    BY <1>2 DEF MarkCancelable, AuxInv, AuxTyped, AuxFields
  <2>2. AuxTyped'
    BY <1>2, <2>1 DEF AuxInv, AuxTyped
  <2>3. AuxAhead'
    BY <1>2, <2>1 DEF AuxInv, AuxTyped, AuxAhead
  <2>4. AuxFlow'
    BY <1>2, <2>1 DEF AuxInv, AuxTyped, AuxFlow
  <2> QED
    BY <2>2, <2>3, <2>4 DEF AuxInv
<1>3. CASE aux.active /\ aux.asked
  <2>1. /\ aux.pc = "mark"
        /\ DOMAIN aux' = AuxFields /\ aux'.dpc = aux.dpc /\ aux'.cancel = aux.cancel
        /\ aux'.w = aux.w /\ aux'.r = aux.r /\ aux'.Read = aux.Read /\ aux'.Written = aux.Written
        /\ aux'.fifo = aux.fifo /\ aux'.doneIrq = aux.doneIrq /\ aux'.locked = aux.locked
        /\ aux'.queued = aux.queued /\ aux'.spb = aux.spb /\ aux'.state = "INVALID"
        /\ aux'.tx = <<>> /\ aux'.active = FALSE /\ aux'.mark = "unmarked"
        /\ aux'.overtaken = (aux.overtaken \/ aux.queued \/ aux.pc = "enable") /\ aux'.pc = "idle"
        /\ aux'.cs = IF aux.locked THEN aux.cs ELSE FALSE
    <3>1. CASE aux.locked
      BY <1>3, <3>1 DEF MarkCancelable, AuxComplete, abortTransfer, ClearFifos, AuxInv, AuxTyped,
         AuxFields
    <3>2. CASE ~aux.locked
      BY <1>3, <3>2 DEF MarkCancelable, AuxComplete, abortTransfer, deassertCs, ClearFifos,
         AuxInv, AuxTyped,
                        AuxFields
    <3> QED
      BY <3>1, <3>2
  <2>2. AuxTyped'
    BY <1>3, <2>1 DEF AuxInv, AuxTyped
  <2>3. AuxAhead'
    BY <1>3, <2>1 DEF AuxInv, AuxTyped, AuxAhead
  <2>4. AuxFlow'
    BY <1>3, <2>1 DEF AuxInv, AuxTyped, AuxFlow
  <2> QED
    BY <2>2, <2>3, <2>4 DEF AuxInv
<1> QED
  BY <1>1, <1>2, <1>3

\* The DPC unmarks the request, fails one that was never marked, or leaves it to its cancellation.
LEMMA AuxDpcUnmarkKept == ASSUME AuxInv, AuxDpcUnmark PROVE AuxInv'
<1>1. CASE aux.mark = "marked"
  <2>1. /\ aux.dpc = "claimed"
        /\ DOMAIN aux' = AuxFields /\ aux'.pc = aux.pc /\ aux'.cancel = aux.cancel
        /\ aux'.state = aux.state /\ aux'.w = aux.w /\ aux'.r = aux.r /\ aux'.Read = aux.Read
        /\ aux'.Written = aux.Written /\ aux'.fifo = aux.fifo /\ aux'.tx = aux.tx
        /\ aux'.doneIrq = aux.doneIrq /\ aux'.cs = aux.cs /\ aux'.locked = aux.locked
        /\ aux'.queued = aux.queued /\ aux'.active = aux.active /\ aux'.spb = aux.spb
        /\ aux'.overtaken = aux.overtaken /\ aux'.dpc = "ours" /\ aux'.mark = "unmarked"
    BY <1>1 DEF AuxDpcUnmark, AuxInv, AuxTyped, AuxFields
  <2>2. AuxTyped'
    BY <1>1, <2>1 DEF AuxInv, AuxTyped
  <2>3. AuxAhead'
    BY <1>1, <2>1 DEF AuxInv, AuxTyped, AuxAhead
  <2>4. AuxFlow'
    BY <1>1, <2>1 DEF AuxInv, AuxTyped, AuxFlow
  <2> QED
    BY <2>2, <2>3, <2>4 DEF AuxInv
<1>2. CASE aux.mark = "unmarked"
  <2>1. /\ aux.dpc = "claimed"
        /\ DOMAIN aux' = AuxFields /\ aux'.pc = aux.pc /\ aux'.cancel = aux.cancel
        /\ aux'.state = aux.state /\ aux'.w = aux.w /\ aux'.r = aux.r /\ aux'.Read = aux.Read
        /\ aux'.Written = aux.Written /\ aux'.fifo = aux.fifo /\ aux'.tx = aux.tx
        /\ aux'.doneIrq = aux.doneIrq /\ aux'.cs = aux.cs /\ aux'.locked = aux.locked
        /\ aux'.queued = aux.queued /\ aux'.spb = aux.spb /\ aux'.active = FALSE
        /\ aux'.mark = "unmarked"
        /\ aux'.overtaken = (aux.overtaken \/ aux.queued \/ aux.pc = "enable") /\ aux'.dpc = "none"
    BY <1>2 DEF AuxDpcUnmark, AuxComplete, AuxInv, AuxTyped, AuxFields
  <2>2. AuxTyped'
    BY <1>2, <2>1 DEF AuxInv, AuxTyped
  <2>3. AuxAhead'
    BY <1>2, <2>1 DEF AuxInv, AuxTyped, AuxAhead
  <2>4. AuxFlow'
    BY <1>2, <2>1 DEF AuxInv, AuxTyped, AuxFlow
  <2> QED
    BY <2>2, <2>3, <2>4 DEF AuxInv
<1>3. CASE aux.mark = "called"
  <2>1. /\ aux.dpc = "claimed"
        /\ DOMAIN aux' = AuxFields /\ aux'.pc = aux.pc /\ aux'.cancel = aux.cancel
        /\ aux'.state = aux.state /\ aux'.w = aux.w /\ aux'.r = aux.r /\ aux'.Read = aux.Read
        /\ aux'.Written = aux.Written /\ aux'.fifo = aux.fifo /\ aux'.tx = aux.tx
        /\ aux'.doneIrq = aux.doneIrq /\ aux'.cs = aux.cs /\ aux'.locked = aux.locked
        /\ aux'.queued = aux.queued /\ aux'.active = aux.active /\ aux'.mark = aux.mark
        /\ aux'.spb = aux.spb /\ aux'.overtaken = aux.overtaken /\ aux'.dpc = "none"
    BY <1>3 DEF AuxDpcUnmark, AuxInv, AuxTyped, AuxFields
  <2>2. AuxTyped'
    BY <1>3, <2>1 DEF AuxInv, AuxTyped
  <2>3. AuxAhead'
    BY <1>3, <2>1 DEF AuxInv, AuxTyped, AuxAhead
  <2>4. AuxFlow'
    BY <1>3, <2>1 DEF AuxInv, AuxTyped, AuxFlow
  <2> QED
    BY <2>2, <2>3, <2>4 DEF AuxInv
<1> QED
  BY <1>1, <1>2, <1>3 DEF AuxInv, AuxTyped

\* The next bytes are put into the FIFO: the interrupt goes on writing.
LEMMA WrittenKept ==
  ASSUME AuxInv, aux.doneIrq, aux.state \in {"WRITE", "SEQUENCE_WRITE"},
         NEW x, NEW n \in Int, NEW t \in {"WRITE", "SEQUENCE_WRITE", "SEQUENCE_READ_INIT"},
         aux.Written + n \in Nat,
         aux' = [aux EXCEPT !.tx = x, !.Written = aux.Written + n, !.state = t]
  PROVE  AuxInv'
<1>1. /\ DOMAIN aux' = AuxFields /\ aux'.pc = aux.pc /\ aux'.dpc = aux.dpc
      /\ aux'.cancel = aux.cancel /\ aux'.w = aux.w /\ aux'.r = aux.r /\ aux'.Read = aux.Read
      /\ aux'.fifo = aux.fifo /\ aux'.doneIrq = aux.doneIrq /\ aux'.cs = aux.cs
      /\ aux'.locked = aux.locked /\ aux'.queued = aux.queued /\ aux'.active = aux.active
      /\ aux'.mark = aux.mark /\ aux'.spb = aux.spb /\ aux'.overtaken = aux.overtaken
      /\ aux'.Written = aux.Written + n /\ aux'.state = t
  BY DEF AuxInv, AuxTyped, AuxFields
<1>2. AuxTyped'
  BY <1>1 DEF AuxInv, AuxTyped
<1>3. AuxAhead'
  BY <1>1 DEF AuxInv, AuxTyped, AuxAhead
<1>4. AuxFlow'
  BY <1>1 DEF AuxInv, AuxTyped, AuxFlow
<1> QED
  BY <1>2, <1>3, <1>4 DEF AuxInv

\* The interrupt of a write.
LEMMA IsrWriteKept == ASSUME AuxInv, IsrWrite PROVE AuxInv'
<1>1. CASE aux.Written = aux.w
  <2>1. /\ aux.doneIrq /\ aux.tx = <<>> /\ aux.state = "WRITE"
        /\ DOMAIN aux' = AuxFields /\ aux'.pc = aux.pc /\ aux'.dpc = aux.dpc
        /\ aux'.cancel = aux.cancel /\ aux'.state = aux.state /\ aux'.w = aux.w /\ aux'.r = aux.r
        /\ aux'.Read = aux.Read /\ aux'.Written = aux.Written /\ aux'.fifo = aux.fifo
        /\ aux'.tx = aux.tx /\ aux'.locked = aux.locked /\ aux'.active = aux.active
        /\ aux'.mark = aux.mark /\ aux'.spb = aux.spb /\ aux'.overtaken = aux.overtaken
        /\ aux'.doneIrq = FALSE /\ aux'.cs = aux.locked /\ aux'.queued = TRUE
    BY <1>1 DEF IsrWrite, AuxLine, EndTransfer, AuxInv, AuxTyped, AuxFields
  <2>2. AuxTyped'
    BY <1>1, <2>1 DEF AuxInv, AuxTyped
  <2>3. AuxAhead'
    BY <1>1, <2>1 DEF AuxInv, AuxTyped, AuxAhead
  <2>4. AuxFlow'
    BY <1>1, <2>1 DEF AuxInv, AuxTyped, AuxFlow
  <2> QED
    BY <2>2, <2>3, <2>4 DEF AuxInv
<1>2. CASE aux.Written # aux.w
  <2>1. PICK x : /\ aux.doneIrq /\ aux.state = "WRITE"
                 /\ aux' = [aux EXCEPT !.tx = x,
                              !.Written = aux.Written + AuxLeast(Capacity(aux.fifo), aux.w - aux.Written)]
    <3>1. PICK x : writeFifoMdl(aux) =
                     [aux EXCEPT !.tx = x,
                        !.Written = aux.Written + AuxLeast(Capacity(aux.fifo), aux.w - aux.Written)]
      BY WriteMdl DEF AuxInv, AuxTyped
    <3> QED
      BY <1>2, <3>1 DEF IsrWrite, AuxLine
  <2>2. PICK n \in Int : /\ n = AuxLeast(Capacity(aux.fifo), aux.w - aux.Written)
                         /\ aux.Written + n \in Nat
    BY CapacityPositive DEF AuxInv, AuxTyped, AuxLeast
  <2>3. aux' = [aux EXCEPT !.tx = x, !.Written = aux.Written + n, !.state = "WRITE"]
    BY <2>1, <2>2 DEF AuxInv, AuxTyped, AuxFields
  <2> QED
    BY <2>1, <2>2, <2>3, WrittenKept
<1> QED
  BY <1>1, <1>2

\* The interrupt of a sequence in its write.
LEMMA IsrSequenceWriteKept == ASSUME AuxInv, IsrSequenceWrite PROVE AuxInv'
<1>1. PICK s : /\ s = writeFifoMdl(aux) /\ aux.doneIrq /\ aux.state = "SEQUENCE_WRITE"
               /\ aux' = IF s.Written = s.w THEN [s EXCEPT !.state = "SEQUENCE_READ_INIT"] ELSE s
  BY DEF IsrSequenceWrite, AuxLine
<1>2. PICK n \in Int : /\ n = AuxLeast(Capacity(aux.fifo), aux.w - aux.Written)
                       /\ aux.Written + n \in Nat
  BY CapacityPositive DEF AuxInv, AuxTyped, AuxLeast
<1>3. PICK x : writeFifoMdl(aux) =
                 [aux EXCEPT !.tx = x,
                    !.Written = aux.Written + AuxLeast(Capacity(aux.fifo), aux.w - aux.Written)]
  BY WriteMdl DEF AuxInv, AuxTyped
<1>4. s = [aux EXCEPT !.tx = x, !.Written = aux.Written + n]
  BY <1>1, <1>2, <1>3
<1>5. aux.state = "SEQUENCE_WRITE"
  BY <1>1
<1>6. CASE s.Written = s.w
  <2>1. aux' = [aux EXCEPT !.tx = x, !.Written = aux.Written + n, !.state = "SEQUENCE_READ_INIT"]
    BY <1>1, <1>4, <1>6 DEF AuxInv, AuxTyped, AuxFields
  <2> QED
    BY <1>1, <1>2, <2>1, WrittenKept
<1>7. CASE s.Written # s.w
  <2>1. aux' = [aux EXCEPT !.tx = x, !.Written = aux.Written + n, !.state = "SEQUENCE_WRITE"]
    <3>1. aux' = [aux EXCEPT !.tx = x, !.Written = aux.Written + n]
      BY <1>1, <1>4, <1>7
    <3> QED
      BY <1>5, <3>1 DEF AuxInv, AuxTyped, AuxFields
  <2> QED
    BY <1>1, <1>2, <2>1, WrittenKept
<1> QED
  BY <1>6, <1>7

\* The interrupt between the write and the read of a sequence.
LEMMA IsrSequenceReadInitKept == ASSUME AuxInv, IsrSequenceReadInit PROVE AuxInv'
<1>1. PICK f \in DOMAIN WordBytes : f = selectFifoMode(aux.mode, aux.r)
  BY FifoModes
<1>2. PICK s : s = [ClearFifos(aux) EXCEPT !.fifo = f, !.state = "SEQUENCE_READ"]
  OBVIOUS
<1>3. aux.doneIrq /\ aux.state = "SEQUENCE_READ_INIT" /\ aux' = writeFifoZeros(s, aux.r)
  BY <1>1, <1>2 DEF IsrSequenceReadInit, AuxLine
<1>4. PICK x : aux' = [s EXCEPT !.tx = x]
  BY <1>3 DEF writeFifoZeros, writeFifo
<1>5. /\ aux.doneIrq /\ aux.state = "SEQUENCE_READ_INIT" /\ f \in DOMAIN WordBytes
      /\ DOMAIN aux' = AuxFields /\ aux'.pc = aux.pc /\ aux'.dpc = aux.dpc
      /\ aux'.cancel = aux.cancel /\ aux'.w = aux.w /\ aux'.r = aux.r /\ aux'.Read = aux.Read
      /\ aux'.Written = aux.Written /\ aux'.doneIrq = aux.doneIrq /\ aux'.cs = aux.cs
      /\ aux'.locked = aux.locked /\ aux'.queued = aux.queued /\ aux'.active = aux.active
      /\ aux'.mark = aux.mark /\ aux'.spb = aux.spb /\ aux'.overtaken = aux.overtaken
      /\ aux'.fifo = f /\ aux'.state = "SEQUENCE_READ"
  BY <1>1, <1>2, <1>3, <1>4, ZenonT(60) DEF ClearFifos, AuxInv, AuxTyped, AuxFields
<1>6. AuxTyped'
  BY <1>5 DEF AuxInv, AuxTyped
<1>7. AuxAhead'
  BY <1>5 DEF AuxInv, AuxTyped, AuxAhead
<1>8. AuxFlow'
  BY <1>5 DEF AuxInv, AuxTyped, AuxFlow
<1> QED
  BY <1>6, <1>7, <1>8 DEF AuxInv

\* readFifo reads what the FIFO holds of the bytes that are left, and writes as many when more are.
LEMMA ReadFifo ==
  ASSUME NEW s, DOMAIN s = AuxFields, NEW c \in Nat \ {0}, c = Capacity(s.fifo), s.r \in Nat, s.Read \in Nat
  PROVE  \E x, y : readFifo(s) = [s EXCEPT !.tx = IF s.r - s.Read > c THEN x ELSE s.tx, !.rx = <<>>,
                                           !.Read = IF s.r - s.Read > c THEN s.Read + c ELSE s.r,
                                           !.buffer = y]
<1>1. PICK n : n = AuxLeast(s.r - s.Read, c)
  OBVIOUS
<1>2. PICK y : y = s.buffer \o extractFifoBuffer(s.rx, n)
  OBVIOUS
<1>3. CASE s.r - s.Read > c
  <2>1. PICK t, x : t = writeFifoZeros(s, s.r - s.Read - n) /\ t = [s EXCEPT !.tx = x]
    BY DEF writeFifoZeros, writeFifo
  <2>2. n = c /\ s.r - s.Read > n
    BY <1>1, <1>3 DEF AuxLeast
  <2>3. t.Read = s.Read /\ t.buffer = s.buffer
    BY <2>1 DEF AuxFields
  <2>4. readFifo(s) = [t EXCEPT !.rx = <<>>, !.Read = s.Read + c, !.buffer = y]
    BY <1>1, <1>2, <2>1, <2>2, <2>3 DEF readFifo
  <2>5. readFifo(s) = [s EXCEPT !.tx = x, !.rx = <<>>, !.Read = s.Read + c, !.buffer = y]
    BY <2>1, <2>4 DEF AuxFields
  <2> QED
    BY <1>3, <2>5
<1>4. CASE ~(s.r - s.Read > c)
  <2>1. n = s.r - s.Read /\ ~(s.r - s.Read > n) /\ s.Read + n = s.r
    BY <1>1, <1>4 DEF AuxLeast
  <2>2. readFifo(s) = [s EXCEPT !.rx = <<>>, !.Read = s.Read + n, !.buffer = y]
    BY <1>1, <1>2, <2>1 DEF readFifo
  <2>3. readFifo(s) = [s EXCEPT !.tx = s.tx, !.rx = <<>>, !.Read = s.r, !.buffer = y]
    BY <2>1, <2>2 DEF AuxFields
  <2> QED
    BY <1>4, <2>3
<1> QED
  BY <1>3, <1>4

\* The interrupt of a read.
LEMMA IsrReadKept == ASSUME AuxInv, IsrRead PROVE AuxInv'
<1>1. PICK c \in Nat \ {0} : c = Capacity(aux.fifo)
  BY CapacityPositive DEF AuxInv, AuxTyped
<1>2. aux.r \in Nat /\ aux.Read \in Nat /\ DOMAIN aux = AuxFields
  BY DEF AuxInv, AuxTyped
<1>3. PICK x, y : readFifo(aux) = [aux EXCEPT !.tx = IF aux.r - aux.Read > c THEN x ELSE aux.tx, !.rx = <<>>,
                                              !.Read = IF aux.r - aux.Read > c THEN aux.Read + c ELSE aux.r,
                                              !.buffer = y]
  BY <1>1, <1>2, ReadFifo
<1>4. PICK s : /\ aux.doneIrq /\ aux.tx = <<>> /\ aux.state \in {"READ", "SEQUENCE_READ"} /\ s = readFifo(aux)
               /\ aux' = IF s.Read = s.r THEN EndTransfer(s) ELSE s
  BY DEF IsrRead, AuxLine
<1>5. CASE aux.r - aux.Read > c
  <2>1. s = [aux EXCEPT !.tx = x, !.rx = <<>>, !.Read = aux.Read + c, !.buffer = y]
    BY <1>3, <1>4, <1>5
  <2>2. aux' = s
    BY <1>1, <1>2, <1>4, <1>5, <2>1 DEF AuxFields
  <2>3. /\ DOMAIN aux' = AuxFields /\ aux'.pc = aux.pc /\ aux'.dpc = aux.dpc
        /\ aux'.cancel = aux.cancel /\ aux'.state = aux.state /\ aux'.w = aux.w /\ aux'.r = aux.r
        /\ aux'.Written = aux.Written /\ aux'.fifo = aux.fifo /\ aux'.doneIrq = aux.doneIrq
        /\ aux'.cs = aux.cs /\ aux'.locked = aux.locked /\ aux'.queued = aux.queued
        /\ aux'.active = aux.active /\ aux'.mark = aux.mark /\ aux'.spb = aux.spb
        /\ aux'.overtaken = aux.overtaken /\ aux'.Read = aux.Read + c
    BY <1>2, <2>1, <2>2 DEF AuxFields
  <2>4. AuxTyped' /\ AuxAhead'
    BY <1>1, <1>2, <1>4, <2>3 DEF AuxInv, AuxTyped, AuxAhead
  <2>5. AuxFlow'
    BY <1>4, <2>3 DEF AuxInv, AuxTyped, AuxFlow
  <2> QED
    BY <2>4, <2>5 DEF AuxInv
<1>6. CASE ~(aux.r - aux.Read > c)
  <2>1. s = [aux EXCEPT !.tx = aux.tx, !.rx = <<>>, !.Read = aux.r, !.buffer = y]
    BY <1>3, <1>4, <1>6
  <2>2. aux' = EndTransfer(s)
    BY <1>2, <1>4, <2>1 DEF AuxFields
  <2>3. /\ DOMAIN aux' = AuxFields /\ aux'.pc = aux.pc /\ aux'.dpc = aux.dpc
        /\ aux'.cancel = aux.cancel /\ aux'.state = aux.state /\ aux'.w = aux.w /\ aux'.r = aux.r
        /\ aux'.Written = aux.Written /\ aux'.fifo = aux.fifo /\ aux'.tx = aux.tx
        /\ aux'.locked = aux.locked /\ aux'.active = aux.active /\ aux'.mark = aux.mark
        /\ aux'.spb = aux.spb /\ aux'.overtaken = aux.overtaken /\ aux'.doneIrq = FALSE
        /\ aux'.cs = aux.locked /\ aux'.queued = TRUE /\ aux'.Read = aux.r
    BY <1>2, <2>1, <2>2 DEF EndTransfer, AuxFields
  <2>4. AuxTyped' /\ AuxAhead'
    BY <1>1, <1>2, <1>4, <2>3 DEF AuxInv, AuxTyped, AuxAhead
  <2>5. AuxFlow'
    BY <1>4, <2>3 DEF AuxInv, AuxTyped, AuxFlow
  <2> QED
    BY <2>4, <2>5 DEF AuxInv
<1> QED
  BY <1>5, <1>6

\* The interrupt in full duplex: as much is written as was read, so that it stays one FIFO ahead.
LEMMA IsrFullDuplexKept == ASSUME AuxInv, IsrFullDuplex PROVE AuxInv'
<1>1. PICK n : n = AuxLeast(Capacity(aux.fifo), aux.r - aux.Read)
  OBVIOUS
<1>2. PICK got : got = [aux EXCEPT !.rx = <<>>, !.Read = aux.Read + n,
                                   !.buffer = aux.buffer \o extractFifoBuffer(aux.rx, n)]
  OBVIOUS
<1>3. PICK s : s = IF got.Written # got.w THEN writeFifoMdl(got) ELSE got
  OBVIOUS
<1>4. /\ aux.doneIrq /\ aux.tx = <<>> /\ aux.state = "FULL_DUPLEX"
      /\ aux' = IF s.Read = s.r THEN EndTransfer(s) ELSE s
  BY <1>1, <1>2, <1>3 DEF IsrFullDuplex, AuxLine
<1>5. aux.w = aux.r /\ aux.Written = aux.Read + n
  BY <1>4, <1>1 DEF AuxInv, AuxAhead
<1>6. aux.w \in Nat /\ aux.Written \in Nat /\ DOMAIN aux = AuxFields
  BY DEF AuxInv, AuxTyped
<1>7. got.Written = aux.Written /\ got.w = aux.w /\ got.Read = aux.Written /\ got.fifo = aux.fifo
      /\ DOMAIN got = AuxFields /\ got.r = aux.r
  BY <1>2, <1>5, <1>6 DEF AuxFields
<1>8. CASE aux.Written # aux.w
  <2>1. PICK x : writeFifoMdl(got) = [got EXCEPT !.tx = x,
                   !.Written = got.Written + AuxLeast(Capacity(got.fifo), got.w - got.Written)]
    BY <1>7, WriteMdl
  <2>2. s = writeFifoMdl(got) /\ aux' = IF s.Read = s.r THEN EndTransfer(s) ELSE s
    BY <1>4, <1>3, <1>7, <1>8
  <2>3. s = [got EXCEPT !.tx = x,
               !.Written = aux.Written + AuxLeast(Capacity(aux.fifo), aux.r - aux.Written)]
    BY <1>5, <1>7, <2>1, <2>2
  <2>4. s.Read = aux.Written /\ s.r = aux.r
    BY <1>7, <2>3 DEF AuxFields
  <2>5. aux' = s
    BY <1>5, <1>8, <2>2, <2>4
  <2>6. got = [aux EXCEPT !.rx = <<>>, !.Read = aux.Written, !.buffer = got.buffer]
    BY <1>2, <1>5, <1>6 DEF AuxFields
  <2>7. /\ DOMAIN aux' = AuxFields /\ aux'.pc = aux.pc /\ aux'.dpc = aux.dpc
        /\ aux'.cancel = aux.cancel /\ aux'.state = aux.state /\ aux'.w = aux.w /\ aux'.r = aux.r
        /\ aux'.fifo = aux.fifo /\ aux'.doneIrq = aux.doneIrq /\ aux'.cs = aux.cs
        /\ aux'.locked = aux.locked /\ aux'.queued = aux.queued /\ aux'.active = aux.active
        /\ aux'.mark = aux.mark /\ aux'.spb = aux.spb /\ aux'.overtaken = aux.overtaken
        /\ aux'.Read = aux.Written
        /\ aux'.Written = aux.Written + AuxLeast(Capacity(aux.fifo), aux.r - aux.Written)
    BY <1>6, <2>3, <2>5, <2>6, ZenonT(60) DEF AuxFields
  <2>8. aux'.Written \in Nat
    BY <1>5, <1>6, <2>7, CapacityPositive DEF AuxLeast, AuxInv, AuxTyped
  <2>9. AuxTyped' /\ AuxAhead'
    BY <1>5, <1>6, <2>7, <2>8 DEF AuxInv, AuxTyped, AuxAhead
  <2>10. AuxFlow'
    BY <1>4, <2>7 DEF AuxInv, AuxTyped, AuxFlow
  <2> QED
    BY <2>9, <2>10 DEF AuxInv
<1>9. CASE aux.Written = aux.w
  <2>1. s = got /\ aux' = EndTransfer(got)
    BY <1>4, <1>5, <1>7, <1>9, <1>3
  <2>2. got = [aux EXCEPT !.rx = <<>>, !.Read = aux.Written, !.buffer = got.buffer]
    BY <1>2, <1>5, <1>6 DEF AuxFields
  <2>3. /\ DOMAIN aux' = AuxFields /\ aux'.pc = aux.pc /\ aux'.dpc = aux.dpc
        /\ aux'.cancel = aux.cancel /\ aux'.state = aux.state /\ aux'.w = aux.w /\ aux'.r = aux.r
        /\ aux'.Written = aux.Written /\ aux'.fifo = aux.fifo /\ aux'.tx = aux.tx
        /\ aux'.locked = aux.locked /\ aux'.active = aux.active /\ aux'.mark = aux.mark
        /\ aux'.spb = aux.spb /\ aux'.overtaken = aux.overtaken /\ aux'.doneIrq = FALSE
        /\ aux'.cs = aux.locked /\ aux'.queued = TRUE /\ aux'.Read = aux.Written
    BY <1>6, <2>1, <2>2, ZenonT(60) DEF EndTransfer, AuxFields
  <2>4. AuxLeast(Capacity(aux.fifo), aux.r - aux.Written) = 0
    BY <1>5, <1>6, <1>9, CapacityPositive DEF AuxLeast, AuxInv, AuxTyped
  <2>5. AuxTyped' /\ AuxAhead'
    BY <1>5, <1>6, <1>9, <2>3, <2>4 DEF AuxInv, AuxTyped, AuxAhead
  <2>6. AuxFlow'
    BY <1>4, <2>3 DEF AuxInv, AuxTyped, AuxFlow
  <2> QED
    BY <2>5, <2>6 DEF AuxInv
<1> QED
  BY <1>8, <1>9

\* Every step of the auxiliary SPI driver keeps the invariant.
LEMMA AuxStep == AuxInv /\ [AuxNext]_aux => AuxInv'
<1> SUFFICES ASSUME AuxInv, [AuxNext]_aux PROVE AuxInv'
  OBVIOUS
<1>1. CASE UNCHANGED aux
  BY <1>1 DEF AuxInv, AuxTyped, AuxAhead, AuxFlow
<1>2. CASE EvtInterruptIsr
  BY <1>2, IsrWriteKept, IsrReadKept, IsrSequenceWriteKept, IsrSequenceReadInitKept,
     IsrFullDuplexKept,
     IsrDefaultKept DEF EvtInterruptIsr
<1>3. CASE EvtInterruptDpc \/ EvtRequestCancel \/ AuxClientCancels
  BY <1>3, AuxDpcClaimKept, AuxDpcUnmarkKept, AuxDpcCompleteKept, AuxClientCancelsKept,
     CancelClaimKept,
     CancelCompleteKept DEF EvtInterruptDpc, EvtRequestCancel
<1> QED
  BY <1>1, <1>2, <1>3, EvtSpbIoReadKept, EvtSpbIoWriteKept, EvtSpbIoSequenceKept, EvtSpbIoOtherKept,
     MarkCancelableKept, EnableInterruptKept, EvtSpbControllerLockKept, EvtSpbControllerUnlockKept,
     AuxShiftKept DEF AuxNext, AuxDispatch

\* The invariant gives what is said of the interrupt and of chip select.
LEMMA AuxInvGives == AuxInv => AuxInterruptDisabled /\ AuxChipSelect
BY DEF AuxInv, AuxTyped, AuxFlow, AuxInterruptDisabled, AuxChipSelect

-----------------------------------------------------------------------------
(* Main SPI.                                                               *)

\* The fields of the driver's state.
SpiFields == {"active", "asked", "request", "position", "index", "total", "current", "has", "locked",
              "used", "wake", "pc", "ta", "line", "write", "zero", "read", "discard", "info", "status",
              "buffer", "tx", "rx", "heard", "clock", "failed", "last", "broken"}

\* Without a lock: chip select and its position in the request.
SpiUnlocked ==
  /\ ~spi.active => ~spi.ta /\ spi.current = NoTarget
  /\ spi.active /\ spi.request.type # "sequence" => spi.position = "Single"
  /\ spi.active /\ spi.pc = "wait" => ~spi.ta /\ spi.position = "Single"
  /\ spi.pc \in {"poll", "flush", "drain", "complete"} /\ spi.request.type = "sequence"
       /\ spi.index = Len(spi.request.transfers) => spi.position \in {"Single", "Last"}

\* With a lock: the target stays, and its first request activated chip select.
SpiLocked ==
  /\ spi.current \in SpiTargets
  /\ spi.active => /\ spi.used > 0 /\ spi.request.type # "sequence"
                   /\ spi.position = IF spi.used = 1 THEN "First" ELSE "Continue"
  /\ spi.pc = "wait" => IF spi.used = (IF spi.active THEN 1 ELSE 0) THEN ~spi.ta
                        ELSE spi.ta /\ spi.line = spi.current

\* The thread and its request: what each place in the thread has put in order.
SpiBusy ==
  /\ spi.pc \in {"wait", "transfer", "poll", "flush", "drain", "complete"}
  /\ spi.active \in BOOLEAN /\ spi.locked \in BOOLEAN /\ spi.ta \in BOOLEAN /\ spi.used \in Nat
  /\ spi.has = spi.active
  /\ ~spi.active => ~spi.wake /\ spi.pc = "wait"
  /\ spi.wake => spi.pc = "wait"
  /\ spi.pc # "wait" => spi.ta /\ spi.line = spi.current
  /\ spi.active => /\ spi.current \in SpiTargets
                   /\ spi.request \in SpiRequests /\ spi.index \in 1 .. Len(spi.request.transfers)
                   /\ spi.pc = "wait" => spi.index = 1

\* The invariant.
SpiInv ==
  /\ DOMAIN spi = SpiFields
  /\ "order" \notin spi.broken
  /\ SpiBusy
  /\ IF spi.locked THEN SpiLocked ELSE SpiUnlocked

\* A step that changes none of the fields the invariant names keeps it.
LEMMA SpiKept ==
  ASSUME SpiInv, DOMAIN spi' = SpiFields, spi'.broken = spi.broken,
         spi'.pc = spi.pc, spi'.active = spi.active,
         spi'.locked = spi.locked, spi'.ta = spi.ta, spi'.used = spi.used, spi'.has = spi.has,
         spi'.wake = spi.wake, spi'.line = spi.line, spi'.current = spi.current,
         spi'.request = spi.request, spi'.index = spi.index, spi'.position = spi.position
  PROVE  SpiInv'
BY DEF SpiInv, SpiBusy, SpiLocked, SpiUnlocked

\* The driver starts in the invariant.
LEMMA SpiInitially == SpiInit => SpiInv
BY DEF SpiInit, SpiInv, SpiBusy, SpiFields, SpiUnlocked, NoTarget

\* A request is handed over: read, write, sequence or full duplex, with or without a lock.
LEMMA OnSequenceRequestKept ==
  ASSUME SpiInv, NEW t \in SpiTargets, NEW q \in SpiRequests, OnSequenceRequest(t, q)
  PROVE  SpiInv'
<1>1. /\ DOMAIN spi' = SpiFields /\ ~spi.active /\ (spi.locked => spi.current = t /\ q.type # "sequence")
      /\ spi'.pc = spi.pc /\ spi'.active = TRUE /\ spi'.has = TRUE /\ spi'.wake = TRUE
      /\ spi'.current = t /\ spi'.request = q /\ spi'.index = 1
      /\ spi'.locked = spi.locked /\ spi'.ta = spi.ta /\ spi'.line = spi.line
      /\ spi'.used = (IF spi.locked THEN spi.used + 1 ELSE 0)
      /\ spi'.position = (CASE ~spi.locked -> "Single"
                            [] spi.locked /\ spi.used = 0 -> "First"
                            [] OTHER -> "Continue")
      /\ (~spi.has /\ (IF spi.locked THEN spi.current = t ELSE spi.current = NoTarget))
           => spi'.broken = spi.broken
  BY DEF OnSequenceRequest, OnRequest, SpiAssert, SpiInv, SpiBusy, SpiFields
<1>2. 1 \in 1 .. Len(q.transfers) /\ t # NoTarget
  BY SpiAssumption
<1>3. CASE spi.locked
  <2>1. "order" \notin spi'.broken
    BY <1>1, <1>3 DEF SpiInv, SpiBusy
  <2>2. SpiLocked'
    BY <1>1, <1>3 DEF SpiInv, SpiBusy, SpiLocked
  <2>3. SpiBusy'
    <3>1. spi'.used \in Nat /\ spi'.locked \in BOOLEAN
      BY <1>1 DEF SpiInv, SpiBusy
    <3>2. spi'.pc = "wait" /\ spi'.active = TRUE /\ spi'.has = TRUE /\ spi'.wake = TRUE
      BY <1>1 DEF SpiInv, SpiBusy
    <3>3. spi'.ta \in BOOLEAN
      BY <1>1 DEF SpiInv, SpiBusy
    <3>4. /\ spi'.current \in SpiTargets /\ spi'.request \in SpiRequests /\ spi'.index = 1
          /\ spi'.index \in 1 .. Len(spi'.request.transfers)
      BY <1>1, <1>2
    <3> QED
      BY <3>1, <3>2, <3>3, <3>4 DEF SpiBusy
  <2> QED
    BY <1>1, <1>3, <2>1, <2>2, <2>3 DEF SpiInv
<1>4. CASE ~spi.locked
  <2>1. "order" \notin spi'.broken
    BY <1>1, <1>4 DEF SpiInv, SpiBusy, SpiUnlocked
  <2>2. SpiUnlocked'
    BY <1>1, <1>4 DEF SpiInv, SpiBusy, SpiUnlocked
  <2>3. SpiBusy'
    <3>1. spi'.used \in Nat /\ spi'.locked \in BOOLEAN
      BY <1>1 DEF SpiInv, SpiBusy
    <3>2. spi'.pc = "wait" /\ spi'.active = TRUE /\ spi'.has = TRUE /\ spi'.wake = TRUE
      BY <1>1 DEF SpiInv, SpiBusy
    <3>3. spi'.ta \in BOOLEAN
      BY <1>1 DEF SpiInv, SpiBusy
    <3>4. /\ spi'.current \in SpiTargets /\ spi'.request \in SpiRequests /\ spi'.index = 1
          /\ spi'.index \in 1 .. Len(spi'.request.transfers)
      BY <1>1, <1>2
    <3> QED
      BY <3>1, <3>2, <3>3, <3>4 DEF SpiBusy
  <2> QED
    BY <1>1, <1>4, <2>1, <2>2, <2>3 DEF SpiInv
<1> QED
  BY <1>3, <1>4

\* The lock: no request is under way, and the target becomes the current one.
LEMMA OnControllerLockKept == ASSUME SpiInv, NEW t \in SpiTargets, OnControllerLock(t) PROVE SpiInv'
<1>1. /\ DOMAIN spi' = SpiFields /\ ~spi.active /\ ~spi.locked
      /\ spi'.pc = spi.pc /\ spi'.active = spi.active /\ spi'.has = spi.has /\ spi'.wake = spi.wake
      /\ spi'.current = t /\ spi'.request = spi.request /\ spi'.index = spi.index
      /\ spi'.locked = TRUE /\ spi'.ta = spi.ta /\ spi'.line = spi.line /\ spi'.used = 0
      /\ spi'.position = spi.position
      /\ spi.current = NoTarget => spi'.broken = spi.broken
  BY DEF OnControllerLock, SpiAssert, SpiInv, SpiBusy, SpiFields
<1>2. "order" \notin spi'.broken /\ ~spi.ta /\ spi.pc = "wait"
  BY <1>1 DEF SpiInv, SpiBusy, SpiUnlocked
<1>3. SpiLocked'
  BY <1>1, <1>2 DEF SpiInv, SpiBusy, SpiLocked
<1>4. SpiBusy'
  <2>1. spi'.used = 0 /\ spi'.locked = TRUE
    BY <1>1
  <2>2. spi'.pc = "wait" /\ spi'.active = FALSE /\ spi'.has = FALSE
    BY <1>1, <1>2 DEF SpiInv, SpiBusy
  <2>3. spi'.wake = FALSE
    BY <1>1, <1>2 DEF SpiInv, SpiBusy
  <2>4. spi'.ta \in BOOLEAN
    BY <1>1, <1>2 DEF SpiInv, SpiBusy
  <2>5. spi'.locked \in BOOLEAN
    BY <2>1, Zenon
  <2>6. spi'.used \in Nat
    BY <2>1
  <2> QED
    BY <2>2, <2>3, <2>4, <2>5, <2>6 DEF SpiBusy
<1> QED
  BY <1>1, <1>2, <1>3, <1>4 DEF SpiInv

\* The unlock deactivates chip select.
LEMMA OnControllerUnlockKept == ASSUME SpiInv, OnControllerUnlock PROVE SpiInv'
<1>1. /\ DOMAIN spi' = SpiFields /\ ~spi.active /\ spi.locked
      /\ spi'.pc = spi.pc /\ spi'.active = spi.active /\ spi'.has = spi.has /\ spi'.wake = spi.wake
      /\ spi'.current = NoTarget /\ spi'.request = spi.request /\ spi'.index = spi.index
      /\ spi'.locked = FALSE /\ spi'.ta = FALSE /\ spi'.line = spi.line /\ spi'.used = spi.used
      /\ spi'.position = spi.position
      /\ spi.current # NoTarget => spi'.broken = spi.broken
  BY DEF OnControllerUnlock, SpiAssert, SpiInv, SpiBusy, SpiFields
<1> QED
  BY <1>1, SpiAssumption DEF SpiInv, SpiBusy, SpiLocked, SpiUnlocked

\* The thread takes the request and begins its first transfer.
LEMMA TransferPollModeThreadKept == ASSUME SpiInv, TransferPollModeThread PROVE SpiInv'
<1>1. /\ DOMAIN spi' = SpiFields /\ spi.pc = "wait" /\ spi.wake
      /\ spi'.pc = "transfer" /\ spi'.active = spi.active /\ spi'.has = spi.has /\ spi'.wake = FALSE
      /\ spi'.current = spi.current /\ spi'.request = spi.request /\ spi'.index = spi.index
      /\ spi'.locked = spi.locked /\ spi'.used = spi.used /\ spi'.position = spi.position
      /\ IF spi.position \in {"Single", "First"}
         THEN spi'.ta = TRUE /\ spi'.line = spi.current /\ (~spi.ta => spi'.broken = spi.broken)
         ELSE spi'.ta = spi.ta /\ spi'.line = spi.line /\ spi'.broken = spi.broken
  <2>1. CASE spi.position \in {"Single", "First"}
    BY <2>1 DEF TransferPollModeThread, ControllerConfigForTargetAndActivate, SpiAssert, SpiInv,
       SpiBusy, SpiFields
  <2>2. CASE spi.position \notin {"Single", "First"}
    BY <2>2 DEF TransferPollModeThread, SpiInv, SpiBusy, SpiFields
  <2> QED
    BY <2>1, <2>2
<1> QED
  BY <1>1 DEF SpiInv, SpiBusy, SpiLocked, SpiUnlocked

\* A transfer is set up; chip select is active from here on.
LEMMA ControllerDoOneTransferKept == ASSUME SpiInv, ControllerDoOneTransfer PROVE SpiInv'
<1>1. PICK n : n = Len(spi.request.transfers)
  OBVIOUS
<1>2. /\ DOMAIN spi' = SpiFields /\ spi.pc = "transfer"
      /\ spi'.pc = "poll" /\ spi'.active = spi.active /\ spi'.has = spi.has /\ spi'.wake = spi.wake
      /\ spi'.current = spi.current /\ spi'.request = spi.request /\ spi'.index = spi.index
      /\ spi'.locked = spi.locked /\ spi'.used = spi.used /\ spi'.ta = spi.ta /\ spi'.line = spi.line
      /\ spi'.broken = spi.broken
      /\ spi'.position = CASE spi.request.type # "sequence" -> spi.position
                           [] spi.request.type = "sequence" /\ n = 1 -> "Single"
                           [] spi.request.type = "sequence" /\ n # 1 /\ spi.index = 1 -> "First"
                           [] spi.request.type = "sequence" /\ n # 1 /\ spi.index = n -> "Last"
                           [] OTHER -> "Continue"
  BY <1>1 DEF ControllerDoOneTransfer, SpiInv, SpiBusy, SpiFields
<1> QED
  BY <1>1, <1>2 DEF SpiInv, SpiBusy, SpiLocked, SpiUnlocked

\* Polling moves data, may lose a mapping and ends; the shift register and a cancellation.
LEMMA PollKept ==
  ASSUME SpiInv, PollOnce \/ MapFails \/ PollEnds \/ SpiShift \/ SpiClientCancels
  PROVE  SpiInv'
<1>1. /\ DOMAIN spi' = SpiFields
      /\ spi'.active = spi.active /\ spi'.has = spi.has /\ spi'.wake = spi.wake
      /\ spi'.current = spi.current /\ spi'.request = spi.request /\ spi'.index = spi.index
      /\ spi'.locked = spi.locked /\ spi'.used = spi.used /\ spi'.ta = spi.ta /\ spi'.line = spi.line
      /\ spi'.broken \in {spi.broken, spi.broken \cup {"mdl"}} /\ spi'.position = spi.position
      /\ spi'.pc = spi.pc \/ (spi.pc = "poll" /\ spi'.pc \in {"poll", "flush", "complete"})
  <2>1. CASE SpiShift
    BY <2>1 DEF SpiShift, SpiInv, SpiBusy, SpiFields
  <2>2. CASE SpiClientCancels
    BY <2>2 DEF SpiClientCancels, SpiInv, SpiBusy, SpiFields
  <2>3. CASE PollEnds
    BY <2>3 DEF PollEnds, SpiInv, SpiBusy, SpiFields
  <2>4. CASE MapFails
    <3> DEFINE Same(r) == /\ DOMAIN r = SpiFields /\ r.pc = spi.pc /\ r.broken = spi.broken
                          /\ r.active = spi.active /\ r.has = spi.has /\ r.wake = spi.wake
                          /\ r.current = spi.current /\ r.request = spi.request
                          /\ r.index = spi.index /\ r.position = spi.position
                          /\ r.locked = spi.locked /\ r.used = spi.used
                          /\ r.ta = spi.ta /\ r.line = spi.line
    <3>1. spi.pc = "poll" /\ Same(spi)
      BY <2>4 DEF MapFails, SpiInv
    <3>2. Same(SendOne(spi))
      BY DEF SendOne, SpiInv, SpiFields
    <3>3. PICK s : s = SendOne(spi)
      OBVIOUS
    <3>4. PICK r : r = [s EXCEPT !.rx = Tail(s.rx)]
      OBVIOUS
    <3>5. Same(r)
      BY <3>2, <3>3, <3>4 DEF SpiFields
    <3>6. spi' = Unmapped(spi) \/ spi' = Unmapped(r)
      BY <2>4, <3>3, <3>4 DEF MapFails
    <3>7. CASE spi' = Unmapped(spi)
      BY <3>1, <3>7 DEF Unmapped, SpiFields
    <3>8. CASE spi' = Unmapped(r)
      BY <3>1, <3>5, <3>8 DEF Unmapped, SpiFields
    <3> QED
      BY <3>6, <3>7, <3>8
  <2>5. CASE PollOnce /\ spi.asked
    BY <2>5 DEF PollOnce, SpiInv, SpiBusy, SpiFields
  <2>6. CASE PollOnce /\ ~spi.asked
    BY <2>6 DEF PollOnce, SendOne, ReceiveOne, SpiInv, SpiBusy, SpiFields
  <2> QED
    BY <2>1, <2>5, <2>6, <2>2, <2>3, <2>4
<1> QED
  BY <1>1 DEF SpiInv, SpiBusy, SpiLocked, SpiUnlocked

\* The FIFOs are drained after the polling.
LEMMA ControllerFlushFifosKept == ASSUME SpiInv, ControllerFlushFifos PROVE SpiInv'
<1>1. /\ DOMAIN spi' = SpiFields
      /\ spi'.active = spi.active /\ spi'.has = spi.has /\ spi'.wake = spi.wake
      /\ spi'.current = spi.current /\ spi'.request = spi.request /\ spi'.index = spi.index
      /\ spi'.locked = spi.locked /\ spi'.used = spi.used /\ spi'.ta = spi.ta /\ spi'.line = spi.line
      /\ spi'.position = spi.position
      /\ \/ spi.pc = "flush" /\ spi'.pc = "drain" /\ (spi.ta => spi'.broken = spi.broken)
         \/ spi.pc = "drain" /\ spi'.pc = "complete" /\ spi'.broken = spi.broken
  <2>1. CASE spi.pc = "flush"
    <3>1. spi' = [SpiAssert(spi, spi.ta) EXCEPT !.rx = <<>>, !.pc = "drain"]
      BY <2>1 DEF ControllerFlushFifos
    <3> QED
      BY <2>1, <3>1 DEF SpiAssert, SpiInv, SpiBusy, SpiFields
  <2>2. CASE spi.pc = "drain"
    <3>1. PICK n : spi' = [spi EXCEPT !.rx = <<>>, !.pc = "complete", !.info = n]
      BY <2>2 DEF ControllerFlushFifos
    <3> QED
      BY <2>2, <3>1 DEF SpiInv, SpiBusy, SpiFields
  <2> QED
    BY <2>1, <2>2 DEF ControllerFlushFifos
<1> QED
  BY <1>1 DEF SpiInv, SpiBusy, SpiLocked, SpiUnlocked

\* The next transfer of the sequence, or the end of the request, which may release chip select.
LEMMA ControllerCompleteTransferKept == ASSUME SpiInv, ControllerCompleteTransfer PROVE SpiInv'
<1>1. /\ spi.pc = "complete" /\ spi.active /\ spi.request \in SpiRequests
      /\ spi.index \in 1 .. Len(spi.request.transfers) /\ Len(spi.request.transfers) \in Nat
  BY SpiAssumption DEF ControllerCompleteTransfer, SpiInv, SpiBusy
<1>2. PICK again, releases, clears \in BOOLEAN :
        /\ again = (spi.index + 1 <= Len(spi.request.transfers) /\ spi.status # "cancelled")
        /\ releases = (~spi.locked /\ (spi.position \in {"Single", "Last"} \/ spi.status = "cancelled"))
        /\ clears = (~spi.locked /\ (spi.request.type \in {"sequence", "other"} \/ spi.position = "Single"))
  OBVIOUS
<1>3. /\ DOMAIN spi' = SpiFields
      /\ spi'.wake = spi.wake /\ spi'.request = spi.request /\ spi'.index = spi.index + 1
      /\ spi'.locked = spi.locked /\ spi'.used = spi.used /\ spi'.line = spi.line
      /\ spi'.position = spi.position /\ spi'.broken = spi.broken
      /\ IF again
         THEN /\ spi'.pc = "transfer" /\ spi'.active = spi.active /\ spi'.has = spi.has
              /\ spi'.ta = spi.ta /\ spi'.current = spi.current
         ELSE /\ spi'.pc = "wait" /\ spi'.active = FALSE /\ spi'.has = FALSE
              /\ spi'.ta = (spi.ta /\ ~releases)
              /\ spi'.current = IF clears THEN NoTarget ELSE spi.current
  <2>1. CASE again
    BY <1>2, <2>1 DEF ControllerCompleteTransfer, SpiInv, SpiBusy, SpiFields
  <2>2. CASE ~again
    BY <1>2, <2>2 DEF ControllerCompleteTransfer, SpiInv, SpiBusy, SpiFields
  <2> QED
    BY <2>1, <2>2
<1>4. CASE again
  <2>1. spi'.index \in 1 .. Len(spi'.request.transfers)
    <3>1. spi'.request.transfers = spi.request.transfers /\ spi'.index = spi.index + 1
      BY <1>3
    <3>2. spi.index + 1 <= Len(spi.request.transfers)
      BY <1>2, <1>4
    <3>3. PICK n \in Nat : n = Len(spi.request.transfers)
      BY <1>1
    <3> QED
      BY <1>1, <3>1, <3>2, <3>3
  <2>2. CASE spi.locked
    BY <1>1, <1>3, <1>4, <2>1, <2>2 DEF SpiInv, SpiBusy, SpiLocked
  <2>3. CASE ~spi.locked
    BY <1>1, <1>3, <1>4, <2>1, <2>3 DEF SpiInv, SpiBusy, SpiUnlocked
  <2> QED
    BY <2>2, <2>3
<1>5. CASE ~again /\ spi.locked
  <2>1. ~releases /\ ~clears
    BY <1>2, <1>5
  <2>2. /\ spi'.ta = spi.ta /\ spi'.current = spi.current /\ spi.ta /\ spi.line = spi.current
        /\ spi'.pc = "wait" /\ spi'.active = FALSE /\ spi'.has = FALSE
    BY <1>1, <1>3, <1>5, <2>1 DEF SpiInv, SpiBusy
  <2>3. SpiLocked'
    BY <1>1, <1>3, <1>5, <2>2 DEF SpiInv, SpiBusy, SpiLocked
  <2> QED
    BY <1>1, <1>3, <1>5, <2>2, <2>3 DEF SpiInv, SpiBusy
<1>6. CASE ~again /\ ~spi.locked
  <2>1. releases /\ clears
    BY <1>1, <1>2, <1>6, SpiAssumption DEF SpiInv, SpiBusy, SpiUnlocked
  <2> QED
    BY <1>1, <1>3, <1>6, <2>1 DEF SpiInv, SpiBusy, SpiUnlocked
<1> QED
  BY <1>4, <1>5, <1>6

\* Every step of the main SPI driver keeps the invariant.
LEMMA SpiStep == SpiInv /\ [SpiNext]_spi => SpiInv'
<1> SUFFICES ASSUME SpiInv, [SpiNext]_spi PROVE SpiInv'
  OBVIOUS
<1>1. CASE UNCHANGED spi
  BY <1>1 DEF SpiInv, SpiBusy, SpiLocked, SpiUnlocked
<1> QED
  BY <1>1, OnSequenceRequestKept, OnControllerLockKept, OnControllerUnlockKept,
     TransferPollModeThreadKept,
     ControllerDoOneTransferKept, PollKept, ControllerFlushFifosKept, ControllerCompleteTransferKept
     DEF SpiNext, SpiThread

\* The invariant gives the driver's assertions and what is said of chip select.
LEMMA SpiInvGives == SpiInv => SpiAssertionsHold /\ SpiChipSelect
BY DEF SpiInv, SpiBusy, SpiLocked, SpiUnlocked, SpiAssertionsHold, SpiChipSelect

-----------------------------------------------------------------------------
(* The Arasan SD host.                                                     *)

\* The fields of the driver's state.
SdhcFields == {"stage", "issued", "type", "read", "ext", "length", "phase", "count", "size", "required",
               "status", "out", "current", "unaligned", "tail", "tailCount", "events", "is", "command",
               "complete", "left", "width", "fifo", "offered", "moved", "early", "skipped", "last", "broken"}

\* The types the proof needs.
SdhcTyped ==
  /\ DOMAIN sdhc = SdhcFields
  /\ sdhc.stage \in {"idle", "prepared", "issued", "next", "expired", "failed"}
  /\ sdhc.type \in {"none", "command", "busy", "data"}
  /\ sdhc.unaligned \in {"idle", "ready", "sent", "started"}
  /\ sdhc.phase \in {"command", "transfer"}
  /\ sdhc.count \in Nat /\ sdhc.length \in Nat

\* A transfer has blocks left before each of its steps, and its status says so.
SdhcBlocks ==
  /\ sdhc.stage \in {"idle", "prepared"} => ~sdhc.out
  /\ sdhc.stage = "prepared" => sdhc.phase = "command" /\ sdhc.status = "none"
  /\ sdhc.stage = "next" => sdhc.type = "data" /\ sdhc.count > 0
  /\ (sdhc.type = "data" /\ sdhc.stage \notin {"idle", "prepared"}) =>
       /\ sdhc.phase = "command" => sdhc.count > 0 /\ sdhc.status = "none"
       /\ sdhc.phase = "transfer" => sdhc.status = IF sdhc.count > 0 THEN "more" ELSE "success"
  /\ sdhc.type # "data" => sdhc.phase = "command" /\ sdhc.status = "none"

\* An internal request is under way only during the transfer it belongs to.
SdhcTail ==
  ~sdhc.skipped =>
    /\ ~sdhc.broken
    /\ (sdhc.stage \in {"idle", "prepared"} \/ sdhc.type # "data") => sdhc.unaligned = "idle"
    /\ sdhc.stage = "next" => sdhc.unaligned \in {"idle", "ready"}

\* The invariant.
SdhcInv == SdhcTyped /\ SdhcBlocks /\ SdhcTail

\* A step that changes none of the fields the invariant names keeps it.
LEMMA SdhcKept ==
  ASSUME SdhcInv, DOMAIN sdhc' = SdhcFields, sdhc'.stage = sdhc.stage, sdhc'.type = sdhc.type,
         sdhc'.unaligned = sdhc.unaligned, sdhc'.phase = sdhc.phase, sdhc'.count = sdhc.count,
         sdhc'.length = sdhc.length, sdhc'.out = sdhc.out, sdhc'.status = sdhc.status,
         sdhc'.skipped = sdhc.skipped, sdhc'.broken = sdhc.broken
  PROVE  SdhcInv'
BY DEF SdhcInv, SdhcTyped, SdhcBlocks, SdhcTail

\* The driver starts in the invariant.
LEMMA SdhcInitially == SdhcInit => SdhcInv
BY DEF SdhcInit, SdhcInv, SdhcTyped, SdhcBlocks, SdhcTail, SdhcFields

\* Sdport prepares a request.
LEMMA SdportPreparesKept == ASSUME SdhcInv, SdportPrepares PROVE SdhcInv'
<1>1. PICK t \in {"command", "busy", "data"}, r, x \in BOOLEAN, n \in SdhcLengths :
       /\ t # "data" => r /\ ~x /\ \A m \in SdhcLengths : n <= m
       /\ ~x => n < BlockSize \/ n % BlockSize = 0
       /\ sdhc' = [sdhc EXCEPT !.stage = "prepared", !.type = t, !.read = r, !.ext = x,
                               !.length = n, !.phase = "command", !.status = "none", !.required = {}, !.moved = 0,
                               !.count = 0, !.size = 0, !.early = FALSE, !.last = "none",
                               !.issued = @ + 1]
  BY DEF SdportPrepares
<1>2. /\ sdhc.stage = "idle"
      /\ DOMAIN sdhc' = SdhcFields /\ sdhc'.stage = "prepared" /\ sdhc'.type = t
      /\ sdhc'.unaligned = sdhc.unaligned /\ sdhc'.phase = "command" /\ sdhc'.count = 0
      /\ sdhc'.length = n /\ sdhc'.out = sdhc.out /\ sdhc'.status = "none"
      /\ sdhc'.skipped = sdhc.skipped /\ sdhc'.broken = sdhc.broken
  BY <1>1, ZenonT(60) DEF SdportPrepares, SdhcInv, SdhcTyped, SdhcFields
<1>3. n \in Nat
  BY SdhcAssumption
<1> QED
  BY <1>2, <1>3 DEF SdhcInv, SdhcTyped, SdhcBlocks, SdhcTail

\* The number of blocks of a length.
LEMMA Halves == \A n \in Nat : n \div BlockSize \in Nat
BY DEF BlockSize

\* What SdhcSetTransferMode changes: blocks, sizes and the internal request.
LEMMA SetTransferModeFields ==
  ASSUME NEW s, DOMAIN s = SdhcFields, s.length \in Nat
  PROVE  LET t == SetTransferMode(s)
         IN  /\ DOMAIN t = SdhcFields /\ t.stage = s.stage /\ t.type = s.type /\ t.phase = s.phase
             /\ t.count \in Nat \ {0} /\ t.length = s.length /\ t.out = s.out /\ t.status = s.status
             /\ t.skipped = s.skipped /\ t.unaligned \in {"idle", "ready", s.unaligned}
             /\ s.unaligned = "idle" => (t.broken <=> s.broken)
<1>1. PICK w \in Nat : w = s.length \div BlockSize
  BY Halves
<1>2. PICK t : t = [s EXCEPT !.count = IF w = 0 THEN 1 ELSE w, !.size = IF w = 0 THEN s.length ELSE BlockSize]
  OBVIOUS
<1>3. DOMAIN t = SdhcFields /\ t.count \in Nat \ {0} /\ t.stage = s.stage /\ t.type = s.type
      /\ t.phase = s.phase /\ t.length = s.length /\ t.out = s.out /\ t.status = s.status
      /\ t.skipped = s.skipped /\ t.unaligned = s.unaligned /\ t.broken = s.broken
  BY <1>1, <1>2 DEF SdhcFields
<1>4. CASE ~s.ext
  <2>1. SetTransferMode(s) = [t EXCEPT !.unaligned = "idle"]
    BY <1>1, <1>2, <1>4 DEF SetTransferMode
  <2> QED
    BY <1>3, <2>1 DEF SdhcFields
<1>5. CASE s.ext /\ s.length > t.count * t.size
  <2>1. SetTransferMode(s) = [[t EXCEPT !.broken = t.broken \/ ~(t.unaligned = "idle")]
           EXCEPT !.unaligned = "ready", !.tail = s.length % BlockSize, !.tailCount = 1]
    BY <1>1, <1>2, <1>5 DEF SetTransferMode, SdhcAssert
  <2>2. s.unaligned = "idle" => (SetTransferMode(s).broken <=> s.broken)
    BY <1>3, <2>1 DEF SdhcFields
  <2> QED
    BY <1>3, <2>1, <2>2 DEF SdhcFields
<1>6. CASE s.ext /\ ~(s.length > t.count * t.size)
  <2>1. SetTransferMode(s) = t
    BY <1>1, <1>2, <1>6 DEF SetTransferMode
  <2> QED
    BY <1>3, <2>1
<1> QED
  BY <1>4, <1>5, <1>6

\* What SdhcSendCommandInternal changes.
LEMMA SendCommandFields ==
  ASSUME NEW s, DOMAIN s = SdhcFields, s.length \in Nat
  PROVE  LET t == SendCommand(s)
         IN  /\ DOMAIN t = SdhcFields /\ t.stage = s.stage /\ t.type = s.type /\ t.phase = s.phase
             /\ t.length = s.length /\ t.out = s.out /\ t.status = s.status /\ t.skipped = s.skipped
             /\ IF s.type = "data"
                THEN /\ t.count \in Nat \ {0} /\ t.unaligned \in {"idle", "ready", s.unaligned}
                     /\ s.unaligned = "idle" => (t.broken <=> s.broken)
                ELSE t.count = s.count /\ t.unaligned = s.unaligned /\ t.broken = s.broken
<1>1. PICK m : m = IF s.type = "data" THEN SetTransferMode(s) ELSE s
  OBVIOUS
<1>2. PICK b, n, q : SendCommand(s) =
        [[m EXCEPT !.current = {}, !.command = TRUE, !.complete = b, !.left = n, !.width = m.size,
                   !.fifo = 0, !.offered = FALSE] EXCEPT !.required = q]
  BY <1>1 DEF SendCommand, CommandRegister
<1>3. /\ DOMAIN m = SdhcFields /\ m.stage = s.stage /\ m.type = s.type /\ m.phase = s.phase
      /\ m.length = s.length /\ m.out = s.out /\ m.status = s.status /\ m.skipped = s.skipped
      /\ IF s.type = "data"
         THEN /\ m.count \in Nat \ {0} /\ m.unaligned \in {"idle", "ready", s.unaligned}
              /\ s.unaligned = "idle" => (m.broken <=> s.broken)
         ELSE m.count = s.count /\ m.unaligned = s.unaligned /\ m.broken = s.broken
  BY <1>1, SetTransferModeFields
<1> QED
  BY <1>2, <1>3 DEF SdhcFields

\* What c is after the request of s was completed with a status.
Completed(s, status, c) ==
  /\ DOMAIN c = SdhcFields /\ c.type = s.type /\ c.phase = s.phase /\ c.count = s.count
  /\ c.length = s.length /\ c.status = s.status /\ c.unaligned = s.unaligned
  /\ (s.type # "data" \/ s.count = 0) => c.out = FALSE /\ (c.broken <=> (s.broken \/ ~s.out))
  /\ ~(s.type # "data" \/ s.count = 0) => c.out = s.out /\ c.broken = s.broken
  /\ status \notin {"success", "more"} => c.stage = "failed"
  /\ (status \in {"success", "more"} /\ s.type = "data" /\ (s.phase = "command" \/ status = "more"))
    => c.stage = "next"
  /\ (status \in {"success", "more"} /\ ~(s.type = "data" /\ (s.phase = "command" \/ status = "more")))
    => c.stage = "idle"
  /\ c.skipped <=> (s.skipped \/ (/\ status = "success" /\ (s.type # "data" \/ s.count = 0)
                                   /\ s.unaligned = "ready"))

\* SdhcCompleteRequest: the request ends, goes on with its next block, or has an internal one.
LEMMA CompleteRequestFields ==
  ASSUME NEW s, DOMAIN s = SdhcFields, NEW status, NEW c, c = CompleteRequest(s, status)
  PROVE  Completed(s, status, c)
<1>1. PICK ended \in BOOLEAN : ended = (s.type # "data" \/ s.count = 0)
  OBVIOUS
<1>2. PICK t : t = IF ended THEN [SdhcAssert(s, s.out) EXCEPT !.out = FALSE] ELSE s
  OBVIOUS
<1>3. /\ DOMAIN t = SdhcFields /\ t.stage = s.stage /\ t.type = s.type /\ t.phase = s.phase
      /\ t.count = s.count /\ t.length = s.length /\ t.status = s.status /\ t.unaligned = s.unaligned
      /\ t.skipped = s.skipped
      /\ IF ended THEN t.out = FALSE /\ (t.broken <=> s.broken \/ ~s.out)
         ELSE t.out = s.out /\ t.broken = s.broken
  <2>1. CASE ended
    BY <1>2, <2>1 DEF SdhcAssert, SdhcFields
  <2>2. CASE ~ended
    BY <1>2, <2>2
  <2> QED
    BY <2>1, <2>2
<1>4. PICK l : CompleteRequest(s, status) =
        [t EXCEPT !.stage = CASE status \notin {"success", "more"} -> "failed"
                              [] /\ status \in {"success", "more"} /\ s.type = "data"
                                 /\ s.phase = "command" \/ status = "more" -> "next"
                              [] OTHER -> "idle",
                  !.last = l,
                  !.skipped = t.skipped \/ (status = "success" /\ ended /\ t.unaligned = "ready")]
  BY <1>1, <1>2, <1>3 DEF CompleteRequest
<1>5. PICK g : g = CASE status \notin {"success", "more"} -> "failed"
                     [] /\ status \in {"success", "more"} /\ s.type = "data"
                        /\ s.phase = "command" \/ status = "more" -> "next"
                     [] OTHER -> "idle"
  OBVIOUS
<1>6. c = [t EXCEPT !.stage = g, !.last = l,
                    !.skipped = t.skipped \/ (status = "success" /\ ended /\ t.unaligned = "ready")]
  BY <1>4, <1>5
<1>7. /\ DOMAIN c = SdhcFields /\ c.type = s.type /\ c.phase = s.phase /\ c.count = s.count
      /\ c.length = s.length /\ c.status = s.status /\ c.unaligned = s.unaligned /\ c.stage = g
  BY <1>3, <1>6 DEF SdhcFields
<1>8. c.skipped <=> s.skipped \/ (status = "success" /\ ended /\ s.unaligned = "ready")
  BY <1>3, <1>6 DEF SdhcFields
<1>9. IF ended THEN c.out = FALSE /\ (c.broken <=> s.broken \/ ~s.out)
       ELSE c.out = s.out /\ c.broken = s.broken
  BY <1>3, <1>6 DEF SdhcFields
<1>10. /\ status \notin {"success", "more"} => g = "failed"
       /\ (status \in {"success", "more"} /\ s.type = "data" /\ (s.phase = "command" \/ status = "more"))
            => g = "next"
       /\ (status \in {"success", "more"} /\ ~(s.type = "data" /\ (s.phase = "command" \/ status = "more")))
            => g = "idle"
  BY <1>5
<1> QED
  BY <1>1, <1>7, <1>8, <1>9, <1>10 DEF Completed

\* SdhcSlotIssueRequest: a command is sent, or a transfer started or continued.
LEMMA SlotIssueRequestKept == ASSUME SdhcInv, SlotIssueRequest PROVE SdhcInv'
<1>1. CASE sdhc.stage = "prepared"
  <2>1. PICK s : s = [sdhc EXCEPT !.out = TRUE, !.stage = "issued"]
    OBVIOUS
  <2>2. sdhc' = SendCommand(s)
    BY <1>1, <2>1 DEF SlotIssueRequest
  <2>3. /\ DOMAIN s = SdhcFields /\ s.stage = "issued" /\ s.type = sdhc.type /\ s.phase = "command"
        /\ s.length = sdhc.length /\ s.out = TRUE /\ s.status = "none" /\ s.skipped = sdhc.skipped
        /\ s.count = sdhc.count /\ s.unaligned = sdhc.unaligned /\ s.broken = sdhc.broken
    BY <1>1, <2>1 DEF SdhcInv, SdhcTyped, SdhcBlocks, SdhcFields
  <2>4. PICK t : t = SendCommand(s)
    OBVIOUS
  <2>5. /\ DOMAIN t = SdhcFields /\ t.stage = "issued" /\ t.type = sdhc.type /\ t.phase = "command"
        /\ t.length = sdhc.length /\ t.out = TRUE /\ t.status = "none" /\ t.skipped = sdhc.skipped
        /\ IF sdhc.type = "data"
           THEN /\ t.count \in Nat \ {0} /\ t.unaligned \in {"idle", "ready", sdhc.unaligned}
                /\ sdhc.unaligned = "idle" => (t.broken <=> sdhc.broken)
           ELSE t.count = sdhc.count /\ t.unaligned = sdhc.unaligned /\ t.broken = sdhc.broken
    BY <2>3, <2>4, SendCommandFields DEF SdhcInv, SdhcTyped
  <2>6. sdhc' = t
    BY <2>2, <2>4
  <2>7. SdhcTyped'
    BY <2>5, <2>6 DEF SdhcInv, SdhcTyped
  <2>8. SdhcBlocks'
    BY <2>5, <2>6 DEF SdhcInv, SdhcTyped, SdhcBlocks
  <2>9. SdhcTail'
    BY <1>1, <2>5, <2>6 DEF SdhcInv, SdhcTyped, SdhcTail
  <2> QED
    BY <2>7, <2>8, <2>9 DEF SdhcInv
<1>2. CASE sdhc.stage = "next"
  <2>1. PICK s : s = [sdhc EXCEPT !.out = TRUE, !.stage = "issued", !.phase = "transfer"]
    OBVIOUS
  <2>2. sdhc' = StartPioTransfer(s)
    BY <1>2, <2>1 DEF SlotIssueRequest
  <2>3. /\ DOMAIN s = SdhcFields /\ s.stage = "issued" /\ s.type = "data" /\ s.phase = "transfer"
        /\ s.length \in Nat /\ s.out = TRUE /\ s.skipped = sdhc.skipped
        /\ s.count = sdhc.count /\ s.count \in Nat \ {0} /\ s.unaligned = sdhc.unaligned
        /\ s.broken = sdhc.broken
    BY <1>2, <2>1 DEF SdhcInv, SdhcTyped, SdhcBlocks, SdhcFields
  <2>4. PICK t : t = [DataPort(s, s.size) EXCEPT !.current = {}, !.count = @ - 1]
    OBVIOUS
  <2>5. /\ DOMAIN t = SdhcFields /\ t.stage = "issued" /\ t.type = "data" /\ t.phase = "transfer"
        /\ t.length \in Nat /\ t.out = TRUE /\ t.skipped = sdhc.skipped
        /\ t.count = s.count - 1 /\ t.unaligned = sdhc.unaligned /\ t.broken = sdhc.broken
    BY <2>3, <2>4 DEF DataPort, SdhcFields
  <2>6. CASE t.count >= 1
    <3>1. sdhc' = [t EXCEPT !.required = @ \cup {"ready"}, !.status = "more"]
      BY <2>2, <2>4, <2>6 DEF StartPioTransfer
    <3>2. /\ DOMAIN sdhc' = SdhcFields /\ sdhc'.stage = "issued" /\ sdhc'.type = "data"
          /\ sdhc'.phase = "transfer" /\ sdhc'.length \in Nat /\ sdhc'.out = TRUE
          /\ sdhc'.skipped = sdhc.skipped /\ sdhc'.count \in Nat \ {0} /\ sdhc'.status = "more"
          /\ sdhc'.unaligned = sdhc.unaligned /\ sdhc'.broken = sdhc.broken
      BY <2>3, <2>5, <2>6, <3>1 DEF SdhcFields
    <3> QED
      BY <1>2, <3>2 DEF SdhcInv, SdhcTyped, SdhcBlocks, SdhcTail
  <2>7. CASE t.count = 0 /\ "complete" \in s.current
    <3>1. PICK u : u = [t EXCEPT !.status = "success"]
      OBVIOUS
    <3>2. sdhc' = CompleteRequest(u, "success")
      BY <2>2, <2>4, <2>7, <3>1 DEF StartPioTransfer
    <3>3. /\ DOMAIN u = SdhcFields /\ u.type = "data" /\ u.phase = "transfer" /\ u.count = 0
          /\ u.length \in Nat /\ u.out = TRUE /\ u.skipped = sdhc.skipped /\ u.status = "success"
          /\ u.unaligned = sdhc.unaligned /\ u.broken = sdhc.broken
      BY <2>5, <2>7, <3>1 DEF SdhcFields
    <3>4. PICK c : c = CompleteRequest(u, "success")
      OBVIOUS
    <3>5. /\ DOMAIN c = SdhcFields /\ c.type = "data" /\ c.phase = "transfer" /\ c.count = 0
          /\ c.length \in Nat /\ c.status = "success" /\ c.unaligned = sdhc.unaligned
          /\ c.out = FALSE /\ (c.broken <=> sdhc.broken) /\ c.stage = "idle"
          /\ (c.skipped <=> sdhc.skipped \/ sdhc.unaligned = "ready")
      <4>1. Completed(u, "success", c)
        BY <3>3, <3>4, CompleteRequestFields
      <4>2. /\ DOMAIN c = SdhcFields /\ c.type = u.type /\ c.phase = u.phase /\ c.count = u.count
            /\ c.length = u.length /\ c.status = u.status /\ c.unaligned = u.unaligned
        BY <3>3, <4>1 DEF Completed
      <4>3. c.out = FALSE /\ (c.broken <=> u.broken \/ ~u.out)
        BY <3>3, <4>1 DEF Completed
      <4>4. c.stage = "idle"
        BY <3>3, <4>1 DEF Completed
      <4>5. c.skipped <=> u.skipped \/ u.unaligned = "ready"
        BY <3>3, <4>1 DEF Completed
      <4> QED
        BY <3>3, <4>2, <4>3, <4>4, <4>5
    <3>6. sdhc' = c
      BY <3>2, <3>4
    <3> QED
      BY <1>2, <3>5, <3>6 DEF SdhcInv, SdhcTyped, SdhcBlocks, SdhcTail
  <2>8. CASE t.count = 0 /\ "complete" \notin s.current
    <3>1. sdhc' = [t EXCEPT !.required = @ \cup {"complete"}, !.status = "success"]
      BY <2>2, <2>4, <2>8 DEF StartPioTransfer
    <3>2. /\ DOMAIN sdhc' = SdhcFields /\ sdhc'.stage = "issued" /\ sdhc'.type = "data"
          /\ sdhc'.phase = "transfer" /\ sdhc'.length \in Nat /\ sdhc'.out = TRUE
          /\ sdhc'.skipped = sdhc.skipped /\ sdhc'.count = 0 /\ sdhc'.status = "success"
          /\ sdhc'.unaligned = sdhc.unaligned /\ sdhc'.broken = sdhc.broken
      BY <2>3, <2>5, <2>8, <3>1 DEF SdhcFields
    <3> QED
      BY <1>2, <3>2 DEF SdhcInv, SdhcTyped, SdhcBlocks, SdhcTail
  <2> QED
    BY <2>3, <2>5, <2>6, <2>7, <2>8
<1> QED
  BY <1>1, <1>2 DEF SlotIssueRequest

\* What the internal requests for the last, incomplete block change.
LEMMA UnalignedFields ==
  ASSUME NEW s, DOMAIN s = SdhcFields, s.unaligned \in {"idle", "ready", "sent", "started"}
  PROVE  LET m == NonBlockSizeAlignedRequestSM(s)
         IN  /\ DOMAIN m[1] = SdhcFields /\ m[1].stage = s.stage /\ m[1].type = s.type /\ m[1].phase = s.phase
             /\ m[1].count = s.count /\ m[1].length = s.length /\ m[1].status = s.status
             /\ m[1].out = s.out /\ m[1].skipped = s.skipped /\ m[1].broken = s.broken
             /\ m[2] => s.unaligned \in {"ready", "sent"} /\ m[1].unaligned \in {"sent", "started"}
             /\ ~m[2] => m[1].unaligned = "idle" \/ (m[1].unaligned = "ready" /\ s.unaligned = "ready")
<1>1. CASE s.unaligned = "ready" /\ s.count = 0
  <2>1. NonBlockSizeAlignedRequestSM(s) = <<SendTail(s), TRUE>>
    BY <1>1 DEF NonBlockSizeAlignedRequestSM
  <2>2. PICK t : t = SendTail(s)
    OBVIOUS
  <2>3. /\ DOMAIN t = SdhcFields /\ t.stage = s.stage /\ t.type = s.type /\ t.phase = s.phase
        /\ t.count = s.count /\ t.length = s.length /\ t.status = s.status
        /\ t.out = s.out /\ t.skipped = s.skipped /\ t.broken = s.broken /\ t.unaligned = "sent"
    BY <2>2 DEF SendTail, CommandRegister, SdhcFields
  <2> QED
    BY <1>1, <2>1, <2>2, <2>3
<1>2. CASE s.unaligned = "sent"
  <2>1. PICK t : t = [DataPort(s, s.tail) EXCEPT !.current = {}, !.tailCount = 0]
    OBVIOUS
  <2>2. /\ DOMAIN t = SdhcFields /\ t.stage = s.stage /\ t.type = s.type /\ t.phase = s.phase
        /\ t.count = s.count /\ t.length = s.length /\ t.status = s.status
        /\ t.out = s.out /\ t.skipped = s.skipped /\ t.broken = s.broken
    BY <2>1 DEF DataPort, SdhcFields
  <2>3. CASE "complete" \in s.current
    <3>1. NonBlockSizeAlignedRequestSM(s) = <<[t EXCEPT !.unaligned = "idle"], FALSE>>
      BY <1>2, <2>1, <2>3 DEF NonBlockSizeAlignedRequestSM
    <3> QED
      BY <1>2, <2>2, <3>1 DEF SdhcFields
  <2>4. CASE "complete" \notin s.current
    <3>1. NonBlockSizeAlignedRequestSM(s) = <<[t EXCEPT !.unaligned = "started"], TRUE>>
      BY <1>2, <2>1, <2>4 DEF NonBlockSizeAlignedRequestSM
    <3> QED
      BY <1>2, <2>2, <3>1 DEF SdhcFields
  <2> QED
    BY <2>3, <2>4
<1>3. CASE s.unaligned = "started"
  <2>1. NonBlockSizeAlignedRequestSM(s) = <<[s EXCEPT !.unaligned = "idle"], FALSE>>
    BY <1>3 DEF NonBlockSizeAlignedRequestSM
  <2> QED
    BY <1>3, <2>1 DEF SdhcFields
<1>4. CASE s.unaligned = "idle" \/ (s.unaligned = "ready" /\ s.count # 0)
  <2>1. NonBlockSizeAlignedRequestSM(s) = <<s, FALSE>>
    BY <1>4 DEF NonBlockSizeAlignedRequestSM
  <2> QED
    BY <1>4, <2>1
<1> QED
  BY <1>1, <1>2, <1>3, <1>4

\* SdhcRequestDpc: the events of the interrupt end a step of the request.
LEMMA SdhcRequestDpcKept == ASSUME SdhcInv, SdhcRequestDpc PROVE SdhcInv'
<1>1. CASE sdhc.stage = "idle"
  <2>1. sdhc' = [sdhc EXCEPT !.events = {}]
    BY <1>1 DEF SdhcRequestDpc
  <2> QED
    BY <2>1, SdhcKept DEF SdhcInv, SdhcTyped, SdhcFields
<1>2. CASE sdhc.stage # "idle" /\ ~sdhc.out
  <2>1. PICK c : sdhc' = [[sdhc EXCEPT !.events = {}] EXCEPT !.current = c]
    BY <1>2 DEF SdhcRequestDpc
  <2> QED
    BY <2>1, SdhcKept DEF SdhcInv, SdhcTyped, SdhcFields
<1>3. CASE sdhc.stage # "idle" /\ sdhc.out
  <2>1. PICK e, k : /\ e = sdhc.events
                    /\ k = [[sdhc EXCEPT !.events = {}] EXCEPT !.current = @ \cup sdhc.events]
    OBVIOUS
  <2>2. sdhc' = DpcEvents(k, e) /\ sdhc.stage # "next"
    BY <1>3, <2>1 DEF SdhcRequestDpc
  <2>3. sdhc.stage \in {"issued", "expired", "failed"}
    BY <1>3, <2>2 DEF SdhcInv, SdhcTyped, SdhcBlocks
  <2>4. PICK r : r = [k EXCEPT !.required = @ \ e]
    OBVIOUS
  <2>5. /\ DOMAIN r = SdhcFields /\ r.stage = sdhc.stage /\ r.type = sdhc.type /\ r.phase = sdhc.phase
        /\ r.count = sdhc.count /\ r.length = sdhc.length /\ r.status = sdhc.status
        /\ r.unaligned = sdhc.unaligned /\ r.out = sdhc.out /\ r.skipped = sdhc.skipped
        /\ r.broken = sdhc.broken
    BY <2>1, <2>4 DEF SdhcInv, SdhcTyped, SdhcFields
  <2>6. PICK m : m = NonBlockSizeAlignedRequestSM(r)
    OBVIOUS
  <2>7. /\ DOMAIN m[1] = SdhcFields /\ m[1].stage = r.stage /\ m[1].type = r.type /\ m[1].phase = r.phase
        /\ m[1].count = r.count /\ m[1].length = r.length /\ m[1].status = r.status
        /\ m[1].out = r.out /\ m[1].skipped = r.skipped /\ m[1].broken = r.broken
        /\ m[2] => r.unaligned \in {"ready", "sent"} /\ m[1].unaligned \in {"sent", "started"}
        /\ ~m[2] => m[1].unaligned = "idle" \/ (m[1].unaligned = "ready" /\ r.unaligned = "ready")
    BY <2>5, <2>6, UnalignedFields DEF SdhcInv, SdhcTyped
  <2>8. CASE "error" \in e
    <3>1. PICK u, c : /\ u = [r EXCEPT !.unaligned = "idle", !.required = {}, !.current = {}]
                      /\ c = CompleteRequest(u, "error")
      OBVIOUS
    <3>2. sdhc' = c
      BY <2>2, <2>4, <2>8, <3>1 DEF DpcEvents
    <3>3. /\ DOMAIN u = SdhcFields /\ u.stage = sdhc.stage /\ u.type = sdhc.type /\ u.phase = sdhc.phase
          /\ u.count = sdhc.count /\ u.length = sdhc.length /\ u.status = sdhc.status
          /\ u.unaligned = "idle" /\ u.out = sdhc.out /\ u.skipped = sdhc.skipped /\ u.broken = sdhc.broken
      BY <2>5, <3>1 DEF SdhcFields
    <3>4. Completed(u, "error", c)
      BY <3>1, <3>3, CompleteRequestFields
    <3>5. /\ DOMAIN c = SdhcFields /\ c.type = u.type /\ c.phase = u.phase /\ c.count = u.count
          /\ c.length = u.length /\ c.status = u.status /\ c.unaligned = u.unaligned
      BY <3>3, <3>4 DEF Completed
    <3>6. c.stage = "failed"
      BY <3>3, <3>4 DEF Completed
    <3>7. (c.skipped <=> u.skipped) /\ (c.broken => u.broken)
      BY <1>3, <3>3, <3>4 DEF Completed
    <3> QED
      BY <2>3, <3>2, <3>3, <3>5, <3>6, <3>7 DEF SdhcInv, SdhcTyped, SdhcBlocks, SdhcTail
  <2>9. CASE "error" \notin e /\ r.required = {} /\ m[2]
    <3>1. sdhc' = m[1]
      BY <2>2, <2>4, <2>6, <2>9 DEF DpcEvents
    <3> QED
      BY <2>3, <2>5, <2>7, <2>9, <3>1 DEF SdhcInv, SdhcTyped, SdhcBlocks, SdhcTail
  <2>10. CASE "error" \notin e /\ r.required = {} /\ ~m[2]
    <3>1. PICK u, t, c : u = m[1] /\ t = (IF r.status = "more" THEN "more" ELSE "success")
                         /\ c = CompleteRequest(u, t)
      OBVIOUS
    <3>2. sdhc' = c
      BY <2>2, <2>4, <2>6, <2>10, <3>1 DEF DpcEvents
    <3>3. /\ DOMAIN u = SdhcFields /\ u.type = sdhc.type /\ u.phase = sdhc.phase
          /\ u.count = sdhc.count /\ u.length = sdhc.length /\ u.status = sdhc.status
          /\ u.out = sdhc.out /\ u.skipped = sdhc.skipped /\ u.broken = sdhc.broken
          /\ u.unaligned \in {"idle", "ready"} /\ (sdhc.unaligned = "idle" => u.unaligned = "idle")
      BY <2>5, <2>7, <2>10, <3>1
    <3>4. Completed(u, t, c)
      BY <3>1, <3>3, CompleteRequestFields
    <3>5. /\ DOMAIN c = SdhcFields /\ c.type = u.type /\ c.phase = u.phase /\ c.count = u.count
          /\ c.length = u.length /\ c.status = u.status /\ c.unaligned = u.unaligned
      BY <3>1, <3>3, <3>4 DEF Completed
    <3>6. CASE u.type = "data" /\ u.count > 0
      <4>1. u.phase = "command" \/ t = "more"
        BY <2>3, <2>5, <3>1, <3>3, <3>6 DEF SdhcInv, SdhcTyped, SdhcBlocks
      <4>2. c.stage = "next"
        BY <3>1, <3>3, <3>6, <4>1, <3>4 DEF Completed
      <4>3. c.out = u.out /\ c.broken = u.broken /\ (c.skipped <=> u.skipped)
        BY <3>1, <3>3, <3>6, <3>4 DEF Completed
      <4> QED
        BY <2>3, <3>2, <3>3, <3>5, <3>6, <4>2, <4>3 DEF SdhcInv, SdhcTyped, SdhcBlocks, SdhcTail
    <3>7. CASE ~(u.type = "data" /\ u.count > 0)
      <4>1. /\ u.type # "data" \/ u.count = 0
            /\ t = "success" /\ ~(u.type = "data" /\ u.phase = "command")
        BY <2>3, <2>5, <3>1, <3>3, <3>7 DEF SdhcInv, SdhcTyped, SdhcBlocks
      <4>2. c.stage = "idle"
        BY <3>1, <3>3, <4>1, <3>4 DEF Completed
      <4>3. c.out = FALSE /\ (c.broken => u.broken) /\ (c.skipped <=> u.skipped \/ u.unaligned = "ready")
        BY <1>3, <3>1, <3>3, <4>1, <3>4 DEF Completed
      <4> QED
        BY <2>3, <3>2, <3>3, <3>5, <3>7, <4>2, <4>3 DEF SdhcInv, SdhcTyped, SdhcBlocks, SdhcTail
    <3> QED
      BY <3>6, <3>7
  <2>11. CASE "error" \notin e /\ r.required # {}
    <3>1. sdhc' = r
      BY <2>2, <2>4, <2>11 DEF DpcEvents
    <3> QED
      BY <2>5, <3>1, SdhcKept
  <2> QED
    BY <2>8, <2>9, <2>10, <2>11
<1> QED
  BY <1>1, <1>2, <1>3

\* Sdport's timeout and the reset that follows.
LEMMA SdhcGivenUpKept == ASSUME SdhcInv, SdhcSdportTimeout \/ SdhcResetHost PROVE SdhcInv'
<1>1. CASE SdhcSdportTimeout
  <2>1. /\ sdhc.stage = "issued"
        /\ DOMAIN sdhc' = SdhcFields /\ sdhc'.stage = "expired" /\ sdhc'.type = sdhc.type
        /\ sdhc'.unaligned = sdhc.unaligned /\ sdhc'.phase = sdhc.phase /\ sdhc'.count = sdhc.count
        /\ sdhc'.length = sdhc.length /\ sdhc'.out = sdhc.out /\ sdhc'.status = sdhc.status
        /\ sdhc'.skipped = sdhc.skipped /\ sdhc'.broken = sdhc.broken
    BY <1>1 DEF SdhcSdportTimeout, SdhcInv, SdhcTyped, SdhcFields
  <2> QED
    BY <2>1 DEF SdhcInv, SdhcTyped, SdhcBlocks, SdhcTail
<1>2. CASE SdhcResetHost
  <2>1. /\ DOMAIN sdhc' = SdhcFields /\ sdhc'.stage = "idle" /\ sdhc'.type = sdhc.type
        /\ sdhc'.unaligned = "idle" /\ sdhc'.phase = sdhc.phase /\ sdhc'.count = sdhc.count
        /\ sdhc'.length = sdhc.length /\ sdhc'.out = FALSE /\ sdhc'.status = sdhc.status
        /\ sdhc'.skipped = sdhc.skipped /\ sdhc'.broken = sdhc.broken
    BY <1>2 DEF SdhcResetHost, SdhcInv, SdhcTyped, SdhcFields
  <2> QED
    BY <2>1 DEF SdhcInv, SdhcTyped, SdhcBlocks, SdhcTail
<1> QED
  BY <1>1, <1>2

\* The interrupt, the card and the controller.
LEMMA SdhcControllerKept ==
  ASSUME SdhcInv, SdhcSlotInterrupt \/ SdhcResponds \/ SdhcBlock \/ SdhcSent \/ SdhcDone \/ SdhcError
  PROVE  SdhcInv'
<1>1. CASE SdhcSlotInterrupt
  BY <1>1, SdhcKept DEF SdhcSlotInterrupt, SdhcInv, SdhcTyped, SdhcFields
<1>2. CASE SdhcBlock
  BY <1>2, SdhcKept DEF SdhcBlock, SdhcInv, SdhcTyped, SdhcFields
<1>3. CASE SdhcSent
  BY <1>3, SdhcKept DEF SdhcSent, SdhcInv, SdhcTyped, SdhcFields
<1>4. CASE SdhcResponds
  BY <1>4, SdhcKept DEF SdhcResponds, SdhcInv, SdhcTyped, SdhcFields
<1>5. CASE SdhcDone
  BY <1>5, SdhcKept DEF SdhcDone, SdhcInv, SdhcTyped, SdhcFields
<1>6. CASE SdhcError
  BY <1>6, SdhcKept DEF SdhcError, SdhcInv, SdhcTyped, SdhcFields
<1> QED
  BY <1>1, <1>2, <1>3, <1>6, <1>4, <1>5

\* Every step of the driver of the Arasan host keeps the invariant.
LEMMA SdhcStep == SdhcInv /\ [SdhcNext]_sdhc => SdhcInv'
<1> SUFFICES ASSUME SdhcInv, [SdhcNext]_sdhc PROVE SdhcInv'
  OBVIOUS
<1>1. CASE UNCHANGED sdhc
  BY <1>1 DEF SdhcInv, SdhcTyped, SdhcBlocks, SdhcTail
<1> QED
  BY <1>1, SdportPreparesKept, SlotIssueRequestKept, SdhcRequestDpcKept, SdhcGivenUpKept,
     SdhcControllerKept
     DEF SdhcNext, SdhcHandling

\* The invariant gives the driver's assertions.
LEMMA SdhcInvGives == SdhcInv => SdhcAssertionsHold
BY DEF SdhcInv, SdhcTail, SdhcAssertionsHold

-----------------------------------------------------------------------------
(* The Pi's own SD host.                                                   *)

\* The fields of the driver's state.
SdFields == {"dump", "stage", "follow", "type", "multi", "select", "count", "blocks", "required", "status",
             "out", "doIo", "lock", "worker", "result", "shutdown", "reset", "hsts", "dataEn", "busyEn",
             "events", "dataDue", "busyDue", "erred", "moved", "last", "twice", "stale"}

\* No event is there or to come that would run the DPC.
SdQuiet == sd.events = {} /\ ~sd.busyDue /\ "busy" \notin sd.hsts /\ ~sd.dataEn

\* The types the proof needs.
SdTyped ==
  /\ DOMAIN sd = SdFields
  /\ sd.stage \in {"idle", "issued", "expired", "failed"}
  /\ sd.worker \in {"wait", "lock", "block", "stop", "done", "release", "ended"}
  /\ sd.type \in {"command", "busy", "read", "write", "transfer"}
  /\ sd.lock \in {"none", "worker"} /\ sd.reset \in {"none", "command", "data"}
  /\ sd.hsts \subseteq {"data", "busy"} \cup SdErrors /\ sd.events \subseteq {"data", "busy"} \cup SdErrors

\* Who has the request: Sdport's call, the worker, or a reset.
SdWork ==
  /\ ~sd.twice /\ ~sd.stale
  /\ (sd.out \/ sd.worker \in SdWorking) => sd.stage \in {"issued", "expired"} /\ SdQuiet /\ sd.type = "transfer"
  /\ sd.out => sd.reset # "data" /\ sd.worker \notin SdWorking
  /\ sd.worker = "stop" => sd.multi
  /\ sd.worker = "done" => ~sd.multi
  /\ sd.worker \in SdWorking \cup {"release"} => IF sd.dump THEN sd.reset = "none" ELSE sd.lock = "worker"
  /\ sd.dump => sd.worker \notin {"lock", "ended"} /\ ~sd.out /\ ~sd.doIo /\ sd.lock = "none" /\ ~sd.shutdown
  /\ sd.reset # "none" => sd.stage \in {"expired", "failed"}
  /\ sd.follow => sd.stage = "idle" /\ SdQuiet /\ sd.required = {}

\* No event comes without a request, and with one only those it waits for.
SdEvents ==
  /\ sd.stage = "idle" =>
       /\ sd.events = {} /\ ~sd.busyDue /\ "busy" \notin sd.hsts
       /\ sd.dataEn => "data" \notin sd.hsts /\ ~sd.dataDue
  /\ sd.stage = "issued" =>
       /\ sd.type # "command"
       /\ sd.busyDue => "busy" \notin sd.hsts \cup sd.events
       /\ "busy" \in sd.events => "busy" \notin sd.hsts
       /\ sd.type \in {"read", "write"} =>
            /\ sd.required = {"data"} /\ ~sd.busyDue /\ "busy" \notin sd.hsts \cup sd.events
            /\ sd.events # {} => "data" \in sd.events /\ ~sd.dataEn
       /\ sd.type = "busy" =>
            /\ sd.required = {"busy"} /\ (sd.dataEn => "data" \notin sd.hsts /\ ~sd.dataDue)
            /\ sd.events # {} => "busy" \in sd.events
       /\ sd.type = "transfer" =>
            /\ ~sd.dataEn
            /\ sd.multi => sd.required = {"busy"} /\ (sd.events # {} => "busy" \in sd.events)
            /\ sd.out \/ sd.worker \in SdWorking \/ sd.multi

\* The invariant: with its events in order nobody completes a request the worker has.
SdInv == SdTyped /\ SdWork /\ SdEvents

\* The driver starts in the invariant.
LEMMA SdInitially == SdInit => SdInv
BY DEF SdInit, SdInv, SdTyped, SdWork, SdEvents, SdQuiet, SdFields, SdWorking, SdErrors

\* The interrupt hands its events to the DPC.
LEMMA sdhcInterruptKept == ASSUME SdInv, sdhcInterrupt PROVE SdInv'
<1>1. /\ (sd.dataEn /\ "data" \in sd.hsts) \/ "busy" \in sd.hsts
      /\ DOMAIN sd' = SdFields /\ sd'.dump = sd.dump /\ sd'.stage = sd.stage
      /\ sd'.follow = sd.follow /\ sd'.type = sd.type /\ sd'.multi = sd.multi
      /\ sd'.required = sd.required /\ sd'.out = sd.out /\ sd'.doIo = sd.doIo
      /\ sd'.lock = sd.lock /\ sd'.worker = sd.worker /\ sd'.shutdown = sd.shutdown
      /\ sd'.reset = sd.reset /\ sd'.dataDue = sd.dataDue /\ sd'.busyDue = sd.busyDue
      /\ sd'.twice = sd.twice /\ sd'.stale = sd.stale
      /\ sd'.dataEn = (sd.dataEn /\ "data" \notin sd.hsts) /\ sd'.events = sd.events \cup sd.hsts
      /\ sd'.hsts = sd.hsts \cap {"data"}
  BY DEF sdhcInterrupt, SdInv, SdTyped, SdFields
<1>2. SdTyped'
  BY <1>1 DEF SdInv, SdTyped, SdErrors
<1>3. SdWork'
  BY <1>1 DEF SdInv, SdTyped, SdWork, SdEvents, SdQuiet, SdWorking
<1>4. SdEvents'
  BY <1>1 DEF SdInv, SdTyped, SdWork, SdEvents, SdQuiet, SdWorking
<1> QED
  BY <1>2, <1>3, <1>4 DEF SdInv

\* The worker takes the request, under the lock.
LEMMA transferWorkerTakesKept == ASSUME SdInv, transferWorkerTakes PROVE SdInv'
<1>1. /\ sd.worker = "lock" /\ sd.lock = "none"
      /\ DOMAIN sd' = SdFields /\ sd'.dump = sd.dump /\ sd'.stage = sd.stage
      /\ sd'.follow = sd.follow /\ sd'.type = sd.type /\ sd'.multi = sd.multi
      /\ sd'.required = sd.required /\ sd'.doIo = sd.doIo /\ sd'.shutdown = sd.shutdown
      /\ sd'.reset = sd.reset /\ sd'.hsts = sd.hsts /\ sd'.dataEn = sd.dataEn
      /\ sd'.events = sd.events /\ sd'.dataDue = sd.dataDue /\ sd'.busyDue = sd.busyDue
      /\ sd'.twice = sd.twice /\ sd'.stale = sd.stale
      /\ sd'.out = IF sd.out THEN FALSE ELSE sd.out
      /\ sd'.lock = IF sd.out THEN "worker" ELSE sd.lock
      /\ sd'.worker = IF sd.out THEN "block" ELSE "wait"
  BY DEF transferWorkerTakes, SdInv, SdTyped, SdFields
<1>2. SdTyped'
  BY <1>1 DEF SdInv, SdTyped, SdErrors
<1>3. SdWork'
  BY <1>1 DEF SdInv, SdTyped, SdWork, SdEvents, SdQuiet, SdWorking
<1>4. SdEvents'
  BY <1>1 DEF SdInv, SdTyped, SdWork, SdEvents, SdQuiet, SdWorking
<1> QED
  BY <1>2, <1>3, <1>4 DEF SdInv

\* The worker releases the lock.
LEMMA transferWorkerReleasesKept == ASSUME SdInv, transferWorkerReleases PROVE SdInv'
<1>1. /\ sd.worker = "release"
      /\ DOMAIN sd' = SdFields /\ sd'.dump = sd.dump /\ sd'.stage = sd.stage
      /\ sd'.follow = sd.follow /\ sd'.type = sd.type /\ sd'.multi = sd.multi
      /\ sd'.required = sd.required /\ sd'.out = sd.out /\ sd'.doIo = sd.doIo
      /\ sd'.shutdown = sd.shutdown /\ sd'.reset = sd.reset /\ sd'.hsts = sd.hsts
      /\ sd'.dataEn = sd.dataEn /\ sd'.events = sd.events /\ sd'.dataDue = sd.dataDue
      /\ sd'.busyDue = sd.busyDue /\ sd'.twice = sd.twice /\ sd'.stale = sd.stale
      /\ sd'.worker = "wait" /\ sd'.lock = "none"
  BY DEF transferWorkerReleases, SdInv, SdTyped, SdFields, SdFreed
<1>2. SdTyped'
  BY <1>1 DEF SdInv, SdTyped, SdErrors
<1>3. SdWork'
  BY <1>1 DEF SdInv, SdTyped, SdWork, SdEvents, SdQuiet, SdWorking
<1>4. SdEvents'
  BY <1>1 DEF SdInv, SdTyped, SdWork, SdEvents, SdQuiet, SdWorking
<1> QED
  BY <1>2, <1>3, <1>4 DEF SdInv

\* The driver is unloaded.
LEMMA sdhcCleanupKept == ASSUME SdInv, sdhcCleanup PROVE SdInv'
<1>1. /\ sd.stage = "idle" /\ ~sd.dump
      /\ DOMAIN sd' = SdFields /\ sd'.dump = sd.dump /\ sd'.stage = sd.stage
      /\ sd'.follow = sd.follow /\ sd'.type = sd.type /\ sd'.multi = sd.multi
      /\ sd'.required = sd.required /\ sd'.out = sd.out /\ sd'.doIo = sd.doIo
      /\ sd'.lock = sd.lock /\ sd'.worker = sd.worker /\ sd'.reset = sd.reset
      /\ sd'.hsts = sd.hsts /\ sd'.dataEn = sd.dataEn /\ sd'.events = sd.events
      /\ sd'.dataDue = sd.dataDue /\ sd'.busyDue = sd.busyDue /\ sd'.twice = sd.twice
      /\ sd'.stale = sd.stale /\ sd'.shutdown = TRUE
  BY DEF sdhcCleanup, SdInv, SdTyped, SdFields
<1>2. SdTyped'
  BY <1>1 DEF SdInv, SdTyped, SdErrors
<1>3. SdWork'
  BY <1>1 DEF SdInv, SdTyped, SdWork, SdEvents, SdQuiet, SdWorking
<1>4. SdEvents'
  BY <1>1 DEF SdInv, SdTyped, SdWork, SdEvents, SdQuiet, SdWorking
<1> QED
  BY <1>2, <1>3, <1>4 DEF SdInv

\* Sdport gives the request up.
LEMMA SdportTimeoutKept == ASSUME SdInv, SdportTimeout PROVE SdInv'
<1>1. /\ sd.stage = "issued" /\ sd.reset = "none" /\ (sd.dump => sd.worker = "wait")
      /\ DOMAIN sd' = SdFields /\ sd'.dump = sd.dump /\ sd'.follow = sd.follow
      /\ sd'.type = sd.type /\ sd'.multi = sd.multi /\ sd'.required = sd.required
      /\ sd'.out = sd.out /\ sd'.doIo = sd.doIo /\ sd'.lock = sd.lock /\ sd'.worker = sd.worker
      /\ sd'.shutdown = sd.shutdown /\ sd'.reset = sd.reset /\ sd'.hsts = sd.hsts
      /\ sd'.dataEn = sd.dataEn /\ sd'.events = sd.events /\ sd'.dataDue = sd.dataDue
      /\ sd'.busyDue = sd.busyDue /\ sd'.twice = sd.twice /\ sd'.stale = sd.stale
      /\ sd'.stage = "expired"
  BY DEF SdportTimeout, SdInv, SdTyped, SdFields
<1>2. SdTyped'
  BY <1>1 DEF SdInv, SdTyped, SdErrors
<1>3. SdWork'
  BY <1>1 DEF SdInv, SdTyped, SdWork, SdEvents, SdQuiet, SdWorking
<1>4. SdEvents'
  BY <1>1 DEF SdInv, SdTyped, SdWork, SdEvents, SdQuiet, SdWorking
<1> QED
  BY <1>2, <1>3, <1>4 DEF SdInv

\* Sdport turns its events off before the reset.
LEMMA sdhcToggleEventsKept == ASSUME SdInv, sdhcToggleEvents PROVE SdInv'
<1>1. /\ sd.stage \in {"expired", "failed"} /\ sd.reset = "none" /\ (sd.dump => sd.worker = "wait")
      /\ DOMAIN sd' = SdFields /\ sd'.dump = sd.dump /\ sd'.stage = sd.stage
      /\ sd'.follow = sd.follow /\ sd'.type = sd.type /\ sd'.multi = sd.multi
      /\ sd'.required = sd.required /\ sd'.out = sd.out /\ sd'.doIo = sd.doIo
      /\ sd'.lock = sd.lock /\ sd'.worker = sd.worker /\ sd'.shutdown = sd.shutdown
      /\ sd'.hsts = sd.hsts /\ sd'.dataEn = sd.dataEn /\ sd'.dataDue = sd.dataDue
      /\ sd'.busyDue = sd.busyDue /\ sd'.twice = sd.twice /\ sd'.stale = sd.stale
      /\ sd'.events = {} /\ sd'.reset = "command"
  BY DEF sdhcToggleEvents, SdInv, SdTyped, SdFields
<1>2. SdTyped'
  BY <1>1 DEF SdInv, SdTyped, SdErrors
<1>3. SdWork'
  BY <1>1 DEF SdInv, SdTyped, SdWork, SdEvents, SdQuiet, SdWorking
<1>4. SdEvents'
  BY <1>1 DEF SdInv, SdTyped, SdWork, SdEvents, SdQuiet, SdWorking
<1> QED
  BY <1>2, <1>3, <1>4 DEF SdInv

\* The reset of the command line takes back a request the worker has not taken.
LEMMA resetHostCommandKept == ASSUME SdInv, resetHostCommand PROVE SdInv'
<1>1. /\ sd.reset = "command" /\ sd.lock = "none"
      /\ DOMAIN sd' = SdFields /\ sd'.dump = sd.dump /\ sd'.stage = sd.stage
      /\ sd'.follow = sd.follow /\ sd'.type = sd.type /\ sd'.multi = sd.multi
      /\ sd'.required = sd.required /\ sd'.doIo = sd.doIo /\ sd'.lock = sd.lock
      /\ sd'.worker = sd.worker /\ sd'.shutdown = sd.shutdown /\ sd'.dataEn = sd.dataEn
      /\ sd'.events = sd.events /\ sd'.dataDue = sd.dataDue /\ sd'.busyDue = sd.busyDue
      /\ sd'.twice = sd.twice /\ sd'.stale = sd.stale /\ sd'.out = FALSE
      /\ sd'.hsts \subseteq sd.hsts \ {"busy"} /\ sd'.reset = "data"
  BY DEF resetHostCommand, SdInv, SdTyped, SdFields, ResetTakes
<1>2. SdTyped'
  BY <1>1 DEF SdInv, SdTyped, SdErrors
<1>3. SdWork'
  BY <1>1 DEF SdInv, SdTyped, SdWork, SdEvents, SdQuiet, SdWorking
<1>4. SdEvents'
  BY <1>1 DEF SdInv, SdTyped, SdWork, SdEvents, SdQuiet, SdWorking
<1> QED
  BY <1>2, <1>3, <1>4 DEF SdInv

\* The reset of the data line; Sdport ends the request after it.
LEMMA resetHostDataKept == ASSUME SdInv, resetHostData PROVE SdInv'
<1>1. /\ sd.reset = "data" /\ sd.lock = "none"
      /\ DOMAIN sd' = SdFields /\ sd'.dump = sd.dump /\ sd'.type = sd.type /\ sd'.multi = sd.multi
      /\ sd'.required = sd.required /\ sd'.doIo = sd.doIo /\ sd'.lock = sd.lock
      /\ sd'.worker = sd.worker /\ sd'.shutdown = sd.shutdown /\ sd'.dataEn = sd.dataEn
      /\ sd'.twice = sd.twice /\ sd'.stale = sd.stale /\ sd'.out = FALSE
      /\ sd'.hsts = sd.hsts \ {"data", "busy"} /\ sd'.dataDue = FALSE /\ sd'.busyDue = FALSE
      /\ sd'.events = {} /\ sd'.reset = "none" /\ sd'.stage = "idle" /\ sd'.follow = FALSE
  BY DEF resetHostData, SdInv, SdTyped, SdFields, ResetTakes
<1>2. SdTyped'
  BY <1>1 DEF SdInv, SdTyped, SdErrors
<1>3. SdWork'
  BY <1>1 DEF SdInv, SdTyped, SdWork, SdEvents, SdQuiet, SdWorking
<1>4. SdEvents'
  BY <1>1 DEF SdInv, SdTyped, SdWork, SdEvents, SdQuiet, SdWorking
<1> QED
  BY <1>2, <1>3, <1>4 DEF SdInv

\* The card has data, or room for it.
LEMMA SdCardDataKept == ASSUME SdInv, SdCardData PROVE SdInv'
<1>1. /\ sd.dataDue
      /\ DOMAIN sd' = SdFields /\ sd'.dump = sd.dump /\ sd'.stage = sd.stage
      /\ sd'.follow = sd.follow /\ sd'.type = sd.type /\ sd'.multi = sd.multi
      /\ sd'.required = sd.required /\ sd'.out = sd.out /\ sd'.doIo = sd.doIo
      /\ sd'.lock = sd.lock /\ sd'.worker = sd.worker /\ sd'.shutdown = sd.shutdown
      /\ sd'.reset = sd.reset /\ sd'.dataEn = sd.dataEn /\ sd'.events = sd.events
      /\ sd'.dataDue = sd.dataDue /\ sd'.busyDue = sd.busyDue /\ sd'.twice = sd.twice
      /\ sd'.stale = sd.stale /\ sd'.hsts = sd.hsts \cup {"data"}
  BY DEF SdCardData, SdInv, SdTyped, SdFields
<1>2. SdTyped'
  BY <1>1 DEF SdInv, SdTyped, SdErrors
<1>3. SdWork'
  BY <1>1 DEF SdInv, SdTyped, SdWork, SdEvents, SdQuiet, SdWorking
<1>4. SdEvents'
  BY <1>1 DEF SdInv, SdTyped, SdWork, SdEvents, SdQuiet, SdWorking
<1> QED
  BY <1>2, <1>3, <1>4 DEF SdInv

\* The card is no longer busy.
LEMMA SdCardReadyKept == ASSUME SdInv, SdCardReady PROVE SdInv'
<1>1. /\ sd.busyDue
      /\ DOMAIN sd' = SdFields /\ sd'.dump = sd.dump /\ sd'.stage = sd.stage
      /\ sd'.follow = sd.follow /\ sd'.type = sd.type /\ sd'.multi = sd.multi
      /\ sd'.required = sd.required /\ sd'.out = sd.out /\ sd'.doIo = sd.doIo
      /\ sd'.lock = sd.lock /\ sd'.worker = sd.worker /\ sd'.shutdown = sd.shutdown
      /\ sd'.reset = sd.reset /\ sd'.dataEn = sd.dataEn /\ sd'.events = sd.events
      /\ sd'.dataDue = sd.dataDue /\ sd'.twice = sd.twice /\ sd'.stale = sd.stale
      /\ sd'.hsts = sd.hsts \cup {"busy"} /\ sd'.busyDue = FALSE
  BY DEF SdCardReady, SdInv, SdTyped, SdFields
<1>2. SdTyped'
  BY <1>1 DEF SdInv, SdTyped, SdErrors
<1>3. SdWork'
  BY <1>1 DEF SdInv, SdTyped, SdWork, SdEvents, SdQuiet, SdWorking
<1>4. SdEvents'
  BY <1>1 DEF SdInv, SdTyped, SdWork, SdEvents, SdQuiet, SdWorking
<1> QED
  BY <1>2, <1>3, <1>4 DEF SdInv

\* The worker wakes up and waits for the lock.
LEMMA transferWorkerWakesKept == ASSUME SdInv, transferWorkerWakes PROVE SdInv'
<1>1. /\ sd.worker = "wait" /\ (sd.doIo \/ sd.shutdown)
      /\ DOMAIN sd' = SdFields /\ sd'.dump = sd.dump /\ sd'.stage = sd.stage
      /\ sd'.follow = sd.follow /\ sd'.type = sd.type /\ sd'.multi = sd.multi
      /\ sd'.required = sd.required /\ sd'.out = sd.out /\ sd'.lock = sd.lock
      /\ sd'.shutdown = sd.shutdown /\ sd'.reset = sd.reset /\ sd'.hsts = sd.hsts
      /\ sd'.dataEn = sd.dataEn /\ sd'.events = sd.events /\ sd'.dataDue = sd.dataDue
      /\ sd'.busyDue = sd.busyDue /\ sd'.twice = sd.twice /\ sd'.stale = sd.stale
      /\ sd'.doIo = IF sd.doIo THEN FALSE ELSE sd.doIo
      /\ sd'.worker = IF sd.doIo THEN "lock" ELSE "ended"
  BY DEF transferWorkerWakes, SdInv, SdTyped, SdFields
<1>2. SdTyped'
  BY <1>1 DEF SdInv, SdTyped, SdErrors
<1>3. SdWork'
  BY <1>1 DEF SdInv, SdTyped, SdWork, SdEvents, SdQuiet, SdWorking
<1>4. SdEvents'
  BY <1>1 DEF SdInv, SdTyped, SdWork, SdEvents, SdQuiet, SdWorking
<1> QED
  BY <1>2, <1>3, <1>4 DEF SdInv

\* The card or the bus has an error.
LEMMA SdCardErrorKept == ASSUME SdInv, SdCardError PROVE SdInv'
<1>1. PICK e \in SdErrors : sd' = [sd EXCEPT !.hsts = @ \cup {e}, !.erred = TRUE]
  BY DEF SdCardError
<1>2. /\ DOMAIN sd' = SdFields /\ sd'.dump = sd.dump /\ sd'.stage = sd.stage
      /\ sd'.follow = sd.follow /\ sd'.type = sd.type /\ sd'.multi = sd.multi
      /\ sd'.required = sd.required /\ sd'.out = sd.out /\ sd'.doIo = sd.doIo
      /\ sd'.lock = sd.lock /\ sd'.worker = sd.worker /\ sd'.shutdown = sd.shutdown
      /\ sd'.reset = sd.reset /\ sd'.dataEn = sd.dataEn /\ sd'.events = sd.events
      /\ sd'.dataDue = sd.dataDue /\ sd'.busyDue = sd.busyDue /\ sd'.twice = sd.twice
      /\ sd'.stale = sd.stale /\ sd'.hsts = sd.hsts \cup {e}
  BY <1>1 DEF SdInv, SdTyped, SdFields
<1>3. SdTyped'
  BY <1>2 DEF SdInv, SdTyped
<1>4. SdWork'
  BY <1>2 DEF SdInv, SdTyped, SdWork, SdQuiet, SdErrors
<1>5. SdEvents'
  BY <1>2 DEF SdInv, SdTyped, SdEvents, SdErrors
<1> QED
  BY <1>3, <1>4, <1>5 DEF SdInv

\* What c is after the request of s was completed with a status.
SdCompleted(s, status, c) ==
  /\ DOMAIN c = SdFields /\ c.dump = s.dump /\ c.type = s.type /\ c.multi = s.multi
  /\ c.required = s.required /\ c.out = s.out /\ c.doIo = s.doIo /\ c.lock = s.lock
  /\ c.worker = s.worker /\ c.shutdown = s.shutdown /\ c.reset = s.reset /\ c.hsts = s.hsts
  /\ c.dataEn = s.dataEn /\ c.events = s.events /\ c.dataDue = s.dataDue
  /\ c.busyDue = s.busyDue /\ c.stale = s.stale
  /\ c.twice <=> (s.twice \/ s.stage \in {"idle", "failed"})
  /\ (s.stage = "issued" /\ status = "success") => c.stage = "idle"
  /\ (s.stage = "issued" /\ status # "success") => c.stage = "failed"
  /\ s.stage # "issued" => c.stage = s.stage
  /\ c.follow <=> (s.stage = "issued" /\ s.type \in {"read", "write"} /\ status = "success")

\* SdPortCompleteRequest, for Sdport's own state.
LEMMA completeRequestFields ==
  ASSUME NEW s, DOMAIN s = SdFields, NEW status, NEW c, c = completeRequest(s, status)
  PROVE  SdCompleted(s, status, c)
<1>1. PICK g, l :
        /\ g = CASE s.stage = "issued" /\ status = "success" -> "idle"
                 [] s.stage = "issued" /\ status # "success" -> "failed"
                 [] OTHER -> s.stage
        /\ l = IF s.type = "transfer" /\ s.stage = "issued" THEN status ELSE "none"
  OBVIOUS
<1>2. PICK f \in BOOLEAN : f = (s.stage = "issued" /\ s.type \in {"read", "write"} /\ status = "success")
  OBVIOUS
<1>3. c = [s EXCEPT !.status = status, !.twice = s.twice \/ s.stage \in {"idle", "failed"},
                    !.stage = g, !.follow = f, !.last = l]
  BY <1>1, <1>2 DEF completeRequest, SdFields
<1>4. /\ DOMAIN c = SdFields /\ c.dump = s.dump /\ c.type = s.type /\ c.multi = s.multi
      /\ c.required = s.required /\ c.out = s.out /\ c.doIo = s.doIo /\ c.lock = s.lock
      /\ c.worker = s.worker /\ c.shutdown = s.shutdown /\ c.reset = s.reset /\ c.hsts = s.hsts
      /\ c.dataEn = s.dataEn /\ c.events = s.events /\ c.dataDue = s.dataDue
      /\ c.busyDue = s.busyDue /\ c.stale = s.stale
  BY <1>3 DEF SdFields
<1>5. /\ c.twice <=> (s.twice \/ s.stage \in {"idle", "failed"})
      /\ c.stage = g /\ c.follow = f
  BY <1>3 DEF SdFields
<1> QED
  BY <1>1, <1>2, <1>4, <1>5 DEF SdCompleted

\* A transfer is handed to the worker, or made at once in crash dump mode.
LEMMA startTransferPioKept == ASSUME SdInv, startTransferPio PROVE SdInv'
<1>1. /\ sd.stage = "idle" /\ sd.follow /\ SdQuiet /\ ~sd.out /\ sd.worker \notin SdWorking
      /\ sd.required = {} /\ sd.reset = "none"
  BY DEF startTransferPio, SdInv, SdTyped, SdWork
<1>2. PICK s : s = [sd EXCEPT !.follow = FALSE, !.stage = "issued", !.type = "transfer",
                              !.required = IF sd.multi THEN @ \cup {"busy"} ELSE @]
  OBVIOUS
<1>3. s.dump = sd.dump /\ s.out = sd.out /\ DOMAIN s = SdFields
  BY <1>2 DEF SdInv, SdTyped, SdFields
<1>4. sd' = IF s.dump THEN [s EXCEPT !.worker = "block"] ELSE [s EXCEPT !.out = TRUE, !.doIo = TRUE]
  BY <1>1, <1>2, <1>3 DEF startTransferPio
<1>5. /\ DOMAIN sd' = SdFields /\ sd'.dump = sd.dump /\ sd'.multi = sd.multi /\ sd'.lock = sd.lock
      /\ sd'.shutdown = sd.shutdown /\ sd'.reset = sd.reset /\ sd'.hsts = sd.hsts
      /\ sd'.dataEn = sd.dataEn /\ sd'.events = sd.events /\ sd'.dataDue = sd.dataDue
      /\ sd'.busyDue = sd.busyDue /\ sd'.twice = sd.twice /\ sd'.stale = sd.stale
      /\ sd'.stage = "issued" /\ sd'.follow = FALSE /\ sd'.type = "transfer"
      /\ sd'.required = IF sd.multi THEN {"busy"} ELSE {}
      /\ IF sd.dump THEN sd'.out = sd.out /\ sd'.doIo = sd.doIo /\ sd'.worker = "block"
         ELSE sd'.out = TRUE /\ sd'.doIo = TRUE /\ sd'.worker = sd.worker
  <2>1. CASE sd.dump
    BY <1>1, <1>2, <1>3, <1>4, <2>1 DEF SdInv, SdTyped, SdFields
  <2>2. CASE ~sd.dump
    BY <1>1, <1>2, <1>3, <1>4, <2>2 DEF SdInv, SdTyped, SdFields
  <2> QED
    BY <2>1, <2>2
<1>6. SdTyped'
  BY <1>5 DEF SdInv, SdTyped
<1>7. CASE sd.dump
  <2>1. SdWork'
    BY <1>1, <1>5, <1>7 DEF SdInv, SdTyped, SdWork, SdQuiet, SdWorking
  <2>2. SdEvents'
    BY <1>1, <1>5, <1>7 DEF SdEvents, SdQuiet, SdWorking
  <2> QED
    BY <1>6, <2>1, <2>2 DEF SdInv
<1>8. CASE ~sd.dump
  <2>1. SdWork'
    BY <1>1, <1>5, <1>8 DEF SdInv, SdTyped, SdWork, SdQuiet, SdWorking
  <2>2. SdEvents'
    BY <1>1, <1>5, <1>8, SMTT(30) DEF SdEvents, SdQuiet, SdWorking
  <2> QED
    BY <1>6, <2>1, <2>2 DEF SdInv
<1> QED
  BY <1>7, <1>8

\* The worker moves a block.
LEMMA transferSingleBlockPioKept == ASSUME SdInv, transferSingleBlockPio PROVE SdInv'
<1>1. PICK s, t : /\ sd' = AfterBlock(s, t) /\ sd.worker = "block"
                  /\ DOMAIN s = SdFields /\ s.dump = sd.dump /\ s.stage = sd.stage /\ s.follow = sd.follow
                     /\ s.type = sd.type /\ s.multi = sd.multi /\ s.required = sd.required /\ s.out = sd.out
                     /\ s.doIo = sd.doIo /\ s.lock = sd.lock /\ s.worker = sd.worker /\ s.shutdown = sd.shutdown
                     /\ s.reset = sd.reset /\ s.dataEn = sd.dataEn /\ s.events = sd.events
                     /\ s.busyDue = sd.busyDue /\ s.twice = sd.twice /\ s.stale = sd.stale
                  /\ s.hsts \subseteq (sd.hsts \cup SdErrors)
  <2>1. PICK moves : moves = [sd EXCEPT !.moved = @ + 1, !.hsts = @ \ {"data"},
                                        !.dataDue = @ /\ sd.multi]
    OBVIOUS
  <2>2. /\ DOMAIN moves = SdFields /\ moves.dump = sd.dump /\ moves.stage = sd.stage
        /\ moves.follow = sd.follow /\ moves.type = sd.type /\ moves.multi = sd.multi
        /\ moves.required = sd.required /\ moves.out = sd.out /\ moves.doIo = sd.doIo
        /\ moves.lock = sd.lock /\ moves.worker = sd.worker /\ moves.shutdown = sd.shutdown
        /\ moves.reset = sd.reset /\ moves.dataEn = sd.dataEn /\ moves.events = sd.events
        /\ moves.busyDue = sd.busyDue /\ moves.twice = sd.twice /\ moves.stale = sd.stale
        /\ moves.hsts = sd.hsts \ {"data"}
    BY <2>1 DEF SdInv, SdTyped, SdFields
  <2>3. CASE \E t : sd' = AfterBlock(sd, t)
    BY <2>3 DEF transferSingleBlockPio, SdInv, SdTyped
  <2>4. CASE sd' = AfterBlock(OneLess(moves), "success")
    <3>1. /\ DOMAIN OneLess(moves) = SdFields /\ OneLess(moves).dump = sd.dump
          /\ OneLess(moves).stage = sd.stage /\ OneLess(moves).follow = sd.follow
          /\ OneLess(moves).type = sd.type /\ OneLess(moves).multi = sd.multi
          /\ OneLess(moves).required = sd.required /\ OneLess(moves).out = sd.out
          /\ OneLess(moves).doIo = sd.doIo /\ OneLess(moves).lock = sd.lock
          /\ OneLess(moves).worker = sd.worker /\ OneLess(moves).shutdown = sd.shutdown
          /\ OneLess(moves).reset = sd.reset /\ OneLess(moves).dataEn = sd.dataEn
          /\ OneLess(moves).events = sd.events /\ OneLess(moves).busyDue = sd.busyDue
          /\ OneLess(moves).twice = sd.twice /\ OneLess(moves).stale = sd.stale
          /\ OneLess(moves).hsts = moves.hsts
      BY <2>2 DEF OneLess, SdFields
    <3> QED
      BY <2>2, <2>4, <3>1 DEF transferSingleBlockPio
  <2>5. CASE \E e \in SdErrors : sd' = AfterBlock([moves EXCEPT !.hsts = @ \cup {e}], getErrorStatus({e}))
    <3>1. PICK e \in SdErrors : sd' = AfterBlock([moves EXCEPT !.hsts = @ \cup {e}], getErrorStatus({e}))
      BY <2>5
    <3>2. PICK s : s = [moves EXCEPT !.hsts = @ \cup {e}]
      OBVIOUS
    <3>3. /\ DOMAIN s = SdFields /\ s.dump = sd.dump /\ s.stage = sd.stage /\ s.follow = sd.follow
          /\ s.type = sd.type /\ s.multi = sd.multi /\ s.required = sd.required /\ s.out = sd.out
          /\ s.doIo = sd.doIo /\ s.lock = sd.lock /\ s.worker = sd.worker /\ s.shutdown = sd.shutdown
          /\ s.reset = sd.reset /\ s.dataEn = sd.dataEn /\ s.events = sd.events
          /\ s.busyDue = sd.busyDue /\ s.twice = sd.twice /\ s.stale = sd.stale
          /\ s.hsts = moves.hsts \cup {e}
      BY <2>2, <3>2 DEF SdFields
    <3>4. s.hsts \subseteq (sd.hsts \cup SdErrors)
      BY <2>2, <3>3
    <3>5. PICK t : t = getErrorStatus({e})
      OBVIOUS
    <3>6. sd' = AfterBlock(s, t) /\ sd.worker = "block"
      BY <3>1, <3>2, <3>5 DEF transferSingleBlockPio
    <3>7. /\ DOMAIN s = SdFields /\ s.dump = sd.dump /\ s.stage = sd.stage /\ s.follow = sd.follow
          /\ s.type = sd.type /\ s.multi = sd.multi /\ s.required = sd.required /\ s.out = sd.out
          /\ s.doIo = sd.doIo /\ s.lock = sd.lock /\ s.worker = sd.worker /\ s.shutdown = sd.shutdown
          /\ s.reset = sd.reset /\ s.dataEn = sd.dataEn /\ s.events = sd.events
          /\ s.busyDue = sd.busyDue /\ s.twice = sd.twice /\ s.stale = sd.stale
      BY <2>2, <3>3
    <3> QED
      BY <3>4, <3>6, <3>7
  <2> QED
    BY <2>1, <2>3, <2>4, <2>5 DEF transferSingleBlockPio
<1>2. /\ DOMAIN sd' = SdFields /\ sd'.dump = sd.dump /\ sd'.stage = sd.stage
      /\ sd'.follow = sd.follow /\ sd'.type = sd.type /\ sd'.multi = sd.multi
      /\ sd'.required = sd.required /\ sd'.out = sd.out /\ sd'.doIo = sd.doIo
      /\ sd'.lock = sd.lock /\ sd'.shutdown = sd.shutdown /\ sd'.reset = sd.reset
      /\ sd'.dataEn = sd.dataEn /\ sd'.events = sd.events /\ sd'.busyDue = sd.busyDue
      /\ sd'.twice = sd.twice /\ sd'.stale = sd.stale
      /\ sd'.worker \in SdWorking /\ (sd'.worker = "stop" => sd.multi) /\ (sd'.worker = "done" => ~sd.multi)
      /\ sd'.hsts \subseteq (sd.hsts \cup SdErrors)
  BY <1>1 DEF AfterBlock, SdFields, SdWorking
<1>3. sd.stage \in {"issued", "expired"} /\ SdQuiet /\ sd.type = "transfer" /\ ~sd.out
  BY <1>1 DEF SdInv, SdWork, SdWorking
<1>4. SdQuiet'
  BY <1>2, <1>3 DEF SdQuiet, SdErrors
<1>5. SdTyped'
  BY <1>2 DEF SdInv, SdTyped, SdErrors, SdWorking
<1>6. SdWork'
  BY <1>1, <1>2, <1>3, <1>4 DEF SdInv, SdTyped, SdWork, SdWorking
<1>7. SdEvents'
  BY <1>1, <1>2, <1>3, <1>4 DEF SdInv, SdTyped, SdEvents, SdQuiet, SdWorking
<1> QED
  BY <1>5, <1>6, <1>7 DEF SdInv

\* What sending a command leaves of the state s, and its status: a pair p.
SdSent(s, transfer, busy, p) ==
  /\ DOMAIN p[1] = SdFields /\ p[1].dump = s.dump /\ p[1].stage = s.stage
  /\ p[1].follow = s.follow /\ p[1].type = s.type /\ p[1].multi = s.multi
  /\ p[1].required = s.required /\ p[1].out = s.out /\ p[1].doIo = s.doIo
  /\ p[1].lock = s.lock /\ p[1].worker = s.worker /\ p[1].shutdown = s.shutdown
  /\ p[1].reset = s.reset /\ p[1].dataEn = s.dataEn /\ p[1].events = s.events
  /\ p[1].twice = s.twice /\ p[1].stale = s.stale
  /\ p[1].hsts \subseteq s.hsts
  /\ p[2] \in {"success", "timeout"}
  /\ p[2] = "success" => p[1].dataDue = (transfer # "none") /\ p[1].busyDue = busy
  /\ p[2] = "timeout" => p[1].dataDue = s.dataDue /\ p[1].busyDue = s.busyDue

\* sendCommandInternal gives such pairs.
LEMMA sendCommandFields ==
  ASSUME NEW s, DOMAIN s = SdFields, NEW transfer, NEW busy, NEW p \in sendCommandInternal(s, transfer, busy)
  PROVE  SdSent(s, transfer, busy, p)
<1>1. PICK clean : clean = [s EXCEPT !.hsts = @ \ SdErrors]
  OBVIOUS
<1>2. PICK sent : sent = [clean EXCEPT !.dataDue = transfer # "none", !.busyDue = busy,
                                       !.hsts = IF transfer = "read" THEN @ \ {"data"} ELSE @]
  OBVIOUS
<1>3. p = <<s, "timeout">> \/ p = <<sent, "success">> \/ (p = <<clean, "timeout">> /\ transfer = "read")
  BY <1>1, <1>2 DEF sendCommandInternal
<1>4. SdSent(s, transfer, busy, <<s, "timeout">>)
  BY DEF SdSent
<1>5. transfer = "read" => SdSent(s, transfer, busy, <<clean, "timeout">>)
  BY <1>1 DEF SdSent, SdFields
<1>6. SdSent(s, transfer, busy, <<sent, "success">>)
  <2>1. /\ DOMAIN clean = SdFields /\ clean.dump = s.dump /\ clean.stage = s.stage
        /\ clean.follow = s.follow /\ clean.type = s.type /\ clean.multi = s.multi
        /\ clean.required = s.required /\ clean.out = s.out /\ clean.doIo = s.doIo
        /\ clean.lock = s.lock /\ clean.worker = s.worker /\ clean.shutdown = s.shutdown
        /\ clean.reset = s.reset /\ clean.dataEn = s.dataEn /\ clean.events = s.events
        /\ clean.twice = s.twice /\ clean.stale = s.stale
        /\ clean.hsts \subseteq s.hsts
    BY <1>1 DEF SdFields
  <2>2. /\ DOMAIN sent = SdFields /\ sent.dump = clean.dump /\ sent.stage = clean.stage
        /\ sent.follow = clean.follow /\ sent.type = clean.type /\ sent.multi = clean.multi
        /\ sent.required = clean.required /\ sent.out = clean.out /\ sent.doIo = clean.doIo
        /\ sent.lock = clean.lock /\ sent.worker = clean.worker /\ sent.shutdown = clean.shutdown
        /\ sent.reset = clean.reset /\ sent.dataEn = clean.dataEn /\ sent.events = clean.events
        /\ sent.twice = clean.twice /\ sent.stale = clean.stale
        /\ sent.hsts \subseteq clean.hsts /\ sent.dataDue = (transfer # "none") /\ sent.busyDue = busy
    BY <1>2, <2>1 DEF SdFields
  <2> QED
    BY <2>1, <2>2 DEF SdSent
<1> QED
  BY <1>3, <1>4, <1>5, <1>6

\* The worker stops a transfer of several blocks with CMD12.
LEMMA stopTransmissionKept == ASSUME SdInv, stopTransmission PROVE SdInv'
<1>1. PICK s, p : /\ s = [sd EXCEPT !.status = sd.result]
                  /\ p \in sendCommandInternal(s, "none", TRUE) /\ sd.worker = "stop"
                  /\ sd' = [p[1] EXCEPT !.worker = "release",
                                       !.stage = IF sd.dump /\ sd.result # "success" THEN "failed" ELSE @]
  BY DEF stopTransmission
<1>2. /\ DOMAIN s = SdFields /\ s.dump = sd.dump /\ s.stage = sd.stage /\ s.follow = sd.follow
      /\ s.type = sd.type /\ s.multi = sd.multi /\ s.required = sd.required /\ s.out = sd.out
      /\ s.doIo = sd.doIo /\ s.lock = sd.lock /\ s.worker = sd.worker /\ s.shutdown = sd.shutdown
      /\ s.reset = sd.reset /\ s.hsts = sd.hsts /\ s.dataEn = sd.dataEn /\ s.events = sd.events
      /\ s.dataDue = sd.dataDue /\ s.busyDue = sd.busyDue /\ s.twice = sd.twice
      /\ s.stale = sd.stale
  BY <1>1 DEF SdInv, SdTyped, SdFields
<1>3. /\ DOMAIN p[1] = SdFields /\ p[1].dump = s.dump /\ p[1].stage = s.stage
      /\ p[1].follow = s.follow /\ p[1].type = s.type /\ p[1].multi = s.multi
      /\ p[1].required = s.required /\ p[1].out = s.out /\ p[1].doIo = s.doIo
      /\ p[1].lock = s.lock /\ p[1].worker = s.worker /\ p[1].shutdown = s.shutdown
      /\ p[1].reset = s.reset /\ p[1].dataEn = s.dataEn /\ p[1].events = s.events
      /\ p[1].twice = s.twice /\ p[1].stale = s.stale
      /\ p[1].hsts \subseteq s.hsts
  <2>1. SdSent(s, "none", TRUE, p)
    BY <1>1, <1>2, sendCommandFields
  <2> QED
    BY <2>1 DEF SdSent
<1>4. /\ DOMAIN sd' = SdFields /\ sd'.dump = sd.dump /\ sd'.follow = sd.follow
      /\ sd'.type = sd.type /\ sd'.multi = sd.multi /\ sd'.required = sd.required
      /\ sd'.out = sd.out /\ sd'.doIo = sd.doIo /\ sd'.lock = sd.lock
      /\ sd'.shutdown = sd.shutdown /\ sd'.reset = sd.reset /\ sd'.dataEn = sd.dataEn
      /\ sd'.events = sd.events /\ sd'.twice = sd.twice /\ sd'.stale = sd.stale
      /\ sd'.worker = "release"
      /\ sd'.hsts \subseteq sd.hsts /\ sd'.stage \in {sd.stage, "failed"}
  BY <1>1, <1>2, <1>3 DEF SdFields
<1>5. sd.stage \in {"issued", "expired"} /\ SdQuiet /\ sd.type = "transfer" /\ ~sd.out /\ sd.multi
  BY <1>1 DEF SdInv, SdWork, SdWorking
<1>6. SdTyped'
  BY <1>4, <1>5 DEF SdInv, SdTyped
<1>7. SdWork'
  BY <1>1, <1>4, <1>5 DEF SdInv, SdTyped, SdWork, SdWorking
<1>8. SdEvents'
  BY <1>1, <1>4, <1>5 DEF SdInv, SdTyped, SdEvents, SdQuiet, SdWorking
<1> QED
  BY <1>6, <1>7, <1>8 DEF SdInv

\* The worker ends a transfer of one block.
LEMMA transferSingleBlockDoneKept == ASSUME SdInv, transferSingleBlockDone PROVE SdInv'
<1>1. PICK c : c = completeRequest(sd, sd.result) /\ sd' = [c EXCEPT !.worker = "release"]
  BY DEF transferSingleBlockDone
<1>2. sd.worker = "done"
  BY DEF transferSingleBlockDone
<1>3. sd.stage \in {"issued", "expired"} /\ SdQuiet /\ sd.type = "transfer" /\ ~sd.out /\ ~sd.multi /\ ~sd.twice
  BY <1>2 DEF SdInv, SdWork, SdWorking
<1>4. SdCompleted(sd, sd.result, c)
  BY <1>1, completeRequestFields DEF SdInv, SdTyped
<1>5. /\ DOMAIN c = SdFields /\ c.dump = sd.dump /\ c.type = sd.type /\ c.multi = sd.multi
      /\ c.required = sd.required /\ c.out = sd.out /\ c.doIo = sd.doIo /\ c.lock = sd.lock
      /\ c.worker = sd.worker /\ c.shutdown = sd.shutdown /\ c.reset = sd.reset
      /\ c.hsts = sd.hsts /\ c.dataEn = sd.dataEn /\ c.events = sd.events
      /\ c.dataDue = sd.dataDue /\ c.busyDue = sd.busyDue /\ c.stale = sd.stale
      /\ ~c.twice /\ ~c.follow /\ c.stage \in {"idle", "failed", "expired"}
      /\ sd.stage = "expired" => c.stage = "expired"
  BY <1>3, <1>4 DEF SdCompleted
<1>6. /\ DOMAIN sd' = SdFields /\ sd'.dump = sd.dump /\ sd'.type = sd.type /\ sd'.multi = sd.multi
      /\ sd'.required = sd.required /\ sd'.out = sd.out /\ sd'.doIo = sd.doIo
      /\ sd'.lock = sd.lock /\ sd'.shutdown = sd.shutdown /\ sd'.reset = sd.reset
      /\ sd'.hsts = sd.hsts /\ sd'.dataEn = sd.dataEn /\ sd'.events = sd.events
      /\ sd'.dataDue = sd.dataDue /\ sd'.busyDue = sd.busyDue /\ sd'.stale = sd.stale
      /\ sd'.worker = "release"
      /\ ~sd'.twice /\ ~sd'.follow /\ sd'.stage \in {"idle", "failed", "expired"}
      /\ sd'.stage = c.stage
  BY <1>1, <1>5 DEF SdFields
<1>7. SdTyped'
  BY <1>6 DEF SdInv, SdTyped
<1>8. SdWork'
  BY <1>2, <1>3, <1>5, <1>6 DEF SdInv, SdTyped, SdWork, SdWorking
<1>9. SdEvents'
  BY <1>3, <1>6 DEF SdInv, SdTyped, SdEvents, SdQuiet, SdWorking
<1> QED
  BY <1>7, <1>8, <1>9 DEF SdInv

\* The DPC completes a request when the events it requires are there, or an error.
LEMMA sdhcRequestDpcKept == ASSUME SdInv, sdhcRequestDpc PROVE SdInv'
<1>1. CASE sd.stage # "issued"
  <2>1. /\ DOMAIN sd' = SdFields /\ sd'.dump = sd.dump /\ sd'.stage = sd.stage
        /\ sd'.follow = sd.follow /\ sd'.type = sd.type /\ sd'.multi = sd.multi
        /\ sd'.required = sd.required /\ sd'.out = sd.out /\ sd'.doIo = sd.doIo
        /\ sd'.lock = sd.lock /\ sd'.worker = sd.worker /\ sd'.shutdown = sd.shutdown
        /\ sd'.reset = sd.reset /\ sd'.hsts = sd.hsts /\ sd'.dataEn = sd.dataEn
        /\ sd'.dataDue = sd.dataDue /\ sd'.busyDue = sd.busyDue /\ sd'.twice = sd.twice
        /\ sd'.stale = sd.stale /\ sd'.events = {}
    BY <1>1 DEF sdhcRequestDpc, SdInv, SdTyped, SdFields
  <2>2. SdTyped'
    BY <2>1 DEF SdInv, SdTyped
  <2>3. SdWork'
    BY <1>1, <2>1 DEF SdInv, SdTyped, SdWork, SdQuiet
  <2>4. SdEvents'
    BY <1>1, <2>1 DEF SdInv, SdTyped, SdEvents
  <2> QED
    BY <2>2, <2>3, <2>4 DEF SdInv
<1>2. CASE sd.stage = "issued"
  <2>1. sd.events # {} /\ ~sd.out /\ sd.worker \notin SdWorking /\ ~sd.follow /\ sd.reset = "none"
    BY <1>2 DEF sdhcRequestDpc, SdInv, SdWork, SdQuiet
  <2>2. PICK s : s = [sd EXCEPT !.events = {}]
    OBVIOUS
  <2>3. PICK errors : errors = IF s.select THEN sd.events \cap {"crc"} ELSE sd.events \cap SdErrors
    OBVIOUS
  <2>4. PICK r : r = [s EXCEPT !.required = IF errors # {} THEN {} ELSE @ \ sd.events]
    OBVIOUS
  <2>5. PICK status : status = IF s.type = "transfer" /\ s.multi THEN s.status ELSE "success"
    OBVIOUS
  <2>6. /\ DOMAIN r = SdFields /\ r.dump = sd.dump /\ r.stage = sd.stage /\ r.follow = sd.follow
        /\ r.type = sd.type /\ r.multi = sd.multi /\ r.out = sd.out /\ r.doIo = sd.doIo
        /\ r.lock = sd.lock /\ r.worker = sd.worker /\ r.shutdown = sd.shutdown
        /\ r.reset = sd.reset /\ r.hsts = sd.hsts /\ r.dataEn = sd.dataEn /\ r.dataDue = sd.dataDue
        /\ r.busyDue = sd.busyDue /\ r.twice = sd.twice /\ r.stale = sd.stale /\ r.events = {}
        /\ r.required = {}
    <3>1. sd.required \ sd.events = {}
      BY <1>2, <2>1 DEF SdInv, SdTyped, SdEvents
    <3>2. DOMAIN sd = SdFields /\ s.required = sd.required
      BY <2>2 DEF SdInv, SdTyped, SdFields
    <3> QED
      BY <2>2, <2>4, <3>1, <3>2 DEF SdFields
  <2>7. PICK c, e : sd' = c /\ c = completeRequest(r, e)
    <3>1. CASE errors # {}
      BY <1>2, <2>2, <2>3, <2>4, <2>5, <3>1 DEF sdhcRequestDpc, RequestDpc
    <3>2. CASE errors = {}
      BY <1>2, <2>2, <2>3, <2>4, <2>5, <2>6, <3>2, ZenonT(60) DEF sdhcRequestDpc, RequestDpc
    <3> QED
      BY <3>1, <3>2
  <2>8. SdCompleted(r, e, c)
    BY <2>6, <2>7, completeRequestFields
  <2>9. /\ DOMAIN c = SdFields /\ c.dump = sd.dump /\ c.type = sd.type /\ c.multi = sd.multi
        /\ c.out = sd.out /\ c.doIo = sd.doIo /\ c.lock = sd.lock /\ c.worker = sd.worker
        /\ c.shutdown = sd.shutdown /\ c.reset = sd.reset /\ c.hsts = sd.hsts
        /\ c.dataEn = sd.dataEn /\ c.dataDue = sd.dataDue /\ c.busyDue = sd.busyDue
        /\ c.stale = sd.stale /\ c.events = {}
        /\ c.required = {} /\ c.stage \in {"idle", "failed"} /\ (c.twice <=> sd.twice)
        /\ c.follow => c.stage = "idle" /\ c.type \in {"read", "write"}
    BY <1>2, <2>6, <2>8 DEF SdCompleted
  <2>10. SdTyped'
    BY <2>7, <2>9 DEF SdInv, SdTyped
  <2>11. sd.type \in {"read", "write"} => ~sd.dataEn
    BY <1>2, <2>1 DEF SdInv, SdEvents
  <2>12. "busy" \notin sd.hsts /\ ~sd.busyDue /\ (sd.dataEn => "data" \notin sd.hsts /\ ~sd.dataDue)
    BY <1>2, <2>1 DEF SdInv, SdTyped, SdEvents
  <2>13. SdEvents'
    BY <2>7, <2>9, <2>12 DEF SdEvents
  <2>14. SdWork'
    BY <2>1, <2>7, <2>9, <2>11, <2>12 DEF SdInv, SdTyped, SdWork, SdQuiet, SdWorking
  <2> QED
    BY <2>10, <2>13, <2>14 DEF SdInv
<1> QED
  BY <1>1, <1>2

\* The same when the command was waited for.
SdWaited(s, transfer, busy, p) ==
  /\ DOMAIN p[1] = SdFields /\ p[1].dump = s.dump /\ p[1].stage = s.stage
  /\ p[1].follow = s.follow /\ p[1].type = s.type /\ p[1].multi = s.multi
  /\ p[1].required = s.required /\ p[1].out = s.out /\ p[1].doIo = s.doIo
  /\ p[1].lock = s.lock /\ p[1].worker = s.worker /\ p[1].shutdown = s.shutdown
  /\ p[1].reset = s.reset /\ p[1].dataEn = s.dataEn /\ p[1].events = s.events
  /\ p[1].twice = s.twice /\ p[1].stale = s.stale
  /\ p[1].hsts \subseteq (s.hsts \cup SdErrors)
  /\ \/ p[1].dataDue = (transfer # "none") /\ p[1].busyDue = busy
     \/ p[1].dataDue = s.dataDue /\ p[1].busyDue = s.busyDue

\* A command that was sent and failed while it was waited for.
ErrorPair(q, e) == <<[q[1] EXCEPT !.hsts = @ \cup {e}], getErrorStatus({e})>>

\* Waiting adds such pairs, and no others.
LEMMA ErrorAdded ==
  ASSUME NEW pairs, NEW p \in waitForLastCommandCompletion(pairs), p \notin pairs
  PROVE  \E q \in pairs : \E e \in SdErrors : p = ErrorPair(q, e)
<1>1. p \in {ErrorPair(q, e) : q \in {z \in pairs : z[2] = "success"}, e \in SdErrors}
  BY DEF waitForLastCommandCompletion, ErrorPair
<1> QED
  BY <1>1

\* waitForLastCommandCompletion gives such pairs.
LEMMA waitForFields ==
  ASSUME NEW s, DOMAIN s = SdFields, NEW transfer, NEW busy,
         NEW p \in waitForLastCommandCompletion(sendCommandInternal(s, transfer, busy))
  PROVE  SdWaited(s, transfer, busy, p)
<1>1. CASE p \in sendCommandInternal(s, transfer, busy)
  <2>1. SdSent(s, transfer, busy, p)
    BY <1>1, sendCommandFields
  <2> QED
    BY <2>1 DEF SdSent, SdWaited
<1>2. CASE p \notin sendCommandInternal(s, transfer, busy)
  <2>1. PICK pairs : pairs = sendCommandInternal(s, transfer, busy)
    OBVIOUS
  <2>2. p \in waitForLastCommandCompletion(pairs) /\ p \notin pairs
    BY <1>2, <2>1
  <2>3. PICK q \in pairs, e \in SdErrors : p = <<[q[1] EXCEPT !.hsts = @ \cup {e}], getErrorStatus({e})>>
    <3>1. \E q \in pairs : \E e \in SdErrors : p = ErrorPair(q, e)
      BY <2>2, ErrorAdded
    <3> QED
      BY <3>1 DEF ErrorPair
  <2>4. SdSent(s, transfer, busy, q)
    BY <2>3, <2>1, sendCommandFields
  <2>5. PICK b : b = q[1]
    OBVIOUS
  <2>6. /\ DOMAIN b = SdFields /\ b.dump = s.dump /\ b.stage = s.stage /\ b.follow = s.follow
        /\ b.type = s.type /\ b.multi = s.multi /\ b.required = s.required /\ b.out = s.out
        /\ b.doIo = s.doIo /\ b.lock = s.lock /\ b.worker = s.worker /\ b.shutdown = s.shutdown
        /\ b.reset = s.reset /\ b.dataEn = s.dataEn /\ b.events = s.events /\ b.twice = s.twice
        /\ b.stale = s.stale
        /\ b.hsts \subseteq s.hsts
        /\ \/ b.dataDue = (transfer # "none") /\ b.busyDue = busy
           \/ b.dataDue = s.dataDue /\ b.busyDue = s.busyDue
    BY <2>4, <2>5 DEF SdSent
  <2>7. p[1] = [b EXCEPT !.hsts = b.hsts \cup {e}]
    BY <2>3, <2>5
  <2> QED
    BY <2>6, <2>7 DEF SdFields, SdWaited
<1> QED
  BY <1>1, <1>2

\* Sdport issues a command, alone or before a transfer.
LEMMA sendRequestCommandKept ==
  ASSUME SdInv, NEW t \in {"command", "busy", "read", "write"}, NEW m \in BOOLEAN, NEW c \in BOOLEAN, NEW n,
         sendRequestCommand(t, m, n, c)
  PROVE  SdInv'
<1>1. /\ sd.stage = "idle" /\ ~sd.follow /\ sd.reset = "none"
      /\ ~sd.out /\ sd.worker \notin SdWorking
  BY DEF sendRequestCommand, SdInv, SdWork
<1>2. PICK s : s = SdFresh(t, m, n, c)
  OBVIOUS
<1>3. /\ DOMAIN s = SdFields /\ s.dump = sd.dump /\ s.follow = sd.follow /\ s.out = sd.out
      /\ s.doIo = sd.doIo /\ s.lock = sd.lock /\ s.worker = sd.worker /\ s.shutdown = sd.shutdown
      /\ s.reset = sd.reset /\ s.hsts = sd.hsts /\ s.events = sd.events /\ s.dataDue = sd.dataDue
      /\ s.busyDue = sd.busyDue /\ s.twice = sd.twice /\ s.stale = sd.stale /\ s.stage = "issued"
      /\ s.type = t /\ s.multi = m
      /\ s.required = CASE t = "busy" -> {"busy"} [] t \in {"read", "write"} -> {"data"} [] OTHER -> {}
      /\ s.dataEn <=> sd.dataEn \/ t \in {"read", "write"}
  BY <1>2 DEF SdFresh, SdInv, SdTyped, SdFields
<1>4. PICK transfer : transfer = IF t \in {"read", "write"} THEN t ELSE "none"
  OBVIOUS
<1>5. PICK sent : sent = sendCommandInternal(s, transfer, t = "busy")
  OBVIOUS
<1>6. \E p \in IF s.required = {} THEN waitForLastCommandCompletion(sent) ELSE sent :
        sd' = CASE s.required = {} -> completeRequest(p[1], p[2])
                [] s.required # {} /\ p[2] = "success" -> p[1]
                [] OTHER -> [p[1] EXCEPT !.stage = "failed", !.status = p[2]]
  BY <1>2, <1>4, <1>5 DEF sendRequestCommand
<1>7. CASE t = "command"
  <2>1. PICK p \in waitForLastCommandCompletion(sent) : sd' = completeRequest(p[1], p[2])
    BY <1>3, <1>6, <1>7
  <2>2. PICK b : b = p[1]
    OBVIOUS
  <2>3. /\ DOMAIN b = SdFields /\ b.dump = s.dump /\ b.stage = s.stage /\ b.follow = s.follow
        /\ b.type = s.type /\ b.multi = s.multi /\ b.required = s.required /\ b.out = s.out
        /\ b.doIo = s.doIo /\ b.lock = s.lock /\ b.worker = s.worker /\ b.shutdown = s.shutdown
        /\ b.reset = s.reset /\ b.dataEn = s.dataEn /\ b.events = s.events /\ b.twice = s.twice
        /\ b.stale = s.stale
        /\ b.hsts \subseteq (s.hsts \cup SdErrors)
        /\ \/ b.dataDue = FALSE /\ b.busyDue = FALSE
           \/ b.dataDue = s.dataDue /\ b.busyDue = s.busyDue
    <3>1. SdWaited(s, transfer, t = "busy", p) /\ transfer = "none"
      BY <1>3, <1>4, <1>5, <1>7, <2>1, waitForFields
    <3> QED
      BY <1>7, <2>2, <3>1 DEF SdWaited
  <2>4. PICK e : sd' = completeRequest(b, e)
    BY <2>1, <2>2
  <2>5. SdCompleted(b, e, sd')
    BY <2>3, <2>4, completeRequestFields
  <2>6. /\ DOMAIN sd' = SdFields /\ sd'.dump = sd.dump /\ sd'.out = sd.out /\ sd'.doIo = sd.doIo
        /\ sd'.lock = sd.lock /\ sd'.worker = sd.worker /\ sd'.shutdown = sd.shutdown
        /\ sd'.reset = sd.reset /\ sd'.events = sd.events /\ sd'.stale = sd.stale /\ sd'.type = t
        /\ sd'.multi = m
        /\ (sd'.dataEn <=> sd.dataEn) /\ sd'.stage \in {"idle", "failed"} /\ ~sd'.follow
        /\ (sd'.twice <=> sd.twice)
        /\ sd'.hsts \subseteq (sd.hsts \cup SdErrors)
        /\ \/ sd'.dataDue = FALSE /\ sd'.busyDue = FALSE
           \/ sd'.dataDue = sd.dataDue /\ sd'.busyDue = sd.busyDue
    BY <1>3, <1>7, <2>3, <2>5 DEF SdCompleted
  <2>7. SdTyped'
    BY <1>7, <2>6 DEF SdInv, SdTyped
  <2>8. SdWork'
    BY <1>1, <2>6 DEF SdInv, SdTyped, SdWork, SdWorking
  <2>9. SdEvents'
    BY <1>1, <2>6 DEF SdInv, SdTyped, SdEvents, SdErrors
  <2> QED
    BY <2>7, <2>8, <2>9 DEF SdInv
<1>8. CASE t # "command"
  <2>1. s.required = (IF t = "busy" THEN {"busy"} ELSE {"data"}) /\ s.required # {}
    BY <1>3, <1>8
  <2>2. PICK p \in sent : sd' = IF p[2] = "success" THEN p[1]
                                ELSE [p[1] EXCEPT !.stage = "failed", !.status = p[2]]
    BY <1>6, <2>1
  <2>3. SdSent(s, transfer, t = "busy", p)
    BY <1>3, <1>5, <2>2, sendCommandFields
  <2>4. CASE p[2] = "success"
    <3>1. /\ DOMAIN sd' = SdFields /\ sd'.dump = sd.dump /\ sd'.follow = sd.follow /\ sd'.out = sd.out
          /\ sd'.doIo = sd.doIo /\ sd'.lock = sd.lock /\ sd'.worker = sd.worker
          /\ sd'.shutdown = sd.shutdown /\ sd'.reset = sd.reset /\ sd'.events = sd.events
          /\ sd'.twice = sd.twice /\ sd'.stale = sd.stale /\ sd'.stage = "issued" /\ sd'.type = t
          /\ sd'.multi = m
          /\ sd'.required = s.required /\ sd'.hsts \subseteq sd.hsts
          /\ (sd'.dataEn <=> sd.dataEn \/ t \in {"read", "write"})
          /\ sd'.dataDue = (transfer # "none") /\ sd'.busyDue = (t = "busy")
      BY <1>3, <2>2, <2>3, <2>4 DEF SdSent
    <3>2. SdTyped'
      BY <3>1 DEF SdInv, SdTyped
    <3>3. SdWork'
      BY <1>1, <3>1 DEF SdInv, SdTyped, SdWork, SdWorking
    <3>4. SdEvents'
      BY <1>1, <1>4, <1>8, <2>1, <3>1 DEF SdInv, SdTyped, SdEvents
    <3> QED
      BY <3>2, <3>3, <3>4 DEF SdInv
  <2>5. CASE p[2] # "success"
    <3>1. PICK b : b = p[1]
      OBVIOUS
    <3>2. /\ DOMAIN b = SdFields /\ b.dump = sd.dump /\ b.follow = sd.follow /\ b.out = sd.out
          /\ b.doIo = sd.doIo /\ b.lock = sd.lock /\ b.worker = sd.worker /\ b.shutdown = sd.shutdown
          /\ b.reset = sd.reset /\ b.events = sd.events /\ b.twice = sd.twice /\ b.stale = sd.stale
          /\ b.type = t /\ b.multi = m
          /\ b.hsts \subseteq sd.hsts
      BY <1>3, <2>3, <3>1 DEF SdSent
    <3>3. sd' = [b EXCEPT !.stage = "failed", !.status = p[2]]
      BY <2>2, <2>5, <3>1
    <3>4. /\ DOMAIN sd' = SdFields /\ sd'.dump = sd.dump /\ sd'.follow = sd.follow /\ sd'.out = sd.out
          /\ sd'.doIo = sd.doIo /\ sd'.lock = sd.lock /\ sd'.worker = sd.worker
          /\ sd'.shutdown = sd.shutdown /\ sd'.reset = sd.reset /\ sd'.events = sd.events
          /\ sd'.twice = sd.twice /\ sd'.stale = sd.stale /\ sd'.stage = "failed" /\ sd'.type = t
          /\ sd'.multi = m
          /\ sd'.hsts \subseteq sd.hsts
      BY <3>2, <3>3 DEF SdFields
    <3>5. SdTyped'
      BY <3>4 DEF SdInv, SdTyped
    <3>6. SdWork'
      BY <1>1, <3>4 DEF SdInv, SdTyped, SdWork, SdWorking
    <3>7. SdEvents'
      BY <3>4 DEF SdEvents
    <3> QED
      BY <3>5, <3>6, <3>7 DEF SdInv
  <2> QED
    BY <2>4, <2>5
<1> QED
  BY <1>7, <1>8

\* Every step of the driver of the Pi's SD host keeps the invariant.
LEMMA SdStep == SdInv /\ [SdNext]_sd => SdInv'
<1> SUFFICES ASSUME SdInv, [SdNext]_sd PROVE SdInv'
  OBVIOUS
<1>1. CASE UNCHANGED sd
  BY <1>1 DEF SdInv, SdTyped, SdWork, SdEvents, SdQuiet
<1>2. CASE SdWorker
  BY <1>2, transferWorkerWakesKept, transferWorkerTakesKept, transferSingleBlockPioKept,
     stopTransmissionKept,
     transferSingleBlockDoneKept, transferWorkerReleasesKept DEF SdWorker
<1>3. CASE SdHandling
  BY <1>2, <1>3, sdhcInterruptKept, sdhcRequestDpcKept, sdhcToggleEventsKept, resetHostCommandKept,
     resetHostDataKept DEF SdHandling
<1> QED
  BY <1>1, <1>3, sendRequestCommandKept, startTransferPioKept, SdportTimeoutKept,
     sdhcCleanupKept, SdCardDataKept,
     SdCardReadyKept, SdCardErrorKept DEF SdNext

\* The invariant gives what is said of who has the request.
LEMMA SdInvGives == SdInv => SdOwned
BY DEF SdInv, SdWork, SdOwned

-----------------------------------------------------------------------------
(* The divisors of the clocks.                                             *)

\* Division cuts off.
LEMMA Quotient ==
  ASSUME NEW b \in Nat, NEW t \in Nat \ {0}
  PROVE  b \div t \in Nat /\ t * (b \div t) <= b /\ b < t * (b \div t) + t
OBVIOUS

\* A product grows with its factor.
LEMMA Products ==
  ASSUME NEW t \in Nat, NEW d \in Nat, NEW e \in Nat, d <= e
  PROVE  t * d <= t * e
OBVIOUS

\* A multiple that does not exceed b has a factor that does not exceed the quotient.
LEMMA BelowQuotient ==
  ASSUME NEW b \in Nat, NEW t \in Nat \ {0}, NEW d \in Nat
  PROVE  t * d <= b <=> d <= b \div t
<1> DEFINE q == b \div t
<1>1. q \in Nat /\ t * q <= b /\ b < t * q + t
  BY Quotient
<1> HIDE DEF q
<1>2. CASE d <= q
  BY <1>1, <1>2, Products
<1>3. CASE q + 1 <= d
  <2>1. t * (q + 1) <= t * d /\ t * (q + 1) = t * q + t /\ t * d \in Nat
    BY <1>1, <1>3, Products
  <2> QED
    BY <1>1, <1>3, <2>1
<1> QED
  BY <1>1, <1>2, <1>3 DEF q

\* The even number below a number.
LEMMA EvenBelow ==
  ASSUME NEW n \in Nat
  PROVE  /\ Even(n) \in Nat /\ Even(n) % 2 = 0 /\ Even(n) <= n /\ n <= Even(n) + 1
         /\ \A e \in Nat : e % 2 = 0 /\ e <= n => e <= Even(n)
BY DEF Even

\* What is least is the one that is chosen, ...
LEMMA FastestIs ==
  ASSUME NEW S, S \subseteq Int, NEW d \in S, \A e \in S : d <= e
  PROVE  Fastest(S) = d
<1>1. \A c \in S : (\A e \in S : c <= e) => c = d
  OBVIOUS
<1> QED
  BY <1>1 DEF Fastest

\* ... and what is largest.
LEMMA SlowestIs ==
  ASSUME NEW S, S \subseteq Int, NEW d \in S, \A e \in S : d >= e
  PROVE  Slowest(S) = d
<1>1. \A c \in S : (\A e \in S : c >= e) => c = d
  OBVIOUS
<1> QED
  BY <1>1 DEF Slowest

\* The even divisors and one.
LEMMA EvensAre ==
  /\ Evens \subseteq Nat /\ 2 \in Evens /\ ClockLimit \in Evens /\ ClockLimit \in Nat
  /\ \A d \in Nat : d \in Evens <=> d >= 2 /\ d <= ClockLimit /\ d % 2 = 0
  /\ Slowest({1} \cup Evens) = ClockLimit /\ Fastest(Evens) = 2
<1>1. /\ Evens \subseteq Nat /\ 2 \in Evens /\ ClockLimit \in Evens /\ ClockLimit \in Nat
      /\ \A d \in Nat : d \in Evens <=> d >= 2 /\ d <= ClockLimit /\ d % 2 = 0
      /\ ClockLimit >= 4
  BY ClockAssumption DEF Evens
<1>2. Slowest({1} \cup Evens) = ClockLimit
  <2>1. {1} \cup Evens \subseteq Int /\ ClockLimit \in {1} \cup Evens
        /\ \A e \in {1} \cup Evens : ClockLimit >= e
    BY <1>1
  <2> QED
    BY <2>1, SlowestIs
<1>3. Fastest(Evens) = 2
  <2>1. Evens \subseteq Int /\ 2 \in Evens /\ \A e \in Evens : 2 <= e
    BY <1>1
  <2> QED
    BY <2>1, FastestIs
<1> QED
  BY <1>1, <1>2, <1>3

\* The divisors that are enough for a frequency, and what is best of them.
EnoughEvens(b, t) == {d \in {1} \cup Evens : b <= t * d}
EvenNotFaster(b, t) ==
  IF EnoughEvens(b, t) = {} THEN Slowest({1} \cup Evens) ELSE Fastest(EnoughEvens(b, t))

\* What being enough is.
LEMMA EnoughAre ==
  ASSUME NEW b \in Nat, NEW t \in Nat
  PROVE  /\ EnoughEvens(b, t) \subseteq Nat
         /\ \A d : d \in EnoughEvens(b, t) <=> (d = 1 \/ d \in Evens) /\ b <= t * d
<1>1. \A d : d \in EnoughEvens(b, t) <=> (d = 1 \/ d \in Evens) /\ b <= t * d
  BY DEF EnoughEvens
<1>2. Evens \subseteq Nat /\ 1 \in Nat
  BY EvensAre
<1>3. EnoughEvens(b, t) \subseteq Nat
  BY <1>2, Zenon DEF EnoughEvens
<1> QED
  BY <1>1, <1>3, Zenon

\* The next even number above an even one that is too small is the best, if there is one.
LEMMA EvenNotFasterIs ==
  ASSUME NEW b \in Nat, NEW t \in Nat \ {0}, NEW d \in Nat, b > t,
         d % 2 = 0, d >= 2, b <= t * d, t * (d - 2) < b
  PROVE  /\ EvenNotFaster(b, t) = IF d <= ClockLimit THEN d ELSE ClockLimit
         /\ b > t * ClockLimit <=> d > ClockLimit
<1>1. ASSUME NEW e \in {1} \cup Evens, e < d PROVE ~(b <= t * e)
  <2>1. e = 1 \/ (e \in Nat /\ e <= d - 2 /\ d - 2 \in Nat)
    <3>1. CASE e \in Evens
      <4>1. e \in Nat /\ e % 2 = 0
        BY <3>1, EvensAre
      <4> QED
        BY <1>1, <4>1
    <3> QED
      BY <3>1
  <2>2. CASE e = 1
    BY <2>2
  <2>3. CASE e \in Nat /\ e <= d - 2 /\ d - 2 \in Nat
    <3>1. t * e <= t * (d - 2) /\ t * e \in Nat /\ t * (d - 2) \in Nat
      BY <2>3, Products
    <3> QED
      BY <3>1
  <2> QED
    BY <2>1, <2>2, <2>3
<1>2. CASE d <= ClockLimit
  <2>1. d \in EnoughEvens(b, t) /\ EnoughEvens(b, t) \subseteq Int
    <3>1. d \in Evens
      BY <1>2, EvensAre
    <3>2. d \in EnoughEvens(b, t) /\ EnoughEvens(b, t) \subseteq Nat
      BY <3>1, EnoughAre, Zenon
    <3> QED
      BY <3>2
  <2>2. \A e \in EnoughEvens(b, t) : d <= e
    BY <1>1, EnoughAre
  <2>3. Fastest(EnoughEvens(b, t)) = d
    BY <2>1, <2>2, FastestIs
  <2>4. t * d <= t * ClockLimit /\ t * d \in Nat /\ t * ClockLimit \in Nat
    BY <1>2, EvensAre, Products
  <2> QED
    BY <1>2, <2>1, <2>3, <2>4, EvensAre DEF EvenNotFaster
<1>3. CASE d > ClockLimit
  <2>1. EnoughEvens(b, t) = {}
    <3>1. \A e \in {1} \cup Evens : e < d
      <4>1. \A e \in Evens : e \in Nat /\ e <= ClockLimit
        BY EvensAre
      <4> QED
        BY <1>3, <4>1, EvensAre
    <3> QED
      BY <1>1, <3>1, EnoughAre
  <2>2. ~(b <= t * ClockLimit) /\ t * ClockLimit \in Nat
    BY <1>1, <1>3, EvensAre
  <2> QED
    BY <1>3, <2>1, <2>2, EvensAre DEF EvenNotFaster
<1> QED
  BY <1>2, <1>3, EvensAre

\* A clock that is slow enough is not divided.
LEMMA NotDivided ==
  ASSUME NEW b \in Nat, NEW t \in Nat \ {0}, b <= t
  PROVE  EvenNotFaster(b, t) = 1 /\ ~(b > t * ClockLimit)
<1>1. 1 \in EnoughEvens(b, t) /\ EnoughEvens(b, t) \subseteq Int
      /\ \A e \in EnoughEvens(b, t) : 1 <= e
  <2>1. 1 \in EnoughEvens(b, t) /\ EnoughEvens(b, t) \subseteq Int
    BY EnoughAre
  <2>2. \A e \in Evens : e >= 1
    BY EvensAre
  <2> QED
    BY <2>1, <2>2, EnoughAre
<1>2. Fastest(EnoughEvens(b, t)) = 1
  BY <1>1, FastestIs
<1>3. t * 1 <= t * ClockLimit /\ t * ClockLimit \in Nat
  BY EvensAre, ClockAssumption, Products
<1> QED
  BY <1>1, <1>2, <1>3 DEF EvenNotFaster

\* The host of the Pi 4 rounds up to an even divisor and refuses what is too slow, ...
LEMMA Emmc2EvenIsBest ==
  ASSUME NEW b \in Nat \ {0}, NEW t \in Nat \ {0}
  PROVE  Emmc2EvenDivisor(b, t) = IF b > t * ClockLimit THEN None ELSE EvenNotFaster(b, t)
<1>1. CASE b <= t
  BY <1>1, NotDivided DEF Emmc2EvenDivisor
<1>2. CASE b > t
  <2> DEFINE n == b \div t
             q == Even(n)
             d == IF b > t * q THEN q + 2 ELSE q
  <2>1. n \in Nat /\ t * n <= b /\ b < t * n + t /\ n >= 1
    <3>1. t * 1 <= b
      BY <1>2
    <3> QED
      BY <3>1, Quotient, BelowQuotient
  <2> HIDE DEF n
  <2>2. q \in Nat /\ q % 2 = 0 /\ q <= n /\ n <= q + 1
    BY <2>1, EvenBelow
  <2> HIDE DEF q
  <2>3. t * q <= t * n /\ t * n <= t * (q + 1) /\ t * (q + 1) + t = t * (q + 2)
        /\ t * q \in Nat /\ t * n \in Nat /\ t * (q + 2) \in Nat
    BY <2>1, <2>2, Products
  <2>4. d \in Nat /\ d % 2 = 0 /\ d >= 2 /\ b <= t * d /\ t * (d - 2) < b
    <3>1. CASE b > t * q
      BY <2>1, <2>2, <2>3, <3>1
    <3>2. CASE ~(b > t * q)
      <4>1. q # 0
        BY <2>1, <2>3, <3>2
      <4>2. q >= 2 /\ t * (q - 2) + 2 * t = t * q /\ t * (q - 2) \in Nat
        BY <2>2, <4>1
      <4> QED
        BY <2>1, <2>2, <2>3, <3>2, <4>2
    <3> QED
      BY <3>1, <3>2
  <2>5. Emmc2EvenDivisor(b, t) = IF d > ClockLimit THEN None ELSE d
    BY <1>2 DEF Emmc2EvenDivisor, n, q
  <2> HIDE DEF d
  <2> QED
    <3>1. /\ EvenNotFaster(b, t) = IF d <= ClockLimit THEN d ELSE ClockLimit
          /\ b > t * ClockLimit <=> d > ClockLimit
      BY <1>2, <2>4, EvenNotFasterIs
    <3> QED
      BY <2>4, <2>5, <3>1, EvensAre
<1> QED
  BY <1>1, <1>2

\* ... the Arasan host computes half of the divisor, and limits it, ...
LEMMA ArasanEvenIsBest ==
  ASSUME NEW b \in Nat \ {0}, NEW t \in Nat \ {0}
  PROVE  ArasanEvenDivisor(b, t) = EvenNotFaster(b, t)
<1> DEFINE n == b \div t
           half == n \div 2
           d == IF t < b /\ t * 2 * half # b THEN half + 1 ELSE half
           limited == IF d > ClockLimit \div 2 THEN ClockLimit \div 2 ELSE d
<1>1. ArasanEvenDivisor(b, t) = IF limited = 0 THEN 1 ELSE 2 * limited
  BY DEF ArasanEvenDivisor
<1>2. n \in Nat /\ t * n <= b /\ b < t * n + t
  BY Quotient
<1>3. CASE b < t
  <2>1. n = 0
    <3>1. n >= 1 => t * 1 <= t * n /\ t * n \in Nat
      BY <1>2, Products
    <3> QED
      BY <1>2, <1>3, <3>1
  <2> HIDE DEF n
  <2>2. half = 0 /\ d = 0 /\ limited = 0
    BY <1>3, <2>1, ClockAssumption
  <2> QED
    BY <1>1, <1>3, <2>2, NotDivided
<1>4. CASE b = t
  <2>1. n <= 1
    <3>1. n >= 2 => t * 2 <= t * n /\ t * n \in Nat
      BY <1>2, Products
    <3> QED
      BY <1>2, <1>4, <3>1
  <2> HIDE DEF n
  <2>2. half = 0 /\ d = 0 /\ limited = 0
    BY <1>2, <1>4, <2>1, ClockAssumption
  <2> QED
    BY <1>1, <1>4, <2>2, NotDivided
<1>5. CASE b > t
  <2>1. n >= 1
    <3>1. t * 1 <= b
      BY <1>5
    <3> QED
      BY <3>1, BelowQuotient
  <2> HIDE DEF n
  <2>2. half \in Nat /\ 2 * half <= n /\ n <= 2 * half + 1
    BY <1>2
  <2> HIDE DEF half
  <2>3. t * (2 * half) <= t * n /\ t * n <= t * (2 * half + 1) /\ t * 2 * half = t * (2 * half)
        /\ t * (2 * half + 1) + t = t * (2 * (half + 1)) /\ t * (2 * half + 1) = t * (2 * half) + t
        /\ t * (2 * half) \in Nat /\ t * n \in Nat
    BY <1>2, <2>2, Products
  <2>4. d \in Nat /\ d >= 1 /\ b <= t * (2 * d) /\ t * (2 * d - 2) < b
    <3>1. CASE t * 2 * half # b
      <4>1. d = half + 1 /\ 2 * d - 2 = 2 * half
        BY <1>5, <2>2, <3>1
      <4> QED
        BY <1>2, <2>2, <2>3, <3>1, <4>1
    <3>2. CASE t * 2 * half = b
      <4>1. d = half
        BY <3>2
      <4>2. half # 0
        BY <2>3, <3>2
      <4>3. t * (2 * half - 2) + 2 * t = t * (2 * half)
        BY <2>2
      <4>4. t * (2 * half - 2) \in Int
        BY <2>2
      <4> QED
        BY <2>2, <2>3, <3>2, <4>1, <4>2, <4>3, <4>4
    <3> QED
      BY <3>1, <3>2
  <2> HIDE DEF d
  <2>5. EvenNotFaster(b, t) = IF 2 * d <= ClockLimit THEN 2 * d ELSE ClockLimit
    <3>1. 2 * d \in Nat /\ (2 * d) % 2 = 0 /\ 2 * d >= 2
      BY <2>4
    <3> QED
      BY <1>5, <2>4, <3>1, EvenNotFasterIs
  <2>6. limited # 0 /\ 2 * limited = IF 2 * d <= ClockLimit THEN 2 * d ELSE ClockLimit
    BY <2>4, ClockAssumption
  <2> QED
    BY <1>1, <2>5, <2>6
<1> QED
  BY <1>3, <1>4, <1>5

\* The powers of two.
LEMMA PowersAre ==
  /\ Powers = {1, 2, 4, 8, 16, 32, 64, 128, 256}
  /\ Powers \subseteq Nat \ {0} /\ Slowest(Powers) = 256
<1>1. Powers = {1, 2, 4, 8, 16, 32, 64, 128, 256}
  BY DEF Powers
<1>2. Powers \subseteq Int /\ 256 \in Powers /\ \A e \in Powers : 256 >= e
  BY <1>1
<1>3. Slowest(Powers) = 256
  BY <1>2, SlowestIs
<1> QED
  BY <1>1, <1>3

\* The powers that are enough, and what is best of them.
EnoughPowers(b, t) == {p \in Powers : b \div p <= t}
PowerNotFaster(b, t) ==
  IF EnoughPowers(b, t) = {} THEN Slowest(Powers) ELSE Fastest(EnoughPowers(b, t))

\* A larger power leaves a slower clock.
LEMMA PowersEnough ==
  ASSUME NEW b \in Nat, NEW t \in Nat
  PROVE  EnoughPowers(b, t) = {} <=> b \div 256 > t
<1>1. ASSUME NEW p \in Powers PROVE b \div p \in Nat /\ b \div 256 <= b \div p
  BY PowersAre
<1>2. b \div 256 \in Nat /\ 256 \in Powers
  BY <1>1, PowersAre
<1> QED
  BY <1>1, <1>2 DEF EnoughPowers

\* ... or doubles it while the clock is too fast, ...
LEMMA ArasanPowerIsBest ==
  ASSUME NEW b \in Nat, NEW t \in Nat
  PROVE  ArasanPowerDivisor(b, t) = PowerNotFaster(b, t)
BY PowersAre DEF ArasanPowerDivisor, PowerNotFaster, EnoughPowers, Fastest

\* ... and so does the host of the Pi 4, which refuses what is too slow.
LEMMA Emmc2PowerIsBest ==
  ASSUME NEW b \in Nat \ {0}, NEW t \in Nat \ {0}
  PROVE  Emmc2PowerDivisor(b, t) = IF b \div 256 > t THEN None ELSE PowerNotFaster(b, t)
<1>1. b \div 1 = b /\ 1 \in Powers
  BY PowersAre
<1>2. CASE b <= t
  <2>1. 1 \in EnoughPowers(b, t) /\ EnoughPowers(b, t) \subseteq Int
        /\ \A e \in EnoughPowers(b, t) : 1 <= e
    BY <1>1, <1>2, PowersAre DEF EnoughPowers
  <2>2. Fastest(EnoughPowers(b, t)) = 1
    BY <2>1, FastestIs
  <2> QED
    BY <1>2, <2>1, <2>2, PowersEnough DEF Emmc2PowerDivisor, PowerNotFaster
<1>3. CASE b > t
  <2>1. {p \in Powers \ {1} : b \div p <= t} = EnoughPowers(b, t)
    BY <1>1, <1>3 DEF EnoughPowers
  <2> DEFINE S == EnoughPowers(b, t)
  <2>2. Emmc2PowerDivisor(b, t) = IF S = {} THEN None ELSE Fastest(S)
    <3> DEFINE E == {p \in Powers \ {1} : b \div p <= t}
               c == CHOOSE p \in E : \A q \in E : p <= q
    <3>1. Emmc2PowerDivisor(b, t) = IF E = {} THEN None ELSE c
      <4>1. Emmc2PowerDivisor(b, t) = CASE b <= t -> 1 [] b > t /\ E = {} -> None [] OTHER -> c
        BY DEF Emmc2PowerDivisor
      <4> HIDE DEF E, c
      <4> QED
        BY <1>3, <4>1
    <3>2. c = Fastest(E)
      BY DEF Fastest
    <3> HIDE DEF E, c
    <3>3. E = S
      BY <2>1 DEF E
    <3> QED
      BY <3>1, <3>2, <3>3
  <2>3. S = {} <=> b \div 256 > t
    BY PowersEnough
  <2> HIDE DEF S
  <2> QED
    BY <2>2, <2>3 DEF PowerNotFaster, S
<1> QED
  BY <1>2, <1>3

\* The divisors that are not too much for a frequency, and what is best of them.
FitEvens(b, t) == {d \in Evens : b >= t * d}
EvenNotSlower(b, t) == IF FitEvens(b, t) = {} THEN Fastest(Evens) ELSE Slowest(FitEvens(b, t))

\* The even number below the quotient is the best, within the limits.
LEMMA EvenNotSlowerIs ==
  ASSUME NEW b \in Nat, NEW t \in Nat \ {0}
  PROVE  EvenNotSlower(b, t) = IF b \div t < 2 THEN 2
                               ELSE IF Even(b \div t) <= ClockLimit THEN Even(b \div t)
                               ELSE ClockLimit
<1> DEFINE n == b \div t
           q == Even(n)
           best == IF q <= ClockLimit THEN q ELSE ClockLimit
<1>1. \A d \in Nat : t * d \in Nat /\ (b >= t * d <=> d <= n)
  <2>1. ASSUME NEW d \in Nat PROVE t * d \in Nat /\ (b >= t * d <=> d <= n)
    <3>1. t * d \in Nat
      OBVIOUS
    <3> QED
      BY <3>1, BelowQuotient
  <2> QED
    BY <2>1
<1>2. FitEvens(b, t) = {d \in Evens : d <= n}
  BY <1>1, EvensAre DEF FitEvens
<1>3. n \in Nat
  BY Quotient
<1> HIDE DEF n
<1>4. q \in Nat /\ q % 2 = 0 /\ q <= n /\ n <= q + 1 /\ \A e \in Nat : e % 2 = 0 /\ e <= n => e <= q
  BY <1>3, EvenBelow
<1>5. CASE n < 2
  <2>1. FitEvens(b, t) = {}
    <3>1. \A e \in Evens : e \in Nat /\ e >= 2
      BY EvensAre
    <3>2. \A e \in Evens : ~(e <= n)
      BY <1>3, <1>5, <3>1
    <3> QED
      BY <1>2, <3>2
  <2> QED
    BY <1>5, <2>1, EvensAre DEF EvenNotSlower, n
<1>6. CASE n >= 2
  <2> HIDE DEF q
  <2>1. q >= 2
    BY <1>4, <1>6
  <2>2. best \in Nat /\ best <= n /\ best >= 2 /\ best <= ClockLimit /\ best % 2 = 0
    <3>1. ClockLimit \in Nat /\ ClockLimit >= 4 /\ ClockLimit % 2 = 0
      BY ClockAssumption
    <3>2. q \in Nat /\ q <= n /\ q % 2 = 0
      BY <1>4
    <3>3. CASE q <= ClockLimit
      BY <2>1, <3>2, <3>3
    <3>4. CASE ClockLimit < q
      BY <1>3, <3>1, <3>2, <3>4
    <3> QED
      BY <3>1, <3>2, <3>3, <3>4
  <2>3. \A e \in Evens : e <= n => best >= e
    <3>1. ASSUME NEW e \in Evens, e <= n PROVE best >= e
      <4>1. e \in Nat /\ e % 2 = 0 /\ e <= ClockLimit
        BY EvensAre
      <4> QED
        BY <1>4, <3>1, <4>1
    <3> QED
      BY <3>1
  <2> HIDE DEF best
  <2>4. best \in FitEvens(b, t) /\ FitEvens(b, t) \subseteq Int
        /\ \A e \in FitEvens(b, t) : best >= e
    <3>1. best \in Evens /\ Evens \subseteq Int
      BY <2>2, EvensAre
    <3> QED
      BY <1>2, <2>2, <2>3, <3>1
  <2>5. Slowest(FitEvens(b, t)) = best
    BY <2>4, SlowestIs
  <2>6. EvenNotSlower(b, t) = best
    BY <2>4, <2>5 DEF EvenNotSlower
  <2> QED
    BY <1>3, <1>6, <2>6 DEF n, q, best
<1> QED
  BY <1>3, <1>5, <1>6

\* A frequency above the slowest leaves the quotient below the limit.
LEMMA AboveSlowest ==
  ASSUME NEW b \in Nat, NEW t \in Nat \ {0}
  PROVE  b \div ClockLimit < t <=> b \div t < ClockLimit
<1>1. ClockLimit \in Nat \ {0}
  BY ClockAssumption
<1>2. ClockLimit * t <= b <=> t <= b \div ClockLimit
  BY <1>1, BelowQuotient
<1>3. t * ClockLimit <= b <=> ClockLimit <= b \div t
  BY <1>1, BelowQuotient
<1>4. t * ClockLimit = ClockLimit * t /\ b \div t \in Nat /\ b \div ClockLimit \in Nat
  BY <1>1, Quotient
<1> QED
  BY <1>1, <1>2, <1>3, <1>4

\* SPI rounds down to an even divisor, and has a least and a largest one.
LEMMA SpiIsBest ==
  ASSUME NEW b \in Nat \ {0}, NEW t \in Nat \ {0}
  PROVE  SpiDivisor(b, t) = EvenNotSlower(b, t)
<1> DEFINE n == b \div t
           q == Even(n)
<1>1. n \in Nat /\ b \div 2 \in Nat /\ b \div ClockLimit \in Nat
  BY Quotient, ClockAssumption
<1>2. q \in Nat /\ q % 2 = 0 /\ q <= n /\ n <= q + 1 /\ \A e \in Nat : e % 2 = 0 /\ e <= n => e <= q
  BY <1>1, EvenBelow
<1>3. EvenNotSlower(b, t) = IF n < 2 THEN 2 ELSE IF q <= ClockLimit THEN q ELSE ClockLimit
  BY EvenNotSlowerIs
<1>4. SpiDivisor(b, t) = CASE t <= b \div ClockLimit -> ClockLimit
        [] t > b \div ClockLimit /\ t >= b \div 2 -> 2
        [] OTHER -> q
  BY DEF SpiDivisor
<1>5. b \div ClockLimit < t <=> n < ClockLimit
  BY AboveSlowest
<1>6. t >= b \div 2 => n <= 3
  <2>1. t * 4 <= b <=> 4 <= n
    BY BelowQuotient
  <2> QED
    BY <1>1, <2>1
<1>7. t < b \div 2 => n >= 2
  <2>1. t * 2 <= b <=> 2 <= n
    BY BelowQuotient
  <2> QED
    BY <1>1, <2>1
<1> HIDE DEF q, n
<1>8. CASE t <= b \div ClockLimit
  <2>1. ClockLimit <= n /\ ClockLimit % 2 = 0 /\ ClockLimit \in Nat /\ ClockLimit >= 4
    BY <1>1, <1>5, <1>8, ClockAssumption
  <2>2. ClockLimit <= q
    BY <1>2, <2>1
  <2> QED
    BY <1>1, <1>2, <1>3, <1>4, <1>8, <2>1, <2>2
<1>9. CASE t > b \div ClockLimit
  <2>1. n < ClockLimit /\ q <= ClockLimit
    BY <1>1, <1>2, <1>5, <1>9, ClockAssumption
  <2>2. CASE t >= b \div 2
    <3>1. n < 2 \/ q = 2
      BY <1>1, <1>2, <1>6, <2>2
    <3> QED
      BY <1>3, <1>4, <1>9, <2>1, <2>2, <3>1
  <2>3. CASE t < b \div 2
    <3>1. ~(n < 2) /\ ~(t >= b \div 2)
      BY <1>1, <1>7, <2>3
    <3> QED
      BY <1>1, <1>3, <1>4, <1>9, <2>1, <2>3, <3>1
  <2> QED
    BY <1>1, <2>2, <2>3
<1> QED
  BY <1>1, <1>8, <1>9

\* I2C clears the lowest bit; auxiliary SPI halves first.
LEMMA InRangeIsBest ==
  ASSUME NEW b \in Nat \ {0}, NEW t \in Nat \ {0}, 2 * t <= b, t > b \div ClockLimit
  PROVE  I2cDivisor(b, t) = EvenNotSlower(b, t) /\ AuxDivisor(b, t) = EvenNotSlower(b, t)
<1> DEFINE n == b \div t
           d == b \div (2 * t)
<1>1. n \in Nat /\ n >= 2
  <2>1. t * 2 <= b <=> 2 <= n
    BY BelowQuotient
  <2> QED
    BY <2>1, Quotient
<1>2. n < ClockLimit
  BY AboveSlowest, ClockAssumption, Quotient
<1>3. Even(n) <= n
  BY <1>1, EvenBelow
<1>4. EvenNotSlower(b, t) = Even(n)
  <2>1. Even(n) \in Nat
    BY <1>1, EvenBelow
  <2> QED
    <3> HIDE DEF n
    <3>1. ~(n < 2) /\ Even(n) <= ClockLimit
      BY <1>1, <1>2, <1>3, <2>1, ClockAssumption
    <3> QED
      BY <3>1, EvenNotSlowerIs DEF n
<1>5. d \in Nat /\ 2 * t * d <= b /\ b < 2 * t * d + 2 * t
  BY Quotient
<1> HIDE DEF d
<1>6. t * (2 * d) <= b /\ ~(t * (2 * d + 2) <= b)
  <2>1. t * (2 * d) = 2 * t * d /\ t * (2 * d + 2) = 2 * t * d + 2 * t
    BY <1>5
  <2> QED
    BY <1>5, <2>1
<1>7. 2 * d <= n /\ ~(2 * d + 2 <= n)
  BY <1>5, <1>6, BelowQuotient
<1> HIDE DEF n
<1>8. Even(n) = 2 * d
  BY <1>1, <1>5, <1>7 DEF Even
<1> QED
  BY <1>4, <1>8 DEF I2cDivisor, AuxDivisor, n, d

\* The same among all numbers.
FitNumbers(b, t) == {d \in 2 .. b : b >= t * d}
NotSlowerThan(b, t) ==
  IF FitNumbers(b, t) = {} THEN Fastest(2 .. b) ELSE Slowest(FitNumbers(b, t))

\* The Pi's SD host takes the quotient.
LEMMA RpiSdIsBest ==
  ASSUME NEW b \in Nat \ {0}, NEW t \in Nat \ {0}, 2 * t <= b
  PROVE  RpiSdDivisor(b, t) = NotSlowerThan(b, t)
<1> DEFINE n == b \div t
           k == (b - (2 * t)) \div t
<1>1. n \in Nat /\ n >= 2 /\ n <= b
  <2>1. t * 2 <= b <=> 2 <= n
    BY BelowQuotient
  <2>2. n \in Nat /\ t * n <= b
    BY Quotient
  <2>3. 1 * n <= t * n
    <3>1. n * 1 <= n * t
      BY <2>2, Products
    <3> QED
      BY <2>2, <3>1
  <2> QED
    BY <2>1, <2>2, <2>3
<1>2. k \in Nat /\ t * k <= b - 2 * t /\ b - 2 * t < t * k + t
  <2>1. b - 2 * t \in Nat
    OBVIOUS
  <2> QED
    BY <2>1, Quotient
<1>3. k + 2 = n
  <2> HIDE DEF k
  <2>1. t * (k + 2) = t * k + 2 * t /\ t * (k + 3) = t * k + 3 * t
    BY <1>2
  <2>2. t * (k + 2) <= b /\ ~(t * (k + 3) <= b)
    BY <1>2, <2>1
  <2>3. k + 2 <= n /\ ~(k + 3 <= n)
    BY <1>2, <2>2, BelowQuotient
  <2> QED
    BY <1>1, <1>2, <2>3
<1>4. n \in FitNumbers(b, t) /\ FitNumbers(b, t) \subseteq Int /\ \A e \in FitNumbers(b, t) : n >= e
  <2>1. ASSUME NEW e \in 2 .. b PROVE b >= t * e <=> e <= n
    <3>1. e \in Nat /\ t * e \in Nat
      OBVIOUS
    <3> QED
      BY <3>1, BelowQuotient
  <2> HIDE DEF n
  <2>2. n \in 2 .. b
    BY <1>1
  <2> QED
    BY <1>1, <2>1, <2>2 DEF FitNumbers
<1> HIDE DEF n
<1>5. Slowest(FitNumbers(b, t)) = n
  BY <1>4, SlowestIs
<1> QED
  BY <1>3, <1>4, <1>5 DEF RpiSdDivisor, NotSlowerThan

\* A frequency is set: which divisor is the best depends on the driver.
LEMMA BestDivisor ==
  ASSUME NEW b, NEW t, NEW d, NEW by, clock' = [by |-> by, base |-> b, target |-> t, divisor |-> d],
         \/ by = "emmc2 even" /\ d = IF b > t * ClockLimit THEN None ELSE EvenNotFaster(b, t)
         \/ by = "emmc2 power" /\ d = IF b \div 256 > t THEN None ELSE PowerNotFaster(b, t)
         \/ by = "arasan even" /\ d = EvenNotFaster(b, t)
         \/ by = "arasan power" /\ d = PowerNotFaster(b, t)
         \/ by \in {"spi", "aux", "i2c"} /\ d = EvenNotSlower(b, t)
         \/ by = "rpisd" /\ d = NotSlowerThan(b, t)
         \/ by = "pl011" /\ (d # None => t * d <= 4 * b /\ 4 * b < t * (d + 1))
         \/ by = "miniuart" /\ MiniUartNotFaster(b, t, d)
  PROVE  DivisorIsBest'
<1>1. clock'.by = by /\ clock'.base = b /\ clock'.target = t /\ clock'.divisor = d
  OBVIOUS
<1>2. /\ NotFasterExactly({1} \cup Evens)' = EvenNotFaster(b, t)
      /\ NotFaster(Powers)' = PowerNotFaster(b, t)
      /\ NotSlower(Evens)' = EvenNotSlower(b, t)
      /\ NotSlower(2 .. clock.base)' = NotSlowerThan(b, t)
  BY <1>1, Zenon DEF NotFasterExactly, NotFaster, NotSlower, EvenNotFaster, PowerNotFaster,
     EvenNotSlower, NotSlowerThan, EnoughEvens, EnoughPowers, FitEvens, FitNumbers
<1>3. CASE by = "emmc2 even"
  BY <1>1, <1>2, <1>3 DEF DivisorIsBest
<1>4. CASE by = "emmc2 power"
  BY <1>1, <1>2, <1>4 DEF DivisorIsBest
<1>5. CASE by = "arasan even"
  BY <1>1, <1>2, <1>5 DEF DivisorIsBest
<1>6. CASE by = "arasan power"
  BY <1>1, <1>2, <1>6 DEF DivisorIsBest
<1>7. CASE by \in {"spi", "aux", "i2c"}
  BY <1>1, <1>2, <1>7 DEF DivisorIsBest
<1>8. CASE by = "rpisd"
  BY <1>1, <1>2, <1>8 DEF DivisorIsBest
<1>9. CASE by = "pl011"
  BY <1>1, <1>9 DEF DivisorIsBest
<1>10. CASE by = "miniuart"
  BY <1>1, <1>10 DEF DivisorIsBest
<1> QED
  BY <1>3, <1>4, <1>5, <1>6, <1>7, <1>8, <1>9, <1>10

\* PL011 takes the quotient in 64ths.
LEMMA Pl011IsBest ==
  ASSUME NEW b \in Nat \ {0}, NEW t \in Nat \ {0}, Pl011Divisor(b, t) # None
  PROVE  t * Pl011Divisor(b, t) <= 4 * b /\ 4 * b < t * (Pl011Divisor(b, t) + 1)
<1> DEFINE d == (b * 4) \div t
<1>1. Pl011Divisor(b, t) = d
  BY DEF Pl011Divisor
<1>2. b * 4 \in Nat /\ b * 4 = 4 * b
  OBVIOUS
<1>3. d \in Nat /\ t * d <= 4 * b /\ 4 * b < t * d + t
  BY <1>2, Quotient
<1> HIDE DEF d
<1>4. t * (d + 1) = t * d + t
  BY <1>3
<1> QED
  BY <1>1, <1>3, <1>4

\* A quotient that fits in 16 bits, and in its sign.
LEMMA ShortFits ==
  ASSUME NEW q \in Nat, q < ShortLimit
  PROVE  q % (2 * ShortLimit) = q /\ (q + 1) % (2 * ShortLimit) = q + 1
<1>1. ShortLimit = 32768 /\ 2 * ShortLimit = 65536
  BY DEF ShortLimit
<1> QED
  BY <1>1

\* The mini UART takes the quotient, perhaps plus one, where the register has one more than that.
LEMMA MiniUartIsSlower ==
  ASSUME NEW b \in Nat \ {0}, NEW t \in Nat \ {0}
  PROVE  MiniUartNotFaster(b, t, MiniUartDivisor(b, t))
<1> DEFINE n == t * 8
           q == b \div n
           d == MiniUartDivisor(b, t)
<1> SUFFICES ASSUME d # None, q < ShortLimit PROVE b < n * d /\ n * (d - 2) <= b
  BY DEF MiniUartNotFaster
<1>1. n \in Nat \ {0}
  OBVIOUS
<1>2. q \in Nat /\ n * q <= b /\ b < n * q + n
  BY <1>1, Quotient
<1>3. d = q + 1 \/ d = q + 2
  <2> DEFINE quotient == q % (2 * ShortLimit)
  <2>1. quotient = q /\ (quotient + 1) % (2 * ShortLimit) = q + 1
    BY <1>2, ShortFits
  <2>2. d = quotient + 1 \/ d = ((quotient + 1) % (2 * ShortLimit)) + 1
    BY DEF MiniUartDivisor
  <2> QED
    BY <1>2, <2>1, <2>2
<1> HIDE DEF n, q, d
<1>4. n * (q + 1) = n * q + n /\ n * (q + 2) = n * q + n + n
  BY <1>1, <1>2
<1>5. n * (q - 1) = n * q - n /\ n * q \in Nat
  BY <1>1, <1>2
<1> QED
  BY <1>1, <1>2, <1>3, <1>4, <1>5

\* Every setting of a clock is the best.
LEMMA ClockStep == DivisorIsBest /\ [ClockNext]_clock => DivisorIsBest'
<1> SUFFICES ASSUME DivisorIsBest, [ClockNext]_clock PROVE DivisorIsBest'
  OBVIOUS
<1>1. ClockBases \subseteq Nat \ {0} /\ ClockTargets \subseteq Nat \ {0}
      /\ UartClocks \subseteq Nat \ {0} /\ UartBauds \subseteq Nat \ {0}
  BY ClockAssumption
<1>2. CASE UNCHANGED clock
  BY <1>2, Zenon DEF DivisorIsBest, NotFasterExactly, NotFaster, NotSlower
<1>3. CASE SetClock(TRUE) \/ SetClock(FALSE)
  <2>1. CASE SetClock(TRUE)
    <3>1. PICK b \in ClockBases, t \in ClockTargets :
            clock' = [by |-> "emmc2 even", base |-> b, target |-> t,
                      divisor |-> Emmc2EvenDivisor(b, t)]
      BY <2>1 DEF SetClock, Divide
    <3> QED
      BY <1>1, <3>1, Emmc2EvenIsBest, BestDivisor
  <2>2. CASE SetClock(FALSE)
    <3>1. PICK b \in ClockBases, t \in ClockTargets :
            clock' = [by |-> "emmc2 power", base |-> b, target |-> t,
                      divisor |-> Emmc2PowerDivisor(b, t)]
      BY <2>2 DEF SetClock, Divide
    <3> QED
      BY <1>1, <3>1, Emmc2PowerIsBest, BestDivisor
  <2> QED
    BY <1>3, <2>1, <2>2
<1>4. CASE SdhcCalcClockFrequency(TRUE) \/ SdhcCalcClockFrequency(FALSE)
  <2>1. CASE SdhcCalcClockFrequency(TRUE)
    <3>1. PICK b \in ClockBases, t \in ClockTargets :
            clock' = [by |-> "arasan even", base |-> b, target |-> t,
                      divisor |-> ArasanEvenDivisor(b, t)]
      BY <2>1 DEF SdhcCalcClockFrequency, Divide
    <3> QED
      BY <1>1, <3>1, ArasanEvenIsBest, BestDivisor
  <2>2. CASE SdhcCalcClockFrequency(FALSE)
    <3>1. PICK b \in ClockBases, t \in ClockTargets :
            clock' = [by |-> "arasan power", base |-> b, target |-> t,
                      divisor |-> ArasanPowerDivisor(b, t)]
      BY <2>2 DEF SdhcCalcClockFrequency, Divide
    <3> QED
      BY <1>1, <3>1, ArasanPowerIsBest, BestDivisor
  <2> QED
    BY <1>4, <2>1, <2>2
<1>5. CASE setClock
  <2>1. PICK b \in ClockBases, t \in ClockTargets :
          2 * t <= b /\ clock' = [by |-> "rpisd", base |-> b, target |-> t,
                                  divisor |-> RpiSdDivisor(b, t)]
    BY <1>5 DEF setClock, Divide
  <2> QED
    BY <1>1, <2>1, RpiSdIsBest, BestDivisor
<1>6. CASE ControllerConfigClock
  <2>1. PICK b \in ClockBases, t \in ClockTargets :
          clock' = [by |-> "spi", base |-> b, target |-> t, divisor |-> SpiDivisor(b, t)]
    BY <1>6 DEF ControllerConfigClock, Divide
  <2> QED
    BY <1>1, <2>1, SpiIsBest, BestDivisor
<1>7. CASE computeControlRegisters
  <2>1. PICK b \in ClockBases, t \in InRange :
          clock' = [by |-> "aux", base |-> b, target |-> t, divisor |-> AuxDivisor(b, t)]
    BY <1>7 DEF computeControlRegisters, Divide
  <2>2. t \in ClockTargets /\ 2 * t <= b /\ t > b \div ClockLimit
    BY DEF InRange
  <2> QED
    BY <1>1, <2>1, <2>2, InRangeIsBest, BestDivisor
<1>8. CASE initializeTransfer
  <2>1. PICK b \in ClockBases, t \in InRange :
          clock' = [by |-> "i2c", base |-> b, target |-> t, divisor |-> I2cDivisor(b, t)]
    BY <1>8 DEF initializeTransfer, Divide
  <2>2. t \in ClockTargets /\ 2 * t <= b /\ t > b \div ClockLimit
    BY DEF InRange
  <2> QED
    BY <1>1, <2>1, <2>2, InRangeIsBest, BestDivisor
<1>9. CASE PL011HwSetBaudRate
  <2>1. PICK b \in UartClocks, t \in UartBauds :
          clock' = [by |-> "pl011", base |-> b, target |-> t, divisor |-> Pl011Divisor(b, t)]
    BY <1>9 DEF PL011HwSetBaudRate, Divide
  <2> QED
    BY <1>1, <2>1, Pl011IsBest, BestDivisor
<1>10. CASE SerialGetDivisorFromBaud
  <2>1. PICK b \in UartClocks, t \in UartBauds :
          clock' = [by |-> "miniuart", base |-> b, target |-> t, divisor |-> MiniUartDivisor(b, t)]
    BY <1>10 DEF SerialGetDivisorFromBaud, Divide
  <2> QED
    BY <1>1, <2>1, MiniUartIsSlower, BestDivisor
<1> QED
  BY <1>2, <1>3, <1>4, <1>5, <1>6, <1>7, <1>8, <1>9, <1>10 DEF ClockNext

\* Nothing is set at first.
LEMMA ClockInitially == ClockInit => DivisorIsBest
BY DEF ClockInit, DivisorIsBest

-----------------------------------------------------------------------------
(* The host of the Pi 4.                                                   *)

EmmcFields == {"stage", "type", "read", "length", "phase", "blocks", "required", "status", "dma",
               "desc", "endAt", "bounce", "events", "is", "errorsOn", "command", "complete", "left",
               "port", "moved", "early", "last", "regulator", "signaling", "misled"}

\* The fields, and what the voltages are.
EmmcTyped(s) ==
  /\ DOMAIN s = EmmcFields
  /\ s.regulator \in BOOLEAN /\ s.signaling \in BOOLEAN /\ s.misled \in BOOLEAN

\* The invariant.
EmmcInv == EmmcTyped(emmc) /\ EmmcSignaling

\* The step leaves regulator and register alone.
EmmcApart(s, t) ==
  DOMAIN t = EmmcFields /\ t.regulator = s.regulator /\ t.signaling = s.signaling
    /\ t.misled = s.misled

\* Such a step keeps the invariant.
LEMMA EmmcApartKept == ASSUME EmmcInv, EmmcApart(emmc, emmc') PROVE EmmcInv'
BY DEF EmmcInv, EmmcApart, EmmcTyped, EmmcSignaling

\* The driver starts in the invariant, ...
LEMMA EmmcInitially == EmmcInit => EmmcInv
BY DEF EmmcInit, EmmcInv, EmmcTyped, EmmcSignaling, EmmcFields

\* A command, and a DMA transfer that is prepared for it.
LEMMA EmmcSendCommandIs ==
  ASSUME NEW s, EmmcTyped(s), NEW t \in EmmcSendCommand(s)
  PROVE  EmmcApart(s, t)
<1> DEFINE r == {"command"} \cup (CASE s.type = "busy" -> {"complete"}
                                    [] s.type = "data" -> {"ready"}
                                    [] OTHER -> {})
           n == IF s.type = "data" THEN s.length ELSE 0
           c == [s EXCEPT !.dma = "none", !.command = TRUE, !.complete = s.type = "busy",
                          !.blocks = n, !.left = n, !.port = FALSE, !.required = r]
<1>1. t = c \/ \E p \in CommandShouldUseDma(c) : t = SetUpDma(p[1]) \/ t = p[1]
  <2>1. t \in IF s.type = "data"
              THEN {IF p[2] THEN SetUpDma(p[1]) ELSE p[1] : p \in CommandShouldUseDma(c)}
              ELSE {c}
    BY DEF EmmcSendCommand
  <2> HIDE DEF c
  <2> QED
    BY <2>1
<1> HIDE DEF r, n
<1>2. EmmcApart(s, c)
  BY DEF EmmcTyped, EmmcApart, EmmcFields
<1> HIDE DEF c
<1>3. ASSUME NEW p \in CommandShouldUseDma(c) PROVE EmmcApart(s, p[1])
  <2> DEFINE d == Descriptors((c.length + PageBlocks - 1) \div PageBlocks)
             a == [c EXCEPT !.desc = d, !.endAt = 0]
  <2>1. p[1] = c \/ p[1] = a
    <3>1. p = <<c, FALSE>> \/ p = <<c, TRUE>> \/ \E u \in AllocateDmaBuffers(c) : p = <<u, TRUE>>
      <4> DEFINE room == PageBlocks * Cardinality(DOMAIN c.desc)
                 S == {<<c, FALSE>>} \cup {<<u, TRUE>> : u \in AllocateDmaBuffers(c)}
      <4>1. p \in CASE c.length <= EmmcThreshold -> {<<c, FALSE>>}
                     [] c.length > EmmcThreshold /\ c.length <= room -> {<<c, TRUE>>}
                     [] OTHER -> S
        BY DEF CommandShouldUseDma
      <4> HIDE DEF room, S
      <4>2. p \in {<<c, FALSE>>} \/ p \in {<<c, TRUE>>} \/ p \in S
        BY <4>1
      <4> QED
        BY <4>2 DEF S
    <3>2. \A u \in AllocateDmaBuffers(c) : u = a
      BY DEF AllocateDmaBuffers
    <3> HIDE DEF a
    <3>3. <<c, FALSE>>[1] = c /\ <<c, TRUE>>[1] = c /\ <<a, TRUE>>[1] = a
      OBVIOUS
    <3> QED
      BY <3>1, <3>2, <3>3, Zenon
  <2> HIDE DEF d
  <2>2. EmmcApart(s, a)
    BY <1>2 DEF EmmcApart, EmmcFields
  <2> QED
    BY <1>2, <2>1, <2>2
<1>4. ASSUME NEW u, EmmcApart(s, u) PROVE EmmcApart(s, SetUpDma(u))
  <2> DEFINE v == EndDescriptor(u)
  <2>1. EmmcApart(s, v)
    BY <1>4 DEF EndDescriptor, EmmcApart, EmmcFields
  <2> HIDE DEF v
  <2> QED
    BY <2>1 DEF SetUpDma, EmmcApart, EmmcFields, v
<1> QED
  BY <1>1, <1>2, <1>3, <1>4

\* ... and every step keeps it.
LEMMA EmmcStep == EmmcInv /\ [EmmcNext]_emmc => EmmcInv'
<1> SUFFICES ASSUME EmmcInv, [EmmcNext]_emmc PROVE EmmcInv'
  OBVIOUS
<1>1. EmmcTyped(emmc)
  BY DEF EmmcInv
<1>2. CASE UNCHANGED emmc
  BY <1>2 DEF EmmcInv, EmmcTyped, EmmcSignaling
<1>3. CASE EmmcIssueRequest
  <2>1. ASSUME NEW t, NEW r, NEW n,
               emmc' \in EmmcSendCommand([emmc EXCEPT !.stage = "issued", !.type = t,
                 !.read = r, !.length = n, !.phase = "command", !.status = "none",
                 !.moved = 0, !.early = FALSE, !.last = "none"])
        PROVE  EmmcApart(emmc, emmc')
    <3> DEFINE s == [emmc EXCEPT !.stage = "issued", !.type = t,
                 !.read = r, !.length = n, !.phase = "command", !.status = "none",
                 !.moved = 0, !.early = FALSE, !.last = "none"]
    <3>1. EmmcTyped(s) /\ EmmcApart(emmc, s)
      BY <1>1 DEF EmmcTyped, EmmcApart, EmmcFields
    <3>2. emmc' \in EmmcSendCommand(s)
      BY <2>1
    <3> HIDE DEF s
    <3>3. EmmcApart(s, emmc')
      BY <3>1, <3>2, EmmcSendCommandIs
    <3> QED
      BY <3>1, <3>3 DEF EmmcApart
  <2>2. ASSUME emmc' = LET s == [emmc EXCEPT !.stage = "issued", !.phase = "transfer"]
                       IN  IF s.dma # "none" THEN StartDmaTransfer(s) ELSE EmmcStartPioTransfer(s)
        PROVE  EmmcApart(emmc, emmc')
    <3> DEFINE s == [emmc EXCEPT !.stage = "issued", !.phase = "transfer"]
    <3>1. EmmcApart(emmc, s)
      BY <1>1 DEF EmmcTyped, EmmcApart, EmmcFields
    <3>2. emmc' = StartDmaTransfer(s) \/ emmc' = EmmcStartPioTransfer(s)
      BY <2>2
    <3> HIDE DEF s
    <3>3. CASE emmc' = StartDmaTransfer(s)
      <4> DEFINE u == [s EXCEPT !.moved = IF s.dma = "read" THEN s.bounce ELSE @, !.dma = "none"]
      <4>1. EmmcApart(emmc, u) /\ emmc' = EmmcComplete(u, "success")
        BY <3>1, <3>3 DEF EmmcApart, EmmcFields, StartDmaTransfer
      <4> HIDE DEF u
      <4> QED
        BY <4>1 DEF EmmcComplete, EmmcApart, EmmcFields
    <3>4. CASE emmc' = EmmcStartPioTransfer(s)
      BY <3>1, <3>4 DEF EmmcStartPioTransfer, EmmcApart, EmmcFields
    <3> QED
      BY <3>2, <3>3, <3>4
  <2>3. EmmcApart(emmc, emmc')
    BY <1>3, <2>1, <2>2 DEF EmmcIssueRequest
  <2> QED
    BY <2>3, EmmcApartKept
<1>4. CASE EmmcRequestDpc
  <2> DEFINE s == [emmc EXCEPT !.events = {}]
             r == [s EXCEPT !.required = IF "error" \in emmc.events THEN {} ELSE @ \ emmc.events]
  <2>1. EmmcApart(emmc, s) /\ EmmcApart(emmc, r)
    BY <1>1 DEF EmmcTyped, EmmcApart, EmmcFields
  <2>2. emmc' = s \/ emmc' = r \/ \E status : emmc' = EmmcComplete(r, status)
    BY <1>4 DEF EmmcRequestDpc, EmmcDpc
  <2> HIDE DEF s, r
  <2>3. ASSUME NEW status, emmc' = EmmcComplete(r, status) PROVE EmmcApart(emmc, emmc')
    BY <2>1, <2>3 DEF EmmcComplete, EmmcApart, EmmcFields
  <2> QED
    BY <2>1, <2>2, <2>3, EmmcApartKept
<1>5. CASE EmmcResetHost
  <2>1. ASSUME NEW all \in BOOLEAN
        PROVE  LET h == HostSignaling(emmc, all)
               IN  /\ DOMAIN h = EmmcFields /\ h.regulator = emmc.regulator
                   /\ h.signaling = ((~all /\ emmc.signaling) \/ emmc.regulator)
                   /\ h.misled = (emmc.misled /\ ~all)
    BY <1>1 DEF HostSignaling, EmmcTyped, EmmcFields
  <2>2. PICK all \in BOOLEAN :
          /\ DOMAIN emmc' = EmmcFields /\ emmc'.regulator = HostSignaling(emmc, all).regulator
          /\ emmc'.signaling = HostSignaling(emmc, all).signaling
          /\ emmc'.misled = HostSignaling(emmc, all).misled
    <3> DEFINE h == HostSignaling(emmc, FALSE)
               k == HostSignaling(emmc, TRUE)
    <3>1. \/ emmc' = [h EXCEPT !.stage = "idle", !.is = {}, !.events = {},
                       !.command = FALSE, !.complete = FALSE, !.left = 0, !.port = FALSE,
                       !.errorsOn = TRUE]
          \/ emmc' = [k EXCEPT !.is = {}, !.events = {}, !.complete = FALSE]
      BY <1>5 DEF EmmcResetHost
    <3>2. DOMAIN h = EmmcFields /\ DOMAIN k = EmmcFields
      BY <2>1
    <3> HIDE DEF h, k
    <3>3. \/ /\ DOMAIN emmc' = EmmcFields /\ emmc'.regulator = h.regulator
             /\ emmc'.signaling = h.signaling /\ emmc'.misled = h.misled
          \/ /\ DOMAIN emmc' = EmmcFields /\ emmc'.regulator = k.regulator
             /\ emmc'.signaling = k.signaling /\ emmc'.misled = k.misled
      BY <3>1, <3>2 DEF EmmcFields
    <3> QED
      BY <3>3 DEF h, k
  <2>3. /\ DOMAIN emmc' = EmmcFields /\ emmc'.regulator = emmc.regulator
        /\ emmc'.signaling = ((~all /\ emmc.signaling) \/ emmc.regulator)
        /\ emmc'.misled = (emmc.misled /\ ~all)
    BY <2>1, <2>2
  <2> QED
    BY <1>1, <2>3, Zenon DEF EmmcInv, EmmcTyped, EmmcSignaling
<1>6. CASE \E v \in BOOLEAN : SetSignalingVoltage(v)
  <2>1. PICK v \in BOOLEAN : SetSignalingVoltage(v)
    BY <1>6
  <2>2. CASE UNCHANGED emmc
    BY <2>2 DEF EmmcInv, EmmcTyped, EmmcSignaling
  <2>3. CASE ~UNCHANGED emmc
    <3>1. \E g \in BOOLEAN, n \in BOOLEAN, f \in BOOLEAN :
            /\ emmc' = [emmc EXCEPT !.regulator = g, !.signaling = n, !.misled = f]
            /\ f \/ n = g
      <4> DEFINE set == [emmc EXCEPT !.regulator = v]
                 t(g, n, f) == [emmc EXCEPT !.regulator = g, !.signaling = n, !.misled = f]
      <4>1. \/ \E g \in {emmc.regulator, v} :
                 emmc' = [set EXCEPT !.regulator = g, !.misled = TRUE]
            \/ \E g \in {emmc.regulator, v} :
                 emmc' = [set EXCEPT !.signaling = v, !.regulator = g, !.misled = TRUE]
            \/ emmc' = [set EXCEPT !.signaling = v, !.misled = FALSE]
        BY <2>1, <2>3 DEF SetSignalingVoltage
      <4>2. ASSUME NEW g PROVE /\ [set EXCEPT !.regulator = g, !.misled = TRUE]
                                    = t(g, emmc.signaling, TRUE)
                               /\ [set EXCEPT !.signaling = v, !.regulator = g, !.misled = TRUE]
                                    = t(g, v, TRUE)
        BY <1>1 DEF EmmcTyped, EmmcFields
      <4>3. [set EXCEPT !.signaling = v, !.misled = FALSE] = t(v, v, FALSE)
        BY <1>1 DEF EmmcTyped, EmmcFields
      <4> HIDE DEF set, t
      <4>4. \E g \in BOOLEAN, n \in BOOLEAN, f \in BOOLEAN : emmc' = t(g, n, f) /\ (f \/ n = g)
        <5>1. emmc.regulator \in BOOLEAN /\ emmc.signaling \in BOOLEAN /\ v \in BOOLEAN
          BY <1>1 DEF EmmcTyped
        <5>2. ASSUME NEW g \in {emmc.regulator, v}, emmc' = t(g, emmc.signaling, TRUE)
              PROVE  \E n \in BOOLEAN : emmc' = t(g, n, TRUE) /\ g \in BOOLEAN
          BY <5>1, <5>2
        <5>3. ASSUME NEW g \in {emmc.regulator, v}, emmc' = t(g, v, TRUE)
              PROVE  \E n \in BOOLEAN : emmc' = t(g, n, TRUE) /\ g \in BOOLEAN
          BY <5>1, <5>3
        <5>4. \/ \E g \in BOOLEAN, n \in BOOLEAN : emmc' = t(g, n, TRUE)
              \/ emmc' = t(v, v, FALSE)
          BY <4>1, <4>2, <4>3, <5>2, <5>3
        <5> QED
          BY <5>1, <5>4
      <4> QED
        BY <4>4 DEF t
    <3>2. PICK g \in BOOLEAN, n \in BOOLEAN, f \in BOOLEAN :
            /\ emmc' = [emmc EXCEPT !.regulator = g, !.signaling = n, !.misled = f]
            /\ f \/ n = g
      BY <3>1
    <3>3. DOMAIN emmc' = EmmcFields /\ emmc'.regulator = g /\ emmc'.signaling = n /\ emmc'.misled = f
      BY <1>1, <3>2 DEF EmmcTyped, EmmcFields
    <3> QED
      BY <3>2, <3>3, Zenon DEF EmmcInv, EmmcTyped, EmmcSignaling
  <2> QED
    BY <2>2, <2>3
<1>7. CASE EmmcSlotInterrupt \/ EmmcToggleEvents \/ EmmcSdportTimeout
             \/ EmmcResponds \/ EmmcBlock \/ EmmcDma \/ EmmcDone \/ EmmcError
  <2>1. ASSUME EmmcSlotInterrupt \/ EmmcToggleEvents \/ EmmcSdportTimeout PROVE EmmcApart(emmc, emmc')
    BY <1>1, <2>1 DEF EmmcTyped, EmmcApart, EmmcFields, EmmcSlotInterrupt, EmmcToggleEvents,
       EmmcSdportTimeout
  <2>2. ASSUME EmmcResponds \/ EmmcBlock PROVE EmmcApart(emmc, emmc')
    BY <1>1, <2>2 DEF EmmcTyped, EmmcApart, EmmcFields, EmmcResponds, EmmcBlock
  <2>3. ASSUME EmmcDma \/ EmmcDone PROVE EmmcApart(emmc, emmc')
    BY <1>1, <2>3 DEF EmmcTyped, EmmcApart, EmmcFields, EmmcDma, EmmcDone
  <2>4. ASSUME EmmcError PROVE EmmcApart(emmc, emmc')
    BY <1>1, <2>4 DEF EmmcTyped, EmmcApart, EmmcFields, EmmcError
  <2> QED
    BY <1>7, <2>1, <2>2, <2>3, <2>4, EmmcApartKept
<1> QED
  BY <1>2, <1>3, <1>4, <1>5, <1>6, <1>7 DEF EmmcNext

-----------------------------------------------------------------------------
(* The system.                                                             *)

\* The invariants of the six drivers; the setting of a clock needs no other than what is said of it.
PeripheralInv == I2cInv /\ AuxInv /\ SpiInv /\ SdhcInv /\ SdInv /\ EmmcInv /\ DivisorIsBest

\* A step of the system is a step of a driver, or leaves it alone.
LEMMA PeripheralSteps ==
  ASSUME [PeripheralNext]_peripheralVars
  PROVE  [Next]_vars /\ [AuxNext]_aux /\ [SpiNext]_spi /\ [SdhcNext]_sdhc /\ [SdNext]_sd
         /\ [EmmcNext]_emmc /\ [ClockNext]_clock
BY DEF PeripheralNext, peripheralVars

\* The drivers start in their invariants and every step keeps them.
THEOREM PeripheralInvariant == PeripheralSpec => []PeripheralInv
<1>1. PeripheralInit => PeripheralInv
  BY I2cInitially, AuxInitially, SpiInitially, SdhcInitially, SdInitially, EmmcInitially, ClockInitially DEF PeripheralInit,
     PeripheralInv
<1>2. PeripheralInv /\ [PeripheralNext]_peripheralVars => PeripheralInv'
  BY PeripheralSteps, I2cStep, AuxStep, SpiStep, SdhcStep, SdStep, EmmcStep, ClockStep DEF PeripheralInv
<1> QED
  BY <1>1, <1>2, PTL DEF PeripheralSpec

\* SpbRequestComplete is called once for a request of the I2C driver (i2c.cpp), unless an
\* interrupt or DPC outlived the request it was for; SdPortCompleteRequest of the Pi's SD host only
\* by who has the request, and no request is given to a worker that has one (rpisdhc.cpp).
THEOREM RequestsCompletedOnceHolds == PeripheralSpec => []RequestsCompletedOnce
<1>1. PeripheralInv => RequestsCompletedOnce
  BY I2cInvGives, SdInvGives DEF PeripheralInv, RequestsCompletedOnce
<1> QED
  BY <1>1, PeripheralInvariant, PTL

\* "Interrupts should be disabled when the DPC is invoked" (i2c.cpp, bcmauxspi.cpp), as long as
\* no interrupt or DPC outlives the request it was for.
THEOREM InterruptsOffHolds == PeripheralSpec => []InterruptsOff
<1>1. PeripheralInv => InterruptsOff
  BY I2cInvGives, AuxInvGives DEF PeripheralInv, InterruptsOff
<1> QED
  BY <1>1, PeripheralInvariant, PTL

\* Chip select is active while data moves and as long as the bus is locked, its line is the
\* target's, and it is released when the request or the lock ends (bcmauxspi.cpp, and device.cpp
\* and controller.cpp of the main SPI).
THEOREM ChipSelectIsHeld == PeripheralSpec => []ChipSelectHeld
<1>1. PeripheralInv => ChipSelectHeld
  BY AuxInvGives, SpiInvGives DEF PeripheralInv, ChipSelectHeld
<1> QED
  BY <1>1, PeripheralInvariant, PTL

\* Also after a failed mapping or a cancellation, no NT_ASSERT of the main SPI driver's callbacks
\* and thread fails (device.cpp, controller.cpp; nothing is said of the two that a failed mapping
\* trips itself), and none of the driver of the Arasan host as long as no
\* internal request is forgotten (bcm2836sdhc.c).
THEOREM AssertionsAlwaysHold == PeripheralSpec => []AssertionsHold
<1>1. PeripheralInv => AssertionsHold
  BY SpiInvGives, SdhcInvGives DEF PeripheralInv, AssertionsHold
<1> QED
  BY <1>1, PeripheralInvariant, PTL

\* Every divisor is the best the controller has: the SD hosts of Arasan and eMMC2 at or below the
\* frequency asked for, the others at or above it, as close as can be; and as long as no switch of
\* the voltage failed half-way, the eMMC2 host signals at the regulator's voltage, also after every
\* reset (SetClock, SdhcCalcClockFrequency, setClock, ControllerConfigClock, computeControlRegisters,
\* initializeTransfer, PL011HwSetBaudRate, HostSignaling).
THEOREM SettingsAlwaysMatch == PeripheralSpec => []SettingsMatch
<1>1. PeripheralInv => SettingsMatch
  BY DEF PeripheralInv, EmmcInv, SettingsMatch
<1> QED
  BY <1>1, PeripheralInvariant, PTL

-----------------------------------------------------------------------------
(* The bounce buffers of the USB filter.                                   *)

Steps == {"idle", "refused", "got", "mapped", "moved", "copied", "done"}

Contents == {UbEmpty} \cup ({"user", "device"} \X UbTransfers)

UbType ==
  ubn \in [adapter : {"none", "made", "put"},
           stack : [UbIndexes -> UbIndexes \cup {UbNone}], top : 0 .. UbBuffers,
           content : [UbIndexes -> Contents], mdl : [UbIndexes -> UbTransfers \cup {"none"}],
           pc : [UbTransfers -> Steps], buffer : [UbTransfers -> UbIndexes \cup {UbNone}],
           writes : [UbTransfers -> BOOLEAN], memory : [UbTransfers -> Contents],
           seen : [UbTransfers -> Contents], upset : SUBSET {"put adapter", "put list"}]

\* Without an adapter nothing is mapped.
NothingHeld == ubn.adapter # "made" => UbHolding = {}

\* The stack and the transfers under way share the buffers.
BuffersShared ==
  ubn.adapter = "made" =>
    /\ ubn.upset = {}
    /\ \A t \in UbHolding : ubn.buffer[t] \in UbIndexes
    /\ \A t, u \in UbHolding : ubn.buffer[t] = ubn.buffer[u] => t = u
    /\ \A i \in 0 .. ubn.top - 1 : ubn.stack[i] \in UbIndexes
    /\ \A i, j \in 0 .. ubn.top - 1 : ubn.stack[i] = ubn.stack[j] => i = j
    /\ \A t \in UbHolding, i \in 0 .. ubn.top - 1 : ubn.buffer[t] # ubn.stack[i]
    /\ \A b \in UbIndexes : \/ \E t \in UbHolding : ubn.buffer[t] = b
                            \/ \E i \in 0 .. ubn.top - 1 : ubn.stack[i] = b

\* As many as there are: this keeps the stack below its top while a transfer is under way.
BuffersCounted ==
  /\ IsFiniteSet(UbHolding)
  /\ ubn.adapter = "made" => Cardinality(UbHolding) + ubn.top = UbBuffers

\* Where the data of a transfer is at each step, for one that writes and one that reads.
DataAt(t) ==
  LET pc == ubn.pc[t]
      b == ubn.buffer[t]
  IN /\ pc \in {"mapped", "moved"} => ubn.mdl[b] = t
     /\ ubn.writes[t] =>
          /\ ubn.memory[t] = <<"user", t>>
          /\ pc = "mapped" => ubn.content[b] = <<"user", t>>
          /\ pc \in {"moved", "copied", "done"} => ubn.seen[t] = <<"user", t>>
     /\ ~ubn.writes[t] =>
          /\ pc = "moved" => ubn.content[b] = <<"device", t>>
          /\ pc \in {"copied", "done"} => ubn.memory[t] = <<"device", t>>

DataInPlace == \A t \in UbTransfers : DataAt(t)

UbInv == UbType /\ NothingHeld /\ BuffersShared /\ BuffersCounted /\ DataInPlace

-----------------------------------------------------------------------------
(* Initially no transfer is under way. *)
LEMMA UbInitially == UbnInit => UbInv
<1> SUFFICES ASSUME UbnInit PROVE UbInv
  OBVIOUS
<1>1. UbBuffers \in Nat
  BY UbAssumption
<1>2. UbType
  <2>1. PICK writes \in [UbTransfers -> BOOLEAN] :
          ubn = [adapter |-> "none", stack |-> [i \in UbIndexes |-> UbNone], top |-> 0,
                 content |-> [b \in UbIndexes |-> UbEmpty],
                 mdl |-> [b \in UbIndexes |-> "none"],
                 pc |-> [t \in UbTransfers |-> "idle"],
                 buffer |-> [t \in UbTransfers |-> UbNone],
                 writes |-> writes, memory |-> [t \in UbTransfers |-> <<"user", t>>],
                 seen |-> [t \in UbTransfers |-> UbEmpty], upset |-> {}]
    BY DEF UbnInit
  <2>2. \A t \in UbTransfers : <<"user", t>> \in Contents
    BY DEF Contents
  <2>3. UbEmpty \in Contents
    BY DEF Contents
  <2>4. 0 \in 0 .. UbBuffers
    BY <1>1
  <2>5. /\ ubn.stack \in [UbIndexes -> UbIndexes \cup {UbNone}]
        /\ ubn.mdl \in [UbIndexes -> UbTransfers \cup {"none"}]
        /\ ubn.pc \in [UbTransfers -> Steps]
        /\ ubn.buffer \in [UbTransfers -> UbIndexes \cup {UbNone}]
    BY <2>1 DEF Steps
  <2>6. /\ ubn.content \in [UbIndexes -> Contents] /\ ubn.seen \in [UbTransfers -> Contents]
        /\ ubn.memory \in [UbTransfers -> Contents]
    BY <2>1, <2>2, <2>3
  <2>7. ubn = [adapter |-> ubn.adapter, stack |-> ubn.stack, top |-> ubn.top,
               content |-> ubn.content, mdl |-> ubn.mdl, pc |-> ubn.pc, buffer |-> ubn.buffer,
               writes |-> ubn.writes, memory |-> ubn.memory, seen |-> ubn.seen,
               upset |-> ubn.upset]
    BY <2>1
  <2>8. /\ ubn.adapter = "none" /\ ubn.top = 0 /\ ubn.upset = {}
        /\ ubn.writes \in [UbTransfers -> BOOLEAN]
    BY <2>1
  <2> QED
    BY <2>4, <2>5, <2>6, <2>7, <2>8 DEF UbType
<1>3. UbHolding = {}
  BY DEF UbnInit, UbHolding
<1>4. NothingHeld /\ BuffersShared
  BY <1>3 DEF UbnInit, NothingHeld, BuffersShared
<1>5. BuffersCounted
  BY <1>3, FS_EmptySet DEF UbnInit, BuffersCounted
<1>6. DataInPlace
  BY DEF UbnInit, DataInPlace, DataAt
<1> QED
  BY <1>2, <1>4, <1>5, <1>6 DEF UbInv

-----------------------------------------------------------------------------
\* Every step keeps the types of the fields.
LEMMA UbTypeKept == ASSUME UbInv, UbnNext PROVE UbType'
<1>1. UbBuffers \in Nat /\ UbBuffers > 0
  BY UbAssumption
<1>2. UbType
  BY DEF UbInv
<1>3. ubn.top \in 0 .. UbBuffers
  BY <1>2 DEF UbType
<1>4. ASSUME NEW made \in 0 .. UbBuffers, Dma_CreateDmaAdapter(made) PROVE UbType'
  BY <1>1, <1>2, <1>4 DEF Dma_CreateDmaAdapter, Dma_PutDmaAdapter, UbType, UbIndexes
<1>5. CASE PutAdapter
  BY <1>1, <1>2, <1>5 DEF PutAdapter, Dma_PutDmaAdapter, UbType
<1>6. ASSUME NEW t \in UbTransfers, GetBuffer(t) PROVE UbType'
  <2>1. CASE ubn.top = 0
    BY <1>1, <1>2, <1>6, <2>1 DEF GetBuffer, UbType, Steps
  <2>2. CASE ubn.top # 0
    <3>1. ubn.top - 1 \in UbIndexes /\ ubn.top - 1 \in 0 .. UbBuffers
      BY <1>1, <1>3, <2>2 DEF UbIndexes
    <3> QED
      BY <1>1, <1>2, <1>6, <2>2, <3>1 DEF GetBuffer, UbType, Steps
  <2> QED
    BY <2>1, <2>2
<1>7. ASSUME NEW t \in UbTransfers, Dma_GetScatterGatherList(t) PROVE UbType'
  BY <1>2, <1>7, ZenonT(40) DEF Dma_GetScatterGatherList, UbType, Steps
<1>8. ASSUME NEW t \in UbTransfers, DeviceTransfers(t) PROVE UbType'
  <2>1. <<"device", t>> \in Contents
    BY DEF Contents
  <2>2. ubn.buffer[t] \in UbIndexes
    BY <1>8 DEF UbInv, NothingHeld, BuffersShared, UbHolding, DeviceTransfers
  <2> QED
    BY <1>2, <1>8, <2>1, <2>2 DEF DeviceTransfers, UbType, Steps
<1>9. ASSUME NEW t \in UbTransfers, Dma_PutScatterGatherList(t) PROVE UbType'
  <2>1. ubn.buffer[t] \in UbIndexes
    BY <1>9 DEF UbInv, NothingHeld, BuffersShared, UbHolding, Dma_PutScatterGatherList
  <2> QED
    BY <1>2, <1>9, <2>1, ZenonT(40) DEF Dma_PutScatterGatherList, UbType, Steps
<1>10. ASSUME NEW t \in UbTransfers, PutBuffer(t) PROVE UbType'
  <2>1. t \in UbHolding /\ ubn.adapter = "made"
    BY <1>10 DEF UbInv, NothingHeld, UbHolding, PutBuffer
  <2>2. Cardinality(UbHolding) \in Nat /\ Cardinality(UbHolding) # 0
    BY <2>1, FS_CardinalityType, FS_EmptySet DEF UbInv, BuffersCounted
  <2>3. Cardinality(UbHolding) + ubn.top = UbBuffers
    BY <2>1 DEF UbInv, BuffersCounted
  <2>4. ubn.top + 1 \in 0 .. UbBuffers
    BY <1>1, <1>3, <2>2, <2>3
  <2> QED
    BY <1>2, <1>10, <2>4 DEF PutBuffer, UbType, Steps
<1>11. ASSUME NEW t \in UbTransfers, RetryTransfer(t) PROVE UbType'
  BY <1>2, <1>11 DEF RetryTransfer, UbType, Steps
<1> QED
  BY <1>4, <1>5, <1>6, <1>7, <1>8, <1>9, <1>10, <1>11 DEF UbnNext

\* A transfer under way has a buffer, and there is an adapter and a place on the stack.
LEMMA UbHolder ==
  ASSUME UbInv, NEW t \in UbHolding
  PROVE  /\ ubn.adapter = "made" /\ ubn.buffer[t] \in UbIndexes
         /\ ubn.top \in Nat /\ ubn.top < UbBuffers
<1>1. ubn.adapter = "made" /\ ubn.buffer[t] \in UbIndexes
  BY DEF UbInv, NothingHeld, BuffersShared
<1>2. Cardinality(UbHolding) \in Nat /\ Cardinality(UbHolding) # 0
  BY FS_CardinalityType, FS_EmptySet DEF UbInv, BuffersCounted
<1>3. Cardinality(UbHolding) + ubn.top = UbBuffers
  BY <1>1 DEF UbInv, BuffersCounted
<1>4. ubn.top \in 0 .. UbBuffers
  BY DEF UbInv, UbType
<1> QED
  BY <1>1, <1>2, <1>3, <1>4, UbAssumption

\* The adapter goes when nothing is mapped, with all the buffers on the stack.
LEMMA UbAdapterGoes == ASSUME UbInv, PutAdapter PROVE ubn.top = UbBuffers /\ ubn'.adapter = "put"
<1>1. UbHolding = {}
  BY DEF PutAdapter, UbHolding
<1>2. Cardinality(UbHolding) + ubn.top = UbBuffers
  BY DEF UbInv, BuffersCounted, PutAdapter
<1>3. ubn.top \in 0 .. UbBuffers
  BY DEF UbInv, UbType
<1>4. ubn.top = UbBuffers
  BY <1>1, <1>2, <1>3, FS_EmptySet
<1> QED
  BY <1>4 DEF PutAdapter, Dma_PutDmaAdapter, UbInv, UbType

\* The steps between taking a buffer and giving it back.
Moves(t) == \/ Dma_GetScatterGatherList(t) \/ DeviceTransfers(t) \/ Dma_PutScatterGatherList(t)
            \/ RetryTransfer(t)

\* They leave the buffers where they are.
LEMMA UbMoves ==
  ASSUME UbInv, ubn.upset = {}, NEW t \in UbTransfers, Moves(t)
  PROVE  /\ UbHolding' = UbHolding
         /\ ubn'.adapter = ubn.adapter /\ ubn'.top = ubn.top /\ ubn'.stack = ubn.stack
         /\ ubn'.buffer = ubn.buffer /\ ubn'.upset = {} /\ ubn'.writes = ubn.writes
<1>1. UbType
  BY DEF UbInv
<1>2. CASE Dma_GetScatterGatherList(t)
  BY <1>1, <1>2, ZenonT(40) DEF Dma_GetScatterGatherList, UbHolding, UbType
<1>3. CASE DeviceTransfers(t)
  BY <1>1, <1>3, ZenonT(40) DEF DeviceTransfers, UbHolding, UbType
<1>4. CASE Dma_PutScatterGatherList(t)
  <2>1. t \in UbHolding
    BY <1>4 DEF Dma_PutScatterGatherList, UbHolding
  <2>2. ubn.top < UbBuffers
    BY <2>1, UbHolder
  <2> QED
    BY <1>1, <1>4, <2>2, ZenonT(40) DEF Dma_PutScatterGatherList, UbHolding, UbType
<1>5. CASE RetryTransfer(t)
  BY <1>1, <1>5 DEF RetryTransfer, UbHolding, UbType
<1> QED
  BY <1>2, <1>3, <1>4, <1>5 DEF Moves

\* What taking a buffer changes.
LEMMA UbTakes ==
  ASSUME UbInv, ubn.upset = {}, NEW t \in UbTransfers, GetBuffer(t)
  PROVE  /\ ubn.adapter = "made" /\ ubn'.adapter = "made" /\ ubn'.upset = {}
         /\ ubn'.stack = ubn.stack /\ t \notin UbHolding
         /\ \/ UbHolding' = UbHolding /\ ubn'.top = ubn.top /\ ubn'.buffer = ubn.buffer
            \/ /\ UbHolding' = UbHolding \cup {t}
               /\ ubn.top # 0 /\ ubn'.top = ubn.top - 1
               /\ ubn'.buffer = [ubn.buffer EXCEPT ![t] = ubn.stack[ubn.top - 1]]
<1>1. UbType
  BY DEF UbInv
<1>2. CASE ubn.top = 0
  BY <1>1, <1>2 DEF GetBuffer, UbHolding, UbType
<1>3. CASE ubn.top # 0
  <2> DEFINE b == ubn.stack[ubn.top - 1]
             n == ubn.top - 1
  <2> HIDE DEF b, n
  <2>1. ubn' = [ubn EXCEPT !.pc[t] = "got", !.buffer[t] = b, !.top = n]
    BY <1>3 DEF GetBuffer, b, n
  <2>2. ubn'.pc = [ubn.pc EXCEPT ![t] = "got"]
    BY <1>1, <2>1 DEF UbType
  <2>3. UbHolding' = UbHolding \cup {t}
    <3>1. ubn.pc \in [UbTransfers -> Steps]
      BY <1>1 DEF UbType
    <3>2. \A u \in UbTransfers : ubn'.pc[u] = IF u = t THEN "got" ELSE ubn.pc[u]
      BY <3>1, <2>2
    <3> QED
      BY <3>2 DEF UbHolding
  <2>4. /\ ubn'.top = n /\ ubn'.buffer = [ubn.buffer EXCEPT ![t] = b]
        /\ ubn'.stack = ubn.stack /\ ubn'.adapter = ubn.adapter /\ ubn'.upset = ubn.upset
    BY <1>1, <2>1 DEF UbType
  <2> QED
    BY <1>3, <2>3, <2>4 DEF GetBuffer, UbHolding, b, n
<1> QED
  BY <1>2, <1>3

\* What giving it back changes.
LEMMA UbGivesBack ==
  ASSUME UbInv, ubn.upset = {}, NEW t \in UbTransfers, PutBuffer(t)
  PROVE  /\ t \in UbHolding /\ UbHolding' = UbHolding \ {t}
         /\ ubn'.adapter = ubn.adapter /\ ubn'.upset = {} /\ ubn'.buffer = ubn.buffer
         /\ ubn'.top = ubn.top + 1 /\ ubn'.stack = [ubn.stack EXCEPT ![ubn.top] = ubn.buffer[t]]
<1>1. UbType
  BY DEF UbInv
<1> DEFINE n == ubn.top + 1
<1> HIDE DEF n
<1>2. ubn' = [ubn EXCEPT !.pc[t] = "done", !.stack[ubn.top] = ubn.buffer[t], !.top = n]
  BY DEF PutBuffer, n
<1>3. ubn'.pc = [ubn.pc EXCEPT ![t] = "done"]
  BY <1>1, <1>2 DEF UbType
<1>4. t \in UbHolding /\ UbHolding' = UbHolding \ {t}
  BY <1>1, <1>3 DEF PutBuffer, UbHolding, UbType
<1>5. /\ ubn'.top = n /\ ubn'.buffer = ubn.buffer /\ ubn'.adapter = ubn.adapter
      /\ ubn'.upset = ubn.upset /\ ubn'.stack = [ubn.stack EXCEPT ![ubn.top] = ubn.buffer[t]]
  BY <1>1, <1>2 DEF UbType
<1> QED
  BY <1>4, <1>5 DEF n

-----------------------------------------------------------------------------
\* Every step keeps the buffers apart and counted.
LEMMA UbSharedKept ==
  ASSUME UbInv, UbnNext PROVE NothingHeld' /\ BuffersShared' /\ BuffersCounted'
<1>1. UbBuffers \in Nat /\ UbBuffers > 0 /\ ubn.upset = {}
  BY UbAssumption DEF UbnNext
<1>2. ubn.top \in 0 .. UbBuffers /\ ubn.stack \in [UbIndexes -> UbIndexes \cup {UbNone}]
  BY DEF UbInv, UbType
<1>3. ASSUME NEW made \in 0 .. UbBuffers, Dma_CreateDmaAdapter(made)
      PROVE  NothingHeld' /\ BuffersShared' /\ BuffersCounted'
  <2>1. UbHolding = {} /\ ubn.adapter = "none"
    BY <1>3 DEF UbInv, NothingHeld, Dma_CreateDmaAdapter
  <2>2. UbHolding' = {}
    BY <1>3, <2>1 DEF UbInv, UbType, Dma_CreateDmaAdapter, Dma_PutDmaAdapter, UbHolding
  <2>3. CASE made # UbBuffers
    <3>1. ubn'.adapter # "made"
      BY <1>3, <2>3 DEF UbInv, UbType, Dma_CreateDmaAdapter, Dma_PutDmaAdapter
    <3> QED
      BY <2>2, <3>1, FS_EmptySet DEF NothingHeld, BuffersShared, BuffersCounted
  <2>4. CASE made = UbBuffers
    <3>1. /\ ubn'.adapter = "made" /\ ubn'.upset = {} /\ ubn'.top = UbBuffers
          /\ ubn'.stack = [i \in UbIndexes |-> i]
      BY <1>1, <1>3, <2>4 DEF UbInv, UbType, Dma_CreateDmaAdapter
    <3>2. BuffersShared'
      BY <1>1, <2>2, <3>1 DEF BuffersShared, UbIndexes
    <3> QED
      BY <1>1, <2>2, <3>1, <3>2, FS_EmptySet DEF NothingHeld, BuffersCounted
  <2> QED
    BY <2>3, <2>4
<1>4. CASE PutAdapter
  <2>1. ubn'.adapter = "put"
    BY <1>4, UbAdapterGoes
  <2>2. UbHolding' = {}
    BY <1>4 DEF UbInv, UbType, PutAdapter, Dma_PutDmaAdapter, UbHolding
  <2> QED
    BY <2>1, <2>2, FS_EmptySet DEF NothingHeld, BuffersShared, BuffersCounted
<1>5. ASSUME NEW t \in UbTransfers, Moves(t)
      PROVE  NothingHeld' /\ BuffersShared' /\ BuffersCounted'
  <2>1. /\ UbHolding' = UbHolding /\ ubn'.adapter = ubn.adapter /\ ubn'.top = ubn.top
        /\ ubn'.stack = ubn.stack /\ ubn'.buffer = ubn.buffer /\ ubn'.upset = {}
    BY <1>1, <1>5, UbMoves
  <2> QED
    BY <2>1 DEF UbInv, NothingHeld, BuffersShared, BuffersCounted
<1>6. ASSUME NEW t \in UbTransfers, GetBuffer(t)
      PROVE  NothingHeld' /\ BuffersShared' /\ BuffersCounted'
  <2>1. /\ ubn.adapter = "made" /\ ubn'.adapter = "made" /\ ubn'.upset = {}
        /\ ubn'.stack = ubn.stack /\ t \notin UbHolding
    BY <1>1, <1>6, UbTakes
  <2>2. CASE UbHolding' = UbHolding /\ ubn'.top = ubn.top /\ ubn'.buffer = ubn.buffer
    BY <2>1, <2>2 DEF UbInv, NothingHeld, BuffersShared, BuffersCounted
  <2>3. CASE /\ UbHolding' = UbHolding \cup {t} /\ ubn.top # 0 /\ ubn'.top = ubn.top - 1
             /\ ubn'.buffer = [ubn.buffer EXCEPT ![t] = ubn.stack[ubn.top - 1]]
    <3>1. ubn.top - 1 \in 0 .. ubn.top - 1 /\ ubn.top \in Nat
      BY <1>2, <2>3
    <3>2. /\ ubn'.buffer[t] = ubn.stack[ubn.top - 1]
          /\ \A u \in UbHolding : ubn'.buffer[u] = ubn.buffer[u]
      <4>1. ubn.buffer \in [UbTransfers -> UbIndexes \cup {UbNone}]
        BY DEF UbInv, UbType
      <4> QED
        BY <2>1, <2>3, <4>1 DEF UbHolding
    <3>3. BuffersShared
      BY DEF UbInv
    <3>4. BuffersShared'
      <4>1. \A i \in 0 .. ubn'.top - 1 : i \in 0 .. ubn.top - 1 /\ i # ubn.top - 1
        BY <2>3, <3>1
      <4>2. \A i \in 0 .. ubn.top - 1 : i \in 0 .. ubn'.top - 1 \/ i = ubn.top - 1
        BY <2>3, <3>1
      <4>3. \A u \in UbHolding' : u \in UbHolding \/ u = t
        BY <2>3
      <4>4. \A u \in UbHolding : u # t /\ u \in UbHolding'
        BY <2>1, <2>3
      <4>5. t \in UbHolding'
        BY <2>3
      <4> DEFINE top == ubn.top
                 next == ubn'.top
                 old == ubn.buffer
                 new == ubn'.buffer
                 stack == ubn.stack
                 H == UbHolding
                 G == UbHolding'
                 I == 0 .. top - 1
                 J == 0 .. next - 1
                 last == top - 1
      <4>6. /\ \A u \in H : old[u] \in UbIndexes
            /\ \A u, v \in H : old[u] = old[v] => u = v
            /\ \A i \in I : stack[i] \in UbIndexes
            /\ \A i, j \in I : stack[i] = stack[j] => i = j
            /\ \A u \in H, i \in I : old[u] # stack[i]
            /\ \A b \in UbIndexes : (\E u \in H : old[u] = b) \/ (\E i \in I : stack[i] = b)
        BY <2>1, <3>3 DEF BuffersShared
      <4>7. last \in I
        BY <3>1
      <4>8. new[t] = stack[last] /\ \A u \in H : new[u] = old[u]
        BY <3>2
      <4>9. /\ \A i \in J : i \in I /\ i # last
            /\ \A i \in I : i \in J \/ i = last
        BY <4>1, <4>2
      <4>10. ubn'.stack = stack /\ ubn'.adapter = "made" /\ ubn'.upset = {}
        BY <2>1
      <4> HIDE DEF top, next, old, new, stack, H, G, I, J, last
      <4>11. \A u \in G : new[u] \in UbIndexes
        BY <4>3, <4>6, <4>7, <4>8 DEF H, G
      <4>12. \A u, v \in G : new[u] = new[v] => u = v
        BY <4>3, <4>6, <4>7, <4>8 DEF H, G
      <4>13. /\ \A i \in J : stack[i] \in UbIndexes
             /\ \A i, j \in J : stack[i] = stack[j] => i = j
        BY <4>6, <4>9
      <4>14. \A u \in G, i \in J : new[u] # stack[i]
        BY <4>3, <4>6, <4>7, <4>8, <4>9 DEF H, G
      <4>15. \A b \in UbIndexes : (\E u \in G : new[u] = b) \/ (\E i \in J : stack[i] = b)
        BY <4>4, <4>5, <4>6, <4>8, <4>9 DEF H, G
      <4> QED
        BY <4>10, <4>11, <4>12, <4>13, <4>14, <4>15 DEF BuffersShared, G, J, new, next
    <3>5. BuffersCounted'
      <4>1. IsFiniteSet(UbHolding) /\ Cardinality(UbHolding) + ubn.top = UbBuffers
        BY <2>1 DEF UbInv, BuffersCounted
      <4>2. /\ IsFiniteSet(UbHolding')
            /\ Cardinality(UbHolding') = Cardinality(UbHolding) + 1
        BY <2>1, <2>3, <4>1, FS_AddElement
      <4>3. Cardinality(UbHolding) \in Nat
        BY <4>1, FS_CardinalityType
      <4>4. Cardinality(UbHolding') + ubn'.top = UbBuffers
        BY <2>3, <3>1, <4>1, <4>2, <4>3
      <4> QED
        BY <4>2, <4>4 DEF BuffersCounted
    <3> QED
      BY <2>1, <3>4, <3>5 DEF NothingHeld
  <2> QED
    BY <1>1, <1>6, <2>2, <2>3, UbTakes
<1>7. ASSUME NEW t \in UbTransfers, PutBuffer(t)
      PROVE  NothingHeld' /\ BuffersShared' /\ BuffersCounted'
  <2>1. /\ t \in UbHolding /\ UbHolding' = UbHolding \ {t}
        /\ ubn'.adapter = ubn.adapter /\ ubn'.upset = {} /\ ubn'.buffer = ubn.buffer
        /\ ubn'.top = ubn.top + 1 /\ ubn'.stack = [ubn.stack EXCEPT ![ubn.top] = ubn.buffer[t]]
    BY <1>1, <1>7, UbGivesBack
  <2>2. ubn.adapter = "made" /\ ubn.top \in Nat /\ ubn.top < UbBuffers
    BY <2>1, UbHolder
  <2>3. ubn.top \in UbIndexes
    BY <1>1, <2>2 DEF UbIndexes
  <2>4. /\ ubn'.stack[ubn.top] = ubn.buffer[t]
        /\ \A i \in 0 .. ubn.top - 1 : ubn'.stack[i] = ubn.stack[i]
    BY <1>1, <1>2, <2>1, <2>2, <2>3 DEF UbIndexes
  <2>5. BuffersShared'
    <3> DEFINE stack == ubn.stack
               after == ubn'.stack
               buffer == ubn.buffer
               H == UbHolding
               G == UbHolding'
               I == 0 .. ubn.top - 1
               J == 0 .. ubn'.top - 1
               last == ubn.top
    <3>1. /\ \A u \in H : buffer[u] \in UbIndexes
          /\ \A u, v \in H : buffer[u] = buffer[v] => u = v
          /\ \A i \in I : stack[i] \in UbIndexes
          /\ \A i, j \in I : stack[i] = stack[j] => i = j
          /\ \A u \in H, i \in I : buffer[u] # stack[i]
          /\ \A b \in UbIndexes : (\E u \in H : buffer[u] = b) \/ (\E i \in I : stack[i] = b)
      BY <2>2 DEF UbInv, BuffersShared
    <3>2. \A i \in J : i \in I \/ i = last
      BY <2>1, <2>2
    <3>3. (\A i \in I : i \in J /\ i # last) /\ last \in J
      BY <2>1, <2>2
    <3>4. after[last] = buffer[t] /\ \A i \in I : after[i] = stack[i]
      BY <2>4
    <3>5. /\ t \in H /\ \A u \in G : u \in H /\ u # t
          /\ \A u \in H : u \in G \/ u = t
      BY <2>1
    <3>6. ubn'.adapter = "made" /\ ubn'.upset = {} /\ ubn'.buffer = buffer
      BY <2>1, <2>2
    <3> HIDE DEF stack, after, buffer, H, G, I, J, last
    <3>7. /\ \A u \in G : buffer[u] \in UbIndexes
          /\ \A u, v \in G : buffer[u] = buffer[v] => u = v
      BY <3>1, <3>5
    <3>8. \A i \in J : after[i] \in UbIndexes
      BY <3>1, <3>2, <3>4, <3>5
    <3>9. \A i, j \in J : after[i] = after[j] => i = j
      BY <3>1, <3>2, <3>4, <3>5
    <3>10. \A u \in G, i \in J : buffer[u] # after[i]
      BY <3>1, <3>2, <3>4, <3>5
    <3>11. \A b \in UbIndexes : (\E u \in G : buffer[u] = b) \/ (\E i \in J : after[i] = b)
      BY <3>1, <3>3, <3>4, <3>5
    <3> QED
      BY <3>6, <3>7, <3>8, <3>9, <3>10, <3>11 DEF BuffersShared, G, J, after
  <2>6. BuffersCounted'
    <3>1. IsFiniteSet(UbHolding) /\ Cardinality(UbHolding) + ubn.top = UbBuffers
      BY <2>2 DEF UbInv, BuffersCounted
    <3>2. /\ IsFiniteSet(UbHolding')
          /\ Cardinality(UbHolding') = Cardinality(UbHolding) - 1
      BY <2>1, <3>1, FS_RemoveElement
    <3>3. Cardinality(UbHolding) \in Nat
      BY <3>1, FS_CardinalityType
    <3>4. Cardinality(UbHolding') + ubn'.top = UbBuffers
      BY <2>1, <2>2, <3>1, <3>2, <3>3
    <3> QED
      BY <3>2, <3>4 DEF BuffersCounted
  <2> QED
    BY <2>1, <2>2, <2>5, <2>6 DEF NothingHeld
<1> QED
  BY <1>3, <1>4, <1>5, <1>6, <1>7 DEF UbnNext, Moves

-----------------------------------------------------------------------------
\* Every step keeps each transfer's data in its place: another transfer has another buffer.
LEMMA UbDataKept == ASSUME UbInv, UbnNext PROVE DataInPlace'
<1>1. UbType /\ DataInPlace /\ ubn.upset = {}
  BY DEF UbInv, UbnNext
<1>2. \A t, u \in UbHolding : t # u => ubn.buffer[t] # ubn.buffer[u]
  BY DEF UbInv, NothingHeld, BuffersShared
<1>3. \A t \in UbHolding : ubn.buffer[t] \in UbIndexes
  BY DEF UbInv, NothingHeld, BuffersShared
<1>4. ASSUME NEW made \in 0 .. UbBuffers, Dma_CreateDmaAdapter(made) PROVE DataInPlace'
  BY <1>1, <1>4 DEF Dma_CreateDmaAdapter, Dma_PutDmaAdapter, UbType, DataInPlace, DataAt
<1>5. CASE PutAdapter
  BY <1>1, <1>5 DEF PutAdapter, Dma_PutDmaAdapter, UbType, DataInPlace, DataAt
<1>6. ASSUME NEW t \in UbTransfers, GetBuffer(t) PROVE DataInPlace'
  <2> SUFFICES ASSUME NEW u \in UbTransfers PROVE DataAt(u)'
    BY DEF DataInPlace
  <2>1. DataAt(u)
    BY <1>1 DEF DataInPlace
  <2>2. /\ ubn'.mdl = ubn.mdl /\ ubn'.content = ubn.content /\ ubn'.memory = ubn.memory
        /\ ubn'.seen = ubn.seen /\ ubn'.writes = ubn.writes
    BY <1>1, <1>6 DEF GetBuffer, UbType
  <2>3. ubn'.pc[t] \in {"got", "refused"}
    BY <1>1, <1>6 DEF GetBuffer, UbType
  <2>4. u # t => ubn'.pc[u] = ubn.pc[u] /\ ubn'.buffer[u] = ubn.buffer[u]
    BY <1>1, <1>6 DEF GetBuffer, UbType
  <2> QED
    BY <2>1, <2>2, <2>3, <2>4 DEF DataAt
<1>7. ASSUME NEW t \in UbTransfers, Dma_GetScatterGatherList(t) PROVE DataInPlace'
  <2> SUFFICES ASSUME NEW u \in UbTransfers PROVE DataAt(u)'
    BY DEF DataInPlace
  <2>1. DataAt(u) /\ DataAt(t)
    BY <1>1 DEF DataInPlace
  <2> DEFINE b == ubn.buffer[t]
  <2>2. t \in UbHolding /\ b \in UbIndexes
    BY <1>3, <1>7 DEF Dma_GetScatterGatherList, UbHolding
  <2>3. /\ ubn'.pc = [ubn.pc EXCEPT ![t] = "mapped"] /\ ubn'.mdl = [ubn.mdl EXCEPT ![b] = t]
        /\ ubn'.content = [ubn.content EXCEPT ![b] = IF ubn.writes[t] THEN ubn.memory[t] ELSE @]
        /\ ubn'.buffer = ubn.buffer /\ ubn'.memory = ubn.memory
        /\ ubn'.seen = ubn.seen /\ ubn'.writes = ubn.writes
    BY <1>1, <1>7 DEF Dma_GetScatterGatherList, UbType
  <2>4. /\ ubn.pc \in [UbTransfers -> Steps] /\ ubn.mdl \in [UbIndexes -> UbTransfers \cup {"none"}]
        /\ ubn.content \in [UbIndexes -> Contents]
    BY <1>1 DEF UbType
  <2>5. CASE u = t
    BY <2>1, <2>2, <2>3, <2>4, <2>5 DEF DataAt
  <2>6. CASE u # t
    <3>1. u \in UbHolding => ubn.buffer[u] # b
      BY <1>2, <2>2, <2>6
    <3>2. ubn.pc[u] \in {"mapped", "moved"} => u \in UbHolding
      BY DEF UbHolding
    <3> QED
      BY <1>3, <2>1, <2>3, <2>4, <2>6, <3>1, <3>2 DEF DataAt
  <2> QED
    BY <2>5, <2>6
<1>8. ASSUME NEW t \in UbTransfers, DeviceTransfers(t) PROVE DataInPlace'
  <2> SUFFICES ASSUME NEW u \in UbTransfers PROVE DataAt(u)'
    BY DEF DataInPlace
  <2>1. DataAt(u) /\ DataAt(t)
    BY <1>1 DEF DataInPlace
  <2> DEFINE b == ubn.buffer[t]
  <2>2. t \in UbHolding /\ b \in UbIndexes /\ ubn.pc[t] = "mapped"
    BY <1>3, <1>8 DEF DeviceTransfers, UbHolding
  <2>3. /\ ubn'.pc = [ubn.pc EXCEPT ![t] = "moved"] /\ ubn'.mdl = ubn.mdl
        /\ ubn'.content = IF ubn.writes[t] THEN ubn.content
                          ELSE [ubn.content EXCEPT ![b] = <<"device", t>>]
        /\ ubn'.seen = IF ubn.writes[t] THEN [ubn.seen EXCEPT ![t] = ubn.content[b]]
                       ELSE ubn.seen
        /\ ubn'.buffer = ubn.buffer /\ ubn'.memory = ubn.memory /\ ubn'.writes = ubn.writes
    BY <1>1, <1>8 DEF DeviceTransfers, UbType
  <2>4. /\ ubn.pc \in [UbTransfers -> Steps] /\ ubn.seen \in [UbTransfers -> Contents]
        /\ ubn.content \in [UbIndexes -> Contents]
    BY <1>1 DEF UbType
  <2>5. CASE u = t
    BY <2>1, <2>2, <2>3, <2>4, <2>5 DEF DataAt
  <2>6. CASE u # t
    <3>1. u \in UbHolding => ubn.buffer[u] # b
      BY <1>2, <2>2, <2>6
    <3>2. ubn.pc[u] \in {"mapped", "moved"} => u \in UbHolding
      BY DEF UbHolding
    <3> QED
      BY <1>3, <2>1, <2>3, <2>4, <2>6, <3>1, <3>2 DEF DataAt
  <2> QED
    BY <2>5, <2>6
<1>9. ASSUME NEW t \in UbTransfers, Dma_PutScatterGatherList(t) PROVE DataInPlace'
  <2> SUFFICES ASSUME NEW u \in UbTransfers PROVE DataAt(u)'
    BY DEF DataInPlace
  <2>1. DataAt(u) /\ DataAt(t)
    BY <1>1 DEF DataInPlace
  <2> DEFINE b == ubn.buffer[t]
  <2>2. b \in UbIndexes /\ ubn.pc[t] = "moved" /\ ubn.mdl[b] = t
    BY <1>3, <1>9, <2>1 DEF Dma_PutScatterGatherList, UbHolding, DataAt
  <2>3. /\ ubn'.pc = [ubn.pc EXCEPT ![t] = "copied"]
        /\ ubn'.memory = [ubn.memory EXCEPT ![t] = IF ubn.writes[t] THEN @ ELSE ubn.content[b]]
        /\ ubn'.mdl = ubn.mdl /\ ubn'.content = ubn.content /\ ubn'.seen = ubn.seen
        /\ ubn'.buffer = ubn.buffer /\ ubn'.writes = ubn.writes
    BY <1>1, <1>9, <2>2 DEF Dma_PutScatterGatherList, UbType
  <2>4. ubn.pc \in [UbTransfers -> Steps] /\ ubn.memory \in [UbTransfers -> Contents]
    BY <1>1 DEF UbType
  <2> QED
    BY <2>1, <2>2, <2>3, <2>4 DEF DataAt
<1>10. ASSUME NEW t \in UbTransfers, PutBuffer(t) PROVE DataInPlace'
  BY <1>1, <1>10, ZenonT(40) DEF PutBuffer, UbType, DataInPlace, DataAt
<1>11. ASSUME NEW t \in UbTransfers, RetryTransfer(t) PROVE DataInPlace'
  BY <1>1, <1>11, ZenonT(40) DEF RetryTransfer, UbType, DataInPlace, DataAt
<1> QED
  BY <1>4, <1>5, <1>6, <1>7, <1>8, <1>9, <1>10, <1>11 DEF UbnNext

-----------------------------------------------------------------------------
\* The invariant is inductive.
THEOREM UbInvariant == UbnSpec => []UbInv
<1>1. UbInv /\ [UbnNext]_ubn => UbInv'
  <2> SUFFICES ASSUME UbInv, [UbnNext]_ubn PROVE UbInv'
    OBVIOUS
  <2>1. CASE UbnNext
    BY <2>1, UbTypeKept, UbSharedKept, UbDataKept DEF UbInv
  <2>2. CASE UNCHANGED ubn
    <3>1. UbHolding' = UbHolding
      BY <2>2 DEF UbHolding
    <3>2. UbType' /\ DataInPlace'
      BY <2>2 DEF UbInv, UbType, DataInPlace, DataAt
    <3>3. NothingHeld' /\ BuffersShared' /\ BuffersCounted'
      BY <2>2, <3>1 DEF UbInv, NothingHeld, BuffersShared, BuffersCounted
    <3> QED
      BY <3>2, <3>3 DEF UbInv
  <2> QED
    BY <2>1, <2>2
<1> QED
  BY <1>1, UbInitially, PTL DEF UbnSpec

\* Dma_GetScatterGatherList and Dma_PutScatterGatherList give a buffer to one transfer at a time
\* and lose none, and the assertions about their stack hold.
THEOREM UbBufferOnceHolds == UbnSpec => []UbBufferOnce
<1>1. UbInv => UbBufferOnce
  BY DEF UbInv, BuffersShared, BuffersCounted, UbBufferOnce
<1> QED
  BY <1>1, UbInvariant, PTL

\* What they copy is the transfer's, whichever others used the buffer.
THEOREM UbDataArrivesHolds == UbnSpec => []UbDataArrives
<1>1. UbInv => UbDataArrives
  BY DEF UbInv, DataInPlace, DataAt, UbDataArrives
<1> QED
  BY <1>1, UbInvariant, PTL
=============================================================================
