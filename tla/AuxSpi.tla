------------------------------- MODULE AuxSpi -------------------------------
(***************************************************************************)
(* The driver of the auxiliary SPI controllers: one request at a time,     *)
(* started by the callback of SpbCx, carried on by the ISR, and            *)
(* ended by the DPC or by EvtRequestCancel.  Who ends it takes the pointer *)
(* Request.SpbRequest out of the context.                                  *)
(*                                                                         *)
(* The controller shifts words of one to four bytes.  For every byte it    *)
(* sends one comes back: the device is sent 1, 2, 3, ... by a write and    *)
(* zeros by a read, and returns the number of bytes clocked so far.        *)
(***************************************************************************)
EXTENDS Integers, Sequences, SequencesExt

CONSTANTS
  AuxDepth,      \* words in each FIFO (BCM_AUXSPI_FIFO_DEPTH)
  AuxLengths,    \* lengths of transfers
  AuxModes       \* SPI data modes of the targets: subset of 0 .. 3

ASSUME AuxAssumption ==
  AuxDepth \in Nat \ {0} /\ AuxLengths \subseteq Nat \ {0} /\ AuxModes \subseteq 0 .. 3

VARIABLE aux

AuxInit ==
  aux = [pc |-> "idle",           \* SpbCx's callback
         active |-> FALSE,        \* a request is not yet completed
         kind |-> "none", w |-> 0, r |-> 0, mode |-> 0,
         mark |-> "unmarked",     \* WDF's: "unmarked", "marked", "called" (EvtRequestCancel runs)
         asked |-> FALSE,         \* the client has cancelled the request
         spb |-> FALSE,           \* Request.SpbRequest # nullptr
         state |-> "INVALID", fifo |-> "FIXED_4", Written |-> 0, Read |-> 0,
         buffer |-> <<>>,         \* what the client reads
         tx |-> <<>>, rx |-> <<>>,
         heard |-> <<>>, clock |-> 0,
         doneIrq |-> FALSE, cs |-> FALSE, locked |-> FALSE,
         queued |-> FALSE, dpc |-> "none", cancel |-> "none",
         last |-> "none",         \* how the last request ended
         overtaken |-> FALSE]     \* a request ended before its callback, or its DPC

-----------------------------------------------------------------------------
(* FIFOs. *)

WordBytes == [FIXED_4 |-> 4, VARIABLE_3 |-> 3, FIXED_3_SHIFTED |-> 3, VARIABLE_2_SHIFTED |-> 2]

selectFifoMode(mode, n) ==
  IF mode \in {0, 2} THEN IF n % 4 = 0 THEN "FIXED_4" ELSE "VARIABLE_3"
  ELSE IF n % 3 = 0 THEN "FIXED_3_SHIFTED" ELSE "VARIABLE_2_SHIFTED"

Capacity(fifo) == AuxDepth * WordBytes[fifo]

AuxLeast(a, b) == IF a < b THEN a ELSE b

\* Bytes packed into words; the last one may be shorter in a variable mode.
Words(bytes, fifo) ==
  LET k == WordBytes[fifo]
      n == Len(bytes)
  IN  [i \in 1 .. (n + k - 1) \div k |-> SubSeq(bytes, (i - 1) * k + 1, AuxLeast(i * k, n))]

writeFifo(s, bytes) ==
  [s EXCEPT !.tx = @ \o Words(SubSeq(bytes, 1, AuxLeast(Len(bytes), Capacity(s.fifo))), s.fifo)]

Numbers(a, b) == [i \in 1 .. b - a + 1 |-> a + i - 1]
Zeros(n) == [i \in 1 .. n |-> 0]

\* The next bytes of the write buffer or of the chain of MDLs.
writeFifoMdl(s) ==
  LET n == AuxLeast(Capacity(s.fifo), s.w - s.Written)
  IN  [writeFifo(s, Numbers(s.Written + 1, s.Written + n)) EXCEPT !.Written = @ + n]

writeFifoZeros(s, n) == writeFifo(s, Zeros(n))

\* An empty FIFO reads as anything.
extractFifoBuffer(words, n) == SubSeq(FlattenSeq(words) \o Zeros(n), 1, n)

\* All that the receive FIFO holds is read, and zeros are sent for what is left.
readFifo(s) ==
  LET left == s.r - s.Read
      n == AuxLeast(left, Capacity(s.fifo))
      t == IF left > n THEN writeFifoZeros(s, left - n) ELSE s
  IN  [t EXCEPT !.rx = <<>>, !.Read = @ + n, !.buffer = @ \o extractFifoBuffer(s.rx, n)]

ClearFifos(s) == [s EXCEPT !.tx = <<>>, !.rx = <<>>]

AuxComplete(s, how) ==
  [s EXCEPT !.active = FALSE, !.mark = "unmarked", !.asked = FALSE, !.last = how,
            !.overtaken = @ \/ s.queued \/ s.pc = "enable"]

deassertCs(s) == [ClearFifos(s) EXCEPT !.cs = FALSE]

abortTransfer(s) ==
  IF s.locked THEN [ClearFifos(s) EXCEPT !.state = "INVALID"]
  ELSE [deassertCs(s) EXCEPT !.state = "INVALID"]

-----------------------------------------------------------------------------
(* Callbacks of SpbCx, which hands over one request at a time.             *)

\* Chip select and context; the interrupt is disabled.
Begin(kind, state, w, r, mode) ==
  [aux EXCEPT !.pc = "mark", !.active = TRUE, !.kind = kind, !.w = w, !.r = r, !.mode = mode,
              !.mark = "unmarked", !.asked = FALSE, !.spb = TRUE, !.state = state,
              !.fifo = selectFifoMode(mode, IF kind = "read" THEN r ELSE w),
              !.Written = 0, !.Read = 0, !.buffer = <<>>, !.last = "none",
              !.tx = <<>>, !.rx = <<>>, !.heard = <<>>, !.clock = 0,
              !.doneIrq = FALSE, !.cs = TRUE]

MayBegin == aux.pc = "idle" /\ ~aux.active

EvtSpbIoRead ==
  \E n \in AuxLengths, m \in AuxModes :
    MayBegin /\ aux' = writeFifoZeros(Begin("read", "READ", 0, n, m), n)

EvtSpbIoWrite ==
  \E n \in AuxLengths, m \in AuxModes :
    MayBegin /\ aux' = writeFifoMdl(Begin("write", "WRITE", n, 0, m))

EvtSpbIoSequence ==
  \E w, r \in AuxLengths, m \in AuxModes :
    /\ MayBegin
    /\ LET s == writeFifoMdl(Begin("sequence", "SEQUENCE_WRITE", w, r, m))
       IN  aux' = IF s.Written = w THEN [s EXCEPT !.state = "SEQUENCE_READ_INIT"] ELSE s

EvtSpbIoOther ==
  \E n \in AuxLengths, m \in AuxModes :
    MayBegin /\ aux' = writeFifoMdl(Begin("duplex", "FULL_DUPLEX", n, n, m))

\* WdfRequestMarkCancelableEx fails if the client was faster.
MarkCancelable ==
  /\ aux.pc = "mark"
  /\ aux' = IF ~aux.active THEN [aux EXCEPT !.pc = "enable"]
            ELSE IF aux.asked
              THEN [AuxComplete(abortTransfer(aux), "cancelled") EXCEPT !.pc = "idle"]
            ELSE [aux EXCEPT !.pc = "enable", !.mark = "marked"]

EnableInterrupt == aux.pc = "enable" /\ aux' = [aux EXCEPT !.pc = "idle", !.doneIrq = TRUE]

EvtSpbControllerLock ==
  /\ MayBegin /\ ~aux.locked
  /\ aux' = [ClearFifos(aux) EXCEPT !.cs = TRUE, !.locked = TRUE, !.doneIrq = FALSE]

EvtSpbControllerUnlock ==
  MayBegin /\ aux.locked /\ aux' = [deassertCs(aux) EXCEPT !.locked = FALSE]

-----------------------------------------------------------------------------
(* The controller and its interrupt, raised while it has nothing to shift. *)

AuxShift ==
  /\ aux.tx # <<>>
  /\ LET word == Head(aux.tx)
     IN  aux' = [aux EXCEPT !.tx = Tail(@), !.heard = @ \o word, !.clock = @ + Len(word),
                            !.rx = IF Len(@) < AuxDepth
                                   THEN Append(@, Numbers(aux.clock + 1, aux.clock + Len(word)))
                                   ELSE @]

AuxLine == aux.doneIrq /\ aux.tx = <<>>

\* The transfer is over: chip select is released unless the bus is locked.
EndTransfer(s) ==
  [s EXCEPT !.doneIrq = FALSE, !.cs = s.locked, !.queued = TRUE]

IsrWrite ==
  /\ AuxLine /\ aux.state = "WRITE"
  /\ aux' = IF aux.Written = aux.w THEN EndTransfer(aux) ELSE writeFifoMdl(aux)

\* Mutant: the words of the last write are taken for the first of the read.
SequenceReadInitKeepsFifo ==
  /\ AuxLine /\ aux.state = "SEQUENCE_READ_INIT"
  /\ aux' = writeFifoZeros([aux EXCEPT !.fifo = selectFifoMode(aux.mode, aux.r),
                                       !.state = "SEQUENCE_READ"], aux.r)

IsrSequenceWrite ==
  /\ AuxLine /\ aux.state = "SEQUENCE_WRITE"
  /\ LET s == writeFifoMdl(aux)
     IN  aux' = IF s.Written = s.w THEN [s EXCEPT !.state = "SEQUENCE_READ_INIT"] ELSE s

IsrSequenceReadInit ==
  /\ AuxLine /\ aux.state = "SEQUENCE_READ_INIT"
  /\ aux' = writeFifoZeros([ClearFifos(aux) EXCEPT !.fifo = selectFifoMode(aux.mode, aux.r),
                                                   !.state = "SEQUENCE_READ"], aux.r)

IsrRead ==
  /\ AuxLine /\ aux.state \in {"READ", "SEQUENCE_READ"}
  /\ LET s == readFifo(aux)
     IN  aux' = IF s.Read = s.r THEN EndTransfer(s) ELSE s

\* The receive FIFO is read before the next bytes are sent.
IsrFullDuplex ==
  /\ AuxLine /\ aux.state = "FULL_DUPLEX"
  /\ LET n == AuxLeast(Capacity(aux.fifo), aux.r - aux.Read)
         got == [aux EXCEPT !.rx = <<>>, !.Read = @ + n,
                            !.buffer = @ \o extractFifoBuffer(aux.rx, n)]
         s == IF got.Written # got.w THEN writeFifoMdl(got) ELSE got
     IN  aux' = IF s.Read = s.r THEN EndTransfer(s) ELSE s

\* No request (an assertion of the ISR fails): the controller is switched off.
IsrDefault ==
  AuxLine /\ aux.state = "INVALID" /\ aux' = [aux EXCEPT !.doneIrq = FALSE]

EvtInterruptIsr ==
  \/ IsrWrite
  \/ IsrRead
  \/ IsrSequenceWrite
  \/ IsrSequenceReadInit
  \/ IsrFullDuplex
  \/ IsrDefault

-----------------------------------------------------------------------------
(* The two ends of a request.                                              *)

AuxDpcClaim ==
  /\ aux.queued /\ aux.dpc = "none"
  /\ aux' = [aux EXCEPT !.queued = FALSE, !.spb = FALSE,
                        !.dpc = IF aux.spb THEN "claimed" ELSE "none"]

(***************************************************************************)
(* WdfRequestUnmarkCancelable: it is the DPC's to complete; it never was   *)
(* cancelable, and is completed with an error; or EvtRequestCancel was     *)
(* called, and it is left to it.                                           *)
(***************************************************************************)
AuxDpcUnmark ==
  /\ aux.dpc = "claimed"
  /\ aux' = CASE aux.mark = "marked" -> [aux EXCEPT !.dpc = "ours", !.mark = "unmarked"]
              [] aux.mark = "unmarked" -> AuxComplete([aux EXCEPT !.dpc = "none"], "error")
              [] aux.mark = "called" -> [aux EXCEPT !.dpc = "none"]

processRequestCompletion ==
  CASE aux.state = "WRITE" -> aux.Written
    [] aux.state = "READ" -> aux.Read
    [] aux.state \in {"FULL_DUPLEX", "SEQUENCE_READ"} -> aux.Written + aux.Read
    [] OTHER -> 0

AuxDpcComplete ==
  /\ aux.dpc = "ours"
  /\ aux' = AuxComplete([ClearFifos(aux) EXCEPT !.state = "INVALID", !.dpc = "none"], "done")

EvtInterruptDpc == AuxDpcClaim \/ AuxDpcUnmark \/ AuxDpcComplete

\* WDF calls EvtRequestCancel, or remembers the cancellation.
AuxClientCancels ==
  /\ aux.active /\ ~aux.asked
  /\ aux' = [aux EXCEPT !.asked = TRUE, !.mark = IF @ = "marked" THEN "called" ELSE @,
                        !.cancel = IF aux.mark = "marked" THEN "called" ELSE @]

\* Mutant: the interrupt stays enabled.
CancelClaimKeepsInterrupt ==
  /\ aux.cancel = "called"
  /\ aux' = IF aux.spb THEN [aux EXCEPT !.spb = FALSE, !.cancel = "claimed"]
            ELSE [aux EXCEPT !.cancel = "none"]

\* Under the lock of the interrupt: claim the request and disable interrupts.
CancelClaim ==
  /\ aux.cancel = "called"
  /\ aux' = IF aux.spb THEN [aux EXCEPT !.spb = FALSE, !.doneIrq = FALSE, !.cancel = "claimed"]
            ELSE [aux EXCEPT !.cancel = "none"]

CancelComplete ==
  /\ aux.cancel = "claimed"
  /\ aux' = AuxComplete([abortTransfer(aux) EXCEPT !.cancel = "none"], "cancelled")

EvtRequestCancel == CancelClaim \/ CancelComplete

AuxDispatch == MarkCancelable \/ EnableInterrupt

AuxNext ==
  \/ EvtSpbIoRead
  \/ EvtSpbIoWrite
  \/ EvtSpbIoSequence
  \/ EvtSpbIoOther
  \/ AuxDispatch
  \/ EvtSpbControllerLock
  \/ EvtSpbControllerUnlock
  \/ AuxShift
  \/ EvtInterruptIsr
  \/ EvtInterruptDpc
  \/ AuxClientCancels
  \/ EvtRequestCancel

AuxFairness ==
  /\ WF_aux(AuxDispatch)
  /\ WF_aux(AuxShift)
  /\ WF_aux(EvtInterruptIsr)
  /\ WF_aux(EvtInterruptDpc)
  /\ WF_aux(EvtRequestCancel)

-----------------------------------------------------------------------------
(***************************************************************************)
(* A request that is not completed has someone to complete it: its pointer *)
(* is in the context, or the DPC or EvtRequestCancel has claimed it.       *)
(***************************************************************************)
AuxRequestIsOwned ==
  aux.active => aux.spb \/ aux.dpc \in {"claimed", "ours"} \/ aux.cancel = "claimed"

\* Then it went to the DPC while EvtRequestCancel was being called.
AuxLost == ~AuxRequestIsOwned

\* "Interrupts should be disabled when the DPC is invoked".
AuxInterruptDisabled == ((aux.queued \/ aux.dpc # "none") /\ ~aux.overtaken) => ~aux.doneIrq

(***************************************************************************)
(* What a request that the DPC completes has transferred, in every mode of *)
(* the FIFOs: the device got the bytes to write, and zeros after them, and *)
(* the client the bytes that came back, as many as reported.               *)
(***************************************************************************)
AuxTransferExact ==
  (aux.dpc = "ours" /\ ~aux.overtaken) =>
    /\ aux.heard = Numbers(1, aux.w) \o Zeros(IF aux.kind = "duplex" THEN 0 ELSE aux.r)
    /\ aux.buffer = (IF aux.kind = "duplex" THEN Numbers(1, aux.r)
                     ELSE Numbers(aux.w + 1, aux.w + aux.r))
    /\ processRequestCompletion = aux.w + aux.r

(***************************************************************************)
(* Chip select is held while there is something to shift, and for as long  *)
(* as the bus is locked; it is released when a request has ended.          *)
(***************************************************************************)
AuxChipSelect ==
  ~aux.overtaken =>
    /\ (aux.tx # <<>> \/ aux.locked) => aux.cs
    /\ (~aux.active /\ aux.pc = "idle" /\ ~aux.locked) => ~aux.cs

AuxGoingOn == ~aux.active \/ aux.overtaken \/ AuxLost
=============================================================================
