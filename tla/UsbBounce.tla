----------------------------- MODULE UsbBounce -----------------------------
(***************************************************************************)
(* The DMA adapter that the USB filter puts under the host controller's    *)
(* driver (rpiuxflt/dma.c): a transfer goes through one of a fixed number  *)
(* of buffers in memory the controller reaches, taken from and returned to *)
(* a stack under a spin lock, and copied before or after.                  *)
(*                                                                         *)
(* The host controller's driver maps each transfer at most once, from the  *)
(* start of its memory (CurrentVa is not looked at), and unmaps what it    *)
(* mapped before it puts the adapter back.  An adapter that cannot be made *)
(* completely is put back before any buffer counts as free: the assertion  *)
(* of Dma_PutDmaAdapter fails, and the behaviour ends there.               *)
(***************************************************************************)
EXTENDS Integers, FiniteSets

CONSTANTS
  UbBuffers,    \* FILTER_NUM_BOUNCE_BUFFERS
  UbTransfers   \* the transfers of the host controller's driver

ASSUME UbAssumption == UbBuffers \in Nat \ {0}

VARIABLE
  ubn
  \* adapter: "none", "made", "put";  stack, top: FreeBounceBuffers, CurrentFreeBounceBuffer;
  \* content, mdl: of a buffer;  pc, buffer: of a transfer;  writes: WriteToDevice;
  \* memory: what the transfer's MDL holds;  seen: what the device got;  upset

UbNone == -1          \* no buffer
UbEmpty == <<"none">>   \* contents are named by who wrote them, and for which transfer

UbIndexes == 0 .. UbBuffers - 1

UbnInit ==
  \E writes \in [UbTransfers -> BOOLEAN] :
    ubn = [adapter |-> "none", stack |-> [i \in UbIndexes |-> UbNone], top |-> 0,
           content |-> [b \in UbIndexes |-> UbEmpty], mdl |-> [b \in UbIndexes |-> "none"],
           pc |-> [t \in UbTransfers |-> "idle"], buffer |-> [t \in UbTransfers |-> UbNone],
           writes |-> writes, memory |-> [t \in UbTransfers |-> <<"user", t>>],
           seen |-> [t \in UbTransfers |-> UbEmpty], upset |-> {}]

\* Buffers are freed, and the attached adapter is put back, when there are any.
Dma_PutDmaAdapter(s) ==
  IF s.top # UbBuffers THEN [s EXCEPT !.upset = {"put adapter"}]
  ELSE [s EXCEPT !.adapter = "put"]

\* The attached adapter and all the buffers (made), or a failure after some of them.
Dma_CreateDmaAdapter(made) ==
  /\ ubn.adapter = "none"
  /\ ubn' = IF made = UbBuffers
            THEN [ubn EXCEPT !.adapter = "made", !.stack = [i \in UbIndexes |-> i], !.top = UbBuffers]
            ELSE Dma_PutDmaAdapter(ubn)

\* Mutant: the buffer is looked at under the lock and taken after it.
GetBufferLooks(t) ==
  /\ ubn.adapter = "made" /\ ubn.pc[t] \in {"idle", "looked"}
  /\ ubn' = IF ubn.top = 0 THEN [ubn EXCEPT !.pc[t] = "refused"]
            ELSE IF ubn.pc[t] = "idle"
            THEN [ubn EXCEPT !.pc[t] = "looked", !.buffer[t] = ubn.stack[ubn.top - 1]]
            ELSE [ubn EXCEPT !.pc[t] = "got", !.top = @ - 1]

\* Dma_GetScatterGatherList takes a buffer, under BounceBufferLock.
GetBuffer(t) ==
  /\ ubn.adapter = "made" /\ ubn.pc[t] = "idle"
  /\ ubn' = IF ubn.top = 0 THEN [ubn EXCEPT !.pc[t] = "refused"]
            ELSE [ubn EXCEPT !.pc[t] = "got", !.buffer[t] = ubn.stack[ubn.top - 1], !.top = @ - 1]

\* It copies what is to be written, and calls ExecutionRoutine.
Dma_GetScatterGatherList(t) ==
  /\ ubn.pc[t] = "got"
  /\ LET b == ubn.buffer[t]
     IN ubn' = [ubn EXCEPT !.pc[t] = "mapped", !.mdl[b] = t,
                           !.content[b] = IF ubn.writes[t] THEN ubn.memory[t] ELSE @]

\* The device reads or writes the buffer of the list.
DeviceTransfers(t) ==
  /\ ubn.pc[t] = "mapped"
  /\ LET b == ubn.buffer[t]
     IN ubn' = IF ubn.writes[t]
               THEN [ubn EXCEPT !.pc[t] = "moved", !.seen[t] = ubn.content[b]]
               ELSE [ubn EXCEPT !.pc[t] = "moved", !.content[b] = <<"device", t>>]

\* Dma_PutScatterGatherList copies what was read to the buffer's MDL, and checks the stack before
\* it takes the lock.
Dma_PutScatterGatherList(t) ==
  /\ ubn.pc[t] = "moved"
  /\ LET b == ubn.buffer[t]
     IN ubn' = [ubn EXCEPT !.pc[t] = "copied",
                           !.memory[ubn.mdl[b]] = IF ubn.writes[t] THEN @ ELSE ubn.content[b],
                           !.upset = IF ubn.top < UbBuffers THEN @ ELSE {"put list"}]

PutBuffer(t) ==
  /\ ubn.pc[t] = "copied"
  /\ ubn' = [ubn EXCEPT !.pc[t] = "done", !.stack[ubn.top] = ubn.buffer[t], !.top = @ + 1]

\* The driver puts the adapter back when it has no transfer under way.
PutAdapter ==
  /\ ubn.adapter = "made"
  /\ \A t \in UbTransfers : ubn.pc[t] \in {"idle", "refused", "done"}
  /\ ubn' = Dma_PutDmaAdapter(ubn)

\* STATUS_UNSUCCESSFUL: the driver tries again.
RetryTransfer(t) ==
  /\ ubn.pc[t] = "refused"
  /\ ubn' = [ubn EXCEPT !.pc[t] = "idle"]

UbnNext ==
  /\ ubn.upset = {}
  /\ \/ \E made \in 0 .. UbBuffers : Dma_CreateDmaAdapter(made)
     \/ PutAdapter
     \/ \E t \in UbTransfers :
          \/ GetBuffer(t) \/ Dma_GetScatterGatherList(t) \/ DeviceTransfers(t)
          \/ Dma_PutScatterGatherList(t) \/ PutBuffer(t) \/ RetryTransfer(t)

UbnSpec == UbnInit /\ [][UbnNext]_ubn

-----------------------------------------------------------------------------
UbHolding == {t \in UbTransfers : ubn.pc[t] \in {"got", "mapped", "moved", "copied"}}

\* A buffer is one transfer's or on the stack once, and none is lost: the assertions about the
\* stack hold once the adapter was made.
UbBufferOnce ==
  ubn.adapter = "made" =>
    /\ ubn.upset = {}
    /\ \A t, u \in UbHolding : ubn.buffer[t] = ubn.buffer[u] => t = u
    /\ {ubn.buffer[t] : t \in UbHolding} \cup {ubn.stack[i] : i \in 0 .. ubn.top - 1} = UbIndexes
    /\ Cardinality(UbHolding) + ubn.top = UbBuffers

\* The device gets what the transfer's memory holds, and the memory what the device sent, whatever
\* other transfers use the buffer before and after.
UbDataArrives ==
  \A t \in UbTransfers : ubn.pc[t] = "done" =>
    IF ubn.writes[t] THEN ubn.seen[t] = <<"user", t>> /\ ubn.memory[t] = ubn.seen[t]
    ELSE ubn.memory[t] = <<"device", t>>
=============================================================================
