# TLA+ models of the Raspberry Pi Windows drivers

The repository holds the Windows on ARM drivers of the Raspberry Pi 2, 3 and 4.
They are independent kernel drivers; what they share is the kind of hazard: a
driver, its interrupt service routine (ISR), its deferred procedure call (DPC),
a framework that cancels and stops, and a piece of hardware or firmware all
touch the same state. This directory holds TLA+ modules for them, TLC
configurations that check them and TLAPS proofs about them.

    cd tla
    tlc -workers 2 -config MCVchiq.cfg MCVchiq.tla     # a run
    tlapm VchiqProofs.tla                              # a proof

`PROJECT.json` lists runs, mutants, hazards, findings, theorems and, for every
definition, the source lines it models.

## 1. Inventory

Paths are relative to `src/drivers/`.

### VCHIQ, `misc/vchiq/`

Marshals messages between applications and the VideoCore firmware through slots
of shared memory. *Slot zero* holds the words both sides use: stream positions
(`TxPos`), queues of slots (`SlotQueue`, `SlotQueueRecycle`) and events (`Armed`,
`Fired`).

- **Events, interrupts, threads** (`slots.c`, `slots.h`, `interrupt.c`).
  State: the words of two events per side, the doorbell, a thread event and the
  stop event per thread. Hard: the thread looks at positions, `Fired` and
  `Armed` one after the other while firmware and DPC write them; release frees
  the memory the threads use before it stops them. Correct when no wake-up is
  lost and the stop event ends a thread.
- **Transmit** (`slots.c`). State: `CurrentTxPos`, `SlaveCurrentSlot`, the
  semaphore `AvailableTxSlot`, `RecycleTxSlotIndex`. Hard: several senders, a
  wait with timeout inside the mutex, padding, a position stored after the
  unlock. Correct when slots are accounted for, nothing unparsed is overwritten
  and the firmware always finds a header where it parses.
- **Receive and slot recycling** (`slots.c`, `ioctl.c`). State: `CurrentRxPos`,
  a reference count and an in-use flag per slot, two pending lists and two
  request queues per file. Hard: slot memory is kept alive by plain counters
  that several threads touch. Correct when every message is delivered once and
  in order and every slot returns once, not too early.
- **Services, ports, files** (`file.c`, `ioctl.c`, `init.c`): contexts,
  `ArmPortHandles`, CREATE, CLOSE, CONNECT, the drain of a closing file. Hard: a
  file that closes while the trigger thread delivers to it. Correct when a port
  leads to one file that is alive and no message meets another one's file.
- **Bulk transfers** (`slots.c`, `transfer.c`, `memory.c`): page lists, a queue
  of requests and a list of user data per direction, BULK_*_DONE completing the
  head. Hard: cancellation and answers are paired by position.
- **Device, driver, tracing** (`device.c`, `driver.c`): set-up; not modelled.

### VCHIQ userland library and VCOS, `misc/userland/interface/`

`vchiq_lib.c` is the library applications link: an instance counted by its
clients, slots for services, a completion thread, a free list of message
buffers. Hard: initialise and shutdown hold different mutexes; handles and slots
are reused while completions for them are on their way. `vcos/generic/` has
block pools that grow, named semaphores in a sorted list and message queues; a
block or message must be in one place and a waiter must be found.

### Mailbox, `mailbox/bcm2836/`

Clients (VCHIQ, PWM, SD, applications) send property queries through a FIFO of
words. State: two hardware FIFOs, `WriteLock`, a queue of parked requests per
channel, the physical memory of each query. Hard: answers are paired with
requests by position only; requests are cancelable while the firmware owns their
memory; the boot query gives up. Correct when every parked request gets its own
answer and its memory outlives the firmware's use of it.

### I2C, `i2c/bcm2836/`, and SPI, `spi/`

SpbCx hands over one request at a time; dispatch, ISR, DPC and cancellation each
own it for a while. State: request, transfer state, captured status, the
controller's registers and FIFO. `bcmauxspi` is interrupt driven with words of
up to four bytes; `spi/bcm2836` polls in a thread and knows sequences and a lock
over several requests. Correct when each request is completed once and reports
what happened on the bus, and chip select is held as long as promised.

### UARTs, `uart/bcm2836/`

- **PL011** (`serPL011`): rings behind try-locks, a PIO state moved with
  compare-and-exchange by SerCx2 callbacks, ISR and DPC; registers that are
  queried and overwritten in two steps; events and errors for waiting clients.
  Correct when bytes go once and in order, SerCx2 is told exactly once that
  there is room or data, and settings are what was asked for.
- **mini UART** (`miniUart`): adapted WDK sample; requests with reference bits,
  an interrupt buffer, timers, DPCs, flow control, wait masks, power states.
  Correct when requests end once, the ISR never uses a request that ended,
  characters are kept, and the settings survive sleep.

### The others

- **GPIO** (`gpio/bcm2836`): pins with mode and function; a storm watchdog moves
  pins between masks in ISR, DPC and timer. Correct when a pin is not forgotten,
  only connected pins interrupt, and the first function comes back.
- **PWM, DMA** (`pwm/bcm2836`) and **audio** (`audio/bcm2836`): a ring of packets
  shared through counters without a lock; an ISR that links and counts packets
  and detects underflow; users of the registers beside the audio driver.
- **SD hosts** (`sd/bcm2836/rpisdhc`, `sd/bcm2836/bcm2836sdhc`,
  `sd/bcm2711/brcme88c`): commands, PIO by worker or DPC, DMA chains, bus
  settings. Correct when a request is completed once and was really moved, and
  clock, width, mode and events are what Sdport asked for.
- **Ethernet** (`net/bcm2711/bcmgenet`): two rings, their notification, one
  interrupt mask, filter and link timer under a lock.
- **USB filter** (`usb/bcm2711/rpiuxflt`): bounce buffers under the host
  controller's driver.
- **ACPI utilities**, **LAN property service**, **packaging**: parsing, a
  one-shot user-mode service, build files; nothing that interleaves.

How they interact: VCHIQ, PWM, SD and the audio driver (through PWM) send
requests to the mailbox driver or each other and wait for the answer; audio and
PWM share counters by pointer; everything else meets only in the framework.

## 2. Modules

| module | models | runs in |
|---|---|---|
| `VchiqThread` | one event of slot zero, doorbell, ISR, DPC; a processing thread, firmware, `VchiqRelease` | `vchiq` |
| `VchiqTx` | senders, firmware, recycle thread | `vchiq`, `rings` |
| `VchiqRx` | trigger thread, ioctl threads, firmware, slot recycling | `rx`, `rx_twice` |
| `VchiqBulk` | bulk requests of a service in one direction | `rx` |
| `VchiqService` | files, contexts, ports, CREATE, CLOSE, CONNECT | `rx` |
| `VchiqLib` | the userland library: instance, services, completions, buffers | `rings` |
| `VcosQueue` | block pools, named semaphores; message queues | `rings` |
| `RpiqMailbox` | mailbox handlers, ISR, DPC, boot query, cancellation, release | `vchiq` |
| `BcmI2c`, `AuxSpi`, `BcmSpi` | callbacks, ISR, DPC or thread, cancellation, controller | `peripherals` |
| `RpiSdHost`, `BcmSdhc`, `BcmEmmc2` | requests of the three SD hosts | `peripherals` |
| `SdBus` | their bus operations and events | `rings` |
| `ClockDividers` | all divisors, as functions, against the best divisor | `peripherals` |
| `MiniUartRequest` | reference bits and `SerialTryToCompleteCurrent`, used by the next three | |
| `MiniUartTx`, `MiniUartRx`, `MiniUartWait`, `MiniUartLine` | transmission, reception, wait masks, closing and RTS toggling | `devices` |
| `SerialWriter` | what a serial port promises its writers; `MiniUartTx` implements it | `devices` |
| `MiniUartPort` | device, power states, open and close, settings, external names | `rings` |
| `Pl011Tx`, `Pl011Rx` | PIO transmission and reception | `devices` |
| `Pl011Config` | settings requests, events, opening, hardware | `rings` |
| `PwmAudio`, `PwmRequests` | audio stream with DMA, ISR, DPC; users of the PWM registers | `devices`, `rings`, `pwm_audio` |
| `GenetInterrupts`, `GenetRings` | notification, start, stop, timer, filter; both rings | `devices`, `rings` |
| `BcmGpio` | a bank of pins with its storm watchdog | `rings` |
| `UsbBounce` | the bounce buffers | `rings` |

`MCVchiq`, `MCVchiqRx`, `MCDevices`, `MCPeripherals` and `MCRings`
put components side by side for TLC. A variable `scene` says which one a
behaviour is of; the others stay where they start, because the drivers share no
state. The next-state relation of a host is a disjunction of `scene = ... /\ Next`
and each invariant of a host names the properties of its scenes.

Definitions that stand for hardware, firmware or the framework are derived from
how the driver uses them. Where the code lets a race or a step be lost and says
or does nothing about it, the module records it in a variable `upset` (or a named
ghost) and the behaviour ends, or the properties have it as a proviso; section 3
lists them.

**VchiqThread.** Every access to `Armed`, `Fired` and the thread
event is a step of its own, because the hazard is in their order: `pc = "loop"`
is the `while` over positions, `"reset"` and `"arm"` are the stores of
`VCHIQ_RESET_EVENT_SIGNAL` and `VCHIQ_ENABLE_EVENT_INTERRUPT`, `"check"` is the
test of `Fired`, `"wait"` is `KeWaitForMultipleObjects`. An item of work is a
message or a recycled slot; only how many were posted and handled matters.
`ReleaseFree` requires that no ISR or DPC is left, because the framework
disconnects the interrupt before `EvtDeviceReleaseHardware`. In the code the
registers are unmapped (`device.c:328`) before `VchiqRelease` joins the threads.

**VchiqTx.** Stream positions are a slot number and an offset. A message in
memory is the position it was written for; the firmware is `"lost"` when there
is none at the position it parses. `VchiqAcquireTxSpace` is one step under
the mutex up to the wait for a slot (`SenderPad`, `SenderNewSlot`, `SenderFit`)
and one that ends the wait (`SenderTakeSlot`, `SenderFail` on a timeout); the
code after the unlock is split into the load of `CurrentTxPos` and the store to
`Slave.TxPos` (`SenderLoad`, `SenderStore`).

**VchiqRx.** Messages have one size. The reference count and the in-use flag are
read and written one access at a time, everything under a mutex that touches
nothing else is one step. Locals of `VchiqReleaseMsg` and `VchiqRecycleSlot` are
kept per thread. Files stay open; closing is `VchiqService`'s.

**VchiqBulk, VchiqService.** `VchiqBulk` ties request queue, list of user data and
DONE messages together by position only, as the code does; cancelling, a failed
request and an aborted transfer are `BulkUpsets`. `VchiqService` has the lookup of
the port, the delivery and the file's close as separate steps; messages that were
on their way when a file was closed abruptly reach the next file with the port,
and its properties exclude just that (`ServiceUpsets`).

**RpiqMailbox.** A query is an address; memory at it is free, a query or an
answer. `RpiqMailboxWrite` is the lock, the poll, the forward and the register
write, as separate steps. The DPC reads the FIFO, pops the head of the channel
queue and completes it without looking at the address. `Upsets` selects what may
go wrong: a cancellation, an answer to the boot query after its retries, a
release.

**BcmI2c, AuxSpi, BcmSpi.** The controller has a transfer on the bus and interrupt
enables; an interrupt is the level of a line. What critical sections cover is
one step; copy loops, during which the bus moves on, are several. The data
returned is the number of bytes clocked so far, so that a byte in the wrong place
shows. `overtaken` records that a request ended while its ISR or DPC was still
under way. SpbCx hands over the next request after its callback returned. `MapFails` is the
buffer of a main SPI transfer that cannot be mapped, at the two places of the polling loop that
need it; both assert that the MDL's size matches (controller.cpp:281, :311), and fail although it
does. `SpiAssertionsHold` is about the other assertions, which must survive it.

**SD hosts.** `RpiSdHost` has the issuing call, ISR, DPC and worker, and the reset
that takes back what the worker has; `BcmSdhc` and `BcmEmmc2` run under Sdport's
serialisation of DPC and issuing calls. Sdport resets the host after a failure or
a timeout, and no late busy signal follows the reset. `SdBus` has every register
write the card can see as a step.

**Mini UART.** `MiniUartRequest` holds state transformers: a party (ISR, cancel
routine, total timer, interval timer) has a reference bit in the request's
context, and `SerialTryToCompleteCurrent` takes back the others and completes the
request when none is left. Queue callbacks, timers, DPCs and cancel routines share
the device's lock (`WdfSynchronizationScopeDevice`), so a callback is one step, but
what it does outside `WdfInterruptSynchronize` is split at the points where the ISR
can see the difference. `SerialWriter` is the abstract specification: writes stand
in one line, characters go out for the first only, each ends once and reports what
was sent of it. `MtxImplementsWriter` maps the line to the queue and the current
write, `sent` to what the ISR took, `report` to how the request was completed.
`MiniUartPort` has what the previous four take as given: which registers are lost in
D3 and restored, what each settings request checks and stores, the external names.

**PL011.** ISR and DPC do not run on one processor at once, so they are three
threads' worth of steps with locks that are only tried (`skipped` when one was
taken). Purging happens when no copy is under way, as the assertions at
PL011tx.cpp:872 and pl011rx.cpp:699 demand of SerCx2.

**PWM and audio.** `PwmAudio` counts packets; the DMA reaches the end of a packet's
control blocks, the ISR clears the link, the stream sets it. The client writes when
its event is set and goes down from PAUSE to STOP. `PwmRequests` has the users of
the registers with the lock where the code takes it. `PrepareHardware` fills the context and
writes no register, so clock and ranges of the hardware are `Unset` until somebody sets them,
and the channels run as the firmware left them; `set` records what users have set.
`PwrConfigKept` is about that in context and hardware, and about the context's defaults for
the rest. The default divisor comes already shifted (section 3). Ranges asked for lie on both
sides of the audio's 2268: while the audio plays, a duty may exceed its range, and nobody may find
it so afterwards (`PwrDutyWithinRange`). DAT1 and DAT2 are left out.

**Genet.** `GenetInterrupts`: masks, armed flags, ISR and DPC of two queues, and the
adapter's lock over stop, filter, timer. `GenetRings`: indexes modulo descriptors and
modulo their width; a queue's callbacks are serialised by NetAdapterCx.

**GPIO, USB filter, library, VCOS.** GpioClx serialises all but the ISR. The host
controller's driver maps a transfer at most once. The library's calls are steps
between its mutexes. A message queue has one taker, as its header documents.

## 3. Runs

A cfg file names the bounds. Passing runs:

| run | shows | bounds |
|---|---|---|
| `vchiq` | no lost wake-up, the stop event ends a thread and a parked one is not touched by the release; one sender: the firmware finds and parses every message, slots come back; the mailbox never overflows, no request is parked without an answer to come, and answers belong to their requests until something is cancelled or late | 3 items; 3 slots of 2 message units, each used again; 2 mailbox clients, FIFO of 1, all upsets |
| `rx` | messages delivered once, in order, slots back once and not early; late requests and messages never miss each other; bulk requests, data and answers in step; ports, services and files apart; requests served | 2 files, 2 slots for 3 slots of stream; 3 bulk requests; 2 files for 2 ports |
| `devices` | UARTs: assertions hold, the ISR touches no ended request, characters are kept, flow control is undone, SerCx2 is told once, closing leaves nothing, transmission implements `SerialWriter`; audio in order with every underflow seen; Ethernet notifications; what clients wait for happens | 2 or 3 requests of a kind in several loads, rings of 2 or 3 characters; 5 packets through a buffer of 4; 2 queues stopped once |
| `peripherals` | I2C, SPI, SD: requests completed once and truthfully, interrupts off for the DPC, chip select held, assertions, divisors, signaling voltage; requests end | FIFOs of 1 or 2, transfers longer than them, all auxiliary modes, 1 to 3 blocks with an incomplete one, dividers of up to 16 |
| `rings` | two senders: slot accounting, semaphore limit, nothing unparsed overwritten; Ethernet, USB, VCOS and the library keep buffers and order; PWM, GPIO, PL011, SD bus and mini UART settings stay what was asked | 2 senders, 2 slots used twice; 3 descriptors, 5 packets, 5 buffers; 2 bounce buffers for 3 transfers; see the comments in `MCRings.cfg` |

Violation runs, each one disagreement between the code and its own comment or
assertion (quoted in `PROJECT.json`):

1. `rx_twice`, misc/vchiq/slots.c:2556 — two threads both find count and in-use
   flag clear and both return the slot.
2. `i2c_stale_dpc`, i2c device.cpp:1508 — a cancelled request leaves its DPC queued;
   it runs for the next request and completes it.
3. `uart_stuck`, miniUart write.c:629 — a queued write is started with the transmit
   interrupt off and the FIFO not yet empty: nothing starts it.
4. `pl011_lost`, pl011rx.cpp:343 — the DPC fills the ring between the look at it and
   the compare-and-set that begins the wait; the reader waits beside data.
5. `spi_lost`, bcmauxspi.cpp:341 — DPC and cancel routine each leave the completion to
   the other.
6. `sdhc_tail`, bcm2836sdhc.c:2798 — the tail of a transfer that fills no whole block
   is dropped and success reported.
7. `pwm_audio`, pwm.cpp:188 — a mode check made before the audio acquired the PWM: the call then
   changes the clock of audio that plays, or stops it.

Why the bounds are enough. *Transmit*: 13 bytes align to 16 and fill a slot exactly, 8
leave room for one header, so padding, exact fit and a new slot all happen; one slot of
the stream more than there are slots is memory used before. *Receive*: the third slot
of the stream reuses the first. *Mailbox*: a FIFO of one word makes the second writer
poll; two clients are a pair that can be mixed up. *I2C, SPI*: one byte is the special
case of `OnSequence`, the FIFO fits two, five need more than one interrupt. *UARTs*: a
ring or FIFO of one to three fills, wraps and overflows with three or four characters;
two requests are the current one and the one queued behind it. *Audio*: five packets
wrap the buffer of four. *Rings*: more packets than descriptors and index values, more
transfers than buffers, more names than blocks. *Ports*: two files and two ports are
reuse and shortage. *PWM*: two users, a range below the audio's and one above it, one clock besides the default. *Sleep*: the mini UART leaves D0 once (`MupSleeps`), which is every
pair of a change before or after it.

Deadlock checking is off where the model really ends (streams and clients are finite; a
lost race or a release ends a behaviour). `rings` keeps it for its VCHIQ scene; the others
may stay where frames and requests have run out.

**Liveness** is stated as `[]<>` of "nothing is left to do", one formula per host, because
the streams are finite and requests may be sent again: in the state that repeats for ever
everything that was accepted is served.

**Fairness.** Weak fairness of the steps of threads, handlers, ISR and DPC: the scheduler
runs a runnable thread, an asserted interrupt and a queued DPC are delivered, in the scene
that is running. The UARTs state the same as `[]<>`: the interrupt is not pending for ever, a
queued DPC, a set or due timer and a called cancel routine do not stay so. The firmware
finishes a signal it began, parses what is published and answers what it took; a bus or a
FIFO makes progress or reports an error; Sdport times out. Nothing forces a client to send,
cancel or close. No strong fairness is used.

**Mutants.** Each property of a passing run comes with at least one mutant, a definition next
to the original that a plausible bug would give: a dropped guard, an off-by-one, a missing
reset, a swapped order. Properties that cover several scenes have a mutant per driver.

### Provisos and what they stand for

What the code lets happen beyond its properties; the models record it and the properties are
stated up to there.

- **VCHIQ.** With two senders `Slave.TxPos` is stored after the unlock from a counter another
  sender may have advanced (slots.c:948), so `FirmwareFindsHeader` is stated with one.
  `InterlockedExchange` with a plain read as argument (slots.c:2551) loses decrements: the
  accounting of `rx` is with requests queued ahead, one thread moving messages. `Fired` may
  stay set for items already handled; the thread then loops without waiting (slots.c:816).
  A multi-element message's header pointer is advanced by Size headers instead of bytes
  (slots.c:1053); contents are not in the model. Failures of `VchiqRemovePendingMsg` and
  `VchiqRemovePendingVchiMsg` complete a request that ioctl.c:535 and :593 complete again. A BULK DONE that finds
  no request is dropped, and lists go out of step (slots.c:657). A refused OPEN leaves its
  CREATE pending, and a context that was allocated in part is used again (file.c:80).
- **Mailbox.** A cancelled request frees memory whose address the firmware has (mailbox.c:281); a
  boot query answered late completes the wrong request (interrupt.c:192). `MemoryUndisturbed` and
  `AnswersMatch` hold until then.
- **Library.** `upset`: initialise overlapping shutdown (vchiq_lib.c:1893), a shutdown that ends
  inside another's (:575, :557), a second service opened, a service opened while messages of the
  last one are left, buffers freed while the thread has them because the driver never counts
  `msgbufcount` down (:1954), `vchi_msg_hold` that returns 0 with nothing held (:1454). Creating a
  service leaks a peek buffer on failure. `vcos_msg_peek` waits for the semaphore with the lock held
  (vcos_msgqueue.c:224). Extensions of a block pool lose their flag and are never freed.
- **I2C, SPI.** Properties hold until a request ends under its ISR or DPC. A buffer that cannot be
  mapped fails an assertion about the MDL's size (controller.cpp:281, :311). A failed transfer of a
  main SPI sequence is followed by the next (controller.cpp:411) and is excluded from
  `TransfersTruthful`. After a one-byte I2C sequence whose marking fails the context is reset
  without the interrupt lock.
- **SD.** `SdBus`: a toggle between read and write of HCFG (rpisdhc.cpp:889); an error's
  acknowledgement that writes CONTROL_2 and clears the mode although a comment says it has no
  effect (bcm2836sdhc.c:1956); disabling one event masks the errors of all (:1807); setting the
  speed restarts a stopped clock. `SetHighSpeed` has its bit commented out. The work-around offset
  holds one byte (:186). eMMC2: after a failed switch register and regulator disagree until the
  reset (SlotExtension.cpp:1437, :1838).
- **Mini UART.** The divisor written is one too large, because the register counts from zero
  (utils.c:1388 against the formula at :1366): 921600 baud at 250 MHz become 892857, past the check for
  1 %. `DivisorIsBest` says how far off it is. The assertion write.c:341 can fail when the DPC or timer of an XOFF counter is
  delayed: `devices` has one counter without timeout. IER is read and written outside the interrupt
  lock at write.c:111. A failing StopIdle leaks the interrupt buffer (openclos.c:217). The
  condition at modmflow.c:1334 groups otherwise than its indentation. `MiniUartPort` ends at: a file
  closed asleep, whose clean-up is skipped and which `Reopen` brings back (openclos.c:570); opened
  asleep; closed after a surprise removal, when the registers are unmapped (:463); a debugger's port
  prepared twice (:336). Provisos: SET_LINE_CONTROL ends a break while `TXHolding` keeps it
  (ioctl.c:793); the data mask is 0x7f until a line was set (pnp.c:1507); a refused line request has
  changed the word length WMI tells (ioctl.c:734); RESTORE_SETTINGS is not checked against the escape
  character; a failed naming makes the registry entry stay (pnp.c:2174).
- **PL011.** A purge is assumed to find no copy under way, where the code asserts it
  (PL011tx.cpp:872, pl011rx.cpp:699). `torn`: two settings requests at once lose each other's bits
  (PL011hw.cpp:719). SET_FIFO_CONTROL acts on bits of an address (PL011ioctl.cpp:1306); a break event
  is not among the supported ones (PL011hw.h:213).
- **PWM, audio.** `upset`: a pause or completion between the ISR's read and write-back of CS
  (dmaInterrupt.cpp:265, dma.cpp:181 and :814), the exchange of the packets to prime
  (minwavertstream.cpp:1117), RUN after PAUSE and ACQUIRE (:1459), a mode check overtaken
  (pwm.cpp:188; `pwm_audio` shows what follows). The default divisor is shifted before it is stored
  (device.cpp:431) and again when it is written (pwm.cpp:110), which spoils the password: if nobody
  has set a clock, the register keeps the audio's after RELEASE_AUDIO. `InitializeAudio` checks no mode (dma.cpp:308).
- **Ethernet.** DPCs are flushed with the adapter's lock held (driver.c:649): with the link timer
  waiting for it the stop never ends.
- **GPIO.** A pin disconnected and connected again before the DPC has a watchdog count of 0, which
  wraps (BcmGpio.cpp:133). **USB.** An adapter that cannot be made completely fails the assertion
  dma.c:243.

**Environment.** Allocations succeed unless an upset says otherwise; callers respect
`VCHIQ_MAX_MSG_SIZE` (`RequestAssumption`); VCHIQ positions are unbounded, the wrap at 2^32
(slots.c:470) is not covered. `EvtIoStop` is modelled only for the mini UART's sleep. Interrupt
lines are level triggered.

## 4. Proofs

All are inductive invariants over `Next` with one case per action. They hold for every value of
the constants under the assumptions the modules declare, which say that bounds are numbers, a
message fits in a slot, there is a bounce buffer, a request has a transfer, and marker values are not members of the sets.

- **`VchiqProofs`**, events and threads: `NoLostWakeupHolds`, `ThreadTypeCorrect`, `ParkedThreadNeverFaultsHolds`.
  A parked thread with unhandled work is safe only because of what held before it
  parked, so `WakeupInv` adds: work that was announced and not handled is still
  marked in `Fired` once the thread left its loop (`UnhandledIsFired`); an event
  that is not armed has a wake-up coming or the thread is about to arm it
  (`NotArmedIsTransient`); only a release stops a thread (`StopAfterFree`). After the release a
  thread that is parked can only be woken to leave (`ParkedOrExited`).
- The same module, transmit accounting: `SlotAccountingHolds`, `SemaphoreWithinLimitHolds`,
  `TxTypeCorrect`. The limit is not inductive: it follows from the accounting
  and the fact that no more slots come back than were parsed. `TxInv` says that
  one sender is between lock and unlock and holds exactly the space up to
  `CurrentTxPos` (`MutexInv`), that nothing parsed, published or written lies
  ahead of it (`PositionInv`), and that recycled and held slots are bounded by
  parsed ones (`RecycleInv`).
- The same module, transmit stream: `StreamInvariant`, `UnparsedNeverOverwrittenHolds` (an action property),
  `FirmwareFindsHeaderHolds`, `TxPosCoversMessagesHolds`. What is in the slots: those of the stream the
  firmware has not parsed are different and not in its hands (`WindowInv`, from the accounting and
  the arithmetic of the ring); the slot a sender writes to and the one the firmware reads are those
  of their positions (`WriterInv`, `ReaderInv`); messages lie apart, between the two positions
  (`MessageInv`), with nothing between one and the next (`Gapless`). This is for any number
  of senders. The last two theorems have one sender as their hypothesis, because with two
  `Slave.TxPos` may go back (slots.c:948); `PublishedInv` says for each step of a send what is below the
  published position.
- **`VchiqRxProofs`**: `RxInvariant`, and from it `RxNoEarlyRecycleHolds`, `RxRecycledOnceHolds`, `RxNoSlotLeakHolds`,
  `RxDeliveredIsPostedHolds`. Their hypothesis `LateFiles = {}` is what `rx` checks them with: requests are
  queued ahead, so the trigger thread is the only one that moves messages (`OnlyTrigger`). With late
  requests the accounting does break (slots.c:2551; `rx_twice`), so it cannot be dropped. That a slot goes
  back once and not early depends on everything at once: the slots from `CurrentRxPos` to
  `Master.SlotQueueRecycle` are different (`WindowInv`); `RefCount` is the number of messages of the
  slot in the two lists, which are counted as a set (`CountInv`); what a list points at is in a slot that
  is not with the firmware, at the place the stream gave it (`PendingInv`); and a slot the
  firmware does not have is being parsed, referenced or on its way back (`FoundInv`). Because
  memory is used again, order needs that what is still to be parsed has not been written over
  (`MemoryInv`); then what was posted is what was delivered, what the list has, and what is still to
  be parsed, entry by entry (`FileInv`).
- **`VchiqRequestProofs`**: `NoStrandedWhileSpared`, `NoStrandedInFirstSlot`, and with them `RxNoStrandedMessageHolds` in
  `VchiqRxProofs`. AWAIT_COMPLETION queues its request before it takes `PendingDataMsgMutex`, so a message
  and a request may lie side by side, and the property speaks only of moments when no thread is in
  the critical section. The invariant says what excuses them inside: the request is one, and its own thread is
  at the mutex or has just taken it; or the message is one, and the holder of the mutex is about to take
  it (`MeetData`). Who has delivered a message to a vchi service still has to look at the dequeue
  requests (`MeetVchi`). Mutexes are held exactly between lock and unlock (`LocksInv`). None of this
  depends on the reference counts, but a message at the head of a list must not be written over, or it could
  change its size: `Spared`. Requests queued ahead have that from `RxInv`; with late requests it can
  fail (slots.c:2551), so there the theorem is about streams in which it does not, and about
  the first slot of any stream (`OneSlot`), which is what the scene "late" of `rx` has. `LateMeet` instantiates the
  module for that scene (whose file `f1` is one of `Files`), and lemmas say that it takes the same steps as `Late`.
- **`VchiqClientProofs`**, bulk transfers: `BulkInvariant`, `BulkTransfersOwnHolds`. The code keeps a request in two orders,
  `PendingBulkMsgList` and the queue of requests, and ties neither to the messages. The invariant says
  what they are made of: the queue is what the firmware has done, what it has still to do and what the
  handler is sending (`BulkPipeline`); the list is what the client will be told, then the queue
  (`BulkListed`). Both hold until a request is cancelled. That a queued request has no answer yet
  (`BulkQueued`) holds whatever happens. Failures of the handler are in it: each takes back exactly the
  entry it made, which is the last because the mutex is held. The proofs name the fields of the
  record (`queue == blk.queue`, ...), so that the provers see sequences and not field selections.
- The same module, services: `ServiceInvariant`, `ServicesStayApart`. A port is all that leads a message to
  its file, and the firmware answers late: what keeps files apart is that whatever is on its way belongs
  to a file that waits for its service or still has it (`Live`; `OpensAreLive`, `ServicesAreLive`,
  `RepliesAreLive`, `MessageIsLive`), and that the answer to CLOSE is the last word about a
  service (`CloseIsLast`, `CloseIsQueued`). This part needs that clients await the answer, as the property says;
  that each port has one file and each file its port (`FilesHavePorts`) holds whatever happens.
- **`VchiqProofs`** also has the mailbox's proofs. FIFOs: `MailboxNeverOverflowsHolds`, `MailboxTypeCorrect`.
  A handler that found room writes later; `LockInv` says that it still owns
  `WriteLock` and that there is still room. `DpcInv` carries the DPC's copy of
  the status, which is right because nobody else reads that FIFO.
- The same module, the mailbox's answers: `AnswerInvariant`, `AnswersMatchHolds`, `MemoryUndisturbedHolds`. The DPC pairs answers
  and requests by position. `PairInv` says that the requests parked are, in order, those the firmware has
  answered, the one it has, those in the write FIFO and the one about to be written, that each owns
  its memory, and that the DPC has one answer in hand at most; `IrqInv` keeps a second
  ISR from overtaking it. vchiq's words on the channel get no answer; queries are counted apart from
  them (`CountAppend`, `CountTail`).
- **`DeviceProofs`**, over `DeviceSpec`: `DeviceInvariant`, from it `CloseLeavesNothingHolds`, `ReadyIsExpectedHolds`,
  `EventsSeenHolds`, `AudioInOrderHolds`, `HoldReleasedHolds`. *Mini UART, lines*: the count of attempts to lower RTS is
  the DPC and timer entries, and each stage of a close has put in order what the later ones rely on (`MlnStages`).
  *Mini UART, receiver*: that a sender is stopped only above `XonLimit` (`MrxReleased`) must survive every way out of
  a read. The count sinks only where `SerialHandleReducedIntBuffer` is called, and it has to be 0 when the ISR
  goes back to the interrupt buffer without calling it; it is, because the ISR fills the read's own
  buffer only when the interrupt buffer is empty, and while it does, or its DPC is queued, the ISR
  holds a reference of the current read, which is what makes timer, cancellation and purge leave the read to
  it (`MrxHanded`). The limits are those the driver sets for its buffer (openclos.c:241, read.c:1456), of
  which `MrxAssumption` keeps that they do not overlap; IOCTL_SERIAL_SET_HANDFLOW may set others, and then a sender
  can be stopped and let go at the same count. `SerialFlushRequests` empties a queue of any length: the step is
  one of a least number of requests left (`Least`, from the well-foundedness of finite sets under inclusion). *PL011*: who may
  say "ready" depends on the state word, the DPC and where SerCx2's thread is (`PltExpects`, `PlrExpects`);
  a drain belongs to the thread that began it (`PltDrains`). *Ethernet*: a sleeping queue is being called,
  or its flag is set and the interrupt, the ISR or the DPC has what it has not seen (`GniExpects`); a
  stopped queue is disarmed before the DPCs are flushed (`GniDisarmed`); whoever holds the lock has read the
  current `UMAC.Cmd` (`GniLocked`, `GniCommand`). *Audio*: the four counters of driver and stream are read
  and written by three parties without a lock. What they mean follows from numbering the packets since
  the start: those linked are the last `PwaHeld` the client wrote, counting what the writer has linked and not
  counted and what the ISR has unlinked and not counted down, and the DMA is `PwaBehind` packets into them
  (`PwaPlace`, `PwaLinks`). The ISR's CONBLK_AD may be old, but names a packet in that stretch, and if an
  interrupt is pending, one before its end (`PwaInterrupt`). It holds until a race the code does not decide is
  lost (`upset`), for every number of packets in the buffer; the ring arithmetic is in lemmas of its own
  (`PwaSlotAdd` to `PwaUnlinked`).
- **`PeripheralProofs`**, over `PeripheralSpec`: `PeripheralInvariant`, from it `RequestsCompletedOnceHolds`,
  `InterruptsOffHolds`, `ChipSelectIsHeld`, `AssertionsAlwaysHold`, `SettingsAlwaysMatch`. One invariant for each driver, about who
  has the request. *I2C*: callback, interrupt, DPC or cancellation (`I2cOwned`); interrupts are enabled only
  while the request is marked, being started or being failed (`I2cInterrupts`). Once a handler was
  overtaken only types are left, as the properties say. *Auxiliary SPI*: the same in `AuxFlow`; in full duplex
  nothing is left to write when all is read because writing is just one FIFO ahead (`AuxAhead`).
  *Main SPI*: chip select depends on the request's position, which the lock and the number of requests under it
  decide (`SpiLocked`, `SpiUnlocked`); `AssertionsAlwaysHold` claims the assertions about target,
  request, lock and chip select, with failed mappings included, and not the two about the MDL's size. *Arasan host*: a transfer has blocks left before each of its steps
  (`SdhcBlocks`), and an internal request belongs to the transfer under way (`SdhcTail`). *Pi's SD host*: the
  DPC and the worker complete requests without looking at each other; they never meet because the worker
  has a request only when no event is there or to come that would run the DPC (`SdWork`, `SdQuiet`), and that
  follows from which events each kind of request leaves behind (`SdEvents`). *Pi 4's SD host*: until a switch fails
  half-way the register follows the regulator. *Divisors*: what each formula with its rounding, halving and
  limiting computes is the least, or the largest, divisor that will do, for every clock and every frequency
  (`EvenNotFasterIs`, `EvenNotSlowerIs` and the lemmas named after the drivers); all rest on
  `BelowQuotient`, and that `ClockLimit` is even and at least 4.
- **`PeripheralProofs`** also has the USB filter's, over its own specification: `UbInvariant`, `UbBufferOnceHolds`, `UbDataArrivesHolds`, for every number of
  buffers and transfers. That buffers are apart is not inductive: the entries of the stack must be
  distinct among themselves and from those that are mapped (`BuffersShared`), and the stack is never
  full while a transfer is under way only because mapped and free buffers add up
  (`BuffersCounted`); this is also why the assertions of the driver hold. `DataAt` says where a
  transfer's data is at each step.

Only model-checked: all liveness and the refinements; of the UARTs `AssertionsHold`, `IsrHoldsReference`
and `CharactersKept`; of `peripherals` `TransfersTruthful`; `PacketsInOrder` (but for its USB part) and
`SettingsKept`. TLC evaluates the divisors of `ClockDividers` for bounded inputs; the proof has no bound.

Two corrections came from the proofs. Several modules selected an outcome with a `CASE` whose arms
overlapped, relying on the order TLC tries them in; a `CASE` chooses any arm that is true, and the code's
`if ... else if` does not, so the arms are disjoint now. `VchiqBulk` took a request out of its queue by
filtering, which hid that it is there once; it is now taken from the place it is at.

## 5. Not modelled

Resource parsing, ACPI, register layouts and dumps, device set-up of VCHIQ; audio's adapter,
topology, properties and formats; `vcos_pthreads.c` (with the initialisation race of its global lock,
vcos_pthreads.c:525) and the logging of VCOS; the MMAL and application code of `misc/userland/`; PHY,
capabilities and statistics of the Ethernet driver; tuning and crash dumps of the SD hosts; the
mini UART's registry values, statistics and WMI beyond line settings; target connection and power of the SPI
drivers; the mailbox driver's NDIS callback; the LAN property service; packaging. They keep little or no
state that anything else races with.

## 6. Plan

1. The slot accounting of `VchiqRx` with late requests up to the first lost exchange; that the mini UART's
   references balance (`MrxHanded` has the ISR's alone); of `GenetRings`; of `TransfersTruthful`.
2. The safety part of `MtxImplementsWriter` as a step simulation.
3. Dequeue requests whose buffer is too small (ioctl.c:593) in `VchiqRx`; the wrap of 32-bit positions.
