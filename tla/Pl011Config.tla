---------------------------- MODULE Pl011Config ----------------------------
(***************************************************************************)
(* Configuration of the PL011 (PL011uart.cpp, PL011ioctl.cpp, PL011hw.cpp, *)
(* PL011device.cpp): opening and closing, the requests that read and write *)
(* its control and line registers and the configuration kept beside them,  *)
(* the events a client waits for, and the hardware's coming and going.     *)
(*                                                                         *)
(* RegsLock makes each access to a register atomic, not the sequence of a  *)
(* query and an overwrite: `torn` says that one missed another's write,    *)
(* and ends the behaviour.  DTR, OUT1, OUT2 and loopback behave as RTS     *)
(* does and are left out.  IOCTL_SERIAL_SET_FIFO_CONTROL does not read its *)
(* buffer: it acts on bits of the address (PL011ioctl.cpp:1306), any here. *)
(***************************************************************************)
EXTENDS Integers

CONSTANTS
  PlcClients,   \* threads that call the driver
  PlcOwners,    \* those that configure it altogether
  PlcOpens,     \* bound on files opened at once
  PlcRates,     \* baud rates that can be asked for
  PlcSettable,  \* those the clock and the registry allow
  PlcLines      \* word lengths, stop bits and parities the hardware knows

ASSUME PlcAssumption ==
  PlcOwners \subseteq PlcClients /\ PlcSettable \subseteq PlcRates /\ PlcRates \subseteq Nat \ {0}

VARIABLE
  plc
  \* device: "none", "parsed", "mapped", "started", "failed";  conflict: IsDebuggerConflict;
  \* reserved: FunctionConfigHandle;  OpenCount;  supported: of UartSupportedControlsMask;
  \* UARTCR, line, FEN, BRK, rate, UARTIMSC, UARTRIS: registers;  baud, flow, setup:
  \* CurrentConfiguration;  WaitEventMask, maskSet: since the first open;  IntEventsForDpc;
  \* errors: UartErrorTypes;  owed: errors not told yet;  settled: GetSupportedBaudRates ran;
  \* isr, dpc: the events they work on;  waiting, due: a wait and the events it waits for that came;
  \* pc, op: of a client's request;  torn, upset

Modes == {"CTSEn", "RTSEn", "RTS"}
Errors == {"OE", "BE"}   \* overrun, as framing and parity; break
Events == {"OE"}         \* UART_INTERRUPTS_EVENTS: break is not among them (PL011hw.h:213)
NoRequest == [arg |-> {}, saved |-> {}, wanted |-> {}, next |-> "idle"]

\* PL011pDeviceGetSupportedFeatures, for what the registry says.
Supported(registry) ==
  IF registry.flow = "none" THEN registry.lines ELSE {"CTSEn", "RTSEn"}

\* PL011pDriverReadConfig; software flow control is refused when the device is added.
Registry == [flow : {"none", "hardware"}, lines : SUBSET {"RTS"}]

PlcInit ==
  \E registry \in Registry, conflict \in BOOLEAN :
    plc = [device |-> "none", conflict |-> FALSE, clash |-> conflict, reserved |-> FALSE,
           OpenCount |-> 0, supported |-> Supported(registry), UARTCR |-> {}, line |-> "reset",
           FEN |-> FALSE, BRK |-> FALSE, rate |-> 0, UARTIMSC |-> {}, UARTRIS |-> {},
           baud |-> 0, flow |-> {}, setup |-> "reset", WaitEventMask |-> {}, maskSet |-> FALSE,
           IntEventsForDpc |-> {}, errors |-> {}, owed |-> {}, settled |-> FALSE,
           isr |-> {}, dpc |-> [at |-> "idle", events |-> {}], waiting |-> FALSE, due |-> {},
           pc |-> [c \in PlcClients |-> "idle"], op |-> [c \in PlcClients |-> NoRequest],
           torn |-> FALSE, upset |-> {}]

-----------------------------------------------------------------------------
(* The device *)

\* PL011HwGetSupportedBaudRates leaves the last rate that could be set, the first time.
PL011HwGetSupportedBaudRates(s) ==
  IF s.settled \/ PlcSettable = {} THEN [s EXCEPT !.settled = TRUE]
  ELSE LET last == CHOOSE r \in PlcSettable : \A q \in PlcSettable : q <= r
       IN [s EXCEPT !.settled = TRUE, !.rate = last, !.baud = last]

\* PL011HwSetFifoThreshold turns the FIFOs off and on.
PL011HwInitController(s) ==
  [PL011HwGetSupportedBaudRates(s) EXCEPT
     !.UARTCR = {"UARTEN"}, !.UARTIMSC = {}, !.UARTRIS = {}, !.FEN = TRUE,
     !.owed = s.IntEventsForDpc \cap @]

PL011HwStopController(s) == [s EXCEPT !.UARTCR = {}, !.UARTIMSC = {}]

\* PL011pDeviceParseResources may find the debugger on the port.
PL011pDeviceParseResources ==
  /\ plc.device = "none" /\ plc.upset = {}
  /\ \/ plc' = [plc EXCEPT !.device = "parsed", !.conflict = @ \/ plc.clash]
     \/ plc' = [plc EXCEPT !.device = "failed"]

\* With the debugger on the port its pins are reserved, and nothing is mapped.
PL011pDeviceReserveFunctionConfigResource ==
  /\ plc.device = "parsed" /\ plc.conflict
  /\ plc' = IF plc.reserved THEN [plc EXCEPT !.upset = {"reserved twice"}]
            ELSE [plc EXCEPT !.device = "started", !.reserved = TRUE]

\* The registers, then the interrupt, each of which may fail.
PL011pDeviceMapResources ==
  /\ plc.device = "parsed" /\ ~plc.conflict
  /\ \E device \in {"failed", "mapped failed", "mapped"} : plc' = [plc EXCEPT !.device = device]

PL011pDeviceCreateDeviceInterface ==
  /\ plc.device = "mapped"
  /\ plc' \in {[plc EXCEPT !.device = "mapped failed"],
               [PL011HwInitController(plc) EXCEPT !.device = "started"]}

\* When the device goes its file is closed and no request is under way.
PL011EvtDeviceReleaseHardware ==
  /\ plc.device \in {"started", "failed", "mapped failed"} /\ plc.OpenCount = 0
  /\ \A c \in PlcClients : plc.pc[c] = "idle"
  /\ plc' = [plc EXCEPT !.device = "none"]

\* A first open; no other callback is under way then, nor at the last close.
PL011EvtSerCx2FileOpen ==
  /\ plc.device = "started" /\ ~plc.conflict /\ plc.OpenCount < PlcOpens
  /\ plc' = IF plc.OpenCount > 0 THEN [plc EXCEPT !.OpenCount = @ + 1]
            ELSE [PL011HwInitController(plc) EXCEPT
                    !.OpenCount = 1, !.UARTCR = {"UARTEN", "RXE", "TXE"}, !.UARTIMSC = {"RX"}, !.maskSet = FALSE]

PL011EvtSerCx2FileClose ==
  /\ plc.OpenCount > 0
  /\ plc.OpenCount = 1 => \A c \in PlcClients : plc.pc[c] = "idle"
  /\ plc' = IF plc.OpenCount > 1 THEN [plc EXCEPT !.OpenCount = @ - 1]
            ELSE [PL011HwStopController(plc) EXCEPT !.OpenCount = 0, !.waiting = FALSE, !.due = {}]

-----------------------------------------------------------------------------
(* Requests *)

Goes(c, s, pc) == [s EXCEPT !.pc[c] = pc, !.op[c] = IF pc = "idle" THEN NoRequest ELSE @]

Idle(c) == plc.OpenCount > 0 /\ plc.pc[c] = "idle"

\* PL011HwUartControl with a query first: what others wrote in between is lost.
Overwrite(c, s, control) ==
  [s EXCEPT !.UARTCR = control, !.torn = @ \/ s.UARTCR # s.op[c].saved]

\* PL011HwSetBaudRate: the registers, then the configuration.
PL011HwSetBaudRate(c, s, rate, next) ==
  Goes(c, [s EXCEPT !.rate = rate, !.op[c].arg = rate, !.op[c].next = next], "baud config")

PL011IoctlSetBaudRate(c, rate) ==
  /\ Idle(c) /\ rate \in PlcSettable
  /\ plc' = PL011HwSetBaudRate(c, plc, rate, "idle")

SetBaudRateConfig(c) ==
  /\ plc.pc[c] = "baud config"
  /\ plc' = Goes(c, [plc EXCEPT !.baud = plc.op[c].arg,
                                !.torn = @ \/ plc.rate # plc.op[c].arg], plc.op[c].next)

\* PL011HwSetFlowControl and PL011HwSetModemControl query first.
Queried(c, arg) == [plc EXCEPT !.op[c].arg = arg, !.op[c].saved = plc.UARTCR]

PL011IoctlSetHandflow(c, flow) ==
  /\ Idle(c)
  /\ plc' = Goes(c, Queried(c, flow), "flow write")

PL011IoctlSetModemControl(c, modes) ==
  /\ Idle(c)
  /\ plc' = Goes(c, Queried(c, modes), "modem write")

PL011HwSetFlowControl(c) ==
  /\ plc.pc[c] = "flow write"
  /\ LET r == plc.op[c]
     IN plc' = IF ~(r.arg \subseteq plc.supported) THEN Goes(c, plc, "idle")
               ELSE Goes(c, Overwrite(c, plc, (r.saved \ Modes) \cup r.arg), "flow config")

SetFlowControlConfig(c) ==
  /\ plc.pc[c] = "flow config"
  /\ plc' = Goes(c, [plc EXCEPT !.flow = plc.op[c].arg], plc.op[c].next)

PL011HwSetModemControl(c) ==
  /\ plc.pc[c] = "modem write"
  /\ LET r == plc.op[c]
     IN plc' = IF ~(r.arg \subseteq plc.supported) THEN Goes(c, plc, "idle")
               ELSE Goes(c, Overwrite(c, plc, (r.saved \ Modes) \cup r.arg), "idle")

\* CLR_RTS, SET_RTS
PL011IoctlSetRts(c, on) ==
  /\ Idle(c) /\ "RTS" \in plc.supported
  /\ plc' = [plc EXCEPT !.UARTCR = IF on THEN @ \cup {"RTS"} ELSE @ \ {"RTS"}]

PL011IoctlSetLineControl(c, line) ==
  /\ Idle(c)
  /\ plc' = Goes(c, [Queried(c, line) EXCEPT !.UARTCR = @ \ {"UARTEN"}], "line write")

\* Mutant: a refused line control leaves the UART disabled.
LineKeepsDisabled(c) ==
  /\ plc.pc[c] = "line write"
  /\ LET line == plc.op[c].arg
     IN plc' = IF line \notin PlcLines THEN Goes(c, plc, "idle")
               ELSE Goes(c, [plc EXCEPT !.line = line, !.setup = line], "line restore")

\* Under RegsLock, and ConfigLock in it.
PL011HwSetLineControl(c) ==
  /\ plc.pc[c] = "line write"
  /\ LET line == plc.op[c].arg
     IN plc' = IF line \notin PlcLines
               THEN Goes(c, [plc EXCEPT !.op[c].next = "idle"], "line restore")
               ELSE Goes(c, [plc EXCEPT !.line = line, !.setup = line], "line restore")

SetLineControlRestore(c) ==
  /\ plc.pc[c] = "line restore"
  /\ LET r == plc.op[c]
         missed == plc.UARTCR # r.saved \ {"UARTEN"}
     IN plc' = Goes(c, [plc EXCEPT !.UARTCR = r.saved, !.torn = @ \/ missed], r.next)

\* SET_BREAK_ON, SET_BREAK_OFF
PL011HwSetBreak(c, on) ==
  /\ Idle(c)
  /\ plc' = [plc EXCEPT !.BRK = on]

PL011HwEnableFifos(s, on) == [s EXCEPT !.FEN = on]

\* The thresholds are set with the FIFOs off; what is asked for in the end is not what the client
\* passed.
PL011IoctlSetFifoControl(c) ==
  \/ Idle(c) /\ plc' = Goes(c, PL011HwEnableFifos(plc, FALSE), "fifo on")
  \/ plc.pc[c] = "fifo on" /\ plc' = Goes(c, PL011HwEnableFifos(plc, TRUE), "fifo end")
  \/ plc.pc[c] = "fifo end"
     /\ \E on \in BOOLEAN : plc' = Goes(c, PL011HwEnableFifos(plc, on), "idle")

PL011EvtSerCx2ApplyConfig(c, rate, flow, line) ==
  /\ Idle(c)
  /\ plc' = Goes(c, [plc EXCEPT !.baud = 0,
                       !.op[c].wanted = [rate |-> rate, flow |-> flow, line |-> line]], "parse")

\* A descriptor that cannot be parsed, or a rate that cannot be set, leaves no rate.
PL011pParseSerialBusDescriptor(c) ==
  /\ plc.pc[c] = "parse"
  /\ LET rate == plc.op[c].wanted.rate
     IN \/ plc' = Goes(c, plc, "idle")
        \/ rate \in PlcSettable /\ plc' = PL011HwSetBaudRate(c, plc, rate, "apply flow")

\* PL011pApplyConfig: the settings one after the other, then all of them in the configuration.
ApplyFlowControl(c) ==
  /\ plc.pc[c] = "apply flow"
  /\ plc' = Goes(c, [Queried(c, plc.op[c].wanted.flow) EXCEPT !.op[c].next = "apply line"], "flow write")

ApplyLineControl(c) ==
  /\ plc.pc[c] = "apply line"
  /\ plc' = Goes(c, [Queried(c, plc.op[c].wanted.line) EXCEPT
                       !.UARTCR = @ \ {"UARTEN"}, !.op[c].next = "apply fifos"], "line write")

ApplyFifos(c) ==
  /\ plc.pc[c] = "apply fifos"
  /\ plc' = Goes(c, PL011HwEnableFifos(plc, TRUE), "apply config")

ApplyConfiguration(c) ==
  /\ plc.pc[c] = "apply config"
  /\ LET wanted == plc.op[c].wanted
     IN plc' = Goes(c, [plc EXCEPT !.baud = wanted.rate, !.flow = wanted.flow, !.setup = wanted.line,
                          !.torn = @ \/ plc.rate # wanted.rate \/ plc.line # wanted.line], "idle")

-----------------------------------------------------------------------------
(* Events *)

\* SET_WAIT_MASK under ConfigLock; the framework ends the wait for the mask before.
PL011EvtSerCx2SetWaitMask(mask) ==
  /\ plc.OpenCount > 0
  /\ plc' = [plc EXCEPT !.UARTIMSC = (@ \ Events) \cup mask, !.WaitEventMask = mask,
                        !.maskSet = TRUE, !.waiting = FALSE, !.due = {}]

Wait ==
  /\ plc.OpenCount > 0 /\ ~plc.waiting
  /\ plc' = [plc EXCEPT !.waiting = TRUE]

\* One that comes while the ISR acknowledges it is one with it.
LineEvent(e) ==
  /\ plc.OpenCount > 0 /\ e \notin plc.UARTRIS \cup plc.isr
  /\ plc' = [plc EXCEPT !.UARTRIS = @ \cup {e}, !.owed = @ \cup {e},
                        !.due = IF plc.waiting /\ e \in plc.UARTIMSC \cap plc.WaitEventMask
                                THEN @ \cup {e} ELSE @]

\* Its own interrupt or that of a character; raw events are taken, masked ones too.
PL011pInterruptIsrEvents ==
  /\ plc.OpenCount > 0 /\ plc.isr = {} /\ plc.UARTRIS # {}
  /\ plc' = [plc EXCEPT !.isr = plc.UARTRIS, !.IntEventsForDpc = @ \cup plc.UARTRIS]

InterruptClears ==
  /\ plc.isr # {}
  /\ plc' = [plc EXCEPT !.isr = {}, !.UARTRIS = @ \ plc.isr]

InterruptDpcTakes ==
  /\ plc.dpc.at = "idle" /\ plc.IntEventsForDpc # {}
  /\ plc' = [plc EXCEPT !.dpc = [at |-> "record", events |-> plc.IntEventsForDpc],
                        !.IntEventsForDpc = {}]

\* Mutant: the last events replace the ones before.
RecordReplaces ==
  /\ plc.dpc.at = "record"
  /\ plc' = [plc EXCEPT !.dpc.at = "notify", !.errors = plc.dpc.events]

PL011DeviceRecordErrors ==
  /\ plc.dpc.at = "record"
  /\ plc' = [plc EXCEPT !.dpc.at = "notify", !.errors = @ \cup plc.dpc.events]

PL011DeviceNotifyEvents ==
  /\ plc.dpc.at = "notify"
  /\ LET s == [plc EXCEPT !.dpc = [at |-> "idle", events |-> {}]]
     IN plc' = IF plc.dpc.events \cap plc.WaitEventMask = {} THEN s
               ELSE [s EXCEPT !.waiting = FALSE, !.due = {}]

\* The errors are exchanged for none.
PL011IoctlGetCommStatus ==
  /\ plc.OpenCount > 0 /\ plc.errors # {}
  /\ plc' = [plc EXCEPT !.errors = {}, !.owed = @ \ plc.errors]

-----------------------------------------------------------------------------
(* What clients are told *)

PL011IoctlGetBaudRate == plc.baud
PL011IoctlGetLineControl == plc.setup
PL011IoctlGetHandflow == plc.flow
PL011HwGetModemControl == plc.UARTCR \cap Modes
PL011IoctlGetDtrRts == plc.UARTCR \cap {"RTS"}
PL011IoctlGetModemStatus == plc.UARTCR \cap {"RTS"}   \* the lines it drives, not those it reads

PL011IoctlGetProperties ==
  [rtscts |-> "RTS" \in plc.supported, handshaking |-> plc.supported \cap {"CTSEn", "RTSEn"} # {}]

PlcDeviceNext ==
  \/ PL011pDeviceParseResources \/ PL011pDeviceReserveFunctionConfigResource
  \/ PL011pDeviceMapResources \/ PL011pDeviceCreateDeviceInterface
  \/ PL011EvtDeviceReleaseHardware \/ PL011EvtSerCx2FileOpen \/ PL011EvtSerCx2FileClose

PlcEventsNext ==
  /\ plc.upset = {}
  /\ \/ PlcDeviceNext
     \/ Wait \/ PL011pInterruptIsrEvents \/ InterruptClears \/ InterruptDpcTakes
     \/ PL011DeviceRecordErrors \/ PL011DeviceNotifyEvents \/ PL011IoctlGetCommStatus
     \/ \E mask \in SUBSET Errors : PL011EvtSerCx2SetWaitMask(mask)
     \/ \E e \in Errors : LineEvent(e)

PlcRequestsNext ==
  /\ plc.upset = {} /\ ~plc.torn
  /\ \/ PlcDeviceNext
     \/ \E c \in PlcClients :
          \/ SetBaudRateConfig(c) \/ PL011HwSetFlowControl(c) \/ SetFlowControlConfig(c)
          \/ PL011HwSetModemControl(c) \/ PL011HwSetLineControl(c) \/ SetLineControlRestore(c)
          \/ \E rate \in PlcRates : PL011IoctlSetBaudRate(c, rate)
          \/ \E on \in BOOLEAN : PL011IoctlSetRts(c, on)
          \/ \E line \in PlcLines \cup {"nine bits"} : PL011IoctlSetLineControl(c, line)
     \/ \E c \in PlcOwners :
          \/ PL011IoctlSetFifoControl(c) \/ PL011pParseSerialBusDescriptor(c)
          \/ ApplyFlowControl(c) \/ ApplyLineControl(c) \/ ApplyFifos(c) \/ ApplyConfiguration(c)
          \/ \E on \in BOOLEAN : PL011HwSetBreak(c, on)
          \/ \E flow \in {{}, {"RTS"}, {"CTSEn", "RTSEn"}} :
               \/ PL011IoctlSetHandflow(c, flow) \/ PL011IoctlSetModemControl(c, flow)
               \/ \E rate \in PlcRates, line \in PlcLines :
                    flow # {"RTS"} /\ PL011EvtSerCx2ApplyConfig(c, rate, flow, line)

-----------------------------------------------------------------------------
\* An open UART stays enabled, also when requests fail halfway.
PlcEnabled ==
  plc.OpenCount > 0 /\ ~plc.torn =>
    \/ {"UARTEN", "RXE", "TXE"} \subseteq plc.UARTCR
    \/ \E c \in PlcClients : plc.pc[c] \in {"line write", "line restore"}

\* What clients are told of rate and line is what the hardware does, or that there is no rate.
PlcToldTruly ==
  plc.OpenCount > 0 /\ ~plc.torn /\ (\A c \in PlcClients : plc.pc[c] = "idle") =>
    /\ PL011IoctlGetBaudRate \in {0, plc.rate}
    /\ PL011IoctlGetLineControl = plc.line

\* No line the board does not have is driven, whoever asks, and what is driven is among the
\* properties clients are told.
PlcSupported ==
  /\ PL011HwGetModemControl \cup PL011IoctlGetHandflow \subseteq plc.supported
  /\ PL011IoctlGetDtrRts \cup PL011IoctlGetModemStatus # {} => PL011IoctlGetProperties.rtscts
  /\ PL011IoctlGetHandflow \ {"RTS"} # {} => PL011IoctlGetProperties.handshaking
  /\ plc.rate \in PlcSettable \cup {0}
  /\ plc.line \in PlcLines \cup {"reset"}

\* No error is lost on its way from the register to the client.
PlcErrorsTold ==
  plc.owed \subseteq plc.UARTRIS \cup plc.IntEventsForDpc \cup plc.errors
                   \cup (IF plc.dpc.at = "record" THEN plc.dpc.events ELSE {})

\* An event that is waited for is on its way to the wait, and only such events interrupt (a break
\* may, that once was waited for).
PlcWaitEnds ==
  /\ plc.waiting => plc.due \subseteq plc.UARTRIS \cup plc.IntEventsForDpc \cup plc.dpc.events
  /\ plc.OpenCount > 0 /\ plc.maskSet =>
       plc.UARTIMSC \cap Events = plc.WaitEventMask \cap Events

\* Callbacks find registers.
PlcMapped == plc.OpenCount > 0 => plc.device = "started" /\ ~plc.conflict
=============================================================================
