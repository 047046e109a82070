---------------------------- MODULE MiniUartPort ----------------------------
(***************************************************************************)
(* The mini UART's port (pnp.c, power.c, ioctl.c, openclos.c): its device  *)
(* comes and goes, sleeps and wakes, its one file is opened and closed     *)
(* meanwhile, and the client's settings live in the registers, in the      *)
(* device extension and in what is saved over sleep.                       *)
(*                                                                         *)
(* Requests are serialised by the device's lock and held back by the       *)
(* queues while the device is not in D0; opening, closing and the power    *)
(* callbacks are not serialised with each other.  A file that is opened or *)
(* closed asleep, or closed without registers, sets `upset`, which ends    *)
(* the behaviour: the driver then works on a stale state.  DTR behaves as  *)
(* RTS does and is left out, the interrupt buffer is empty here.           *)
(***************************************************************************)
EXTENDS Naturals, FiniteSets

CONSTANTS
  MupRates,    \* baud rates asked for
  MupSettable, \* those with a divisor that is near enough
  MupSleeps    \* bound on how often the device leaves D0

ASSUME MupAssumption == MupSettable \subseteq MupRates /\ MupSleeps \in Nat /\ 9600 \in MupSettable

VARIABLE
  mup
  \* device: "absent", "added", "failed", "D3", "entering", "D0", "leaving", "gone";  counted: by
  \* SerialCount;  mapped: UnMapRegisters;  connected: IsInterruptConnected;  debug: DebugPortInUse;
  \* pins: FunctionConfigHandle;  link, entry, named: external names;  surprise: removed without
  \* notice;  sleeps;  file: "closed", "opening", "open", "closing", "draining", "freeing";
  \* buffer: InterruptReadBuffer;  DeviceIsOpened, Reopen;  IER, MCR, LCR, divisor: registers;
  \* saved: DeviceState;  CurrentBaud, LineControl, mask, flow, chars, EscapeChar: settings;
  \* hold: SERIAL_TX_BREAK;  wmi: WmiCommData;  rts: as the client set it last;  basic: what
  \* BASIC_SETTINGS returned;  load: what the client asks for;  chosen, misled, cut, unchecked,
  \* upset: provisos of the properties

Words == {7, 8}
Parities == {"none", "odd"}
Zero == [bits |-> 5, parity |-> "none", brk |-> FALSE]   \* a line control register of 0
NoFlow == [rts |-> "disable", errorchar |-> FALSE]
Flows == [rts : {"disable", "control", "handshake"}, errorchar : BOOLEAN]
DefaultChars == {"xon", "xoff"}

MupInit ==
  \E debug \in BOOLEAN, connection \in BOOLEAN, load \in {"line", "flow", "chars"} :
    mup = [device |-> "absent", counted |-> 0, mapped |-> FALSE, connected |-> FALSE,
           onDebugger |-> debug, debug |-> FALSE, connection |-> connection, pins |-> FALSE,
           link |-> FALSE, entry |-> FALSE, nameless |-> FALSE, named |-> FALSE, surprise |-> FALSE,
           sleeps |-> 0, file |-> "closed", buffer |-> FALSE, DeviceIsOpened |-> FALSE,
           Reopen |-> FALSE, IER |-> "none", MCR |-> {}, LCR |-> Zero, divisor |-> 0,
           saved |-> [IER |-> "none", MCR |-> {}, LCR |-> Zero], CurrentBaud |-> 0,
           LineControl |-> Zero, mask |-> 0, flow |-> NoFlow, chars |-> {}, EscapeChar |-> "none",
           hold |-> FALSE, wmi |-> [baud |-> 0, bits |-> 0, parity |-> "none"], rts |-> FALSE,
           basic |-> {}, load |-> load, chosen |-> FALSE, misled |-> FALSE,
           cut |-> FALSE, unchecked |-> FALSE, upset |-> {}]

-----------------------------------------------------------------------------
(* Registers *)

SerialSetRTS(s) == [s EXCEPT !.MCR = @ \cup {"RTS"}, !.rts = TRUE]
SerialClrRTS(s) == [s EXCEPT !.MCR = @ \ {"RTS"}, !.rts = FALSE]

\* SerialSetBaud: the divisor latch.
SerialSetBaud(s) == [s EXCEPT !.divisor = s.CurrentBaud]

\* LineControl never has the break bit, which only the register knows: the line's break ends.
SerialSetLineControl(s) == [s EXCEPT !.LCR = s.LineControl, !.cut = s.hold]

\* An open port changes what differs, a closed one sets all.
SetupHandFlow(s, flow) ==
  LET t == [s EXCEPT !.flow = flow]
  IN  IF s.DeviceIsOpened /\ s.flow.rts = flow.rts THEN t
      ELSE IF flow.rts = "disable" THEN SerialClrRTS(t) ELSE SerialSetRTS(t)

\* Mutant: the reset does not restore the line.
ResetForgetsLine(s) ==
  SerialSetBaud(SetupHandFlow([s EXCEPT !.LCR.brk = FALSE, !.MCR = @ \ {"OUT2"}], s.flow))

\* SerialReset: FIFOs, break, line, handshake and rate, as the extension has them.
SerialReset(s) ==
  SerialSetBaud(SetupHandFlow(SerialSetLineControl(
    [s EXCEPT !.LCR.brk = FALSE, !.MCR = @ \ {"OUT2"}]), s.flow))

SerialDisableUART(s) == [s EXCEPT !.MCR = @ \ {"OUT2"}, !.IER = "none"]

SerialMarkClose(s) == [SerialDisableUART(s) EXCEPT !.DeviceIsOpened = FALSE, !.Reopen = FALSE]

SetDeviceIsOpened(s, opened, reopen) == [s EXCEPT !.DeviceIsOpened = opened, !.Reopen = reopen]

-----------------------------------------------------------------------------
(* The device *)

\* Name, queues, interrupt, timers, DPCs, WMI: what fails before the count is raised deletes the
\* device.
SerialEvtDeviceAdd ==
  /\ mup.device = "absent"
  /\ \/ mup' = [mup EXCEPT !.device = "added", !.counted = 1]
     \/ mup' = [mup EXCEPT !.device = "gone"]

\* Mutant: names go with the device only when it has its interface.
UndoNamesOfNamed(s) == IF s.named /\ ~s.nameless THEN [s EXCEPT !.entry = FALSE] ELSE s

SerialUndoExternalNaming(s) == IF s.nameless THEN s ELSE [s EXCEPT !.entry = FALSE]

SerialEvtDeviceContextCleanup ==
  /\ mup.device \in {"added", "failed"} /\ ~mup.mapped /\ mup.file = "closed"
  /\ mup' = [SerialUndoExternalNaming(mup) EXCEPT !.device = "gone", !.counted = @ - 1,
                                                  !.buffer = FALSE, !.link = FALSE]

\* SerialMapHWResources: with the debugger on the port its pins are reserved, if they have a
\* connection, and nothing else; without one the device fails.
DebuggerOnPort(s) ==
  IF s.pins THEN {[s EXCEPT !.upset = {"reserved twice"}]}
  ELSE {[s EXCEPT !.debug = TRUE, !.device = "failed"]} \cup
       (IF s.connection THEN {[s EXCEPT !.debug = TRUE, !.pins = TRUE, !.device = "D3"]} ELSE {})

SerialMapHWResources(s) == IF s.onDebugger THEN DebuggerOnPort(s) ELSE {s}

\* SerialDoesPortExist never says no: it leaves interrupts off and lines low, and finds the FIFOs.
SerialDoesPortExist(s) == [s EXCEPT !.IER = "none", !.MCR = {}]

\* The defaults of SerialInitController.
Defaults(s) ==
  [s EXCEPT !.chars = DefaultChars, !.flow = NoFlow, !.mask = 7, !.CurrentBaud = 9600,
            !.LineControl = [bits |-> 8, parity |-> "none", brk |-> FALSE],
            !.EscapeChar = "none", !.chosen = FALSE, !.unchecked = FALSE]

WmiDefaults(s) ==
  [s EXCEPT !.wmi = [baud |-> s.CurrentBaud, bits |-> s.LineControl.bits,
                     parity |-> s.LineControl.parity], !.misled = FALSE]

\* The registers are mapped, the mini UART enabled, which may take too long, and reset.
SerialInitController(s) ==
  {[s EXCEPT !.device = "failed"], [s EXCEPT !.mapped = TRUE, !.device = "failed"]} \cup
  {WmiDefaults(SerialClrRTS(SerialMarkClose(SerialReset(
     SetDeviceIsOpened(Defaults(SerialDoesPortExist([s EXCEPT !.mapped = TRUE])), FALSE, FALSE)))))}

\* A failure after the entry in the registry is written drops the name that would delete it.
SerialDoExternalNaming(s) ==
  IF s.named THEN {[s EXCEPT !.device = "D3"]}
  ELSE {[s EXCEPT !.device = "failed", !.nameless = TRUE, !.link = l, !.entry = e \/ s.entry]
          : l \in BOOLEAN, e \in BOOLEAN}
       \cup {[s EXCEPT !.device = "failed", !.link = TRUE, !.entry = TRUE],   \* the port name
             [s EXCEPT !.device = "D3", !.link = TRUE, !.entry = TRUE, !.named = TRUE]}

SerialEvtPrepareHardware ==
  /\ mup.device = "added" /\ mup.upset = {}
  /\ \E s \in SerialMapHWResources(mup) :
       IF s # mup THEN mup' = s
       ELSE \E t \in SerialInitController(s) :
              IF t.device = "failed" THEN mup' = t ELSE mup' \in SerialDoExternalNaming(t)

\* A device with an open file is only removed without notice; one that failed goes away.
SerialEvtReleaseHardware ==
  /\ \/ mup.device = "failed" /\ (mup.mapped \/ mup.debug)
     \/ mup.device = "D3" /\ (mup.surprise \/ mup.file = "closed")
  /\ mup' = [mup EXCEPT !.mapped = FALSE,
                        !.device = IF @ = "failed" \/ mup.surprise THEN "failed" ELSE "added",
                        !.debug = IF mup.device = "failed" THEN FALSE ELSE @]

-----------------------------------------------------------------------------
(* Power *)

SerialSaveDeviceState(s) ==
  [s EXCEPT !.saved = [IER |-> s.IER, MCR |-> s.MCR, LCR |-> s.LCR]]

\* The interrupt state lock is the closing thread's meanwhile.
LockFree == mup.file # "draining"

SerialEvtDeviceD0ExitPreInterruptsDisabled ==
  /\ mup.device = "D0" /\ LockFree /\ mup.sleeps < MupSleeps
  /\ \E surprise \in BOOLEAN :
       mup' = [mup EXCEPT !.device = "leaving", !.connected = FALSE, !.surprise = surprise,
                          !.sleeps = @ + 1]

SerialEvtDeviceD0Exit ==
  /\ mup.device = "leaving"
  /\ LET s == SetDeviceIsOpened(mup, FALSE, mup.DeviceIsOpened)
         t == IF mup.DeviceIsOpened THEN SerialSaveDeviceState(SerialDisableUART(s)) ELSE s
     IN  mup' = [t EXCEPT !.device = "D3"]

\* Mutant: the modem control register is not restored.
EntryForgetsModem ==
  /\ mup.device = "D3" /\ ~mup.debug /\ ~mup.surprise
  /\ LET s == SerialSetBaud([mup EXCEPT !.MCR = {}, !.IER = mup.saved.IER,
                                        !.LCR = mup.saved.LCR, !.device = "entering"])
     IN  mup' = IF s.Reopen THEN [SetDeviceIsOpened(s, TRUE, FALSE) EXCEPT !.IER = "all"] ELSE s

SerialEvtDeviceD0Entry ==
  /\ mup.device = "D3" /\ ~mup.debug /\ ~mup.surprise
  /\ LET s == SerialSetBaud([mup EXCEPT !.MCR = {}, !.IER = mup.saved.IER,
                                        !.LCR = mup.saved.LCR, !.device = "entering"])
     IN  mup' = IF s.Reopen
                THEN [SetDeviceIsOpened(s, TRUE, FALSE) EXCEPT
                        !.MCR = s.saved.MCR \cup {"OUT2"}, !.IER = "all"]
                ELSE s

SerialEvtDeviceD0EntryPostInterruptsEnabled ==
  /\ mup.device = "entering" /\ LockFree
  /\ mup' = [mup EXCEPT !.device = "D0", !.connected = TRUE]

-----------------------------------------------------------------------------
(* The file *)

\* WdfDeviceStopIdle waits for D0.  With the debugger on the port an assertion fails.
SerialEvtDeviceFileCreate ==
  /\ mup.device = "D0" /\ mup.file = "closed"
  /\ \/ mup' = [mup EXCEPT !.file = "opening", !.pins = mup.connection, !.buffer = TRUE,
                           !.EscapeChar = "none", !.unchecked = FALSE]
     \/ mup' = mup   \* no pins or no memory

\* SerialMarkOpen
SerialMarkOpen ==
  /\ mup.file = "opening"
  /\ mup' = IF mup.device # "D0" THEN [mup EXCEPT !.upset = {"opened asleep"}]
            ELSE [SerialReset(mup) EXCEPT !.file = "open", !.MCR = @ \cup {"OUT2"},
                    !.IER = "receive", !.DeviceIsOpened = TRUE]

\* SerialEvtFileClose disables the interrupts first.
SerialEvtFileClose ==
  /\ mup.file = "open"
  /\ mup' = IF ~mup.mapped THEN [mup EXCEPT !.upset = {"unmapped"}]
            ELSE [mup EXCEPT !.file = "closing", !.IER = "none"]

TurnOffBreak(s) == [s EXCEPT !.hold = FALSE, !.LCR.brk = @ /\ ~s.hold, !.cut = FALSE]

\* SerialFileCloseWorker leaves the hardware alone when the interrupt is not connected.
SerialFileCloseWorker ==
  /\ mup.file = "closing"
  /\ mup' = IF mup.connected
            THEN [TurnOffBreak(SetDeviceIsOpened(mup, FALSE, FALSE)) EXCEPT !.file = "draining"]
            ELSE [mup EXCEPT !.file = "freeing",
                             !.upset = IF mup.surprise /\ mup.IER = "none" THEN {}
                                      ELSE {"closed asleep"}]

CloseHardware ==
  /\ mup.file = "draining"
  /\ mup' = [SerialClrRTS(SerialMarkClose(mup)) EXCEPT !.file = "freeing", !.hold = FALSE]

CloseFrees ==
  /\ mup.file = "freeing"
  /\ mup' = [mup EXCEPT !.file = "closed", !.buffer = FALSE, !.pins = FALSE]

-----------------------------------------------------------------------------
(* Requests *)

\* SerialEvtIoDeviceControl refuses a port that is not open.
Served == mup.device = "D0" /\ mup.file = "open" /\ mup.DeviceIsOpened

SetBaudRate(rate) ==
  /\ Served /\ mup.load = "line" /\ rate \in MupSettable
  /\ mup' = SerialSetBaud([mup EXCEPT !.CurrentBaud = rate, !.wmi.baud = rate])

\* What WMI tells is changed before parity and stop bits are looked at.
SetLine(bits, parity, stop) ==
  /\ Served /\ mup.load = "line" /\ bits \in Words
  /\ LET s == [mup EXCEPT !.wmi.bits = bits]
         t == [s EXCEPT !.wmi.parity = parity]
     IN  mup' = IF parity \notin Parities THEN [s EXCEPT !.misled = TRUE]
                ELSE IF stop # 1 THEN [t EXCEPT !.misled = TRUE]
                ELSE SerialSetLineControl(
                       [t EXCEPT !.LineControl = [bits |-> bits, parity |-> parity, brk |-> FALSE],
                                 !.mask = bits, !.chosen = TRUE, !.misled = FALSE])

SerialTurnOnBreak ==
  /\ Served /\ mup.load = "line"
  /\ mup' = [mup EXCEPT !.LCR.brk = TRUE, !.hold = TRUE, !.cut = FALSE]

SerialTurnOffBreak ==
  /\ Served /\ mup.load = "line"
  /\ mup' = TurnOffBreak(mup)

\* SET_RTS, CLR_RTS: the handshake's line is its own.
SetRts(on) ==
  /\ Served /\ mup.load = "flow" /\ mup.flow.rts # "handshake"
  /\ mup' = IF on THEN SerialSetRTS(mup) ELSE SerialClrRTS(mup)

\* SET_MODEM_CONTROL writes the register as it is told.
SetModemControl(lines) ==
  /\ Served /\ mup.load = "flow"
  /\ mup' = [mup EXCEPT !.MCR = lines, !.rts = "RTS" \in lines]

\* Mutant: the error character is not refused.
HandFlowUnchecked(flow) ==
  /\ Served /\ mup.load # "line"
  /\ mup' = SetupHandFlow(mup, flow)

\* Error characters are refused in escape mode.
SetHandFlow(flow) ==
  /\ Served /\ mup.load # "line"
  /\ ~(mup.EscapeChar # "none" /\ flow.errorchar)
  /\ mup' = SetupHandFlow(mup, flow)

SetChars(chars) ==
  /\ Served /\ mup.load = "chars"
  /\ mup.EscapeChar \notin chars
  /\ mup' = [mup EXCEPT !.chars = chars]

\* LSRMST_INSERT; "none" ends the escape mode.
SerialSetEscapeChar(char) ==
  /\ Served /\ mup.load = "chars"
  /\ char # "none" => char \notin mup.chars /\ ~mup.flow.errorchar
  /\ mup' = [mup EXCEPT !.EscapeChar = char]

\* INTERNAL_BASIC_SETTINGS returns handshake and FIFO and takes basic ones ...
BasicSettings ==
  /\ mup.device = "D0" /\ mup.file = "open" /\ mup.load # "line" /\ mup.basic = {}
  /\ mup' = SetupHandFlow([mup EXCEPT !.basic = {mup.flow}], NoFlow)

\* ... and RESTORE_SETTINGS puts them back, whatever the escape character is now.
RestoreSettings ==
  /\ mup.device = "D0" /\ mup.file = "open"
  /\ \E flow \in mup.basic :
       mup' = SetupHandFlow([mup EXCEPT !.basic = {},
                               !.unchecked = mup.EscapeChar # "none" /\ flow.errorchar], flow)

SerialGetBaudRate == mup.CurrentBaud
SerialGetLineControl == [bits |-> mup.LineControl.bits, parity |-> mup.LineControl.parity]
SerialGetDtrRts == mup.MCR \cap {"RTS"}
EvtWmiQueryPortCommData == mup.wmi

MupDeviceNext ==
  \/ SerialEvtDeviceAdd \/ SerialEvtDeviceContextCleanup
  \/ SerialEvtPrepareHardware \/ SerialEvtReleaseHardware
  \/ SerialEvtDeviceD0ExitPreInterruptsDisabled \/ SerialEvtDeviceD0Exit
  \/ SerialEvtDeviceD0Entry \/ SerialEvtDeviceD0EntryPostInterruptsEnabled

MupFileNext ==
  \/ SerialEvtDeviceFileCreate \/ SerialMarkOpen \/ SerialEvtFileClose \/ SerialFileCloseWorker
  \/ CloseHardware \/ CloseFrees

MupNext ==
  /\ mup.upset = {}
  /\ \/ MupDeviceNext
     \/ MupFileNext
     \/ SerialTurnOnBreak \/ SerialTurnOffBreak \/ BasicSettings \/ RestoreSettings
     \/ \E rate \in MupRates : SetBaudRate(rate)
     \/ \E bits \in Words, parity \in Parities \cup {"bad"}, stop \in {1, 2} :
          SetLine(bits, parity, stop)
     \/ \E on \in BOOLEAN : SetRts(on)
     \/ \E lines \in SUBSET {"RTS", "OUT2"} : SetModemControl(lines)
     \/ \E flow \in Flows : SetHandFlow(flow)
     \/ \E chars \in {DefaultChars, {"escape", "xoff"}} : SetChars(chars)
     \/ \E char \in {"none", "escape", "xoff"} : SerialSetEscapeChar(char)

-----------------------------------------------------------------------------
\* A port the client uses; asleep it has the client's settings too, saved.
PortInUse == mup.file = "open" /\ mup.device = "D0" /\ mup.upset = {}

\* Sleep and wake keep the settings: the registers are as the client asked, and what the client and
\* WMI are told is what the registers hold.
MupSettingsKept ==
  PortInUse =>
    /\ mup.divisor = SerialGetBaudRate
    /\ mup.LCR.bits = SerialGetLineControl.bits /\ mup.LCR.parity = SerialGetLineControl.parity
    /\ mup.LCR.brk = mup.hold \/ mup.cut
    /\ mup.chosen => mup.mask = mup.LCR.bits
    /\ EvtWmiQueryPortCommData.baud = mup.divisor
    /\ ~mup.misled => EvtWmiQueryPortCommData = [baud |-> mup.divisor, bits |-> mup.LCR.bits,
                                                 parity |-> mup.LCR.parity]
    /\ SerialGetDtrRts # {} <=> mup.rts

\* A port in use hears the line, and the interrupt never fills a buffer that is gone.
MupHears ==
  /\ PortInUse => mup.DeviceIsOpened /\ mup.IER # "none" /\ mup.mapped /\ mup.connected
  /\ mup.upset = {} /\ mup.DeviceIsOpened /\ mup.IER # "none" => mup.buffer

\* A closed port is quiet, also after sleep: no interrupts, RTS and break off, its pins free.
MupClosedQuiet ==
  mup.file = "closed" /\ mup.device = "D0" /\ mup.upset = {} =>
    /\ ~mup.DeviceIsOpened /\ ~mup.Reopen /\ mup.IER = "none" /\ "RTS" \notin mup.MCR
    /\ ~mup.hold /\ ~mup.pins

\* Escape characters are told from flow control, whatever is set in which order.
MupEscapes ==
  mup.EscapeChar # "none" /\ ~mup.unchecked =>
    mup.EscapeChar \notin mup.chars /\ ~mup.flow.errorchar

\* A device that is gone is not counted and has no names, unless naming failed halfway.
MupGone ==
  mup.device \in {"absent", "gone"} =>
    /\ mup.counted = 0 /\ ~mup.mapped /\ ~mup.link
    /\ mup.entry => mup.nameless
=============================================================================
