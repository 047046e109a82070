------------------------------ MODULE BcmGpio ------------------------------
(***************************************************************************)
(* One bank of the GPIO controller (BcmGpio.cpp).  A pin that interrupts   *)
(* GpioReset times before the DPC runs is disabled by the ISR; the DPC     *)
(* moves it to the pending pins and starts a timer, and the timer enables  *)
(* it again, while the pin may be masked, disconnected and connected.      *)
(* A pin goes back to its first function when its last user disconnects.   *)
(*                                                                         *)
(* GpioClx, the framework, holds the interrupt lock around the ISR's       *)
(* callbacks and calls the others one at a time; it opens a pin for        *)
(* interrupts only when the pin is free or open for input.  A pin          *)
(* disabled by the ISR, disconnected and connected again before the DPC    *)
(* runs has a watchdog count of zero: the next interrupt makes it 255 and  *)
(* the one after fails an assertion (line 133).  Behaviours end there.     *)
(***************************************************************************)
EXTENDS Integers

CONSTANTS
  GpioPins,    \* the pins of the bank
  GpioIoPins,  \* those that are used for more than interrupts
  GpioReset    \* WATCHDOG_RESET

ASSUME GpioAssumption == GpioIoPins \subseteq GpioPins /\ GpioReset \in Nat \ {0}

VARIABLE
  gpio
  \* enabled, disabled, pending: enabledMask, disabledMask, pendingReenableMask;  registers: the
  \* shadow of the four enable registers, hw: what they hold, GPEDS: events;  count:
  \* watchdogCount;  dpcQueued, dpc, timerQueued, timer;  masked: by the framework;
  \* openInterrupt, openIo, openFunction: the pins' users;  call, pin: the callback under way;
  \* first, function: initialGpfsel and gpfsel;  pull;  kept: pins left as they were;  upset

NoPin == "none"

GpioInit ==
  \E first \in [GpioPins -> {"input", "output", "alt"}] :
    /\ \A p \in GpioPins \ GpioIoPins : first[p] = "alt"
    /\ gpio = [enabled |-> {}, disabled |-> {}, pending |-> {}, registers |-> {}, hw |-> {},
               GPEDS |-> {}, count |-> [p \in GpioPins |-> GpioReset], dpcQueued |-> FALSE,
               dpc |-> "idle", timerQueued |-> FALSE, timer |-> "idle", masked |-> {},
               openInterrupt |-> {}, openIo |-> {}, openFunction |-> {}, call |-> "none",
               pin |-> NoPin, first |-> first, function |-> first,
               pull |-> [p \in GpioPins |-> "default"], kept |-> {}, upset |-> {}]

programInterruptRegisters(s) == [s EXCEPT !.hw = s.registers \cap s.enabled]

-----------------------------------------------------------------------------
(* Interrupts *)

\* An edge, or a level that stays: the event is latched for an enabled pin.
PinEvent(p) ==
  /\ p \in gpio.hw \ gpio.GPEDS
  /\ gpio' = [gpio EXCEPT !.GPEDS = @ \cup {p}]

PreProcessControllerInterrupt(s) ==
  LET storm == {p \in s.GPEDS : s.count[p] = 1}
      counted == [s EXCEPT !.count = [p \in GpioPins |-> IF p \in s.GPEDS THEN @[p] - 1 ELSE @[p]],
                    !.enabled = @ \ storm, !.disabled = @ \cup storm, !.dpcQueued = TRUE,
                    !.upset = IF \E p \in s.GPEDS : s.count[p] = 0 THEN {"watchdog"} ELSE @]
  IN IF storm = {} THEN counted
     ELSE [programInterruptRegisters(counted) EXCEPT !.GPEDS = @ \ storm]

\* MaskInterrupts
Mask(s, pins) ==
  [programInterruptRegisters([s EXCEPT !.registers = @ \ pins]) EXCEPT
     !.GPEDS = @ \ pins, !.masked = @ \cup pins]

\* The framework's ISR masks some of the active pins and clears the others, of those it finds
\* enabled (QueryEnabledInterrupts, QueryActiveInterrupts, ClearActiveInterrupts).
GpioIsr ==
  /\ gpio.GPEDS # {}
  /\ LET s == PreProcessControllerInterrupt(gpio)
         active == s.GPEDS \cap s.registers
     IN \E pins \in SUBSET active :
          gpio' = [Mask(s, pins) EXCEPT !.GPEDS = @ \ active]

UnmaskInterrupt(p) ==
  /\ p \in gpio.masked
  /\ gpio' = programInterruptRegisters([gpio EXCEPT
               !.registers = @ \cup {p}, !.GPEDS = @ \ {p}, !.masked = @ \ {p}])

\* Mutant: pins of an earlier storm are forgotten.
DpcReplacesPending ==
  /\ gpio.dpcQueued /\ gpio.dpc = "idle"
  /\ gpio' = [gpio EXCEPT !.dpcQueued = FALSE, !.pending = gpio.disabled, !.disabled = {},
               !.count = [p \in GpioPins |-> GpioReset],
               !.dpc = IF gpio.disabled = {} THEN "idle" ELSE "start"]

\* evtDpcFunc
GpioDpc ==
  /\ gpio.dpcQueued /\ gpio.dpc = "idle"
  /\ gpio' = [gpio EXCEPT !.dpcQueued = FALSE, !.pending = @ \cup gpio.disabled, !.disabled = {},
               !.count = [p \in GpioPins |-> GpioReset],
               !.dpc = IF gpio.disabled = {} THEN "idle" ELSE "start"]

\* WdfTimerStart: a timer that is set starts anew.
GpioDpcStartsTimer ==
  /\ gpio.dpc = "start"
  /\ gpio' = [gpio EXCEPT !.dpc = "idle", !.timerQueued = TRUE]

GpioTimerFires ==
  /\ gpio.timerQueued /\ gpio.timer = "idle"
  /\ gpio' = [gpio EXCEPT !.timerQueued = FALSE, !.timer = "running"]

evtReenableInterruptTimerFunc ==
  /\ gpio.timer = "running"
  /\ gpio' = programInterruptRegisters([gpio EXCEPT !.timer = "idle",
               !.GPEDS = @ \ gpio.pending, !.enabled = @ \cup gpio.pending, !.pending = {}])

-----------------------------------------------------------------------------
(* Users of pins *)

\* setDriveMode leaves the pull of an output alone.
setDriveMode(s, p, function, pull) ==
  [s EXCEPT !.function[p] = function, !.kept = @ \ {p},
            !.pull[p] = IF function = "output" THEN @ ELSE pull]

revertPinToDefault(s, p) == setDriveMode(s, p, s.first[p], "default")

EnableInterrupt(p) ==
  /\ gpio.call = "none" /\ p \notin gpio.openInterrupt \cup gpio.openFunction
  /\ p \in gpio.openIo => gpio.function[p] = "input"
  /\ LET s == [gpio EXCEPT !.openInterrupt = @ \cup {p}, !.call = "enable", !.pin = p]
     IN gpio' = IF p \in gpio.openIo THEN s ELSE setDriveMode(s, p, "input", "up")

EnableInterruptLocked ==
  /\ gpio.call = "enable"
  /\ gpio' = programInterruptRegisters([gpio EXCEPT !.call = "none", !.pin = NoPin,
               !.registers = @ \cup {gpio.pin}, !.enabled = @ \cup {gpio.pin},
               !.GPEDS = @ \ {gpio.pin}])

\* Mutant: the timer may still enable the pin.
DisableKeepsPending(p) ==
  /\ gpio.call = "none" /\ p \in gpio.openInterrupt
  /\ gpio' = [programInterruptRegisters([gpio EXCEPT !.call = "disable", !.pin = p,
               !.enabled = @ \ {p}, !.disabled = @ \ {p}, !.registers = @ \ {p}, !.masked = @ \ {p}])
               EXCEPT !.GPEDS = @ \ {p}]

DisableInterrupt(p) ==
  /\ gpio.call = "none" /\ p \in gpio.openInterrupt
  /\ gpio' = [programInterruptRegisters([gpio EXCEPT !.call = "disable", !.pin = p,
               !.enabled = @ \ {p}, !.disabled = @ \ {p}, !.pending = @ \ {p},
               !.registers = @ \ {p}, !.masked = @ \ {p}])
               EXCEPT !.GPEDS = @ \ {p}]

DisableInterruptReverts ==
  /\ gpio.call = "disable"
  /\ LET s == IF gpio.pin \in gpio.openIo THEN gpio ELSE revertPinToDefault(gpio, gpio.pin)
     IN gpio' = [s EXCEPT !.call = "none", !.pin = NoPin, !.openInterrupt = @ \ {gpio.pin}]

ConnectFunctionConfigPins(p) ==
  /\ gpio.call = "none" /\ p \in GpioIoPins
  /\ p \notin gpio.openInterrupt \cup gpio.openIo \cup gpio.openFunction
  /\ gpio' = [setDriveMode(gpio, p, "alt", "up") EXCEPT !.openFunction = @ \cup {p}]

DisconnectFunctionConfigPins(p) ==
  /\ gpio.call = "none" /\ p \in gpio.openFunction
  /\ gpio' = [revertPinToDefault(gpio, p) EXCEPT !.openFunction = @ \ {p}]

ConnectIoPins(p, function) ==
  /\ gpio.call = "none" /\ p \in GpioIoPins \ (gpio.openIo \cup gpio.openFunction)
  /\ p \in gpio.openInterrupt => function = "input"
  /\ gpio' = [setDriveMode(gpio, p, function, "up") EXCEPT !.openIo = @ \cup {p}]

DisconnectIoPins(p, preserve) ==
  /\ gpio.call = "none" /\ p \in gpio.openIo
  /\ LET s == IF preserve THEN [gpio EXCEPT !.kept = @ \cup {p}]
              ELSE IF p \in gpio.openInterrupt THEN gpio
              ELSE revertPinToDefault(gpio, p)
     IN gpio' = [s EXCEPT !.openIo = @ \ {p}]

-----------------------------------------------------------------------------
GpioNext ==
  /\ gpio.upset = {}
  /\ \/ GpioIsr \/ GpioDpc \/ GpioDpcStartsTimer \/ GpioTimerFires
     \/ evtReenableInterruptTimerFunc \/ EnableInterruptLocked \/ DisableInterruptReverts
     \/ \E p \in GpioPins :
          \/ PinEvent(p) \/ UnmaskInterrupt(p) \/ EnableInterrupt(p) \/ DisableInterrupt(p)
          \/ ConnectFunctionConfigPins(p) \/ DisconnectFunctionConfigPins(p)
          \/ \E function \in {"input", "output"} : ConnectIoPins(p, function)
          \/ \E preserve \in BOOLEAN : DisconnectIoPins(p, preserve)

-----------------------------------------------------------------------------
Connected == gpio.openInterrupt \ (IF gpio.call = "none" THEN {} ELSE {gpio.pin})

\* A connected pin is enabled or comes back: the DPC will see a disabled one, the timer a pending
\* one, whatever storms, other pins and connections came in between.
GpioComesBack ==
  gpio.upset = {} =>
    /\ Connected = gpio.enabled \cup gpio.disabled \cup gpio.pending
    /\ gpio.disabled # {} => gpio.dpcQueued
    /\ gpio.pending # {} => gpio.dpc = "start" \/ gpio.timerQueued \/ gpio.timer = "running"
    /\ gpio.enabled \cap gpio.registers \subseteq gpio.hw

\* No pin interrupts without a user, and a pin with a user of interrupts is an input.
GpioOnlyConnected ==
  /\ gpio.hw \cup gpio.GPEDS \subseteq Connected
  /\ \A p \in gpio.openInterrupt : gpio.function[p] = "input"

\* Without a user a pin is what it was at the start, unless the last one wanted it kept.
GpioReverted ==
  \A p \in GpioPins \ (gpio.openInterrupt \cup gpio.openIo \cup gpio.openFunction \cup gpio.kept) :
    /\ gpio.function[p] = gpio.first[p]
    /\ gpio.first[p] # "output" => gpio.pull[p] = "default"
=============================================================================
