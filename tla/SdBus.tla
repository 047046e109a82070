------------------------------- MODULE SdBus -------------------------------
(***************************************************************************)
(* The bus operations of the three SD host controllers: bcm2836sdhc.c      *)
(* ("arasan"), SlotExtension.cpp ("emmc2") and rpisdhc.cpp ("rpi"): clock, *)
(* width, speed, voltage, and the events that are enabled.  Sdport issues  *)
(* one operation at a time, and a reset after one that failed; it toggles  *)
(* events, and the driver acknowledges errors, at any time.  Each register *)
(* write that the card can see is a step.  The voltage of the signals is   *)
(* BcmEmmc2's; here it stops the clock.                                    *)
(*                                                                         *)
(* `upset` names what ends the behaviour: "hcfg": a toggle between the     *)
(* read and the write of HCFG; "mode": an error's acknowledgement writes   *)
(* all of CONTROL_2, and the mode with it; "errors": disabling one event   *)
(* masks the errors of the others; "off": the speed is set while the clock *)
(* is to be off, which starts it.                                          *)
(***************************************************************************)
EXTENDS Integers, SequencesExt

CONSTANTS
  SbClocks,   \* frequencies
  SbModes,    \* UHS modes
  SbWidths,   \* bus widths
  SbVolts,    \* voltages, "off" among them
  SbEvents    \* events of Sdport: "request" and others

VARIABLE sdb

SbHosts == {"arasan", "emmc2", "rpi"}

\* Registers after a reset, and what is asked for by then.
SbReset == [internal |-> FALSE, clock |-> FALSE, freq |-> 0, width |-> 1, high |-> FALSE,
            mode |-> "none", volt |-> "off",
            driver |-> "B"]

\* What the operation under way is to reach, and the HCFG it read.
SbNothing == [to |-> SbReset, read |-> {}]

SdbInit ==
  sdb \in [host : SbHosts, r : {SbReset}, asked : {SbReset}, events : {{}}, wanted : {{}},
           errors : {FALSE}, at : {"idle"}, arg : {SbNothing}, failed : {TRUE},
           glitch : {FALSE}, upset : {{}}]

Host(h) == sdb.host = h
SbAt(at) == sdb.at = at

\* An operation may start; after a failed one that is a reset.
Ready == SbAt("idle") /\ ~sdb.failed

\* A register is written; the card must not see the clock change its rate or mode while it runs.
Write(s, r) ==
  [s EXCEPT !.r = r, !.glitch = @ \/ (s.host # "rpi" /\ s.r.clock /\ r.clock
                                       /\ <<r.freq, r.mode>> # <<s.r.freq, s.r.mode>>)]

Step(at, r) == [Write(sdb, r) EXCEPT !.at = at]
Start(at, r, to) == [Step(at, r) EXCEPT !.arg = [to |-> to, read |-> {}]]
Succeeds(s) == [s EXCEPT !.at = "idle", !.asked = s.arg.to, !.arg = SbNothing]
Fails(s) == [s EXCEPT !.at = "idle", !.failed = TRUE, !.arg = SbNothing]

\* An operation of one write.
Does(r) == [Write(sdb, r) EXCEPT !.asked = r]

-----------------------------------------------------------------------------
(* Resets *)

\* SdhcResetHost for all keeps CONTROL_1, which has the clock; SlotExtension's nothing; rpisdhc's
\* switches the card on.  A reset that does not end fails.
SdbResetHost ==
  /\ SbAt("idle")
  /\ LET r == CASE Host("arasan") -> [SbReset EXCEPT !.internal = sdb.r.internal,
                                        !.clock = sdb.r.clock, !.freq = sdb.r.freq]
                [] Host("emmc2") -> SbReset
                [] Host("rpi") -> [SbReset EXCEPT !.volt = "on"]
         s == [sdb EXCEPT !.r = r, !.asked = r, !.events = {}, !.wanted = {}, !.errors = FALSE]
     IN \/ sdb' = [s EXCEPT !.failed = FALSE]
        \/ ~Host("rpi") /\ sdb' = Fails(sdb)

-----------------------------------------------------------------------------
(* The clock *)

\* Mutant: the divider is written first.
ClockLate(freq) ==
  /\ Ready /\ ~Host("rpi")
  /\ LET to == [sdb.asked EXCEPT !.freq = freq, !.internal = TRUE, !.clock = TRUE]
     IN sdb' = Start("clock off", [sdb.r EXCEPT !.freq = freq], to)

\* SdhcSetClock and SetClock: both clocks are stopped, ...
SdbSetClock(freq) ==
  /\ Ready /\ ~Host("rpi")
  /\ LET to == [sdb.asked EXCEPT !.freq = freq, !.internal = TRUE, !.clock = TRUE]
     IN sdb' = Start("clock off", [sdb.r EXCEPT !.internal = FALSE, !.clock = FALSE], to)

\* ... the divider is written and the internal clock started, ...
ClockDivides ==
  /\ SbAt("clock off")
  /\ sdb' = Step("clock stable", [sdb.r EXCEPT !.freq = sdb.arg.to.freq, !.internal = TRUE])

\* ... and when it is stable, if it ever is, the card's.
ClockStarts ==
  /\ SbAt("clock stable")
  /\ \/ sdb' = Succeeds(Step("idle", [sdb.r EXCEPT !.clock = TRUE]))
     \/ sdb' = Fails(sdb)

\* Of emmc2 only: no frequency stops the card's clock; one that no divider gives changes nothing.
ClockStops ==
  /\ Ready /\ Host("emmc2")
  /\ \/ sdb' = Does([sdb.r EXCEPT !.clock = FALSE])
     \/ sdb' = Fails(sdb)

\* Of rpi: the divider, with the clock running.
SetCdiv(freq) ==
  /\ Ready /\ Host("rpi")
  /\ sdb' = Does([sdb.r EXCEPT !.freq = freq, !.internal = TRUE, !.clock = TRUE])

-----------------------------------------------------------------------------
(* Speed *)

\* SdhcSetHighSpeed only clears the bit, the one that sets it is commented out; SetBusSpeed of
\* emmc2 sets it with the clock stopped.
SetHighSpeed(enable) ==
  /\ Ready
  /\ \/ Host("arasan") /\ sdb' = Does([sdb.r EXCEPT !.high = FALSE])
     \/ Host("emmc2") /\ sdb' = Start("speed off", [sdb.r EXCEPT !.clock = FALSE],
                                      [sdb.asked EXCEPT !.high = enable, !.clock = TRUE])

\* SdhcSetUhsMode, unless the mode is set, and SetBusSpeed: the clock is stopped, ...
SetUhsMode(mode) ==
  /\ Ready /\ ~Host("rpi")
  /\ LET to == [sdb.asked EXCEPT !.mode = mode, !.clock = TRUE]
     IN IF Host("arasan") /\ sdb.r.mode = mode THEN sdb' = [sdb EXCEPT !.asked.mode = mode]
        ELSE sdb' = Start("speed off", [sdb.r EXCEPT !.clock = FALSE], to)

\* ... the mode is written, ...
SpeedChanges ==
  /\ SbAt("speed off")
  /\ sdb' = Step("speed set", [sdb.r EXCEPT !.mode = sdb.arg.to.mode, !.high = sdb.arg.to.high])

\* ... and the clock is started, whether or not it ran.
SpeedStarts ==
  /\ SbAt("speed set")
  /\ LET s == Succeeds(Step("idle", [sdb.r EXCEPT !.clock = TRUE]))
     IN sdb' = IF sdb.asked.clock THEN s ELSE [s EXCEPT !.upset = @ \cup {"off"}]

\* SetSignalingVoltage: the clock is stopped, and stays so if the card or the voltage does not follow.
SignalStops ==
  /\ Ready /\ Host("emmc2")
  /\ sdb' = Start("signal", [sdb.r EXCEPT !.clock = FALSE], [sdb.asked EXCEPT !.clock = TRUE])

SignalStarts ==
  /\ SbAt("signal")
  /\ LET s == Step("idle", [sdb.r EXCEPT !.clock = TRUE])
     IN \/ sdb' = IF sdb.asked.clock THEN Succeeds(s) ELSE [Succeeds(s) EXCEPT !.upset = @ \cup {"off"}]
        \/ sdb' = Fails(s)
        \/ sdb' = Fails(sdb)

-----------------------------------------------------------------------------
(* Other settings *)

\* SetVoltage of emmc2: the power off, until it is, ...
SetVoltage(volt) ==
  /\ Ready /\ Host("emmc2")
  /\ LET s == Start("volt", [sdb.r EXCEPT !.volt = "off"], [sdb.asked EXCEPT !.volt = volt])
     IN \/ sdb' = s
        \/ sdb.r.volt # "off" /\ sdb' = Fails(sdb)

\* ... and on with the new voltage, until it is.
VoltageOn ==
  /\ SbAt("volt")
  /\ \/ sdb' = Succeeds([sdb EXCEPT !.r.volt = sdb.arg.to.volt])
     \/ sdb.arg.to.volt # "off" /\ sdb' = Fails(sdb)

\* Mutant: the bit of the other width stays.
WidthAdds(width) ==
  /\ Ready /\ ~Host("rpi")
  /\ sdb' = [Does([sdb.r EXCEPT !.width = IF width > @ THEN width ELSE @]) EXCEPT !.asked.width = width]

SetBusWidth(width) ==
  /\ Ready /\ ~Host("rpi")
  /\ sdb' = Does([sdb.r EXCEPT !.width = width])

\* Of rpi, one bit of HCFG, which has the events: read, ...
WidthReads(width) ==
  /\ Ready /\ Host("rpi")
  /\ LET to == [sdb.asked EXCEPT !.width = IF width = 1 THEN 1 ELSE 4]
     IN sdb' = [Start("width", sdb.r, to) EXCEPT !.arg.read = sdb.events]

\* ... and written.
WidthWrites ==
  /\ SbAt("width")
  /\ LET s == [Succeeds([sdb EXCEPT !.r.width = sdb.arg.to.width]) EXCEPT !.events = sdb.arg.read]
     IN sdb' = IF sdb.events = sdb.arg.read THEN s ELSE [s EXCEPT !.upset = @ \cup {"hcfg"}]

\* Of emmc2; SetPresetValue and SetBlockGapInterrupt are alike.
SetDriverType(driver) ==
  /\ Ready /\ Host("emmc2")
  /\ sdb' = Does([sdb.r EXCEPT !.driver = driver])

-----------------------------------------------------------------------------
(* Events *)

\* SdhcSlotToggleEvents, SlotToggleEvents, sdhcToggleEvents: the errors of the first two go with any.
ToggleEvents(events, enable) ==
  LET With(old) == IF enable THEN old \cup events ELSE old \ events
      s == [sdb EXCEPT !.events = With(@), !.wanted = With(@), !.errors = enable]
      masked == ~enable /\ ~Host("rpi") /\ "request" \in sdb.events \ events
  IN /\ ~sdb.failed
     /\ sdb' = IF masked THEN [s EXCEPT !.upset = @ \cup {"errors"}] ELSE s

\* SdhcAcknowledgeInterrupts, when a request ended with an error.
AcknowledgeError ==
  /\ Host("arasan") /\ ~sdb.failed /\ sdb.errors /\ "request" \in sdb.events
  /\ sdb' = [sdb EXCEPT !.r.mode = "none", !.upset = IF sdb.r.mode = "none" THEN @ ELSE @ \cup {"mode"}]

SdbNext ==
  /\ sdb.upset = {}
  /\ \/ SdbResetHost \/ ClockDivides \/ ClockStarts \/ ClockStops \/ SpeedChanges \/ SpeedStarts
     \/ SignalStops \/ SignalStarts \/ VoltageOn \/ WidthWrites \/ AcknowledgeError
     \/ \E freq \in SbClocks : SdbSetClock(freq) \/ SetCdiv(freq)
     \/ \E mode \in SbModes : SetUhsMode(mode)
     \/ \E enable \in BOOLEAN : SetHighSpeed(enable)
     \/ \E volt \in SbVolts : SetVoltage(volt)
     \/ \E width \in SbWidths : SetBusWidth(width) \/ WidthReads(width)
     \/ \E driver \in {"A", "B"} : SetDriverType(driver)
     \/ \E events \in SUBSET SbEvents \ {{}}, enable \in BOOLEAN : ToggleEvents(events, enable)

-----------------------------------------------------------------------------
(* Properties *)

\* The card never sees the clock change while it runs.
SdbNoGlitch == ~sdb.glitch

\* Between operations the registers hold what was asked since the reset, by whichever operations.
SdbAsAsked == Ready /\ sdb.upset = {} => sdb.r = sdb.asked /\ (sdb.r.clock => sdb.r.internal)

\* The events that are wanted are enabled, and with a request's events its errors.
SdbEventsKept ==
  sdb.upset = {} =>
    /\ sdb.events = sdb.wanted
    /\ ~Host("rpi") /\ "request" \in sdb.events => sdb.errors
=============================================================================
