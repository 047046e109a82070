---------------------------- MODULE PwmRequests ----------------------------
(***************************************************************************)
(* The requests of the PWM driver (pwm.cpp, dma.cpp, device.cpp): users of *)
(* its registers configure, start and stop the channels while the audio    *)
(* driver acquires and releases both.  The queue is parallel and pwmLock   *)
(* covers the changes, but SET_CLOCKCONFIG and STOP check the mode before  *)
(* they take it: a behaviour ends where such a check is overtaken.         *)
(* The audio driver asks in the order of its stream, see PwmAudio.         *)
(***************************************************************************)
EXTENDS Integers

CONSTANTS
  PwrUsers,      \* the users of the registers
  PwrSources,    \* clock sources they ask for
  PwrDivisors,   \* divisors they ask for
  PwrRanges,     \* values of Range they ask for
  PwrEvents      \* events of the audio driver's clients

DivisorLimit == 4095   \* the divisor of CM_PWMDIV has twelve bits

ASSUME PwrAssumption ==
  /\ PwrSources \subseteq {"PLLC", "PLLD"} /\ PwrDivisors \subseteq 2 .. DivisorLimit
  /\ PwrRanges \subseteq Nat

\* A clock is its source and divisor.  CM_PWMCTL_DIVI_PLLC_1MHZ is the divisor 1000 already in
\* its place in the register, twelve bits up.
PwrClocks == PwrSources \X PwrDivisors
AudioClock == <<"PLLC", 10>>
DefaultClock == <<"PLLC", 1000 * (DivisorLimit + 1)>>

Channels == {1, 2}
AudioRange == [ch \in Channels |-> 2268]
DefaultRange == [ch \in Channels |-> 32]
Unset == 0             \* a register nobody has written yet

VARIABLE
  pwr
  \* mode: pwmMode;  clock, range, duty: the configuration in the device context;  saved: the
  \* copy AquireAudio makes;  hwClock, hwRange: CM_PWMCTL/DIV and RNG1/2;  running: STA1/2 and
  \* fifo: USEF1/2 of CTL;  dma: the DMA channel is active;  call: what a user's request is about
  \* to do under the lock;  audio: the audio driver's progress;  listed: notificationList;
  \* held: events whose clients have not unregistered;  upset: checks that were overtaken;
  \* set: what the users have set last, for the clock and the channels they have set at all

\* PrepareHardware fills the device context and writes no register: the firmware may have left
\* channels running.
PwrInit ==
  \E on \in SUBSET Channels :
    pwr = [mode |-> "register", clock |-> DefaultClock, range |-> DefaultRange,
           duty |-> [ch \in Channels |-> 0], saved |-> [clock |-> DefaultClock, range |-> DefaultRange],
           hwClock |-> <<"none", Unset>>, hwRange |-> [ch \in Channels |-> Unset],
           running |-> on, fifo |-> {}, dma |-> FALSE, call |-> [u \in PwrUsers |-> "none"],
           audio |-> "idle", listed |-> {}, held |-> {}, upset |-> {},
           set |-> [clock |-> <<>>, range |-> <<>>]]

Selections == {{1}, {2}, {1, 2}}

-----------------------------------------------------------------------------
(* Users of the registers *)

\* The divisor is shifted to its place.  One of more than twelve bits (only the default has) leaves
\* nothing there and spoils the password, and the register ignores the write.
SetClockConfig(s) ==
  [s EXCEPT !.hwClock = <<s.clock[1], IF s.clock[2] > DivisorLimit THEN @[2] ELSE s.clock[2]>>]

SetChannelConfig(s) == [s EXCEPT !.hwRange = s.range]

\* ValidateAndSetClockConfig: the mode and the channels are checked without the lock.
SetClockCheck(u) ==
  /\ pwr.call[u] = "none" /\ pwr.mode = "register" /\ pwr.running = {}
  /\ pwr' = [pwr EXCEPT !.call[u] = "clock"]

ValidateAndSetClockConfig(u, c) ==
  /\ pwr.call[u] = "clock"
  /\ pwr' = [SetClockConfig([pwr EXCEPT !.clock = c]) EXCEPT
               !.call[u] = "none", !.set.clock = c,
               !.upset = IF pwr.mode = "audio" \/ pwr.running # {} THEN {"clock"} ELSE @]

Ranges(f, channels, r) == [ch \in DOMAIN f \cup channels |-> IF ch \in channels THEN r ELSE f[ch]]

\* Mutant: the duty stays as it was.
ChannelConfigKeepsDuty(u, channels, r) ==
  /\ pwr.call[u] = "none" /\ pwr.mode = "register" /\ channels \cap pwr.running = {}
  /\ pwr' = SetChannelConfig([pwr EXCEPT !.range = Ranges(@, channels, r),
                                        !.set.range = Ranges(@, channels, r)])

\* Any range is accepted.  The duty of a configured channel becomes its range.
ValidateAndSetChannelConfig(u, channels, r) ==
  /\ pwr.call[u] = "none" /\ pwr.mode = "register" /\ channels \cap pwr.running = {}
  /\ pwr' = SetChannelConfig([pwr EXCEPT !.range = Ranges(@, channels, r),
                                        !.duty = Ranges(@, channels, r),
                                        !.set.range = Ranges(@, channels, r)])

ValidateDutyRegister(channels, d) == \A ch \in channels : d <= pwr.range[ch]

ValidateAndSetDutyRegister(u, channels, d) ==
  /\ pwr.call[u] = "none" /\ pwr.mode = "register" /\ ValidateDutyRegister(channels, d)
  /\ pwr' = [pwr EXCEPT !.duty = Ranges(@, channels, d)]

\* In audio mode the channels take their data from the FIFO.
StartChannel(s, channels) ==
  [s EXCEPT !.running = @ \cup channels,
            !.fifo = IF s.mode = "audio" THEN @ \cup channels ELSE @ \ channels]

StopChannel(s, channels) == [s EXCEPT !.running = @ \ channels]

StopDma(s) == [s EXCEPT !.dma = FALSE]

ValidateAndStartChannel(u, channels) ==
  /\ pwr.call[u] = "none" /\ pwr.mode = "register" /\ channels \cap pwr.running = {}
  /\ pwr' = StartChannel(pwr, channels)

\* ValidateAndStopChannel: the mode is checked without the lock.
StopCheck(u) ==
  /\ pwr.call[u] = "none" /\ pwr.mode = "register"
  /\ pwr' = [pwr EXCEPT !.call[u] = "stop"]

ValidateAndStopChannel(u, channels) ==
  /\ pwr.call[u] = "stop"
  /\ pwr' = [StopDma(StopChannel(pwr, channels)) EXCEPT
               !.call[u] = "none", !.upset = IF pwr.mode = "audio" THEN {"stop"} ELSE @]

-----------------------------------------------------------------------------
(* The audio driver *)

AquireAudio ==
  /\ pwr.audio = "idle" /\ pwr.running = {}
  /\ pwr' = [pwr EXCEPT !.mode = "audio", !.audio = "acquired",
               !.saved = [clock |-> pwr.clock, range |-> pwr.range]]

\* The channels are configured for audio and stay with their duty, which the FIFO replaces.
InitializeAudio ==
  /\ pwr.audio = "acquired" /\ pwr.running = {}
  /\ pwr' = [SetChannelConfig(SetClockConfig([pwr EXCEPT
               !.clock = AudioClock, !.range = AudioRange])) EXCEPT
               !.audio = "initialized"]

AudioStart ==
  /\ pwr.audio = "initialized" /\ pwr.mode = "audio"
  /\ pwr' = [StartChannel(pwr, Channels) EXCEPT !.dma = TRUE, !.audio = "playing"]

AudioStop ==
  /\ pwr.audio \in {"playing", "initialized"} /\ pwr.mode = "audio"
  /\ pwr' = [StopDma(StopChannel(pwr, Channels)) EXCEPT !.audio = "stopped"]

\* Mutant: the clock is restored in the driver only.
ReleaseAudioForgetsClock ==
  /\ pwr.audio = "stopped" /\ pwr.mode = "audio"
  /\ pwr' = [SetChannelConfig([pwr EXCEPT !.clock = pwr.saved.clock, !.range = pwr.saved.range])
               EXCEPT !.mode = "register", !.audio = "idle"]

ReleaseAudio ==
  /\ pwr.audio = "stopped" /\ pwr.mode = "audio"
  /\ pwr' = [SetChannelConfig(SetClockConfig([pwr EXCEPT
               !.clock = pwr.saved.clock, !.range = pwr.saved.range])) EXCEPT
               !.mode = "register", !.audio = "idle"]

\* An event registered again is taken off the list, and the request fails.
RegisterAudioNotification(e) ==
  /\ pwr' = [pwr EXCEPT !.listed = IF e \in @ THEN @ \ {e} ELSE @ \cup {e}, !.held = @ \cup {e}]

UnregisterAudioNotification(e) ==
  /\ e \in pwr.held
  /\ pwr' = [pwr EXCEPT !.listed = @ \ {e}, !.held = @ \ {e}]

-----------------------------------------------------------------------------
UserRequest(u) ==
  \/ SetClockCheck(u) \/ StopCheck(u)
  \/ \E c \in PwrClocks : ValidateAndSetClockConfig(u, c)
  \/ \E channels \in Selections :
       \/ ValidateAndStartChannel(u, channels)
       \/ ValidateAndStopChannel(u, channels)
       \/ \E r \in PwrRanges : ValidateAndSetChannelConfig(u, channels, r)
       \/ \E d \in PwrRanges \cup {0} : ValidateAndSetDutyRegister(u, channels, d)

AudioRequest ==
  \/ AquireAudio \/ InitializeAudio \/ AudioStart \/ AudioStop \/ ReleaseAudio
  \/ \E e \in PwrEvents : RegisterAudioNotification(e) \/ UnregisterAudioNotification(e)

PwrNext == pwr.upset = {} /\ ((\E u \in PwrUsers : UserRequest(u)) \/ AudioRequest)

PwrSpec == PwrInit /\ [][PwrNext]_pwr

-----------------------------------------------------------------------------
(***************************************************************************)
(* As long as no check was overtaken, what the users have set is what they *)
(* find when they have the registers, in the driver and in the hardware,   *)
(* however often the audio has had them meanwhile; what they have not set  *)
(* has its default in the driver.                                          *)
(***************************************************************************)
PwrConfigKept ==
  pwr.upset = {} /\ pwr.mode = "register" =>
    /\ pwr.clock = IF pwr.set.clock = <<>> THEN DefaultClock ELSE pwr.set.clock
    /\ pwr.set.clock # <<>> => pwr.hwClock = pwr.set.clock
    /\ \A ch \in Channels :
         IF ch \in DOMAIN pwr.set.range
         THEN pwr.range[ch] = pwr.set.range[ch] /\ pwr.hwRange[ch] = pwr.set.range[ch]
         ELSE pwr.range[ch] = DefaultRange[ch]

(***************************************************************************)
(* "This will prevent any register PWM calls till PWM is released"         *)
(* (bcm2836pwm.h): audio that plays has its clock, its range, and both     *)
(* channels running from the FIFO that the DMA fills.                      *)
(***************************************************************************)
PwrAudioExclusive ==
  pwr.audio = "playing" =>
    /\ pwr.hwClock = AudioClock /\ pwr.hwRange = AudioRange
    /\ pwr.running = Channels /\ pwr.fifo = Channels /\ pwr.dma

\* It has them unless a check of a register call was overtaken by the audio.
PwrAudioUndisturbed == pwr.upset = {} => PwrAudioExclusive

(***************************************************************************)
(* Users of the registers never find a duty above the range of its channel:*)
(* the check and the range are under one lock, a new range resets the duty *)
(* and the range comes back after the audio, whose own range may well be   *)
(* below the duty.  (DAT1/2, where the duty goes, are left out.)           *)
(***************************************************************************)
PwrDutyWithinRange ==
  pwr.mode = "register" => \A ch \in Channels : pwr.duty[ch] <= pwr.range[ch]

\* A client that has unregistered its event is not signalled.
PwrNoStaleEvent == pwr.listed \subseteq pwr.held
=============================================================================
