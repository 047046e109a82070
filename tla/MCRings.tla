------------------------------ MODULE MCRings ------------------------------
(***************************************************************************)
(* Rings and settings that several parties share, for TLC: the transmit    *)
(* stream of VCHIQ with two senders, the rings of the Ethernet driver, the *)
(* buffers of the USB filter, the requests of the PWM driver's users, the  *)
(* pins of the GPIO controller, the configuration of the PL011, the port    *)
(* of the mini UART, the library that VCHIQ's clients link, the pools and   *)
(* message queues of VCOS, the bus operations of the SD hosts.  They share  *)
(* no state; a behaviour is one scene's.                                    *)
(***************************************************************************)
EXTENDS VchiqTx, GenetRings, PwmRequests, BcmGpio, UsbBounce,
  Pl011Config, MiniUartPort, VchiqLib, VcosQueue, SdBus

VARIABLE scene

ringVars == <<scene, vars, gnt, gnx, pwr, gpio, ubn, plc, lib, vpn, vmq, sdb, mup>>

\* Packets with no fragment, one and several, and more of them than descriptors.
Fragments == <<2, 0, 1, 2, 1>>

\* Frames with and without errors, more than descriptors.
Frames == <<TRUE, FALSE, TRUE, TRUE>>

\* A client that opens a service of the VCHI kind, another with a VCHIQ server.
LibUses ==
  [a |-> [is_open : {TRUE}, fourcc : {"four"}, callback : {"vchi"}],
   b |-> [is_open : {FALSE}, fourcc : {"four"}, callback : {"vchiq"}]]

RingInit ==
  /\ scene \in {"vchiq", "genet tx", "genet rx", "pwm", "gpio", "usb", "pl011 requests",
               "pl011 events", "vchiq lib", "vcos names", "vcos queue", "sd bus",
               "mini uart"}
  /\ Init /\ GntInit /\ GnxInit /\ PwrInit /\ GpioInit /\ UbnInit /\ PlcInit
  /\ LibInit /\ VpnInit /\ VmqInit /\ SdbInit /\ MupInit
  /\ scene # "sd bus" => sdb.host = "rpi"
  /\ scene # "mini uart" => mup.load = "line" /\ ~mup.onDebugger /\ ~mup.connection
  /\ scene # "pwm" => pwr.running = {}
  /\ scene # "gpio" => \A p \in GpioPins : gpio.first[p] = "alt"
  /\ scene # "usb" => \A t \in UbTransfers : ubn.writes[t]
  /\ scene # "pl011 requests" => plc.supported = {}
  /\ scene # "pl011 events" => ~plc.clash

RingNext ==
  /\ UNCHANGED scene
  /\ \/ scene = "vchiq" /\ Next
        /\ UNCHANGED <<gnt, gnx, pwr, gpio, ubn, plc, lib, vpn, vmq, sdb, mup>>
     \/ scene = "genet tx" /\ GntNext
        /\ UNCHANGED <<vars, gnx, pwr, gpio, ubn, plc, lib, vpn, vmq, sdb, mup>>
     \/ scene = "genet rx" /\ GnxNext
        /\ UNCHANGED <<vars, gnt, pwr, gpio, ubn, plc, lib, vpn, vmq, sdb, mup>>
     \/ scene = "pwm" /\ PwrNext
        /\ UNCHANGED <<vars, gnt, gnx, gpio, ubn, plc, lib, vpn, vmq, sdb, mup>>
     \/ scene = "gpio" /\ GpioNext
        /\ UNCHANGED <<vars, gnt, gnx, pwr, ubn, plc, lib, vpn, vmq, sdb, mup>>
     \/ scene = "usb" /\ UbnNext
        /\ UNCHANGED <<vars, gnt, gnx, pwr, gpio, plc, lib, vpn, vmq, sdb, mup>>
     \/ scene = "pl011 requests" /\ PlcRequestsNext
        /\ UNCHANGED <<vars, gnt, gnx, pwr, gpio, ubn, lib, vpn, vmq, sdb, mup>>
     \/ scene = "pl011 events" /\ PlcEventsNext
        /\ UNCHANGED <<vars, gnt, gnx, pwr, gpio, ubn, lib, vpn, vmq, sdb, mup>>
     \/ scene = "vchiq lib" /\ LibNext
        /\ UNCHANGED <<vars, gnt, gnx, pwr, gpio, ubn, plc, vpn, vmq, sdb, mup>>
     \/ scene = "vcos names" /\ VpnNext
        /\ UNCHANGED <<vars, gnt, gnx, pwr, gpio, ubn, plc, lib, vmq, sdb, mup>>
     \/ scene = "vcos queue" /\ VmqNext
        /\ UNCHANGED <<vars, gnt, gnx, pwr, gpio, ubn, plc, lib, vpn, sdb, mup>>
     \/ scene = "sd bus" /\ SdbNext
        /\ UNCHANGED <<vars, gnt, gnx, pwr, gpio, ubn, plc, lib, vpn, vmq, mup>>
     \/ scene = "mini uart" /\ MupNext
        /\ UNCHANGED <<vars, gnt, gnx, pwr, gpio, ubn, plc, lib, vpn, vmq, sdb>>
     \/ scene # "vchiq" /\ UNCHANGED ringVars   \* where frames and requests run out

RingSpec == RingInit /\ [][RingNext]_ringVars

-----------------------------------------------------------------------------
\* What is handed over arrives once and in order, and no buffer is in two places or lost: Ethernet
\* fragments and frames, USB transfers, messages of VCOS queues and of the VCHIQ library, blocks of
\* named semaphores, line errors and wait events of the PL011.
PacketsInOrder ==
  /\ scene = "genet tx" => GnrTxExact
  /\ scene = "genet rx" => GnrBufferOnce /\ GnrRxInOrder
  /\ scene = "usb" => UbBufferOnce /\ UbDataArrives
  /\ scene = "vcos queue" => VmqFinds /\ VmqOnePlace /\ VmqNobodyStranded
  /\ scene = "vcos names" => VpnShared /\ VpnBlocks
  /\ scene = "vchiq lib" => LibBufferOnce /\ LibMessagesInOrder
  /\ scene = "pl011 events" => PlcErrorsTold /\ PlcWaitEnds /\ PlcMapped

\* What users configure, several at once, stays as they asked: PWM registers and audio events, the
\* pins' functions and interrupts, the SD bus, the VCHIQ library's handles and its count of users,
\* and what both UARTs tell of their lines and restore after sleep.
SettingsKept ==
  /\ scene = "pwm" =>
       PwrConfigKept /\ PwrAudioUndisturbed /\ PwrDutyWithinRange /\ PwrNoStaleEvent
  /\ scene = "gpio" => GpioComesBack /\ GpioOnlyConnected /\ GpioReverted
  /\ scene = "sd bus" => SdbNoGlitch /\ SdbAsAsked /\ SdbEventsKept
  /\ scene = "vchiq lib" => LibCounted /\ LibHandlesUnique /\ LibShutdownComplete
  /\ scene = "mini uart" =>
       MupSettingsKept /\ MupHears /\ MupClosedQuiet /\ MupEscapes /\ MupGone
  /\ scene = "pl011 requests" => PlcEnabled /\ PlcToldTruly /\ PlcSupported
=============================================================================
