--------------------------- MODULE MCPeripherals ---------------------------
(***************************************************************************)
(* The drivers of the serial and SD buses for TLC: I2C, auxiliary SPI and  *)
(* main SPI, the three SD hosts, and the divisors of all clocks.  They     *)
(* share no state; a behaviour is one driver's.                            *)
(***************************************************************************)
EXTENDS BcmI2c, AuxSpi, BcmSpi, RpiSdHost, BcmSdhc, BcmEmmc2, ClockDividers

CONSTANT Scenes    \* the drivers of a run

VARIABLE scene

peripheralVars == <<scene, vars, aux, spi, sd, sdhc, emmc, clock>>

Transfers(w, r) == [w |-> w, r |-> r]

\* Every type, with a sequence of three transfers, and longer than the FIFO.
Requests ==
  { [type |-> "read", transfers |-> <<Transfers(0, 2)>>],
    [type |-> "write", transfers |-> <<Transfers(3, 0)>>],
    [type |-> "sequence", transfers |-> <<Transfers(1, 0), Transfers(0, 2), Transfers(2, 0)>>],
    [type |-> "other", transfers |-> <<Transfers(1, 2)>>],
    [type |-> "other", transfers |-> <<Transfers(2, 1)>>] }

PeripheralInit ==
  /\ scene \in Scenes
  /\ Init /\ AuxInit /\ SpiInit /\ SdInit /\ SdhcInit /\ EmmcInit /\ ClockInit
  /\ scene # "sd" => ~sd.dump

PeripheralNext ==
  /\ UNCHANGED scene
  /\ \/ scene = "i2c" /\ Next /\ UNCHANGED <<aux, spi, sd, sdhc, emmc, clock>>
     \/ scene = "aux" /\ AuxNext /\ UNCHANGED <<vars, spi, sd, sdhc, emmc, clock>>
     \/ scene = "spi" /\ SpiNext /\ UNCHANGED <<vars, aux, sd, sdhc, emmc, clock>>
     \/ scene = "sd" /\ SdNext /\ UNCHANGED <<vars, aux, spi, sdhc, emmc, clock>>
     \/ scene = "sdhc" /\ SdhcNext /\ UNCHANGED <<vars, aux, spi, sd, emmc, clock>>
     \/ scene = "emmc" /\ EmmcNext /\ UNCHANGED <<vars, aux, spi, sd, sdhc, clock>>
     \/ scene = "clock" /\ ClockNext /\ UNCHANGED <<vars, aux, spi, sd, sdhc, emmc>>

PeripheralSpec ==
  /\ PeripheralInit /\ [][PeripheralNext]_peripheralVars
  /\ Fairness /\ AuxFairness /\ SpiFairness /\ SdFairness /\ SdhcFairness /\ EmmcFairness

-----------------------------------------------------------------------------
\* A request is completed once and by who owns it: I2C, Pi's SD host.
RequestsCompletedOnce == CompletedOnce /\ SdOwned

\* Interrupts are off when a DPC runs: I2C, auxiliary SPI.
InterruptsOff == InterruptsStayDisabled /\ AuxInterruptDisabled

\* What is reported was transferred: I2C, both SPI, the SD hosts.
TransfersTruthful ==
  /\ Truthful /\ AuxTransferExact /\ SpiTransferExact
  /\ SdTransferExact /\ SdhcTransferExact /\ EmmcTransferExact

\* Chip select is held for the request or the lock: auxiliary and main SPI.
ChipSelectHeld == AuxChipSelect /\ SpiChipSelect

\* The assertions of the main SPI driver's callbacks and thread (not the two of its polling loop,
\* which a failed mapping trips) and of the driver of the Arasan host.
AssertionsHold == SpiAssertionsHold /\ SdhcAssertionsHold

\* Divisors are the best there are, and the eMMC2 host signals at the card's voltage.
SettingsMatch == DivisorIsBest /\ EmmcSignaling

\* Every request handed over is completed, until a handler was overtaken.
RequestsAreEnded ==
  []<>(/\ ~active \/ overtaken
       /\ AuxGoingOn /\ SpiGoingOn
       /\ SdGoingOn /\ SdhcGoingOn /\ EmmcGoingOn)
=============================================================================
