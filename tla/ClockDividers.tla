--------------------------- MODULE ClockDividers ---------------------------
(***************************************************************************)
(* How the drivers turn a frequency or a baud rate into the divisor they   *)
(* write to their controller, against what the divisor should be.          *)
(***************************************************************************)
EXTENDS Integers, FiniteSets

CONSTANTS
  ClockBases,      \* frequencies of the clock that is divided
  ClockTargets,    \* frequencies asked for
  ClockLimit,      \* largest divisor of the SD hosts and of SPI, even
  UartClocks,      \* clocks of the UARTs, Hz
  UartBauds        \* baud rates asked for

ASSUME ClockAssumption ==
  /\ ClockBases \subseteq Nat \ {0} /\ ClockTargets \subseteq Nat \ {0}
  /\ ClockLimit \in Nat /\ ClockLimit >= 4 /\ ClockLimit % 2 = 0
  /\ UartClocks \subseteq Nat \ {0} /\ UartBauds \subseteq Nat \ {0}

VARIABLE clock     \* the last setting

None == 0          \* the frequency is refused

Even(n) == n - (n % 2)

\* The powers of two a divisor can be.
Powers == {2^k : k \in 0 .. 8}

ClockInit == clock = [by |-> "nobody", base |-> 1, target |-> 1, divisor |-> 1]

\* The settings of a driver with a rule for the divisor.
Divide(by, bases, targets, Divisor(_, _)) ==
  \E b \in bases, t \in targets :
    clock' = [by |-> by, base |-> b, target |-> t, divisor |-> Divisor(b, t)]

-----------------------------------------------------------------------------
(* The divisors.                                                           *)

\* eMMC2 host, before version 3 of its interface: the first shift that is enough.
Emmc2PowerDivisor(base, target) ==
  LET enough == {p \in Powers \ {1} : base \div p <= target}
  IN  CASE base <= target -> 1
        [] base > target /\ enough = {} -> None
        [] OTHER -> CHOOSE p \in enough : \A q \in enough : p <= q

\* Mutant: only an odd quotient is rounded up.
Emmc2RoundsOdd(base, target) ==
  LET q == base \div target
  IN  IF base <= target THEN 1 ELSE IF q + (q % 2) > ClockLimit THEN None ELSE q + (q % 2)

\* Since version 3: even, and rounded up.
Emmc2EvenDivisor(base, target) ==
  LET q == Even(base \div target)
      d == IF base > target * q THEN q + 2 ELSE q
  IN  CASE base <= target -> 1
        [] base > target /\ d > ClockLimit -> None
        [] OTHER -> d

\* Arasan host, after version 3: doubled while the clock is too fast.
ArasanPowerDivisor(base, target) ==
  LET enough == {p \in Powers : base \div p <= target}
  IN  IF enough = {} THEN 256 ELSE CHOOSE p \in enough : \A q \in enough : p <= q

\* Up to version 3: half the divisor is computed, and limited.
ArasanEvenDivisor(base, target) ==
  LET half == (base \div target) \div 2
      d == IF target < base /\ target * 2 * half # base THEN half + 1 ELSE half
      limited == IF d > ClockLimit \div 2 THEN ClockLimit \div 2 ELSE d
  IN  IF limited = 0 THEN 1 ELSE 2 * limited

\* Pi's own SD host: the register holds the divisor less two.
RpiSdDivisor(base, target) == (base - (2 * target)) \div target + 2

\* SPI: even, and rounded down.
SpiDivisor(base, target) ==
  CASE target <= base \div ClockLimit -> ClockLimit
    [] target > base \div ClockLimit /\ target >= base \div 2 -> 2
    [] OTHER -> Even(base \div target)

\* Auxiliary SPI: the register holds half the divisor less one.
AuxDivisor(base, target) == 2 * (base \div (2 * target))

\* I2C: the register has no lowest bit.
I2cDivisor(base, target) == Even(base \div target)

\* PL011: in 64ths; a rate that is off by more than a percent is refused.
Pl011Divisor(base, baud) ==
  LET d == (base * 4) \div baud
      actual == (base * 4) \div d
      error == IF actual < baud THEN baud - actual ELSE actual - baud
  IN  IF baud > base \div 16 \/ (error * 100) \div baud > 1 THEN None ELSE d

\* Mini UART: 16 bits of the quotient, taken as a signed number; what is
\* written is one less than the divisor the rate results from.
ShortLimit == 32768

MiniUartDivisor(base, baud) ==
  LET most == base \div 100
      quotient == (base \div (baud * 8)) % (2 * ShortLimit)
      rest == base % (baud * 8)
      up == rest > most /\ rest < most * 3
      value == IF up THEN (quotient + 1) % (2 * ShortLimit) ELSE quotient
      divided == IF up THEN base \div value ELSE baud * 8
      left == IF up THEN base % divided ELSE rest
      off == baud >= 9600 /\ left >= most /\ left + most < base
  IN  IF off \/ divided > base \/ value >= ShortLimit THEN None ELSE value + 1

-----------------------------------------------------------------------------
SetClock(version3) ==
  IF version3 THEN Divide("emmc2 even", ClockBases, ClockTargets, Emmc2EvenDivisor)
  ELSE Divide("emmc2 power", ClockBases, ClockTargets, Emmc2PowerDivisor)

SdhcCalcClockFrequency(version3) ==
  IF version3 THEN Divide("arasan even", ClockBases, ClockTargets, ArasanEvenDivisor)
  ELSE Divide("arasan power", ClockBases, ClockTargets, ArasanPowerDivisor)

\* Sdport asks for at most half of the core clock.
setClock ==
  Divide("rpisd", ClockBases, {t \in ClockTargets : \A b \in ClockBases : 2 * t <= b}, RpiSdDivisor)

ControllerConfigClock == Divide("spi", ClockBases, ClockTargets, SpiDivisor)

\* Connecting a target has checked the range.
InRange == {t \in ClockTargets : \A b \in ClockBases : 2 * t <= b /\ t > b \div ClockLimit}

computeControlRegisters == Divide("aux", ClockBases, InRange, AuxDivisor)

initializeTransfer == Divide("i2c", ClockBases, InRange, I2cDivisor)

PL011HwSetBaudRate == Divide("pl011", UartClocks, UartBauds, Pl011Divisor)

SerialGetDivisorFromBaud == Divide("miniuart", UartClocks, UartBauds, MiniUartDivisor)

ClockNext ==
  \/ \E v \in BOOLEAN : SetClock(v) \/ SdhcCalcClockFrequency(v)
  \/ setClock
  \/ ControllerConfigClock \/ computeControlRegisters \/ initializeTransfer
  \/ PL011HwSetBaudRate \/ SerialGetDivisorFromBaud

-----------------------------------------------------------------------------
Evens == {n \in 2 .. ClockLimit : n % 2 = 0}

Slowest(S) == CHOOSE d \in S : \A e \in S : d >= e
Fastest(S) == CHOOSE d \in S : \A e \in S : d <= e

\* The fastest clock that is not faster than asked for; the slowest there is.
NotFaster(S) ==
  LET fit == {d \in S : clock.base \div d <= clock.target}
  IN  IF fit = {} THEN Slowest(S) ELSE Fastest(fit)

\* Evenly divided clocks are compared without the fraction cut off.
NotFasterExactly(S) ==
  LET fit == {d \in S : clock.base <= clock.target * d}
  IN  IF fit = {} THEN Slowest(S) ELSE Fastest(fit)

\* The slowest clock that is not slower than asked for.
NotSlower(S) ==
  LET fit == {d \in S : clock.base >= clock.target * d}
  IN  IF fit = {} THEN Fastest(S) ELSE Slowest(fit)

\* The register counts from zero, which the driver forgets: the rate is slower than asked for, by
\* up to two steps of the divisor, whatever its own check of the error says.
MiniUartNotFaster(base, baud, divisor) ==
  (divisor # None /\ base \div (baud * 8) < ShortLimit) =>
     (base < (baud * 8) * divisor /\ (baud * 8) * (divisor - 2) <= base)

(***************************************************************************)
(* The divisor is the one the driver means among those its controller has: *)
(* the SD hosts of Arasan and eMMC2 stay at or below the frequency asked   *)
(* for and the others at or above it, as close as they can.  Only eMMC2    *)
(* refuses what is too slow for it.  The mini UART stays below, and misses *)
(* the divisor it means by one.                                            *)
(***************************************************************************)
DivisorIsBest ==
  CASE clock.by = "emmc2 even" ->
         clock.divisor = IF clock.base > clock.target * ClockLimit THEN None
                         ELSE NotFasterExactly({1} \cup Evens)
    [] clock.by = "emmc2 power" ->
         clock.divisor = IF clock.base \div 256 > clock.target THEN None ELSE NotFaster(Powers)
    [] clock.by = "arasan even" -> clock.divisor = NotFasterExactly({1} \cup Evens)
    [] clock.by = "arasan power" -> clock.divisor = NotFaster(Powers)
    [] clock.by \in {"spi", "aux", "i2c"} -> clock.divisor = NotSlower(Evens)
    [] clock.by = "rpisd" -> clock.divisor = NotSlower(2 .. clock.base)
    [] clock.by = "pl011" /\ clock.divisor # None ->
         /\ clock.target * clock.divisor <= 4 * clock.base
         /\ 4 * clock.base < clock.target * (clock.divisor + 1)
    [] clock.by = "miniuart" -> MiniUartNotFaster(clock.base, clock.target, clock.divisor)
    [] OTHER -> TRUE
=============================================================================
