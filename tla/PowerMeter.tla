----------------------------- MODULE PowerMeter -----------------------------
(* The two meters of the CPU package's power: RaplPowerMeter of              *)
(* linux_sensors.py and RyzenPackagePowerMeter of temperature_service.py.    *)
(* Both difference an energy counter that wraps.  Time is counted in ticks   *)
(* of the shortest interval, half a second; a power is the pair of the       *)
(* energy and the time it is the quotient of.                                *)
EXTENDS Integers

CONSTANTS
    NoValue,             \* no reading, no power
    Modulus,             \* the counter runs over 0 .. Modulus-1
    Cap,                 \* the most energy the package uses in a tick
    MAX_POWER_INTERVAL,  \* ticks after which the Ryzen meter starts again
    MAX_PLAUSIBLE_CPU_POWER_WATTS

VARIABLES
    meter,      \* "rapl" or "ryzen"
    energy,     \* the counter
    used,       \* what the package has used since it was started
    now,
    previous,   \* _previous, with what had been used by then
    lastPower   \* _last_power, with what was used in that time

(* The package is slow enough for the counter not to wrap twice before the   *)
(* Ryzen meter starts again (2^32 units of at most 1/32768 J against 30 s).  *)
Parameters ==
    /\ Modulus \in Nat /\ Cap \in Nat
    /\ MAX_POWER_INTERVAL \in Nat \ {0}
    /\ MAX_PLAUSIBLE_CPU_POWER_WATTS \in Nat
    /\ Cap * MAX_POWER_INTERVAL < Modulus

meterVars == <<meter, energy, used, now, previous, lastPower>>

MIN_POWER_INTERVAL == 1

MeterInit ==
    /\ meter \in {"rapl", "ryzen"}
    /\ energy \in 0 .. Modulus - 1
    /\ used = 0 /\ now = 0
    /\ previous = NoValue /\ lastPower = NoValue

\* energy - previous, and one range more when the counter has wrapped.
Consumed(e, p) == IF e < p THEN e - p + Modulus ELSE e - p

Elapsed == now - previous.at
TooSoon == previous # NoValue /\ Elapsed < MIN_POWER_INTERVAL
TooLate == Elapsed > MAX_POWER_INTERVAL

Reading == [energy |-> energy, at |-> now, used |-> used]
Power   == [energy |-> Consumed(energy, previous.energy), time |-> Elapsed,
            used |-> used - previous.used]
Plausible(p) == p.energy <= MAX_PLAUSIBLE_CPU_POWER_WATTS * p.time
Judged == IF Plausible(Power) THEN Power ELSE NoValue

Tick ==
    \E d \in 0 .. Cap :
        /\ now' = now + 1 /\ used' = used + d
        /\ energy' = IF energy + d < Modulus THEN energy + d ELSE energy + d - Modulus
        /\ UNCHANGED <<meter, previous, lastPower>>

\* Takes any interval, however long; a read that fails changes nothing.
RaplSample ==
    /\ meter = "rapl" /\ ~TooSoon
    /\ previous' = Reading
    /\ lastPower' = IF previous = NoValue THEN lastPower ELSE Judged
    /\ UNCHANGED <<meter, energy, used, now>>

\* unitsChanged: the exponent of the counter is not the one of the last reading.
RyzenSample(unitsChanged) ==
    /\ meter = "ryzen" /\ ~TooSoon
    /\ previous' = Reading
    /\ lastPower' = IF previous = NoValue \/ unitsChanged THEN NoValue
                    ELSE IF TooLate THEN NoValue ELSE Judged
    /\ UNCHANGED <<meter, energy, used, now>>
RyzenFails ==
    /\ meter = "ryzen" /\ ~TooSoon
    /\ previous' = NoValue /\ lastPower' = NoValue
    /\ UNCHANGED <<meter, energy, used, now>>

MeterNext == Tick \/ RaplSample \/ (\E changed \in BOOLEAN : RyzenSample(changed))
                  \/ RyzenFails

MeterSpec == MeterInit /\ [][MeterNext]_meterVars

(* A power is what the package used in the time it is the average of, when   *)
(* less than the counter's range was used; the wrap is undone.               *)
WrapIsUndone ==
    lastPower # NoValue /\ lastPower.used < Modulus
        => lastPower.energy = lastPower.used

(* The Ryzen meter never shows a power that is wrong because the counter has *)
(* wrapped more than once: it starts again after MAX_POWER_INTERVAL.  The    *)
(* RAPL meter has no such limit.                                             *)
RyzenIsTrue ==
    meter = "ryzen" /\ lastPower # NoValue => lastPower.energy = lastPower.used
=============================================================================
