------------------------------ MODULE AutoCurve ------------------------------
(***************************************************************************)
(* auto_target of shared/fan_control_common.py: the duty of both fans at   *)
(* the hottest temperature, between the two end points a user chose.       *)
(*                                                                         *)
(* Temperatures are whole degrees.  The code computes in floats and rounds *)
(* half up to a multiple of 5; here one exact fraction is rounded.         *)
(***************************************************************************)
EXTENDS Integers

MIN_AUTO_DUTY == 30
MAX_AUTO_DUTY == 100
MAX_SAFE_AUTO_TEMP == 80

Least(a, b)   == IF a \leq b THEN a ELSE b
Greatest(a, b) == IF a \leq b THEN b ELSE a

\* No end point above 80 C has an effect.
EffectiveMaximum(maximum) == Least(maximum, MAX_SAFE_AUTO_TEMP)

\* floor((30 + 70 * rise / span + 2.5) / 5) * 5
RoundedDuty(rise, span) == ((65 * span + 140 * rise) \div (10 * span)) * 5

auto_target(temperature, minimum, maximum) ==
    LET top == EffectiveMaximum(maximum) IN
    IF top \leq minimum
    THEN IF temperature \geq top THEN MAX_AUTO_DUTY ELSE MIN_AUTO_DUTY
    ELSE IF temperature \leq minimum THEN MIN_AUTO_DUTY
    ELSE IF temperature \geq top THEN MAX_AUTO_DUTY
    ELSE Greatest(MIN_AUTO_DUTY,
                  Least(MAX_AUTO_DUTY, RoundedDuty(temperature - minimum, top - minimum)))
=============================================================================
