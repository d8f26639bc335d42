--------------------------- MODULE MCFanController ---------------------------
(* The controller on the real Automatic curve, at two temperatures and two  *)
(* pairs of end points: "early" asks for full speed at 50 C, "late_" (the   *)
(* defaults of fan_control_common.py) does not, both do at 85 C.            *)
EXTENDS FanController

Curve == INSTANCE AutoCurve

cool == 50
hot  == 85
CoolOnly   == {cool}
HotOnly    == {hot}
CoolAndHot == {cool, hot}

early == <<30, 45>>
late_ == <<35, 75>>
LateOnly     == {late_}
EarlyAndLate == {early, late_}

CurveTarget ==
    [c \in Configs |-> [t \in Temps |->
        IF Curve!auto_target(t, c[1], c[2]) = Curve!MAX_AUTO_DUTY
        THEN "full" ELSE "low"]]
=============================================================================
