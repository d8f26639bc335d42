---------------------------- MODULE FanController ----------------------------
(***************************************************************************)
(* BackendController of backend/fan_control_backend.py: the Automatic      *)
(* loop, the sensor watchdog, the request handlers and the stop of the     *)
(* service, all writing the fans through one EC lane.                      *)
(*                                                                         *)
(* _state_lock is held across the EC call of a handler, so `held' names    *)
(* the handler that has it and how far it is.  The EC lane is the one of   *)
(* BoundedOperation seen from its callers: an operation ends in time, or   *)
(* is abandoned at its deadline and then returns late and is followed by a *)
(* guarded Boost.  Calls made without the state lock (telemetry, lightbar, *)
(* GPU power, EC maintenance of a state that has not drifted) share the    *)
(* lane and can be abandoned too; they change no fan register.             *)
(*                                                                         *)
(* A duty pair is "full" (100/100) or "low" (anything else).  Time passes  *)
(* by itself: whether a deadline or the 30 s of sensor silence has passed  *)
(* is a choice of the environment.  Backups and what a request only shows   *)
(* (temperatures, errors, the GUI heartbeat) decide nothing here.          *)
(***************************************************************************)
EXTENDS FiniteSets

CONSTANTS
    Temps,    \* the hottest temperatures a validated read can return
    Configs,  \* the pairs of Automatic end points a user can choose
    Requested,\* the requests that clients and the service manager make
    Target,   \* Target[c][t]: the Automatic duty for c at temperature t
    FailureTakesEffect, \* whether a fan write that fails can have been carried out
    NoConfig  \* "no pair of end points captured"

Duties == {"low", "full"}

RequestKinds == {"manual", "boost", "load", "exit", "configure", "mode", "stop"}

ASSUME RequestAssumption == Requested \subseteq RequestKinds
ASSUME ConfigAssumption == Configs # {} /\ NoConfig \notin Configs
ASSUME FailureAssumption == FailureTakesEffect \in BOOLEAN
ASSUME TargetAssumption == Target \in [Configs -> [Temps -> Duties]]

VARIABLES
    automatic,      \* _automatic
    boostEnabled,   \* _boost_enabled: the cached Boost of the user
    config,         \* _minimum_temp, _maximum_temp
    scheduled,      \* _next_auto_at is not None
    autoWakeup,     \* _auto_wakeup
    auto,           \* the Automatic loop: pc and what its cycle captured
    sensorsStale,   \* no successful read for 30 s
    sensorEmergency,\* _sensor_emergency
    keptUserBoost,  \* _emergency_kept_user_boost
    watchdog,       \* the watchdog: idle, the freshness it saw, or at work
    lastWritten,    \* _last_written_duties, "none" before the first write
    outputError,    \* _output_error is not None
    boostConfirmed, \* _emergency_boost_confirmed
    held,           \* the handler inside _state_lock
    lane,           \* the operation on the EC lane
    ec,             \* the fan registers: Boost and the duty of the tables
    main            \* the main thread of the Linux service

modeVars   == <<automatic, config, scheduled>>
sensorVars == <<sensorsStale, sensorEmergency, keptUserBoost, watchdog>>
statusVars == <<outputError, boostConfirmed>>

vars == <<modeVars, boostEnabled, autoWakeup, auto, sensorVars, lastWritten,
          statusVars, held, lane, ec, main>>

-----------------------------------------------------------------------------
(* The EC lane and the fan registers.                                      *)

FanOps == {"apply_low", "apply_full", "boost_on", "boost_off"}
Ops    == FanOps \cup {"load_state", "other"}

Apply(d) == IF d = "full" THEN "apply_full" ELSE "apply_low"
Boost(b) == IF b THEN "boost_on" ELSE "boost_off"

Registers == [boost : BOOLEAN, duty : Duties]

\* A duty write leaves Boost; leaving Boost rewrites the duties the Linux
\* service applied last, or full speed when it applied none.
Effect(op, e) ==
    [boost |-> IF op \in FanOps THEN op = "boost_on" ELSE e.boost,
     duty  |-> IF op = "apply_low" THEN "low"
               ELSE IF op = "apply_full" \/ (op = "boost_off" /\ lastWritten = "none")
               THEN "full" ELSE e.duty]

\* An operation that fails was rolled back, or had taken effect all the same:
\* an OEM write whose confirmation was lost, a rollback that failed too.
FailureOutcomes(op, e) ==
    IF FailureTakesEffect THEN {e, Effect(op, e)} ELSE {e}

\* An operation that returns late has succeeded or failed.
LateOutcomes(op, e) == {e, Effect(op, e)}

\* _lowers_fan_output
Lowers(op) == op \in {"apply_low", "boost_off"}

FullSpeed(e) == e.boost \/ e.duty = "full"

FreeLane == [owner |-> "none", op |-> "other", stage |-> "free"]
LaneFree == lane.stage = "free"
Occupy(owner, op) == lane' = [owner |-> owner, op |-> op, stage |-> "running"]

Stopping == main # "serving"

-----------------------------------------------------------------------------
(* The state lock.                                                         *)

Handlers == {"manual", "exit", "stop", "auto", "restore",
             "boost", "load", "fallback"}

\* Handlers whose EC call is _apply_fan_target.
Appliers == {"manual", "exit", "stop", "auto", "restore"}

Unlocked == [who |-> "none", op |-> "other", stage |-> "free"]
LockFree == held.who = "none"
Lock(who, op, stage) == held' = [who |-> who, op |-> op, stage |-> stage]
Stage(s) == held' = [held EXCEPT !.stage = s]

\* The loop outside a cycle keeps nothing it captured.
AutoAt(pc) == [pc |-> pc, config |-> NoConfig, target |-> "low"]

Init ==
    /\ automatic = FALSE
    /\ boostEnabled = FALSE
    /\ config \in Configs
    /\ scheduled = FALSE
    /\ autoWakeup = FALSE
    /\ auto = AutoAt("top")
    /\ sensorsStale = FALSE
    /\ sensorEmergency = FALSE
    /\ keptUserBoost = FALSE
    /\ watchdog = "idle"
    /\ lastWritten = "none"
    /\ outputError = FALSE
    /\ boostConfirmed = FALSE
    /\ held = Unlocked
    /\ lane = FreeLane
    /\ ec \in Registers
    /\ main = "serving"

-----------------------------------------------------------------------------
(* Faulty variants of actions and helpers below: each has one slip and      *)
(* breaks a property stated further down.  No specification uses them.      *)

\* apply_manual without the emergency guard
RequestManualUnguarded(d) ==
    /\ "manual" \in Requested /\ LockFree
    /\ outputError => d = "full"
    /\ Lock("manual", Apply(d), "call")
    /\ UNCHANGED <<modeVars, boostEnabled, autoWakeup, auto, sensorVars,
                   lastWritten, statusVars, lane, ec, main>>

\* The fault is over, the confirmation of the Boost it left is kept.
ClearFaultOnly == outputError' = FALSE /\ UNCHANGED boostConfirmed

\* No stopping check inside the lane
CallStartsUnchecked ==
    /\ held.stage = "call"
    /\ LaneFree
    /\ Occupy("handler", held.op)
    /\ Stage("run")
    /\ UNCHANGED <<modeVars, boostEnabled, autoWakeup, auto, sensorVars,
                   lastWritten, statusVars, ec, main>>

\* An error without a deadline latches nothing.
LatchNothing == UNCHANGED statusVars

\* The call is cached instead of the duties it wrote.
ManualAppliedAsCalled ==
    /\ held.who = "manual" /\ held.stage = "ok"
    /\ outputError' = FALSE
    /\ boostConfirmed' = FALSE
    /\ lastWritten' = held.op
    /\ boostEnabled' = FALSE
    /\ held' = Unlocked
    /\ UNCHANGED <<modeVars, autoWakeup, auto, sensorVars, lane, ec, main>>

\* set_boost does not wake the Automatic loop.
BoostSetSilently ==
    /\ held.who = "boost" /\ held.stage = "ok"
    /\ boostConfirmed' = (held.op = "boost_on")
    /\ boostEnabled' = (held.op = "boost_on")
    /\ scheduled' = (scheduled \/ (held.op = "boost_off" /\ automatic))
    /\ held' = Unlocked
    /\ UNCHANGED <<automatic, config, autoWakeup, auto, sensorVars,
                   lastWritten, outputError, lane, ec, main>>

\* The emergency Boost is asked for once.
EmergencyNotRetried ==
    /\ watchdog = "stale" /\ LockFree
    /\ sensorEmergency
    /\ watchdog' = "idle"
    /\ UNCHANGED <<modeVars, boostEnabled, autoWakeup, auto, sensorsStale,
                   sensorEmergency, keptUserBoost, lastWritten, statusVars,
                   held, lane, ec, main>>

\* The end points are not compared with the captured ones.
StillAutomatic == automatic /\ ~boostEnabled

-----------------------------------------------------------------------------
(* Requests: the guards of each handler, then its EC call.                 *)

\* apply_manual
RequestManual(d) ==
    /\ "manual" \in Requested /\ LockFree
    /\ ~sensorEmergency
    /\ outputError => d = "full"
    /\ Lock("manual", Apply(d), "call")
    /\ UNCHANGED <<modeVars, boostEnabled, autoWakeup, auto, sensorVars,
                   lastWritten, statusVars, lane, ec, main>>

\* set_boost
RequestBoost(b) ==
    /\ "boost" \in Requested /\ LockFree
    /\ ~b => ~sensorEmergency /\ ~outputError
    /\ Lock("boost", Boost(b), "call")
    /\ UNCHANGED <<modeVars, boostEnabled, autoWakeup, auto, sensorVars,
                   lastWritten, statusVars, lane, ec, main>>

\* load_state, the part under the state lock
RequestLoad ==
    /\ "load" \in Requested /\ LockFree
    /\ Lock("load", "load_state", "call")
    /\ UNCHANGED <<modeVars, boostEnabled, autoWakeup, auto, sensorVars,
                   lastWritten, statusVars, lane, ec, main>>

\* prepare_exit of a confirmed exit
RequestExit ==
    /\ "exit" \in Requested /\ LockFree
    /\ Lock("exit", "apply_full", "call")
    /\ UNCHANGED <<modeVars, boostEnabled, autoWakeup, auto, sensorVars,
                   lastWritten, statusVars, lane, ec, main>>

\* configure_auto, also the first half of set_mode
Configure(c) ==
    /\ "configure" \in Requested /\ LockFree
    /\ config' = c
    /\ UNCHANGED <<automatic, scheduled, boostEnabled, autoWakeup,
                   auto, sensorVars, lastWritten, statusVars, held, lane, ec, main>>

\* set_mode after configure_auto
SetMode(a) ==
    /\ "mode" \in Requested /\ LockFree
    /\ automatic' = a
    /\ scheduled' = (a /\ (scheduled \/ ~automatic))
    /\ autoWakeup' = TRUE
    /\ UNCHANGED <<config, boostEnabled, auto, sensorVars, lastWritten,
                   statusVars, held, lane, ec, main>>

-----------------------------------------------------------------------------
(* _call_service for the handler that holds the state lock.  A failed call *)
(* goes on under the same lock: _apply_fan_target and set_boost latch the  *)
(* fault and try Boost, load_state just raises.                            *)

Unlock == held' = Unlocked

TriesFallback == held.who \in Appliers \cup {"boost"}

AfterFailure == IF TriesFallback THEN Stage("fallback") ELSE Unlock

\* _mark_output_failure, unless a fault is latched already
LatchFault ==
    IF TriesFallback /\ ~outputError
    THEN outputError' = TRUE /\ boostConfirmed' = FALSE
    ELSE UNCHANGED statusVars

\* The stopping check runs inside the lane, before the service is touched.
CallRefusedStopping ==
    /\ held.stage = "call"
    /\ LaneFree
    /\ Stopping /\ Lowers(held.op)
    /\ LatchFault
    /\ AfterFailure
    /\ UNCHANGED <<modeVars, boostEnabled, autoWakeup, auto, sensorVars,
                   lastWritten, lane, ec, main>>

CallStarts ==
    /\ held.stage = "call"
    /\ LaneFree
    /\ ~(Stopping /\ Lowers(held.op))
    /\ Occupy("handler", held.op)
    /\ Stage("run")
    /\ UNCHANGED <<modeVars, boostEnabled, autoWakeup, auto, sensorVars,
                   lastWritten, statusVars, ec, main>>

\* OperationBusy: behind an abandoned operation at once, behind any other
\* when the deadline expires.
CallBusy ==
    /\ held.stage = "call"
    /\ ~LaneFree
    /\ LatchFault
    /\ AfterFailure
    /\ UNCHANGED <<modeVars, boostEnabled, autoWakeup, auto, sensorVars,
                   lastWritten, lane, ec, main>>

CallSucceeds ==
    /\ held.stage = "run"
    /\ ec' = Effect(held.op, ec)
    /\ lane' = FreeLane
    /\ Stage("ok")
    /\ UNCHANGED <<modeVars, boostEnabled, autoWakeup, auto, sensorVars,
                   lastWritten, statusVars, main>>

CallFails ==
    /\ held.stage = "run"
    /\ ec' \in FailureOutcomes(held.op, ec)
    /\ lane' = FreeLane
    /\ LatchFault
    /\ AfterFailure
    /\ UNCHANGED <<modeVars, boostEnabled, autoWakeup, auto, sensorVars,
                   lastWritten, main>>

\* on_timeout latches the fault whatever the method was.
CallTimesOut ==
    /\ held.stage = "run"
    /\ lane' = [lane EXCEPT !.stage = "abandoned"]
    /\ outputError' = TRUE
    /\ boostConfirmed' = FALSE
    /\ AfterFailure
    /\ UNCHANGED <<modeVars, boostEnabled, autoWakeup, auto, sensorVars,
                   lastWritten, ec, main>>

-----------------------------------------------------------------------------
(* After a successful call.                                                *)

\* _apply_fan_target returns: the fault is over.
ClearFault ==
    /\ outputError' = FALSE
    /\ boostConfirmed' = FALSE

DutyOf(op) == IF op = "apply_full" THEN "full" ELSE "low"

ManualApplied ==
    /\ held.who = "manual" /\ held.stage = "ok"
    /\ ClearFault
    /\ lastWritten' = DutyOf(held.op)
    /\ boostEnabled' = FALSE
    /\ Unlock
    /\ UNCHANGED <<modeVars, autoWakeup, auto, sensorVars, lane, ec, main>>

\* prepare_exit, asked for by a client or by the main thread that stops
ExitApplied ==
    /\ held.who \in {"exit", "stop"} /\ held.stage = "ok"
    /\ ClearFault
    /\ lastWritten' = "full"
    /\ automatic' = FALSE
    /\ boostEnabled' = FALSE
    /\ scheduled' = FALSE
    /\ autoWakeup' = TRUE
    /\ main' = IF held.who = "stop" THEN "safe" ELSE main
    /\ Unlock
    /\ UNCHANGED <<config, auto, sensorVars, lane, ec>>

\* _run_auto_cycle after its write, and its finally block
AutoApplied ==
    /\ held.who = "auto" /\ held.stage = "ok"
    /\ ClearFault
    /\ lastWritten' = DutyOf(held.op)
    /\ sensorEmergency' = FALSE
    /\ scheduled' = (scheduled \/ automatic)
    /\ auto' = AutoAt("top")
    /\ Unlock
    /\ UNCHANGED <<automatic, config, boostEnabled, autoWakeup, sensorsStale,
                   keptUserBoost, watchdog, lane, ec, main>>

\* _update_sensor_emergency after it restored the Manual duties
RestoreApplied ==
    /\ held.who = "restore" /\ held.stage = "ok"
    /\ ClearFault
    /\ sensorEmergency' = FALSE
    /\ autoWakeup' = TRUE
    /\ watchdog' = "idle"
    /\ Unlock
    /\ UNCHANGED <<modeVars, boostEnabled, auto, sensorsStale, keptUserBoost,
                   lastWritten, lane, ec, main>>

BoostSet ==
    /\ held.who = "boost" /\ held.stage = "ok"
    /\ boostConfirmed' = (held.op = "boost_on")
    /\ boostEnabled' = (held.op = "boost_on")
    /\ scheduled' = (scheduled \/ (held.op = "boost_off" /\ automatic))
    /\ autoWakeup' = TRUE
    /\ Unlock
    /\ UNCHANGED <<automatic, config, auto, sensorVars, lastWritten,
                   outputError, lane, ec, main>>

\* load_state: during an emergency or a fault the EC Boost is not the user's.
StateLoaded ==
    /\ held.who = "load" /\ held.stage = "ok"
    /\ boostEnabled' = IF sensorEmergency \/ outputError THEN boostEnabled ELSE ec.boost
    /\ Unlock
    /\ UNCHANGED <<modeVars, autoWakeup, auto, sensorVars, lastWritten,
                   statusVars, lane, ec, main>>

-----------------------------------------------------------------------------
(* _try_emergency_boost, then the end of the handler that tried it.        *)

\* A request raises, the cycle runs its finally block, the watchdog goes on
\* to its next tick, the main thread logs and stops all the same.
EndHandler ==
    /\ Unlock
    /\ scheduled' = (scheduled \/ (held.who = "auto" /\ automatic))
    /\ auto' = IF held.who = "auto" THEN AutoAt("top") ELSE auto
    /\ watchdog' = IF held.who \in {"restore", "fallback"} THEN "idle" ELSE watchdog
    /\ main' = IF held.who = "stop" THEN "unsafe" ELSE main
    /\ UNCHANGED <<automatic, config, boostEnabled, autoWakeup,
                   sensorsStale, sensorEmergency, keptUserBoost, lastWritten>>

FallbackStarts ==
    /\ held.stage = "fallback"
    /\ LaneFree
    /\ Occupy("handler", "boost_on")
    /\ Stage("fallback_run")
    /\ UNCHANGED <<modeVars, boostEnabled, autoWakeup, auto, sensorVars,
                   lastWritten, statusVars, ec, main>>

FallbackBusy ==
    /\ held.stage = "fallback"
    /\ ~LaneFree
    /\ EndHandler
    /\ UNCHANGED <<statusVars, lane, ec>>

FallbackSucceeds ==
    /\ held.stage = "fallback_run"
    /\ ec' = Effect("boost_on", ec)
    /\ lane' = FreeLane
    /\ Stage("boosted")
    /\ UNCHANGED <<modeVars, boostEnabled, autoWakeup, auto, sensorVars,
                   lastWritten, statusVars, main>>

\* _record_emergency_boost, once the lane has returned
FallbackConfirmed ==
    /\ held.stage = "boosted"
    /\ boostConfirmed' = TRUE
    /\ EndHandler
    /\ UNCHANGED <<outputError, lane, ec>>

FallbackFails ==
    /\ held.stage = "fallback_run"
    /\ ec' \in FailureOutcomes("boost_on", ec)
    /\ lane' = FreeLane
    /\ EndHandler
    /\ UNCHANGED statusVars

FallbackTimesOut ==
    /\ held.stage = "fallback_run"
    /\ lane' = [lane EXCEPT !.stage = "abandoned"]
    /\ outputError' = TRUE
    /\ boostConfirmed' = FALSE
    /\ EndHandler
    /\ UNCHANGED ec

-----------------------------------------------------------------------------
(* The lane without the state lock.                                        *)

OtherStarts ==
    /\ LaneFree
    /\ Occupy("other", "other")
    /\ UNCHANGED <<modeVars, boostEnabled, autoWakeup, auto, sensorVars,
                   lastWritten, statusVars, held, ec, main>>

OtherReturns ==
    /\ lane.owner = "other" /\ lane.stage = "running"
    /\ lane' = FreeLane
    /\ UNCHANGED <<modeVars, boostEnabled, autoWakeup, auto, sensorVars,
                   lastWritten, statusVars, held, ec, main>>

OtherTimesOut ==
    /\ lane.owner = "other" /\ lane.stage = "running"
    /\ lane' = [lane EXCEPT !.stage = "abandoned"]
    /\ outputError' = TRUE
    /\ boostConfirmed' = FALSE
    /\ UNCHANGED <<modeVars, boostEnabled, autoWakeup, auto, sensorVars,
                   lastWritten, held, ec, main>>

\* The abandoned operation returns, with or without its effect ...
LateReturns ==
    /\ lane.stage = "abandoned"
    /\ ec' \in LateOutcomes(lane.op, ec)
    /\ lane' = [lane EXCEPT !.stage = "late"]
    /\ UNCHANGED <<modeVars, boostEnabled, autoWakeup, auto, sensorVars,
                   lastWritten, statusVars, held, main>>

\* ... and after_timeout tries Boost before the slot is released.
LateBoosts ==
    /\ lane.stage = "late"
    /\ ec' = Effect("boost_on", ec)
    /\ boostConfirmed' = TRUE
    /\ lane' = FreeLane
    /\ UNCHANGED <<modeVars, boostEnabled, autoWakeup, auto, sensorVars,
                   lastWritten, outputError, held, main>>

LateBoostFails ==
    /\ lane.stage = "late"
    /\ ec' \in FailureOutcomes("boost_on", ec)
    /\ lane' = FreeLane
    /\ UNCHANGED <<modeVars, boostEnabled, autoWakeup, auto, sensorVars,
                   lastWritten, statusVars, held, main>>

-----------------------------------------------------------------------------
(* Sensors and their watchdog.                                             *)

SensorsGoStale ==
    /\ ~sensorsStale
    /\ sensorsStale' = TRUE
    /\ UNCHANGED <<modeVars, boostEnabled, autoWakeup, auto, sensorEmergency,
                   keptUserBoost, watchdog, lastWritten, statusVars, held,
                   lane, ec, main>>

\* A validated read by the watchdog or by a telemetry request.
SensorsRead ==
    /\ sensorsStale
    /\ sensorsStale' = FALSE
    /\ UNCHANGED <<modeVars, boostEnabled, autoWakeup, auto, sensorEmergency,
                   keptUserBoost, watchdog, lastWritten, statusVars, held,
                   lane, ec, main>>

\* _update_sensor_emergency judges freshness before it has the state lock.
WatchdogLooks ==
    /\ watchdog = "idle"
    /\ main \notin {"stopped_safe", "stopped_unsafe"}
    /\ watchdog' = IF sensorsStale THEN "stale" ELSE "fresh"
    /\ UNCHANGED <<modeVars, boostEnabled, autoWakeup, auto, sensorsStale,
                   sensorEmergency, keptUserBoost, lastWritten, statusVars,
                   held, lane, ec, main>>

EmergencyStarts ==
    /\ watchdog = "stale" /\ LockFree
    /\ ~sensorEmergency
    /\ sensorEmergency' = TRUE
    /\ keptUserBoost' = boostEnabled
    /\ boostConfirmed' = FALSE
    /\ Lock("fallback", "boost_on", "fallback")
    /\ watchdog' = "busy"
    /\ UNCHANGED <<modeVars, boostEnabled, autoWakeup, auto, sensorsStale,
                   lastWritten, outputError, lane, ec, main>>

\* While it lasts, Boost is asked again until it is confirmed.
EmergencyHolds ==
    /\ watchdog = "stale" /\ LockFree
    /\ sensorEmergency
    /\ IF boostConfirmed
       THEN watchdog' = "idle" /\ UNCHANGED held
       ELSE watchdog' = "busy" /\ Lock("fallback", "boost_on", "fallback")
    /\ UNCHANGED <<modeVars, boostEnabled, autoWakeup, auto, sensorsStale,
                   sensorEmergency, keptUserBoost, lastWritten, statusVars,
                   lane, ec, main>>

\* Fresh sensors and a latched fault: only Boost, the fault stays.
FaultHolds ==
    /\ watchdog = "fresh" /\ LockFree
    /\ outputError
    /\ sensorEmergency' = FALSE
    /\ watchdog' = "busy"
    /\ Lock("fallback", "boost_on", "fallback")
    /\ UNCHANGED <<modeVars, boostEnabled, autoWakeup, auto, sensorsStale,
                   keptUserBoost, lastWritten, statusVars, lane, ec, main>>

\* Fresh sensors, no fault and no emergency: nothing to do.
NothingToRecover ==
    /\ watchdog = "fresh" /\ LockFree
    /\ ~outputError /\ ~sensorEmergency
    /\ watchdog' = "idle"
    /\ UNCHANGED <<modeVars, boostEnabled, autoWakeup, auto, sensorsStale,
                   sensorEmergency, keptUserBoost, lastWritten, statusVars,
                   held, lane, ec, main>>

\* The user's own Boost stays, or the Automatic loop takes over.
RecoverWithoutWrite ==
    /\ watchdog = "fresh" /\ LockFree
    /\ ~outputError /\ sensorEmergency
    /\ keptUserBoost \/ automatic
    /\ sensorEmergency' = FALSE
    /\ scheduled' = (scheduled \/ ~keptUserBoost)
    /\ autoWakeup' = TRUE
    /\ watchdog' = "idle"
    /\ UNCHANGED <<automatic, config, boostEnabled, auto,
                   sensorsStale, keptUserBoost, lastWritten, statusVars, held,
                   lane, ec, main>>

RecoverManual ==
    /\ watchdog = "fresh" /\ LockFree
    /\ ~outputError /\ sensorEmergency
    /\ ~keptUserBoost /\ ~automatic
    /\ Lock("restore",
            Apply(IF lastWritten = "none" THEN "full" ELSE lastWritten), "call")
    /\ watchdog' = "busy"
    /\ UNCHANGED <<modeVars, boostEnabled, autoWakeup, auto, sensorsStale,
                   sensorEmergency, keptUserBoost, lastWritten, statusVars,
                   lane, ec, main>>

-----------------------------------------------------------------------------
(* The Automatic loop.                                                     *)

\* How long to sleep is decided under the lock, from what is cached.
AutoLooks ==
    /\ auto.pc = "top" /\ LockFree
    /\ main \notin {"stopped_safe", "stopped_unsafe"}
    /\ auto' = AutoAt(IF automatic /\ ~boostEnabled /\ scheduled
                      THEN "timed" ELSE "forever")
    /\ UNCHANGED <<modeVars, boostEnabled, autoWakeup, sensorVars, lastWritten,
                   statusVars, held, lane, ec, main>>

AutoWoken ==
    /\ auto.pc \in {"timed", "forever"}
    /\ autoWakeup
    /\ autoWakeup' = FALSE
    /\ auto' = AutoAt("top")
    /\ UNCHANGED <<modeVars, boostEnabled, sensorVars, lastWritten, statusVars,
                   held, lane, ec, main>>

\* The wait runs out (a wake-up set just then is cleared with it) and the
\* cycle captures what it will decide by.
AutoDue ==
    /\ auto.pc = "timed" /\ LockFree
    /\ autoWakeup' = FALSE
    /\ auto' = IF automatic
               THEN [AutoAt("read") EXCEPT !.config = config]
               ELSE AutoAt("top")
    /\ UNCHANGED <<modeVars, boostEnabled, sensorVars, lastWritten, statusVars,
                   held, lane, ec, main>>

\* The sensors are read without the state lock.
AutoReads(t) ==
    /\ auto.pc = "read"
    /\ sensorsStale' = FALSE
    /\ auto' = [auto EXCEPT !.pc = "decide", !.target = Target[auto.config][t]]
    /\ UNCHANGED <<modeVars, boostEnabled, autoWakeup, sensorEmergency,
                   keptUserBoost, watchdog, lastWritten, statusVars, held,
                   lane, ec, main>>

AutoReadFails ==
    /\ auto.pc = "read" /\ LockFree
    /\ scheduled' = (scheduled \/ automatic)
    /\ auto' = AutoAt("top")
    /\ UNCHANGED <<automatic, config, boostEnabled, autoWakeup,
                   sensorVars, lastWritten, statusVars, held, lane, ec, main>>

\* What was captured before the read is compared with what holds now.
StillWanted ==
    /\ automatic
    /\ ~boostEnabled
    /\ auto.config = config

AutoDrops ==
    /\ auto.pc = "decide" /\ LockFree
    /\ ~StillWanted
    /\ scheduled' = (scheduled \/ automatic)
    /\ auto' = AutoAt("top")
    /\ UNCHANGED <<automatic, config, boostEnabled, autoWakeup,
                   sensorVars, lastWritten, statusVars, held, lane, ec, main>>

AutoWrites ==
    /\ auto.pc = "decide" /\ LockFree
    /\ StillWanted
    /\ Lock("auto", Apply(auto.target), "call")
    /\ auto' = [auto EXCEPT !.pc = "write"]
    /\ UNCHANGED <<modeVars, boostEnabled, autoWakeup, sensorVars, lastWritten,
                   statusVars, lane, ec, main>>

-----------------------------------------------------------------------------
(* The stop of the Linux service.                                          *)

BeginStop ==
    /\ "stop" \in Requested
    /\ main = "serving"
    /\ main' = "stopping"
    /\ UNCHANGED <<modeVars, boostEnabled, autoWakeup, auto, sensorVars,
                   lastWritten, statusVars, held, lane, ec>>

FinalWrite ==
    /\ main = "stopping" /\ LockFree
    /\ Lock("stop", "apply_full", "call")
    /\ UNCHANGED <<modeVars, boostEnabled, autoWakeup, auto, sensorVars,
                   lastWritten, statusVars, lane, ec, main>>

\* stop(): the loops end; requests accepted before may still be at work.
Stop ==
    /\ main \in {"safe", "unsafe"}
    /\ main' = IF main = "safe" THEN "stopped_safe" ELSE "stopped_unsafe"
    /\ autoWakeup' = TRUE
    /\ UNCHANGED <<modeVars, boostEnabled, auto, sensorVars, lastWritten,
                   statusVars, held, lane, ec>>

-----------------------------------------------------------------------------
Requests ==
    \/ \E d \in Duties : RequestManual(d)
    \/ \E b \in BOOLEAN : RequestBoost(b)
    \/ RequestLoad
    \/ RequestExit
    \/ \E c \in Configs : Configure(c)
    \/ \E a \in BOOLEAN : SetMode(a)

CallEnds == CallSucceeds \/ CallFails \/ CallTimesOut

FallbackRunEnds == FallbackSucceeds \/ FallbackFails \/ FallbackTimesOut

HandlerStep ==
    \/ CallRefusedStopping \/ CallStarts \/ CallBusy \/ CallEnds
    \/ ManualApplied \/ ExitApplied \/ AutoApplied \/ RestoreApplied
    \/ BoostSet \/ StateLoaded
    \/ FallbackStarts \/ FallbackBusy \/ FallbackRunEnds \/ FallbackConfirmed

OtherEnds == OtherReturns \/ OtherTimesOut

LateStep == LateReturns \/ LateBoosts \/ LateBoostFails

WatchdogStep ==
    \/ WatchdogLooks \/ EmergencyStarts \/ EmergencyHolds \/ FaultHolds
    \/ NothingToRecover \/ RecoverWithoutWrite \/ RecoverManual

AutoStep ==
    \/ AutoLooks \/ AutoWoken \/ AutoDue \/ AutoReadFails
    \/ (\E t \in Temps : AutoReads(t))
    \/ AutoDrops \/ AutoWrites

MainStep == BeginStop \/ FinalWrite \/ Stop

Next ==
    \/ Requests \/ HandlerStep \/ OtherStarts \/ OtherEnds \/ LateStep
    \/ SensorsGoStale \/ SensorsRead \/ WatchdogStep \/ AutoStep \/ MainStep

Spec == Init /\ [][Next]_vars

-----------------------------------------------------------------------------
AutoPcs == {"top", "timed", "forever", "read", "decide", "write"}
CallStages == {"call", "run", "ok"}
FallbackStages == {"fallback", "fallback_run", "boosted"}

AutoStates ==
    [pc : AutoPcs, config : Configs \cup {NoConfig}, target : Duties]
HeldStates ==
    [who : Handlers \cup {"none"}, op : Ops,
     stage : {"free"} \cup CallStages \cup FallbackStages]
LaneStates ==
    [owner : {"none", "handler", "other"}, op : Ops,
     stage : {"free", "running", "abandoned", "late"}]
MainStates ==
    {"serving", "stopping", "safe", "unsafe", "stopped_safe", "stopped_unsafe"}

Flags == {automatic, boostEnabled, scheduled, autoWakeup, sensorsStale,
          sensorEmergency, keptUserBoost, outputError, boostConfirmed}

DataTypes ==
    /\ config \in Configs
    /\ auto \in AutoStates
    /\ watchdog \in {"idle", "stale", "fresh", "busy"}
    /\ lastWritten \in Duties \cup {"none"}
    /\ held \in HeldStates
    /\ lane \in LaneStates
    /\ ec \in Registers
    /\ main \in MainStates

TypeOK == Flags \subseteq BOOLEAN /\ DataTypes

-----------------------------------------------------------------------------
Quiet == LockFree /\ LaneFree

\* The final 100% write of a stopping service is final: whatever was accepted
\* before the stop, waited for the state lock or for the lane and runs after
\* it, fans stay at full speed (fan_control_backend.py:110-112, safety.md:40).
FinalWriteIsFinal ==
    main \in {"safe", "stopped_safe"} => FullSpeed(ec)

\* No fan write is unaccounted for: while no fault is latched and no handler
\* is writing, the tables hold what the controller last verified.  A failed,
\* refused or late write that could have changed them has latched the fault.
NoUnaccountedWrite ==
    ~outputError /\ held.who \notin Appliers /\ lastWritten # "none"
        => ec.duty = lastWritten

\* What an Automatic cycle captured before it read the sensors still holds
\* when, and as long as, it writes (DESIGN.md:143).
AutoWriteIsWanted ==
    held.who = "auto" /\ held.stage \in {"call", "run", "ok"} =>
        /\ automatic
        /\ ~boostEnabled
        /\ \E t \in Temps : held.op = Apply(Target[config][t])

\* A Boost marked as confirmed is on whenever no handler is at work, except with
\* a fault latched: a further write that leaves Boost, fails and was carried out
\* all the same does not take the mark back (fan_control_backend.py:423, :622).
\* With ~FailureTakesEffect there is no exception, and without a fault, as in an
\* emergency that only lost its sensors, there is none in either case.
ConfirmedIsTrue ==
    LockFree /\ boostConfirmed => ec.boost \/ (outputError /\ FailureTakesEffect)

\* The mark that exception leaves behind.
StaleMark == LockFree /\ boostConfirmed /\ ~ec.boost

\* The UI distinguishes a confirmed Boost from unconfirmed safety (safety.md:29).
NoStaleMark == ~StaleMark

\* What may slow the fans in an emergency: an Automatic write, whose target a
\* validated read gave, the watchdog's restore after one, and an operation that
\* was abandoned before, and is followed by another Boost.
MayLower == held.who \in {"auto", "restore"} \/ lane.stage = "abandoned"

\* While the emergency lasts, fans at full speed are slowed by nothing else.
\* Its Boost is left by nothing else either but an exit, the one request that
\* _refuse_during_sensor_emergency does not guard (:645-650), also when the
\* service stops: its tables say 100% when Boost is left (safety.md:23).
EmergencyKeepsFull ==
    [][sensorEmergency =>
         /\ FullSpeed(ec) /\ ~FullSpeed(ec') => MayLower
         /\ ec.boost /\ ~ec'.boost =>
              MayLower \/ (held.who \in {"exit", "stop"} /\ ec'.duty = "full")]_vars

\* A cached Boost of the user is on in the EC once everything is verified
\* (fan_control_backend.py:458-459: "a stale True here would block Automatic").
BoostFlagIsTrue ==
    Quiet /\ ~sensorEmergency /\ ~outputError /\ boostEnabled => ec.boost

\* A Boost the controller raised for safety is never cached as the user's
\* (DESIGN.md:60, DESIGN.md:256).
SafetyBoostIsNotUsers ==
    [][held.who = "load" /\ boostConfirmed => boostEnabled' = boostEnabled]_vars

\* A latched fault is cleared only by a verified Automatic write or by a
\* verified 100/100 write (DESIGN.md:256, safety.md:29).
FaultNeedsRecovery ==
    [][outputError /\ ~outputError' =>
         held.who = "auto" \/ held.op = "apply_full"]_vars

-----------------------------------------------------------------------------
(* Liveness.                                                               *)

\* Threads that can run do run, an operation ends or is abandoned at its
\* deadline, an abandoned one returns.  Sensors, clients and the outcome of an
\* operation are nobody's promise.
LaneFairness ==
    /\ WF_vars(HandlerStep)
    /\ WF_vars(OtherEnds)
    /\ WF_vars(LateStep)

\* The Automatic loop gets the state lock in its turn, and a wait that is begun
\* again and again runs out once: wake-ups do not move its deadline.
AutoFairness == SF_vars(AutoStep) /\ SF_vars(AutoDue)

\* The watchdog gets the state lock in its turn.
WatchdogFairness == SF_vars(WatchdogStep)

\* A Boost that is tried again and again gets through, and the fallback does
\* not lose the lane for ever to operations that keep their own deadlines.
WorkingBoost ==
    /\ SF_vars(FallbackSucceeds)
    /\ SF_vars(LateBoosts)
    /\ <>[][FallbackBusy => lane.stage # "running"]_vars

AutoSpec == Spec /\ LaneFairness /\ AutoFairness

FairSpec == AutoSpec /\ WatchdogFairness

WatchdogSpec == Spec /\ LaneFairness /\ WatchdogFairness /\ WorkingBoost

\* Lost sensors lead to Boost unless they come back: whatever clients ask and
\* whichever other calls time out or fail meanwhile; or else a stale mark keeps
\* the watchdog from asking for it (safety.md:23, fan_control_backend.py:348).
StaleLeadsToBoost ==
    sensorsStale ~> ec.boost \/ ~sensorsStale \/ StaleMark

\* Automatic mode that Boost does not pause keeps reading the sensors
\* (DESIGN.md:56: "Fan Boost pauses automatic writes while it is enabled").
AutoKeepsRunning ==
    []<>(auto.pc = "read" \/ ~automatic \/ boostEnabled)
=============================================================================
