------------------------ MODULE FanController_proofs -------------------------
(***************************************************************************)
(* The safety properties of FanController for every set of temperatures,   *)
(* end points and requests, and every curve; and, at the end, what the     *)
(* Automatic curve of AutoCurve guarantees for all of them.                *)
(***************************************************************************)
EXTENDS FanController, AutoCurve, TLAPS

(* The inductive strengthening.                                            *)

ApplyOps == {"apply_low", "apply_full"}

\* Each handler calls what its code calls.
HeldShape ==
    /\ held.who = "none" <=> held.stage = "free"
    /\ held.who \in {"manual", "auto", "restore"} => held.op \in ApplyOps
    /\ held.who \in {"exit", "stop"} => held.op = "apply_full"
    /\ held.who = "restore" =>
         held.op = Apply(IF lastWritten = "none" THEN "full" ELSE lastWritten)
    /\ held.who = "boost" => held.op \in {"boost_on", "boost_off"}
    /\ held.who = "load" => held.op = "load_state" /\ held.stage \in CallStages
    /\ held.who = "fallback" => held.op = "boost_on" /\ held.stage \in FallbackStages
    /\ held.who = "stop" => Stopping

\* A handler in the middle of its call owns the lane, and only such a handler
\* or an operation that was abandoned does.
LaneShape ==
    /\ held.stage = "run" =>
         lane = [owner |-> "handler", op |-> held.op, stage |-> "running"]
    /\ held.stage = "fallback_run" =>
         lane = [owner |-> "handler", op |-> "boost_on", stage |-> "running"]
    /\ lane.owner = "handler" /\ lane.stage = "running" =>
         held.stage \in {"run", "fallback_run"}
    /\ lane.owner = "handler" => held.stage \notin {"ok", "boosted"}
    /\ lane.owner = "none" <=> LaneFree
    /\ lane.owner # "handler" => lane.op = "other"

\* What the cycle captured, and that it writes it under the state lock.
CapturedTarget == \E t \in Temps : auto.target = Target[auto.config][t]

AutoShape ==
    /\ held.who = "auto" <=> auto.pc = "write"
    /\ auto.pc \in {"read", "decide", "write"} => auto.config \in Configs
    /\ auto.pc \in {"decide", "write"} => CapturedTarget
    /\ held.who = "auto" /\ held.stage \in CallStages =>
         /\ automatic /\ ~boostEnabled
         /\ auto.config = config
         /\ held.op = Apply(auto.target)

\* The tables hold what was last verified, or what a handler is about to
\* record, unless a fault is latched; a write that was abandoned has latched it.
DutyShape ==
    /\ lane.stage \in {"abandoned", "late"} /\ lane.op \in ApplyOps => outputError
    /\ held.stage \in FallbackStages /\ held.who # "fallback" => outputError
    /\ held.who \in Appliers /\ held.stage = "ok" => ec.duty = DutyOf(held.op)
    /\ \/ outputError \/ lastWritten = "none"
       \/ held.who \in Appliers /\ held.stage = "ok"
       \/ ec.duty = lastWritten

\* After the final write the tables say 100% and nothing on the lane, late or
\* not, lowers them.
FinalShape ==
    main \in {"safe", "stopped_safe"} =>
        /\ ec.duty = "full"
        /\ lane.op # "apply_low" /\ (held.stage = "ok" => held.op # "apply_low")

\* A handler that may leave Boost was let in before the emergency.
EmergencyShape ==
    sensorEmergency =>
        held.who # "manual" /\ ~(held.who = "boost" /\ held.op = "boost_off")

IInv ==
    /\ TypeOK /\ HeldShape /\ LaneShape /\ AutoShape
    /\ DutyShape /\ FinalShape /\ EmergencyShape

-----------------------------------------------------------------------------
(* Steps that touch neither the lane, nor the fans, nor the state lock.    *)

QuietStep ==
    \/ \E c \in Configs : Configure(c)
    \/ \E a \in BOOLEAN : SetMode(a)
    \/ SensorsGoStale \/ SensorsRead
    \/ WatchdogLooks \/ NothingToRecover \/ RecoverWithoutWrite
    \/ AutoLooks \/ AutoWoken \/ AutoDue \/ AutoReadFails \/ AutoDrops
    \/ \E t \in Temps : AutoReads(t)

LEMMA QuietFrame ==
  ASSUME QuietStep
  PROVE  /\ UNCHANGED <<held, lane, ec, main, lastWritten, statusVars>>
         /\ sensorEmergency' => sensorEmergency
<1> USE DEF modeVars, sensorVars, statusVars
<1>1. ASSUME NEW c \in Configs, Configure(c)
      PROVE  UNCHANGED <<held, lane, ec, main, lastWritten, statusVars, sensorEmergency>>
  BY <1>1 DEF Configure
<1>2. ASSUME NEW a \in BOOLEAN, SetMode(a)
      PROVE  UNCHANGED <<held, lane, ec, main, lastWritten, statusVars, sensorEmergency>>
  BY <1>2 DEF SetMode
<1>3. CASE SensorsGoStale \/ SensorsRead \/ WatchdogLooks \/ NothingToRecover
  BY <1>3 DEF SensorsGoStale, SensorsRead, WatchdogLooks, NothingToRecover
<1>4. CASE RecoverWithoutWrite
  BY <1>4 DEF RecoverWithoutWrite
<1>5. CASE AutoLooks \/ AutoWoken \/ AutoDue \/ AutoReadFails \/ AutoDrops
  BY <1>5 DEF AutoLooks, AutoWoken, AutoDue, AutoReadFails, AutoDrops
<1>6. ASSUME NEW t \in Temps, AutoReads(t)
      PROVE  UNCHANGED <<held, lane, ec, main, lastWritten, statusVars, sensorEmergency>>
  BY <1>6 DEF AutoReads
<1>7. QED
  BY <1>1, <1>2, <1>3, <1>4, <1>5, <1>6 DEF QuietStep

-----------------------------------------------------------------------------
(* The flags, one by one.                                                  *)

IsFlag(x) == x = TRUE \/ x = FALSE

FlagShape ==
    /\ IsFlag(automatic) /\ IsFlag(boostEnabled)
    /\ IsFlag(scheduled) /\ IsFlag(autoWakeup) /\ IsFlag(sensorsStale)
    /\ IsFlag(sensorEmergency) /\ IsFlag(keptUserBoost)
    /\ IsFlag(outputError) /\ IsFlag(boostConfirmed)

LEMMA FlagsAreBoolean == FlagShape <=> Flags \subseteq BOOLEAN
  BY Zenon DEF FlagShape, IsFlag, Flags

-----------------------------------------------------------------------------
\* Every step keeps the flags Boolean.
LEMMA FlagStep ==
  ASSUME FlagShape, DataTypes, [Next]_vars
  PROVE  FlagShape'
<1> USE DEF Unlocked, LockFree, Lock, Stage, Unlock, FreeLane, LaneFree, Occupy,
            modeVars, sensorVars, statusVars
<1> USE DEF FlagShape, IsFlag
<1>1. ASSUME NEW d \in Duties, RequestManual(d) PROVE FlagShape'
  BY <1>1 DEF RequestManual, Apply
<1>2. ASSUME NEW b \in BOOLEAN, RequestBoost(b) PROVE FlagShape'
  BY <1>2 DEF RequestBoost, Boost
<1>3. ASSUME RequestLoad PROVE FlagShape'
  BY <1>3 DEF RequestLoad
<1>4. ASSUME RequestExit PROVE FlagShape'
  BY <1>4 DEF RequestExit
<1>5. ASSUME NEW c \in Configs, Configure(c) PROVE FlagShape'
  BY <1>5 DEF Configure
<1>6. ASSUME NEW a \in BOOLEAN, SetMode(a) PROVE FlagShape'
  BY <1>6 DEF SetMode
<1>7. ASSUME CallRefusedStopping PROVE FlagShape'
  BY <1>7 DEF CallRefusedStopping, AfterFailure, TriesFallback, LatchFault
<1>8. ASSUME CallStarts PROVE FlagShape'
  BY <1>8 DEF CallStarts, Lowers
<1>9. ASSUME CallBusy PROVE FlagShape'
  BY <1>9 DEF CallBusy, AfterFailure, TriesFallback, LatchFault
<1>10. ASSUME CallSucceeds PROVE FlagShape'
  BY <1>10 DEF CallSucceeds
<1>11. ASSUME CallFails PROVE FlagShape'
  BY <1>11 DEF CallFails, FailureOutcomes, AfterFailure, TriesFallback,
     LatchFault
<1>12. ASSUME CallTimesOut PROVE FlagShape'
  BY <1>12 DEF CallTimesOut, AfterFailure, TriesFallback
<1>13. ASSUME ManualApplied PROVE FlagShape'
  BY <1>13 DEF ManualApplied, ClearFault
<1>14. ASSUME ExitApplied PROVE FlagShape'
  BY <1>14 DEF ExitApplied, ClearFault
<1>15. ASSUME AutoApplied PROVE FlagShape'
  BY <1>15 DEF AutoApplied, ClearFault, AutoAt
<1>16. ASSUME RestoreApplied PROVE FlagShape'
  BY <1>16 DEF RestoreApplied, ClearFault, Apply
<1>17. ASSUME BoostSet PROVE FlagShape'
  BY <1>17 DEF BoostSet
<1>18. ASSUME StateLoaded PROVE FlagShape'
  BY <1>18, DataTypes DEF StateLoaded
<1>19. ASSUME FallbackStarts PROVE FlagShape'
  BY <1>19 DEF FallbackStarts
<1>20. ASSUME FallbackBusy PROVE FlagShape'
  BY <1>20 DEF FallbackBusy, EndHandler, AutoAt
<1>21. ASSUME FallbackSucceeds PROVE FlagShape'
  BY <1>21 DEF FallbackSucceeds
<1>22. ASSUME FallbackConfirmed PROVE FlagShape'
  BY <1>22 DEF FallbackConfirmed, EndHandler, AutoAt
<1>23. ASSUME FallbackFails PROVE FlagShape'
  BY <1>23 DEF FallbackFails, FailureOutcomes, EndHandler, AutoAt
<1>24. ASSUME FallbackTimesOut PROVE FlagShape'
  BY <1>24 DEF FallbackTimesOut, EndHandler, AutoAt
<1>25. ASSUME OtherStarts PROVE FlagShape'
  BY <1>25 DEF OtherStarts
<1>26. ASSUME OtherReturns PROVE FlagShape'
  BY <1>26 DEF OtherReturns
<1>27. ASSUME OtherTimesOut PROVE FlagShape'
  BY <1>27 DEF OtherTimesOut
<1>28. ASSUME LateReturns PROVE FlagShape'
  BY <1>28 DEF LateReturns, LateOutcomes
<1>29. ASSUME LateBoosts PROVE FlagShape'
  BY <1>29 DEF LateBoosts
<1>30. ASSUME LateBoostFails PROVE FlagShape'
  BY <1>30 DEF LateBoostFails, FailureOutcomes
<1>31. ASSUME EmergencyStarts PROVE FlagShape'
  BY <1>31 DEF EmergencyStarts
<1>32. ASSUME EmergencyHolds PROVE FlagShape'
  BY <1>32 DEF EmergencyHolds
<1>33. ASSUME FaultHolds PROVE FlagShape'
  BY <1>33 DEF FaultHolds
<1>34. ASSUME RecoverManual PROVE FlagShape'
  BY <1>34 DEF RecoverManual, Apply
<1>35. ASSUME AutoWrites PROVE FlagShape'
  BY <1>35 DEF AutoWrites, StillWanted, Apply
<1>36. ASSUME BeginStop PROVE FlagShape'
  BY <1>36 DEF BeginStop
<1>37. ASSUME FinalWrite PROVE FlagShape'
  BY <1>37 DEF FinalWrite
<1>38. ASSUME Stop PROVE FlagShape'
  BY <1>38 DEF Stop
<1>39. ASSUME SensorsGoStale PROVE FlagShape'
  BY <1>39 DEF SensorsGoStale
<1>40. ASSUME SensorsRead PROVE FlagShape'
  BY <1>40 DEF SensorsRead
<1>41. ASSUME WatchdogLooks PROVE FlagShape'
  BY <1>41 DEF WatchdogLooks
<1>42. ASSUME NothingToRecover PROVE FlagShape'
  BY <1>42 DEF NothingToRecover
<1>43. ASSUME RecoverWithoutWrite PROVE FlagShape'
  BY <1>43 DEF RecoverWithoutWrite
<1>44. ASSUME AutoLooks PROVE FlagShape'
  BY <1>44 DEF AutoLooks, AutoAt
<1>45. ASSUME AutoWoken PROVE FlagShape'
  BY <1>45 DEF AutoWoken, AutoAt
<1>46. ASSUME AutoDue PROVE FlagShape'
  BY <1>46 DEF AutoDue, AutoAt
<1>47. ASSUME NEW t \in Temps, AutoReads(t) PROVE FlagShape'
  BY <1>47 DEF AutoReads
<1>48. ASSUME AutoReadFails PROVE FlagShape'
  BY <1>48 DEF AutoReadFails, AutoAt
<1>49. ASSUME AutoDrops PROVE FlagShape'
  BY <1>49 DEF AutoDrops, AutoAt
<1>50. CASE UNCHANGED vars
  BY <1>50 DEF vars
<1>51. QED
  BY <1>1, <1>2, <1>3, <1>4, <1>5, <1>6, <1>7, <1>8, <1>9, <1>10, <1>11,
     <1>12, <1>13, <1>14, <1>15, <1>16, <1>17, <1>18, <1>19, <1>20, <1>21,
     <1>22, <1>23, <1>24, <1>25, <1>26, <1>27, <1>28, <1>29, <1>30, <1>31,
     <1>32, <1>33, <1>34, <1>35, <1>36, <1>37, <1>38, <1>39, <1>40, <1>41,
     <1>42, <1>43, <1>44, <1>45, <1>46, <1>47, <1>48, <1>49, <1>50
     DEF Next, Requests, HandlerStep, CallEnds, FallbackRunEnds, OtherEnds,
          LateStep, WatchdogStep, AutoStep, MainStep

-----------------------------------------------------------------------------
\* Whatever becomes of an operation, the fan registers keep their type.
LEMMA OutcomeTypes ==
  ASSUME NEW op \in Ops, NEW e \in Registers
  PROVE  /\ Effect(op, e) \in Registers
         /\ FailureOutcomes(op, e) \subseteq Registers
         /\ LateOutcomes(op, e) \subseteq Registers
<1>1. Effect(op, e) \in Registers
  <2>1. (IF op \in FanOps THEN op = "boost_on" ELSE e.boost) \in BOOLEAN
    BY DEF Registers
  <2>2. (IF op = "apply_low" THEN "low"
         ELSE IF op = "apply_full" \/ (op = "boost_off" /\ lastWritten = "none")
         THEN "full" ELSE e.duty) \in Duties
    BY DEF Registers, Duties
  <2>3. QED
    BY <2>1, <2>2, Zenon DEF Effect, Registers
<1>2. QED
  BY <1>1 DEF FailureOutcomes, LateOutcomes

-----------------------------------------------------------------------------
\* Every step keeps the types of the other variables.
LEMMA DataStep ==
  ASSUME TypeOK, HeldShape, AutoShape, [Next]_vars
  PROVE  DataTypes'
<1> USE DEF Unlocked, LockFree, Lock, Stage, Unlock, FreeLane, LaneFree, Occupy,
            modeVars, sensorVars, statusVars
<1> USE DEF TypeOK, Flags, DataTypes, AutoStates, HeldStates, LaneStates, MainStates,
            AutoPcs, CallStages, FallbackStages, Handlers, Ops, FanOps, Duties,
            HeldShape, AutoShape, DutyOf
<1>1. ASSUME NEW d \in Duties, RequestManual(d) PROVE DataTypes'
  BY <1>1 DEF RequestManual, Apply
<1>2. ASSUME NEW b \in BOOLEAN, RequestBoost(b) PROVE DataTypes'
  BY <1>2 DEF RequestBoost, Boost
<1>3. ASSUME RequestLoad PROVE DataTypes'
  BY <1>3 DEF RequestLoad
<1>4. ASSUME RequestExit PROVE DataTypes'
  BY <1>4 DEF RequestExit
<1>5. ASSUME NEW c \in Configs, Configure(c) PROVE DataTypes'
  BY <1>5 DEF Configure
<1>6. ASSUME NEW a \in BOOLEAN, SetMode(a) PROVE DataTypes'
  BY <1>6 DEF SetMode
<1>7. ASSUME CallRefusedStopping PROVE DataTypes'
  BY <1>7 DEF CallRefusedStopping, AfterFailure, TriesFallback, LatchFault
<1>8. ASSUME CallStarts PROVE DataTypes'
  BY <1>8 DEF CallStarts, Lowers
<1>9. ASSUME CallBusy PROVE DataTypes'
  BY <1>9 DEF CallBusy, AfterFailure, TriesFallback, LatchFault
<1>10. ASSUME CallSucceeds PROVE DataTypes'
  BY <1>10, OutcomeTypes DEF CallSucceeds
<1>11. ASSUME CallFails PROVE DataTypes'
  BY <1>11, OutcomeTypes DEF CallFails, AfterFailure, TriesFallback,
     LatchFault
<1>12. ASSUME CallTimesOut PROVE DataTypes'
  BY <1>12 DEF CallTimesOut, AfterFailure, TriesFallback
<1>13. ASSUME ManualApplied PROVE DataTypes'
  BY <1>13 DEF ManualApplied, ClearFault
<1>14. ASSUME ExitApplied PROVE DataTypes'
  BY <1>14 DEF ExitApplied, ClearFault
<1>15. ASSUME AutoApplied PROVE DataTypes'
  BY <1>15 DEF AutoApplied, ClearFault, AutoAt
<1>16. ASSUME RestoreApplied PROVE DataTypes'
  BY <1>16 DEF RestoreApplied, ClearFault, Apply
<1>17. ASSUME BoostSet PROVE DataTypes'
  BY <1>17 DEF BoostSet
<1>18. ASSUME StateLoaded PROVE DataTypes'
  BY <1>18 DEF StateLoaded
<1>19. ASSUME FallbackStarts PROVE DataTypes'
  BY <1>19 DEF FallbackStarts
<1>20. ASSUME FallbackBusy PROVE DataTypes'
  BY <1>20 DEF FallbackBusy, EndHandler, AutoAt
<1>21. ASSUME FallbackSucceeds PROVE DataTypes'
  BY <1>21, OutcomeTypes DEF FallbackSucceeds
<1>22. ASSUME FallbackConfirmed PROVE DataTypes'
  BY <1>22 DEF FallbackConfirmed, EndHandler, AutoAt
<1>23. ASSUME FallbackFails PROVE DataTypes'
  BY <1>23, OutcomeTypes DEF FallbackFails, EndHandler, AutoAt
<1>24. ASSUME FallbackTimesOut PROVE DataTypes'
  BY <1>24 DEF FallbackTimesOut, EndHandler, AutoAt
<1>25. ASSUME OtherStarts PROVE DataTypes'
  BY <1>25 DEF OtherStarts
<1>26. ASSUME OtherReturns PROVE DataTypes'
  BY <1>26 DEF OtherReturns
<1>27. ASSUME OtherTimesOut PROVE DataTypes'
  BY <1>27 DEF OtherTimesOut
<1>28. ASSUME LateReturns PROVE DataTypes'
  BY <1>28, OutcomeTypes DEF LateReturns
<1>29. ASSUME LateBoosts PROVE DataTypes'
  BY <1>29, OutcomeTypes DEF LateBoosts
<1>30. ASSUME LateBoostFails PROVE DataTypes'
  BY <1>30, OutcomeTypes DEF LateBoostFails
<1>31. ASSUME EmergencyStarts PROVE DataTypes'
  BY <1>31 DEF EmergencyStarts
<1>32. ASSUME EmergencyHolds PROVE DataTypes'
  BY <1>32 DEF EmergencyHolds
<1>33. ASSUME FaultHolds PROVE DataTypes'
  BY <1>33 DEF FaultHolds
<1>34. ASSUME RecoverManual PROVE DataTypes'
  BY <1>34 DEF RecoverManual, Apply
<1>35. ASSUME AutoWrites PROVE DataTypes'
  BY <1>35 DEF AutoWrites, StillWanted, Apply
<1>36. ASSUME BeginStop PROVE DataTypes'
  BY <1>36 DEF BeginStop
<1>37. ASSUME FinalWrite PROVE DataTypes'
  BY <1>37 DEF FinalWrite
<1>38. ASSUME Stop PROVE DataTypes'
  BY <1>38 DEF Stop
<1>39. ASSUME SensorsGoStale PROVE DataTypes'
  BY <1>39 DEF SensorsGoStale
<1>40. ASSUME SensorsRead PROVE DataTypes'
  BY <1>40 DEF SensorsRead
<1>41. ASSUME WatchdogLooks PROVE DataTypes'
  BY <1>41 DEF WatchdogLooks
<1>42. ASSUME NothingToRecover PROVE DataTypes'
  BY <1>42 DEF NothingToRecover
<1>43. ASSUME RecoverWithoutWrite PROVE DataTypes'
  BY <1>43 DEF RecoverWithoutWrite
<1>44. ASSUME AutoLooks PROVE DataTypes'
  BY <1>44 DEF AutoLooks, AutoAt
<1>45. ASSUME AutoWoken PROVE DataTypes'
  BY <1>45 DEF AutoWoken, AutoAt
<1>46. ASSUME AutoDue PROVE DataTypes'
  <2>1. AutoAt("top") \in AutoStates
    BY Zenon DEF AutoAt
  <2>2. [AutoAt("read") EXCEPT !.config = config] \in AutoStates
    BY DEF AutoAt
  <2>3. QED
    BY <1>46, <2>1, <2>2 DEF AutoDue
<1>47. ASSUME NEW t \in Temps, AutoReads(t) PROVE DataTypes'
  <2>1. auto.config \in Configs
    BY <1>47 DEF AutoReads
  <2>2. Target[auto.config][t] \in Duties
    BY <2>1, TargetAssumption
  <2>3. [auto EXCEPT !.pc = "decide", !.target = Target[auto.config][t]] \in AutoStates
    BY <2>2, Zenon
  <2>4. QED
    BY <1>47, <2>3 DEF AutoReads
<1>48. ASSUME AutoReadFails PROVE DataTypes'
  BY <1>48 DEF AutoReadFails, AutoAt
<1>49. ASSUME AutoDrops PROVE DataTypes'
  BY <1>49 DEF AutoDrops, AutoAt
<1>50. CASE UNCHANGED vars
  BY <1>50 DEF vars
<1>51. QED
  BY <1>1, <1>2, <1>3, <1>4, <1>5, <1>6, <1>7, <1>8, <1>9, <1>10, <1>11,
     <1>12, <1>13, <1>14, <1>15, <1>16, <1>17, <1>18, <1>19, <1>20, <1>21,
     <1>22, <1>23, <1>24, <1>25, <1>26, <1>27, <1>28, <1>29, <1>30, <1>31,
     <1>32, <1>33, <1>34, <1>35, <1>36, <1>37, <1>38, <1>39, <1>40, <1>41,
     <1>42, <1>43, <1>44, <1>45, <1>46, <1>47, <1>48, <1>49, <1>50
     DEF Next, Requests, HandlerStep, CallEnds, FallbackRunEnds, OtherEnds,
          LateStep, WatchdogStep, AutoStep, MainStep

LEMMA TypeStep ==
  ASSUME TypeOK, HeldShape, AutoShape, [Next]_vars
  PROVE  TypeOK'
<1>1. FlagShape'
  BY FlagsAreBoolean, FlagStep DEF TypeOK
<1>2. (Flags \subseteq BOOLEAN)'
  BY <1>1, Zenon DEF FlagShape, IsFlag, Flags
<1>3. QED
  BY <1>2, DataStep DEF TypeOK

-----------------------------------------------------------------------------
\* Every step keeps the handler and the lane in step.
LEMMA HeldStep ==
  ASSUME TypeOK, HeldShape, LaneShape, [Next]_vars
  PROVE  HeldShape' /\ LaneShape'
<1> USE DEF Unlocked, LockFree, Lock, Stage, Unlock, FreeLane, LaneFree, Occupy,
            modeVars, sensorVars, statusVars
<1> USE DEF HeldShape, LaneShape, TypeOK, DataTypes, HeldStates, LaneStates, CallStages,
            FallbackStages, Handlers, ApplyOps, Stopping, Appliers
<1>1. ASSUME NEW d \in Duties, RequestManual(d) PROVE HeldShape' /\ LaneShape'
  BY <1>1 DEF RequestManual, Apply
<1>2. ASSUME NEW b \in BOOLEAN, RequestBoost(b) PROVE HeldShape' /\ LaneShape'
  BY <1>2 DEF RequestBoost, Boost
<1>3. ASSUME RequestLoad PROVE HeldShape' /\ LaneShape'
  BY <1>3 DEF RequestLoad
<1>4. ASSUME RequestExit PROVE HeldShape' /\ LaneShape'
  BY <1>4 DEF RequestExit
<1>5. ASSUME CallRefusedStopping PROVE HeldShape' /\ LaneShape'
  BY <1>5 DEF CallRefusedStopping, AfterFailure, TriesFallback, LatchFault
<1>6. ASSUME CallStarts PROVE HeldShape' /\ LaneShape'
  BY <1>6 DEF CallStarts, Lowers
<1>7. ASSUME CallBusy PROVE HeldShape' /\ LaneShape'
  BY <1>7 DEF CallBusy, AfterFailure, TriesFallback, LatchFault
<1>8. ASSUME CallSucceeds PROVE HeldShape' /\ LaneShape'
  BY <1>8 DEF CallSucceeds, Effect
<1>9. ASSUME CallFails PROVE HeldShape' /\ LaneShape'
  BY <1>9 DEF CallFails, FailureOutcomes, Effect, AfterFailure,
     TriesFallback, LatchFault
<1>10. ASSUME CallTimesOut PROVE HeldShape' /\ LaneShape'
  BY <1>10 DEF CallTimesOut, AfterFailure, TriesFallback
<1>11. ASSUME ManualApplied PROVE HeldShape' /\ LaneShape'
  BY <1>11 DEF ManualApplied, ClearFault
<1>12. ASSUME ExitApplied PROVE HeldShape' /\ LaneShape'
  BY <1>12 DEF ExitApplied, ClearFault
<1>13. ASSUME AutoApplied PROVE HeldShape' /\ LaneShape'
  BY <1>13 DEF AutoApplied, ClearFault, AutoAt
<1>14. ASSUME RestoreApplied PROVE HeldShape' /\ LaneShape'
  BY <1>14 DEF RestoreApplied, ClearFault, Apply
<1>15. ASSUME BoostSet PROVE HeldShape' /\ LaneShape'
  BY <1>15 DEF BoostSet
<1>16. ASSUME StateLoaded PROVE HeldShape' /\ LaneShape'
  BY <1>16 DEF StateLoaded
<1>17. ASSUME FallbackStarts PROVE HeldShape' /\ LaneShape'
  BY <1>17 DEF FallbackStarts
<1>18. ASSUME FallbackBusy PROVE HeldShape' /\ LaneShape'
  BY <1>18 DEF FallbackBusy, EndHandler, AutoAt
<1>19. ASSUME FallbackSucceeds PROVE HeldShape' /\ LaneShape'
  BY <1>19 DEF FallbackSucceeds, Effect
<1>20. ASSUME FallbackConfirmed PROVE HeldShape' /\ LaneShape'
  BY <1>20 DEF FallbackConfirmed, EndHandler, AutoAt
<1>21. ASSUME FallbackFails PROVE HeldShape' /\ LaneShape'
  BY <1>21 DEF FallbackFails, FailureOutcomes, Effect, EndHandler, AutoAt
<1>22. ASSUME FallbackTimesOut PROVE HeldShape' /\ LaneShape'
  BY <1>22 DEF FallbackTimesOut, EndHandler, AutoAt
<1>23. ASSUME OtherStarts PROVE HeldShape' /\ LaneShape'
  BY <1>23 DEF OtherStarts
<1>24. ASSUME OtherReturns PROVE HeldShape' /\ LaneShape'
  BY <1>24 DEF OtherReturns
<1>25. ASSUME OtherTimesOut PROVE HeldShape' /\ LaneShape'
  BY <1>25 DEF OtherTimesOut
<1>26. ASSUME LateReturns PROVE HeldShape' /\ LaneShape'
  BY <1>26 DEF LateReturns, LateOutcomes, Effect
<1>27. ASSUME LateBoosts PROVE HeldShape' /\ LaneShape'
  BY <1>27 DEF LateBoosts, Effect
<1>28. ASSUME LateBoostFails PROVE HeldShape' /\ LaneShape'
  BY <1>28 DEF LateBoostFails, FailureOutcomes, Effect
<1>29. ASSUME EmergencyStarts PROVE HeldShape' /\ LaneShape'
  BY <1>29 DEF EmergencyStarts
<1>30. ASSUME EmergencyHolds PROVE HeldShape' /\ LaneShape'
  BY <1>30 DEF EmergencyHolds
<1>31. ASSUME FaultHolds PROVE HeldShape' /\ LaneShape'
  BY <1>31 DEF FaultHolds
<1>32. ASSUME RecoverManual PROVE HeldShape' /\ LaneShape'
  BY <1>32 DEF RecoverManual, Apply
<1>33. ASSUME AutoWrites PROVE HeldShape' /\ LaneShape'
  BY <1>33 DEF AutoWrites, StillWanted, Apply
<1>34. ASSUME BeginStop PROVE HeldShape' /\ LaneShape'
  BY <1>34 DEF BeginStop
<1>35. ASSUME FinalWrite PROVE HeldShape' /\ LaneShape'
  BY <1>35 DEF FinalWrite
<1>36. ASSUME Stop PROVE HeldShape' /\ LaneShape'
  BY <1>36 DEF Stop
<1>37. CASE QuietStep
  BY <1>37, QuietFrame
<1>38. CASE UNCHANGED vars
  BY <1>38 DEF vars
<1>39. QED
  BY <1>1, <1>2, <1>3, <1>4, <1>5, <1>6, <1>7, <1>8, <1>9, <1>10, <1>11,
     <1>12, <1>13, <1>14, <1>15, <1>16, <1>17, <1>18, <1>19, <1>20, <1>21,
     <1>22, <1>23, <1>24, <1>25, <1>26, <1>27, <1>28, <1>29, <1>30, <1>31,
     <1>32, <1>33, <1>34, <1>35, <1>36, <1>37, <1>38
     DEF Next, Requests, HandlerStep, CallEnds, FallbackRunEnds, OtherEnds,
          LateStep, WatchdogStep, AutoStep, MainStep, QuietStep

-----------------------------------------------------------------------------
\* Every step keeps what the Automatic cycle captured.
LEMMA CapturedStep ==
  ASSUME TypeOK, HeldShape, AutoShape, [Next]_vars
  PROVE  AutoShape'
<1> USE DEF Unlocked, LockFree, Lock, Stage, Unlock, FreeLane, LaneFree, Occupy,
            modeVars, sensorVars, statusVars
<1> USE DEF HeldShape, AutoShape, CapturedTarget, TypeOK, Flags, DataTypes, HeldStates, AutoStates,
            AutoPcs, CallStages, FallbackStages, Handlers, Appliers
<1>1. ASSUME NEW d \in Duties, RequestManual(d) PROVE AutoShape'
  BY <1>1 DEF RequestManual, Apply
<1>2. ASSUME NEW b \in BOOLEAN, RequestBoost(b) PROVE AutoShape'
  BY <1>2 DEF RequestBoost, Boost
<1>3. ASSUME RequestLoad PROVE AutoShape'
  BY <1>3 DEF RequestLoad
<1>4. ASSUME RequestExit PROVE AutoShape'
  BY <1>4 DEF RequestExit
<1>5. ASSUME NEW c \in Configs, Configure(c) PROVE AutoShape'
  BY <1>5 DEF Configure
<1>6. ASSUME NEW a \in BOOLEAN, SetMode(a) PROVE AutoShape'
  BY <1>6 DEF SetMode
<1>7. ASSUME CallRefusedStopping PROVE AutoShape'
  BY <1>7 DEF CallRefusedStopping, AfterFailure, TriesFallback, LatchFault
<1>8. ASSUME CallStarts PROVE AutoShape'
  BY <1>8 DEF CallStarts, Lowers
<1>9. ASSUME CallBusy PROVE AutoShape'
  BY <1>9 DEF CallBusy, AfterFailure, TriesFallback, LatchFault
<1>10. ASSUME CallSucceeds PROVE AutoShape'
  BY <1>10 DEF CallSucceeds, Effect
<1>11. ASSUME CallFails PROVE AutoShape'
  BY <1>11 DEF CallFails, FailureOutcomes, Effect, AfterFailure,
     TriesFallback, LatchFault
<1>12. ASSUME CallTimesOut PROVE AutoShape'
  BY <1>12 DEF CallTimesOut, AfterFailure, TriesFallback
<1>13. ASSUME ManualApplied PROVE AutoShape'
  BY <1>13 DEF ManualApplied, ClearFault
<1>14. ASSUME ExitApplied PROVE AutoShape'
  BY <1>14 DEF ExitApplied, ClearFault
<1>15. ASSUME AutoApplied PROVE AutoShape'
  BY <1>15 DEF AutoApplied, ClearFault, AutoAt
<1>16. ASSUME RestoreApplied PROVE AutoShape'
  BY <1>16 DEF RestoreApplied, ClearFault, Apply
<1>17. ASSUME BoostSet PROVE AutoShape'
  BY <1>17 DEF BoostSet
<1>18. ASSUME StateLoaded PROVE AutoShape'
  BY <1>18 DEF StateLoaded
<1>19. ASSUME FallbackStarts PROVE AutoShape'
  BY <1>19 DEF FallbackStarts
<1>20. ASSUME FallbackBusy PROVE AutoShape'
  BY <1>20 DEF FallbackBusy, EndHandler, AutoAt
<1>21. ASSUME FallbackSucceeds PROVE AutoShape'
  BY <1>21 DEF FallbackSucceeds, Effect
<1>22. ASSUME FallbackConfirmed PROVE AutoShape'
  BY <1>22 DEF FallbackConfirmed, EndHandler, AutoAt
<1>23. ASSUME FallbackFails PROVE AutoShape'
  BY <1>23 DEF FallbackFails, FailureOutcomes, Effect, EndHandler, AutoAt
<1>24. ASSUME FallbackTimesOut PROVE AutoShape'
  BY <1>24 DEF FallbackTimesOut, EndHandler, AutoAt
<1>25. ASSUME OtherStarts PROVE AutoShape'
  BY <1>25 DEF OtherStarts
<1>26. ASSUME OtherReturns PROVE AutoShape'
  BY <1>26 DEF OtherReturns
<1>27. ASSUME OtherTimesOut PROVE AutoShape'
  BY <1>27 DEF OtherTimesOut
<1>28. ASSUME LateReturns PROVE AutoShape'
  BY <1>28 DEF LateReturns, LateOutcomes, Effect
<1>29. ASSUME LateBoosts PROVE AutoShape'
  BY <1>29 DEF LateBoosts, Effect
<1>30. ASSUME LateBoostFails PROVE AutoShape'
  BY <1>30 DEF LateBoostFails, FailureOutcomes, Effect
<1>31. ASSUME EmergencyStarts PROVE AutoShape'
  BY <1>31 DEF EmergencyStarts
<1>32. ASSUME EmergencyHolds PROVE AutoShape'
  BY <1>32 DEF EmergencyHolds
<1>33. ASSUME FaultHolds PROVE AutoShape'
  BY <1>33 DEF FaultHolds
<1>34. ASSUME RecoverManual PROVE AutoShape'
  BY <1>34 DEF RecoverManual, Apply
<1>35. ASSUME AutoWrites PROVE AutoShape'
  BY <1>35 DEF AutoWrites, StillWanted, Apply
<1>36. ASSUME BeginStop PROVE AutoShape'
  BY <1>36 DEF BeginStop
<1>37. ASSUME FinalWrite PROVE AutoShape'
  BY <1>37 DEF FinalWrite
<1>38. ASSUME Stop PROVE AutoShape'
  BY <1>38 DEF Stop
<1>39. ASSUME SensorsGoStale PROVE AutoShape'
  BY <1>39 DEF SensorsGoStale
<1>40. ASSUME SensorsRead PROVE AutoShape'
  BY <1>40 DEF SensorsRead
<1>41. ASSUME WatchdogLooks PROVE AutoShape'
  BY <1>41 DEF WatchdogLooks
<1>42. ASSUME NothingToRecover PROVE AutoShape'
  BY <1>42 DEF NothingToRecover
<1>43. ASSUME RecoverWithoutWrite PROVE AutoShape'
  BY <1>43 DEF RecoverWithoutWrite
<1>44. ASSUME AutoLooks PROVE AutoShape'
  BY <1>44 DEF AutoLooks, AutoAt
<1>45. ASSUME AutoWoken PROVE AutoShape'
  BY <1>45 DEF AutoWoken, AutoAt
<1>46. ASSUME AutoDue PROVE AutoShape'
  BY <1>46 DEF AutoDue, AutoAt
<1>47. ASSUME NEW t \in Temps, AutoReads(t) PROVE AutoShape'
  BY <1>47 DEF AutoReads
<1>48. ASSUME AutoReadFails PROVE AutoShape'
  BY <1>48 DEF AutoReadFails, AutoAt
<1>49. ASSUME AutoDrops PROVE AutoShape'
  BY <1>49 DEF AutoDrops, AutoAt
<1>50. CASE UNCHANGED vars
  BY <1>50 DEF vars
<1>51. QED
  BY <1>1, <1>2, <1>3, <1>4, <1>5, <1>6, <1>7, <1>8, <1>9, <1>10, <1>11,
     <1>12, <1>13, <1>14, <1>15, <1>16, <1>17, <1>18, <1>19, <1>20, <1>21,
     <1>22, <1>23, <1>24, <1>25, <1>26, <1>27, <1>28, <1>29, <1>30, <1>31,
     <1>32, <1>33, <1>34, <1>35, <1>36, <1>37, <1>38, <1>39, <1>40, <1>41,
     <1>42, <1>43, <1>44, <1>45, <1>46, <1>47, <1>48, <1>49, <1>50
     DEF Next, Requests, HandlerStep, CallEnds, FallbackRunEnds, OtherEnds,
          LateStep, WatchdogStep, AutoStep, MainStep

-----------------------------------------------------------------------------
\* Every step keeps what the fans and the fault latch say of each other.
LEMMA FanStep ==
  ASSUME TypeOK, HeldShape, LaneShape, DutyShape, FinalShape, EmergencyShape, [Next]_vars
  PROVE  DutyShape' /\ FinalShape' /\ EmergencyShape'
<1> USE DEF Unlocked, LockFree, Lock, Stage, Unlock, FreeLane, LaneFree, Occupy,
            modeVars, sensorVars, statusVars
<1> USE DEF HeldShape, LaneShape, DutyShape, FinalShape, EmergencyShape, TypeOK,
            DataTypes, HeldStates, LaneStates, CallStages, FallbackStages, Appliers, Handlers,
            ApplyOps, Stopping, DutyOf, Registers, Duties, Ops, FanOps
<1>1. ASSUME NEW d \in Duties, RequestManual(d) PROVE DutyShape' /\ FinalShape' /\ EmergencyShape'
  BY <1>1 DEF RequestManual, Apply
<1>2. ASSUME NEW b \in BOOLEAN, RequestBoost(b) PROVE DutyShape' /\ FinalShape' /\ EmergencyShape'
  BY <1>2 DEF RequestBoost, Boost
<1>3. ASSUME RequestLoad PROVE DutyShape' /\ FinalShape' /\ EmergencyShape'
  BY <1>3 DEF RequestLoad
<1>4. ASSUME RequestExit PROVE DutyShape' /\ FinalShape' /\ EmergencyShape'
  BY <1>4 DEF RequestExit
<1>5. ASSUME CallRefusedStopping PROVE DutyShape' /\ FinalShape' /\ EmergencyShape'
  BY <1>5 DEF CallRefusedStopping, AfterFailure, TriesFallback, LatchFault
<1>6. ASSUME CallStarts PROVE DutyShape' /\ FinalShape' /\ EmergencyShape'
  BY <1>6 DEF CallStarts, Lowers
<1>7. ASSUME CallBusy PROVE DutyShape' /\ FinalShape' /\ EmergencyShape'
  BY <1>7 DEF CallBusy, AfterFailure, TriesFallback, LatchFault
<1>8. ASSUME CallSucceeds PROVE DutyShape' /\ FinalShape' /\ EmergencyShape'
  BY <1>8 DEF CallSucceeds, Effect
<1>9. ASSUME CallFails PROVE DutyShape' /\ FinalShape' /\ EmergencyShape'
  BY <1>9 DEF CallFails, FailureOutcomes, Effect, AfterFailure,
     TriesFallback, LatchFault
<1>10. ASSUME CallTimesOut PROVE DutyShape' /\ FinalShape' /\ EmergencyShape'
  BY <1>10 DEF CallTimesOut, AfterFailure, TriesFallback
<1>11. ASSUME ManualApplied PROVE DutyShape' /\ FinalShape' /\ EmergencyShape'
  BY <1>11 DEF ManualApplied, ClearFault
<1>12. ASSUME ExitApplied PROVE DutyShape' /\ FinalShape' /\ EmergencyShape'
  BY <1>12 DEF ExitApplied, ClearFault
<1>13. ASSUME AutoApplied PROVE DutyShape' /\ FinalShape' /\ EmergencyShape'
  BY <1>13 DEF AutoApplied, ClearFault, AutoAt
<1>14. ASSUME RestoreApplied PROVE DutyShape' /\ FinalShape' /\ EmergencyShape'
  BY <1>14 DEF RestoreApplied, ClearFault, Apply
<1>15. ASSUME BoostSet PROVE DutyShape' /\ FinalShape' /\ EmergencyShape'
  BY <1>15 DEF BoostSet
<1>16. ASSUME StateLoaded PROVE DutyShape' /\ FinalShape' /\ EmergencyShape'
  BY <1>16 DEF StateLoaded
<1>17. ASSUME FallbackStarts PROVE DutyShape' /\ FinalShape' /\ EmergencyShape'
  BY <1>17 DEF FallbackStarts
<1>18. ASSUME FallbackBusy PROVE DutyShape' /\ FinalShape' /\ EmergencyShape'
  BY <1>18 DEF FallbackBusy, EndHandler, AutoAt
<1>19. ASSUME FallbackSucceeds PROVE DutyShape' /\ FinalShape' /\ EmergencyShape'
  BY <1>19 DEF FallbackSucceeds, Effect
<1>20. ASSUME FallbackConfirmed PROVE DutyShape' /\ FinalShape' /\ EmergencyShape'
  BY <1>20 DEF FallbackConfirmed, EndHandler, AutoAt
<1>21. ASSUME FallbackFails PROVE DutyShape' /\ FinalShape' /\ EmergencyShape'
  BY <1>21 DEF FallbackFails, FailureOutcomes, Effect, EndHandler, AutoAt
<1>22. ASSUME FallbackTimesOut PROVE DutyShape' /\ FinalShape' /\ EmergencyShape'
  BY <1>22 DEF FallbackTimesOut, EndHandler, AutoAt
<1>23. ASSUME OtherStarts PROVE DutyShape' /\ FinalShape' /\ EmergencyShape'
  BY <1>23 DEF OtherStarts
<1>24. ASSUME OtherReturns PROVE DutyShape' /\ FinalShape' /\ EmergencyShape'
  BY <1>24 DEF OtherReturns
<1>25. ASSUME OtherTimesOut PROVE DutyShape' /\ FinalShape' /\ EmergencyShape'
  BY <1>25 DEF OtherTimesOut
<1>26. ASSUME LateReturns PROVE DutyShape' /\ FinalShape' /\ EmergencyShape'
  BY <1>26 DEF LateReturns, LateOutcomes, Effect
<1>27. ASSUME LateBoosts PROVE DutyShape' /\ FinalShape' /\ EmergencyShape'
  BY <1>27 DEF LateBoosts, Effect
<1>28. ASSUME LateBoostFails PROVE DutyShape' /\ FinalShape' /\ EmergencyShape'
  BY <1>28 DEF LateBoostFails, FailureOutcomes, Effect
<1>29. ASSUME EmergencyStarts PROVE DutyShape' /\ FinalShape' /\ EmergencyShape'
  BY <1>29 DEF EmergencyStarts
<1>30. ASSUME EmergencyHolds PROVE DutyShape' /\ FinalShape' /\ EmergencyShape'
  BY <1>30 DEF EmergencyHolds
<1>31. ASSUME FaultHolds PROVE DutyShape' /\ FinalShape' /\ EmergencyShape'
  BY <1>31 DEF FaultHolds
<1>32. ASSUME RecoverManual PROVE DutyShape' /\ FinalShape' /\ EmergencyShape'
  BY <1>32 DEF RecoverManual, Apply
<1>33. ASSUME AutoWrites PROVE DutyShape' /\ FinalShape' /\ EmergencyShape'
  BY <1>33 DEF AutoWrites, StillWanted, Apply
<1>34. ASSUME BeginStop PROVE DutyShape' /\ FinalShape' /\ EmergencyShape'
  BY <1>34 DEF BeginStop
<1>35. ASSUME FinalWrite PROVE DutyShape' /\ FinalShape' /\ EmergencyShape'
  BY <1>35 DEF FinalWrite
<1>36. ASSUME Stop PROVE DutyShape' /\ FinalShape' /\ EmergencyShape'
  BY <1>36 DEF Stop
<1>37. CASE QuietStep
  BY <1>37, QuietFrame
<1>38. CASE UNCHANGED vars
  BY <1>38 DEF vars
<1>39. QED
  BY <1>1, <1>2, <1>3, <1>4, <1>5, <1>6, <1>7, <1>8, <1>9, <1>10, <1>11,
     <1>12, <1>13, <1>14, <1>15, <1>16, <1>17, <1>18, <1>19, <1>20, <1>21,
     <1>22, <1>23, <1>24, <1>25, <1>26, <1>27, <1>28, <1>29, <1>30, <1>31,
     <1>32, <1>33, <1>34, <1>35, <1>36, <1>37, <1>38
     DEF Next, Requests, HandlerStep, CallEnds, FallbackRunEnds, OtherEnds,
          LateStep, WatchdogStep, AutoStep, MainStep, QuietStep

-----------------------------------------------------------------------------
(* A confirmed Boost.                                                      *)

LeavingBoost == {"apply_low", "apply_full", "boost_off"}

\* The mark is true, or the write that left Boost is about to take it back, or
\* failed behind a fault that had been latched before and left it as it was.
ConfirmShape ==
    /\ boostConfirmed =>
         \/ ec.boost
         \/ outputError /\ FailureTakesEffect
         \/ held.stage = "ok" /\ held.op \in LeavingBoost
    /\ lane.stage \in {"abandoned", "late"} /\ lane.op \in LeavingBoost => ~boostConfirmed
    /\ held.stage = "boosted" => ec.boost
    /\ held.stage = "ok" /\ held.op = "boost_on" => ec.boost

-----------------------------------------------------------------------------
\* Every step keeps what a confirmed Boost says of the fans.
LEMMA ConfirmStep ==
  ASSUME TypeOK, HeldShape, LaneShape, ConfirmShape, [Next]_vars
  PROVE  ConfirmShape'
<1> USE DEF Unlocked, LockFree, Lock, Stage, Unlock, FreeLane, LaneFree, Occupy,
            modeVars, sensorVars, statusVars
<1> USE DEF HeldShape, LaneShape, ConfirmShape, LeavingBoost, TypeOK, DataTypes,
            HeldStates, LaneStates, CallStages, FallbackStages, Appliers, Handlers,
            ApplyOps, Registers, Duties, Ops, FanOps
<1>1. ASSUME NEW d \in Duties, RequestManual(d) PROVE ConfirmShape'
  BY <1>1 DEF RequestManual, Apply
<1>2. ASSUME NEW b \in BOOLEAN, RequestBoost(b) PROVE ConfirmShape'
  BY <1>2 DEF RequestBoost, Boost
<1>3. ASSUME RequestLoad PROVE ConfirmShape'
  BY <1>3 DEF RequestLoad
<1>4. ASSUME RequestExit PROVE ConfirmShape'
  BY <1>4 DEF RequestExit
<1>5. ASSUME CallRefusedStopping PROVE ConfirmShape'
  BY <1>5 DEF CallRefusedStopping, AfterFailure, TriesFallback, LatchFault
<1>6. ASSUME CallStarts PROVE ConfirmShape'
  BY <1>6 DEF CallStarts, Lowers
<1>7. ASSUME CallBusy PROVE ConfirmShape'
  BY <1>7 DEF CallBusy, AfterFailure, TriesFallback, LatchFault
<1>8. ASSUME CallSucceeds PROVE ConfirmShape'
  BY <1>8 DEF CallSucceeds, Effect
<1>9. ASSUME CallFails PROVE ConfirmShape'
  BY <1>9 DEF CallFails, FailureOutcomes, Effect, AfterFailure,
     TriesFallback, LatchFault
<1>10. ASSUME CallTimesOut PROVE ConfirmShape'
  BY <1>10 DEF CallTimesOut, AfterFailure, TriesFallback
<1>11. ASSUME ManualApplied PROVE ConfirmShape'
  BY <1>11 DEF ManualApplied, ClearFault
<1>12. ASSUME ExitApplied PROVE ConfirmShape'
  BY <1>12 DEF ExitApplied, ClearFault
<1>13. ASSUME AutoApplied PROVE ConfirmShape'
  BY <1>13 DEF AutoApplied, ClearFault, AutoAt
<1>14. ASSUME RestoreApplied PROVE ConfirmShape'
  BY <1>14 DEF RestoreApplied, ClearFault, Apply
<1>15. ASSUME BoostSet PROVE ConfirmShape'
  BY <1>15 DEF BoostSet
<1>16. ASSUME StateLoaded PROVE ConfirmShape'
  BY <1>16 DEF StateLoaded
<1>17. ASSUME FallbackStarts PROVE ConfirmShape'
  BY <1>17 DEF FallbackStarts
<1>18. ASSUME FallbackBusy PROVE ConfirmShape'
  BY <1>18 DEF FallbackBusy, EndHandler, AutoAt
<1>19. ASSUME FallbackSucceeds PROVE ConfirmShape'
  BY <1>19 DEF FallbackSucceeds, Effect
<1>20. ASSUME FallbackConfirmed PROVE ConfirmShape'
  BY <1>20 DEF FallbackConfirmed, EndHandler, AutoAt
<1>21. ASSUME FallbackFails PROVE ConfirmShape'
  BY <1>21 DEF FallbackFails, FailureOutcomes, Effect, EndHandler, AutoAt
<1>22. ASSUME FallbackTimesOut PROVE ConfirmShape'
  BY <1>22 DEF FallbackTimesOut, EndHandler, AutoAt
<1>23. ASSUME OtherStarts PROVE ConfirmShape'
  BY <1>23 DEF OtherStarts
<1>24. ASSUME OtherReturns PROVE ConfirmShape'
  BY <1>24 DEF OtherReturns
<1>25. ASSUME OtherTimesOut PROVE ConfirmShape'
  BY <1>25 DEF OtherTimesOut
<1>26. ASSUME LateReturns PROVE ConfirmShape'
  BY <1>26 DEF LateReturns, LateOutcomes, Effect
<1>27. ASSUME LateBoosts PROVE ConfirmShape'
  BY <1>27 DEF LateBoosts, Effect
<1>28. ASSUME LateBoostFails PROVE ConfirmShape'
  BY <1>28 DEF LateBoostFails, FailureOutcomes, Effect
<1>29. ASSUME EmergencyStarts PROVE ConfirmShape'
  BY <1>29 DEF EmergencyStarts
<1>30. ASSUME EmergencyHolds PROVE ConfirmShape'
  BY <1>30 DEF EmergencyHolds
<1>31. ASSUME FaultHolds PROVE ConfirmShape'
  BY <1>31 DEF FaultHolds
<1>32. ASSUME RecoverManual PROVE ConfirmShape'
  BY <1>32 DEF RecoverManual, Apply
<1>33. ASSUME AutoWrites PROVE ConfirmShape'
  BY <1>33 DEF AutoWrites, StillWanted, Apply
<1>34. ASSUME BeginStop PROVE ConfirmShape'
  BY <1>34 DEF BeginStop
<1>35. ASSUME FinalWrite PROVE ConfirmShape'
  BY <1>35 DEF FinalWrite
<1>36. ASSUME Stop PROVE ConfirmShape'
  BY <1>36 DEF Stop
<1>37. CASE QuietStep
  BY <1>37, QuietFrame
<1>38. CASE UNCHANGED vars
  BY <1>38 DEF vars
<1>39. QED
  BY <1>1, <1>2, <1>3, <1>4, <1>5, <1>6, <1>7, <1>8, <1>9, <1>10, <1>11,
     <1>12, <1>13, <1>14, <1>15, <1>16, <1>17, <1>18, <1>19, <1>20, <1>21,
     <1>22, <1>23, <1>24, <1>25, <1>26, <1>27, <1>28, <1>29, <1>30, <1>31,
     <1>32, <1>33, <1>34, <1>35, <1>36, <1>37, <1>38
     DEF Next, Requests, HandlerStep, CallEnds, FallbackRunEnds, OtherEnds,
          LateStep, WatchdogStep, AutoStep, MainStep, QuietStep

-----------------------------------------------------------------------------
\* Only the end of an operation changes the fan registers.
LEMMA EcChanges ==
  ASSUME [Next]_vars
  PROVE  \/ UNCHANGED ec
         \/ CallSucceeds \/ CallFails \/ FallbackSucceeds \/ FallbackFails
         \/ LateReturns \/ LateBoosts \/ LateBoostFails
<1>1. CASE QuietStep
  BY <1>1, QuietFrame
<1>2. CASE \/ \E d \in Duties : RequestManual(d)
           \/ \E b \in BOOLEAN : RequestBoost(b)
  BY <1>2 DEF RequestManual, RequestBoost
<1>3. CASE \/ RequestLoad \/ RequestExit \/ CallRefusedStopping
          \/ CallStarts \/ CallBusy \/ CallTimesOut \/ ManualApplied
          \/ ExitApplied \/ AutoApplied
  BY <1>3 DEF RequestLoad, RequestExit, CallRefusedStopping, CallStarts,
     CallBusy, CallTimesOut, ManualApplied, ExitApplied, AutoApplied
<1>4. CASE \/ RestoreApplied \/ BoostSet \/ StateLoaded \/ FallbackStarts
          \/ FallbackBusy \/ FallbackConfirmed \/ FallbackTimesOut
          \/ OtherStarts \/ OtherReturns
  BY <1>4 DEF RestoreApplied, BoostSet, StateLoaded, FallbackStarts,
     FallbackBusy, FallbackConfirmed, FallbackTimesOut, OtherStarts,
     OtherReturns, EndHandler
<1>5. CASE \/ OtherTimesOut \/ EmergencyStarts \/ EmergencyHolds
          \/ FaultHolds \/ RecoverManual \/ AutoWrites \/ BeginStop
          \/ FinalWrite \/ Stop
  BY <1>5 DEF OtherTimesOut, EmergencyStarts, EmergencyHolds, FaultHolds,
     RecoverManual, AutoWrites, BeginStop, FinalWrite, Stop
<1>6. CASE UNCHANGED vars
  BY <1>6 DEF vars
<1>7. QED
  BY <1>1, <1>2, <1>3, <1>4, <1>5, <1>6
     DEF Next, Requests, HandlerStep, CallEnds, FallbackRunEnds, OtherEnds,
          LateStep, WatchdogStep, AutoStep, MainStep, QuietStep

-----------------------------------------------------------------------------
\* The strengthening holds in every reachable state.
THEOREM Inductive == Spec => []IInv
<1>1. Init => IInv
  <2> SUFFICES ASSUME Init PROVE IInv
    OBVIOUS
  <2> USE DEF Init, AutoAt, Unlocked, FreeLane
  <2>1. TypeOK
    BY DEF TypeOK, Flags, DataTypes, AutoStates, HeldStates, LaneStates, MainStates, AutoPcs,
           Handlers, Ops, FanOps, Duties
  <2>2. HeldShape /\ LaneShape /\ AutoShape
    BY DEF HeldShape, LaneShape, AutoShape, LaneFree
  <2>3. DutyShape /\ FinalShape /\ EmergencyShape
    BY DEF DutyShape, FinalShape, EmergencyShape, FallbackStages
  <2>4. QED
    BY <2>1, <2>2, <2>3 DEF IInv
<1>2. IInv /\ [Next]_vars => IInv'
  BY TypeStep, HeldStep, CapturedStep, FanStep DEF IInv
<1>3. QED
  BY <1>1, <1>2, PTL DEF Spec

\* Every variable keeps its type.
THEOREM TypeCorrect == Spec => []TypeOK
<1>1. IInv => TypeOK
  BY DEF IInv
<1>2. QED
  BY <1>1, Inductive, PTL

\* A cycle writes only what it captured and what still holds, for every
\* curve and whatever end points are configured meanwhile.
THEOREM AutoWanted == Spec => []AutoWriteIsWanted
<1>1. IInv => AutoWriteIsWanted
  BY DEF IInv, AutoShape, CapturedTarget, AutoWriteIsWanted, CallStages
<1>2. QED
  BY <1>1, Inductive, PTL

\* The tables hold what was last verified unless a fault is latched.
THEOREM Accounted == Spec => []NoUnaccountedWrite
<1>1. IInv => NoUnaccountedWrite
  BY DEF IInv, DutyShape, NoUnaccountedWrite
<1>2. QED
  BY <1>1, Inductive, PTL

\* The final 100% write of a stopping service is final.
THEOREM Final == Spec => []FinalWriteIsFinal
<1>1. IInv => FinalWriteIsFinal
  BY DEF IInv, FinalShape, FinalWriteIsFinal, FullSpeed
<1>2. QED
  BY <1>1, Inductive, PTL

\* A confirmed Boost is on whenever no handler is at work, unless a fault is
\* latched and a write that failed may have been carried out.
THEOREM Confirmed == Spec => []ConfirmedIsTrue
<1>1. Init => ConfirmShape
  BY DEF Init, ConfirmShape, Unlocked, FreeLane
<1>2. IInv /\ ConfirmShape /\ [Next]_vars => ConfirmShape'
  BY ConfirmStep DEF IInv
<1>3. IInv /\ ConfirmShape => ConfirmedIsTrue
  BY DEF IInv, HeldShape, ConfirmShape, ConfirmedIsTrue, LockFree
<1>4. QED
  BY <1>1, <1>2, <1>3, Inductive, PTL DEF Spec

\* Boost is left by a duty write or by turning it off, and a write of 100% that
\* leaves it leaves tables that say 100%.
LEMMA BoostLeft ==
  ASSUME NEW op \in Ops, NEW e \in Registers, e.boost,
         NEW f \in FailureOutcomes(op, e) \cup {Effect(op, e)}, ~f.boost
  PROVE  op \in LeavingBoost /\ (op = "apply_full" => f.duty = "full")
<1>1. Effect(op, e).boost = IF op \in FanOps THEN op = "boost_on" ELSE e.boost
  BY Zenon DEF Effect
<1>2. f = e \/ f = Effect(op, e)
  BY DEF FailureOutcomes
<1>3. f = Effect(op, e)
  BY <1>2
<1>4. op \in FanOps /\ op # "boost_on"
  BY <1>1, <1>3
<1>5. op = "apply_full" => Effect(op, e).duty = "full"
  BY DEF Effect
<1>6. QED
  BY <1>3, <1>4, <1>5 DEF FanOps, LeavingBoost

\* Fans at full speed are slowed by lower duties or by turning Boost off.
LEMMA SpeedLowered ==
  ASSUME NEW op \in Ops, NEW e \in Registers, FullSpeed(e),
         NEW f \in FailureOutcomes(op, e) \cup {Effect(op, e)}, ~FullSpeed(f)
  PROVE  Lowers(op)
<1>1. f = Effect(op, e)
  BY DEF FailureOutcomes
<1>2. QED
  BY <1>1 DEF Effect, FullSpeed, Lowers, Ops, FanOps, Registers, Duties

\* The handler whose call ends in an emergency lowers the fans for the loop or
\* for the watchdog, and leaves Boost for those or for a write of 100%.
LEMMA CallInEmergency ==
  ASSUME IInv, sensorEmergency, held.stage = "run", held.op \in LeavingBoost
  PROVE  \/ held.who \in {"auto", "restore"}
         \/ held.who \in {"exit", "stop"} /\ held.op = "apply_full"
<1>1. held.who \in Handlers
  BY DEF IInv, TypeOK, DataTypes, HeldStates, HeldShape
<1>2. held.who \notin {"manual", "fallback", "load", "boost"}
  BY DEF IInv, HeldShape, EmergencyShape, FallbackStages, LeavingBoost
<1>3. QED
  BY <1>1, <1>2 DEF Handlers, IInv, HeldShape

\* During an emergency fans at full speed are slowed only by an Automatic write,
\* by the watchdog's restore or by an operation that was abandoned; and its Boost
\* is left only by these, or by an exit or the stop, for tables that say 100%.
THEOREM EmergencyKept == Spec => EmergencyKeepsFull
<1> DEFINE Kept ==
      sensorEmergency =>
        /\ FullSpeed(ec) /\ ~FullSpeed(ec') => MayLower
        /\ ec.boost /\ ~ec'.boost =>
             MayLower \/ (held.who \in {"exit", "stop"} /\ ec'.duty = "full")
<1>1. IInv /\ [Next]_vars => [Kept]_vars
  <2> SUFFICES ASSUME IInv, [Next]_vars, sensorEmergency
               PROVE  Kept
    OBVIOUS
  <2> ec \in Registers /\ held.op \in Ops
    BY DEF IInv, TypeOK, DataTypes, HeldStates
  <2>1. CASE CallSucceeds \/ CallFails
    <3>1. held.stage = "run"
          /\ ec' \in FailureOutcomes(held.op, ec) \cup {Effect(held.op, ec)}
      BY <2>1 DEF CallSucceeds, CallFails
    <3>2. FullSpeed(ec) /\ ~FullSpeed(ec') => MayLower
      BY <3>1, SpeedLowered, CallInEmergency DEF Lowers, LeavingBoost, MayLower
    <3>3. ec.boost /\ ~ec'.boost =>
            MayLower \/ (held.who \in {"exit", "stop"} /\ ec'.duty = "full")
      BY <3>1, BoostLeft, CallInEmergency DEF MayLower
    <3>4. QED
      BY <3>2, <3>3
  <2>2. CASE LateReturns
    BY <2>2 DEF LateReturns, MayLower
  <2>3. CASE FallbackSucceeds \/ FallbackFails \/ LateBoosts \/ LateBoostFails
    <3>1. "boost_on" \in Ops
          /\ ec' \in FailureOutcomes("boost_on", ec) \cup {Effect("boost_on", ec)}
      BY <2>3 DEF FallbackSucceeds, FallbackFails, LateBoosts, LateBoostFails,
         Ops, FanOps
    <3>2. ~Lowers("boost_on") /\ "boost_on" \notin LeavingBoost
      BY DEF Lowers, LeavingBoost
    <3>3. QED
      BY <3>1, <3>2, SpeedLowered, BoostLeft
  <2>4. CASE UNCHANGED ec
    BY <2>4
  <2>5. QED
    BY <2>1, <2>2, <2>3, <2>4, EcChanges
<1>2. QED
  BY <1>1, Inductive, PTL DEF Spec, EmergencyKeepsFull

-----------------------------------------------------------------------------
(* The Automatic curve, for all temperatures and end points.                *)

Temperature == Int

\* The rounded duty of a rise over a positive span is a whole number.
LEMMA RoundedIsInteger ==
    ASSUME NEW rise \in Int, NEW span \in Int, span > 0
    PROVE  RoundedDuty(rise, span) \in Int
BY DEF RoundedDuty

\* Whatever the end points, even equal, swapped or above the limit, the duty is
\* between 30% and 100% (fan_control_common.py:52-53, safety.md "It never
\* requests less than 30%").
THEOREM DutyInRange ==
    ASSUME NEW t \in Temperature, NEW lo \in Int, NEW hi \in Int
    PROVE  auto_target(t, lo, hi) \in MIN_AUTO_DUTY .. MAX_AUTO_DUTY
<1> DEFINE top == EffectiveMaximum(hi)
<1>1. top \in Int
  BY DEF EffectiveMaximum, Least, MAX_SAFE_AUTO_TEMP
<1>2. CASE top \leq lo \/ t \leq lo \/ t \geq top
  BY <1>1, <1>2 DEF auto_target, MIN_AUTO_DUTY, MAX_AUTO_DUTY
<1>3. CASE ~(top \leq lo \/ t \leq lo \/ t \geq top)
  <2>1. RoundedDuty(t - lo, top - lo) \in Int
    BY <1>1, <1>3, RoundedIsInteger DEF Temperature
  <2> QED
    BY <1>1, <1>3, <2>1
       DEF auto_target, Greatest, Least, MIN_AUTO_DUTY, MAX_AUTO_DUTY, Temperature
<1> QED
  BY <1>2, <1>3

\* At 80 C and above the duty is 100% whatever end points were configured
\* (fan_control_common.py:43, safety.md "it requests 100% at 80 C and above").
THEOREM FullAtTheLimit ==
    ASSUME NEW t \in Temperature, NEW lo \in Int, NEW hi \in Int,
           t \geq MAX_SAFE_AUTO_TEMP
    PROVE  auto_target(t, lo, hi) = MAX_AUTO_DUTY
BY DEF auto_target, EffectiveMaximum, Least, MAX_SAFE_AUTO_TEMP, MIN_AUTO_DUTY,
       MAX_AUTO_DUTY, Temperature

\* Division by a positive number keeps the order.
LEMMA DivisionKeepsOrder ==
    ASSUME NEW a \in Int, NEW b \in Int, NEW n \in Int, n > 0, a \leq b
    PROVE  a \div n \leq b \div n
<1> DEFINE p == a \div n
           q == b \div n
<1>1. p \in Int /\ q \in Int
  OBVIOUS
<1>2. n * p \leq a /\ b < n * q + n
  OBVIOUS
<1>3. ASSUME q + 1 \leq p PROVE FALSE
  <2>1. n * (q + 1) \leq n * p
    BY <1>1, <1>3
  <2>2. n * (q + 1) = n * q + n
    BY <1>1
  <2> QED
    BY <1>1, <1>2, <2>1, <2>2
<1> QED
  BY <1>1, <1>3

\* A hotter reading never asks for less, between any two end points
\* (fan_control_common.py:43-53).
THEOREM HotterIsNotSlower ==
    ASSUME NEW t \in Temperature, NEW u \in Temperature, t \leq u,
           NEW lo \in Int, NEW hi \in Int
    PROVE  auto_target(t, lo, hi) \leq auto_target(u, lo, hi)
<1> DEFINE top == EffectiveMaximum(hi)
           span == top - lo
<1>1. top \in Int /\ t \in Int /\ u \in Int
  BY DEF EffectiveMaximum, Least, MAX_SAFE_AUTO_TEMP, Temperature
<1>2. CASE top \leq lo
  BY <1>1, <1>2 DEF auto_target, MIN_AUTO_DUTY, MAX_AUTO_DUTY
<1>3. CASE top > lo /\ (t \leq lo \/ u \geq top)
  <2>1. auto_target(t, lo, hi) \in MIN_AUTO_DUTY .. MAX_AUTO_DUTY
    BY DutyInRange
  <2>2. auto_target(u, lo, hi) \in MIN_AUTO_DUTY .. MAX_AUTO_DUTY
    BY DutyInRange
  <2>3. CASE t \leq lo
    <3>1. auto_target(t, lo, hi) = MIN_AUTO_DUTY
      BY <1>1, <1>3, <2>3 DEF auto_target
    <3> QED
      BY <2>2, <3>1 DEF MIN_AUTO_DUTY, MAX_AUTO_DUTY
  <2>4. CASE u \geq top
    <3>1. auto_target(u, lo, hi) = MAX_AUTO_DUTY
      BY <1>1, <1>3, <2>4 DEF auto_target
    <3> QED
      BY <2>1, <3>1 DEF MIN_AUTO_DUTY, MAX_AUTO_DUTY
  <2> QED
    BY <1>3, <2>3, <2>4
<1>4. CASE top > lo /\ t > lo /\ u < top
  <2>1. span \in Int /\ span > 0
    BY <1>1, <1>4
  <2>2. 10 * span \in Int /\ 10 * span > 0
    BY <2>1
  <2>3. /\ 65 * span + 140 * (t - lo) \in Int
        /\ 65 * span + 140 * (u - lo) \in Int
        /\ 65 * span + 140 * (t - lo) \leq 65 * span + 140 * (u - lo)
    BY <1>1, <2>1
  <2>4. (65 * span + 140 * (t - lo)) \div (10 * span)
          \leq (65 * span + 140 * (u - lo)) \div (10 * span)
    BY <2>2, <2>3, DivisionKeepsOrder
  <2>5. RoundedDuty(t - lo, span) \in Int /\ RoundedDuty(u - lo, span) \in Int
    BY <1>1, <2>1, RoundedIsInteger
  <2>6. RoundedDuty(t - lo, span) \leq RoundedDuty(u - lo, span)
    BY <1>1, <2>1, <2>2, <2>3, <2>4 DEF RoundedDuty
  <2>7. /\ auto_target(t, lo, hi) =
             Greatest(MIN_AUTO_DUTY, Least(MAX_AUTO_DUTY, RoundedDuty(t - lo, span)))
        /\ auto_target(u, lo, hi) =
             Greatest(MIN_AUTO_DUTY, Least(MAX_AUTO_DUTY, RoundedDuty(u - lo, span)))
    BY <1>1, <1>4 DEF auto_target
  <2> QED
    BY <2>5, <2>6, <2>7 DEF Greatest, Least, MIN_AUTO_DUTY, MAX_AUTO_DUTY
<1> QED
  BY <1>1, <1>2, <1>3, <1>4
=============================================================================
