----------------------- MODULE BoundedOperation_proofs -----------------------
(***************************************************************************)
(* The safety properties of BoundedOperation for every set of calls, and   *)
(* that the lane implements ExclusiveLane.                                 *)
(***************************************************************************)
EXTENDS BoundedOperation, TLAPS

(* The inductive strengthening, one call at a time.                        *)

\* A call that is not past its start has no worker.
NotStarted(c) ==
    pc[c] \in Entry \cup {"starting", "busy", "failed"} => worker[c] = "none"

\* A call past its start has one.
WasStarted(c) ==
    pc[c] \in {"awaiting", "publishing", "timeout", "ok", "error"} =>
        worker[c] # "none"

\* Who owns the slot.
Owns(c) ==
    /\ pc[c] = "starting" \/ worker[c] \in Started => active = c
    /\ active = c => pc[c] = "starting" \/ worker[c] \in Started

\* The timeout block holds the lock while the worker cannot settle.
InTimeoutBlock(c) ==
    /\ pc[c] = "publishing" <=> lock = c
    /\ pc[c] = "publishing" => worker[c] \in {"running", "returned"}

\* Only the timeout block abandons, and it published the fault first.
TimedOut(c) ==
    /\ abandoned[c] <=> pc[c] = "timeout"
    /\ worker[c] \in {"late", "closing"} => abandoned[c]
    /\ kind[c] = "ec" /\ pc[c] \in {"publishing", "timeout"} => published[c]
    /\ kind[c] = "ec" /\ abandoned[c] /\ worker[c] \in {"closing", "gone"} => repaired[c]

\* An operation that returned has a result, and a caller only that result.
HasResult(c) ==
    /\ worker[c] \in {"returned", "late", "closing", "gone"} => result[c] \in Results
    /\ pc[c] \in Results => worker[c] = "gone" /\ pc[c] = result[c]

\* A sleeper waits behind an operation that is still awaited.
Sleeps(c) == pc[c] = "asleep" => active # None /\ ~abandoned[active]

CallInv(c) ==
    /\ NotStarted(c)
    /\ WasStarted(c)
    /\ Owns(c)
    /\ InTimeoutBlock(c)
    /\ TimedOut(c)
    /\ HasResult(c)
    /\ Sleeps(c)

IInv == TypeOK /\ \A c \in Calls : CallInv(c)

-----------------------------------------------------------------------------
\* The strengthening holds in every reachable state: each step of the calling
\* thread (lines 41-56, 83-97) and of the worker (lines 58-77) preserves it.
THEOREM Inductive == Spec => []IInv
<1> USE NoneAssumption DEF Entry, Answers, Started, Results, Kinds
<1> USE DEF CallInv, NotStarted, WasStarted, Owns, InTimeoutBlock, TimedOut,
            HasResult, Sleeps
<1>1. Init => IInv
  BY DEF Init, IInv, TypeOK
<1>2. IInv /\ [Next]_vars => IInv'
  <2> SUFFICES ASSUME IInv, [Next]_vars PROVE IInv'
    OBVIOUS
  <2> USE DEF IInv, TypeOK
  <2>1. ASSUME NEW c \in Calls, Call(c) PROVE IInv'
    BY <2>1 DEF Call
  <2>2. ASSUME NEW c \in Calls, Expire(c) PROVE IInv'
    BY <2>2 DEF Expire
  <2>3. ASSUME NEW c \in Calls, Refuse(c) PROVE IInv'
    BY <2>3 DEF Refuse, MustGiveUp
  <2>4. ASSUME NEW c \in Calls, Sleep(c) PROVE IInv'
    BY <2>4 DEF Sleep, MustGiveUp
  <2>5. ASSUME NEW c \in Calls, WakeExpired(c) PROVE IInv'
    BY <2>5 DEF WakeExpired
  <2>6. ASSUME NEW c \in Calls, Acquire(c) PROVE IInv'
    BY <2>6 DEF Acquire, MustGiveUp
  <2>7. ASSUME NEW c \in Calls, StartWorker(c) PROVE IInv'
    BY <2>7 DEF StartWorker
  <2>8. ASSUME NEW c \in Calls, StartFails(c) PROVE IInv'
    BY <2>8 DEF StartFails, NotifyAll
  <2>9. ASSUME NEW c \in Calls, Collect(c) PROVE IInv'
    BY <2>9 DEF Collect, Done
  <2>10. ASSUME NEW c \in Calls, Publish(c) PROVE IInv'
    BY <2>10 DEF Publish, Done, HasCallbacks
  <2>11. ASSUME NEW c \in Calls, Abandon(c) PROVE IInv'
    BY <2>11 DEF Abandon, NotifyAll
  <2>12. ASSUME NEW c \in Calls, OperationReturns(c) PROVE IInv'
    BY <2>12 DEF OperationReturns
  <2>13. ASSUME NEW c \in Calls, Settle(c) PROVE IInv'
    BY <2>13 DEF Settle, NotifyAll
  <2>14. ASSUME NEW c \in Calls, SettleLate(c) PROVE IInv'
    BY <2>14 DEF SettleLate
  <2>15. ASSUME NEW c \in Calls, AfterTimeout(c) PROVE IInv'
    BY <2>15 DEF AfterTimeout, HasCallbacks
  <2>16. ASSUME NEW c \in Calls, ReleaseLate(c) PROVE IInv'
    BY <2>16 DEF ReleaseLate, NotifyAll
  <2>17. CASE UNCHANGED vars
    BY <2>17 DEF vars
  <2>18. QED
    BY <2>1, <2>2, <2>3, <2>4, <2>5, <2>6, <2>7, <2>8, <2>9, <2>10, <2>11,
       <2>12, <2>13, <2>14, <2>15, <2>16, <2>17
       DEF Next, CallerStep, WorkerStep, DriverStep, Terminated
<1>3. QED
  BY <1>1, <1>2, PTL DEF Spec

\* Every variable keeps its type, for every set of calls.
THEOREM TypeCorrect == Spec => []TypeOK
<1>1. IInv => TypeOK
  BY DEF IInv
<1>2. QED
  BY <1>1, Inductive, PTL

\* One native call in flight (lines 17-20), for every set of calls.
THEOREM Exclusive == Spec => []ExclusiveDriver
<1>1. IInv => ExclusiveDriver
  BY DEF IInv, CallInv, Owns, ExclusiveDriver
<1>2. QED
  BY <1>1, Inductive, PTL

\* The slot always has an owner that will give it back, also after a thread
\* that could not be started (lines 78-82).
THEOREM NoLeak == Spec => []SlotNotLeaked
<1>1. IInv => SlotNotLeaked
  BY DEF IInv, CallInv, Owns, SlotNotLeaked
<1>2. QED
  BY <1>1, Inductive, PTL

\* Every notify_all that a sleeper needs is there (lines 64, 73, 81, 90).
THEOREM WakeupKept == Spec => []NoLostWakeup
<1>1. IInv => NoLostWakeup
  BY DEF IInv, CallInv, Sleeps, NoLostWakeup
<1>2. QED
  BY <1>1, Inductive, PTL

\* A timed-out EC call publishes its fault, then repairs, then releases
\* (lines 67-74, 84-94).
THEOREM Repaired == Spec => []RepairBeforeRelease
<1>1. IInv => RepairBeforeRelease
  BY DEF IInv, CallInv, TimedOut, RepairBeforeRelease
<1>2. QED
  BY <1>1, Inductive, PTL

\* The answer of call() is true of the operation: refused means never run,
\* a result means settled in time (lines 83-97).
THEOREM AnswerTrue == Spec => []AnswerMatchesWork
<1>1. IInv => AnswerMatchesWork
  BY DEF IInv, CallInv, NotStarted, TimedOut, HasResult, AnswerMatchesWork,
         Results, Entry
<1>2. QED
  BY <1>1, Inductive, PTL

-----------------------------------------------------------------------------
\* The lane of threads implements the exclusive lane: a step is one step of
\* ExclusiveLane or leaves the slot and every call's stage as they are.
THEOREM Implements == Spec => ImplementsLane
<1> USE NoneAssumption DEF Entry, Answers, Started, Results, Kinds, LaneState
<1> USE DEF CallInv, NotStarted, WasStarted, Owns, InTimeoutBlock, TimedOut,
            HasResult
<1>1. Init => Lane!LaneInit
  BY DEF Init, Lane!LaneInit
<1>2. IInv /\ [Next]_vars => [Lane!LaneNext]_(Lane!laneVars)
  <2> SUFFICES ASSUME IInv, [Next]_vars
               PROVE [Lane!LaneNext]_(Lane!laneVars)
    OBVIOUS
  <2> USE DEF IInv, TypeOK, Lane!LaneNext, Lane!laneVars
  <2>1. ASSUME NEW c \in Calls, Refuse(c) PROVE Lane!Refuse(c)
    BY <2>1 DEF Refuse, Lane!Refuse
  <2>2. ASSUME NEW c \in Calls, Acquire(c) PROVE Lane!Begin(c)
    BY <2>2 DEF Acquire, Lane!Begin
  <2>3. ASSUME NEW c \in Calls, StartFails(c) PROVE Lane!Finish(c)
    <3>1. LaneState[c] = "working" /\ LaneState'[c] = "answered"
      BY <2>3 DEF StartFails, NotifyAll
    <3>2. \A d \in Calls \ {c} : LaneState'[d] = LaneState[d]
      BY <2>3 DEF StartFails, NotifyAll
    <3>3. /\ LaneState = [d \in Calls |-> LaneState[d]]
          /\ LaneState' = [d \in Calls |-> LaneState'[d]]
      OBVIOUS
    <3> HIDE DEF LaneState, IInv
    <3>4. LaneState' = [LaneState EXCEPT ![c] = "answered"]
      BY <3>1, <3>2, <3>3
    <3> QED  BY <2>3, <3>1, <3>4 DEF StartFails, Lane!Finish
  <2>4. ASSUME NEW c \in Calls, Settle(c) PROVE Lane!Finish(c)
    BY <2>4 DEF Settle, NotifyAll, Lane!Finish
  <2>5. ASSUME NEW c \in Calls, Abandon(c) PROVE Lane!Abandon(c)
    <3>1. LaneState[c] = "working" /\ LaneState'[c] = "overdue"
      BY <2>5 DEF Abandon, NotifyAll
    <3>2. \A d \in Calls \ {c} : LaneState'[d] = LaneState[d]
      BY <2>5 DEF Abandon, NotifyAll
    <3>3. /\ LaneState = [d \in Calls |-> LaneState[d]]
          /\ LaneState' = [d \in Calls |-> LaneState'[d]]
      OBVIOUS
    <3> HIDE DEF LaneState, IInv
    <3>4. LaneState' = [LaneState EXCEPT ![c] = "overdue"]
      BY <3>1, <3>2, <3>3
    <3> QED  BY <2>5, <3>1, <3>4 DEF Abandon, Lane!Abandon
  <2>6. ASSUME NEW c \in Calls, AfterTimeout(c) PROVE Lane!Repair(c)
    BY <2>6 DEF AfterTimeout, Lane!Repair
  <2>7. ASSUME NEW c \in Calls, ReleaseLate(c) PROVE Lane!Release(c)
    BY <2>7 DEF ReleaseLate, NotifyAll, Lane!Release
  <2>8. ASSUME NEW c \in Calls, Call(c) \/ Expire(c)
        PROVE UNCHANGED Lane!laneVars
    BY <2>8 DEF Call, Expire
  <2>9. ASSUME NEW c \in Calls, Sleep(c) \/ WakeExpired(c)
        PROVE UNCHANGED Lane!laneVars
    BY <2>9 DEF Sleep, WakeExpired
  <2>10. ASSUME NEW c \in Calls, StartWorker(c) PROVE UNCHANGED Lane!laneVars
    BY <2>10 DEF StartWorker
  <2>11. ASSUME NEW c \in Calls, Collect(c) PROVE UNCHANGED Lane!laneVars
    BY <2>11 DEF Collect, Done
  <2>12. ASSUME NEW c \in Calls, Publish(c) PROVE UNCHANGED Lane!laneVars
    BY <2>12 DEF Publish
  <2>13. ASSUME NEW c \in Calls, OperationReturns(c) \/ SettleLate(c)
         PROVE UNCHANGED Lane!laneVars
    BY <2>13 DEF OperationReturns, SettleLate
  <2>14. CASE UNCHANGED vars
    BY <2>14 DEF vars
  <2>15. QED
    BY <2>1, <2>2, <2>3, <2>4, <2>5, <2>6, <2>7, <2>8, <2>9, <2>10, <2>11,
       <2>12, <2>13, <2>14
       DEF Next, CallerStep, WorkerStep, DriverStep, Terminated
<1>3. QED
  BY <1>1, <1>2, Inductive, PTL DEF Spec, ImplementsLane, Lane!LaneSpec
=============================================================================
