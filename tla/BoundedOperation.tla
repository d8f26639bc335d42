-------------------------- MODULE BoundedOperation ---------------------------
(***************************************************************************)
(* shared/bounded_operation.py: one lane of native driver calls.  A caller *)
(* waits at most until its deadline; the native call cannot be cancelled,  *)
(* so a deadline releases the caller and not the driver, and the slot      *)
(* stays owned until the operation, and after a timeout the safety action, *)
(* have returned.                                                          *)
(*                                                                         *)
(* A call is one execution of BoundedOperation.call: the thread that makes *)
(* it and, once the slot is taken, the worker thread that runs it.  Every  *)
(* block under _lock is one step, except the timeout block (lines 84-94),  *)
(* whose two effects are told apart by the properties.                     *)
(***************************************************************************)
EXTENDS FiniteSets

CONSTANTS
    Calls,   \* the calls made on the lane
    None     \* "no call"

ASSUME NoneAssumption == None \notin Calls

VARIABLES
    kind,      \* kind[c]: the arguments the code passes with the call
    lock,      \* the call inside the timeout block of _lock, or None
    active,    \* _active: the call that owns the slot, or None
    pc,        \* pc[c]: where the calling thread is, or what call() gave it
    expired,   \* expired[c]: the deadline of c has passed
    worker,    \* worker[c]: where the worker thread of c is
    result,    \* result[c]: how the operation ended
    abandoned, \* item["abandoned"]
    published, \* published[c]: on_timeout was run for c
    repaired   \* repaired[c]: after_timeout was run for c

vars == <<kind, lock, active, pc, expired, worker, result,
          abandoned, published, repaired>>

-----------------------------------------------------------------------------
(* The three ways the code uses a lane.                                    *)

\* "ec":     _call_service of the controller: waits for the slot and gives
\*           both on_timeout and after_timeout
\* "sensor": a temperature read: waits for the slot, gives no callbacks
\* "query":  the NVIDIA power query and the close at stop: never waits
Kinds == {"ec", "sensor", "query"}

WaitsForSlot(c) == kind[c] # "query"
HasCallbacks(c) == kind[c] = "ec"

Entry    == {"idle", "entering", "asleep"}
Answers  == {"busy", "failed", "timeout", "ok", "error"}
Started  == {"running", "returned", "late", "closing"}
Results  == {"ok", "error"}

Done(c) == worker[c] = "gone"

\* notify_all on the condition: every sleeper re-enters the loop.
NotifyAll(p) == [c \in Calls |-> IF p[c] = "asleep" THEN "entering" ELSE p[c]]

Init ==
    /\ kind \in [Calls -> Kinds]
    /\ lock = None
    /\ active = None
    /\ pc = [c \in Calls |-> "idle"]
    /\ expired = [c \in Calls |-> FALSE]
    /\ worker = [c \in Calls |-> "none"]
    /\ result = [c \in Calls |-> "none"]
    /\ abandoned = [c \in Calls |-> FALSE]
    /\ published = [c \in Calls |-> FALSE]
    /\ repaired = [c \in Calls |-> FALSE]

-----------------------------------------------------------------------------
(* Faulty variants of the actions below: each is the action with one slip,  *)
(* and breaks a property stated further down.  No specification uses them.  *)

\* A waiter looks neither at an abandoned owner nor at the clock.
GiveUpOnlyIfNotWaiting(c) ==
    IF active = None THEN expired[c] ELSE ~WaitsForSlot(c)

\* The slot is kept when the thread cannot be started.
StartFailsKeepingSlot(c) ==
    /\ pc[c] = "starting"
    /\ lock = None
    /\ pc' = NotifyAll([pc EXCEPT ![c] = "failed"])
    /\ UNCHANGED <<kind, lock, active, expired, worker, result,
                   abandoned, published, repaired>>

\* The outcome of done.wait is not tested.
CollectUntested(c) ==
    /\ pc[c] = "awaiting"
    /\ Done(c) \/ expired[c]
    /\ pc' = [pc EXCEPT ![c] = result[c]]
    /\ UNCHANGED <<kind, lock, active, expired, worker, result,
                   abandoned, published, repaired>>

\* The result is read as soon as it is there, before the slot is released.
CollectEarly(c) ==
    /\ pc[c] = "awaiting"
    /\ worker[c] \in {"returned", "gone"}
    /\ pc' = [pc EXCEPT ![c] = result[c]]
    /\ UNCHANGED <<kind, lock, active, expired, worker, result,
                   abandoned, published, repaired>>

\* done is not looked at again under the lock.
PublishUnchecked(c) ==
    /\ pc[c] = "awaiting"
    /\ lock = None
    /\ expired[c]
    /\ lock' = c
    /\ pc' = [pc EXCEPT ![c] = "publishing"]
    /\ published' = [published EXCEPT ![c] = HasCallbacks(c)]
    /\ UNCHANGED <<kind, active, expired, worker, result, abandoned, repaired>>

\* A deadline frees the slot as well as the caller.
AbandonAndRelease(c) ==
    /\ pc[c] = "publishing"
    /\ lock = c
    /\ lock' = None
    /\ active' = None
    /\ abandoned' = [abandoned EXCEPT ![c] = TRUE]
    /\ pc' = NotifyAll([pc EXCEPT ![c] = "timeout"])
    /\ UNCHANGED <<kind, expired, worker, result, published, repaired>>

\* The waiters are not told that the operation was abandoned.
AbandonSilently(c) ==
    /\ pc[c] = "publishing"
    /\ lock = c
    /\ lock' = None
    /\ abandoned' = [abandoned EXCEPT ![c] = TRUE]
    /\ pc' = [pc EXCEPT ![c] = "timeout"]
    /\ UNCHANGED <<kind, active, expired, worker, result, published, repaired>>

\* A late operation is settled like one in time.
SettleWithoutRepair(c) ==
    /\ worker[c] = "returned"
    /\ lock = None
    /\ abandoned[c]
    /\ active' = None
    /\ worker' = [worker EXCEPT ![c] = "gone"]
    /\ pc' = NotifyAll(pc)
    /\ UNCHANGED <<kind, lock, expired, result, abandoned, published, repaired>>

\* An error of the safety action skips the release.
ReleaseLateSkipped(c) ==
    /\ worker[c] = "closing"
    /\ lock = None
    /\ worker' = [worker EXCEPT ![c] = "gone"]
    /\ UNCHANGED <<kind, lock, active, pc, expired, result, abandoned,
                   published, repaired>>

-----------------------------------------------------------------------------
(* The calling thread.                                                     *)

Call(c) ==
    /\ pc[c] = "idle"
    /\ pc' = [pc EXCEPT ![c] = "entering"]
    /\ UNCHANGED <<kind, lock, active, expired, worker, result,
                   abandoned, published, repaired>>

\* The clock passes the deadline of a call that is still in call().
Expire(c) ==
    /\ pc[c] \notin Answers \cup {"idle"}
    /\ ~expired[c]
    /\ expired' = [expired EXCEPT ![c] = TRUE]
    /\ UNCHANGED <<kind, lock, active, pc, worker, result,
                   abandoned, published, repaired>>

\* The tests of the loop and of the last look at the clock.
MustGiveUp(c) ==
    IF active = None
    THEN expired[c]
    ELSE ~WaitsForSlot(c) \/ abandoned[active] \/ expired[c]

Refuse(c) ==
    /\ pc[c] = "entering"
    /\ lock = None
    /\ MustGiveUp(c)
    /\ pc' = [pc EXCEPT ![c] = "busy"]
    /\ UNCHANGED <<kind, lock, active, expired, worker, result,
                   abandoned, published, repaired>>

Sleep(c) ==
    /\ pc[c] = "entering"
    /\ lock = None
    /\ active # None
    /\ ~MustGiveUp(c)
    /\ pc' = [pc EXCEPT ![c] = "asleep"]
    /\ UNCHANGED <<kind, lock, active, expired, worker, result,
                   abandoned, published, repaired>>

\* The condition's wait(remaining) runs out.
WakeExpired(c) ==
    /\ pc[c] = "asleep"
    /\ expired[c]
    /\ pc' = [pc EXCEPT ![c] = "entering"]
    /\ UNCHANGED <<kind, lock, active, expired, worker, result,
                   abandoned, published, repaired>>

Acquire(c) ==
    /\ pc[c] = "entering"
    /\ lock = None
    /\ active = None
    /\ ~MustGiveUp(c)
    /\ active' = c
    /\ pc' = [pc EXCEPT ![c] = "starting"]
    /\ UNCHANGED <<kind, lock, expired, worker, result,
                   abandoned, published, repaired>>

StartWorker(c) ==
    /\ pc[c] = "starting"
    /\ pc' = [pc EXCEPT ![c] = "awaiting"]
    /\ worker' = [worker EXCEPT ![c] = "running"]
    /\ UNCHANGED <<kind, lock, active, expired, result,
                   abandoned, published, repaired>>

\* Thread.start raised: the slot is given back before the error is.
StartFails(c) ==
    /\ pc[c] = "starting"
    /\ lock = None
    /\ active' = None
    /\ pc' = NotifyAll([pc EXCEPT ![c] = "failed"])
    /\ UNCHANGED <<kind, lock, expired, worker, result,
                   abandoned, published, repaired>>

\* The result is taken whenever done is set, even just after the deadline.
Collect(c) ==
    /\ pc[c] = "awaiting"
    /\ Done(c)
    /\ pc' = [pc EXCEPT ![c] = result[c]]
    /\ UNCHANGED <<kind, lock, active, expired, worker, result,
                   abandoned, published, repaired>>

\* Deadline missed: under _lock, publish the fault ...
Publish(c) ==
    /\ pc[c] = "awaiting"
    /\ lock = None
    /\ expired[c]
    /\ ~Done(c)
    /\ lock' = c
    /\ pc' = [pc EXCEPT ![c] = "publishing"]
    /\ published' = [published EXCEPT ![c] = HasCallbacks(c)]
    /\ UNCHANGED <<kind, active, expired, worker, result, abandoned, repaired>>

\* ... and only then abandon the operation and raise OperationTimeout.
Abandon(c) ==
    /\ pc[c] = "publishing"
    /\ lock = c
    /\ lock' = None
    /\ abandoned' = [abandoned EXCEPT ![c] = TRUE]
    /\ pc' = NotifyAll([pc EXCEPT ![c] = "timeout"])
    /\ UNCHANGED <<kind, active, expired, worker, result, published, repaired>>

-----------------------------------------------------------------------------
(* The worker thread.                                                      *)

OperationReturns(c) ==
    /\ worker[c] = "running"
    /\ worker' = [worker EXCEPT ![c] = "returned"]
    /\ \E r \in Results : result' = [result EXCEPT ![c] = r]
    /\ UNCHANGED <<kind, lock, active, pc, expired,
                   abandoned, published, repaired>>

\* Still awaited: slot, notification and done in one block under _lock.
Settle(c) ==
    /\ worker[c] = "returned"
    /\ lock = None
    /\ ~abandoned[c]
    /\ active' = None
    /\ worker' = [worker EXCEPT ![c] = "gone"]
    /\ pc' = NotifyAll(pc)
    /\ UNCHANGED <<kind, lock, expired, result, abandoned, published, repaired>>

SettleLate(c) ==
    /\ worker[c] = "returned"
    /\ lock = None
    /\ abandoned[c]
    /\ worker' = [worker EXCEPT ![c] = "late"]
    /\ UNCHANGED <<kind, lock, active, pc, expired, result,
                   abandoned, published, repaired>>

\* after_timeout, a native call of its own; it may raise, the slot is
\* released in the finally block all the same.
AfterTimeout(c) ==
    /\ worker[c] = "late"
    /\ worker' = [worker EXCEPT ![c] = "closing"]
    /\ repaired' = [repaired EXCEPT ![c] = HasCallbacks(c)]
    /\ UNCHANGED <<kind, lock, active, pc, expired, result,
                   abandoned, published>>

ReleaseLate(c) ==
    /\ worker[c] = "closing"
    /\ lock = None
    /\ active' = None
    /\ worker' = [worker EXCEPT ![c] = "gone"]
    /\ pc' = NotifyAll(pc)
    /\ UNCHANGED <<kind, lock, expired, result, abandoned, published, repaired>>

-----------------------------------------------------------------------------
CallerStep(c) ==
    \/ Refuse(c) \/ Sleep(c) \/ WakeExpired(c) \/ Acquire(c) \/ StartWorker(c)
    \/ StartFails(c) \/ Collect(c) \/ Publish(c) \/ Abandon(c)

WorkerStep(c) == Settle(c) \/ SettleLate(c) \/ ReleaseLate(c)

DriverStep(c) == OperationReturns(c) \/ AfterTimeout(c)

\* Every call was answered and every worker has ended.
Terminated ==
    /\ \A c \in Calls : pc[c] \in Answers /\ worker[c] \notin Started
    /\ UNCHANGED vars

Next ==
    \/ \E c \in Calls :
        \/ Call(c) \/ Expire(c) \/ CallerStep(c) \/ WorkerStep(c) \/ DriverStep(c)
    \/ Terminated

Spec == Init /\ [][Next]_vars

\* The clock advances, threads that can run do run; whether a call is made
\* and whether the native driver ever returns is nobody's promise.
Fairness ==
    \A c \in Calls :
        /\ WF_vars(Expire(c))
        /\ WF_vars(CallerStep(c))
        /\ WF_vars(WorkerStep(c))

FairSpec == Spec /\ Fairness

\* The driver returns, late or not.
DriverReturns == \A c \in Calls : WF_vars(DriverStep(c))

-----------------------------------------------------------------------------
TypeOK ==
    /\ kind \in [Calls -> Kinds]
    /\ lock \in Calls \cup {None}
    /\ active \in Calls \cup {None}
    /\ pc \in [Calls -> Entry \cup {"starting", "awaiting", "publishing"} \cup Answers]
    /\ expired \in [Calls -> BOOLEAN]
    /\ worker \in [Calls -> {"none", "gone"} \cup Started]
    /\ result \in [Calls -> Results \cup {"none"}]
    /\ abandoned \in [Calls -> BOOLEAN]
    /\ published \in [Calls -> BOOLEAN]
    /\ repaired \in [Calls -> BOOLEAN]

\* No two calls ever have native work in flight, whatever deadlines pass: a
\* worker that was started and has not ended owns the slot (bounded_operation
\* .py:17-20, "One in-flight operation").
ExclusiveDriver ==
    \A c \in Calls : worker[c] \in Started => active = c

\* The slot is never left with an owner that will not give it back: it is
\* owned by a call about to start its worker or by a worker that has not ended.
SlotNotLeaked ==
    \A c \in Calls :
        active = c => pc[c] = "starting" \/ worker[c] \in Started

\* A caller sleeps only where a wake-up is still to come: the slot is owned
\* by an operation whose caller still waits for it.  A caller that slept on
\* behind an abandoned operation would miss its own fail-fast answer.
NoLostWakeup ==
    \A c \in Calls :
        pc[c] = "asleep" => active # None /\ ~abandoned[active]

\* The end of a timed-out EC call: its fault was published before the safety
\* action ran (line 86) and the slot is free only after the safety action.
RepairBeforeRelease ==
    \A c \in Calls :
        kind[c] = "ec" /\ abandoned[c] =>
            /\ published[c]
            /\ worker[c] \in {"closing", "gone"} => repaired[c]

\* What a caller is told matches what its operation did: a refused call never
\* reaches the driver, a timed-out one is abandoned and its late result
\* dropped, a result is given only for an operation that was settled in time.
AnswerMatchesWork ==
    \A c \in Calls :
        /\ pc[c] \in {"busy", "failed"} => worker[c] = "none"
        /\ pc[c] = "timeout" => abandoned[c]
        /\ pc[c] \in Results =>
             ~abandoned[c] /\ worker[c] = "gone" /\ pc[c] = result[c]

\* Every call that is made is answered even when the driver never returns.
EveryCallAnswered ==
    \A c \in Calls : pc[c] = "entering" ~> pc[c] \in Answers

\* A driver that returns, late or not, gives the slot back.
SlotComesBack ==
    DriverReturns => \A c \in Calls : active = c ~> active # c

-----------------------------------------------------------------------------
(* The lane this code implements.                                          *)

LaneState ==
    [c \in Calls |->
        IF pc[c] \in Entry THEN "waiting"
        ELSE IF pc[c] = "busy" THEN "refused"
        ELSE IF pc[c] = "failed" THEN "answered"
        ELSE IF ~abandoned[c]
             THEN IF worker[c] = "gone" THEN "answered" ELSE "working"
        ELSE IF worker[c] = "gone" THEN "released"
        ELSE IF worker[c] = "closing" THEN "repaired"
        ELSE "overdue"]

Lane == INSTANCE ExclusiveLane WITH owner <- active, state <- LaneState

\* The threads, the condition variable and the two deadlines implement the
\* exclusive lane.
ImplementsLane == Lane!LaneSpec
=============================================================================
