---------------------------- MODULE ExclusiveLane ----------------------------
(***************************************************************************)
(* What a lane of bounded operations promises, without threads, locks or   *)
(* condition variables: native work is exclusive, a call whose wait ended  *)
(* before its work began never works, and work its caller gave up on keeps *)
(* the lane until the safety action that follows it has been run.          *)
(***************************************************************************)
CONSTANTS
    Calls,   \* the calls made on the lane
    None     \* not a call

VARIABLES
    owner,   \* the call whose native work owns the lane, or None
    state    \* state[c]: how far call c is

laneVars == <<owner, state>>

States == {"waiting", "refused", "working", "answered",
           "overdue", "repaired", "released"}

LaneInit ==
    /\ owner = None
    /\ state = [c \in Calls |-> "waiting"]

\* The call is turned away; its operation is never started.
Refuse(c) ==
    /\ state[c] = "waiting"
    /\ state' = [state EXCEPT ![c] = "refused"]
    /\ UNCHANGED owner

Begin(c) ==
    /\ state[c] = "waiting"
    /\ owner = None
    /\ owner' = c
    /\ state' = [state EXCEPT ![c] = "working"]

\* Work whose caller still waits ends: the lane is free, the result delivered.
Finish(c) ==
    /\ state[c] = "working"
    /\ owner' = None
    /\ state' = [state EXCEPT ![c] = "answered"]

\* The caller gives up, the native work goes on and keeps the lane.
Abandon(c) ==
    /\ state[c] = "working"
    /\ state' = [state EXCEPT ![c] = "overdue"]
    /\ UNCHANGED owner

\* The overdue work has returned and the safety action after it has been run.
Repair(c) ==
    /\ state[c] = "overdue"
    /\ state' = [state EXCEPT ![c] = "repaired"]
    /\ UNCHANGED owner

Release(c) ==
    /\ state[c] = "repaired"
    /\ owner' = None
    /\ state' = [state EXCEPT ![c] = "released"]

LaneNext ==
    \E c \in Calls :
        \/ Refuse(c) \/ Begin(c) \/ Finish(c)
        \/ Abandon(c) \/ Repair(c) \/ Release(c)

LaneSpec == LaneInit /\ [][LaneNext]_laneVars
=============================================================================
