------------------------- MODULE MCBoundedOperation --------------------------
(* Three concurrent calls on one lane: one that owns the slot, one that    *)
(* sleeps behind it and one that arrives, in every kind of call.           *)
EXTENDS BoundedOperation, Naturals

CONSTANTS c1, c2, c3

\* Calls differ in nothing but their kind, so each multiset of kinds is tried
\* in one order only.  (TLC's own symmetry is not sound for liveness.)
Rank == [query |-> 0, sensor |-> 1, ec |-> 2]

KindsInOrder ==
    /\ Rank[kind[c1]] \leq Rank[kind[c2]]
    /\ Rank[kind[c2]] \leq Rank[kind[c3]]

OrderedInit == Init /\ KindsInOrder

LaneSpec == OrderedInit /\ [][Next]_vars

FairLaneSpec == LaneSpec /\ Fairness
=============================================================================
