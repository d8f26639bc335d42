CONSTANTS
    c1 = c1
    c2 = c2
    c3 = c3
    Calls = {c1, c2, c3}
    None = None
SPECIFICATION FairLaneSpec
INVARIANTS
    TypeOK
    ExclusiveDriver
    SlotNotLeaked
    NoLostWakeup
    RepairBeforeRelease
    AnswerMatchesWork
PROPERTIES
    ImplementsLane
    EveryCallAnswered
    SlotComesBack
