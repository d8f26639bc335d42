CONSTANTS
    MaxCallers = 2
    Rests = {r1, r2}
    NoState = NoState
    MaxLives = 2
    MaxForeign = 1
SPECIFICATION OneFairSpec
INVARIANTS
    TypeOK
    RebootHintIsTrue
    SaveIsWhole
    FlagIsRestored
PROPERTIES
    PasswordCoversWrite
    LockComesFree
CHECK_DEADLOCK FALSE
