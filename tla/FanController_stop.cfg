CONSTANTS
    NoConfig = NoConfig
    Temps <- CoolOnly
    Configs <- EarlyAndLate
    Target <- CurveTarget
    Requested = {"manual", "configure", "mode", "stop"}
    FailureTakesEffect = TRUE
SPECIFICATION Spec
INVARIANTS
    AutoWriteIsWanted
    FinalWriteIsFinal
