CONSTANTS
    low = low
    full = full
    red = red
    Duties = {low, full}
    Full = full
    Watts = {0, 25, 60}
    MaxOffset = 50
    Colors = {red}
    None = None
    Users <- TwoUsers
    MaxUpsets = 2
SPECIFICATION FairSpec
INVARIANTS
    FansAsChosen
    GpuAsChosen
    LightbarAsChosen
PROPERTIES
    BoostLeftWithTables
    DriftIsRepaired
