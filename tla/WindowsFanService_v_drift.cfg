CONSTANTS
    auto = auto
    other = other
    red = red
    AutoTarget = auto
    Targets = {auto, other}
    Offsets = {0, 25}
    Lights = {"rainbow", red}
    None = None
    Users <- GpuOnly
    MaxUpsets = 1
    MaxStarts = 1
SPECIFICATION Spec
PROPERTIES
    ChoiceIsKept
