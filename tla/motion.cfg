SPECIFICATION Spec
CONSTANTS
    Motions = {m1, m2}
    None = None
    PreEvent = 1
    MaxStart = 1
    PostRoll = 4
    Horizon = 9
    MaxMotions = 3
    MaxTrouble = 1
SYMMETRY Symmetry
INVARIANTS RecordingEnds
PROPERTIES CoverageKept BeginningKept
CHECK_DEADLOCK FALSE
