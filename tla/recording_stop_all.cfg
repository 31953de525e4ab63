SPECIFICATION Spec
CONSTANTS
    Users = {u1}
    Restarts = {r1}
    Cameras = {c1, c2}
    Procs = {p1, p2}
    MaxAttempts = 1
    UserOps = {}
    Flags = {"autoRestart", "autoStart"}
    Faults = {"procDies", "dbFails", "licenceLapses", "apiRestarts", "shutdown"}
    Health = Health
    Guard = Guard
    StopAll = StopAll
    Boot = Boot
    NoCam = NoCam
    NoProc = NoProc
SYMMETRY Symmetry
INVARIANT DisarmedStops
PROPERTY RestartOnlyAfterCrash
CHECK_DEADLOCK FALSE
