SPECIFICATION Spec
CONSTANTS
    Users = {u1}
    Restarts = {r1}
    Cameras = {c1}
    Procs = {p1, p2}
    MaxAttempts = 1
    UserOps = {"start", "stop"}
    Flags = {"autoRestart"}
    Faults = {"procDies"}
    Health = Health
    Guard = Guard
    StopAll = StopAll
    Boot = Boot
    NoCam = NoCam
    NoProc = NoProc
SYMMETRY Symmetry
INVARIANT StopWins
CHECK_DEADLOCK FALSE
