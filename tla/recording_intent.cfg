SPECIFICATION Spec
CONSTANTS
    Users = {u1}
    Restarts = {r1}
    Cameras = {c1}
    Procs = {p1, p2}
    MaxAttempts = 1
    UserOps = {"start", "stop", "disable"}
    Flags = {"autoRestart"}
    Faults = {"procDies", "dbFails", "diskFills"}
    Health = Health
    Guard = Guard
    StopAll = StopAll
    Boot = Boot
    NoCam = NoCam
    NoProc = NoProc
SYMMETRY Symmetry
INVARIANTS TypeOK ActiveIsLive DisarmedIsOwned IntentKept
CHECK_DEADLOCK FALSE
