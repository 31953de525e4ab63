SPECIFICATION LiveSpec
CONSTANTS
    Users = {}
    Restarts = {r1}
    Cameras = {c1}
    Procs = {p1, p2}
    MaxAttempts = 1
    UserOps = {}
    Flags = {"autoRestart", "reconnect"}
    Faults = {"procDies", "killHangs"}
    Health = Health
    Guard = Guard
    StopAll = StopAll
    Boot = Boot
    NoCam = NoCam
    NoProc = NoProc
PROPERTIES WantedIsRecorded StopComesBack
CHECK_DEADLOCK FALSE
