SPECIFICATION Spec
CONSTANTS
    Recordings = {1, 2, 3}
    CameraOf <- CameraOfDef
    StartedAt <- StartedAtDef
    MotionScore <- MotionScoreDef
    CloudOnly = {3}
    Late = {2}
    Clips = {1}
    Source <- SourceDef
    Events = {1}
    OccurredAt <- OccurredAtDef
    CameraDays <- CameraDaysDef
    Policies <- PoliciesDef
    FirstHolds <- FirstHoldsDef
    HoldRows <- HoldRowsDef
    Evidence <- EvidenceDef
    UseBullmq = TRUE
    GlobalDays = 1
    EventDays = 1
    BatchSize = 1
    MaxPerCycle = 2
    GuardBatch = 1
    TriggerPercent = 70
    TargetPercent = 50
    MaxNoProgress = 1
    MaxIterations = 2
    DiskBlocks = 4
    FirstOutside = 1
    MaxOutside = 2
    MaxToday = 1
    MaxHolds = 3
    MaxFailures = 1
INVARIANTS TypeOK FilterIsTheRule BrakeHolds
PROPERTIES HeldSurvive PassThorough PassEnds ExpiredGoes
