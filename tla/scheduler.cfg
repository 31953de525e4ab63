SPECIFICATION Spec
CONSTANTS
    Nodes = {1, 2, 3}
    Cameras = {1, 2, 3}
    Registries <- RegistriesDef
    Workloads <- WorkloadsDef
    Reports <- ReportsDef
    Null = Null
    NodeDeadAfter = 1
    DefaultCapacity = 1
    DrainBatch = 1
    LeaseTtl = 1
    MaxWorkloads = 5
    MaxNow = 1
    MaxToken = 2
INVARIANTS TypeOK ZombieFenced LoadFits
PROPERTIES KeepsThePromise StaysPut DrainsGently FailoverFirst
