SPECIFICATION Spec
CONSTANTS
    Recordings = {1, 2}
    First = {1}
    Absent = {1}
    TriggerMode <- TriggerModeDef
    Provisions <- ProvisionsDef
    Policies <- PoliciesDef
    Cycles = {1, 2}
    Null = Null
    Batch = 2
    PruneBatch = 2
    MaxNow = 2
    MaxFaults = 2
    MaxChanges = 2
INVARIANTS NothingLost RowsTellTheTruth
PROPERTIES UploadedInTheEnd PrunedInTheEnd
