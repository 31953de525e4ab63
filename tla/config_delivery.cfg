SPECIFICATION Spec
CONSTANTS
    Storages = {s1}
    AiPolicies <- AiPoliciesDef
    Licenses = {"ACTIVE", "SUSPENDED"}
    Null = Null
    MaxChanges = 2
    MaxFaults = 2
INVARIANTS TypeOK PanelTellsTheTruth
PROPERTIES ConfigArrives SuspensionBites MotionOffStops
