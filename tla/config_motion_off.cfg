SPECIFICATION Spec
CONSTANTS
    Storages = {s1}
    AiPolicies <- AiPoliciesDef
    Licenses = {"ACTIVE", "RESTRICTED"}
    Null = Null
    MaxChanges = 2
    MaxFaults = 0
PROPERTIES NoMotionNoAnalysis
