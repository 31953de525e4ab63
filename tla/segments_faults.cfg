SPECIFICATION LiveSpec
CONSTANTS
    N = 2
    Segments <- SegmentsDef
    Ring = {1}
    Scan = Scan
    Recovery = Recovery
    Promotion = Promotion
    MaxAttempts = 2
    Limit = 4
    MaxCrashes = 1
    Faults = {"apiEnds", "powerLoss", "dbFails", "ffmpegFails"}
INVARIANTS RowsPlayable
PROPERTIES FootageStays  PoisonStops
CHECK_DEADLOCK FALSE
