CONSTANTS
    Hours <- HoursDef
    Longest = "month"
    DayLen = 2
    RollupDays = 2
    PrefixOf <- PrefixDef
    Aggregators = {w1, w2}
    OldLogs <- OldLogsDef
    NewLogs <- NewLogsDef
    Buckets = {1}
    SizeOf <- SizeDef
    MaxChanges = 2
    MaxRuns = 3
    MaxFaults = 1
SPECIFICATION Spec
SYMMETRY Alike
INVARIANTS
    TypeOK
    OneSnapshot
    NeverEmpty
    DaysComplete
CHECK_DEADLOCK FALSE
