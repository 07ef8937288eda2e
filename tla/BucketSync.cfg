CONSTANTS
    Keys <- MCKeys
    TrashOf <- MCTrashOf
    InitS3 <- MCInitS3
    Workers = {w1}
    Payload <- OneTrash
    Under <- MCUnder
    EnvS3 = TRUE
    MaxRetry = 1
    MaxClock = 3
    MaxCrashes = 1
    MaxFaults = 0
    Scanners = {"s1", "s2"}
    PageSize = 1
    MaxScans = 2
    MaxAborts = 1
    MaxTime = 3
    MaxWrites = 1
CHECK_DEADLOCK FALSE
SPECIFICATION SyncSpec
INVARIANTS
    SyncTypeOK
    ScanExact
