CONSTANTS
    Keys <- MCKeys
    TrashOf <- MCTrashOf
    InitS3 <- MCInitS3
    Workers = {w1}
    Payload <- DirectoryTrash
    Under <- MCUnder
    EnvS3 = FALSE
    MaxRetry = 1
    MaxClock = 2
    MaxCrashes = 1
    MaxFaults = 0
    Scanners = {"s1"}
    PageSize = 1
    MaxScans = 1
    MaxAborts = 0
    MaxTime = 2
    MaxWrites = 1
CHECK_DEADLOCK FALSE
SPECIFICATION SyncFairSpec
PROPERTIES
    ScanEnds
    AllSettled
