CONSTANTS
    Keys <- MCKeys
    TrashOf <- MCTrashOf
    InitS3 <- MCInitS3
    Workers = {w1, w2}
    Payload <- FourKinds
    Under <- MCUnder
    EnvS3 = FALSE
    MaxRetry = 1
    MaxClock = 1
    MaxCrashes = 1
    MaxFaults = 1
SPECIFICATION BatchSpec
CHECK_DEADLOCK FALSE
INVARIANTS
    TypeOK
    AuditedUnlessSkipped
    RecordsAgree
    ContentSurvives
PROPERTIES
    SuccessIsReal
    NoOverwrite
SYMMETRY Perms
