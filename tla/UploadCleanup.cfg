CONSTANTS
    Uploads = {1, 2, 3}
    HasId = {1, 2}
    Sweepers = {w1, w2}
    Policies <- AnyPolicy
    RowLimit = 2
    MaxFaults = 1
    MaxLosses = 1
SPECIFICATION FairSpec
INVARIANTS
    TypeOK
    StatusIsTrue
PROPERTIES
    StaleSettled
    ImplementsLifecycle
