CONSTANTS
    MaxVersions = 3
    Writers = {p1, p2}
    Sweepers = {w1, w2}
    Policies <- AnyPolicy
    Stuck = {2}
    RowLimit = 2
    MaxFaults = 1
SPECIFICATION FairSpec
INVARIANT TypeOK
PROPERTIES
    VersionsExpire
    NumbersGrow
    ImplementsRetention
