CONSTANTS
    Keys = {1}
    Sweepers = {w1, w2}
    Policies <- AnyPolicy
    MaxFaults = 1
SPECIFICATION FairSpec
INVARIANT TypeOK
PROPERTIES
    FirstDeletionKept
    NoObjectForgotten
    ExpiredRowSwept
