CONSTANTS
    Hosts = {1, 2}
    BucketIds <- TwoBuckets
    BucketKinds <- NoKinds
    Interval <- Two
    BeatTTL = 2
    MinTTL = 1
    Skew <- OneAhead
    MaxSkew = 1
    MaxTime = 2
    LastFault = 2
    MaxCrashes = 1
    MaxStops = 1
    MaxFaults = 1
SPECIFICATION Spec
INVARIANTS
    TypeOK
    ViewsPartition
    GracefulStopReleases
    ClaimInv
PROPERTY OnlyHolderDrops
