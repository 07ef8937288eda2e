CONSTANTS
    Hosts = {1, 2}
    BucketIds <- OneBucket
    BucketKinds <- OneKind
    Interval <- Three
    BeatTTL = 1
    MinTTL = 1
    Skew <- InStep
    MaxSkew = 0
    MaxTime = 2
    LastFault = 1
    MaxCrashes = 1
    MaxStops = 0
    MaxFaults = 1
SPECIFICATION FairSpec
INVARIANT AtMostOncePerSlot
PROPERTY SlotServed
