CONSTANTS
    Keys = {1}
    Sweepers = {w1}
    Policies <- OneDay
    MaxFaults = 0
SPECIFICATION ScanFairSpec
PROPERTY TrashExpires
