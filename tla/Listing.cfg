CONSTANTS
    MaxKey = 7
    Hidden = {6}
    Self = 1
    Folder <- FolderDef
    NoFolder = ""
    ScanCap = 3
    MaxListKeys = 2
    Requests = {0, 3}
SPECIFICATION FairSpec
INVARIANTS
    TypeOK
    NothingLost
PROPERTIES
    NothingTwice
    ListingEnds
CHECK_DEADLOCK FALSE
