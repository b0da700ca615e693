CONSTANTS
    CacheLine = 4
    RegionAlign = 8
    MaxAddr = 64
    MaxInsts = 100
    Requests <- UncheckedRequests
SPECIFICATION FairSpec
INVARIANT HardFailAboveMaxAddr
