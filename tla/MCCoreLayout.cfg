CONSTANTS
    CacheLine = 4
    RegionAlign = 8
    MaxAddr = 64
    MaxInsts = 100
    Requests <- SmallRequests
SPECIFICATION FairSpec
INVARIANTS
    CoresNeverAlias
    KBelowV
    ChecksAreRedundant
    CapStopsEarly
PROPERTY Decided
