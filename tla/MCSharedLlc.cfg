CONSTANTS
    PerCoreLines = 16
    DefaultWays = 8
    Floor = 6
    WaysBound = 64
    Lines = 640
    Choices <- AllChoices
SPECIFICATION FairSpec
INVARIANTS
    AutoIsMinimal
    NoFalseHits
PROPERTY EndsForPositiveCounts
