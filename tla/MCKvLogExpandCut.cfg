CONSTANTS
    Layers = 2
    MaxPasses = 2
    PassCounts = {0}
SPECIFICATION Spec
INVARIANT PassStructureComplete
