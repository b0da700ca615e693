CONSTANTS
    Layers = 2
    MaxPasses = 4
    PassCounts = {0, 1, 2}
SPECIFICATION Spec
INVARIANTS
    AcceptedAreDecodePasses
    AllDecodePassesTaken
