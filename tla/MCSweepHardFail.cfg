CONSTANTS
    Scripts = {"batch_sweep"}
    Grids <- SmallGrids
    MaxRuns = 2
SPECIFICATION Spec
INVARIANT HardFailKeepsRows
