CONSTANTS
    Scripts = {"compute_sweep", "batch_sweep"}
    Grids <- SmallGrids
    MaxRuns = 3
SPECIFICATION Spec
INVARIANTS
    CompletedRowsKept
    OneRowPerKey
    FinishedIsComplete
    OlderRowsOnlyLoaded
PROPERTIES
    ReRunsOnlyFillGaps
    ImplementsResultStore
