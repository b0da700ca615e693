CONSTANTS
    Options <- SmallOptions
    Grids <- SmallGrids
    MaxExpansions = 3
    MaxSweeps = 1
SPECIFICATION Spec
INVARIANTS
    MetaDescribesFiles
    RowsMeasureDescribed
