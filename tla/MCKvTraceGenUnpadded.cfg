CONSTANTS
    CacheLine = 4
    Configs <- UnpaddedShapes
SPECIFICATION Spec
PROPERTY RowsFullyRead
