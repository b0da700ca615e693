CONSTANTS
    CacheLine = 4
    Configs <- SmallShapes
SPECIFICATION Spec
INVARIANTS
    StreamPrefix
    AppendedPrefix
    ReadsOnlyCached
    AddressesInTensor
    LinesNotShared
    InstsClosedForm
PROPERTIES
    StreamsComplete
    RowsFullyRead
    ImplementsAttention
