CONSTANTS
    Results = {t1}
    Nobody = Nobody
    MaxRows = 3
    MaxHeld = 2
    MaxRowsHeld = 3
    TableCounts = 7
    ImplicitCopies = FALSE
    MaxFaults = 1
    Backends <- AllBackends
    ScanErrors = FALSE
SPECIFICATION Spec
INVARIANTS
    TypeOK
    RefsExact
    HeldAlive
    RowsInPlace
    EndMeansRead
    CountRight
    DeletesWhatWasRead
PROPERTIES
    DeletionEnds
