CONSTANTS
    Options <- AllCommands
    NumMsgs = 5
    MaxMsgs = 6
    Matching = {1, 3, 4, 5, 6}
    DeleteTblSize = 4
    FaultKinds = {"begin", "commit", "fetch", "get", "ident", "insert", "delete", "open", "decode", "write", "signal"}
    MaxFaults = 3
    Resumable = {"copy", "load"}
    Dooming = FALSE
SPECIFICATION Spec
INVARIANTS
    TypeOK
    NothingLost
    CommittedInOrder
    InsertedWhole
    CommandCompletes
    KeepsTheRest
    CountRespected
    DeleteTableFits
PROPERTIES
    TransactionBounded
    EveryCommandEnds
CHECK_DEADLOCK FALSE
