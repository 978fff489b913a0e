CONSTANTS
    Options <- Moves
    NumMsgs = 5
    MaxMsgs = 6
    Matching = {1, 3, 4, 5, 6}
    DeleteTblSize = 4
    FaultKinds = {"commit"}
    MaxFaults = 1
    Resumable = {}
    Dooming = FALSE
SPECIFICATION Spec
INVARIANTS
    MoveLosesNothing
CHECK_DEADLOCK FALSE
