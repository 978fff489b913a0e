SPECIFICATION Spec
CONSTANTS
    Inserters = {i1}
    Batchers = {b1}
    Readers = {}
    NoThread = NoThread
    MaxMsgs = 1
    MaxFaults = 0
    Backends = {"mysql"}
    Refusable = {}
    LinkFaults = FALSE
    Disciplined = TRUE
    NumOps = 4
    Program <- Heartbeat
    i1 = i1
    b1 = b1
INVARIANTS
    AckedStored
CHECK_DEADLOCK FALSE
