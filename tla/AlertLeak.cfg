SPECIFICATION Spec
CONSTANTS
    Inserters = {i1, i2}
    Batchers = {}
    Readers = {}
    NoThread = NoThread
    MaxMsgs = 1
    MaxFaults = 1
    Backends = {"mysql"}
    Refusable = {}
    LinkFaults = TRUE
    Disciplined = TRUE
    NumOps = 4
    Program <- AlertWithData
    i1 = i1
    i2 = i2
INVARIANTS
    MutexReleased
