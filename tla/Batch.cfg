SPECIFICATION Spec
CONSTANTS
    Inserters = {}
    Batchers = {b1}
    Readers = {r1}
    NoThread = NoThread
    MaxMsgs = 3
    MaxFaults = 2
    Backends = {"mysql", "pgsql", "sqlite3"}
    Refusable = {"BEGIN", "COMMIT", "INSERT", "SELECT"}
    LinkFaults = TRUE
    Disciplined = TRUE
    NumOps = 4
    Program <- Heartbeat
    b1 = b1
    r1 = r1
INVARIANTS
    AckedStored
    TransactionUnderMutex
    MutexReleased
    NeverAborts
PROPERTIES
    DurableOnlyByCommit
