SPECIFICATION FairSpec
CONSTANTS
    Inserters = {i1, i2}
    Batchers = {}
    Readers = {r1}
    NoThread = NoThread
    MaxMsgs = 2
    MaxFaults = 2
    Backends = {"mysql", "pgsql", "sqlite3"}
    Refusable = {"BEGIN", "COMMIT", "INSERT", "SELECT"}
    LinkFaults = TRUE
    Disciplined = TRUE
    NumOps = 4
    Program <- Heartbeat
    i1 = i1
    i2 = i2
    r1 = r1
INVARIANTS
    TypeOK
    TransactionUnderMutex
    MutexReleased
PROPERTIES
    DurableOnlyByCommit
    InsertIsAtomic
    EveryInsertReturns
    RecoversAfterFaults
