CONSTANTS
    s1 = s1
    s2 = s2
    Sessions = {s1, s2}
    CharHalf = 128
    MaxIdent = 2
    Deployments <- SafeDeployments
    Paths <- AllPaths
SPECIFICATION Spec
INVARIANTS
    TypeOK
    StoredExactly
    KeysHold
    ReadIsExact
    PathsSelect
CHECK_DEADLOCK FALSE
