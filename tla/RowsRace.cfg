CONSTANTS
    s1 = s1
    s2 = s2
    Sessions = {s1, s2}
    CharHalf = 128
    MaxIdent = 2
    Deployments <- RaceDeployments
    Paths <- AllPaths
SPECIFICATION Spec
INVARIANTS
    InsertedIsReadable
CHECK_DEADLOCK FALSE
