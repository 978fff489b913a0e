CONSTANTS
    Paths <- AllPaths
    Objects <- AllObjects
    Criteria <- AllCriteria
    MaxSize = 3
    NoQuery = NoQuery
SPECIFICATION Spec
INVARIANT ValuesAligned
