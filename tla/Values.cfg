CONSTANTS
    Paths <- AllPaths
    Objects <- AllObjects
    Criteria <- AllCriteria
    MaxSize = 3
    NoQuery = NoQuery
SPECIFICATION Spec
INVARIANTS
    TypeOK
    ValuesOwn
    OptionsRight
    TablesRight
    CriteriaMean
