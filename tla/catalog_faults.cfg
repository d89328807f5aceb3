SPECIFICATION FairSpec
CONSTANTS
    Ids = {d1, d2, d3}
    Names = {a, b}
    NoName = NoName
    Absent = Absent
    Torn = Torn
    NoOp = NoOp
    FailingCalls <- AllButRollback
ACTION_CONSTRAINT OneOfTheUnnamed
INVARIANTS TypeOK CatalogSurvives EntriesBacked RefusesOnlyUnreadable ServesDurable
PROPERTIES MovesOnlyClosedUncatalogued AtomicLifecycle Progress
