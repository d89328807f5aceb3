SPECIFICATION Spec
CONSTANTS
    Ids = {d1, d2}
    Names = {a, b}
    NoName = NoName
    Absent = Absent
    Torn = Torn
    NoOp = NoOp
    FailingCalls = {"install", "rollback_state"}
INVARIANT CatalogSurvives
