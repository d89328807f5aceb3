SPECIFICATION Spec
CONSTANTS
    MaxRequests = 3
    SessionIds = {s1}
    MaxSessions = 1
    MaxStatements = 2
    MaxFaults = 2
    MaxCrashes = 1
    Absent = Absent
    None = None
    Nobody = Nobody
INVARIANTS TruthfulAnswers AllOrNothing NothingDestroyed HarmlessWithoutFault
CHECK_DEADLOCK FALSE
