SPECIFICATION Spec
CONSTANTS
    Restorers = {r1, r2}
    Original = Original
    Writes = {}
    Snapshots = {s1, bad}
    Bad = {bad}
    Absent = Absent
    Torn = Torn
    Nobody = Nobody
    FailingCalls = {}
INVARIANT ServesOnlyValidated
