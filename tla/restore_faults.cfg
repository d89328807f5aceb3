SPECIFICATION FairSpec
CONSTANTS
    Restorers = {r1}
    Original = Original
    Writes = {w1}
    Snapshots = {s1, s2, bad}
    Bad = {bad}
    Absent = Absent
    Torn = Torn
    Nobody = Nobody
    FailingCalls <- Calls
INVARIANTS TypeOK NeverLost ServesExpected InstallsOnlyValidated RecoversUnlessTorn
PROPERTY RestoreEnds
