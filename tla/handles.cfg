SPECIFICATION FairSpec
CONSTANTS
    Agents = {a, b, c}
    Ids = {i, j}
    Nobody = Nobody
    Slot = Slot
    MaxRequests = 4
INVARIANTS OpenedOnce CatalogMapAgree
PROPERTY RequestsEnd
CHECK_DEADLOCK FALSE
