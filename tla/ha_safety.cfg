CONSTANTS
    Edit = {e1, e2}
    Creates = {e1}
    e1 = e1
    e2 = e2
    l1 = l1
    Posts = 2
    List = {l1}
    ListOf <- MCOneList
    Nobody = Nobody
    Starts <- MCNewOrUnderway
    MaxGen = 3
    QueueCap = 2
    ResponseCap = 2
    FaultBound <- MCSafety
SPECIFICATION Spec
INVARIANTS
    TypeOK
    ConfirmedEditsDurable
    OnlyStoredOffered
    EditStaysVisible
    PendingIsVisible
    DroppedStaysDropped
CHECK_DEADLOCK FALSE
