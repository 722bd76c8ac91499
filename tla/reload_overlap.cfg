CONSTANTS
    Edit = {e1, e2}
    Creates = {e1}
    e1 = e1
    e2 = e2
    l1 = l1
    Posts = 2
    List = {l1}
    ListOf <- MCOneList
    Nobody = Nobody
    Starts <- MCNew
    MaxGen = 2
    QueueCap = 2
    ResponseCap = 2
    FaultBound <- MCOverlap
SPECIFICATION Spec
INVARIANT ConfirmedEditsDurable
CHECK_DEADLOCK FALSE
