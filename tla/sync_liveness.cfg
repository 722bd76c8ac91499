CONSTANTS
    Cmd = {c1, c2}
    c1 = c1
    c2 = c2
    c3 = c3
    l1 = l1
    l2 = l2
    NoCmd = NoCmd
    Proc = {p1}
    NoProc = NoProc
    List = {l1}
    ListOf <- MCOneList
    LedgerCap = 2
    QueueCap = 2
    ResponseCap = 2
    MaxEpoch = 2
    MaxOutstanding = 1
    FaultBound <- MCLive
    Invalid = {}
SPECIFICATION LiveSpec
PROPERTY EveryEditSettles
CHECK_DEADLOCK FALSE
