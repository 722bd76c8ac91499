CONSTANTS
    Cmd = {c1, c2, c3}
    c1 = c1
    c2 = c2
    c3 = c3
    l1 = l1
    l2 = l2
    NoCmd = NoCmd
    Proc = {p1, p2}
    NoProc = NoProc
    List = {l1, l2}
    ListOf <- MCListOf
    LedgerCap = 2
    QueueCap = 2
    ResponseCap = 2
    MaxEpoch = 2
    MaxOutstanding = 1
    FaultBound <- MCTwo
    Invalid = {}
SPECIFICATION Spec
INVARIANTS
    EpochFence
    ListOrder
    JournalledBeforeEffect
SYMMETRY TwoListSymmetry
CHECK_DEADLOCK FALSE
