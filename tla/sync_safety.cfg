CONSTANTS
    Cmd = {c1, c2, c3}
    c1 = c1
    c2 = c2
    c3 = c3
    l1 = l1
    l2 = l2
    NoCmd = NoCmd
    Proc = {p1}
    NoProc = NoProc
    List = {l1}
    ListOf <- MCOneList
    LedgerCap = 2
    QueueCap = 2
    ResponseCap = 2
    MaxEpoch = 2
    MaxOutstanding = 2
    FaultBound <- MCNoToggle
    Invalid = {}
SPECIFICATION Spec
INVARIANTS
    TypeOK
    StatesStayValid
    AtMostOnce
    QueuedEffectsRemembered
    NoEditDisappears
    EpochFence
PROPERTIES
    NoSilentAdoption
    UncertainNeverForgotten
    ImplementsDurableQueue
SYMMETRY CommandSymmetry
CHECK_DEADLOCK FALSE
