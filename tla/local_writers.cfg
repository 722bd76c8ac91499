CONSTANTS
    Client = {m1, m2}
    Bridge = bridge
    Reminder = {r1}
    List = {l1, l2}
    Allowed = {l1}
    Note = {n1, n2}
    Absent = absent
    Omitted = omitted
    Nobody = nobody
SPECIFICATION LiveSpec
INVARIANT TypeOK
PROPERTIES
    OmittedFieldKept
    OutOfScopeUntouched
    LockReleased
