CONSTANTS
    e1 = e1
    e2 = e2
    e3 = e3
    t1 = t1
    t2 = t2
    t3 = t3
    b1 = b1
    b2 = b2
    b3 = b3
    Entry = {e1, e2, e3}
    Token = {t1, t2, t3}
    Bridge = {b1, b2, b3}
    Nothing = Nothing
SPECIFICATION Spec
INVARIANTS
    TypeOK
    NoStaleWebhook
    LoadedIsReachable
    IdentitiesDistinct
    SettledUsesCurrentToken
SYMMETRY IdentitySymmetry
