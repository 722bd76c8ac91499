--------------------------- MODULE MCEntryLifecycle ----------------------------
EXTENDS EntryLifecycle, TLC

CONSTANTS e1, e2, e3, t1, t2, t3, b1, b2, b3

IdentitySymmetry ==
    Permutations({e1, e2, e3}) \cup Permutations({t1, t2, t3}) \cup Permutations({b1, b2, b3})
================================================================================
