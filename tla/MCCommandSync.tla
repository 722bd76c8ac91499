----------------------------- MODULE MCCommandSync -----------------------------
EXTENDS CommandSync, TLC

CONSTANTS c1, c2, c3, l1, l2

\* Two commands for one list and one for another.
MCListOf == [c \in Cmd |-> IF c = c3 THEN l2 ELSE l1]
MCOneList == [c \in Cmd |-> l1]

Bound(crash, save, helper, loss, delay, toggle, retry) ==
    [f \in Fault |->
        CASE f = "crash"  -> crash
          [] f = "save"   -> save
          [] f = "helper"  -> helper
          [] f = "loss"   -> loss
          [] f = "delay"  -> delay
          [] f = "toggle" -> toggle
          [] f = "retry"  -> retry]

MCOneCrash  == Bound(1, 0, 0, 0, 0, 0, 0)
MCLive == Bound(1, 0, 1, 1, 0, 1, 0)
MCTwo == Bound(0, 0, 0, 0, 1, 1, 0)
MCNoToggle == Bound(1, 1, 1, 1, 1, 0, 1)
MCOneSaveFails == Bound(0, 1, 0, 0, 0, 0, 0)
MCNoFaults == Bound(0, 0, 0, 0, 0, 0, 0)

\* Commands of one list are interchangeable: nothing but rank orders them.
CommandSymmetry == Permutations({c1, c2, c3})
TwoListSymmetry == Permutations({c1, c2})
================================================================================
