----------------------------- MODULE MCHARuntime ------------------------------
EXTENDS HARuntime, TLC

CONSTANTS e1, e2, l1

MCOneList == [c \in Edit |-> l1]

MCNew == {{}}
MCNewOrUnderway == {{}, Edit}

Bound(save, restart, reload, overlap, reconfigure, missing) ==
    [f \in Fault |->
        CASE f = "save"        -> save
          [] f = "restart"     -> restart
          [] f = "reload"      -> reload
          [] f = "overlap"     -> overlap
          [] f = "reconfigure" -> reconfigure
          [] f = "missing"     -> missing]

MCSafety  == Bound(1, 1, 0, 0, 2, 1)
MCOverlap == Bound(0, 0, 0, 1, 0, 0)
MCLive    == Bound(1, 0, 1, 1, 1, 0)
================================================================================
