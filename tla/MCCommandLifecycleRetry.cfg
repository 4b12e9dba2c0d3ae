CONSTANTS
    t1 = t1
    t2 = t2
    t3 = t3
    k1 = k1
    k2 = k2
    Turns = {t1, t2, t3}
    Keys = {k1, k2}
    NoCmd = NoCmd
    Requests <- MCRequests

SPECIFICATION Spec
CHECK_DEADLOCK FALSE

INVARIANT OneRunPerCommand
