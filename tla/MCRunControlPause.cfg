CONSTANTS
    o1 = o1
    o2 = o2
    o3 = o3
    NoOp = NoOp
    Ops <- MCOps
    Offers <- MCOffers

SPECIFICATION Spec
CHECK_DEADLOCK FALSE

INVARIANT CompletedHasEnded
