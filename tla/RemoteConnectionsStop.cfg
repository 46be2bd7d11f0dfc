SPECIFICATION FairSpec
CONSTANTS
    o1 = o1
    o2 = o2
    o3 = o3
    None = None
    Offers = {o1, o2}
PROPERTY StopReturns
CHECK_DEADLOCK FALSE
