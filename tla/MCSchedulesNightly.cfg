SPECIFICATION FairSpec
CONSTANTS
    p1 = p1
    p2 = p2
    Slot = {p1, p2}
    MaxPeriod = 2
    MaxFaults = 1
PROPERTIES FiresForCause DueIsServed
CHECK_DEADLOCK FALSE
