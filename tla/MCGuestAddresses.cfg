SPECIFICATION Spec
CONSTANTS
    NAddrs = 2
    Threads = {t1, t2}
    Stacks <- MCStacks
    MaxEvents = 3
    MaxOthers = 2
SYMMETRY MCSymmetry
INVARIANTS TypeOK PushSettles
PROPERTIES HandMadeStays OnlyStaleListsRemove
CHECK_DEADLOCK FALSE
