SPECIFICATION Spec
CONSTANTS
    NAddrs = 2
    Threads = {t1, t2}
    Stacks <- MCStacks
    MaxEvents = 2
    MaxOthers = 0
INVARIANT AppliedIsLive
CHECK_DEADLOCK FALSE
