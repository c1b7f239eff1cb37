SPECIFICATION Spec
CONSTANTS
    g1 = g1
    g2 = g2
    NAddrs = 3
    Gateway = 1
    Pool = {1, 2}
    Guests <- MCGuests
    Vmid <- MCVmid
    Nobody = Nobody
    Threads = {t1, t2}
    MaxRows = 2
SYMMETRY MCSymmetry
INVARIANTS UniqueAddress HistoryAccounts ReleaseComplete
CHECK_DEADLOCK FALSE
