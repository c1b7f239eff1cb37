SPECIFICATION PartsSpec
CONSTANTS
    MaxTasks = 2
    Total <- MCTotal
    Users <- MCUsers
    Owner <- MCOwner
    Requests = {r1}
    MaxCrashes = 2
    MaxDbErrors = 1
    Apps = {a1}  AppVmids = 1  AppWorkers = 2  AppOps = 2  AppVersions = 1  AppEvents = 1
    MaxFlips = 4
    Windows = {d1, d2}  PoolSize = 1  MaxPrints = 2  ConsoleEvents = 1
INVARIANTS TypeOK ItemsOnceInOrder SingleRunning JournalHonest ConsolesTrue
PROPERTIES NeverRequeued DrainsOrWedges KeepsPromise OutsideNoticed ConsolesReleased
CHECK_DEADLOCK FALSE
