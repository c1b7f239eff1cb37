SPECIFICATION Spec
CONSTANTS
    Parts = {"apps", "deployments", "moves", "backups", "sockets", "accounts", "monitor"}
    Apps = {a1}  AppVmids = 1  AppWorkers = 1  AppOps = 3  AppVersions = 2
    d1 = d1  d2 = d2
    Deps = {d1, d2}  NVmids = 2  NAddrs = 2  MaxInstances = 1
    Moves = {d1, d2}
    Jobs = {j1}  Requests = {r1, r2}  Runs = {d1, d2}
    Sockets = {d1, d2}  Users = {u1, u2}  Channels = {c1}  Senders = {b1, b2}  MaxSends = 3
    Logins = {r1, r2}  Resets = {d1, d2}  MaxAttempts = 2
    MaxEvents = 1  AppEvents = 1  AccountEvents = 2  MaxFlips = 4
SYMMETRY Sym
INVARIANTS TypeOK AppsTrue DeploymentsTrue BackupsTrue MembershipTrue AccountsTrue
PROPERTIES  OwnerMoves AddressesKept
CHECK_DEADLOCK FALSE
