SPECIFICATION Spec
CONSTANTS
    Parts = {"connections", "users", "gate", "hardware", "startup", "schema",
             "clusters", "firewall", "networks", "node", "templates"}
    d1 = d1  d2 = d2
    Requests = {d1, d2}
    TokenNames = 1  CacheSize = 1  MaxSecrets = 3
    Users = {x, y}  RoleNames = {RoleA, RoleB}  Admin = RoleA  Grants <- MCGrants  MaxRequests = 3
    Threshold = 2  MaxFails = 4  GateSecrets = 2  MaxCodes = 2
    NVolumes = 3  Longer <- MCLonger
    Servers = {1, 2, 3}  NodeName <- MCNodeName  ClusterGuests = {11}
    NNames = 2  MaxItems = 2  MaxCalls = 3
    NNets = 2  NPools = 2  NAddrs = 2  Guests = {11, 12}
    NVmids = 2  NRows = 2
    MaxEvents = 3  HardwareEvents = 4  StartEvents = 2
SYMMETRY Sym
INVARIANTS TypeOK CredentialsTrue AccessHolds  StartsTrue ClusterTrue 
CHECK_DEADLOCK FALSE
