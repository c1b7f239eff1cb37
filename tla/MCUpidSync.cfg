SPECIFICATION FairSpec
CONSTANTS
    Tasks = {"job", "vm"}
    NoTask = "none"
    Servers = {1, 2}
    ServerOf <- MCServerOf
    Kind <- MCKind
    Threshold = 2
    MaxErrors = 2
    MaxOutages = 1
    MaxRemovals = 1
    MaxCrashes = 1
INVARIANTS TypeOK OutcomeHasCause
PROPERTIES RowsEnd
CHECK_DEADLOCK FALSE
