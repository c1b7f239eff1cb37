SPECIFICATION FairSpec
CONSTANTS
    Total <- MCTotal
    Users <- MCUsers
    Owner <- MCOwner
    Requests = {r1}
    MaxTasks = 2
    MaxCrashes = 0
    MaxDbErrors = 1
PROPERTIES QueueDrains
CHECK_DEADLOCK FALSE
