SPECIFICATION Spec
CONSTANTS
    a1 = a1  a2 = a2
    Apps = {a1, a2}
    NVmids = 2
    Workers = 2
    MaxOps = 2
    MaxVersion = 1
    MaxEvents = 1
SYMMETRY Sym
PROPERTY ForeignUntouched
CHECK_DEADLOCK FALSE
