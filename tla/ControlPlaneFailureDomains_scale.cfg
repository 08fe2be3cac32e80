CONSTANTS
    i1 = i1
    i2 = i2
    i3 = i3
    i4 = i4
    fa = fa
    fb = fb
    NoFD = NoFD
    Ids <- MCIds
    FDs <- MCFDs
    Replicas = 3
    MaxChanges = 2
SPECIFICATION Spec
INVARIANTS
    TypeOK
    Balanced
PROPERTIES
    EventuallyConverged
CHECK_DEADLOCK FALSE
