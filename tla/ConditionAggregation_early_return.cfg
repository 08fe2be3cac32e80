CONSTANTS
    m1 = m1
    m2 = m2
    n1 = n1
    n2 = n2
    n3 = n3
    NoNode = NoNode
    Machines <- MCMachines
    Nodes <- MCNodes
    ListMayFail = TRUE
    GetMayFail = TRUE
SPECIFICATION Spec
INVARIANT
    KCPReportsMachineErrors
SYMMETRY MCSymmetry
