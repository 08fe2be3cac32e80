CONSTANTS
    h1 = h1
    h2 = h2
    Hosts <- MCHosts
    Distribution <- MCDistribution
    NumCmds = 2
    MaxFailures = 1
    MaxCrashes = 0
    UmountMayFail = TRUE
SPECIFICATION Spec
PROPERTY
    IsoEventuallyReleased
