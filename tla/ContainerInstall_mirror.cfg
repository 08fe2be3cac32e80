CONSTANTS
    h1 = h1
    h2 = h2
    r1 = r1
    Hosts <- MCHosts
    K8sHosts <- MCK8sHosts
    InCluster <- MCInCluster
    ContainerManagers = {"containerd"}
    RemoteMirrors = TRUE
    Buildx = TRUE
    RegistryAuth = TRUE
    AtLeastV124 = TRUE
    MaxFailures = 2
    MaxReruns = 2
    Preinstalled <- MCBare
    Operations = {"add"}
    SkipPullImages = FALSE
    Masters <- MCMasters
    AtLeastV121 = TRUE
    Workers <- MCWorkers
    Inventory <- MCInventory
    MigrateRoles <- MCRoles
    K8eFaults <- MCK8eFaults
SPECIFICATION Spec
INVARIANT
    RuntimeReadyAfterInstall
