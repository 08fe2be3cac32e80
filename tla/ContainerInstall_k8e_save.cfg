CONSTANTS
    h1 = h1
    h2 = h2
    r1 = r1
    Hosts <- MCHosts
    K8sHosts <- MCK8sHosts
    InCluster <- MCInCluster
    ContainerManagers <- MCManagers
    RemoteMirrors = FALSE
    Buildx = TRUE
    RegistryAuth = TRUE
    AtLeastV124 = TRUE
    MaxFailures = 3
    MaxReruns = 3
    Preinstalled <- MCPreinstalled
    Operations <- MCK8eOnly
    SkipPullImages = FALSE
    Masters <- MCMasters
    AtLeastV121 = TRUE
    Workers <- MCWorkers
    Inventory <- MCInventory
    MigrateRoles <- MCRoles
    K8eFaults <- MCSaveFaults
SPECIFICATION Spec
PROPERTIES
    Converges
