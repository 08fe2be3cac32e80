------------------------- MODULE MCContainerInstall -------------------------
EXTENDS ContainerInstall, TLC

CONSTANTS h1, h2, r1

\* h1 is a node being added, h2 a node already in the cluster, r1 a host
\* of another role (a registry host): only the login task selects it.
MCHosts == {h1, h2, r1}
MCK8sHosts == {h1, h2}
MCInCluster == {h2}

\* A host being added is bare or already runs the declared runtime.
MCPreinstalled == {"none", "declared"}

\* Both runtimes kubekey installs.
MCManagers == {"docker", "containerd"}

\* Adding nodes, deleting the cluster, creating a K8e cluster and
\* migrating the nodes' runtime.
MCOperations == {"add", "delete", "k8e", "migrate"}

\* h1 is the first (and only) master, h2 a worker; h1 also carries the
\* worker role, so the worker and master selectors overlap.
MCMasters == {h1}
MCWorkers == {h1, h2}

\* The inventory lists h1, then h2, then r1.
MCInventory == <<h1, h2, r1>>

\* The three roles CriMigrateModule.Init accepts.
MCRoles == {"worker", "master", "all"}

\* K8e modules whose commands may fail: a rerun starts them again.
MCK8eFaults == {"StatusModule", "InstallKubeBinariesModule", "JoinNodesModule"}

\* Creating a K8e cluster.
MCK8eOnly == {"k8e"}

\* Only SaveKubeConfig's API calls may fail.
MCSaveFaults == {"SaveKubeConfigModule"}

\* Every host being added is bare.
MCBare == {"none"}
====
