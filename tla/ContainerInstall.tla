-------------------------- MODULE ContainerInstall --------------------------
(***************************************************************************)
(* The container-runtime part of the add-nodes pipeline                    *)
(* (unnamed/part_004: InstallContainerModule, then InstallCriDockerdModule *)
(* skipped unless the container manager is docker), the uninstall and    *)
(* CRI-migrate modules, and the K8e create pipeline, run by kubekey's task *)
(* engine.                                                                 *)
(*                                                                         *)
(* Task lists, prepares and retry counts come from                         *)
(* cmd/kk/pkg/container/module.go; the actions from docker.go. The engine  *)
(* itself (prepare per host, retries, a task failing when a host fails, a  *)
(* module stopping at its first failed task, a pipeline stopping at its    *)
(* first failed module, a rerun starting again from the first module) is   *)
(* not under src/ and follows spec.md sections 4.2 to 4.4.                 *)
(*                                                                         *)
(* A host's remote state is the set of files it has and the set of        *)
(* services that are running. A remote command either succeeds or fails;  *)
(* which commands transiently fail is bounded by MaxFailures.              *)
(***************************************************************************)
EXTENDS Naturals, Sequences, FiniteSets, Functions

CONSTANTS
    Hosts,            \* hosts of the inventory
    K8sHosts,         \* GetHostsByRole(common.K8s)
    InCluster,        \* K8s hosts that already are nodes of the cluster
    ContainerManagers, \* values of Cluster.Kubernetes.ContainerManager
    RemoteMirrors,    \* len(Registry.RemoteMirrors) > 0
    Buildx,           \* the WithBuildxPlugin prepare
    RegistryAuth,     \* the PrivateRegistryAuth prepare
    AtLeastV124,      \* the common.AtLeastV124 prepare
    MaxFailures,      \* bound on transient command failures
    MaxReruns,        \* bound on the operator rerunning a failed pipeline
    Operations,       \* pipelines a run may be: "add" (add nodes), "delete"
    SkipPullImages,   \* runtime.Arg.SkipPullImages
    Preinstalled,     \* runtimes a host being added may already have:
                      \* "none", "declared" or a named one
    Masters,          \* GetHostsByRole(common.Master)
    AtLeastV121,      \* Kubernetes.Version is at least v1.21.0
    K8eFaults,        \* K8e modules whose commands may fail transiently
    Workers,          \* GetHostsByRole(common.Worker)
    Inventory,        \* the hosts in inventory order: the selectors' order
    MigrateRoles      \* values of KubeConf.Arg.Role for "kk migrate cri"

ASSUME K8sHosts \subseteq Hosts /\ InCluster \subseteq K8sHosts /\ Masters \subseteq K8sHosts
ASSUME Workers \subseteq K8sHosts /\ Range(Inventory) = Hosts /\ Len(Inventory) = Cardinality(Hosts)
ASSUME AtLeastV124 => AtLeastV121

VARIABLES
    ContainerManager, \* Cluster.Kubernetes.ContainerManager, fixed for a run
    Operation,        \* the pipeline being run, fixed for a run
    Role,             \* KubeConf.Arg.Role, fixed for a run ("" unless migrating)
    files,    \* files[h]: the files present on host h
    active,   \* active[h]: the services running on host h
    stale,    \* stale[h]: running services whose unit or config was rewritten
    mi,       \* index of the module the pipeline is in
    ti,       \* index of the task in the module; 0 before the module starts
    hostSt,   \* hostSt[h]: where host h is in the current task
    attempts, \* attempts[h]: failed attempts of h in the current task
    pstate,   \* "running", "failed" or "succeeded"
    failures, \* transient failures injected so far
    reruns,   \* reruns of the pipeline so far
    cache,    \* the pipeline cache: ClusterExist and ClusterStatus
    api       \* objects created in the new cluster's API server

vars == <<ContainerManager, Operation, Role, files, active, stale, mi, ti, hostSt, attempts, pstate, failures, reruns, cache, api>>

(***************************************************************************)
(* Remote state.                                                           *)
(***************************************************************************)
Services == {"containerd", "docker", "criDocker", "k8e"}

\* The unit file and the binary a service needs to start.
Unit == [containerd |-> "containerd.service", docker |-> "docker.service",
         criDocker |-> "cri-docker.service", k8e |-> "k8e.service"]
Bin == [containerd |-> "containerdBin", docker |-> "dockerBin",
        criDocker |-> "criDockerdBin", k8e |-> "k8eBin"]

\* Configuration a running service read when it started.
ConfigOf == [containerd |-> {"containerd.service", "config.toml", "hosts.toml"},
             docker |-> {"docker.service", "daemon.json"},
             criDocker |-> {"cri-docker.service"},
             k8e |-> {"k8e.service", "k8e.service.env", "nodeToken"}]

Files == {"containerdBin", "dockerBin", "criDockerdBin", "crictlBin", "buildx",
          "containerd.service", "docker.service", "cri-docker.service",
          "config.toml", "hosts.toml", "daemon.json", "crictl.yaml",
          "dockerAuth", "images",
          \* k8e: binaries, kubectl/crictl/ctr links, killall and uninstall
          \* scripts, unit and environment, the node token in the
          \* environment, what the k8e server writes when it first starts
          \* (/etc/k8e/k8e.yaml and the server's node-token), and the
          \* copied /root/.kube/config.
          "k8eBin", "helmBin", "cniBin", "ctlLinks", "k8eScripts",
          "k8e.service", "k8e.service.env", "nodeToken", "k8e.yaml", "kubeconfig",
          \* what MigrateSelfNodeCri leaves on a node it migrated
          "criMigrated"}

\* Objects SaveKubeConfig creates: the kubekey-system namespace and the
\* <cluster>-kubeconfig ConfigMap in it.
ApiObjects == {"namespace", "configmap"}

(***************************************************************************)
(* The pipeline cache (spec.md 3): created empty for each run of a         *)
(* pipeline.  ClusterStatus is a K8eStatus: whether it is set, and what    *)
(* the searches found on a master: the node token, the kubeconfig and the  *)
(* nodes kubectl lists.                                                    *)
(***************************************************************************)
Unset == [set |-> FALSE, token |-> FALSE, kubeconfig |-> FALSE, nodes |-> {}]
NewK8eStatus == [Unset EXCEPT !.set = TRUE]
EmptyCache == [ClusterExist |-> "unset", ClusterStatus |-> Unset]

\* The API server of the new cluster answers: a k8e server runs.
ApiUp == \E m \in Masters : "k8e" \in active[m]

(***************************************************************************)
(* Prepares. DockerExist, ContainerdExist, CrictlExist, CriDockerdExist    *)
(* and NodeInCluster probe the host; a runtime exists when its binary is   *)
(* on the path and its socket is up.  NodeInCluster looks the host up in   *)
(* the nodes of the cached cluster status; for the container pipelines     *)
(* that is InCluster.  ClusterIsExist reads the cached ClusterExist.       *)
(***************************************************************************)
Probe(h) ==
    [NodeInCluster       |-> IF Operation = "k8e" THEN h \in cache.ClusterStatus.nodes
                                                  ELSE h \in InCluster,
     ClusterIsExist      |-> cache.ClusterExist = "true",
     DockerExist         |-> "dockerBin" \in files[h] /\ "docker" \in active[h],
     ContainerdExist     |-> "containerdBin" \in files[h] /\ "containerd" \in active[h],
     CrictlExist         |-> "crictlBin" \in files[h],
     CriDockerdExist     |-> "criDockerdBin" \in files[h] /\ "criDocker" \in active[h],
     WithBuildxPlugin    |-> Buildx,
     PrivateRegistryAuth |-> RegistryAuth,
     AtLeastV124         |-> AtLeastV124,
     OnlyWorker          |-> h \in Workers /\ h \notin Masters,
     IsMaster            |-> h \in Masters]

\* A prepare {Not: b}; a literal with not = TRUE runs when the probe is false.
Lit(p, not) == [p |-> p, not |-> not]
Is(p) == Lit(p, FALSE)
IsNot(p) == Lit(p, TRUE)

\* prepare.PrepareCollection: the host runs the task when every member agrees.
PrepareCollection(pre, h) == \A l \in pre : Probe(h)[l.p] # l.not

(***************************************************************************)
(* Actions: what a successful Execute leaves on the host, and what it      *)
(* needs there to succeed.                                                 *)
(***************************************************************************)
\* What an action changes on a host, in the pipeline cache (a set holding
\* the value written, or empty) and in the API server.
Effect(writes, starts, removes, stops) ==
    [writes |-> writes, starts |-> starts, removes |-> removes, stops |-> stops,
     exist |-> {}, status |-> {}, api |-> {}]

NoEffect == Effect({}, {}, {}, {})

\* An action: its effect, what it needs on the host and elsewhere (guard)
\* to succeed, and what a failed attempt may leave behind (the sub-steps
\* done before the failing one).
Act(writes, starts, needs) ==
    [eff |-> Effect(writes, starts, {}, {}), needs |-> needs, guard |-> TRUE,
     failed |-> {NoEffect}]

\* action.Template: render a file to its destination.
Template(f) == Act({f}, {}, {})

\* systemctl daemon-reload && systemctl enable s && systemctl start s
Start(s) == Act({}, {s}, {Unit[s], Bin[s]})

\* tar -zxf the docker bundle && mv docker/* /usr/bin: docker, containerd, runc.
SyncDockerBinaries == Act({"dockerBin", "containerdBin"}, {}, {})

\* mv the buildx plugin to /usr/local/lib/docker/cli-plugins.
SyncDockerBuildxPluginBinaries == Act({"buildx"}, {}, {})

SyncCriDockerdBinaries == Act({"criDockerdBin"}, {}, {})

EnableContainerdForDocker == Start("containerd")

EnableDocker == Start("docker")

EnableCriDockerd == Start("criDocker")

\* docker login for each auth entry, then copy $HOME/.docker/config.json;
\* docker login needs the daemon.
DockerLoginRegistry == Act({"dockerAuth"}, {}, {"docker"})

SyncContainerd == Act({"containerdBin"}, {}, {})

EnableContainerd == Start("containerd")

SyncCrictlBinaries == Act({"crictlBin"}, {}, {})

GenerateContainerdMirrorConfig == Act({"hosts.toml"}, {}, {})

\* DisableDocker.Execute: systemctl disable and stop docker; with docker
\* from v1.24 also cri-docker; then rm -rf runc, ctr, docker*, the shim,
\* docker.service, daemon.json, the data dir, cri-docker.service and its
\* socket, discarding every rm error. containerd, its unit and the
\* cri-dockerd binary are not touched. A failed cri-docker stop leaves
\* docker stopped.
DisableDocker ==
    LET cri == AtLeastV124 /\ ContainerManager = "docker"
        dockerStopped == Effect({}, {}, {}, {"docker"})
    IN
    [eff |-> Effect({}, {},
                    {"dockerBin", "docker.service", "daemon.json"}
                      \cup (IF cri THEN {"cri-docker.service"} ELSE {}),
                    {"docker"} \cup (IF cri THEN {"criDocker"} ELSE {})),
     needs |-> {}, guard |-> TRUE,
     failed |-> {NoEffect} \cup (IF cri THEN {dockerStopped} ELSE {})]

\* DisableContainerd (containerd.go, not under src/): disable and stop
\* containerd, then remove its binaries, unit and configuration.
DisableContainerd ==
    [eff |-> Effect({}, {}, {"containerdBin", "crictlBin", "containerd.service",
                            "config.toml"}, {"containerd"}),
     needs |-> {}, guard |-> TRUE,
     failed |-> {NoEffect}]

(***************************************************************************)
(* Tasks, in the order module.go lists them.                               *)
(***************************************************************************)
\* A task whose action depends on the host it runs on, and one whose
\* action is the same on every host.
HostTask(name, hosts, pre, A(_), retry) ==
    [name |-> name, hosts |-> hosts, pre |-> pre, act |-> [h \in Hosts |-> A(h)],
     retry |-> retry, parallel |-> TRUE]

Task(name, hosts, pre, act, retry) == HostTask(name, hosts, pre, LAMBDA h : act, retry)

\* InstallDocker
syncBinaries ==
    Task("SyncDockerBinaries", "k8s",
         {IsNot("NodeInCluster"), IsNot("DockerExist")}, SyncDockerBinaries, 2)
generateContainerdService ==
    Task("GenerateContainerdService", "k8s",
         {IsNot("NodeInCluster"), IsNot("ContainerdExist")},
         Template("containerd.service"), 0)
generateDockerService ==
    Task("GenerateDockerService", "k8s",
         {IsNot("NodeInCluster"), IsNot("DockerExist")},
         Template("docker.service"), 0)
generateDockerConfig ==
    Task("GenerateDockerConfig", "k8s",
         {IsNot("NodeInCluster"), IsNot("DockerExist")},
         Template("daemon.json"), 0)
enableContainerdForDocker ==
    Task("EnableContainerd", "k8s",
         {IsNot("NodeInCluster"), IsNot("ContainerdExist")},
         EnableContainerdForDocker, 0)
enableDocker ==
    Task("EnableDocker", "k8s",
         {IsNot("NodeInCluster"), IsNot("DockerExist")}, EnableDocker, 0)
dockerLoginRegistry ==
    Task("Login PrivateRegistry", "all",
         {IsNot("NodeInCluster"), Is("DockerExist"), Is("PrivateRegistryAuth")},
         DockerLoginRegistry, 0)
syncBuildxPluginBinaries ==
    Task("SyncDockerBuildxBinaries", "k8s",
         {Is("WithBuildxPlugin")}, SyncDockerBuildxPluginBinaries, 2)

\* Mutant: docker enabled before its daemon.json is rendered.
InstallDockerConfigAfterEnable ==
    <<syncBinaries, generateContainerdService, generateDockerService,
      enableContainerdForDocker, enableDocker, generateDockerConfig,
      dockerLoginRegistry, syncBuildxPluginBinaries>>

InstallDocker ==
    <<syncBinaries, generateContainerdService, generateDockerService,
      generateDockerConfig, enableContainerdForDocker, enableDocker,
      dockerLoginRegistry, syncBuildxPluginBinaries>>

\* InstallContainerd
\* Mutant: SyncContainerd with ContainerdExist{Not: false}.
syncContainerdWhenContainerdExists ==
    Task("SyncContainerd", "k8s",
         {IsNot("NodeInCluster"), Is("ContainerdExist")}, SyncContainerd, 2)

syncContainerd ==
    Task("SyncContainerd", "k8s",
         {IsNot("NodeInCluster"), IsNot("ContainerdExist")}, SyncContainerd, 2)
generateContainerdServiceForContainerd ==
    Task("GenerateContainerdService", "k8s",
         {IsNot("NodeInCluster"), IsNot("ContainerdExist")},
         Template("containerd.service"), 0)
\* Mutant: config.toml rendered without the ContainerdExist prepare.
generateContainerdConfigUnguarded ==
    Task("GenerateContainerdConfig", "k8s",
         {IsNot("NodeInCluster")}, Template("config.toml"), 0)

generateContainerdConfig ==
    Task("GenerateContainerdConfig", "k8s",
         {IsNot("NodeInCluster"), IsNot("ContainerdExist")},
         Template("config.toml"), 0)
enableContainerd ==
    Task("EnableContainerd", "k8s",
         {IsNot("NodeInCluster"), IsNot("ContainerdExist")}, EnableContainerd, 0)
syncCrictlBinaries ==
    Task("SyncCrictlBinaries", "k8s",
         {IsNot("NodeInCluster"), IsNot("CrictlExist")}, SyncCrictlBinaries, 2)
generateCrictlConfig ==
    Task("GenerateCrictlConfig", "k8s",
         {IsNot("NodeInCluster"), Is("CrictlExist")}, Template("crictl.yaml"), 0)
generateContainerdMirrorConfig ==
    Task("GenerateContainerdMirrorConfig", "k8s",
         {IsNot("NodeInCluster"), IsNot("ContainerdExist")},
         GenerateContainerdMirrorConfig, 0)

\* The mirror task is appended only when remote mirrors are configured.
InstallContainerd ==
    <<syncContainerd, generateContainerdServiceForContainerd,
      generateContainerdConfig, enableContainerd, syncCrictlBinaries,
      generateCrictlConfig>>
    \o (IF RemoteMirrors THEN <<generateContainerdMirrorConfig>> ELSE <<>>)

\* InstallCriDockerdModule.Init
syncCriDockerdBinaries ==
    Task("SyncCriDockerdBinaries", "k8s",
         {IsNot("CriDockerdExist"), Is("AtLeastV124")}, SyncCriDockerdBinaries, 2)
generateCriDockerdService ==
    Task("GenerateCriDockerdService", "k8s",
         {IsNot("CriDockerdExist"), Is("AtLeastV124")},
         Template("cri-docker.service"), 0)
enableCriDockerd ==
    Task("EnableCriDockerd", "k8s",
         {IsNot("CriDockerdExist"), Is("AtLeastV124")}, EnableCriDockerd, 0)
syncCrictlBinariesForCriDockerd ==
    Task("SyncCrictlBinaries", "k8s",
         {IsNot("CrictlExist"), Is("AtLeastV124")}, SyncCrictlBinaries, 2)
generateCrictlConfigForCriDockerd ==
    Task("GenerateCrictlConfig", "k8s",
         {Is("AtLeastV124")}, Template("crictl.yaml"), 0)

InstallCriDockerd ==
    <<syncCriDockerdBinaries, generateCriDockerdService, enableCriDockerd,
      syncCrictlBinariesForCriDockerd, generateCrictlConfigForCriDockerd>>

\* InstallContainerModule.Init: the task list by container manager. cri-o
\* and iSula are TODOs that leave the list empty.
ContainerTasks ==
    CASE ContainerManager = "docker"     -> InstallDocker
      [] ContainerManager = "containerd" -> InstallContainerd
      [] ContainerManager \in {"crio", "isula"} -> << >>

\* Mutant: the prepare copied from the install tasks, DockerExist{Not: true}.
disableDockerWhenAbsent ==
    Task("DisableDocker", "k8s", {IsNot("DockerExist")}, DisableDocker, 0)

\* UninstallContainerModule.Init
disableDocker ==
    Task("DisableDocker", "k8s", {Is("DockerExist")}, DisableDocker, 0)
disableContainerd ==
    Task("UninstallContainerd", "k8s", {Is("ContainerdExist")}, DisableContainerd, 0)

UninstallTasks ==
    CASE ContainerManager = "docker"     -> <<disableDocker>>
      [] ContainerManager = "containerd" -> <<disableContainerd>>
      [] ContainerManager \in {"crio", "isula"} -> << >>

\* Images.PullImages: the pull command by container manager; a pull needs
\* the command's binary and the daemon it talks to.  Every K8s host pulls
\* at least the pause image (group K8s); other roles match no group and
\* run no command, so the task is shown on the K8s hosts only.
PullCmd ==
    CASE ContainerManager \in {"crio", "containerd"} -> "crictl"
      [] ContainerManager = "isula" -> "isula"
      [] OTHER -> "docker"

PullNeeds ==
    CASE PullCmd = "docker" -> {"dockerBin", "docker"}
      [] PullCmd = "crictl" -> {"crictlBin", ContainerManager}
      [] OTHER -> {"isula"}

PullImages == Act({"images"}, {}, PullNeeds)

pullImages == Task("PullImages", "k8s", {}, PullImages, 0)

(***************************************************************************)
(* K8e actions (cmd/kk/pkg/k8e/tasks.go).                                  *)
(***************************************************************************)
\* GetClusterStatus: a master without /etc/systemd/system/k8e.service sets
\* ClusterExist false and leaves ClusterStatus alone; one with it sets
\* ClusterExist true, then fills the cached status from its searches and
\* stores it.  A failing search leaves ClusterExist set.  The searches
\* (k8e_status.go) find the token and kubeconfig the server wrote, and the
\* nodes kubectl lists while the server runs.
Searched(h) ==
    [set |-> TRUE, token |-> "k8e.yaml" \in files[h], kubeconfig |-> "k8e.yaml" \in files[h],
     nodes |-> IF "k8e" \in active[h] THEN {n \in K8sHosts : "k8e" \in active[n]} ELSE {}]

GetClusterStatus(h) ==
    LET existOnly == [NoEffect EXCEPT !.exist = {"true"}]
    IN  IF "k8e.service" \notin files[h]
        THEN [eff |-> [NoEffect EXCEPT !.exist = {"false"}], needs |-> {}, guard |-> TRUE,
              failed |-> {NoEffect}]
        ELSE [eff |-> [existOnly EXCEPT !.status = {Searched(h)}], needs |-> {},
              guard |-> cache.ClusterStatus.set, failed |-> {NoEffect, existOnly}]

\* SyncKubeBinaries: k8e, helm, then kubecni, each copied and made
\* executable (kubecni unpacked to /opt/cni/bin), then the kubectl, crictl
\* and ctr links; a failure leaves the binaries copied before it.
KubeBinaries == <<"k8eBin", "helmBin", "cniBin">>

SyncKubeBinary ==
    [eff |-> Effect({"k8eBin", "helmBin", "cniBin", "ctlLinks"}, {}, {}, {}),
     needs |-> {}, guard |-> TRUE,
     failed |-> {Effect(Range(SubSeq(KubeBinaries, 1, i)), {}, {}, {}) : i \in 0..3}]

\* chmod +x the killall and uninstall scripts.
ChmodScript == Act({}, {}, {"k8eScripts"})

\* The unit is a template of host data and the cluster configuration.
GenerateK8eService == Template("k8e.service")

\* GenerateK8eServiceEnv: needs the cached status; from v1.21 every host
\* gets cluster.NodeToken, before only the non-masters do.  The datastore
\* endpoints and certificates are configuration data.
GenerateK8eServiceEnv(h) ==
    LET token == cache.ClusterStatus.token /\ (AtLeastV121 \/ h \notin Masters)
    IN  [eff |-> Effect({"k8e.service.env"} \cup (IF token THEN {"nodeToken"} ELSE {}), {},
                        IF token THEN {} ELSE {"nodeToken"}, {}),
         needs |-> {}, guard |-> cache.ClusterStatus.set, failed |-> {NoEffect}]

\* systemctl daemon-reload && systemctl enable --now k8e; a k8e server
\* writes its kubeconfig and node token when it starts.
EnableK8eService(h) ==
    Act(IF h \in Masters THEN {"k8e.yaml"} ELSE {}, {"k8e"}, {"k8e.service", "k8eBin"})

\* CopyK8eKubeConfig: cp /etc/k8e/k8e.yaml to /root/.kube/config, then the
\* user's copy, id -u, id -g and chown; a later step can fail after the
\* first copy.
CopyK8eKubeConfig ==
    [eff |-> Effect({"kubeconfig"}, {}, {}, {}), needs |-> {"k8e.yaml"}, guard |-> TRUE,
     failed |-> {NoEffect, Effect({"kubeconfig"}, {}, {}, {})}]

\* kubectl taint nodes <host> ... --overwrite.
AddMasterTaint == [Act({}, {}, {"ctlLinks"}) EXCEPT !.guard = ApiUp]

\* kubectl label --overwrite node <w> for every worker: each must be a node.
AddWorkerLabel ==
    [Act({}, {}, {"ctlLinks"}) EXCEPT
        !.guard = ApiUp /\ \A w \in K8sHosts \ Masters : "k8e" \in active[w]]

\* SaveKubeConfig: needs the cached status's kubeconfig and the API
\* server; Create the kubekey-system namespace, then Create the kubeconfig
\* ConfigMap.  Create fails with AlreadyExists on an object that exists;
\* a failure after the first Create leaves the namespace.
SaveKubeConfig ==
    LET nsOnly == [NoEffect EXCEPT !.api = {"namespace"}]
        ready == cache.ClusterStatus.kubeconfig /\ ApiUp
    IN  [eff |-> [NoEffect EXCEPT !.api = ApiObjects], needs |-> {},
         guard |-> ready /\ api = {},
         failed |-> IF ~ready \/ "namespace" \in api THEN {NoEffect}
                    ELSE IF "configmap" \in api THEN {nsOnly}
                    ELSE {NoEffect, nsOnly}]

(***************************************************************************)
(* K8e tasks, as the k8e modules (not under src/) list them: masters,      *)
(* every K8s host, or only the first master; NodeInCluster and            *)
(* ClusterIsExist prepares keep a rerun off what is already done.          *)
(***************************************************************************)
getClusterStatus ==
    HostTask("GetClusterStatus", "masters", {}, LAMBDA h : GetClusterStatus(h), 0)

syncKubeBinary == Task("SyncKubeBinary", "k8s", {IsNot("NodeInCluster")}, SyncKubeBinary, 2)
generateK8eScripts ==
    Task("GenerateK8eScripts", "k8s", {IsNot("NodeInCluster")}, Template("k8eScripts"), 0)
chmodScript == Task("ChmodScript", "k8s", {IsNot("NodeInCluster")}, ChmodScript, 0)

\* The first master creates the cluster, unless a master reported it exists.
InitOn(name, A(_)) == HostTask(name, "first", {IsNot("ClusterIsExist")}, A, 0)
\* The other hosts join it.
JoinOn(name, hosts, A(_)) == HostTask(name, hosts, {IsNot("NodeInCluster")}, A, 0)

InitCluster ==
    << InitOn("GenerateK8eService", LAMBDA h : GenerateK8eService),
       InitOn("GenerateK8eServiceEnv", GenerateK8eServiceEnv),
       InitOn("EnableK8eService", EnableK8eService),
       InitOn("CopyK8eKubeConfig", LAMBDA h : CopyK8eKubeConfig),
       InitOn("AddMasterTaint", LAMBDA h : AddMasterTaint) >>

JoinNodes ==
    << JoinOn("GenerateK8eService", "k8s", LAMBDA h : GenerateK8eService),
       JoinOn("GenerateK8eServiceEnv", "k8s", GenerateK8eServiceEnv),
       JoinOn("EnableK8eService", "k8s", EnableK8eService),
       JoinOn("CopyK8eKubeConfig", "masters", LAMBDA h : CopyK8eKubeConfig),
       JoinOn("AddMasterTaint", "masters", LAMBDA h : AddMasterTaint),
       Task("AddWorkerLabel", "first", {}, AddWorkerLabel, 0) >>

saveKubeConfig == Task("SaveKubeConfig", "first", {}, SaveKubeConfig, 0)

(***************************************************************************)
(* CriMigrateModule (container/module.go).  Its action, MigrateSelfNodeCri,*)
(* is not under src/: a success leaves the node migrated, a failure        *)
(* leaves it as it was.  Its three tasks are the only sequential ones.     *)
(***************************************************************************)
MigrateSelfNodeCri == Act({"criMigrated"}, {}, {})

\* Mutant: the migrate tasks built without Parallel: false.
SequentialTaskParallel(name, hosts, pre, act) == Task(name, hosts, pre, act, 0)

SequentialTask(name, hosts, pre, act) ==
    [Task(name, hosts, pre, act, 0) EXCEPT !.parallel = FALSE]

\* Mutant: the master task given the worker task's prepare.
MigrateMCriOnlyWorker ==
    <<SequentialTask("MigrateMasterToDocker", "masters", {Is("OnlyWorker")}, MigrateSelfNodeCri)>>

MigrateWCri ==
    <<SequentialTask("MigrateToDocker", "workers", {Is("OnlyWorker")}, MigrateSelfNodeCri)>>
MigrateMCri ==
    <<SequentialTask("MigrateMasterToDocker", "masters", {Is("IsMaster")}, MigrateSelfNodeCri)>>
MigrateACri ==
    <<SequentialTask("MigrateMasterToDocker", "k8s", {}, MigrateSelfNodeCri)>>

\* CriMigrateModule.Init: the task list by role; any other role is a
\* logger.Fatalf that ends the process before a task runs.
MigrateTasks ==
    CASE Role = "worker" -> MigrateWCri
      [] Role = "master" -> MigrateMCri
      [] Role = "all"    -> MigrateACri

(***************************************************************************)
(* Pipelines.                                                              *)
(***************************************************************************)
Module(name, skip, tasks) ==
    [name |-> name, skip |-> skip, tasks |-> tasks, initStatus |-> FALSE]

\* The container and image part of NewAddNodesPipeline.
AddNodesPipeline ==
    << Module("InstallContainerModule", FALSE, ContainerTasks),
       Module("InstallCriDockerdModule", ContainerManager # "docker", InstallCriDockerd),
       Module("PullModule", SkipPullImages, <<pullImages>>) >>

\* The container part of the delete-cluster pipeline (--delete-cri).
DeletePipeline ==
    << Module("UninstallContainerModule", FALSE, UninstallTasks) >>

\* The K8e part of the create-cluster pipeline.  StatusModule.Init puts a
\* new K8eStatus in the pipeline cache (GetOrSet) before GetClusterStatus.
StatusModule == [Module("StatusModule", FALSE, <<getClusterStatus>>) EXCEPT !.initStatus = TRUE]

K8eCreatePipeline ==
    << StatusModule,
       Module("InstallKubeBinariesModule", FALSE,
              <<syncKubeBinary, generateK8eScripts, chmodScript>>),
       Module("InitClusterModule", FALSE, InitCluster),
       StatusModule,
       Module("JoinNodesModule", FALSE, JoinNodes),
       Module("SaveKubeConfigModule", FALSE, <<saveKubeConfig>>) >>

\* The CRI part of the migrate-cri pipeline.
MigratePipeline == << Module("CriMigrateModule", FALSE, MigrateTasks) >>

Pipeline ==
    CASE Operation = "add"     -> AddNodesPipeline
      [] Operation = "delete"  -> DeletePipeline
      [] Operation = "k8e"     -> K8eCreatePipeline
      [] Operation = "migrate" -> MigratePipeline

(***************************************************************************)
(* The task engine (spec.md 4.2 to 4.4).                                   *)
(***************************************************************************)
\* "pending": prepare not evaluated yet; "retrying": prepare passed and an
\* attempt failed.
HostStates == {"none", "pending", "retrying", "ok", "skipped", "failed"}

Tasks(m) == Pipeline[m].tasks
CurTask == Tasks(mi)[ti]

\* GetHostsByRole(common.Master)[0].
FirstMaster == CHOOSE m \in Masters : TRUE

\* The task's host selector: a role, the first master, or every host.
Selected(t) ==
    CASE t.hosts = "all"     -> Hosts
      [] t.hosts = "k8s"     -> K8sHosts
      [] t.hosts = "masters" -> Masters
      [] t.hosts = "workers" -> Workers
      [] t.hosts = "first"   -> {FirstMaster}

\* The selected hosts in the order the selector returns them.
SelectorOrder(t) == SelectSeq(Inventory, LAMBDA h : h \in Selected(t))

\* A task starts with every selected host pending.
StartTask(t) == [h \in Hosts |-> IF h \in Selected(t) THEN "pending" ELSE "none"]

NoTask == [h \in Hosts |-> "none"]
NoAttempts == [h \in Hosts |-> 0]

\* The module is over: the pipeline goes to the next one, or succeeds.
NextModule ==
    /\ mi' = mi + 1
    /\ ti' = 0
    /\ hostSt' = NoTask
    /\ pstate' = IF mi = Len(Pipeline) THEN "succeeded" ELSE "running"

\* A module whose skip predicate holds returns success at once; otherwise
\* its Init runs (StatusModule's GetOrSet of ClusterStatus) and its first
\* task starts.
ModuleStart ==
    /\ pstate = "running"
    /\ ti = 0
    /\ IF Pipeline[mi].skip \/ Tasks(mi) = << >>
          THEN NextModule /\ UNCHANGED cache
          ELSE /\ ti' = 1
               /\ hostSt' = StartTask(Tasks(mi)[1])
               /\ cache' = IF Pipeline[mi].initStatus /\ ~cache.ClusterStatus.set
                              THEN [cache EXCEPT !.ClusterStatus = NewK8eStatus]
                              ELSE cache
               /\ UNCHANGED <<mi, pstate>>
    /\ UNCHANGED <<ContainerManager, Operation, Role, files, active, stale, attempts, failures, reruns, api>>

\* The prepare says skip for host h.
HostSkip(h) ==
    /\ pstate = "running" /\ ti > 0
    /\ hostSt[h] = "pending"
    /\ ~PrepareCollection(CurTask.pre, h)
    /\ hostSt' = [hostSt EXCEPT ![h] = "skipped"]
    /\ UNCHANGED <<ContainerManager, Operation, Role, files, active, stale, mi, ti, attempts, pstate, failures, reruns, cache, api>>

\* The hosts a sequential task completes before it dispatches h.
Ahead(h) ==
    LET s == SelectorOrder(CurTask)
    IN  {s[i] : i \in {i \in DOMAIN s : \E j \in DOMAIN s : i < j /\ s[j] = h}}

\* The prepare is evaluated once; retries run the action again directly.  A
\* sequential task dispatches a host only after every host ahead of it has
\* completed.
Dispatched(h) ==
    /\ \/ hostSt[h] = "pending" /\ PrepareCollection(CurTask.pre, h)
       \/ hostSt[h] = "retrying"
    /\ CurTask.parallel \/ \A a \in Ahead(h) : hostSt[a] \in {"ok", "skipped", "failed"}

\* The value an effect writes to a cache key, or the key's current one.
Written(w, old) == IF w = {} THEN old ELSE CHOOSE v \in w : TRUE

\* Effect e happens on h. A rewritten unit or config of a running service
\* is not reloaded; a stopped service no longer runs a stale one.
Apply(h, e) ==
    /\ cache' = [ClusterExist |-> Written(e.exist, cache.ClusterExist),
                 ClusterStatus |-> Written(e.status, cache.ClusterStatus)]
    /\ api' = api \cup e.api
    /\ files' = [files EXCEPT ![h] = (@ \ e.removes) \cup e.writes]
    /\ active' = [active EXCEPT ![h] = (@ \ e.stops) \cup e.starts]
    /\ stale' = [stale EXCEPT ![h] =
                    (@ \ e.stops) \cup
                    {s \in active[h] \ e.stops : ConfigOf[s] \cap e.writes # {}}]

\* What action a needs to succeed on h holds.
Runnable(a, h) == a.needs \subseteq files[h] \cup active[h] /\ a.guard

\* A command of the current task may fail transiently: any container
\* task, and the tasks of the K8e modules in K8eFaults.
Transient == Operation # "k8e" \/ Pipeline[mi].name \in K8eFaults

\* The action succeeds on h.
HostRun(h) ==
    LET a == CurTask.act[h] IN
    /\ pstate = "running" /\ ti > 0
    /\ Dispatched(h)
    /\ Runnable(a, h)
    /\ Apply(h, a.eff)
    /\ hostSt' = [hostSt EXCEPT ![h] = "ok"]
    /\ UNCHANGED <<ContainerManager, Operation, Role, mi, ti, attempts, pstate, failures, reruns>>

\* The action fails on h, transiently or because what it needs is missing,
\* leaving what its earlier sub-steps did; it is retried until the task's
\* retry count is used up.
HostFail(h) ==
    LET a == CurTask.act[h]
        broken == ~Runnable(a, h)
    IN
    /\ pstate = "running" /\ ti > 0
    /\ Dispatched(h)
    /\ broken \/ (failures < MaxFailures /\ Transient)
    /\ failures' = IF broken THEN failures ELSE failures + 1
    /\ \E e \in a.failed : Apply(h, e)
    /\ attempts' = [attempts EXCEPT ![h] = @ + 1]
    /\ hostSt' = [hostSt EXCEPT ![h] =
                    IF attempts[h] + 1 > CurTask.retry THEN "failed" ELSE "retrying"]
    /\ UNCHANGED <<ContainerManager, Operation, Role, mi, ti, pstate, reruns>>

\* Every selected host is done: the task fails if any host failed, which
\* fails the module and the pipeline; otherwise the next task starts.
\* Mutant: the last task of a module does not end it.
TaskDoneAdvancingPastEnd ==
    /\ pstate = "running" /\ ti > 0
    /\ \A h \in Hosts : hostSt[h] \notin {"pending", "retrying"}
    /\ attempts' = NoAttempts
    /\ IF \E h \in Hosts : hostSt[h] = "failed"
          THEN /\ pstate' = "failed"
               /\ UNCHANGED <<mi, ti, hostSt>>
          ELSE IF ti > Len(Tasks(mi))
                  THEN NextModule
                  ELSE /\ ti' = ti + 1
                       /\ hostSt' = NoTask
                       /\ UNCHANGED <<mi, pstate>>
    /\ UNCHANGED <<ContainerManager, Operation, Role, files, active, stale, failures, reruns, cache, api>>

TaskDone ==
    /\ pstate = "running" /\ ti > 0
    /\ \A h \in Hosts : hostSt[h] \notin {"pending", "retrying"}
    /\ attempts' = NoAttempts
    /\ IF \E h \in Hosts : hostSt[h] = "failed"
          THEN /\ pstate' = "failed"
               /\ UNCHANGED <<mi, ti, hostSt>>
          ELSE IF ti = Len(Tasks(mi))
                  THEN NextModule
                  ELSE /\ ti' = ti + 1
                       /\ hostSt' = StartTask(Tasks(mi)[ti + 1])
                       /\ UNCHANGED <<mi, pstate>>
    /\ UNCHANGED <<ContainerManager, Operation, Role, files, active, stale, failures, reruns, cache, api>>

\* The operator runs the pipeline again after a failure; it starts from its
\* first module, with a new empty pipeline cache, on whatever the failed
\* run left on the hosts and in the API server.
Rerun ==
    /\ pstate = "failed"
    /\ reruns < MaxReruns
    /\ pstate' = "running"
    /\ mi' = 1
    /\ ti' = 0
    /\ hostSt' = NoTask
    /\ reruns' = reruns + 1
    /\ cache' = EmptyCache
    /\ UNCHANGED <<ContainerManager, Operation, Role, files, active, stale, attempts, failures, api>>

\* The pipeline has succeeded, or has failed and is not rerun.
Done ==
    /\ \/ pstate = "succeeded"
       \/ pstate = "failed" /\ reruns = MaxReruns
    /\ UNCHANGED vars

\* A host on which a runtime was installed earlier: the state InstallDocker
\* (with InstallCriDockerd from v1.24) or InstallContainerd leaves ("none":
\* a bare host).
CriDockerdRuntime ==
    IF AtLeastV124
    THEN [files |-> {"criDockerdBin", "cri-docker.service", "crictlBin", "crictl.yaml"},
          active |-> {"criDocker"}]
    ELSE [files |-> {}, active |-> {}]

Runtime(cm) ==
    CASE cm = "docker" ->
            [files |-> {"dockerBin", "containerdBin", "containerd.service",
                        "docker.service", "daemon.json"} \cup CriDockerdRuntime.files,
             active |-> {"containerd", "docker"} \cup CriDockerdRuntime.active]
      [] cm = "containerd" ->
            [files |-> {"containerdBin", "containerd.service", "config.toml",
                        "crictlBin", "crictl.yaml"},
             active |-> {"containerd"}]
      [] OTHER -> [files |-> {}, active |-> {}]

\* Hosts in the cluster run the declared runtime; a host being added is
\* bare or has one of the Preinstalled runtimes.  A K8e cluster is created
\* on bare hosts.
Init ==
    /\ ContainerManager \in ContainerManagers
    /\ Operation \in Operations
    /\ Role \in IF Operation = "migrate" THEN MigrateRoles ELSE {""}
    /\ \E pre \in [Hosts -> Preinstalled] :
          LET r(h) == Runtime(IF Operation = "k8e" THEN "none"
                              ELSE IF h \in InCluster \/ pre[h] = "declared"
                                 THEN ContainerManager ELSE pre[h])
          IN  /\ files = [h \in Hosts |-> r(h).files]
              /\ active = [h \in Hosts |-> r(h).active]
    /\ stale = [h \in Hosts |-> {}]
    /\ mi = 1
    /\ ti = 0
    /\ hostSt = NoTask
    /\ attempts = NoAttempts
    /\ pstate = "running"
    /\ failures = 0
    /\ reruns = 0
    /\ cache = EmptyCache
    /\ api = {}

HostStep(h) == HostSkip(h) \/ HostRun(h) \/ HostFail(h)

Next ==
    \/ ModuleStart
    \/ \E h \in Hosts : HostStep(h)
    \/ TaskDone
    \/ Rerun
    \/ Done

\* The engine runs to completion, the hosts of a parallel task each make
\* progress, and a failed pipeline is rerun.
Fairness ==
    /\ WF_vars(ModuleStart)
    /\ \A h \in Hosts : WF_vars(HostStep(h))
    /\ WF_vars(TaskDone)
    /\ WF_vars(Rerun)

Spec == Init /\ [][Next]_vars /\ Fairness

(***************************************************************************)
(* Properties.                                                             *)
(***************************************************************************)
TypeOK ==
    /\ ContainerManager \in ContainerManagers
    /\ Operation \in Operations
    /\ Role \in MigrateRoles \cup {""}
    /\ files \in [Hosts -> SUBSET Files]
    /\ active \in [Hosts -> SUBSET Services]
    /\ stale \in [Hosts -> SUBSET Services]
    /\ mi \in 1..Len(Pipeline) + 1
    /\ ti \in IF mi <= Len(Pipeline) THEN 0..Len(Tasks(mi)) ELSE {0}
    /\ hostSt \in [Hosts -> HostStates]
    /\ attempts \in [Hosts -> 0..3]
    /\ pstate \in {"running", "failed", "succeeded"}
    /\ failures \in 0..MaxFailures
    /\ reruns \in 0..MaxReruns
    /\ cache.ClusterExist \in {"unset", "true", "false"}
    /\ cache.ClusterStatus \in [set : BOOLEAN, token : BOOLEAN, kubeconfig : BOOLEAN,
                                nodes : SUBSET K8sHosts]
    /\ api \subseteq ApiObjects

\* What a node needs of the declared runtime once the container modules
\* succeeded: binaries, units and configuration in place, the services
\* running, the registry login and the buildx plugin when asked for, and
\* cri-dockerd for docker from v1.24 on.
RuntimeReady(h) ==
    CASE ContainerManager = "docker" ->
            /\ {"dockerBin", "containerdBin", "containerd.service",
                "docker.service", "daemon.json"} \subseteq files[h]
            /\ {"containerd", "docker"} \subseteq active[h]
            /\ RegistryAuth => "dockerAuth" \in files[h]
            /\ Buildx => "buildx" \in files[h]
      [] ContainerManager = "containerd" ->
            /\ {"containerdBin", "containerd.service", "config.toml",
                "crictlBin", "crictl.yaml"} \subseteq files[h]
            /\ "containerd" \in active[h]
            /\ RemoteMirrors => "hosts.toml" \in files[h]
      [] OTHER -> FALSE

CriDockerdReady(h) ==
    /\ {"criDockerdBin", "cri-docker.service", "crictlBin", "crictl.yaml"}
          \subseteq files[h]
    /\ "criDocker" \in active[h]

\* When the add-nodes container and image modules report success, every
\* node being added runs the declared container runtime, fully configured,
\* with docker from v1.24 every K8s host runs cri-dockerd, and unless
\* skipped every K8s host has pulled its images (InstallDocker,
\* InstallContainerd, InstallCriDockerdModule, PullModule and their
\* prepares, across failed runs and reruns).
RuntimeReadyAfterInstall ==
    Operation = "add" /\ pstate = "succeeded" =>
        /\ \A h \in K8sHosts \ InCluster : RuntimeReady(h)
        /\ ContainerManager = "docker" /\ AtLeastV124 =>
              \A h \in K8sHosts : CriDockerdReady(h)
        /\ ~SkipPullImages => \A h \in K8sHosts : "images" \in files[h]

\* No task rewrites the unit or configuration of a service that is already
\* running: the Exist prepares keep a rerun, or a node already in the
\* cluster, from changing what a running runtime was started with.
NoStaleConfig == \A h \in Hosts : stale[h] = {}

\* When the delete pipeline reports success, the declared runtime's daemon
\* runs on no K8s host, even when an earlier run failed half-way through
\* DisableDocker or DisableContainerd and the rerun re-probed the host.
DeclaredDaemon == IF ContainerManager = "docker" THEN "docker" ELSE "containerd"

DaemonStoppedAfterDelete ==
    Operation = "delete" /\ pstate = "succeeded" =>
        \A h \in K8sHosts : DeclaredDaemon \notin active[h]

\* The nodes "kk migrate cri --role" is meant to migrate: the workers that
\* are not masters, every master, or every K8s host.
RoleNodes ==
    CASE Role = "worker" -> Workers \ Masters
      [] Role = "master" -> Masters
      [] Role = "all"    -> K8sHosts

\* When the migrate pipeline reports success, exactly the nodes of the role
\* asked for have been migrated, a master that is also a worker by the
\* master role and not the worker one: CriMigrateModule.Init's choice of
\* task, each task's selector and its prepare, with the nodes migrated one
\* at a time and a failed run rerun.
MigratedAsRoleSays ==
    Operation = "migrate" /\ pstate = "succeeded" =>
        {h \in Hosts : "criMigrated" \in files[h]} = RoleNodes

\* The role's nodes in inventory order before node h.
RoleNodesBefore(h) ==
    {Inventory[i] : i \in {i \in DOMAIN Inventory :
        Inventory[i] \in RoleNodes /\ \E j \in DOMAIN Inventory : i < j /\ Inventory[j] = h}}

\* The migrate tasks are sequential (module.go:505): a step that migrates a
\* node's runtime happens only once every node of the role listed before
\* it in the inventory is migrated or has failed in this run, whatever
\* the role, the prepares that skip a master, the retries and the reruns.
MigratesInInventoryOrder ==
    [][Operation = "migrate" =>
         \A h \in Hosts :
            ("criMigrated" \notin files[h] /\ "criMigrated" \in files'[h]) =>
               \A a \in RoleNodesBefore(h) : "criMigrated" \in files[a] \/ hostSt[a] = "failed"]_vars

\* With transient failures bounded and the operator rerunning a failed
\* pipeline, the container modules eventually succeed: a rerun picks up
\* what the failed run left (tasks re-probe their preconditions).
Converges == <>(pstate = "succeeded")

====
