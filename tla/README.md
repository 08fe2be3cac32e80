# TLA+ models of kubekey

This directory holds TLA+ models of kubekey's controllers and installer
pipelines, the TLC configurations that check them, and this description.
`PROJECT.json` lists the components, the runs, the mutants that show each
property can fail, the map from every definition to the source lines it
translates, the findings and the hazards.

## 1. The system, part by part

| Part | Source | State | Operations | Interacts with |
|---|---|---|---|---|
| KKInstance reconciliation adapter | `controllers/kkinstance/kkinstance_controller_phase.go` | per-host status: state (Pending, Bootstrapping, Running, Cleaning, Succeeded, Failed), conditions (Bootstrapped, RepositoryReady, BinariesReady, CRIReady, Provisioned, DeletingBootstrap, Ready), finalizer; remote host effects | `phaseFactory`, `reconcilePing`, `reconcileBootstrap`, `reconcileRepository`, `reconcileBinaryService`, `reconcileContainerManager`, `reconcileProvisioning`, `reconcileDeletingBootstrap` | the controller runtime (requeue, patch), the remote host over SSH, the bootstrap payload |
| Control-plane helpers and condition aggregation | `unnamed/part_000` | machines, failure domains, machine conditions, KCP conditions | failure-domain selection, `updateManagedEtcdConditions`, `UpdateAgentConditions`, `aggregateFromMachinesToKCP` | workload cluster API (node Get/List) |
| Container runtime modules | `cmd/kk/pkg/container/module.go`, `docker.go` | per-host installed binaries, service files, enabled services | task lists of InstallDocker, InstallContainerd, InstallCriDockerd, Uninstall, CriMigrate; sync, enable, login, disable tasks | task engine, pipeline cache (binaries) |
| K8e tasks | `cmd/kk/pkg/k8e/tasks.go` | pipeline cache (ClusterExist, ClusterStatus), remote files | GetClusterStatus, SyncKubeBinaries, GenerateK8eServiceEnv, SaveKubeConfig, uninstall | task engine, parallel masters |
| Confirmations and helpers | `cmd/kk/pkg/bootstrap/confirm/tasks.go` | stdin | installation, delete, upgrade, migrate prompts; RefineDockerVersion; CheckFile | operator at a terminal |
| Images | `cmd/kk/pkg/images/images.go` | image references | ImageRepo (prefix rewriting), PullImages | registry settings |
| OS init and /etc/hosts | `unnamed/part_001` | a node's /etc/hosts | `GenerateHosts`; the init script's cut, squeeze and append of the kubekey block | cluster configuration, operator hand edits |
| Kubelet module, pipelines | `unnamed/part_002` to `part_004` | module lists | kubelet module, add-nodes/K3s pipelines | task engine |
| CLI, templates, e2e helpers | `cmd/kk/main.go`, `unnamed/part_005` to `part_009` | none beyond I/O | commands and flags | user |

The task, module and pipeline engine and the outer KKInstance `Reconcile`
are not under `src/`; where a model needs them they come from `spec.md`
and are marked `spec_modelled` in the map.

### What is hard in this code

* A phase's remote effects persist as soon as they happen. The condition it
  marks lives only in the reconcile's working copy until the deferred patch.
  A controller restart in between loses the condition and reruns the phase.
* The phases stop at the first error, and the next reconcile starts again at
  the first phase whose condition is not True. A partly done phase is
  redone from its start: a bootstrap payload reruns its earlier commands,
  and the cleanup steps run again.
* Resource release uses `defer` with discarded errors (`UmountISO`).
* Failures, requeues and deletion requests interleave across hosts.

## 2. Plan

In order of importance:

1. **KKInstance** (done): the per-host reconcile state machine, with crashes,
   failures and deletion. Later: an abstract "conditions only" specification
   and a refinement mapping from KKInstance to it.
2. **ConditionAggregation** (done): `UpdateAgentConditions` with its early
   return, the missing-node pass, `aggregateFromMachinesToKCP` and
   `updateManagedEtcdConditions`, over a cluster that changes between passes.
3. **ContainerInstall** (install, image pull, uninstall and CRI migration
   done): the task engine of `spec.md` 4.2-4.4 (prepares, retries, parallel
   and sequential hosts, module skip, pipeline stop, rerun) with the task
   lists of `InstallDocker`, `InstallContainerd`, `InstallCriDockerd`,
   `PullImages`, `UninstallContainer` and `CriMigrateModule`. The migrate
   action itself is neither under `src/` nor described in `spec.md` and is
   abstracted to "node migrated".
4. **Confirm** (done): the interactive prompts and `RefineDockerVersion`.
5. **ControlPlaneFailureDomains** (done): the placement helpers of the K3s
   control plane, driven by scale-up, scale-down and deletion steps.
6. **Images** (done): image references as operators.
7. **K8e tasks** (create pipeline done, in ContainerInstall): the tasks of
   `k8e/tasks.go` under the same engine, with the pipeline cache
   (`ClusterExist`, `ClusterStatus`) and the new cluster's API objects.
   `ExecUninstallScript` has no caller under `src/`.
8. **EtcHosts** (done): `GenerateHosts` and the init script's rewrite of
   `/etc/hosts`, checked with Images in one run (`MCNodeConfig`), since
   both render the cluster configuration's registry onto a node.

## 3. Modules

### KKInstance.tla / MCKKInstance.tla

The model has one reconcile per host `h`. These variables are the state:

* `status[h]`: the persisted object (state, conditions, finalizer).
* `work[h]`: the copy the running reconcile mutates.
* `pc[h]` and `idx[h]`: where the reconcile is.
* `deleting[h]` and `finalized[h]`: the deletion timestamp, and whether the
  object is gone.
* `mounted[h]`, `cmdLog[h]` and `cleaned[h]`: the remote effects that
  outlive a reconcile.
* `isoStep[h]`: whether reconcileRepository has called MountISO and not yet
  run its deferred UmountISO ("mounted" or "mountFailed"), or "none".
* `failures` and `crashes`: bounded counters of injected failures.

Actions:

| Action | Code |
|---|---|
| `ModuleStart` of `StatusModule` | `GetOrSet(ClusterStatus, NewK8eStatus())` in the module's `Init` (spec) |
| `StartReconcile` | the outer Reconcile fetching the object and choosing the deletion or install branch (spec) |
| `reconcilePing` | three ping attempts; failure ends the reconcile |
| `reconcileBootstrap`, `reconcileRepository`, `reconcileBinaryService`, `reconcileContainerManager`, `reconcileProvisioning` | the phase functions, each whole. Each has its IsTrue early return, its deferred MarkTrue/MarkFalse with the phase's severity, and its failure points. `reconcileRepository` is split in two steps at the mount: `reconcileRepository` runs the early return, Check, Get and MountISO; `RepositoryUnmount` runs UpdateAndInstall, the deferred, error-discarding UmountISO and the deferred condition mark. A crash between the two leaves the ISO mounted. `reconcileProvisioning` covers the ordered commands that stop at the first failure. |
| `PhaseDone` | the outer loop: it stops with state Failed on an error, goes to the next phase, or marks Ready with state Succeeded after the last one (spec) |
| `reconcileDeletingBootstrap` | state Cleaning and the five cleanup steps; on success the finalizer is removed |
| `PatchStatus` | the deferred patch; an object being deleted whose finalizer is gone is removed |
| `ControllerCrash` | a controller restart: every unpatched working copy is lost |
| `RequestDeletion` | a user deletes the object |

A phase is one atomic step, except reconcileRepository, which is two. It goes to the working copy, which is only
visible after `PatchStatus`, so the crash window between a phase and the
patch is modelled.

### ConditionAggregation.tla / MCConditionAggregation.tla

This module models the best-effort observability passes of `part_000`
(the K3s control-plane workload).

State:

* The workload cluster as the passes see it: `nodeRef[m]` and
  `mDeleting[m]` per machine, and the listed `nodes` with their `ready`
  and `unreach` (NoExecute unreachable taint) flags.
* The conditions the passes write, which persist between passes:
  `agent[m]`, `kcpAgent`, `etcd[m]` and `kcpEtcd`. A condition is
  `Unset`, `True` or `Unknown`, or the severity of a False condition
  (`Info`, `Warning`, `Error`).

Actions:

| Action or operator | Code |
|---|---|
| `UpdateAgentConditions` | the whole function |
| `AgentLoop`, `AgentNodeStep` | the node loop, a `FoldLeft` over the nodes in list order |
| `MissingNodePass` | the missing-node pass |
| `aggregateFromMachinesToKCP` | the aggregation, including its duplicated warnings test |
| `updateManagedEtcdConditions` | the etcd pass |
| `ProvisionMachine`, `DeleteMachine`, `NodeJoin`, `NodeLeave`, `NodeReadyChange`, `NodeTaintChange` | the cluster changing between passes |

In `UpdateAgentConditions`:

* A failed node listing marks everything Unknown.
* The node loop is a `FoldLeft` over the listed nodes, in an order the
  API chooses. A Get error returns from the whole function, so the
  accumulator carries a `returned` flag and the remaining nodes are
  skipped.
* Unless the loop returned, the missing-node pass and
  `aggregateFromMachinesToKCP` follow.

NodeRefs are unique, as they are in a healthy cluster.

### ContainerInstall.tla / MCContainerInstall.tla

A task is a record: its name, the hosts it runs on (the Kubernetes hosts or
all), its prepares (`Lit(p, not)` over the probe of a host: `NodeInCluster`,
`ContainerdExist`, `DockerExist`, `CrictlExist`, `CriDockerdExist`,
`WithBuildxPlugin`, `PrivateRegistryAuth`, `AtLeastV124`), its action and its
retry count. An action `Act(writes, starts, needs)` writes files and starts
services on a host; starting a service needs its unit and binary. The task
lists `InstallDocker`, `InstallContainerd` and `InstallCriDockerd` are
transcribed task by task from `module.go`, in the code's order and with the
code's prepares. `ContainerTasks` is the switch on the container manager,
including the empty cri-o and iSula branches.

An action's effect is `Effect(writes, starts, removes, stops)`; `Act` also
lists what a failed attempt may leave behind, so a task that fails half-way
(`DisableDocker` stopping docker but not removing its files) is modelled.
`PullImages` pulls with docker, crictl or isula by container manager and
needs that tool's binary and daemon. `DisableDocker` and `DisableContainerd`
(the latter not under `src/`) are the uninstall actions.

`Operation`, fixed in `Init`, chooses the pipeline: `AddNodesPipeline`
(`InstallContainerModule`, `InstallCriDockerdModule`, `PullModule`, the
container and image part of `NewAddNodesPipeline`), `DeletePipeline`
(`UninstallContainerModule`), `K8eCreatePipeline` or `MigratePipeline`.

`MigratePipeline` is `CriMigrateModule`. `Role` (`KubeConf.Arg.Role`,
fixed in `Init` for a migration) picks its single task as
`CriMigrateModule.Init` does:

* `MigrateWCri`: the workers, with prepare `OnlyWorker`;
* `MigrateMCri`: the masters, with prepare `IsMaster`;
* `MigrateACri`: every Kubernetes host, with no prepare.

Any other role is a `logger.Fatalf` that ends the process before a task
runs, so it has no state to check. The three tasks are the only ones in
the code with `Parallel: false`: `SequentialTask` sets the task's
`parallel` flag, and `Dispatched` then dispatches a host only when every
host `Ahead` of it in selector order (`SelectorOrder`, the inventory order
`GetHostsByRole` keeps) has completed. The action `MigrateSelfNodeCri`
and the prepares `OnlyWorker` and `IsMaster` are not under `src/`. The
action is abstracted: a success leaves the marker `criMigrated`, and a
failure changes nothing. The prepares read as their names say: a worker
that is not a master, and a master.

`K8eCreatePipeline` runs the tasks of `k8e/tasks.go`. The module lists and
their prepares are not under `src/`; they are taken from `spec.md` and the
K3s-style modules of the same pipeline:
`StatusModule` (its `Init` puts a new `K8eStatus` into the pipeline cache,
then `GetClusterStatus` runs on every master),
`InstallKubeBinariesModule` (`SyncKubeBinary` with two retries, the scripts
and `ChmodScript`, on hosts not yet in the cluster),
`InitClusterModule` (unit, environment, enable, kubeconfig copy and taint on
the first master unless a master reported the cluster exists),
`StatusModule` again,
`JoinNodesModule` (the same steps on every host not in the cached node list,
and `AddWorkerLabel`),
and `SaveKubeConfigModule`.

* `cache` is the pipeline cache of one invocation. It holds `ClusterExist`
  and the `ClusterStatus` record (`token`, `kubeconfig`, `nodes` found by
  the searches). `Rerun` starts from an empty cache.
* `api` is the set of objects `SaveKubeConfig` created in the new cluster.
* `GetClusterStatus` sets `ClusterExist` from the unit file alone and fills
  the status from the host's searches.
* `GenerateK8eServiceEnv` writes the node token to every host from v1.21,
  and before that to non-masters only.
* `SaveKubeConfig` creates the namespace and then the ConfigMap. A failure
  between them leaves the namespace behind.
* `K8eFaults` names the K8e modules whose commands may fail in a run.

No property states what a successful K8e create leaves behind. Once
`InitClusterModule` may fail, a rerun finds the unit written and skips
the init through the `ClusterIsExist` prepare of modules that are not under
`src/`, so such a property holds only with that module's failures left
out. The create pipeline is checked for `NoStaleConfig` and `Converges`.

State: the remote `files[h]` and `active[h]` of each host, `stale[h]` (a
running service whose configuration was rewritten after it started), and the
engine's position (`mi`, `ti`, `hostSt`, `attempts`, `pstate`). A host of
the current task is `pending` until its prepare is evaluated, then `ok`,
`skipped`, `failed` or `retrying`; a retry reruns the action without
evaluating the prepare again, as the engine does. `failures` and `reruns`
are model bounds.

| Action | Code |
|---|---|
| `ModuleStart` | a module starting its task list, or skipped (`InstallCriDockerdModule` unless docker) (spec) |
| `HostSkip`, `HostRun`, `HostFail` | one host of the current task: its prepares false, the action succeeding, or an attempt failing; a host fails when its attempts exceed the retry count (spec) |
| `TaskDone` | all hosts finished: the task fails if a host failed, otherwise the next task (spec) |
| `Rerun` | the operator runs the same command again after a failure, from the first module (spec) |
| `Apply` (inside `HostRun`, `HostFail`) | the files written and removed and the services started and stopped by one action, whole or up to a failing sub-step |

### Confirm.tla / MCConfirm.tla

One run of kk shows one prompt. `Init` chooses the prompt, its flags and
cache contents (`cfg`, `precheck`) and the lines on stdin. A line is its
lower-cased, trimmed word and whether it ends in a newline. `ReadString`
returns the next line, with an error when the line has no newline or
stdin is exhausted.

| Action or operator | Code |
|---|---|
| `InstallationChecks` | InstallationConfirm up to the loop: missing cache entry, stop flag (sudo, conntrack, socat, version), `--yes` |
| `UpgradeChecks` | UpgradeConfirm up to the loop: docker versions refined and compared from v1.19, pipeline-cache lookups |
| `PromptStart` | DeleteConfirm and MigrateCri asking at once; CheckFile asking only if the file exists |
| `InstallationLoop`, `DeleteConfirmLoop`, `UpgradeConfirmLoop`, `MigrateCriLoop` (through `ReturningLoop`), `CheckFileLoop` | the three kinds of read loop: fatal on a read error, returning it, or discarding it |
| `RefineDockerVersion`, `SemanticOK`, `LessThanNums` | the helper, `MustParseSemantic` and `Compare` on digit sequences |

### ControlPlaneFailureDomains.tla / MCControlPlaneFailureDomains.tla

The read-only `ControlPlane` projection of `part_000` decides where K3s
control-plane machines go. Its helpers are operators translated from the
code:

* `MachinesNeedingRollout` (not deleting, and past `rolloutAfter` or with
  an outdated spec) and `UpToDateMachines`;
* `NextFailureDomainForScaleUp`: nil without failure domains, else the
  domains with the fewest up-to-date machines;
* `FailureDomainWithMostMachines`: the domain of the oldest machine outside
  the defined domains if there is one, else the most populated domain (all
  machines counted) that holds a candidate;
* `MachineInFailureDomainWithMostMachines`, `MachineWithDeleteAnnotation`,
  `HasDeletingMachine`.

`PickMost` and `PickFewest` sort a Go map, so ties go either way: these
operators return the set of answers the code can give, and the steps pick
one with `\E`. The controller that calls the helpers is not under `src/`.
`ScaleUp`, `ScaleDown` (candidate selection: annotated outdated machines,
then any annotated machine, then outdated ones, then all), `MachineDeleted`
and `Init` (an empty control plane) follow `spec.md` and the helpers'
contracts and are marked `spec_modelled`. The operator's steps are
`EditSpec`, `SetRolloutAfter` (a deadline that has already passed),
`ChangeFailureDomains` and `Annotate`.

State: `machines`, `deleting`, per machine `fd`, `created` (a logical
clock), `version` and `annotated`; `cpFDs`, `specVersion`, `rolloutAfter`,
`clock`; `changes` bounds the operator steps, and `fdsChangedAt` is a
history variable used only by `Balanced`.

### Images.tla

`ImageName`, `ImageRepo`, `ImageNamespace`, `ImageRegistryAddr` and
`DefaultRegistry` are operators over an image record and the `KKZONE`
value. `RewriteNamespace` is the ChangePrefix rewrite: `strings.Contains`
over the namespace characters, the last matching source, then
`strings.ReplaceAll` (`ReplaceAllSubSeqs`). Registries, repo and tag are
atoms. A namespace is a sequence of characters, since the rewrite works on
substrings. A reference is a sequence of tokens. `NameAgrees(i, zone)` is
the reference reading of a name (`RefRegistry`, `RefPath`), the way a
container runtime splits it: the first component is the registry only when
it is a registry address, and single-component docker.io names live in
`library`.

### EtcHosts.tla / MCNodeConfig.tla

`GenerateHosts` is `HostLines` (two names per named host, an IPv6 line
when it has one), then `RegistryLines`, then `ExtraLines` (NodeEtcHosts,
with empty lines dropped), then `LbHost` (the endpoint address, or the
first master's IPv4). A line of `/etc/hosts` is a record: an entry, a
blank line, or one of the two markers. One run of the init script has
three actions:

* `Strip`: the greedy sed cut from the first BEGIN to the last END, which
  leaves one blank line.
* `Squeeze`: the sed that keeps two lines of any run of blanks.
* `AppendBlock`: the `cat >>` of the rendered block.

The environment has three more actions: `Crash` (the script dies between
its steps), `ApplyConfig` (the operator edits the configuration between
runs) and `OperatorAppend` (a line added by hand). `Resolve` is the files
backend's first-match lookup. spec.md section 9 asks what happens when
the inventory and NodeEtcHosts give one name two addresses. The code writes
both lines, the inventory's first, so the inventory address wins and
nothing is reported; `NamesResolveToInventory` checks that case. Both sed
commands were checked against GNU
sed on sample files.

`MCNodeConfig` extends both modules. The image records of a cluster carry
its `Registry.PrivateRegistry` as `RepoAddr`; the code that builds them
(`images/default.go`) is not under `src/`. So `NameAgreesWithAccessors`
asks `NameAgrees` of every image on the private registry of the
configuration in force, under every `KKZONE` value. `AgreesFor` is computed
once per registry.

## 4. Runs

| Run | Config | Result | Shows |
|---|---|---|---|
| `adapter_safety` | `KKInstance_safety.cfg` | pass (299k states, 50 s) | Four invariants and a liveness property hold. **ConditionsFollowPhaseList**: the persisted True conditions are a prefix of the distribution's phase order, and K3s never gets CRIReady. **StateAgreesWithConditions**: Failed means some condition is False, Succeeded means all are True, and Ready holds exactly when all install conditions are True. **ProvisionedAfterFullPass**: Provisioned True means the last commands were the whole payload. **FinalizedOnlyWhenClean**: the object goes away only after all five cleanup steps succeed. **Converges**: under weak fairness of each host's reconcile, each host eventually stays Ready or, once deleted, finalized, crash included. |
| `iso_leak` | `KKInstance_iso_leak.cfg` | violation | **IsoEventuallyReleased**: every mount is eventually released unless the object is deleted. If `UmountISO` fails, its discarded error lets RepositoryReady be marked True, and every later reconcile returns at the IsTrue check, so the ISO stays mounted for good (`kkinstance_controller_phase.go:187`). The same model that returns the unmount's error satisfies the property. |
| `aggregation_safety` | `ConditionAggregation_safety.cfg` | pass | Node Gets succeed. **KCPReportsMachineErrors**: a machine reporting Error (missing node) always has the KCP components condition Error. **OrphanNodeReported**: a listed node with no machine, while no machine is provisioning, makes the pass report Error (or Unknown on a list failure). |
| `agent_early_return` | `ConditionAggregation_early_return.cfg` | violation | A node Get failure `return`s from UpdateAgentConditions. The machine is marked Error but the KCP condition is not re-aggregated (`part_000:451`). |
| `agent_health_reporting` | `ConditionAggregation_health.cfg` | violation | **KCPHealthyReflectsNodes** (spec.md 4.6): a pass reports the KCP healthy only if every machine with a listed, reachable node is not deleting and its node is Ready. It fails in two ways. A node that is not Ready is never marked, so the machine keeps its old condition and the KCP goes True from the other machines (`part_000:457`). With that case marked, a deleting machine (Info) still leaves the KCP True, because the info branch retests the warnings set (`part_000:576`, also flagged in spec.md). With both fixed, the property holds (408k states). |
| `container_install` | `ContainerInstall_install.cfg` | pass (20k states, 12 s) | Add-nodes, delete, K8e create and CRI migration (each role), docker or containerd, hosts bare or with the runtime preinstalled, failures and reruns. **RuntimeReadyAfterInstall**: when the add pipeline succeeds, every new Kubernetes host has its runtime's binaries, configuration and running service, cri-dockerd from v1.24, and every Kubernetes host has pulled its images. **NoStaleConfig**: no service runs with a configuration written after it started. **DaemonStoppedAfterDelete**: when the delete pipeline succeeds, the declared runtime's daemon runs nowhere, even after a half-done DisableDocker and a rerun. **MigratedAsRoleSays**: when the migrate pipeline succeeds for role worker, master or all, exactly the non-master workers, the masters or all Kubernetes hosts are migrated. **Converges**: with reruns, the pipeline succeeds. **MigratesInInventoryOrder** (action property): a step that migrates a node happens only when every node of the role listed before it in the inventory is migrated or has failed in this run, with the worker and master selectors overlapping on h1, retries and reruns. |
| `containerd_mirror_skipped` | `ContainerInstall_mirror.cfg` | violation | `GenerateContainerdMirrorConfig` comes after `EnableContainerd` with the prepare "containerd absent", so it never runs and the mirror file is never written (`module.go:292`) |
| `k8e_kubeconfig_rerun` | `ContainerInstall_k8e_save.cfg` | violation | Only `SaveKubeConfigModule` may fail. After a failure between the namespace Create and the ConfigMap Create, every rerun fails at the namespace with AlreadyExists, so **Converges** fails (`k8e/tasks.go:438`) |
| `confirm_prompts` | `Confirm_prompts.cfg` | pass (142k states) | **InstallationOnlyWhenReady**: an installation goes on only with every pre-check present and ready and a supported version, with or without `--yes`. **UpgradeWarnsOnOldDocker**: the upgrade dies only on an unparsable docker version and otherwise warns exactly when a host runs docker older than 20.10.0. **ErrorReturningPromptsEnd**: the prompts that return read errors always end. |
| `checkfile_eof` | `Confirm_checkfile_eof.cfg` | violation | CheckFile discards the read error: stdin closed without yes or no loops forever (`tasks.go:370`) |
| `failure_domain_spread` | `ControlPlaneFailureDomains_scale.cfg` | pass (461k states, 40 s) | From an empty control plane, with spec edits, rollout deadlines, failure-domain changes and delete annotations. **Balanced**: once converged, the machines created since the domains last changed are spread so that no two domains differ by more than one. **EventuallyConverged**: scaling reaches the replica count with nothing being deleted or needing rollout. |
| `node_config` | `NodeConfig.cfg` | pass (7k states, 2 s) | Init-script reruns under configuration changes, hand edits and a script dying between steps. **NamesResolveToInventory**: after a completed run, every named inventory host resolves by short name and FQDN to its inventory IPv4 and IPv6 addresses, even when NodeEtcHosts gives the name another address; the endpoint domain resolves to the endpoint or to what NodeEtcHosts says of it. This is stated for names no line outside the block lists. **OwnLinesKept**: the entries outside the block are the distribution's, then the hand-added ones, in order. **BlankRunsBounded**: no run of blank lines is longer than three. **NameAgreesWithAccessors**: every image reference built for the private registry in force reads, with KKZONE unset or cn, as the registry and namespace that ImageRegistryAddr and ImageNamespace report. It is stated for images without a namespace rewrite whose override comes with a registry. |

Every property of a passing run has a mutant in `PROJECT.json`: a plausible
bug in the mapped code that TLC then finds.

* Swapping Repository and BinaryService in phaseFactory.
* A deferred closure that sees a shadowed nil error.
* A command loop that ignores errors.
* A cleanup that ignores the UninstallK3s error.
* An outer loop that runs past the last phase.
* A reconcile that ignores the deletion timestamp.
* Install tasks with a dropped or wrong prepare, a docker config written
  after docker starts, a task index running past the list.
* `--yes` tested before the stop flag, a forgotten `os.Exit` on "no",
  `RefineDockerVersion` without its "0" fix-up, a read loop that drops the
  error.
* An uninstall task whose prepare was copied from an install task.
* The master migrate task given the worker task's `OnlyWorker` prepare; the
  migrate tasks built without `Parallel: false`.
* Failure domains picked by the most machines instead of the fewest; a
  scale-down choosing its domain among all machines instead of the
  candidates; a deletion that keeps its timestamp.
* A registry image without `library/`.
* NodeEtcHosts lines ahead of the inventory's; a cut that runs to the end
  of the file; no blank-line squeeze; a registry IPv6 line written without
  an address.

## 5. Bounds

The model uses two hosts, one Kubernetes and one K3s. Together they cover
both phase lists and an interleaving of two reconciles.

* `NumCmds = 2`: enough for "command 2 fails after command 1 ran".
* `MaxFailures = 1` for the whole run: any single phase, sub-step,
  command or cleanup step of either host can fail once. The hosts share
  nothing but the controller, whose crash is the coupling that matters,
  so one failure per host would only multiply independent cases (four
  times the states); a bound of 2 for the run takes over five minutes.
* `MaxCrashes = 1`: a controller restart can fall between any phase and
  its patch, and `Converges` is checked with it.

The failure and crash counters are model bounds, not code.

ConditionAggregation has no counters; its state space is finite.

* `aggregation_safety` has one machine and three node names. So a listed
  node can have no machine while the machine has its node, and a machine
  can be provisioning while nodes exist.
* The violation runs have two machines. Their node names are
  interchangeable, and symmetry over nodes (and machines) is sound because
  no definition names one.
* Two machines with three node names in the passing run took three
  minutes. One machine keeps it to seconds. Aggregating over several
  machines is exercised by the violation runs.

ContainerInstall has two new Kubernetes hosts and one host already in the
cluster (`r1` is not a Kubernetes host: only `dockerLoginRegistry` runs on
all hosts). `MaxFailures = 3` and `MaxReruns = 3`: enough for an attempt to
fail within its retry budget, a task to fail, and the rerun to start from a
half-installed host. Both managers and both starting points (bare, runtime
preinstalled) are chosen in `Init`.

For the migration, `h1` is a master that is also a worker and `h2` a
worker, in inventory order `h1`, `h2`, `r1`. The worker and master
selectors overlap on `h1`, and the worker and all tasks have two hosts to
order.

For K8e, `h1` is the only master and `h2` a worker, both bare. The passing
run lets `StatusModule`, `InstallKubeBinariesModule` and `JoinNodesModule`
fail, so a rerun starts with a cluster, a joined or half-joined worker, or
half-synced binaries. `InitClusterModule` is left out. A failure there after
the unit is written is never redone: the rerun skips `InitCluster`
(`ClusterIsExist`) and `JoinNodes` skips the first master, which is in the
node list. TLC finds this, but it depends on prepares that are not under
`src/` (hazard at `k8e/tasks.go:314`). With two masters,
`GetClusterStatus` on a master without the unit can overwrite
`ClusterExist` true with false. A rerun then initialises the first master
again (hazard at `k8e/tasks.go:55`).

ControlPlaneFailureDomains has three replicas, four machine names (one
spare, for the surge machine of a rollout), two failure domains and
`MaxChanges = 2` operator steps. Two steps reach "domains change, then a
rollout replaces every machine", and "annotate an up-to-date machine during
a rollout". Three domains or three steps take several minutes without
symmetry; symmetry is not used because the run checks liveness. `MaxClock`
bounds the logical clock and is never reached within these bounds.

Images enumerates 384 inputs: two zones, three registries (none, the cn
registry, `reg.local`, the three the configurations use), eight namespaces of up to three characters over
`k`, `s` and `/`, two overrides, and four rewrites (none, two ChangePrefix
rewrites whose sources overlap, another policy).

EtcHosts has three configurations: two hosts, one of them with IPv6; a
move of a host's address; a nameless host; an endpoint address; a registry
host; and NodeEtcHosts lines that name an inventory host and the endpoint
domain. The distribution's file is a localhost line. There are up to two
hand-added lines, one of them naming a cluster host. `MaxRuns = 5` is
enough for a rerun after a configuration change and after a crash, and for
the blank lines of four cuts, which would exceed three without the squeeze.

Confirm has two hosts (symmetric), at most two lines on stdin over six
words (both spellings of yes and no, another word, an empty line), and five
docker versions: 18.09.1, 19.03.15, 20.10.7, 24.0.7 (a "0" component) and
an unparsable output. Two lines reach "a word, then EOF" and "a last line
without newline".

## 6. Fairness

KKInstance: `WF_vars(Reconcile(h))` for each host. controller-runtime requeues a
reconcile that returned an error and resyncs the rest, so a host whose
reconcile can step keeps being taken up. Crashes and deletion requests
belong to the environment and get no fairness. ConditionAggregation states
only safety properties and assumes no fairness.

ContainerInstall: weak fairness on module start, each host's step, task
completion and rerun. The engine runs the hosts of a parallel task in
goroutines, and those of a sequential task one after another, and waits
for them; `Rerun` stands for an operator who reruns `kk` after a failure,
an assumption that `Converges` makes explicit. Failures are bounded, so they
do not starve progress.

ControlPlaneFailureDomains: weak fairness on `ScaleUp`, `ScaleDown` and
`MachineDeleted`. The controller requeues until the control plane matches
its spec, and the infrastructure finishes a deletion. The operator steps
are bounded and get no fairness. Deadlock is not checked: a converged
control plane with no operator step left does nothing, which is correct.

NodeConfig: safety only, so no fairness. Deadlock is not checked: once the
runs and hand edits are used up, only configuration edits remain, and a
node that stops changing its /etc/hosts is correct.

Confirm: weak fairness on the single prompt process. Input is finite, so the
only way not to end is a step that changes nothing, which is what CheckFile
does at EOF.

## 7. Not modelled

* CLI parsing, shell templates, Dockerfile and e2e helpers: pure I/O.
* The content of remote commands: they are abstracted to their success or
  failure, or to a command index.
* The SSH transport: a failed call is a nondeterministic error.
* Printed text (tables, notices, warnings' wording) of the prompts; the
  `ClusterNodeCRIRuntimes` and feature-gate notices, which only print.
* What `MigrateSelfNodeCri` does to a node (drain, runtime swap, kubelet
  flags): its code is neither under `src/` nor described in `spec.md`. The
  model keeps only whether a node was migrated. That it runs again on
  nodes a failed run had already migrated is a hazard (`module.go:502`)
  that no property judges.
* `NewControlPlane`, the configuration and infrastructure lookups and
  `PatchMachines` of `part_000`: API-server reads and writes.
* `upgrade_images.go`: a phase wrapper around module lists
  (`UpgradePreCheckModule`, `UpgradeImagesModule`) that are not under
  `src/`.
* The rest of the init-OS script (swap, SELinux, sysctl, kernel modules,
  firewall): idempotent shell commands, with no state any property tells
  apart. `EnabledIPv6` has no caller under `src/`.
* The kubelet module (`part_002`): it only wires tasks to actions
  (`ChmodKubelet`, `EnableKubelet`, `GenerateKubeletEnv`, ...). Those
  actions are neither under `src/` nor described in `spec.md`, so what a
  step changes on a host cannot be translated.
* The module lists of `NewAddNodesPipeline` and the K3s variant
  (`part_004`): their modules are not under `src/`, apart from the
  container, K8e and image modules that ContainerInstall runs.
* `ExecUninstallScript` of `k8e/tasks.go`: no pipeline under `src/`
  runs it. The K8e status searches of `k8e_status.go`. That file is not under `src/`; its
  searches are abstracted to what the host's files and services show.
* The containerd that `InstallDocker` enables is still running after a
  docker delete (`docker.go:208`). The model reproduces this, but no run
  states it, because `spec.md` promises only that the declared runtime is
  removed.

Nothing else under `src/` has state that can be translated from the
code itself. `PROJECT.json` lists each
of them, with its hazards.
