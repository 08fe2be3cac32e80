----------------------------- MODULE KKInstance -----------------------------
(***************************************************************************)
(* The KKInstance reconciliation adapter: the per-host state machine of    *)
(* controllers/kkinstance/kkinstance_controller_phase.go.                  *)
(*                                                                         *)
(* A reconcile of one KKInstance fetches the object (status), pings the    *)
(* host, runs the phases that phaseFactory returns for the host's          *)
(* distribution in order, stops at the first phase that returns an error,  *)
(* and patches the status back.  When a deletion timestamp is set, it runs *)
(* reconcileDeletingBootstrap instead and, on success, removes the         *)
(* finalizer.  The status written by a phase is a working copy until the   *)
(* patch: a controller crash in between loses it, while what the phase did *)
(* on the remote host stays done.                                          *)
(*                                                                         *)
(* The phase functions are translated from the source; the outer Reconcile *)
(* loop, the conditions helpers and the patch are not under src/ and are   *)
(* modelled from spec.md section 4.5.                                      *)
(***************************************************************************)
EXTENDS Naturals, Sequences, FiniteSets, Functions

CONSTANTS
    Hosts,          \* the KKInstance objects (one per remote host)
    Distribution,   \* Distribution[h] \in {"KUBERNETES", "K3S"}
    NumCmds,        \* number of commands in a bootstrap payload
    MaxFailures,    \* bound on the remote-step failures of all hosts together
    MaxCrashes,     \* bound on controller restarts
    UmountMayFail   \* whether svc.UmountISO() can return an error

ASSUME /\ Distribution \in [Hosts -> {"KUBERNETES", "K3S"}]
       /\ NumCmds \in Nat \ {0}
       /\ MaxFailures \in Nat /\ MaxCrashes \in Nat
       /\ UmountMayFail \in BOOLEAN

VARIABLES
    status,     \* status[h]: the persisted status (state, conditions, finalizer)
    work,       \* work[h]: the in-memory copy a running reconcile mutates
    pc,         \* pc[h]: where the reconcile of h is
    idx,        \* idx[h]: index in PhaseList(h) of the next phase to run
    deleting,   \* deleting[h]: the object has a deletion timestamp
    finalized,  \* finalized[h]: the finalizer was removed, the object is gone
    mounted,    \* mounted[h]: the offline ISO is mounted on the host
    isoStep,    \* isoStep[h]: "none", or where reconcileRepository is after
                \* calling MountISO: "mounted" or "mountFailed"
    cmdLog,     \* cmdLog[h]: bootstrap commands that ran successfully, in order
    cleaned,    \* cleaned[h]: cleanup steps that succeeded in the last deletion pass
    failures,   \* failures[h]: remote-step failures so far (bounded)
    crashes     \* controller restarts so far (bounded)

vars == <<status, work, pc, idx, deleting, finalized, mounted, isoStep, cmdLog,
          cleaned, failures, crashes>>

States == {"Pending", "Bootstrapping", "Running", "Cleaning", "Succeeded", "Failed"}

\* A condition is unset, True, or False with a severity.
CondValues == {"Unset", "True", "Warning", "Error"}

Conds == {"Bootstrapped", "RepositoryReady", "BinariesReady", "CRIReady",
          "Provisioned", "DeletingBootstrap", "Ready"}

\* The condition each install phase sets.
CondOf == [Bootstrap        |-> "Bootstrapped",
           Repository       |-> "RepositoryReady",
           BinaryService    |-> "BinariesReady",
           ContainerManager |-> "CRIReady",
           Provisioning     |-> "Provisioned"]

Phases == DOMAIN CondOf

\* The five sub-steps of reconcileDeletingBootstrap, in order.
CleanupSteps == 1..5

Status == [state : States, cond : [Conds -> CondValues], finalizer : BOOLEAN]

PcValues == {"Idle", "Ping", "Run", "Delete", "Patch"}

-----------------------------------------------------------------------------
(* cluster-api util/conditions, as the phases use it.                       *)

IsTrue(s, c) == s.cond[c] = "True"

MarkTrue(s, c) == [s EXCEPT !.cond[c] = "True"]

MarkFalse(s, c, severity) == [s EXCEPT !.cond[c] = severity]

\* The deferred closure at the top of every phase: it marks the phase's
\* condition False with the phase's severity when the named result err is
\* non-nil, and True otherwise.
DeferMark(s, c, severity, err) ==
    IF err THEN MarkFalse(s, c, severity) ELSE MarkTrue(s, c)

-----------------------------------------------------------------------------
(* phaseFactory: the phase list of a distribution.                          *)

phaseFactorySwapped(d) ==
    CASE d = "KUBERNETES" -> <<"Bootstrap", "Repository", "BinaryService",
                               "ContainerManager", "Provisioning">>
      [] d = "K3S"        -> <<"Bootstrap", "BinaryService", "Repository",
                               "Provisioning">>

phaseFactory(d) ==
    CASE d = "KUBERNETES" -> <<"Bootstrap", "Repository", "BinaryService",
                               "ContainerManager", "Provisioning">>
      [] d = "K3S"        -> <<"Bootstrap", "Repository", "BinaryService",
                               "Provisioning">>

PhaseList(h) == phaseFactory(Distribution[h])

AtPhase(h, p) == pc[h] = "Run" /\ PhaseList(h)[idx[h]] = p

\* A remote step may still fail: the run's failure budget is not spent.
CanFail == SumFunction(failures) < MaxFailures

\* The outcomes a remote step may have: it fails only while the budget lasts.
Outcomes(h) == IF CanFail THEN BOOLEAN ELSE {FALSE}

Charge(h, err) == failures' = [failures EXCEPT ![h] = @ + (IF err THEN 1 ELSE 0)]

-----------------------------------------------------------------------------
(* The outer Reconcile loop (spec 4.5): after a phase returns, either stop  *)
(* on its error with state Failed, or go on to the next phase, or, after   *)
(* the last one, mark Ready and state Succeeded.  w is the working copy as *)
(* the phase left it.                                                       *)

PhaseDoneContinuingPastEnd(h, w, err) ==
    IF idx[h] > Len(PhaseList(h))
    THEN /\ work' = [work EXCEPT ![h] = [MarkTrue(w, "Ready") EXCEPT !.state = "Succeeded"]]
         /\ pc' = [pc EXCEPT ![h] = "Patch"]
         /\ UNCHANGED idx
    ELSE /\ work' = [work EXCEPT ![h] = w]
         /\ idx' = [idx EXCEPT ![h] = @ + 1]
         /\ UNCHANGED pc

PhaseDoneContinuing(h, w, err) ==
    IF idx[h] = Len(PhaseList(h))
    THEN /\ work' = [work EXCEPT ![h] = [MarkTrue(w, "Ready") EXCEPT !.state = "Succeeded"]]
         /\ pc' = [pc EXCEPT ![h] = "Patch"]
         /\ UNCHANGED idx
    ELSE /\ work' = [work EXCEPT ![h] = w]
         /\ idx' = [idx EXCEPT ![h] = @ + 1]
         /\ UNCHANGED pc

PhaseDone(h, w, err) ==
    IF err
    THEN /\ work' = [work EXCEPT ![h] = [w EXCEPT !.state = "Failed"]]
         /\ pc' = [pc EXCEPT ![h] = "Patch"]
         /\ UNCHANGED idx
    ELSE PhaseDoneContinuing(h, w, err)

-----------------------------------------------------------------------------
(* Reconcile start: fetch the object, then take the deletion branch or the *)
(* install branch.                                                          *)

StartReconcileIgnoringDeletion(h) ==
    /\ ~finalized[h]
    /\ pc[h] = "Idle"
    /\ work' = [work EXCEPT ![h] = status[h]]
    /\ pc' = [pc EXCEPT ![h] = "Ping"]
    /\ UNCHANGED <<status, idx, deleting, finalized, mounted, isoStep, cmdLog, cleaned,
                   failures, crashes>>

StartReconcile(h) ==
    /\ ~finalized[h]
    /\ pc[h] = "Idle"
    /\ work' = [work EXCEPT ![h] = status[h]]
    /\ pc' = [pc EXCEPT ![h] = IF deleting[h] THEN "Delete" ELSE "Ping"]
    /\ UNCHANGED <<status, idx, deleting, finalized, mounted, isoStep, cmdLog, cleaned,
                   failures, crashes>>

\* reconcilePing: up to three sshClient.Ping() attempts; the error of the
\* last one is returned.  Modelled by whether all three attempts fail; a
\* failed ping ends the reconcile with the conditions untouched.
reconcilePing(h) ==
    /\ pc[h] = "Ping"
    /\ \E err \in Outcomes(h) :
          /\ Charge(h, err)
          /\ pc' = [pc EXCEPT ![h] = IF err THEN "Patch" ELSE "Run"]
          /\ idx' = [idx EXCEPT ![h] = 1]
    /\ UNCHANGED <<status, work, deleting, finalized, mounted, isoStep, cmdLog, cleaned,
                   crashes>>

\* reconcileBootstrap: no-op if Bootstrapped is True; otherwise SetState
\* (Bootstrapping) and AddUsers, SetHostname, CreateDirectory,
\* ResetTmpDirectory, ExecInitScript, stopping at the first error.
reconcileBootstrapShadowedErr(h) ==
    /\ AtPhase(h, "Bootstrap")
    /\ \/ /\ IsTrue(work[h], "Bootstrapped")
          /\ PhaseDone(h, DeferMark(work[h], "Bootstrapped", "Warning", FALSE), FALSE)
          /\ UNCHANGED failures
       \/ /\ ~IsTrue(work[h], "Bootstrapped")
          /\ \E err \in Outcomes(h) :
                /\ Charge(h, err)
                /\ PhaseDone(h, DeferMark([work[h] EXCEPT !.state = "Bootstrapping"],
                                          "Bootstrapped", "Warning", FALSE), err)
    /\ UNCHANGED <<status, deleting, finalized, mounted, isoStep, cmdLog, cleaned, crashes>>

reconcileBootstrap(h) ==
    /\ AtPhase(h, "Bootstrap")
    /\ \/ /\ IsTrue(work[h], "Bootstrapped")
          /\ PhaseDone(h, DeferMark(work[h], "Bootstrapped", "Warning", FALSE), FALSE)
          /\ UNCHANGED failures
       \/ /\ ~IsTrue(work[h], "Bootstrapped")
          /\ \E err \in Outcomes(h) :
                /\ Charge(h, err)
                /\ PhaseDone(h, DeferMark([work[h] EXCEPT !.state = "Bootstrapping"],
                                          "Bootstrapped", "Warning", err), err)
    /\ UNCHANGED <<status, deleting, finalized, mounted, isoStep, cmdLog, cleaned, crashes>>

\* reconcileRepository: no-op if RepositoryReady is True; otherwise Check and
\* Get (an error returns before anything is mounted), then MountISO.  The
\* deferred UmountISO is registered before MountISO's error is looked at,
\* so it runs whether or not the mount succeeded; the phase then ends in
\* RepositoryUnmount.  A controller crash in between leaves the ISO as
\* MountISO left it.
RepoSteps == {"none", "check", "get", "mount"}

RepoOutcomes(h) == IF CanFail THEN RepoSteps ELSE {"none"}

reconcileRepository(h) ==
    /\ AtPhase(h, "Repository")
    /\ isoStep[h] = "none"
    /\ \/ /\ IsTrue(work[h], "RepositoryReady")
          /\ PhaseDone(h, DeferMark(work[h], "RepositoryReady", "Warning", FALSE), FALSE)
          /\ UNCHANGED <<failures, mounted, isoStep>>
       \/ /\ ~IsTrue(work[h], "RepositoryReady")
          /\ \E fail \in RepoOutcomes(h) :
                /\ Charge(h, fail # "none")
                /\ IF fail \in {"check", "get"}
                      THEN /\ PhaseDone(h, DeferMark(work[h], "RepositoryReady", "Warning", TRUE), TRUE)
                           /\ UNCHANGED <<mounted, isoStep>>
                      ELSE /\ isoStep' = [isoStep EXCEPT ![h] =
                                            IF fail = "mount" THEN "mountFailed" ELSE "mounted"]
                           /\ mounted' = [mounted EXCEPT ![h] = @ \/ fail = "none"]
                           /\ UNCHANGED <<work, pc, idx>>
    /\ UNCHANGED <<status, deleting, finalized, cmdLog, cleaned, crashes>>

\* The outcomes of the deferred `_ = svc.UmountISO()`: its error is dropped.
UmountOutcomes == IF UmountMayFail /\ CanFail THEN BOOLEAN ELSE {TRUE}

\* After MountISO: a failed mount returns its error; otherwise
\* UpdateAndInstall runs.  Then the deferred UmountISO runs, and the
\* deferred MarkTrue/MarkFalse sees only the mount or install error.  A
\* step with a failing command counts once against the failure budget.
RepositoryUnmount(h) ==
    /\ AtPhase(h, "Repository")
    /\ isoStep[h] # "none"
    /\ \E installFail \in (IF isoStep[h] = "mounted" /\ CanFail THEN BOOLEAN ELSE {FALSE}),
          umountOk \in UmountOutcomes :
          LET err == isoStep[h] = "mountFailed" \/ installFail IN
          /\ Charge(h, installFail \/ ~umountOk)
          /\ mounted' = [mounted EXCEPT ![h] = @ /\ ~umountOk]
          /\ isoStep' = [isoStep EXCEPT ![h] = "none"]
          /\ PhaseDone(h, DeferMark(work[h], "RepositoryReady", "Warning", err), err)
    /\ UNCHANGED <<status, deleting, finalized, cmdLog, cleaned, crashes>>

\* reconcileBinaryService: no-op if BinariesReady is True; otherwise
\* svc.Download(r.WaitKKInstanceTimeout).
reconcileBinaryService(h) ==
    /\ AtPhase(h, "BinaryService")
    /\ \/ /\ IsTrue(work[h], "BinariesReady")
          /\ PhaseDone(h, DeferMark(work[h], "BinariesReady", "Error", FALSE), FALSE)
          /\ UNCHANGED failures
       \/ /\ ~IsTrue(work[h], "BinariesReady")
          /\ \E err \in Outcomes(h) :
                /\ Charge(h, err)
                /\ PhaseDone(h, DeferMark(work[h], "BinariesReady", "Error", err), err)
    /\ UNCHANGED <<status, deleting, finalized, mounted, isoStep, cmdLog, cleaned, crashes>>

\* reconcileContainerManager: no-op if CRIReady is True; if svc.IsExist()
\* the installation is skipped with success; otherwise Get and Install.
reconcileContainerManager(h) ==
    /\ AtPhase(h, "ContainerManager")
    /\ \/ /\ IsTrue(work[h], "CRIReady")
          /\ PhaseDone(h, DeferMark(work[h], "CRIReady", "Error", FALSE), FALSE)
          /\ UNCHANGED failures
       \/ /\ ~IsTrue(work[h], "CRIReady")
          /\ \E exists \in BOOLEAN, err \in Outcomes(h) :
                LET e == ~exists /\ err IN
                /\ Charge(h, e)
                /\ PhaseDone(h, DeferMark(work[h], "CRIReady", "Error", e), e)
    /\ UNCHANGED <<status, deleting, finalized, mounted, isoStep, cmdLog, cleaned, crashes>>

\* reconcileProvisioning: no-op if Provisioned is True; otherwise fetch the
\* bootstrap data and its format, turn it into commands, and run them with
\* SudoCmd in order, returning at the first failing one.  pre names a
\* failure before any command runs, k the failing command (0: none).
Upto(k) == [i \in 1..k |-> i]

ProvOutcomes(h) ==
    IF CanFail
    THEN ({"none"} \X (0..NumCmds)) \cup ({"getData", "parse"} \X {0})
    ELSE {<<"none", 0>>}

CmdsRun(pre, k) ==
    IF pre # "none" THEN <<>> ELSE IF k = 0 THEN Upto(NumCmds) ELSE Upto(k - 1)

ProvisioningIgnoringCmdErrors(h) ==
    /\ AtPhase(h, "Provisioning")
    /\ \E o \in ProvOutcomes(h) :
          LET err == o[1] # "none"
              ran == IF o[1] # "none" THEN <<>>
                     ELSE SelectSeq(Upto(NumCmds), LAMBDA i : i # o[2])
          IN /\ Charge(h, err)
             /\ cmdLog' = [cmdLog EXCEPT ![h] = @ \o ran]
             /\ PhaseDone(h, DeferMark(work[h], "Provisioned", "Error", err), err)
    /\ UNCHANGED <<status, deleting, finalized, mounted, isoStep, cleaned, crashes>>

reconcileProvisioning(h) ==
    /\ AtPhase(h, "Provisioning")
    /\ \/ /\ IsTrue(work[h], "Provisioned")
          /\ PhaseDone(h, DeferMark(work[h], "Provisioned", "Error", FALSE), FALSE)
          /\ UNCHANGED <<failures, cmdLog>>
       \/ /\ ~IsTrue(work[h], "Provisioned")
          /\ \E o \in ProvOutcomes(h) :
                LET err == o /= <<"none", 0>> IN
                /\ Charge(h, err)
                /\ cmdLog' = [cmdLog EXCEPT ![h] = @ \o CmdsRun(o[1], o[2])]
                /\ PhaseDone(h, DeferMark(work[h], "Provisioned", "Error", err), err)
    /\ UNCHANGED <<status, deleting, finalized, mounted, isoStep, cleaned, crashes>>

\* reconcileDeletingBootstrap: SetState(Cleaning), then KubeadmReset,
\* ResetNetwork, RemoveFiles, DaemonReload, UninstallK3s, returning at the
\* first error; DeletingBootstrap is marked by the deferred closure.  On
\* success the outer loop removes the finalizer.  k is the failing step
\* (0: none).
DeleteOutcomes(h) == IF CanFail THEN 0..5 ELSE {0}

reconcileDeletingBootstrapIgnoringUninstall(h) ==
    /\ pc[h] = "Delete"
    /\ \E k \in DeleteOutcomes(h) :
          LET err == k \in 1..4
              w == DeferMark([work[h] EXCEPT !.state = "Cleaning"],
                             "DeletingBootstrap", "Warning", err)
          IN /\ Charge(h, k > 0)
             /\ cleaned' = [cleaned EXCEPT ![h] = IF k = 0 THEN CleanupSteps ELSE 1..(k - 1)]
             /\ work' = [work EXCEPT ![h] = IF err THEN w ELSE [w EXCEPT !.finalizer = FALSE]]
             /\ pc' = [pc EXCEPT ![h] = "Patch"]
    /\ UNCHANGED <<status, idx, deleting, finalized, mounted, isoStep, cmdLog, crashes>>

reconcileDeletingBootstrap(h) ==
    /\ pc[h] = "Delete"
    /\ \E k \in DeleteOutcomes(h) :
          LET err == k > 0
              w == DeferMark([work[h] EXCEPT !.state = "Cleaning"],
                             "DeletingBootstrap", "Warning", err)
          IN /\ Charge(h, err)
             /\ cleaned' = [cleaned EXCEPT ![h] = IF err THEN 1..(k - 1) ELSE CleanupSteps]
             /\ work' = [work EXCEPT ![h] = IF err THEN w ELSE [w EXCEPT !.finalizer = FALSE]]
             /\ pc' = [pc EXCEPT ![h] = "Patch"]
    /\ UNCHANGED <<status, idx, deleting, finalized, mounted, isoStep, cmdLog, crashes>>

-----------------------------------------------------------------------------
(* The end of a reconcile and the environment.                              *)

\* The deferred patch of the outer Reconcile: the working copy becomes the
\* persisted status; an object whose deletion timestamp is set and whose
\* finalizer is gone is removed by the API server.
PatchStatus(h) ==
    /\ pc[h] = "Patch"
    /\ status' = [status EXCEPT ![h] = work[h]]
    /\ finalized' = [finalized EXCEPT ![h] = deleting[h] /\ ~work[h].finalizer]
    /\ pc' = [pc EXCEPT ![h] = "Idle"]
    /\ UNCHANGED <<work, idx, deleting, mounted, isoStep, cmdLog, cleaned, failures, crashes>>

\* The controller process restarts: every reconcile in flight is lost with
\* its unpatched working copy; remote effects stay.
ControllerCrash ==
    /\ crashes < MaxCrashes
    /\ \E h \in Hosts : pc[h] # "Idle"
    /\ pc' = [h \in Hosts |-> "Idle"]
    /\ isoStep' = [h \in Hosts |-> "none"]
    /\ work' = status
    /\ crashes' = crashes + 1
    /\ UNCHANGED <<status, idx, deleting, finalized, mounted, cmdLog, cleaned, failures>>

\* A user deletes the object: its deletion timestamp is set.
RequestDeletion(h) ==
    /\ ~deleting[h]
    /\ deleting' = [deleting EXCEPT ![h] = TRUE]
    /\ UNCHANGED <<status, work, pc, idx, finalized, mounted, isoStep, cmdLog, cleaned,
                   failures, crashes>>

\* Every object is gone: the controller has nothing left to do.
Done ==
    /\ \A h \in Hosts : finalized[h]
    /\ UNCHANGED vars

-----------------------------------------------------------------------------

InitStatus == [state |-> "Pending", cond |-> [c \in Conds |-> "Unset"], finalizer |-> TRUE]

Init ==
    /\ status = [h \in Hosts |-> InitStatus]
    /\ work = status
    /\ pc = [h \in Hosts |-> "Idle"]
    /\ idx = [h \in Hosts |-> 1]
    /\ deleting = [h \in Hosts |-> FALSE]
    /\ finalized = [h \in Hosts |-> FALSE]
    /\ mounted = [h \in Hosts |-> FALSE]
    /\ isoStep = [h \in Hosts |-> "none"]
    /\ cmdLog = [h \in Hosts |-> <<>>]
    /\ cleaned = [h \in Hosts |-> {}]
    /\ failures = [h \in Hosts |-> 0]
    /\ crashes = 0

\* The steps of one host's reconcile: what the controller does for h.
Reconcile(h) ==
    \/ StartReconcile(h)
    \/ reconcilePing(h)
    \/ reconcileBootstrap(h)
    \/ reconcileRepository(h)
    \/ RepositoryUnmount(h)
    \/ reconcileBinaryService(h)
    \/ reconcileContainerManager(h)
    \/ reconcileProvisioning(h)
    \/ reconcileDeletingBootstrap(h)
    \/ PatchStatus(h)

Next ==
    \/ \E h \in Hosts : Reconcile(h) \/ RequestDeletion(h)
    \/ ControllerCrash
    \/ Done

\* The controller framework requeues a failed reconcile and resyncs the
\* others, so each object's reconcile keeps being taken up.  Crashes and
\* deletions are the environment's choice and get no fairness.
Fairness == \A h \in Hosts : WF_vars(Reconcile(h))

Spec == Init /\ [][Next]_vars /\ Fairness

-----------------------------------------------------------------------------
(* Properties.                                                              *)

TypeOK ==
    /\ status \in [Hosts -> Status]
    /\ work \in [Hosts -> Status]
    /\ pc \in [Hosts -> PcValues]
    /\ \A h \in Hosts : idx[h] \in 1..Len(PhaseList(h))
    /\ deleting \in [Hosts -> BOOLEAN]
    /\ finalized \in [Hosts -> BOOLEAN]
    /\ mounted \in [Hosts -> BOOLEAN]
    /\ isoStep \in [Hosts -> {"none", "mounted", "mountFailed"}]
    /\ \A h \in Hosts : cmdLog[h] \in Seq(1..NumCmds)
    /\ cleaned \in [Hosts -> SUBSET CleanupSteps]
    /\ failures \in [Hosts -> 0..MaxFailures]
    /\ crashes \in 0..MaxCrashes

\* The install order the design promises for each distribution (spec 4.5):
\* K3s has no container-manager phase.  Written independently of
\* phaseFactory so that the two can be compared.
SpecPhases(d) ==
    IF d = "K3S"
    THEN <<"Bootstrap", "Repository", "BinaryService", "Provisioning">>
    ELSE <<"Bootstrap", "Repository", "BinaryService", "ContainerManager", "Provisioning">>

CondsOfList(l) == {CondOf[l[i]] : i \in DOMAIN l}

\* Across failures, retries and crashes, the persisted True install
\* conditions of a host always form a prefix of its distribution's phase
\* order, and a condition of a phase its distribution does not run is never
\* set: phaseFactory and the stop-at-first-error loop never let a later
\* phase succeed before an earlier one, and the IsTrue early return never
\* lets a rerun lower a condition that a later one was built on.
ConditionsFollowPhaseList ==
    \A h \in Hosts :
        LET l == SpecPhases(Distribution[h]) IN
        /\ \A i, j \in DOMAIN l :
              (i < j /\ IsTrue(status[h], CondOf[l[j]])) => IsTrue(status[h], CondOf[l[i]])
        /\ \A p \in Phases : CondOf[p] \notin CondsOfList(l) => status[h].cond[CondOf[p]] = "Unset"

\* The persisted state and the conditions tell the same story: a Failed
\* host has an install condition False (the deferred MarkFalse of the phase
\* that failed), a Succeeded one has every condition True, and Ready is
\* True exactly when all install conditions of its distribution are.
StateAgreesWithConditions ==
    \A h \in Hosts :
        LET cs == CondsOfList(SpecPhases(Distribution[h])) IN
        /\ status[h].state = "Failed" => \E c \in cs : status[h].cond[c] \in {"Warning", "Error"}
        /\ status[h].state = "Succeeded" => \A c \in cs \cup {"Ready"} : IsTrue(status[h], c)
        /\ IsTrue(status[h], "Ready") <=> \A c \in cs : IsTrue(status[h], c)

\* Every mount of the offline ISO is eventually released, unless the
\* object is deleted first (the cleanup steps of reconcileDeletingBootstrap
\* are not under src/): the deferred UmountISO of reconcileRepository, or
\* of a later run of the phase, takes it down, however the mount, the
\* install or the unmount itself failed.  An implementation that returned
\* the unmount's error would fail the phase and retry it until an unmount
\* succeeds.
IsoEventuallyReleased == \A h \in Hosts : mounted[h] ~> (~mounted[h] \/ deleting[h])

\* A persisted Provisioned condition means that the last commands run on
\* the host are the whole bootstrap payload, in order: no command was
\* skipped or reordered by reconcileProvisioning's loop.
ProvisionedAfterFullPass ==
    \A h \in Hosts :
        IsTrue(status[h], "Provisioned") =>
            /\ Len(cmdLog[h]) >= NumCmds
            /\ SubSeq(cmdLog[h], Len(cmdLog[h]) - NumCmds + 1, Len(cmdLog[h])) = Upto(NumCmds)

\* The finalizer is only released (the object is gone) after all five
\* cleanup steps of reconcileDeletingBootstrap succeeded in the last pass.
FinalizedOnlyWhenClean ==
    \A h \in Hosts : finalized[h] => cleaned[h] = CleanupSteps

\* Each host eventually settles: either it is deleted and its object gone,
\* or it is not being deleted and Ready.  Failures and crashes are bounded,
\* and a Failed host is reconciled again.
Converges ==
    \A h \in Hosts :
        <>[](finalized[h] \/ (~deleting[h] /\ IsTrue(status[h], "Ready")))

====
