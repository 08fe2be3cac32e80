--------------------- MODULE ControlPlaneFailureDomains ---------------------
(***************************************************************************)
(* Placement of K3s control-plane machines across failure domains.        *)
(*                                                                         *)
(* The read-only ControlPlane projection (src/unnamed/part_000) answers    *)
(* four questions: which machines need rollout, which are up to date, the  *)
(* failure domain for the next scale-up (fewest up-to-date machines) and   *)
(* the machine to delete on a scale-down (honour the delete annotation,    *)
(* then the oldest machine in the most populated failure domain).  The     *)
(* answers are operators here, translated from that code.  The controller  *)
(* that acts on them is not in the repository; its scale-up, scale-down    *)
(* and deletion steps are modelled from spec.md (the read-only projection  *)
(* paragraph) and marked so in the map.                                    *)
(*                                                                         *)
(* Go map iteration makes PickMost and PickFewest choose any failure       *)
(* domain among those tied, so the operators that use them yield the SET   *)
(* of answers the code can return, and the controller picks one with \E.  *)
(***************************************************************************)
EXTENDS Naturals, FiniteSets, FiniteSetsExt

CONSTANTS
    Ids,          \* machine names the controller may generate
    FDs,          \* failure domain names the infrastructure may report
    NoFD,         \* a machine created while no failure domain is defined (nil)
    Replicas,     \* KCP.Spec.Replicas
    MaxChanges    \* bound on operator changes: spec edits, rollout-after,
                  \* failure domains, delete annotations

ASSUME NoFD \notin FDs /\ Replicas \in 1..Cardinality(Ids)

VARIABLES
    machines,     \* c.Machines: owned control-plane machines
    deleting,     \* machines with a deletion timestamp
    fd,           \* machine.Spec.FailureDomain
    created,      \* machine.CreationTimestamp, as a logical clock value
    version,      \* the KCP spec generation the machine was built from
    annotated,    \* machine carries clusterv1.DeleteMachineAnnotation
    cpFDs,        \* Cluster.Status.FailureDomains.FilterControlPlane()
    specVersion,  \* the current KCP spec generation
    rolloutAfter, \* KCP.Spec.RolloutAfter, already expired, or None
    clock,        \* reconciliation time: advances with every creation
    changes,      \* operator changes made so far
    fdsChangedAt  \* history: clock value of the last failure-domain change

vars == <<machines, deleting, fd, created, version, annotated, cpFDs,
          specVersion, rolloutAfter, clock, changes, fdsChangedAt>>

None == -1
MaxClock == Cardinality(Ids) * (MaxChanges + 2)

(***************************************************************************)
(* The projection (src/unnamed/part_000).                                  *)
(***************************************************************************)

\* An unset Status.FailureDomains reads as the empty set.
FailureDomains == cpFDs

\* collections.InFailureDomains: a nil domain matches only a nil domain.
InFailureDomains(S, ids) == {m \in S : fd[m] \in ids}

\* collections.Machines.Oldest: the machine with the earliest creation.
Oldest(S) == CHOOSE m \in S : \A n \in S : created[m] <= created[n]

\* collections.ShouldRolloutAfter: the deadline has passed and the machine
\* was created before it.
ShouldRolloutAfter(m) == rolloutAfter # None /\ created[m] < rolloutAfter

\* MatchesMachineSpec: the machine was built from the current KCP spec.
MatchesMachineSpec(m) == version[m] = specVersion

MachineWithDeleteAnnotation(S) == {m \in S : annotated[m]}

HasDeletingMachine == deleting # {}

MachinesNeedingRollout ==
    {m \in machines \ deleting : ShouldRolloutAfter(m) \/ ~MatchesMachineSpec(m)}

UpToDateMachines ==
    {m \in machines : ~ShouldRolloutAfter(m) /\ MatchesMachineSpec(m)}

\* failuredomains pick: machines of S counted per known failure domain.
CountIn(f, S) == Cardinality({m \in S : fd[m] = f})

\* failuredomains.PickMost: among the domains holding a machine of S, those
\* with the most machines of all (ties in any order); nil when there is none.
PickMost(domains, all, S) ==
    LET holding == {f \in domains : \E m \in S : fd[m] = f}
    IN  IF holding = {} THEN {NoFD}
        ELSE {f \in holding : \A g \in holding : CountIn(f, all) >= CountIn(g, all)}

\* Mutant: the aggregations sorted the wrong way round.
PickFewestDescending(domains, S) ==
    {f \in domains : \A g \in domains : CountIn(f, S) >= CountIn(g, S)}

\* failuredomains.PickFewest: the domains with the fewest machines of S.
PickFewest(domains, S) ==
    {f \in domains : \A g \in domains : CountIn(f, S) <= CountIn(g, S)}

FailureDomainWithMostMachines(S) ==
    LET notInFailureDomains == S \ InFailureDomains(S, FailureDomains)
    IN  IF notInFailureDomains # {}
        THEN {fd[Oldest(notInFailureDomains)]}
        ELSE PickMost(cpFDs, machines, S)

\* Mutant: the domain is chosen over all machines, not the candidates.
MachineInFailureDomainWithMostMachinesOfAll(S) ==
    {Oldest(InFailureDomains(S, {f})) :
        f \in {g \in FailureDomainWithMostMachines(machines) : InFailureDomains(S, {g}) # {}}}

\* The machines the code can return; empty stands for its error.
MachineInFailureDomainWithMostMachines(S) ==
    {Oldest(InFailureDomains(S, {f})) :
        f \in {g \in FailureDomainWithMostMachines(S) : InFailureDomains(S, {g}) # {}}}

NextFailureDomainForScaleUp ==
    IF cpFDs = {} THEN {NoFD} ELSE PickFewest(FailureDomains, UpToDateMachines)

(***************************************************************************)
(* The controller that consumes the projection (from spec.md).             *)
(***************************************************************************)

\* Deletion candidates: annotated outdated machines, else any annotated
\* machine, else the outdated ones, else all machines.
SelectForScaleDown(outdated) ==
    CASE MachineWithDeleteAnnotation(outdated) # {} -> MachineWithDeleteAnnotation(outdated)
      [] MachineWithDeleteAnnotation(machines) # {} -> MachineWithDeleteAnnotation(machines)
      [] outdated # {} -> outdated
      [] OTHER -> machines

Init ==
    /\ machines = {}
    /\ deleting = {}
    /\ fd = [m \in Ids |-> NoFD]
    /\ created = [m \in Ids |-> 0]
    /\ version = [m \in Ids |-> 0]
    /\ annotated = [m \in Ids |-> FALSE]
    /\ cpFDs \in SUBSET FDs
    /\ specVersion = 0
    /\ rolloutAfter = None
    /\ clock = 0
    /\ changes = 0
    /\ fdsChangedAt = 0

\* Scale up: too few machines, or a rollout with no surplus yet.  Blocked
\* while a machine is being deleted.
ScaleUp ==
    /\ ~HasDeletingMachine
    /\ \/ Cardinality(machines) < Replicas
       \/ MachinesNeedingRollout # {} /\ Cardinality(machines) <= Replicas
    /\ clock < MaxClock
    /\ \E m \in Ids \ machines, f \in NextFailureDomainForScaleUp :
          /\ machines' = machines \cup {m}
          /\ fd' = [fd EXCEPT ![m] = f]
          /\ created' = [created EXCEPT ![m] = clock]
          /\ version' = [version EXCEPT ![m] = specVersion]
          /\ annotated' = [annotated EXCEPT ![m] = FALSE]
    /\ clock' = clock + 1
    /\ UNCHANGED <<deleting, cpFDs, specVersion, rolloutAfter, changes, fdsChangedAt>>

\* Scale down: a surplus, during a rollout among the outdated machines.
ScaleDown ==
    /\ ~HasDeletingMachine
    /\ Cardinality(machines) > Replicas
    /\ \E m \in MachineInFailureDomainWithMostMachines(SelectForScaleDown(MachinesNeedingRollout)) :
          deleting' = {m}
    /\ UNCHANGED <<machines, fd, created, version, annotated, cpFDs,
                   specVersion, rolloutAfter, clock, changes, fdsChangedAt>>

\* Mutant: the deletion timestamp outlives the machine.
MachineDeletedKeepingTimestamp ==
    /\ \E m \in deleting :
          /\ machines' = machines \ {m}
          /\ UNCHANGED deleting
          /\ fd' = [fd EXCEPT ![m] = NoFD]
          /\ created' = [created EXCEPT ![m] = 0]
          /\ version' = [version EXCEPT ![m] = 0]
          /\ annotated' = [annotated EXCEPT ![m] = FALSE]
    /\ UNCHANGED <<cpFDs, specVersion, rolloutAfter, clock, changes, fdsChangedAt>>

\* The infrastructure finishes deleting a machine; the name is free again
\* and the object's fields are gone with it.
MachineDeleted ==
    /\ \E m \in deleting :
          /\ machines' = machines \ {m}
          /\ deleting' = deleting \ {m}
          /\ fd' = [fd EXCEPT ![m] = NoFD]
          /\ created' = [created EXCEPT ![m] = 0]
          /\ version' = [version EXCEPT ![m] = 0]
          /\ annotated' = [annotated EXCEPT ![m] = FALSE]
    /\ UNCHANGED <<cpFDs, specVersion, rolloutAfter, clock, changes, fdsChangedAt>>

\* Operator steps: edit the KCP spec, set an already expired rollout-after,
\* change the reported failure domains, annotate a machine for deletion.
EditSpec ==
    /\ changes < MaxChanges
    /\ specVersion' = specVersion + 1
    /\ changes' = changes + 1
    /\ UNCHANGED <<machines, deleting, fd, created, version, annotated, cpFDs,
                   rolloutAfter, clock, fdsChangedAt>>

SetRolloutAfter ==
    /\ changes < MaxChanges
    /\ rolloutAfter' = clock
    /\ clock' = clock + 1
    /\ changes' = changes + 1
    /\ UNCHANGED <<machines, deleting, fd, created, version, annotated, cpFDs,
                   specVersion, fdsChangedAt>>

ChangeFailureDomains ==
    /\ changes < MaxChanges
    /\ \E S \in SUBSET FDs \ {cpFDs} : cpFDs' = S
    /\ changes' = changes + 1
    /\ fdsChangedAt' = clock
    /\ UNCHANGED <<machines, deleting, fd, created, version, annotated,
                   specVersion, rolloutAfter, clock>>

Annotate ==
    /\ changes < MaxChanges
    /\ \E m \in machines \ deleting :
          /\ ~annotated[m]
          /\ annotated' = [annotated EXCEPT ![m] = TRUE]
    /\ changes' = changes + 1
    /\ UNCHANGED <<machines, deleting, fd, created, version, cpFDs,
                   specVersion, rolloutAfter, clock, fdsChangedAt>>

Controller == ScaleUp \/ ScaleDown \/ MachineDeleted

Next == Controller \/ EditSpec \/ SetRolloutAfter \/ ChangeFailureDomains \/ Annotate

Spec == Init /\ [][Next]_vars /\ WF_vars(ScaleUp) /\ WF_vars(ScaleDown) /\ WF_vars(MachineDeleted)

TypeOK ==
    /\ machines \subseteq Ids /\ deleting \subseteq machines
    /\ fd \in [Ids -> FDs \cup {NoFD}]
    /\ created \in [Ids -> 0..MaxClock]
    /\ version \in [Ids -> 0..MaxChanges]
    /\ annotated \in [Ids -> BOOLEAN]
    /\ cpFDs \subseteq FDs
    /\ rolloutAfter \in {None} \cup 0..MaxClock
    /\ changes \in 0..MaxChanges
    /\ fdsChangedAt \in 0..MaxClock

\* Converged: the replica count is met, nothing is being deleted and no
\* machine needs rollout.
Converged ==
    /\ Cardinality(machines) = Replicas
    /\ ~HasDeletingMachine
    /\ MachinesNeedingRollout = {}

\* Balance: in a converged control plane whose machines were all created
\* since the failure domains last changed (the code never moves a machine,
\* so earlier placements may stay lopsided), no two defined domains differ
\* by more than one machine.
Balanced ==
    (Converged /\ \A m \in machines : created[m] >= fdsChangedAt)
        => \A f, g \in cpFDs : CountIn(f, machines) <= CountIn(g, machines) + 1

\* Scale-up and scale-down reach the replica count with nothing left to roll.
EventuallyConverged == <>[]Converged
====
