------------------------- MODULE ConditionAggregation -------------------------
(***************************************************************************)
(* The best-effort observability passes of the K3s control-plane          *)
(* workload (src/unnamed/part_000): UpdateAgentConditions marks each       *)
(* control-plane machine's AgentHealthy condition from its node and        *)
(* aggregates them into the KCP's ControlPlaneComponentsHealthy condition; *)
(* updateManagedEtcdConditions marks each machine's EtcdMemberHealthy      *)
(* condition.  Conditions persist across calls; between calls the          *)
(* workload cluster changes (nodes join, leave, become Ready or            *)
(* unreachable; machines get a node or start deleting).                    *)
(*                                                                         *)
(* A condition value is "Unset", "True", "Unknown", or the severity of a   *)
(* False condition ("Info", "Warning", "Error").                           *)
(***************************************************************************)
EXTENDS Naturals, FiniteSets, Sequences, SequencesExt

CONSTANTS
    Machines,      \* control-plane machines of the KCP
    Nodes,         \* control-plane node names
    NoNode,        \* the nil NodeRef of a machine still provisioning
    ListMayFail,   \* whether getControlPlaneNodes can return an error
    GetMayFail     \* whether the per-node Get can fail

ASSUME NoNode \notin Nodes /\ ListMayFail \in BOOLEAN /\ GetMayFail \in BOOLEAN

VARIABLES
    nodeRef,     \* nodeRef[m]: Status.NodeRef of machine m, or NoNode
    mDeleting,   \* mDeleting[m]: machine m has a deletion timestamp
    nodes,       \* the control-plane nodes the workload cluster lists
    ready,       \* ready[n]: node n's NodeReady condition is True
    unreach,     \* unreach[n]: node n has the unreachable NoExecute taint
    agent,       \* agent[m]: MachineAgentHealthy condition of m
    kcpAgent,    \* ControlPlaneComponentsHealthy condition of the KCP
    etcd,        \* etcd[m]: MachineEtcdMemberHealthy condition of m
    kcpEtcd      \* EtcdClusterHealthy condition of the KCP

env == <<nodeRef, mDeleting, nodes, ready, unreach>>
conds == <<agent, kcpAgent, etcd, kcpEtcd>>
vars == <<env, conds>>

CondValues == {"Unset", "True", "Unknown", "Info", "Warning", "Error"}

\* The outcome of w.Client.Get for one node: found, IsNotFound, other error.
GetResults == IF GetMayFail THEN {"ok", "notfound", "error"} ELSE {"ok"}

-----------------------------------------------------------------------------
(* Helpers.                                                                 *)

hasProvisioningMachineAnyRef ==
    \E m \in Machines : nodeRef[m] # NoNode

\* hasProvisioningMachine: some machine has no NodeRef yet.
hasProvisioningMachine ==
    \E m \in Machines : nodeRef[m] = NoNode

\* nodeHasUnreachableTaint.
nodeHasUnreachableTaint(n) == unreach[n]

\* The machine whose NodeRef names n (NodeRefs are unique).
HasMachine(n) == \E m \in Machines : nodeRef[m] = n
MachineOf(n) == CHOOSE m \in Machines : nodeRef[m] = n

-----------------------------------------------------------------------------
(* aggregateFromMachinesToKCP: group the machines by the status and        *)
(* severity of their condition, then report errors, then warnings, then    *)
(* info, then true, then unknown; with no machine in any group the KCP      *)
(* condition is left as it was (cur).  kcpErrors: the caller found nodes    *)
(* without machines.                                                        *)

With(mc, v) == {m \in Machines : mc[m] = v}

aggregateFromMachinesToKCPNoMachineErrors(mc, kcpErrors, cur) ==
    IF kcpErrors THEN "Error"
    ELSE IF With(mc, "Warning") # {} THEN "Warning"
    ELSE IF With(mc, "Warning") # {} THEN "Warning"
    ELSE IF With(mc, "True") # {} THEN "True"
    ELSE IF With(mc, "Unknown") # {} THEN "Unknown"
    ELSE cur

\* The info branch tests the warnings group a second time (part_000:576),
\* so it can never be taken; it would also mark severity Warning.
aggregateFromMachinesToKCP(mc, kcpErrors, cur) ==
    IF With(mc, "Error") # {} \/ kcpErrors THEN "Error"
    ELSE IF With(mc, "Warning") # {} THEN "Warning"
    ELSE IF With(mc, "Warning") # {} THEN "Warning"
    ELSE IF With(mc, "True") # {} THEN "True"
    ELSE IF With(mc, "Unknown") # {} THEN "Unknown"
    ELSE cur

-----------------------------------------------------------------------------
(* UpdateAgentConditions, one node of the loop over controlPlaneNodes.     *)
(* acc carries the machine conditions, whether a node without machine was  *)
(* found (kcpErrors), and whether the function has returned: a node Get    *)
(* error returns from the whole function, not from the node.               *)

AgentNodeStep(get, acc, n) ==
    IF acc.returned THEN acc
    ELSE IF ~HasMachine(n)
         THEN IF hasProvisioningMachine THEN acc ELSE [acc EXCEPT !.kcpErrors = TRUE]
    ELSE LET m == MachineOf(n) IN
         IF mDeleting[m] THEN [acc EXCEPT !.mc[m] = "Info"]
         ELSE IF nodeHasUnreachableTaint(n) THEN [acc EXCEPT !.mc[m] = "Unknown"]
         ELSE IF get[n] = "notfound" THEN [acc EXCEPT !.mc[m] = "Error", !.returned = TRUE]
         ELSE IF get[n] = "error" THEN [acc EXCEPT !.mc[m] = "Unknown", !.returned = TRUE]
         ELSE IF ready[n] THEN [acc EXCEPT !.mc[m] = "True"]
         ELSE acc

MissingNodePassWarning(mc) ==
    [m \in Machines |-> IF nodeRef[m] # NoNode /\ nodeRef[m] \notin nodes
                        THEN "Warning" ELSE mc[m]]

\* Provisioned machines whose node is not listed are marked False, Error.
MissingNodePass(mc) ==
    [m \in Machines |-> IF nodeRef[m] # NoNode /\ nodeRef[m] \notin nodes
                        THEN "Error" ELSE mc[m]]

AgentLoop(order, get) ==
    FoldLeft(LAMBDA acc, n : AgentNodeStep(get, acc, n),
             [mc |-> agent, kcpErrors |-> FALSE, returned |-> FALSE], order)

\* The whole call: on a list error everything is Unknown; otherwise the
\* node loop (nodes in the order the API returns them), then, unless it
\* returned early, the missing-node pass and the aggregation.
UpdateAgentConditions ==
    /\ \/ /\ ListMayFail
          /\ agent' = [m \in Machines |-> "Unknown"]
          /\ kcpAgent' = "Unknown"
       \/ \E order \in SetToSeqs(nodes), get \in [nodes -> GetResults] :
            LET r == AgentLoop(order, get) IN
            IF r.returned
            THEN agent' = r.mc /\ UNCHANGED kcpAgent
            ELSE /\ agent' = MissingNodePass(r.mc)
                 /\ kcpAgent' = aggregateFromMachinesToKCP(MissingNodePass(r.mc),
                                                           r.kcpErrors, kcpAgent)
    /\ UNCHANGED <<env, etcd, kcpEtcd>>

\* updateManagedEtcdConditions: on a list error every machine and the KCP
\* are Unknown; otherwise each listed node's machine is marked Info if it
\* is deleting and True otherwise.  Nothing else is marked.
updateManagedEtcdConditions ==
    /\ \/ /\ ListMayFail
          /\ etcd' = [m \in Machines |-> "Unknown"]
          /\ kcpEtcd' = "Unknown"
       \/ /\ etcd' = [m \in Machines |->
                        IF nodeRef[m] \in nodes
                        THEN IF mDeleting[m] THEN "Info" ELSE "True"
                        ELSE etcd[m]]
          /\ UNCHANGED kcpEtcd
    /\ UNCHANGED <<env, agent, kcpAgent>>

-----------------------------------------------------------------------------
(* The workload cluster and the machine controller between two passes.     *)

\* A machine gets its NodeRef (NodeRefs are unique).
ProvisionMachine(m, n) ==
    /\ nodeRef[m] = NoNode /\ ~mDeleting[m] /\ ~HasMachine(n)
    /\ nodeRef' = [nodeRef EXCEPT ![m] = n]
    /\ UNCHANGED <<mDeleting, nodes, ready, unreach, conds>>

DeleteMachine(m) ==
    /\ ~mDeleting[m]
    /\ mDeleting' = [mDeleting EXCEPT ![m] = TRUE]
    /\ UNCHANGED <<nodeRef, nodes, ready, unreach, conds>>

\* A node registers (not yet Ready, no taint) or is removed.
NodeJoin(n) ==
    /\ n \notin nodes
    /\ nodes' = nodes \cup {n}
    /\ ready' = [ready EXCEPT ![n] = FALSE]
    /\ unreach' = [unreach EXCEPT ![n] = FALSE]
    /\ UNCHANGED <<nodeRef, mDeleting, conds>>

NodeLeave(n) ==
    /\ n \in nodes
    /\ nodes' = nodes \ {n}
    /\ UNCHANGED <<nodeRef, mDeleting, ready, unreach, conds>>

\* The node's Ready condition or its unreachable taint flips.
NodeReadyChange(n) ==
    /\ n \in nodes
    /\ ready' = [ready EXCEPT ![n] = ~@]
    /\ UNCHANGED <<nodeRef, mDeleting, nodes, unreach, conds>>

NodeTaintChange(n) ==
    /\ n \in nodes
    /\ unreach' = [unreach EXCEPT ![n] = ~@]
    /\ UNCHANGED <<nodeRef, mDeleting, nodes, ready, conds>>

Init ==
    /\ nodeRef = [m \in Machines |-> NoNode]
    /\ mDeleting = [m \in Machines |-> FALSE]
    /\ nodes = {}
    /\ ready = [n \in Nodes |-> FALSE]
    /\ unreach = [n \in Nodes |-> FALSE]
    /\ agent = [m \in Machines |-> "Unset"]
    /\ kcpAgent = "Unset"
    /\ etcd = [m \in Machines |-> "Unset"]
    /\ kcpEtcd = "Unset"

Next ==
    \/ UpdateAgentConditions
    \/ updateManagedEtcdConditions
    \/ \E m \in Machines, n \in Nodes : ProvisionMachine(m, n)
    \/ \E m \in Machines : DeleteMachine(m)
    \/ \E n \in Nodes : NodeJoin(n) \/ NodeLeave(n) \/ NodeReadyChange(n) \/ NodeTaintChange(n)

Spec == Init /\ [][Next]_vars

-----------------------------------------------------------------------------
(* Properties.                                                              *)

\* Types; a machine's AgentHealthy condition is never given severity
\* Warning (the per-node checks use Info, Error or Unknown).
TypeOK ==
    /\ nodeRef \in [Machines -> Nodes \cup {NoNode}]
    /\ mDeleting \in [Machines -> BOOLEAN]
    /\ nodes \subseteq Nodes
    /\ ready \in [Nodes -> BOOLEAN] /\ unreach \in [Nodes -> BOOLEAN]
    /\ agent \in [Machines -> CondValues \ {"Warning"}]
    /\ kcpAgent \in CondValues
    /\ etcd \in [Machines -> CondValues] /\ kcpEtcd \in CondValues

\* Whenever some machine reports its agent unhealthy with severity Error
\* (its node is missing), the KCP's ControlPlaneComponentsHealthy
\* condition says Error too: UpdateAgentConditions never changes machine
\* conditions without re-aggregating them into the KCP.
KCPReportsMachineErrors ==
    (\E m \in Machines : agent[m] = "Error") => kcpAgent = "Error"

\* A control-plane node with no machine, while no machine is still
\* provisioning, makes a successful agent pass report the KCP condition
\* Error (kcpErrors and hasProvisioningMachine in UpdateAgentConditions).
OrphanNodeReported ==
    [][UpdateAgentConditions =>
         (((\E n \in nodes : \A m \in Machines : nodeRef[m] # n)
             /\ (\A m \in Machines : nodeRef[m] # NoNode))
            => kcpAgent' \in {"Error", "Unknown"})]_vars

\* An agent pass reports the control-plane components healthy only when
\* the machines it could inspect are: every machine whose node is listed
\* and reachable is not being deleted and its node is Ready (spec.md 4.6:
\* per node the agent and the node's Ready condition are checked and the
\* machine and cluster conditions marked accordingly; info dominates
\* true).  Both the machine condition a pass leaves in place and the
\* KCP aggregation of UpdateAgentConditions are involved.
KCPHealthyReflectsNodes ==
    [][UpdateAgentConditions /\ kcpAgent' = "True" =>
         \A m \in Machines :
            nodeRef[m] \in nodes /\ ~unreach[nodeRef[m]] =>
                ~mDeleting[m] /\ ready[nodeRef[m]]]_vars

====
