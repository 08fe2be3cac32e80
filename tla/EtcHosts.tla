------------------------------- MODULE EtcHosts -------------------------------
(***************************************************************************)
(* The cluster's /etc/hosts entries on one node (src/unnamed/part_001).    *)
(*                                                                         *)
(* GenerateHosts turns the cluster configuration into the list of lines    *)
(* the init-OS script template renders between its "# kubekey hosts BEGIN" *)
(* and "# kubekey hosts END" markers.  Each run of the script rewrites     *)
(* /etc/hosts in three steps: a sed that cuts everything from the first    *)
(* BEGIN to the last END (greedy, over the whole file), a sed that keeps   *)
(* at most two consecutive blank lines, and a cat >> that appends the new  *)
(* block.  The script may die between its steps (the SSH session drops),   *)
(* the operator may edit the configuration between runs, and lines may be  *)
(* added to the file by hand.                                              *)
(*                                                                         *)
(* A line of the file is a record: an entry (address family, address and  *)
(* the names on the line), a blank line, or one of the two markers.        *)
(* Addresses and names are strings; fmt.Sprintf joins a host name and the  *)
(* cluster name with a dot, as \o does here.                               *)
(***************************************************************************)
EXTENDS Naturals, Sequences, SequencesExt

CONSTANTS
    Configs,       \* cluster configurations the operator may apply
    InitConfig,    \* the configuration of the first run
    DistroLines,   \* /etc/hosts as the distribution ships it
    OwnLines,      \* entries an operator may append by hand
    MaxOwn,        \* bound on hand-added entries
    MaxRuns,       \* bound on runs of the init script
    NoConfig       \* no completed run

\* registry.RegistryCertificateBaseName
RegistryCertificateBaseName == "dockerhub.kubekey.local"

Entry(fam, ip, names) == [kind |-> "entry", fam |-> fam, ip |-> ip, names |-> names]
Marker(k) == [kind |-> k, fam |-> 0, ip |-> "", names |-> << >>]
Blank == Marker("blank")
Begin == Marker("begin")
End == Marker("end")

VARIABLES
    cfg,       \* the configuration the next run renders
    file,      \* /etc/hosts, a sequence of lines
    pc,        \* "idle", or where the running script is: "stripped", "squeezed"
    runs,      \* runs of the script started so far
    own,       \* the entries appended by hand, in order
    applied    \* the configuration of the last run that completed; NoConfig
               \* while a run is under way or after one died

vars == <<cfg, file, pc, runs, own, applied>>

(***************************************************************************)
(* GenerateHosts                                                           *)
(***************************************************************************)
\* One line per named host, and one more when it has an IPv6 address, each
\* giving "<name>.<cluster name> <name>".
HostLines(c) ==
    LET named == SelectSeq(c.hosts, LAMBDA h : h.name # "")
        lines(h) ==
            LET ns == <<h.name \o "." \o c.clusterName, h.name>>
            IN  <<Entry(4, h.v4, ns)>> \o
                (IF h.v6 # "" THEN <<Entry(6, h.v6, ns)>> ELSE << >>)
    IN  FlattenSeq([i \in 1..Len(named) |-> lines(named[i])])

\* Mutant: the IPv6 line written whether or not the host has an address.
RegistryLinesAlwaysV6(c) ==
    IF c.registry = 0 THEN << >>
    ELSE LET r == c.hosts[c.registry]
             n == IF c.privateRegistry # "" THEN c.privateRegistry
                  ELSE RegistryCertificateBaseName
         IN  <<Entry(4, r.v4, <<n>>), Entry(6, r.v6, <<n>>)>>

\* The first registry host under the private registry's host name, or the
\* registry certificate's name when none is set.
RegistryLines(c) ==
    IF c.registry = 0 THEN << >>
    ELSE LET r == c.hosts[c.registry]
             n == IF c.privateRegistry # "" THEN c.privateRegistry
                  ELSE RegistryCertificateBaseName
         IN  <<Entry(4, r.v4, <<n>>)>> \o
             (IF r.v6 # "" THEN <<Entry(6, r.v6, <<n>>)>> ELSE << >>)

\* NodeEtcHosts split at newlines, each line trimmed, empty ones dropped.
ExtraLines(c) == SelectSeq(c.nodeEtcHosts, LAMBDA l : l # Blank)

\* The control-plane endpoint: its address, or the first master's IPv4.
LbHost(c) ==
    Entry(4, IF c.address # "" THEN c.address ELSE c.hosts[c.master0].v4,
          <<c.domain>>)

\* Mutant: the NodeEtcHosts lines ahead of the inventory's.
GenerateHostsExtraFirst(c) == ExtraLines(c) \o HostLines(c) \o RegistryLines(c) \o <<LbHost(c)>>

GenerateHosts(c) == HostLines(c) \o RegistryLines(c) \o ExtraLines(c) \o <<LbHost(c)>>

\* The block the template renders.
HostsBlock(c) == <<Begin>> \o GenerateHosts(c) \o <<End>>

(***************************************************************************)
(* The script's three edits of /etc/hosts                                  *)
(***************************************************************************)
\* Mutant: the cut runs to the end of the file (no END in the pattern).
StripToEnd(f) ==
    LET b == SelectInSeq(f, LAMBDA l : l = Begin)
    IN  IF b # 0 THEN SubSeq(f, 1, b - 1) \o <<Blank>> ELSE f

\* sed ':a;$!{N;ba};s@# kubekey hosts BEGIN.*# kubekey hosts END@@': the
\* whole file is one pattern space, so the cut runs from the first BEGIN to
\* the last END after it and leaves the empty line the two markers' lines
\* were on.  Without such a pair the file is unchanged.
StripBlock(f) ==
    LET b == SelectInSeq(f, LAMBDA l : l = Begin)
        e == SelectLastInSeq(f, LAMBDA l : l = End)
    IN  IF b # 0 /\ b < e
           THEN SubSeq(f, 1, b - 1) \o <<Blank>> \o SubSeq(f, e + 1, Len(f))
           ELSE f

RECURSIVE SqueezeFrom(_, _)
SqueezeFrom(kept, rest) ==
    IF rest = << >> THEN kept
    ELSE LET l == Head(rest)
             third == /\ l = Blank /\ Len(kept) >= 2
                      /\ kept[Len(kept)] = Blank /\ kept[Len(kept) - 1] = Blank
         IN  SqueezeFrom(IF third THEN kept ELSE Append(kept, l), Tail(rest))

\* Mutant: no squeeze.
SqueezeNothing(f) == f

\* sed '/^$/N;/\n$/N;//D': of every run of blank lines the first two stay.
SqueezeBlanks(f) == SqueezeFrom(<< >>, f)

(***************************************************************************)
(* Actions                                                                 *)
(***************************************************************************)
\* The operator edits the configuration between pipeline runs.
ApplyConfig(c) ==
    /\ pc = "idle"
    /\ cfg' = c
    /\ UNCHANGED <<file, pc, runs, own, applied>>

\* The script starts and its first sed cuts the old block.
Strip ==
    /\ pc = "idle"
    /\ runs < MaxRuns
    /\ file' = StripBlock(file)
    /\ pc' = "stripped"
    /\ runs' = runs + 1
    /\ applied' = NoConfig
    /\ UNCHANGED <<cfg, own>>

Squeeze ==
    /\ pc = "stripped"
    /\ file' = SqueezeBlanks(file)
    /\ pc' = "squeezed"
    /\ UNCHANGED <<cfg, runs, own, applied>>

\* cat >>/etc/hosts appends the block rendered from the configuration.
AppendBlock ==
    /\ pc = "squeezed"
    /\ file' = file \o HostsBlock(cfg)
    /\ pc' = "idle"
    /\ applied' = cfg
    /\ UNCHANGED <<cfg, runs, own>>

\* The script dies between two of its steps.
Crash ==
    /\ pc \in {"stripped", "squeezed"}
    /\ pc' = "idle"
    /\ UNCHANGED <<cfg, file, runs, own, applied>>

\* A line appended by hand (echo ... >> /etc/hosts) while no script runs.
OperatorAppend(l) ==
    /\ pc = "idle"
    /\ Len(own) < MaxOwn
    /\ file' = Append(file, l)
    /\ own' = Append(own, l)
    /\ UNCHANGED <<cfg, pc, runs, applied>>

Init ==
    /\ cfg = InitConfig
    /\ file = DistroLines
    /\ pc = "idle"
    /\ runs = 0
    /\ own = << >>
    /\ applied = NoConfig

Next ==
    \/ \E c \in Configs : ApplyConfig(c)
    \/ Strip \/ Squeeze \/ AppendBlock \/ Crash
    \/ \E l \in OwnLines : OperatorAppend(l)

Spec == Init /\ [][Next]_vars

(***************************************************************************)
(* Properties                                                              *)
(***************************************************************************)
\* The address a lookup of name n in family fam gets: the files backend
\* returns the first entry line that lists n.
Resolve(f, fam, n) ==
    LET i == SelectInSeq(f, LAMBDA l : l.kind = "entry" /\ l.fam = fam /\ n \in ToSet(l.names))
    IN  IF i = 0 THEN "" ELSE f[i].ip

IsEntry(l) == l.kind = "entry"

\* The entry lines outside the kubekey block (all of them when there is none).
Outside(f) ==
    LET b == SelectInSeq(f, LAMBDA l : l = Begin)
        e == SelectLastInSeq(f, LAMBDA l : l = End)
        rest == IF b # 0 /\ b < e THEN SubSeq(f, 1, b - 1) \o SubSeq(f, e + 1, Len(f)) ELSE f
    IN  SelectSeq(rest, IsEntry)

TypeOK ==
    /\ cfg \in Configs
    /\ pc \in {"idle", "stripped", "squeezed"}
    /\ runs \in 0..MaxRuns
    /\ own \in Seq(OwnLines) /\ Len(own) <= MaxOwn
    /\ applied \in Configs \cup {NoConfig}
    /\ \A i \in DOMAIN file :
         /\ file[i].kind \in {"entry", "blank", "begin", "end"}
         /\ file[i].kind = "entry" =>
              file[i].fam \in {4, 6} /\ file[i].ip # "" /\ Len(file[i].names) > 0
              /\ "" \notin ToSet(file[i].names)

\* After a run of the init script completes, and until the configuration
\* changes, every named inventory host resolves on the node, by its short
\* name and by its cluster FQDN, to the addresses the inventory gives it,
\* even when NodeEtcHosts gives the same name another address; the
\* control-plane domain resolves to the endpoint (or to what NodeEtcHosts
\* says of it).  Stated for the names no line outside the block lists.
NamesResolveToInventory ==
    (pc = "idle" /\ applied = cfg) =>
        /\ \A i \in DOMAIN cfg.hosts :
             LET h == cfg.hosts[i]
                 names == {h.name, h.name \o "." \o cfg.clusterName}
             IN  (h.name # "" /\ \A l \in ToSet(Outside(file)) : names \cap ToSet(l.names) = {})
                 => \A n \in names :
                      /\ Resolve(file, 4, n) = h.v4
                      /\ h.v6 # "" => Resolve(file, 6, n) = h.v6
        /\ (\A l \in ToSet(Outside(file)) : cfg.domain \notin ToSet(l.names)) =>
             Resolve(file, 4, cfg.domain) \in
                {IF cfg.address # "" THEN cfg.address ELSE cfg.hosts[cfg.master0].v4}
                \cup {l.ip : l \in {l \in ToSet(cfg.nodeEtcHosts) : cfg.domain \in ToSet(l.names)}}

\* Rewriting the block keeps every line the distribution and the operator
\* wrote, in their order, however the runs, crashes and hand edits
\* interleave: the entries outside the block are the distribution's
\* followed by the hand-added ones.
OwnLinesKept ==
    Outside(file) = SelectSeq(DistroLines, IsEntry) \o own

\* Reruns do not grow the file: the squeeze keeps two blank lines of a run
\* and a cut the script died after adds at most one more, so no run of
\* blank lines is ever longer than three.
BlankRunsBounded ==
    \A i \in 1..(Len(file) - 3) :
        ~(\A k \in i..(i + 3) : file[k] = Blank)
====
