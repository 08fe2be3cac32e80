----------------------------- MODULE MCNodeConfig -----------------------------
(***************************************************************************)
(* What the CLI renders onto a node from the cluster configuration: the    *)
(* /etc/hosts block (EtcHosts, a state machine over reruns, crashes and    *)
(* hand edits) and the image references its pulls and runtime configs use *)
(* (Images, operators).  The two meet in the configuration's private      *)
(* registry: it names the registry host in /etc/hosts, and the images of  *)
(* the cluster carry it as their RepoAddr (images/default.go, not under    *)
(* src/, builds them so).                                                  *)
(***************************************************************************)
EXTENDS EtcHosts, Images

\* Images: namespaces of up to three characters over "k", "s" and "/", an
\* override, and ChangePrefix rewrites whose sources overlap, so that the
\* cn redirection, the library default, the override and the substring
\* rewrite all meet each other.
MCZones == {"", "cn"}
MCRepoAddrs == {"", cnRegistry, "reg.local"}
MCNamespaces == SeqOf({"k", "s"}, 2) \cup {<<"k", "/", "s">>}
MCOverrides == {<< >>, <<"o">>}
MCRewrites ==
    {NoRewrite,
     [Policy |-> "ChangePrefix", Src |-> << <<"k">> >>, Dest |-> <<"m">>],
     [Policy |-> "ChangePrefix", Src |-> << <<"k">>, <<"k", "s">> >>,
      Dest |-> <<"m", "/", "k">>],
     [Policy |-> "Other", Src |-> << <<"k">> >>, Dest |-> <<"m">>]}

\* EtcHosts: two hosts, n2 with an IPv6 address.  The second configuration
\* moves n1 and makes it the registry host, adds a host with no name, sets
\* an endpoint address, and its NodeEtcHosts names the endpoint domain; the first gives n2 a second
\* address through NodeEtcHosts (the conflict spec.md section 9 asks
\* about); the third is the first with the cn registry as its private
\* registry.  A hand-added line names n1, so the outside-the-block case is
\* reached.
MCHost(name, v4, v6) == [name |-> name, v4 |-> v4, v6 |-> v6]

MCCfg(hosts, registry, address, privateRegistry, extra) ==
    [hosts |-> hosts, master0 |-> 1, registry |-> registry, address |-> address,
     domain |-> "lb.kubesphere.local", clusterName |-> "cluster.local",
     privateRegistry |-> privateRegistry, nodeEtcHosts |-> extra]

C1 == MCCfg(<<MCHost("n1", "10.0.0.1", ""), MCHost("n2", "10.0.0.2", "fd00::2")>>,
            0, "", "", <<Blank, Entry(4, "10.0.0.9", <<"n2">>)>>)
C3 == [C1 EXCEPT !.privateRegistry = cnRegistry]
C2 == MCCfg(<<MCHost("n1", "10.0.0.3", ""), MCHost("n2", "10.0.0.2", "fd00::2"),
              MCHost("", "10.0.0.4", "")>>,
            1, "10.0.0.100", "reg.local",
            <<Entry(4, "10.0.0.8", <<"lb.kubesphere.local">>)>>)

MCConfigs == {C1, C2, C3}
MCDistroLines == <<Entry(4, "127.0.0.1", <<"localhost">>)>>
MCOwnLines == {Entry(4, "10.0.0.7", <<"mirror">>), Entry(4, "10.0.0.6", <<"n1">>)}
\* For each private registry, whether every image on it agrees, under
\* every KKZONE value (a constant, computed once).
AgreesFor == [r \in RepoAddrs |->
                \A i \in {i \in Images : i.RepoAddr = r}, zone \in Zones : NameAgrees(i, zone)]

\* Whatever the configuration in force, every image reference ImageName
\* builds for its private registry, with KKZONE unset or cn, is read by the
\* runtime that pulls it as the registry and namespace ImageRegistryAddr and
\* ImageNamespace report: the pull commands and the accessors manifests use
\* agree.  Images with a NamespaceRewrite, and images whose namespace
\* override would go to docker.io, are left out (see NameAgrees).
NameAgreesWithAccessors == AgreesFor[cfg.privateRegistry]
====
