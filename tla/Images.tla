-------------------------------- MODULE Images --------------------------------
(***************************************************************************)
(* Image references (src/cmd/kk/pkg/images/images.go).                    *)
(*                                                                         *)
(* ImageName, ImageRepo, ImageNamespace, ImageRegistryAddr and             *)
(* DefaultRegistry are operators over an Image record and the KKZONE       *)
(* environment variable.  Registry addresses, the repo and the tag are     *)
(* atoms; a namespace is a string, a sequence of characters, because the   *)
(* ChangePrefix rewrite works on substrings (strings.Contains and          *)
(* strings.ReplaceAll).  A produced reference is the sequence of its       *)
(* tokens: atoms, namespace characters and the separators "/" and ":".     *)
(*                                                                         *)
(* The KKZONE value is a parameter of every accessor.  NameAgrees compares *)
(* a reference with how a runtime reads it; MCNodeConfig asks it of every  *)
(* image and zone of the bounded inputs.                                   *)
(***************************************************************************)
EXTENDS Naturals, Sequences, SequencesExt

CONSTANTS
    Zones,        \* values of os.Getenv("KKZONE")
    RepoAddrs,    \* Registry.PrivateRegistry values ("" when unset)
    Namespaces,   \* image namespaces, as character sequences
    Overrides,    \* Registry.NamespaceOverride values, as character sequences
    Rewrites,     \* Registry.NamespaceRewrite values, or NoRewrite
    NoRewrite,    \* a nil NamespaceRewrite
    Repo,         \* an image repo name
    Tag           \* an image tag

\* images.go constants; docker.io is the registry of an unqualified name.
cnRegistry == "registry.cn-beijing.aliyuncs.com"
cnNamespaceOverride == <<"kubesphereio">>
DockerIO == "docker.io"
Library == <<"library">>

Images ==
    [RepoAddr : RepoAddrs, Namespace : Namespaces, NamespaceOverride : Overrides,
     NamespaceRewrite : Rewrites, Repo : {Repo}, Tag : {Tag}]

\* strings.Contains
StrContains(s, sub) == sub \in SubSeqs(s)

\* The KKZONE=cn redirection every accessor applies to an image without a
\* private registry (or one on the cn registry).
CnRedirect(i, zone) == zone = "cn" /\ i.RepoAddr \in {"", cnRegistry}

ImageNamespace(i, zone) ==
    LET override == IF CnRedirect(i, zone) THEN cnNamespaceOverride ELSE i.NamespaceOverride
    IN  IF override # << >> THEN override ELSE i.Namespace

ImageRegistryAddr(i, zone) ==
    LET addr == IF CnRedirect(i, zone) THEN cnRegistry ELSE i.RepoAddr
    IN  IF addr # "" THEN addr ELSE DockerIO

DefaultRegistry(zone) == IF zone = "cn" THEN cnRegistry ELSE DockerIO

\* The ChangePrefix rewrite: the last Src contained in the namespace is
\* replaced everywhere by Dest; with no match, Dest is prepended.  Another
\* policy only logs a warning.
RewriteNamespace(i) ==
    LET rw == i.NamespaceRewrite
        matches == {k \in DOMAIN rw.Src : StrContains(i.Namespace, rw.Src[k])}
        matchSrc == rw.Src[Max(matches)]
    IN  IF rw = NoRewrite \/ rw.Policy # "ChangePrefix" THEN i.Namespace
        ELSE IF matches = {} THEN rw.Dest \o <<"/">> \o i.Namespace
        ELSE ReplaceAllSubSeqs(rw.Dest, matchSrc, i.Namespace)

\* Mutant: an empty namespace on a private registry gets no library/.
ImageRepoNoLibrary(i, zone) ==
    LET addr == IF CnRedirect(i, zone) THEN cnRegistry ELSE i.RepoAddr
        override == IF CnRedirect(i, zone) THEN cnNamespaceOverride ELSE i.NamespaceOverride
        ns == RewriteNamespace(i)
        prefix ==
            CASE addr = "" /\ ns = << >> -> << >>
              [] addr = "" -> ns \o <<"/">>
              [] override # << >> -> <<addr, "/">> \o override \o <<"/">>
              [] OTHER -> <<addr, "/">> \o ns \o <<"/">>
    IN  prefix \o <<i.Repo>>

ImageRepo(i, zone) ==
    LET addr == IF CnRedirect(i, zone) THEN cnRegistry ELSE i.RepoAddr
        override == IF CnRedirect(i, zone) THEN cnNamespaceOverride ELSE i.NamespaceOverride
        ns == RewriteNamespace(i)
        prefix ==
            CASE addr = "" /\ ns = << >> -> << >>
              [] addr = "" -> ns \o <<"/">>
              [] override # << >> -> <<addr, "/">> \o override \o <<"/">>
              [] ns = << >> -> <<addr, "/">> \o Library \o <<"/">>
              [] OTHER -> <<addr, "/">> \o ns \o <<"/">>
    IN  prefix \o <<i.Repo>>

ImageName(i, zone) == ImageRepo(i, zone) \o <<":", i.Tag>>

(***************************************************************************)
(* Reference: how a container runtime reads a reference.  The first        *)
(* component is a registry when it is a registry address, and docker.io    *)
(* otherwise; a docker.io name with a single path component lives in       *)
(* library.                                                                *)
(***************************************************************************)
Registries == {cnRegistry} \cup (RepoAddrs \ {""})

\* The reference without its ":tag" suffix, split at its first "/".
RefRegistry(n) == IF n[1] \in Registries THEN n[1] ELSE DockerIO

RefPath(n) ==
    LET body == SubSeq(n, 1, Len(n) - 2)
        path == IF body[1] \in Registries THEN SubSeq(body, 3, Len(body)) ELSE body
    IN  IF RefRegistry(n) = DockerIO /\ Len(path) = 1 THEN Library \o <<"/">> \o path
        ELSE path

\* The reference ImageName builds for image i under KKZONE value zone reads,
\* in the runtime that pulls it, as the registry ImageRegistryAddr reports,
\* the namespace ImageNamespace reports (library for an empty one) and the
\* repo.  Asked of an image with no namespace rewrite whose namespace
\* override, if any, comes with a registry (ImageRepo drops the override
\* of a docker.io image).
NameAgrees(i, zone) ==
    LET name == ImageName(i, zone)
        ns == IF ImageNamespace(i, zone) = << >> THEN Library ELSE ImageNamespace(i, zone)
    IN  (/\ i.NamespaceRewrite = NoRewrite
         /\ (i.NamespaceOverride # << >> => ImageRegistryAddr(i, zone) # DockerIO))
        => /\ RefRegistry(name) = ImageRegistryAddr(i, zone)
           /\ RefPath(name) = ns \o <<"/", i.Repo>>
====
