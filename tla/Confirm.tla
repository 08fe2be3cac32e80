------------------------------- MODULE Confirm -------------------------------
(***************************************************************************)
(* The interactive confirmations of cmd/kk/pkg/bootstrap/confirm/tasks.go: *)
(* InstallationConfirm, DeleteConfirm, UpgradeConfirm, CheckFile and       *)
(* MigrateCri, and the RefineDockerVersion helper UpgradeConfirm uses.     *)
(*                                                                         *)
(* Each run of kk shows one of the prompts. Its configuration (the node    *)
(* pre-check results in the host caches, the pipeline cache, the          *)
(* versions, the flags) and what the operator types on stdin are chosen   *)
(* in Init; the prompt then checks its preconditions and reads lines until *)
(* it returns, exits or fails.                                             *)
(*                                                                         *)
(* A line is abstracted to its lower-cased, trimmed word; the last line    *)
(* may lack its newline, in which case bufio.Reader.ReadString returns it  *)
(* together with io.EOF. After the input ReadString returns "" and io.EOF. *)
(***************************************************************************)
EXTENDS Naturals, Sequences, FiniteSets, SequencesExt

CONSTANTS
    Hosts,          \* runtime.GetAllHosts()
    Prompts,        \* the confirmation actions a run may show
    Words,          \* words the operator may type
    MaxLines,       \* bound on the lines on stdin
    DockerVersions  \* `docker version` outputs the pre-check may record

VARIABLES
    prompt,    \* the confirmation action of this run
    cfg,       \* flags, versions and cache contents it reads
    precheck,  \* precheck[h]: host h's NodePreCheck cache entry
    stdin,     \* lines not yet read
    pc,        \* "start", "loop" or "done"
    warned,    \* the old-docker warning was printed
    result     \* how the action ended

vars == <<prompt, cfg, precheck, stdin, pc, warned, result>>

(***************************************************************************)
(* Versions. A `docker version` output is either unparsable or a record   *)
(* of its dot-separated numeric components, each a sequence of digits.    *)
(***************************************************************************)
\* The regexp did not match (a version has at least one component).
NoParse == << >>

\* strings.TrimPrefix(c, "0"): drops one leading zero.
TrimPrefixZero(c) == IF c # << >> /\ Head(c) = 0 THEN Tail(c) ELSE c

\* Mutant: the empty-component fix-up is forgotten.
RefineDockerVersionNoZeroFix(v) ==
    IF v = NoParse THEN NoParse
    ELSE [i \in 1..Len(v) |-> TrimPrefixZero(v[i])]

\* RefineDockerVersion: the numeric components of the regexp match with a
\* leading zero trimmed, and an emptied component turned back into "0".
RefineDockerVersion(v) ==
    IF v = NoParse THEN NoParse
    ELSE [i \in 1..Len(v) |->
            IF TrimPrefixZero(v[i]) = << >> THEN <<0>> ELSE TrimPrefixZero(v[i])]

\* versionutil.MustParseSemantic accepts exactly three components, each
\* non-empty and without a leading zero unless it is "0"; it panics otherwise.
SemanticOK(v) ==
    /\ v # NoParse
    /\ Len(v) = 3
    /\ \A i \in 1..3 : v[i] # << >> /\ (Head(v[i]) = 0 => Len(v[i]) = 1)

Num(c) == FoldLeft(LAMBDA acc, d : 10 * acc + d, 0, c)

\* Compare(...) == -1: lexicographic on the numeric values.
RECURSIVE LessThanNums(_, _)
LessThanNums(a, b) ==
    IF a = << >> THEN FALSE
    ELSE IF Head(a) # Head(b) THEN Head(a) < Head(b)
         ELSE LessThanNums(Tail(a), Tail(b))

SemanticLess(v, w) ==
    LessThanNums([i \in 1..3 |-> Num(v[i])], [i \in 1..3 |-> Num(w[i])])

V20_10_0 == << <<2, 0>>, <<1, 0>>, <<0>> >>

(***************************************************************************)
(* Configuration and input.                                                *)
(***************************************************************************)

\* Input on stdin: full lines, the last one possibly without its newline.
Stdins ==
    UNION {{s \in [1..k -> [w : Words, nl : BOOLEAN]] :
               \A i \in 1..k - 1 : s[i].nl} : k \in 0..MaxLines}

\* No NodePreCheck entry in the host cache.
Missing == [absent |-> TRUE]

\* NodePreCheck entries: which of the required tools a host has, and its
\* docker version (the empty set when it has none). Only the fields a prompt reads are varied; the other
\* prompts do not read the host caches.
PreChecks(p) ==
    {Missing} \cup
    CASE p = "InstallationConfirm" ->
            [sudo : BOOLEAN, conntrack : BOOLEAN, socat : BOOLEAN, docker : {{}}]
      [] p = "UpgradeConfirm" ->
            [sudo : {TRUE}, conntrack : {TRUE}, socat : {TRUE},
             docker : {{}} \cup {{v} : v \in DockerVersions}]
      [] OTHER -> {}

UpgradeKeys == {"ClusterNodeStatus", "K8sVersion", "KubeSphereVersion"}

\* The flags and cache contents a prompt reads.
Configs(p) ==
    CASE p = "InstallationConfirm" ->
            [installPackages : BOOLEAN, skipConfirmCheck : BOOLEAN,
             versionSupported : BOOLEAN, atLeastV119 : {FALSE},
             ksEnabled : {FALSE}, missingKey : {"none"}, fileExists : {FALSE}]
      [] p = "UpgradeConfirm" ->
            [installPackages : {FALSE}, skipConfirmCheck : {FALSE},
             versionSupported : {TRUE}, atLeastV119 : BOOLEAN,
             ksEnabled : BOOLEAN, missingKey : {"none"} \cup UpgradeKeys,
             fileExists : {FALSE}]
      [] OTHER ->
            [installPackages : {FALSE}, skipConfirmCheck : {FALSE},
             versionSupported : {TRUE}, atLeastV119 : {FALSE},
             ksEnabled : {FALSE}, missingKey : {"none"}, fileExists : BOOLEAN]

Results == {"none", "ok", "exit0", "exit1", "error", "crash"}

Init ==
    /\ prompt \in Prompts
    /\ cfg \in Configs(prompt)
    /\ precheck \in [Hosts -> PreChecks(prompt)]
    /\ stdin \in Stdins
    /\ pc = "start"
    /\ warned = FALSE
    /\ result = "none"

(***************************************************************************)
(* The checks before the prompt.                                           *)
(***************************************************************************)
Finish(r) == pc' = "done" /\ result' = r

\* A host lacks one of the tools the installation needs.
Unready(pre) == ~(pre.sudo /\ pre.conntrack /\ pre.socat)

\* Mutant: --yes is honoured before the stop flag.
InstallationChecksSkipFirst ==
    /\ pc = "start" /\ prompt = "InstallationConfirm"
    /\ IF \E h \in Hosts : precheck[h] = Missing THEN Finish("error")
       ELSE IF cfg.skipConfirmCheck THEN Finish("ok")
       ELSE IF \/ ~cfg.installPackages /\ \E h \in Hosts : Unready(precheck[h])
               \/ ~cfg.versionSupported
            THEN Finish("exit1")
       ELSE pc' = "loop" /\ UNCHANGED result
    /\ UNCHANGED <<prompt, cfg, precheck, stdin, warned>>

\* InstallationConfirm up to its loop: every host must have a pre-check
\* entry; without --with-packages a host missing sudo, conntrack or socat,
\* or an unsupported Kubernetes version, sets stopFlag and exits 1;
\* --yes (SkipConfirmCheck) returns without asking.
InstallationChecks ==
    /\ pc = "start" /\ prompt = "InstallationConfirm"
    /\ IF \E h \in Hosts : precheck[h] = Missing THEN Finish("error")
       ELSE IF \/ ~cfg.installPackages /\ \E h \in Hosts : Unready(precheck[h])
               \/ ~cfg.versionSupported
            THEN Finish("exit1")
       ELSE IF cfg.skipConfirmCheck THEN Finish("ok")
       ELSE pc' = "loop" /\ UNCHANGED result
    /\ UNCHANGED <<prompt, cfg, precheck, stdin, warned>>

\* The docker versions of the hosts that run docker.
DockerOf == UNION {precheck[h].docker : h \in Hosts}

\* The first part of UpgradeConfirm: from v1.19 on, each host's docker
\* version is refined and compared with 20.10.0, a version that cannot be
\* refined is fatal and one MustParseSemantic rejects panics; then the
\* pipeline cache must hold the node status, the current Kubernetes version
\* and, with KubeSphere enabled, its version.
UpgradeChecks ==
    LET refined == {RefineDockerVersion(v) : v \in DockerOf}
        missing == \/ cfg.missingKey \in {"ClusterNodeStatus", "K8sVersion"}
                   \/ cfg.missingKey = "KubeSphereVersion" /\ cfg.ksEnabled
    IN
    /\ pc = "start" /\ prompt = "UpgradeConfirm"
    /\ IF \E h \in Hosts : precheck[h] = Missing THEN Finish("error") /\ UNCHANGED warned
       ELSE IF cfg.atLeastV119 /\ \E v \in refined : ~SemanticOK(v)
            THEN Finish("crash") /\ UNCHANGED warned
       ELSE /\ warned' = (cfg.atLeastV119 /\ \E v \in refined : SemanticLess(v, V20_10_0))
            /\ IF missing THEN Finish("error") ELSE pc' = "loop" /\ UNCHANGED result
    /\ UNCHANGED <<prompt, cfg, precheck, stdin>>

\* DeleteConfirm and MigrateCri ask at once; CheckFile asks only when the
\* file exists.
PromptStart ==
    /\ pc = "start"
    /\ prompt \in {"DeleteConfirm", "MigrateCri", "CheckFile"}
    /\ IF prompt = "CheckFile" /\ ~cfg.fileExists THEN Finish("ok")
       ELSE pc' = "loop" /\ UNCHANGED result
    /\ UNCHANGED <<prompt, cfg, precheck, stdin, warned>>

(***************************************************************************)
(* The prompt loops. Each step prints the question and reads one line.     *)
(***************************************************************************)

\* reader.ReadString('\n'): the next line, with io.EOF when it has no newline
\* or when the input is exhausted.
ReadString == IF stdin = << >> THEN [w |-> "", err |-> TRUE]
              ELSE [w |-> Head(stdin).w, err |-> ~Head(stdin).nl]

Consume == stdin' = IF stdin = << >> THEN << >> ELSE Tail(stdin)

\* Mutant: the answer "no" is recorded but the loop goes on (no os.Exit).
AnswerNoWithoutExit(w) ==
    CASE w \in {"yes", "y"} -> Finish("ok")
      [] w \in {"no", "n"}  -> result' = "exit0" /\ UNCHANGED pc
      [] OTHER              -> UNCHANGED <<pc, result>>

\* The switch on the answer: yes or y confirms, no or n exits 0, anything
\* else asks again.
Answer(w) ==
    CASE w \in {"yes", "y"} -> Finish("ok")
      [] w \in {"no", "n"}  -> Finish("exit0")
      [] OTHER              -> UNCHANGED <<pc, result>>

\* InstallationConfirm's loop: a read error is fatal (exit 1).
InstallationLoop ==
    /\ pc = "loop" /\ prompt = "InstallationConfirm"
    /\ Consume
    /\ IF ReadString.err THEN Finish("exit1") ELSE Answer(ReadString.w)
    /\ UNCHANGED <<prompt, cfg, precheck, warned>>

\* Mutant: the read error is dropped, as CheckFile does.
ReturningLoopIgnoringErr(p) ==
    /\ pc = "loop" /\ prompt = p
    /\ Consume
    /\ Answer(ReadString.w)
    /\ UNCHANGED <<prompt, cfg, precheck, warned>>

\* The loop shared by DeleteConfirm, UpgradeConfirm and MigrateCri: a read
\* error is returned.
ReturningLoop(p) ==
    /\ pc = "loop" /\ prompt = p
    /\ Consume
    /\ IF ReadString.err THEN Finish("error") ELSE Answer(ReadString.w)
    /\ UNCHANGED <<prompt, cfg, precheck, warned>>

DeleteConfirmLoop == ReturningLoop("DeleteConfirm")

UpgradeConfirmLoop == ReturningLoop("UpgradeConfirm")

MigrateCriLoop == ReturningLoop("MigrateCri")

\* CheckFile's loop: the read error is discarded and an empty answer is
\* asked again.
CheckFileLoop ==
    /\ pc = "loop" /\ prompt = "CheckFile"
    /\ Consume
    /\ IF ReadString.w # "" THEN Answer(ReadString.w) ELSE UNCHANGED <<pc, result>>
    /\ UNCHANGED <<prompt, cfg, precheck, warned>>

\* The action has returned or the process has exited.
Done ==
    /\ pc = "done"
    /\ UNCHANGED vars

Next ==
    \/ InstallationChecks
    \/ UpgradeChecks
    \/ PromptStart
    \/ InstallationLoop
    \/ DeleteConfirmLoop
    \/ UpgradeConfirmLoop
    \/ MigrateCriLoop
    \/ CheckFileLoop
    \/ Done

\* The process keeps running the action it is in.
Spec == Init /\ [][Next]_vars /\ WF_vars(Next)

(***************************************************************************)
(* Properties.                                                             *)
(***************************************************************************)
TypeOK ==
    /\ prompt \in Prompts
    /\ stdin \in Stdins
    /\ pc \in {"start", "loop", "done"}
    /\ warned \in BOOLEAN
    /\ result \in Results
    /\ (pc = "done") = (result # "none")

\* InstallationConfirm lets the installation go on only when every host has
\* its pre-check result, each has sudo, conntrack and socat unless packages
\* are installed, and the Kubernetes version is supported, whether or not
\* the operator passed --yes.
InstallationOnlyWhenReady ==
    prompt = "InstallationConfirm" /\ result = "ok" =>
        /\ \A h \in Hosts : precheck[h] # Missing
        /\ \A h \in Hosts : cfg.installPackages \/ \A t \in {"sudo", "conntrack", "socat"} : precheck[h][t]
        /\ cfg.versionSupported

\* The docker version numbers as integers, without refinement.
DockerNumbers(v) == [i \in 1..Len(v) |-> Num(v[i])]

\* UpgradeConfirm, upgrading to v1.19 or later, stops (fatally) only on a
\* docker version it cannot parse, and otherwise warns exactly when some
\* host runs a docker older than 20.10.0 (RefineDockerVersion,
\* MustParseSemantic and Compare together).
UpgradeWarnsOnOldDocker ==
    (/\ prompt = "UpgradeConfirm"
     /\ pc # "start"
     /\ \A h \in Hosts : precheck[h] # Missing)
    => /\ (result = "crash") = (cfg.atLeastV119 /\ NoParse \in DockerOf)
       /\ result # "crash" =>
             warned = (cfg.atLeastV119 /\
                       \E v \in DockerOf : LessThanNums(DockerNumbers(v), <<20, 10, 0>>))

\* Every confirmation eventually returns, exits or fails: the input on stdin
\* is finite and the prompt stops at its end.
PromptEnds == <>(pc = "done")

\* The prompts that return the error of ReadString (InstallationConfirm,
\* DeleteConfirm, UpgradeConfirm, MigrateCri) eventually end, whatever the
\* operator types before stdin is closed.
ErrorReturningPromptsEnd == prompt # "CheckFile" => <>(pc = "done")

====
