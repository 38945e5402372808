------------------------- MODULE DestructiveChecks -------------------------
(***************************************************************************)
(* The destructive checks on one VM: what their Run creates, what their    *)
(* Cleanup removes, and what is left when commands fail, answers are lost, *)
(* the connection breaks or the process dies, over several executions of   *)
(* the suite.  Of the four checks the packages register the first only;    *)
(* the others are written for it and kept out of the registry.             *)
(***************************************************************************)
EXTENDS Integers, FiniteSets

CONSTANTS
  Registries,     \* the sets of destructive checks an execution may have
  MaxExecutions   \* bound on the executions of the suite on this VM

DestructiveCheck == {"containerCerts", "ciliumDatapath", "dockerRun", "kindCluster"}

ASSUME RegistriesAssumption == Registries \subseteq SUBSET DestructiveCheck
ASSUME ExecutionsAssumption == MaxExecutions \in Nat

VARIABLES
  registry,    \* the destructive checks of the suite
  held,        \* what is on the VM, and what is true of it
  context,     \* the cluster kubectl and cilium talk to
  link,        \* whether the SSH connection stands
  stray,       \* commands that go on although their call has returned
  executions,  \* executions of the suite begun
  todo,        \* checks this execution has not begun
  check, phase,\* the check it is at: in its Run, in its Cleanup, or after it
  at,          \* the command it executes next, or what it returns
  failed,      \* whether Run returned an error
  used,        \* the clusters the commands of the check talked to
  before,      \* what was on the VM when the check began
  quiet,       \* no command has failed to do what the VM lets it, so far
  calm,        \* nor has one in the Cleanup at hand
  lastQuiet,   \* the execution before ended so
  disturbed    \* a stray command has changed the VM in this execution

vars == <<registry, held, context, link, stray, executions, todo, check, phase, at, failed,
          used, before, quiet, calm, lastQuiet, disturbed>>

----------------------------------------------------------------------------
(* What commands need and do *)

\* ctr is in PATH, its socket is open to the user, sudo works; the certificates
\* are behind a link into another directory; they are there; Cilium works here.
Facts == {"ctr", "user", "sudo", "linked", "certs", "datapath"}
Clusters == {"gke-os-cert-cilium", "cert-validation"}
Files == {"kind-cilium-config.yaml", "cilium-values.yaml"}
FactsOf(c) == CASE c = "containerCerts" -> Facts \ {"datapath"}
                [] c = "ciliumDatapath" -> {"datapath"}
                [] OTHER -> {}
Resources == {"alpine", "certcheck", "hello-world", "exec-mount"} \cup Clusters \cup Files

\* A command works if `needs` is held and nothing of `free` is.  It adds and
\* drops resources; `leaves` is what stays of it if it is cut off.
Command(needs, free, adds, drops, leaves) ==
  [needs |-> needs, free |-> free, adds |-> adds, drops |-> drops, leaves |-> leaves]
Asks(needs) == Command(needs, {}, {}, {}, {})
Creates(r, needs, free) == Command(needs, free, {r}, {}, {r})
Removes(rs, needs) == Command(needs, {}, {}, rs, {})
OnCluster(needs) == Command(needs \cup {"context"}, {}, {}, {}, {})

Works(c) ==
  /\ c.needs \ {"context"} \subseteq held
  /\ "context" \in c.needs => context \in held
  /\ c.free \cap held = {}

----------------------------------------------------------------------------
(* The code of the checks: trees of commands, `ok` and `no` being what    *)
(* follows a call that returns nil and one that returns an error.          *)

Nil == [returns |-> "nil"]
Error == [returns |-> "error"]
Do(c, ok, no) == [command |-> c, ok |-> ok, no |-> no]
Try(c, rest) == Do(c, rest, Error)
Ignore(c, rest) == Do(c, rest, rest)

\* A directory behind the link is mounted only if both commands answer.
\* rest says how Run goes on with all the mounts, and without the linked one.
GetRequiredCertMounts(linked, rest) ==
  Do(Asks({}), IF linked THEN Do(Asks({}), rest[TRUE], rest[FALSE]) ELSE rest[TRUE], rest[FALSE])

CtrPrefix(rest) ==
  Do(Asks({"ctr", "user"}), rest["user"], Do(Asks({"ctr", "sudo"}), rest["sudo"], rest["user"]))

\* certcheck is what is left of a container whose client was cut off.
CertCheck(mounts, as) ==
  Command({"ctr", as, "alpine", "certs"}, {"certcheck"} \cup (IF mounts THEN {} ELSE {"linked"}),
          {}, {}, {"certcheck"})

Container(mounts, as) == Try(CertCheck(mounts, as), Nil)

Pull(mounts, as) ==
  Do(Creates("alpine", {"ctr", as}, {}), Container(mounts, as),
     Try(Asks({"ctr", as, "alpine"}), Container(mounts, as)))

Prefixed(mounts) == CtrPrefix([as \in {"user", "sudo"} |-> Pull(mounts, as)])

ContainerCertsRun(linked) ==
  Try(Asks({"ctr"}), GetRequiredCertMounts(linked, [mounts \in BOOLEAN |-> Prefixed(mounts)]))

\* ctr, docker and kind remove what is not there with success.
RemoveImage(as) == Try(Removes({"alpine"}, {"ctr", as}), Nil)

ContainerCertsCleanup == CtrPrefix([as \in {"user", "sudo"} |-> RemoveImage(as)])

KindCreate(cluster, needs) == Creates(cluster, needs, {cluster})

CiliumDatapathRun ==
  Ignore(Creates("exec-mount", {}, {}),
    Try(Creates("kind-cilium-config.yaml", {}, {}), Try(Creates("cilium-values.yaml", {}, {}),
      Try(KindCreate("gke-os-cert-cilium", {"kind-cilium-config.yaml"}),
        Try(OnCluster({"cilium-values.yaml"}),
          Try(OnCluster({"datapath"}), Try(OnCluster({"datapath"}), Nil)))))))

BadCiliumDatapathCleanup ==
  Do(Removes({"gke-os-cert-cilium"}, {}), Nil, Ignore(Removes(Files, {}), Nil))

CiliumDatapathCleanup ==
  Ignore(Removes({"gke-os-cert-cilium"}, {}), Ignore(Removes(Files, {}), Nil))

DockerRunRun == Try(Creates("hello-world", {}, {}), Nil)

BadDockerRunCleanup == Try(Removes({"hello-world"}, {"hello-world"}), Nil)

DockerRunCleanup == Try(Removes({"hello-world"}, {}), Nil)

BadKindClusterRun ==
  Ignore(KindCreate("cert-validation", {}), Try(OnCluster({}), Try(OnCluster({}), Nil)))

KindClusterRun ==
  Try(KindCreate("cert-validation", {}), Try(OnCluster({}), Try(OnCluster({}), Nil)))

BadKindClusterCleanup == Nil

KindClusterCleanup == Try(Removes({"cert-validation"}, {}), Nil)

Run(c, linked) ==
  CASE c = "containerCerts" -> ContainerCertsRun(linked)
    [] c = "ciliumDatapath" -> CiliumDatapathRun
    [] c = "dockerRun" -> DockerRunRun
    [] c = "kindCluster" -> KindClusterRun

Cleanup(c) ==
  CASE c = "containerCerts" -> ContainerCertsCleanup
    [] c = "ciliumDatapath" -> CiliumDatapathCleanup
    [] c = "dockerRun" -> DockerRunCleanup
    [] c = "kindCluster" -> KindClusterCleanup

----------------------------------------------------------------------------
(* Executions *)

Busy == phase \in {"run", "cleanup"}
Returned == Busy /\ at \in {Nil, Error}
Calling == Busy /\ at \notin {Nil, Error}

Init ==
  /\ registry \in Registries
  /\ held \in SUBSET ((UNION {FactsOf(c) : c \in registry}) \cup
                      (IF "containerCerts" \in registry THEN {"alpine"} ELSE {}))
  /\ context = "none" /\ link = TRUE /\ stray = {}
  /\ executions = 0 /\ todo = {} /\ check = "none" /\ phase = "idle" /\ at = Nil
  /\ failed = FALSE /\ used = {} /\ before = {}
  /\ quiet = TRUE /\ calm = TRUE /\ lastQuiet = TRUE /\ disturbed = FALSE

BadStartExecution ==
  /\ ~Busy /\ todo = {} /\ executions < MaxExecutions
  /\ executions' = executions + 1
  /\ todo' = DestructiveCheck /\ link' = TRUE
  /\ lastQuiet' = quiet /\ quiet' = TRUE /\ calm' = TRUE /\ disturbed' = FALSE
  /\ check' = "none" /\ phase' = "idle" /\ at' = Nil /\ failed' = FALSE
  /\ used' = {} /\ before' = {}
  /\ UNCHANGED <<registry, held, context, stray>>

StartExecution ==
  /\ ~Busy /\ todo = {} /\ executions < MaxExecutions
  /\ executions' = executions + 1
  /\ todo' = registry /\ link' = TRUE
  /\ lastQuiet' = quiet /\ quiet' = TRUE /\ calm' = TRUE /\ disturbed' = FALSE
  /\ check' = "none" /\ phase' = "idle" /\ at' = Nil /\ failed' = FALSE
  /\ used' = {} /\ before' = {}
  /\ UNCHANGED <<registry, held, context, stray>>

\* The order of the registry is that of the packages.
StartCheck ==
  /\ ~Busy
  /\ \E c \in todo :
       /\ check' = c /\ todo' = todo \ {c}
       /\ at' = Run(c, "linked" \in held)
  /\ phase' = "run" /\ failed' = FALSE /\ used' = {} /\ before' = held
  /\ UNCHANGED <<registry, held, context, link, stray, executions, quiet, calm, lastQuiet,
                 disturbed>>

RunReturns ==
  /\ Returned /\ phase = "run"
  /\ failed' = (at = Error)
  /\ phase' = "cleanup" /\ at' = Cleanup(check) /\ calm' = link
  /\ UNCHANGED <<registry, held, context, link, stray, executions, todo, check, used, before,
                 quiet, lastQuiet, disturbed>>

CleanupReturns ==
  /\ Returned /\ phase = "cleanup"
  /\ phase' = "checked"
  /\ UNCHANGED <<registry, held, context, link, stray, executions, todo, check, at, failed,
                 used, before, quiet, calm, lastQuiet, disturbed>>

\* kind makes a new cluster the current one, and no cluster when it deletes that.
Effect(c, adds) ==
  /\ held' = (held \cup adds) \ c.drops
  /\ context' = IF adds \cap Clusters # {} THEN CHOOSE k \in Clusters : k \in adds
                ELSE IF context \in c.drops THEN "none" ELSE context

\* A command comes to its end and its call returns what it answered.
Answered ==
  LET c == at.command
  IN  /\ Calling /\ link
      /\ IF Works(c)
         THEN Effect(c, c.adds) /\ at' = at.ok
         ELSE UNCHANGED <<held, context>> /\ at' = at.no
      /\ used' = IF "context" \in c.needs THEN used \cup {context} ELSE used
      /\ UNCHANGED <<registry, link, stray, executions, todo, check, phase, failed, before,
                     quiet, calm, lastQuiet, disturbed>>

\* A call returns an error that the VM does not account for: the session is
\* refused, the command fails for once, the time of Cleanup is up or the
\* connection breaks.  What was begun may be cut off or go on; of the commands
\* that go on the last is kept.
CallFails ==
  /\ Calling /\ link
  /\ at' = at.no
  /\ quiet' = FALSE /\ calm' = FALSE
  /\ link' \in {TRUE, FALSE}
  /\ \/ UNCHANGED <<held, context, stray>>
     \/ Works(at.command) /\ Effect(at.command, at.command.leaves) /\ UNCHANGED stray
     \/ Works(at.command) /\ stray' = {at.command} /\ UNCHANGED <<held, context>>
  /\ UNCHANGED <<registry, executions, todo, check, phase, failed, used, before, lastQuiet,
                 disturbed>>

\* Once the connection is broken every call returns an error at once.
NotConnected ==
  /\ Calling /\ ~link
  /\ at' = at.no
  /\ UNCHANGED <<registry, held, context, link, stray, executions, todo, check, phase, failed,
                 used, before, quiet, calm, lastQuiet, disturbed>>

StrayEnds ==
  \E c \in stray :
    /\ stray' = stray \ {c}
    /\ IF Works(c) THEN Effect(c, c.adds) /\ disturbed' = TRUE /\ quiet' = FALSE
                   ELSE UNCHANGED <<held, context, disturbed, quiet>>
    /\ UNCHANGED <<registry, link, executions, todo, check, phase, at, failed, used, before,
                   calm, lastQuiet>>

\* The process dies in the middle of a command.
Killed ==
  /\ Calling /\ link
  /\ phase' = "idle" /\ at' = Nil /\ todo' = {} /\ used' = {} /\ before' = {} /\ quiet' = FALSE
  /\ \/ UNCHANGED <<held, context>>
     \/ Works(at.command) /\ Effect(at.command, at.command.leaves)
  /\ UNCHANGED <<registry, link, stray, executions, check, failed, calm, lastQuiet, disturbed>>

Next ==
  \/ StartExecution \/ StartCheck \/ RunReturns \/ CleanupReturns
  \/ Answered \/ CallFails \/ NotConnected \/ StrayEnds \/ Killed

Spec == Init /\ [][Next]_vars

----------------------------------------------------------------------------
(* Properties *)

\* The variables have their types: the VM holds known resources, and a check is
\* at a command or at a verdict.
TypeOK ==
  /\ registry \in Registries /\ todo \subseteq registry
  /\ held \subseteq Facts \cup Resources
  /\ context \in Clusters \cup {"none"} /\ used \subseteq Clusters \cup {"none"}
  /\ executions \in 0 .. MaxExecutions
  /\ phase \in {"idle", "run", "cleanup", "checked"}
  /\ Busy => check \in registry
  /\ at \in {Nil, Error} \/ DOMAIN at = {"command", "ok", "no"}
  /\ {link, failed, quiet, calm, lastQuiet, disturbed} \subseteq BOOLEAN
  /\ Cardinality(stray) <= 1

\* All that Run of a check may create or change on the VM.
Own(c) ==
  CASE c = "containerCerts" -> {"alpine", "certcheck"}
    [] c = "ciliumDatapath" -> {"gke-os-cert-cilium", "exec-mount"} \cup Files
    [] c = "dockerRun" -> {"hello-world"}
    [] c = "kindCluster" -> {"cert-validation"}

Checked(c) == phase = "checked" /\ check = c
CtrUsable == "ctr" \in held /\ {"user", "sudo"} \cap held # {}

\* What the verdict of a Cleanup is worth.  One that reports success leaves
\* nothing that its check creates, whatever failed in Run and in Cleanup itself,
\* with two exceptions, both against interface.go:59 and both exact:
\* CiliumDatapathCheck reports success whatever happens and never undoes its
\* remount, and no Cleanup removes a container certcheck that was cut off.  And
\* one whose own calls are answered succeeds, however Run ended (interface.go:61:
\* missing resources are a successful no-op), but for a VM whose ctr cannot be
\* used.
CleanupVerdict ==
  \A c \in registry :
    /\ Checked(c) /\ at = Nil /\ ~disturbed =>
         \/ Own(c) \cap held = {}
         \/ c = "ciliumDatapath" /\ (calm => Own(c) \cap held = {"exec-mount"})
         \/ /\ c = "containerCerts" /\ Own(c) \cap held = {"certcheck"}
            /\ quiet => "certcheck" \in before
    /\ Checked(c) /\ calm => at = Nil \/ (c = "containerCerts" /\ ~CtrUsable)

\* interface.go:59: Cleanup restores the VM.  Where nothing fails it does so but
\* for the remount of CiliumDatapathCheck and for what had the name of the
\* check's own resources before, which goes: a leftover, or somebody's image.  A
\* leftover certcheck stays.
RestoresAllButItsOwn ==
  \A c \in registry :
    Checked(c) /\ quiet =>
      \/ held = (before \ (Own(c) \ {"certcheck"})) \cup
                (IF c = "ciliumDatapath" THEN {"exec-mount"} ELSE {})
      \/ c = "containerCerts" /\ ~CtrUsable /\ held = before

\* One execution without failures repairs what earlier ones left, so that in
\* the next a check passes on a VM that deserves it.  A container certcheck that
\* was cut off is the exception: no Cleanup removes it.
QuietExecutionRepairs ==
  \A c \in registry :
    /\ Checked(c) /\ quiet /\ lastQuiet /\ executions > 1
    /\ c = "containerCerts" => CtrUsable /\ "certs" \in held /\ "certcheck" \notin before
    /\ c = "ciliumDatapath" => "datapath" \in held
    => ~failed

\* The clusters share one kubeconfig: a check never passes on the cluster that
\* another check, or an execution that was killed, left as the current one.
PassesOnOwnCluster ==
  \A c \in registry :
    Checked(c) /\ ~failed /\ ~disturbed => used \subseteq Own(c)
=============================================================================
