------------------------------- MODULE Suite -------------------------------
(***************************************************************************)
(* One execution of the program: run (src/main.go) from the choice of the  *)
(* target VM to its deferred calls, with what it calls on the way, except  *)
(* that the two concurrent batches are batches of module Batch, which      *)
(* CheckRunner implements, and that provisioning and its cleanup are one   *)
(* step each, those of module Target, which Provisioning implements.       *)
(*                                                                         *)
(* The context is context.Background(), which is never done.               *)
(***************************************************************************)
EXTENDS Naturals, FiniteSets

CONSTANTS
    Checks,              \* every check a build of the suite could register
    Tools,               \* the tools checks may declare
    Concurrency,         \* *concurrencyFlag
    Tier0Checks,         \* Tier() = Tier0
    DestructiveChecks,   \* Destructive()
    CleanableChecks,     \* those that implement CleanableCheck
    Needs,               \* RequiredTools() of each check
    InstallableTools,    \* tools.Get finds an installer
    ReconnectTools       \* RequiresReconnect() of the installer

ASSUME SuiteAssumption ==
    /\ IsFiniteSet(Checks)
    /\ Concurrency \in 1..9
    /\ Tier0Checks \subseteq Checks
    /\ DestructiveChecks \subseteq Checks
    /\ CleanableChecks \subseteq Checks
    /\ Needs \in [Checks -> SUBSET Tools]
    /\ InstallableTools \subseteq Tools
    /\ ReconnectTools \subseteq InstallableTools

VARIABLES
    stage,       \* how far run has come
    registered,  \* validation.RegisteredChecks()
    active,      \* activeChecks
    ctxDone,     \* ctx.Err() # nil
    members,     \* the batch in progress
    outcome,     \* what happened to each check
    verdict,     \* the verdict of the batch
    cleaned,     \* what Cleanup of each check returned
    todo,        \* required tools the loop has still to visit
    installed,   \* tools this execution has installed
    reconnect,   \* requiresReconnect
    clients,     \* the SSH connections made, in order
    sshClient,   \* the one the deferred Close will close
    runner,      \* the one the checks are given
    loggedInWith,\* tools installed when each connection was made
    vm,          \* the VM that provisioning has created
    tunnel,      \* the gcloud process of the IAP tunnel
    failed,      \* run is going to return an error
    status       \* "alive", or how the process ended

targetVars == <<vm, tunnel>>
sshVars    == <<clients, sshClient, runner, loggedInWith>>
toolVars   == <<todo, installed, reconnect>>
batchVars  == <<members, outcome, verdict>>
checkVars  == <<registered, active, ctxDone>>
vars == <<stage, checkVars, batchVars, cleaned, toolVars, sshVars, targetVars,
          failed, status>>

Stages == {"target", "connect", "detect", "validate", "tier0", "resolve",
           "tools", "reconnect", "tier1", "destructive", "cleanup", "unwind",
           "teardown", "over"}

Conn == 1..2             \* run dials once, and once more to reconnect

TypeOK ==
    /\ stage \in Stages
    /\ registered \in SUBSET Checks
    /\ active \in SUBSET registered
    /\ ctxDone = FALSE
    /\ members \in SUBSET active
    /\ outcome \in [Checks -> {"unstarted", "running", "passed", "failed"}]
    /\ verdict \in {"none", "pass", "fail"}
    /\ cleaned \in [Checks -> {"no", "ok", "error"}]
    /\ todo \in SUBSET Tools
    /\ installed \in SUBSET Tools
    /\ reconnect \in BOOLEAN
    /\ clients \in [Conn -> {"unused", "open", "closed"}]
    /\ sshClient \in Conn \cup {0}
    /\ runner \in Conn \cup {0}
    /\ loggedInWith \in [Conn -> SUBSET Tools]
    /\ vm \in {"none", "up", "deleted", "undeletable"}
    /\ tunnel \in {"none", "up", "killed"}
    /\ failed \in BOOLEAN
    /\ status \in {"alive", "exit0", "exit1", "crashed"}

Init ==
    /\ stage = "target"
    /\ registered \in SUBSET Checks
    /\ active = {}
    /\ ctxDone = FALSE
    /\ members = {}
    /\ outcome = [c \in Checks |-> "unstarted"]
    /\ verdict = "none"
    /\ cleaned = [c \in Checks |-> "no"]
    /\ todo = {}
    /\ installed = {}
    /\ reconnect = FALSE
    /\ clients = [i \in Conn |-> "unused"]
    /\ sshClient = 0
    /\ runner = 0
    /\ loggedInWith = [i \in Conn |-> {}]
    /\ vm = "none"
    /\ tunnel = "none"
    /\ failed = FALSE
    /\ status = "alive"

ActiveTier0 == active \cap Tier0Checks
ActiveTier1 == active \ Tier0Checks
NonDestructive == ActiveTier1 \ DestructiveChecks
Destructive == ActiveTier1 \cap DestructiveChecks
Running == {c \in Checks : outcome[c] = "running"}

(* run returns an error: its deferred calls come next.                     *)
Fail == failed' = TRUE /\ stage' = "unwind"

-----------------------------------------------------------------------------
(* 1. The target. The cleanup closure is deferred only when provisioning   *)
(* has succeeded; it calls it itself on the failures it notices after the  *)
(* VM is there, and never when CreateInstance reports the failure. Where   *)
(* the VM is the user's, nothing was asked for and nothing is owed.        *)

UseExistingVM ==
    /\ stage = "target"
    /\ \/ stage' = "connect" /\ UNCHANGED failed
       \/ Fail                             \* a flag or the key is missing
    /\ UNCHANGED <<checkVars, batchVars, cleaned, toolVars, sshVars, targetVars, status>>

Answer == IF stage = "target" THEN "none" ELSE IF tunnel = "none" THEN "error" ELSE "ok"

T == INSTANCE Target WITH answer <- Answer

Provision ==
    /\ stage = "target"
    /\ \/ T!Ready /\ stage' = "connect" /\ UNCHANGED failed
       \/ T!Refused /\ Fail
    /\ UNCHANGED <<checkVars, batchVars, cleaned, toolVars, sshVars, status>>

(* 2. ssh.Dial makes connection i. The groups a login has are those its    *)
(* user had when it was made.                                              *)
Dial(i) ==
    /\ clients' = [clients EXCEPT ![i] = "open"]
    /\ loggedInWith' = [loggedInWith EXCEPT ![i] = installed]
    /\ sshClient' = i
    /\ runner' = i

Connect ==
    /\ stage = "connect"
    /\ \/ Dial(1) /\ stage' = "detect" /\ UNCHANGED failed
       \/ Fail /\ UNCHANGED sshVars
    /\ UNCHANGED <<checkVars, batchVars, cleaned, toolVars, targetVars, status>>

(* 4. *)
BadDetectOS ==                     \* dials again when the command fails
    /\ stage = "detect"
    /\ stage' \in {"validate", "connect"}
    /\ UNCHANGED <<checkVars, batchVars, cleaned, toolVars, sshVars, targetVars,
                   failed, status>>

DetectOS ==
    /\ stage = "detect"
    /\ \/ stage' = "validate" /\ UNCHANGED failed
       \/ Fail
    /\ UNCHANGED <<checkVars, batchVars, cleaned, toolVars, sshVars, targetVars, status>>

(* 5. validateChecks, then IsApplicable decides on each registered check.  *)
BadConforms(c) ==                  \* only the second rule
    c \in DestructiveChecks => c \in CleanableChecks

Conforms(c) ==
    /\ c \in Tier0Checks => Needs[c] = {}
    /\ c \in DestructiveChecks => c \in CleanableChecks

BadBeginBatch(cs) ==               \* forgets that IsApplicable has filtered
    /\ members' = registered \cap (IF cs \subseteq Tier0Checks
                                    THEN Tier0Checks ELSE Checks \ Tier0Checks)
    /\ verdict' = "none"
    /\ UNCHANGED outcome

BeginBatch(cs) ==
    /\ members' = cs
    /\ verdict' = "none"
    /\ UNCHANGED outcome

ValidateAndFilter ==
    /\ stage = "validate"
    /\ IF \A c \in registered : Conforms(c)
       THEN \E cs \in SUBSET registered :
              /\ active' = cs
              /\ IF cs \cap Tier0Checks = {}
                 THEN stage' = "resolve" /\ UNCHANGED batchVars
                 ELSE stage' = "tier0" /\ BeginBatch(cs \cap Tier0Checks)
              /\ UNCHANGED failed
       ELSE Fail /\ UNCHANGED <<active, batchVars>>
    /\ UNCHANGED <<registered, ctxDone, cleaned, toolVars, sshVars, targetVars, status>>

-----------------------------------------------------------------------------
(* 6. and the first half of 8.: runChecksConcurrently on one batch.        *)

B == INSTANCE Batch WITH cancelled <- ctxDone

InBatch == stage \in {"tier0", "tier1"}
OutsideBatch == <<checkVars, cleaned, toolVars, sshVars, targetVars, status>>

StartCheck(c) ==
    /\ InBatch /\ B!Start(c)
    /\ UNCHANGED <<stage, failed, OutsideBatch>>

FinishCheck(c) ==
    /\ InBatch /\ B!Finish(c)
    /\ UNCHANGED <<stage, failed, OutsideBatch>>

BadEndTier0 ==                     \* reports the failures and goes on
    /\ stage = "tier0" /\ B!Decide
    /\ stage' = "resolve"
    /\ UNCHANGED <<failed, OutsideBatch>>

EndTier0 ==
    /\ stage = "tier0" /\ B!Decide
    /\ IF verdict' = "fail" THEN Fail ELSE stage' = "resolve" /\ UNCHANGED failed
    /\ UNCHANGED OutsideBatch

(* runTier1 only notes the failure and goes on to the destructive checks.  *)
BadEndNonDestructive ==            \* forgets hasFailures
    /\ stage = "tier1" /\ B!Decide
    /\ stage' = "destructive"
    /\ UNCHANGED <<failed, OutsideBatch>>

EndNonDestructive ==
    /\ stage = "tier1" /\ B!Decide
    /\ failed' = (verdict' = "fail")
    /\ stage' = "destructive"
    /\ UNCHANGED OutsideBatch

-----------------------------------------------------------------------------
(* 7. resolveAndInstallDependencies: the required tools, in the random     *)
(* order of a Go map.                                                      *)

EnterTier1 ==
    IF ActiveTier1 = {} THEN stage' = "unwind" /\ UNCHANGED batchVars
    ELSE IF NonDestructive = {} THEN stage' = "destructive" /\ UNCHANGED batchVars
    ELSE stage' = "tier1" /\ BeginBatch(NonDestructive)

CollectTools ==
    /\ stage = "resolve"
    /\ todo' = UNION {Needs[c] : c \in ActiveTier1}
    /\ stage' = "tools"
    /\ UNCHANGED <<checkVars, batchVars, cleaned, installed, reconnect, sshVars,
                   targetVars, failed, status>>

NoInstaller(t) ==
    /\ stage = "tools" /\ t \in todo
    /\ t \notin InstallableTools
    /\ Fail
    /\ UNCHANGED <<checkVars, batchVars, cleaned, toolVars, sshVars, targetVars, status>>

AlreadyExists(t) ==
    /\ stage = "tools" /\ t \in todo
    /\ t \in InstallableTools
    /\ todo' = todo \ {t}
    /\ UNCHANGED <<stage, checkVars, batchVars, cleaned, installed, reconnect,
                   sshVars, targetVars, failed, status>>

(* Exists returned false or an error.                                      *)
Install(t) ==
    /\ stage = "tools" /\ t \in todo
    /\ t \in InstallableTools
    /\ todo' = todo \ {t}
    /\ \/ /\ installed' = installed \cup {t}
          /\ reconnect' = (reconnect \/ t \in ReconnectTools)
          /\ UNCHANGED <<stage, failed>>
       \/ Fail /\ UNCHANGED <<installed, reconnect>>
    /\ UNCHANGED <<checkVars, batchVars, cleaned, sshVars, targetVars, status>>

AllToolsVisited ==
    /\ stage = "tools" /\ todo = {}
    /\ IF reconnect THEN stage' = "reconnect" /\ UNCHANGED batchVars ELSE EnterTier1
    /\ UNCHANGED <<checkVars, cleaned, toolVars, sshVars, targetVars, failed, status>>

(* reconnectClosure: the old connection is closed before the new one is    *)
(* dialled, and stays sshClient when the dial fails.                       *)
BadReconnect ==                    \* the new runner is not passed on
    /\ stage = "reconnect"
    /\ clients' = [clients EXCEPT ![sshClient] = "closed", ![2] = "open"]
    /\ loggedInWith' = [loggedInWith EXCEPT ![2] = installed]
    /\ sshClient' = 2
    /\ EnterTier1
    /\ UNCHANGED <<checkVars, cleaned, toolVars, runner, targetVars, failed, status>>

Reconnect ==
    /\ stage = "reconnect"
    /\ \/ /\ clients' = [clients EXCEPT ![sshClient] = "closed", ![2] = "open"]
          /\ loggedInWith' = [loggedInWith EXCEPT ![2] = installed]
          /\ sshClient' = 2
          /\ runner' = 2
          /\ EnterTier1
          /\ UNCHANGED failed
       \/ /\ clients' = [clients EXCEPT ![sshClient] = "closed"]
          /\ Fail
          /\ UNCHANGED <<batchVars, sshClient, runner, loggedInWith>>
    /\ UNCHANGED <<checkVars, cleaned, toolVars, targetVars, status>>

-----------------------------------------------------------------------------
(* The second half of 8.: the destructive checks of Tier 1, one by one,    *)
(* each followed by its Cleanup whether it passed or not. The one-minute   *)
(* context of Cleanup makes it return even when the VM does not answer.    *)

RunDestructive(c) ==
    /\ stage = "destructive"
    /\ c \in Destructive /\ outcome[c] = "unstarted"
    /\ Running \cap Destructive = {}
    /\ outcome' = [outcome EXCEPT ![c] = "running"]
    /\ UNCHANGED <<stage, members, verdict, failed, OutsideBatch>>

BadEndDestructive(c) ==            \* a failed check is not cleaned up
    /\ stage = "destructive"
    /\ c \in Destructive /\ outcome[c] = "running"
    /\ \/ outcome' = [outcome EXCEPT ![c] = "passed"] /\ stage' = "cleanup"
                                                      /\ UNCHANGED failed
       \/ outcome' = [outcome EXCEPT ![c] = "failed"] /\ failed' = TRUE
                                                      /\ UNCHANGED stage
    /\ UNCHANGED <<members, verdict, OutsideBatch>>

EndDestructive(c) ==
    /\ stage = "destructive"
    /\ c \in Destructive /\ outcome[c] = "running"
    /\ \/ outcome' = [outcome EXCEPT ![c] = "passed"] /\ UNCHANGED failed
       \/ outcome' = [outcome EXCEPT ![c] = "failed"] /\ failed' = TRUE
    /\ stage' = IF c \in CleanableChecks THEN "cleanup" ELSE "destructive"
    /\ UNCHANGED <<members, verdict, OutsideBatch>>

Ended(c) == outcome[c] \in {"passed", "failed"}

CleanUp(c) ==
    /\ stage = "cleanup"
    /\ c \in Destructive /\ Ended(c) /\ cleaned[c] = "no"
    /\ \/ cleaned' = [cleaned EXCEPT ![c] = "ok"] /\ UNCHANGED failed
       \/ cleaned' = [cleaned EXCEPT ![c] = "error"] /\ failed' = TRUE
    /\ stage' = "destructive"
    /\ UNCHANGED <<checkVars, batchVars, toolVars, sshVars, targetVars, status>>

EndTier1 ==
    /\ stage = "destructive"
    /\ \A c \in Destructive : Ended(c)
    /\ stage' = "unwind"
    /\ UNCHANGED <<batchVars, failed, OutsideBatch>>

-----------------------------------------------------------------------------
(* The deferred calls, last one first: the SSH client, then the tunnel and *)
(* the VM. Closing a client twice, after a failed reconnect, does nothing. *)

BadCloseClient ==                  \* closes the client of the first dial
    /\ stage = "unwind"
    /\ clients' = IF sshClient = 0 THEN clients ELSE [clients EXCEPT ![1] = "closed"]
    /\ stage' = "teardown"
    /\ UNCHANGED <<checkVars, batchVars, cleaned, toolVars, sshClient, runner,
                   loggedInWith, targetVars, failed, status>>

CloseClient ==
    /\ stage = "unwind"
    /\ clients' = IF sshClient = 0 THEN clients
                  ELSE [clients EXCEPT ![sshClient] = "closed"]
    /\ stage' = "teardown"
    /\ UNCHANGED <<checkVars, batchVars, cleaned, toolVars, sshClient, runner,
                   loggedInWith, targetVars, failed, status>>

Exit ==
    /\ stage' = "over"
    /\ status' = IF failed THEN "exit1" ELSE "exit0"
    /\ UNCHANGED <<checkVars, batchVars, cleaned, toolVars, sshVars, failed>>

(* The deferred cleanup closure; DeleteInstance may fail, which is logged. *)
TearDown ==
    /\ stage = "teardown"
    /\ T!TornDown                          \* only if provisioning had succeeded
    /\ Exit

NothingDeferred ==
    /\ stage = "teardown"
    /\ tunnel # "up"
    /\ UNCHANGED targetVars
    /\ Exit

(* The process ends without its deferred calls: a signal, for which the    *)
(* program has no handler, or a panic in the goroutine of a check.         *)
Killed ==
    /\ stage # "over"
    /\ stage' = "over"
    /\ status' = "crashed"
    /\ UNCHANGED <<checkVars, batchVars, cleaned, toolVars, sshVars, targetVars, failed>>

Over == stage = "over" /\ UNCHANGED vars

Step ==
    \/ UseExistingVM \/ Provision \/ Connect \/ DetectOS \/ ValidateAndFilter
    \/ \E c \in Checks : \/ StartCheck(c) \/ FinishCheck(c)
                         \/ RunDestructive(c) \/ EndDestructive(c) \/ CleanUp(c)
    \/ EndTier0 \/ EndNonDestructive \/ EndTier1
    \/ CollectTools \/ AllToolsVisited \/ Reconnect
    \/ \E t \in Tools : NoInstaller(t) \/ AlreadyExists(t) \/ Install(t)
    \/ CloseClient \/ TearDown \/ NothingDeferred

Next == Step \/ Killed \/ Over

Spec == Init /\ [][Next]_vars

(* Every call returns; nothing has to end the process.                     *)
FairSpec == Spec /\ WF_vars(Step)

-----------------------------------------------------------------------------
(* Nothing of Tier 1 happens to the VM, neither a check nor an installer,  *)
(* before every applicable gatekeeper has passed: the gatekeepers see the  *)
(* unmodified operating system, and a failing one halts the suite.         *)
GatekeepersFirst ==
    (installed # {} \/ \E c \in ActiveTier1 : outcome[c] # "unstarted") =>
        \A c \in ActiveTier0 : outcome[c] = "passed"

(* A check, or an installer, always talks over a connection that the       *)
(* program itself has not closed; and a check that needs a tool whose      *)
(* installation changed the groups of the user, in a login made after it.  *)
RunnerIsCurrent ==
    /\ (Running # {} \/ stage \in {"detect", "tools", "cleanup"}) =>
           runner # 0 /\ clients[runner] = "open"
    /\ \A c \in Running :
           Needs[c] \cap installed \cap ReconnectTools \subseteq loggedInWith[runner]

(* A check that needs tools runs only once each of them has been found on  *)
(* the VM or its installer has succeeded, and no gatekeeper needs one.     *)
ToolsBeforeChecks ==
    \A c \in Running :
        Needs[c] # {} => /\ stage # "tier0"
                         /\ todo = {}
                         /\ Needs[c] \subseteq InstallableTools

(* A destructive check runs alone, on a VM on which those before it have   *)
(* had their Cleanup; and when run has returned, however it did, each that *)
(* was started has had its own.                                            *)
AlwaysCleanedUp ==
    LET Untidy == {c \in DestructiveChecks : outcome[c] # "unstarted" /\ cleaned[c] = "no"}
    IN  /\ \A c \in Running \cap DestructiveChecks : Running = {c} /\ Untidy \subseteq {c}
        /\ status \in {"exit0", "exit1"} => Untidy = {}

(* Exit code 0 certifies: every applicable check was executed and passed,  *)
(* and every destructive one was undone.                                   *)
ExitZeroCertifies ==
    status = "exit0" =>
        \A c \in active : /\ outcome[c] = "passed"
                          /\ c \in Destructive => cleaned[c] = "ok"

(* When run has returned no SSH connection is open, neither the first nor  *)
(* the second, and a VM that provisioning handed over is deleted, or its   *)
(* deletion was tried and failed; its tunnel is stopped.                   *)
EverythingUnwound ==
    status \in {"exit0", "exit1"} =>
        /\ \A i \in Conn : clients[i] # "open"
        /\ tunnel # "up" /\ (tunnel = "killed" => vm # "up")

(* README.md: the checks that are neither dependent nor destructive run    *)
(* before any tool is put on the VM.                                       *)
PlainChecksBeforeInstallation ==
    installed # {} =>
        \A c \in NonDestructive : Needs[c] = {} => Ended(c)

(* The whole execution comes to an end.                                    *)
Ends == <>(stage = "over")
=============================================================================
