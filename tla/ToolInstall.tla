---------------------------- MODULE ToolInstall ----------------------------
(***************************************************************************)
(* resolveAndInstallDependencies (src/main.go) with the four installers of *)
(* src/pkg/tools, command by command, against the state of the VM: what    *)
(* stage "tools" of module Suite does in one step per tool. The suite may  *)
(* be executed again on the same VM, which keeps what an execution left.   *)
(*                                                                         *)
(* A command may fail, for a reason of its own or because the connection   *)
(* is lost, before, during or after its effect.                            *)
(***************************************************************************)
EXTENDS Naturals, Sequences

CONSTANTS
    Required,    \* tools the active checks of Tier 1 declare
    OSes,        \* values of osID
    MaxRuns      \* bound: executions of the suite on the VM

AllTools == {"docker", "kind", "kubectl", "cilium"}

ASSUME ToolInstallAssumption ==
    Required \subseteq AllTools /\ MaxRuns \in Nat \ {0}

VARIABLES
    osID,        \* the operating system, as detectOS names it
    run,         \* number of this execution
    stage,       \* where it is
    todo,        \* tools the loop has still to visit
    commands,    \* commands of the current Install still to run
    reconnect,   \* requiresReconnect
    file,        \* the executable of each tool in $HOME/.local/bin
    temp,        \* the file each Install makes on the way
    daemon,      \* dockerd is running
    group,       \* the user is in the group docker
    login,       \* and was when the current connection was made
    served       \* every download of this execution was the file asked for

vmVars  == <<file, temp, daemon, group>>
runVars == <<osID, run, login>>
vars == <<stage, todo, commands, reconnect, served, vmVars, runVars>>

(* An image may bring Docker, running or not.                              *)
Init ==
    /\ osID \in OSes
    /\ run = 1
    /\ stage = "start"
    /\ todo = {}
    /\ commands = <<>>
    /\ reconnect = FALSE
    /\ file = [t \in AllTools |-> "absent"]
    /\ temp = [t \in AllTools |-> "absent"]
    /\ daemon \in BOOLEAN
    /\ group \in BOOLEAN
    /\ login = group
    /\ served = TRUE

-----------------------------------------------------------------------------
(* Exists: "docker info", or the version command of the executable, which  *)
(* cannot be executed on COS, where the home directory is not executable.  *)

Usable(t) == IF t = "docker" THEN daemon /\ login
                             ELSE file[t] = "good" /\ osID # "cos"

BadAnswersExists(t) ==             \* looks for the file only
    IF t = "docker" THEN daemon /\ login ELSE file[t] # "absent"

AnswersExists(t) == Usable(t)

(* The commands of Install. For Docker they depend on the system.          *)
Script(t) ==
    CASE t \in {"kind", "kubectl"} -> <<"mkdir", "fetch", "chmod", "move">>
      [] t = "cilium" -> <<"mkdir", "fetchFail", "extract", "chmod", "rmTemp">>
      [] t = "docker" /\ osID = "cos" -> <<"dockerInfo">>
      [] t = "docker" /\ osID = "nixos" -> <<"whoami", "writeConfig", "rebuild">>
      [] t = "docker" /\ osID \in {"ubuntu", "debian"} ->
            <<"aptUpdate", "aptInstall", "start", "enable", "usermod">>
      [] OTHER -> <<>>                    \* Docker on any other system

Supported(t) == Script(t) # <<>>

(* What a command of the installer of t does to the VM when it succeeds.   *)
(* "fetch" is curl without --fail: an error page is a success, too.        *)
Effect(t, command) ==
    /\ file' = [file EXCEPT ![t] =
          IF command \in {"move", "extract"} THEN temp[t] ELSE file[t]]
    /\ temp' \in {[temp EXCEPT ![t] = x] :
          x \in CASE command = "fetch" -> {"good", "junk"}
                  [] command \in {"fetchFail", "writeConfig"} -> {"good"}
                  [] command \in {"move", "rmTemp"} -> {"absent"}
                  [] command = "rebuild" -> {"absent", temp[t]}  \* the deferred rm
                  [] OTHER -> {temp[t]}}
    /\ daemon' \in {daemon \/ command \in {"start", "rebuild"},
                   daemon \/ command \in {"start", "rebuild", "aptInstall"}}
    /\ group' = (group \/ command \in {"usermod", "rebuild"})

(* A command that breaks off leaves part of what it was writing.           *)
PartialEffect(t, command) ==
    /\ file' \in {[file EXCEPT ![t] = x] :
          x \in {file[t]} \cup (IF command = "extract" THEN {"junk"} ELSE {})}
    /\ temp' \in {[temp EXCEPT ![t] = x] :
          x \in {temp[t]}
            \cup (IF command \in {"fetch", "fetchFail", "writeConfig"} THEN {"junk"} ELSE {})
            \cup (IF command = "rebuild" THEN {"absent"} ELSE {})}
    /\ UNCHANGED <<daemon, group>>

CanSucceed(t, command) ==
    /\ command = "dockerInfo" => daemon /\ login
    /\ command = "extract" => temp[t] = "good"

-----------------------------------------------------------------------------
(* One execution. The tools come in the random order of a Go map.          *)

CollectTools ==
    /\ stage = "start"
    /\ todo' = Required
    /\ stage' = "loop"
    /\ UNCHANGED <<commands, reconnect, served, vmVars, runVars>>

AlreadyExists(t) ==
    /\ stage = "loop" /\ t \in todo
    /\ AnswersExists(t)
    /\ todo' = todo \ {t}
    /\ UNCHANGED <<stage, commands, reconnect, served, vmVars, runVars>>

(* The command said no, or it could not be run, which is the same answer.  *)
BeginInstall(t) ==
    /\ stage = "loop" /\ t \in todo
    /\ IF Supported(t)
       THEN stage' = t /\ commands' = Script(t) /\ todo' = todo \ {t}
       ELSE stage' = "failed" /\ UNCHANGED <<commands, todo>>
    /\ UNCHANGED <<reconnect, served, vmVars, runVars>>

BadRunCommand(t) ==                \* reconnects only for what was not there before
    /\ stage = t /\ commands # <<>>
    /\ CanSucceed(t, Head(commands))
    /\ Effect(t, Head(commands))
    /\ served' = (served /\ ~(Head(commands) = "fetch" /\ temp'[t] = "junk"))
    /\ commands' = Tail(commands)
    /\ IF Tail(commands) = <<>>
       THEN stage' = "loop" /\ reconnect' = (reconnect \/ (t = "docker" /\ ~daemon))
       ELSE UNCHANGED <<stage, reconnect>>
    /\ UNCHANGED <<todo, runVars>>

RunCommand(t) ==
    /\ stage = t /\ commands # <<>>
    /\ CanSucceed(t, Head(commands))
    /\ Effect(t, Head(commands))
    /\ served' = (served /\ ~(Head(commands) = "fetch" /\ temp'[t] = "junk"))
    /\ commands' = Tail(commands)
    /\ IF Tail(commands) = <<>>
       THEN stage' = "loop" /\ reconnect' = (reconnect \/ t = "docker")
       ELSE UNCHANGED <<stage, reconnect>>
    /\ UNCHANGED <<todo, runVars>>

CommandFails(t) ==
    /\ stage = t /\ commands # <<>>
    /\ \/ CanSucceed(t, Head(commands)) /\ Effect(t, Head(commands))
       \/ PartialEffect(t, Head(commands))
    /\ commands' = <<>>
    /\ stage' = "failed"
    /\ UNCHANGED <<todo, reconnect, served, runVars>>

AllToolsVisited ==
    /\ stage = "loop" /\ todo = {}
    /\ stage' = IF reconnect THEN "reconnect" ELSE "ready"
    /\ UNCHANGED <<todo, commands, reconnect, served, vmVars, runVars>>

Reconnect ==
    /\ stage = "reconnect"
    /\ \/ stage' = "ready" /\ login' = group
       \/ stage' = "failed" /\ UNCHANGED login
    /\ UNCHANGED <<todo, commands, reconnect, served, vmVars, osID, run>>

(* The suite is started again, on the VM as it is, with a new connection.  *)
ExecuteAgain ==
    /\ stage \in {"ready", "failed"} /\ run < MaxRuns
    /\ run' = run + 1
    /\ stage' = "start"
    /\ todo' = {} /\ commands' = <<>> /\ reconnect' = FALSE
    /\ served' = TRUE
    /\ login' = group
    /\ UNCHANGED <<osID, vmVars>>

Finished == stage \in {"ready", "failed"} /\ run = MaxRuns /\ UNCHANGED vars

Next ==
    \/ CollectTools
    \/ \E t \in AllTools : \/ AlreadyExists(t) \/ BeginInstall(t)
                           \/ RunCommand(t) \/ CommandFails(t)
    \/ AllToolsVisited \/ Reconnect \/ ExecuteAgain \/ Finished

Spec == Init /\ [][Next]_vars

-----------------------------------------------------------------------------
Installed(t) == IF t = "docker" THEN daemon /\ login ELSE file[t] = "good"

(* Once the dependencies are resolved, Docker answers in the very login    *)
(* the checks are given, and the Cilium executable is the real one, after  *)
(* whatever an earlier execution left half done.                           *)
DockerAndCiliumSound ==
    stage = "ready" => \A t \in Required \cap {"docker", "cilium"} : Installed(t)

(* An execution whose downloads were what was asked for ends with every    *)
(* required tool installed, whatever earlier executions left behind.       *)
LeftoversAreRepaired ==
    stage = "ready" /\ served => \A t \in Required : Installed(t)

(* interface.go: RequiredTools are the tools that must be installed on the *)
(* VM before the check can run.                                            *)
RequiredToolsInstalled ==
    stage = "ready" => \A t \in Required : Installed(t)
=============================================================================
