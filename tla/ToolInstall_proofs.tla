------------------------- MODULE ToolInstall_proofs -------------------------
(***************************************************************************)
(* What the installers guarantee, for every set of required tools, every   *)
(* operating system and any number of executions on the same VM.           *)
(***************************************************************************)
EXTENDS ToolInstall, TLAPS

Contents == {"absent", "good", "junk"}

\* The values the state of the VM and of an execution can take.
TypeInv ==
    /\ stage \in {"start", "loop", "reconnect", "ready", "failed"} \cup AllTools
    /\ todo \in SUBSET Required
    /\ file \in [AllTools -> Contents]
    /\ temp \in [AllTools -> Contents]
    /\ reconnect \in BOOLEAN /\ daemon \in BOOLEAN /\ group \in BOOLEAN
    /\ login \in BOOLEAN /\ served \in BOOLEAN

\* The rests of the scripts that the invariants tell apart.
Fetch    == <<"fetch", "chmod", "move">>
Chmod    == <<"chmod", "move">>
Move     == <<"move">>
Download == <<"fetchFail", "extract", "chmod", "rmTemp">>
Extract  == <<"extract", "chmod", "rmTemp">>
Unpacked == {<<"chmod", "rmTemp">>, <<"rmTemp">>}
Started  == {<<"enable", "usermod">>, <<"usermod">>}

\* What can be left of the script of t while its Install is in progress.
Rest(t) ==
    CASE t \in {"kind", "kubectl"} -> {<<"mkdir", "fetch", "chmod", "move">>, Fetch, Chmod, Move}
      [] t = "cilium" -> {<<"mkdir", "fetchFail", "extract", "chmod", "rmTemp">>,
                          Download, Extract} \cup Unpacked
      [] t = "docker" -> {<<"dockerInfo">>, <<"whoami", "writeConfig", "rebuild">>,
                          <<"writeConfig", "rebuild">>, <<"rebuild">>,
                          <<"aptUpdate", "aptInstall", "start", "enable", "usermod">>,
                          <<"aptInstall", "start", "enable", "usermod">>,
                          <<"start", "enable", "usermod">>} \cup Started

\* How far the Install in progress has come.
ScriptInv ==
    /\ \A t \in AllTools : stage = t => t \notin todo /\ commands \in Rest(t)
    /\ stage = "docker" /\ commands \in Started => daemon
    /\ stage = "cilium" /\ commands \in Unpacked => file["cilium"] = "good"
    /\ stage \in {"kind", "kubectl"} /\ commands \in {Chmod, Move} /\ served =>
           temp[stage] = "good"

\* What the loop has dealt with is installed, up to the login.
Settled(t) ==
    /\ t \in Required \ todo /\ stage # t
    /\ stage \in {"loop", "reconnect", "ready"} \cup AllTools

\* Docker may still wait for a login with the group; a download by curl without
\* --fail is only as good as what it was served.
Good(t) ==
    IF t = "docker" THEN daemon /\ (login \/ (reconnect /\ group))
    ELSE t = "cilium" \/ served => file[t] = "good"

\* The loop leaves nothing settled that is not good, and the rest to Reconnect.
LoopInv ==
    /\ \A t \in AllTools : Settled(t) => Good(t)
    /\ stage \in {"reconnect", "ready"} => todo = {}
    /\ stage = "ready" /\ "docker" \in Required => login

\* The inductive invariant. A user who logged in with the group is still in it:
\* no installer takes the group away.
IInv == TypeInv /\ (login => group) /\ ScriptInv /\ LoopInv
\* The rests of the scripts of kind and kubectl follow one another, and the
\* file that is moved is the one that was fetched.
LEMMA DownloadScript ==
  ASSUME NEW t \in {"kind", "kubectl"}, commands \in Rest(t)
  PROVE  /\ Tail(commands) # <<>> => Tail(commands) \in Rest(t)
         /\ Tail(commands) = Chmod => Head(commands) = "fetch"
         /\ Tail(commands) = Move => commands = Chmod /\ Head(commands) = "chmod"
         /\ Tail(commands) = <<>> => commands = Move /\ Head(commands) = "move"
<1> USE DEF Rest, Fetch, Chmod, Move
<1>1. CASE commands = <<"mkdir", "fetch", "chmod", "move">>
  BY <1>1
<1>2. CASE commands = <<"fetch", "chmod", "move">>
  BY <1>2
<1>3. CASE commands = <<"chmod", "move">>
  BY <1>3
<1>4. CASE commands = <<"move">>
  BY <1>4
<1> QED
  BY <1>1, <1>2, <1>3, <1>4

\* The same for Cilium: the last commands run only after the extraction.
LEMMA CiliumScript ==
  ASSUME commands \in Rest("cilium")
  PROVE  /\ Tail(commands) # <<>> => Tail(commands) \in Rest("cilium")
         /\ Tail(commands) \in Unpacked =>
               \/ Head(commands) = "extract"
               \/ commands \in Unpacked /\ Head(commands) = "chmod"
         /\ Tail(commands) = <<>> => commands \in Unpacked /\ Head(commands) = "rmTemp"
<1> USE DEF Rest, Download, Extract, Unpacked
<1>1. CASE commands = <<"mkdir", "fetchFail", "extract", "chmod", "rmTemp">>
  BY <1>1
<1>2. CASE commands = <<"fetchFail", "extract", "chmod", "rmTemp">>
  BY <1>2
<1>3. CASE commands = <<"extract", "chmod", "rmTemp">>
  BY <1>3
<1>4. CASE commands = <<"chmod", "rmTemp">>
  BY <1>4
<1>5. CASE commands = <<"rmTemp">>
  BY <1>5
<1> QED
  BY <1>1, <1>2, <1>3, <1>4, <1>5

\* The same for Docker on each system: every script that ends has started the
\* daemon, or has seen it answer.
LEMMA DockerScript ==
  ASSUME commands \in Rest("docker")
  PROVE  /\ Tail(commands) # <<>> => Tail(commands) \in Rest("docker")
         /\ Tail(commands) \in Started => Head(commands) = "start" \/ commands \in Started
         /\ Tail(commands) = <<>> =>
               \/ Head(commands) \in {"dockerInfo", "rebuild"}
               \/ commands \in Started /\ Head(commands) = "usermod"
<1> USE DEF Rest, Started
<1>1. CASE commands = <<"dockerInfo">>
  BY <1>1
<1>2. CASE commands = <<"whoami", "writeConfig", "rebuild">>
  BY <1>2
<1>3. CASE commands = <<"writeConfig", "rebuild">>
  BY <1>3
<1>4. CASE commands = <<"rebuild">>
  BY <1>4
<1>5. CASE commands = <<"aptUpdate", "aptInstall", "start", "enable", "usermod">>
  BY <1>5
<1>6. CASE commands = <<"aptInstall", "start", "enable", "usermod">>
  BY <1>6
<1>7. CASE commands = <<"start", "enable", "usermod">>
  BY <1>7
<1>8. CASE commands = <<"enable", "usermod">>
  BY <1>8
<1>9. CASE commands = <<"usermod">>
  BY <1>9
<1> QED
  BY <1>1, <1>2, <1>3, <1>4, <1>5, <1>6, <1>7, <1>8, <1>9

\* Install begins with the whole script.
LEMMA WholeScript ==
  ASSUME NEW t \in AllTools, Supported(t)
  PROVE  /\ Script(t) \in Rest(t)
         /\ Script(t) \notin Started \cup Unpacked \cup {Chmod, Move}
BY DEF AllTools, Supported, Script, Rest, Started, Unpacked, Chmod, Move, Fetch

\* What a command that succeeds does, and what it leaves alone: the files of the
\* other tools, a daemon that runs, a group the user is in.
LEMMA EffectOfCommand ==
  ASSUME TypeInv, NEW t \in AllTools, NEW command, Effect(t, command)
  PROVE  /\ file' \in [AllTools -> Contents] /\ temp' \in [AllTools -> Contents]
         /\ \A u \in AllTools : u # t => file'[u] = file[u] /\ temp'[u] = temp[u]
         /\ file'[t] = IF command \in {"move", "extract"} THEN temp[t] ELSE file[t]
         /\ command = "fetch" => temp'[t] \in {"good", "junk"}
         /\ command = "chmod" => temp'[t] = temp[t]
         /\ daemon' \in BOOLEAN /\ (daemon \/ command \in {"start", "rebuild"} => daemon')
         /\ group' \in BOOLEAN /\ (group \/ command \in {"usermod", "rebuild"} => group')
<1>1. PICK x \in CASE command = "fetch" -> {"good", "junk"}
                   [] command \in {"fetchFail", "writeConfig"} -> {"good"}
                   [] command \in {"move", "rmTemp"} -> {"absent"}
                   [] command = "rebuild" -> {"absent", temp[t]}
                   [] OTHER -> {temp[t]} :
             temp' = [temp EXCEPT ![t] = x]
  BY DEF Effect
<1>2. /\ x \in Contents
      /\ command = "fetch" => x \in {"good", "junk"}
      /\ command = "chmod" => x = temp[t]
  BY <1>1 DEF TypeInv, Contents
<1>3. /\ temp' \in [AllTools -> Contents] /\ temp'[t] = x
      /\ \A u \in AllTools : u # t => temp'[u] = temp[u]
  BY <1>1, <1>2 DEF TypeInv
<1>4. /\ file' \in [AllTools -> Contents]
      /\ \A u \in AllTools : u # t => file'[u] = file[u]
      /\ file'[t] = IF command \in {"move", "extract"} THEN temp[t] ELSE file[t]
  BY DEF Effect, TypeInv
<1>5. /\ daemon' \in BOOLEAN /\ (daemon \/ command \in {"start", "rebuild"} => daemon')
      /\ group' \in BOOLEAN /\ (group \/ command \in {"usermod", "rebuild"} => group')
  BY DEF Effect, TypeInv
<1> QED
  BY <1>2, <1>3, <1>4, <1>5

\* The invariant holds when the suite first meets the VM.
LEMMA InitInv == Init => IInv
<1> SUFFICES ASSUME Init PROVE IInv
  OBVIOUS
<1>1. TypeInv /\ (login => group)
  BY DEF Init, TypeInv, Contents
<1>2. ScriptInv /\ LoopInv
  BY DEF Init, ScriptInv, LoopInv, Settled, AllTools
<1> QED
  BY <1>1, <1>2 DEF IInv

\* Every step preserves the types.
LEMMA TypeStep ==
  ASSUME TypeInv, [Next]_vars
  PROVE  TypeInv'
<1>1. CASE CollectTools \/ AllToolsVisited \/ Reconnect \/ ExecuteAgain
  BY <1>1, ToolInstallAssumption
  DEF TypeInv, CollectTools, AllToolsVisited, Reconnect, ExecuteAgain, vmVars, runVars
<1>2. ASSUME NEW t \in AllTools, AlreadyExists(t) \/ BeginInstall(t)
      PROVE  TypeInv'
  BY <1>2 DEF TypeInv, AlreadyExists, BeginInstall, vmVars, runVars
<1>3. ASSUME NEW t \in AllTools, RunCommand(t)
      PROVE  TypeInv'
  <2>1. /\ file' \in [AllTools -> Contents] /\ temp' \in [AllTools -> Contents]
        /\ daemon' \in BOOLEAN /\ group' \in BOOLEAN
    BY <1>3, EffectOfCommand DEF RunCommand
  <2>2. /\ stage' \in {stage, "loop"} /\ todo' = todo /\ login' = login
        /\ reconnect' \in BOOLEAN /\ served' \in BOOLEAN
    BY <1>3 DEF TypeInv, RunCommand, runVars
  <2> QED
    BY <2>1, <2>2 DEF TypeInv
<1>4. ASSUME NEW t \in AllTools, CommandFails(t)
      PROVE  TypeInv'
  <2>1. /\ file' \in [AllTools -> Contents] /\ temp' \in [AllTools -> Contents]
        /\ daemon' \in BOOLEAN /\ group' \in BOOLEAN
    <3>1. CASE Effect(t, Head(commands))
      BY <3>1, EffectOfCommand
    <3>2. CASE PartialEffect(t, Head(commands))
      BY <3>2 DEF PartialEffect, TypeInv, Contents
    <3> QED
      BY <1>4, <3>1, <3>2 DEF CommandFails
  <2>2. stage' = "failed" /\ UNCHANGED <<todo, login, reconnect, served>>
    BY <1>4 DEF CommandFails, runVars
  <2> QED
    BY <2>1, <2>2 DEF TypeInv
<1>5. CASE UNCHANGED vars
  BY <1>5 DEF TypeInv, vars, vmVars, runVars
<1> QED
  BY <1>1, <1>2, <1>3, <1>4, <1>5 DEF Next, Finished

\* No step takes the user out of the group a login has.
LEMMA LoginStep ==
  ASSUME TypeInv, login => group, [Next]_vars
  PROVE  (login => group)'
<1>1. CASE CollectTools \/ AllToolsVisited \/ Reconnect \/ ExecuteAgain
  BY <1>1 DEF CollectTools, AllToolsVisited, Reconnect, ExecuteAgain, vmVars, runVars
<1>2. ASSUME NEW t \in AllTools, AlreadyExists(t) \/ BeginInstall(t)
      PROVE  (login => group)'
  BY <1>2 DEF AlreadyExists, BeginInstall, vmVars, runVars
<1>3. ASSUME NEW t \in AllTools, RunCommand(t) \/ CommandFails(t)
      PROVE  (login => group)'
  BY <1>3 DEF RunCommand, CommandFails, Effect, PartialEffect, runVars
<1>4. CASE UNCHANGED vars
  BY <1>4 DEF vars, vmVars, runVars
<1> QED
  BY <1>1, <1>2, <1>3, <1>4 DEF Next, Finished

\* Every step preserves what the progress of an Install tells of the VM.
LEMMA ScriptStep ==
  ASSUME TypeInv, ScriptInv, [Next]_vars
  PROVE  ScriptInv'
<1> USE DEF AllTools
<1>1. CASE CollectTools \/ AllToolsVisited \/ Reconnect \/ ExecuteAgain
  BY <1>1 DEF ScriptInv, CollectTools, AllToolsVisited, Reconnect, ExecuteAgain
<1>2. ASSUME NEW t \in AllTools, AlreadyExists(t)
      PROVE  ScriptInv'
  BY <1>2 DEF ScriptInv, AlreadyExists
<1>3. ASSUME NEW t \in AllTools, BeginInstall(t)
      PROVE  ScriptInv'
  <2>1. CASE Supported(t)
    BY <1>3, <2>1, WholeScript DEF ScriptInv, BeginInstall
  <2>2. CASE ~Supported(t)
    BY <1>3, <2>2 DEF ScriptInv, BeginInstall
  <2> QED
    BY <2>1, <2>2
<1>4. ASSUME NEW t \in AllTools, RunCommand(t)
      PROVE  ScriptInv'
  <2>1. /\ stage = t /\ commands \in Rest(t) /\ t \notin todo
        /\ todo' = todo /\ commands' = Tail(commands)
        /\ stage' = IF Tail(commands) = <<>> THEN "loop" ELSE t
    BY <1>4 DEF RunCommand, ScriptInv
  <2>2. Effect(t, Head(commands)) /\ (served' => served)
        /\ (Head(commands) = "fetch" /\ served' => temp'[t] # "junk")
        /\ (Head(commands) = "extract" => temp[t] = "good")
    BY <1>4 DEF RunCommand, CanSucceed
  <2>3. CASE Tail(commands) = <<>>
    BY <2>1, <2>3 DEF ScriptInv
  <2>4. CASE Tail(commands) # <<>> /\ t \in {"kind", "kubectl"}
    BY <2>1, <2>2, <2>4, EffectOfCommand, DownloadScript DEF ScriptInv
  <2>5. CASE Tail(commands) # <<>> /\ t = "cilium"
    BY <2>1, <2>2, <2>5, EffectOfCommand, CiliumScript DEF ScriptInv
  <2>6. CASE Tail(commands) # <<>> /\ t = "docker"
    BY <2>1, <2>2, <2>6, EffectOfCommand, DockerScript DEF ScriptInv
  <2> QED
    BY <2>3, <2>4, <2>5, <2>6
<1>5. ASSUME NEW t \in AllTools, CommandFails(t)
      PROVE  ScriptInv'
  BY <1>5 DEF ScriptInv, CommandFails
<1>6. CASE UNCHANGED vars
  BY <1>6 DEF ScriptInv, vars, vmVars
<1> QED
  BY <1>1, <1>2, <1>3, <1>4, <1>5, <1>6 DEF Next, Finished

\* What the loop has settled stays good, whatever is installed after it.
LEMMA LoopStep ==
  ASSUME TypeInv, login => group, ScriptInv, LoopInv, [Next]_vars
  PROVE  LoopInv'
<1> USE DEF AllTools
<1>1. CASE CollectTools \/ ExecuteAgain
  BY <1>1 DEF LoopInv, Settled, CollectTools, ExecuteAgain
<1>2. ASSUME NEW t \in AllTools, AlreadyExists(t)
      PROVE  LoopInv'
  BY <1>2 DEF LoopInv, Settled, Good, AlreadyExists, AnswersExists, Usable, vmVars, runVars
<1>3. ASSUME NEW t \in AllTools, BeginInstall(t)
      PROVE  LoopInv'
  BY <1>3 DEF LoopInv, Settled, Good, BeginInstall, vmVars, runVars
<1>4. ASSUME NEW t \in AllTools, RunCommand(t)
      PROVE  LoopInv'
  <2>1. /\ stage = t /\ commands \in Rest(t) /\ todo' = todo /\ login' = login
        /\ stage' = IF Tail(commands) = <<>> THEN "loop" ELSE t
        /\ reconnect => reconnect'
        /\ Tail(commands) = <<>> /\ t = "docker" => reconnect'
    BY <1>4 DEF RunCommand, ScriptInv, runVars
  <2>2. /\ Effect(t, Head(commands)) /\ (served' => served)
        /\ Head(commands) = "dockerInfo" => daemon /\ login
    BY <1>4 DEF RunCommand, CanSucceed
  <2>3. ASSUME NEW u \in AllTools, u # t, Settled(u)'
        PROVE  Good(u)'
    <3>1. Good(u)
      BY <2>1, <2>3 DEF LoopInv, Settled
    <3> QED
      BY <2>1, <2>2, <2>3, <3>1, EffectOfCommand DEF Good
  <2>4. ASSUME Tail(commands) = <<>>
        PROVE  Good(t)'
    <3>1. CASE t \in {"kind", "kubectl"}
      BY <2>1, <2>2, <2>4, <3>1, EffectOfCommand, DownloadScript DEF Good, ScriptInv
    <3>2. CASE t = "cilium"
      BY <2>1, <2>2, <2>4, <3>2, EffectOfCommand, CiliumScript DEF Good, ScriptInv
    <3>3. CASE t = "docker"
      BY <2>1, <2>2, <2>4, <3>3, EffectOfCommand, DockerScript DEF Good, ScriptInv
    <3> QED
      BY <3>1, <3>2, <3>3
  <2> QED
    BY <2>1, <2>3, <2>4 DEF LoopInv, Settled
<1>5. ASSUME NEW t \in AllTools, CommandFails(t)
      PROVE  LoopInv'
  BY <1>5 DEF LoopInv, Settled, CommandFails
<1>6. CASE AllToolsVisited
  BY <1>6 DEF LoopInv, Settled, Good, AllToolsVisited, vmVars, runVars
<1>7. CASE Reconnect
  BY <1>7 DEF LoopInv, Settled, Good, Reconnect, vmVars
<1>8. CASE UNCHANGED vars
  BY <1>8 DEF LoopInv, Settled, Good, vars, vmVars, runVars
<1> QED
  BY <1>1, <1>2, <1>3, <1>4, <1>5, <1>6, <1>7, <1>8 DEF Next, Finished

\* The invariant holds in every state of every sequence of executions.
THEOREM Invariant == Spec => []IInv
<1>1. IInv /\ [Next]_vars => IInv'
  BY TypeStep, LoginStep, ScriptStep, LoopStep DEF IInv
<1> QED
  BY InitInv, <1>1, PTL DEF Spec

\* When the tools are ready, each required one is settled, and Docker needs no
\* further login.
LEMMA ReadyInstalls ==
  ASSUME IInv, stage = "ready", NEW t \in Required
  PROVE  t \in {"docker", "cilium"} \/ served => Installed(t)
<1>1. t \in AllTools /\ Settled(t)
  BY ToolInstallAssumption DEF IInv, LoopInv, Settled, AllTools
<1>2. Good(t) /\ (t = "docker" => login)
  BY <1>1 DEF IInv, LoopInv
<1> QED
  BY <1>2 DEF Good, Installed

\* Docker answers in the login the checks are given, and the Cilium executable is
\* the real one, however many executions broke off before on the same VM.
THEOREM DockerAndCilium == Spec => []DockerAndCiliumSound
<1>1. IInv => DockerAndCiliumSound
  BY ReadyInstalls DEF DockerAndCiliumSound
<1> QED
  BY Invariant, <1>1, PTL

\* An execution whose downloads were what was asked for ends with every required
\* tool installed, whatever earlier ones left behind.
THEOREM Repaired == Spec => []LeftoversAreRepaired
<1>1. IInv => LeftoversAreRepaired
  BY ReadyInstalls DEF LeftoversAreRepaired
<1> QED
  BY Invariant, <1>1, PTL

-----------------------------------------------------------------------------
\* What the resolution of the tools leaves to the rest of run: it has visited every
\* tool; a reconnection is asked for by Docker only, the one member of ReconnectTools
\* in the registry; and once it is made, its login is in the group, so that no
\* installation of this execution is left for a later login.
HandsOver ==
    /\ stage \in {"reconnect", "ready"} => todo = {}
    /\ reconnect => "docker" \in Required
    /\ stage = "ready" /\ reconnect => login /\ group

\* Docker is installed, and a reconnection asked for, only where it is required.
DockerIsRequired == stage = "docker" \/ reconnect => "docker" \in Required

\* The contract on which stages "tools" and "reconnect" of Suite rely: that an
\* installed tool that needs a new login has one when Tier 1 begins.
THEOREM HandOver == Spec => []HandsOver
<1>1. Init => DockerIsRequired
  BY DEF Init, DockerIsRequired
<1>2. ASSUME IInv, DockerIsRequired, [Next]_vars
      PROVE  DockerIsRequired'
  <2>1. CASE CollectTools \/ AllToolsVisited \/ Reconnect \/ ExecuteAgain
    BY <1>2, <2>1
    DEF DockerIsRequired, CollectTools, AllToolsVisited, Reconnect, ExecuteAgain
  <2>2. ASSUME NEW t \in AllTools, AlreadyExists(t)
        PROVE  DockerIsRequired'
    BY <1>2, <2>2 DEF DockerIsRequired, AlreadyExists
  <2>3. ASSUME NEW t \in AllTools, BeginInstall(t)
        PROVE  DockerIsRequired'
    BY <1>2, <2>3 DEF IInv, TypeInv, DockerIsRequired, BeginInstall
  <2>4. ASSUME NEW t \in AllTools, RunCommand(t) \/ CommandFails(t)
        PROVE  DockerIsRequired'
    BY <1>2, <2>4 DEF DockerIsRequired, RunCommand, CommandFails
  <2>5. CASE UNCHANGED vars
    BY <1>2, <2>5 DEF DockerIsRequired, vars
  <2> QED
    BY <1>2, <2>1, <2>2, <2>3, <2>4, <2>5 DEF Next, Finished
<1>3. IInv /\ DockerIsRequired => HandsOver
  BY DEF IInv, LoopInv, DockerIsRequired, HandsOver
<1> QED
  BY Invariant, <1>1, <1>2, <1>3, PTL DEF Spec
=============================================================================
