--------------------------- MODULE Provisioning ---------------------------
(***************************************************************************)
(* provisionAndTunnel (src/main.go) with CreateInstance and DeleteInstance *)
(* (src/pkg/provision/provision.go): the VM on the side of GCE, the gcloud *)
(* process of the IAP tunnel with the goroutine that waits for it, and the *)
(* loop that starts the tunnel and probes SSH until its deadline. The      *)
(* cleanup closure is called on the failures the function notices once the *)
(* closure exists, and otherwise by the deferred call of run.              *)
(*                                                                         *)
(* The local port is closed again before gcloud opens it: whatever else    *)
(* runs on the machine, such as the tunnel of another suite, may listen on *)
(* it in between, or after a tunnel of this suite has gone.                *)
(*                                                                         *)
(* Time advances in seconds, by the sleeps of the loop.                    *)
(***************************************************************************)
EXTENDS Naturals

CONSTANTS Deadline       \* seconds the loop goes on for: 180 in the code

ASSUME DeadlineAssumption == Deadline \in Nat \ {0}

VARIABLES
    pc,          \* where provisionAndTunnel, and later cleanup, is
    now,         \* seconds since the loop was entered
    vm,          \* the instance, as GCE has it
    tunnelCmd,   \* nil, or whether Start of the current command succeeded
    processes,   \* gcloud processes that are alive
    unreaped,    \* one has exited and its goroutine has not closed its channel
    exited,      \* the channel tunnelExited refers to
    listener,    \* who listens on localPort: nobody, this tunnel, another process
    result       \* what provisionAndTunnel returned

vars == <<pc, now, vm, tunnelCmd, processes, unreaped, exited, listener, result>>
tunnelVars == <<tunnelCmd, processes, unreaped, exited, listener>>

TypeOK ==
    /\ pc \in {"flags", "insert", "wait", "poll", "port", "config", "loop",
               "select", "probe", "handshake", "handed", "kill", "delete", "done"}
    /\ now \in Nat
    /\ vm \in {"none", "up", "deleted", "undeletable"}
    /\ tunnelCmd \in {"nil", "unstarted", "started"}
    /\ processes \in {0, 1}
    /\ unreaped \in BOOLEAN
    /\ exited \in {"open", "closed"}
    /\ listener \in {"nobody", "tunnel", "other"}
    /\ result \in {"none", "ok", "error"}

Init ==
    /\ pc = "flags"
    /\ now = 0
    /\ vm = "none"
    /\ tunnelCmd = "nil"
    /\ processes = 0
    /\ unreaped = FALSE
    /\ exited = "open"
    /\ listener = "nobody"
    /\ result = "none"

GoTo(from, to) == pc = from /\ pc' = to
ReturnError == result' = "error" /\ pc' = "done"
CleanUpAndReturnError == result' = "error" /\ pc' = "kill"

-----------------------------------------------------------------------------
(* The flags and the key pair, then CreateInstance. An error of Insert or  *)
(* of the operation may come after GCE has created the instance.           *)

CheckFlags ==
    /\ pc = "flags"
    /\ \/ pc' = "insert" /\ UNCHANGED result
       \/ ReturnError
    /\ UNCHANGED <<now, vm, tunnelVars>>

Insert ==
    /\ pc = "insert"
    /\ vm' \in {"none", "up"}
    /\ \/ pc' = "wait" /\ UNCHANGED result
       \/ ReturnError
    /\ UNCHANGED <<now, tunnelVars>>

OperationWait ==
    /\ pc = "wait"
    /\ \/ vm' = "up" /\ pc' = "poll" /\ UNCHANGED result
       \/ UNCHANGED vm /\ ReturnError
    /\ UNCHANGED <<now, tunnelVars>>

(* Until the instance is RUNNING, with no limit on the number of polls.    *)
PollSaysRunning ==
    /\ GoTo("poll", "port")
    /\ UNCHANGED <<now, vm, tunnelVars, result>>

(* Get fails, or the running instance has no internal IP address.          *)
PollFails ==
    /\ pc = "poll"
    /\ ReturnError
    /\ UNCHANGED <<now, vm, tunnelVars>>

(* getFreePort and getSSHConfig: from here on the closure exists.          *)
BadPrepare(from, to) ==            \* forgets to call cleanup
    /\ pc = from
    /\ \/ pc' = to /\ UNCHANGED result
       \/ ReturnError
    /\ UNCHANGED <<now, vm, tunnelVars>>

Prepare(from, to) ==
    /\ pc = from
    /\ \/ pc' = to /\ UNCHANGED result
       \/ CleanUpAndReturnError
    /\ UNCHANGED <<now, vm, tunnelVars>>

-----------------------------------------------------------------------------
(* The loop. startTunnel assigns tunnelCmd before what can fail in it, and *)
(* makes a new channel only once the process has started.                  *)

Sleep(s) == now' = now + s

BadStartTunnel ==                  \* goes on with the old channel
    /\ pc = "loop" /\ now < Deadline
    /\ tunnelCmd = "nil"
    /\ \/ /\ tunnelCmd' = "started"
          /\ processes' = processes + 1
          /\ Sleep(3)
          /\ pc' = "select"
       \/ /\ tunnelCmd' = "unstarted"
          /\ Sleep(5)
          /\ UNCHANGED <<pc, processes>>
    /\ UNCHANGED <<vm, unreaped, exited, listener, result>>

StartTunnel ==
    /\ pc = "loop" /\ now < Deadline
    /\ tunnelCmd = "nil"
    /\ \/ /\ tunnelCmd' = "started"
          /\ processes' = processes + 1
          /\ exited' = "open"
          /\ Sleep(3)
          /\ pc' = "select"
       \/ /\ tunnelCmd' = "unstarted"
          /\ Sleep(5)
          /\ UNCHANGED <<pc, processes, exited>>
    /\ UNCHANGED <<vm, unreaped, listener, result>>

TunnelAssigned ==
    /\ pc = "loop" /\ now < Deadline
    /\ tunnelCmd # "nil"
    /\ pc' = "select"
    /\ UNCHANGED <<now, vm, tunnelVars, result>>

(* A closed channel is ready again and again, until startTunnel replaces it.*)
NoticeExit ==
    /\ pc = "select" /\ exited = "closed"
    /\ tunnelCmd' = "nil"
    /\ Sleep(10)
    /\ pc' = "loop"
    /\ UNCHANGED <<vm, processes, unreaped, exited, listener, result>>

NoExitNoticed ==
    /\ pc = "select" /\ exited = "open"
    /\ pc' = "probe"
    /\ UNCHANGED <<now, vm, tunnelVars, result>>

(* Whoever listens on the local port accepts the connection.               *)
ProbePort ==
    /\ pc = "probe"
    /\ \/ listener # "nobody" /\ pc' = "handshake" /\ UNCHANGED now
       \/ \E dial \in {0, 2} : Sleep(dial + 5) /\ pc' = "loop"
    /\ UNCHANGED <<vm, tunnelVars, result>>

(* Host keys are ignored: what ties a connection to the VM is that the key *)
(* pair is new in every execution, and that only this VM has it.           *)
BadKeyAccepted(at) == at # "nobody"      \* one key for all suites

KeyAccepted(at) == at = "tunnel" /\ vm = "up"

BadHandshake ==                    \* forgets the tunnel of a failed attempt
    /\ pc = "handshake"
    /\ \/ KeyAccepted(listener) /\ pc' = "handed" /\ result' = "ok"
          /\ UNCHANGED <<now, tunnelCmd>>
       \/ Sleep(5) /\ pc' = "loop" /\ tunnelCmd' = "nil" /\ UNCHANGED result
    /\ UNCHANGED <<vm, processes, unreaped, exited, listener>>

Handshake ==
    /\ pc = "handshake"
    /\ \/ KeyAccepted(listener) /\ pc' = "handed" /\ result' = "ok"
          /\ UNCHANGED now
       \/ Sleep(5) /\ pc' = "loop" /\ UNCHANGED result
    /\ UNCHANGED <<vm, tunnelVars>>

TimeOut ==
    /\ pc = "loop" /\ now >= Deadline
    /\ CleanUpAndReturnError
    /\ UNCHANGED <<now, vm, tunnelVars>>

-----------------------------------------------------------------------------
(* The cleanup closure, on a failure or as the deferred call of run.       *)

DeferredCleanup ==
    /\ GoTo("handed", "kill")
    /\ UNCHANGED <<now, vm, tunnelVars, result>>

ProcessEnds ==
    /\ processes' = 0 /\ unreaped' = TRUE
    /\ listener' = IF listener = "tunnel" THEN "nobody" ELSE listener

KillTunnel ==
    /\ GoTo("kill", "delete")
    /\ IF tunnelCmd = "started" /\ processes = 1
       THEN ProcessEnds
       ELSE UNCHANGED <<processes, unreaped, listener>>
    /\ UNCHANGED <<now, vm, tunnelCmd, exited, result>>

BadDeleteInstance ==               \* a failed deletion is tried for ever
    /\ pc = "delete"
    /\ \/ vm' = "deleted" /\ pc' = "done"
       \/ vm' = "undeletable" /\ pc' = "kill"
    /\ UNCHANGED <<now, tunnelVars, result>>

DeleteInstance ==
    /\ GoTo("delete", "done")
    /\ vm' \in {"deleted", "undeletable"}
    /\ UNCHANGED <<now, tunnelVars, result>>

(* The environment: the gcloud process ends, by itself or because the port *)
(* was taken meanwhile, and the goroutine in cmd.Wait closes the channel.  *)

TunnelListens ==
    /\ processes = 1 /\ listener = "nobody"
    /\ listener' = "tunnel"
    /\ UNCHANGED <<pc, now, vm, tunnelCmd, processes, unreaped, exited, result>>

OtherListens ==
    /\ pc \notin {"flags", "insert", "wait", "poll", "port", "done"}
    /\ listener = "nobody" /\ listener' = "other"
    /\ UNCHANGED <<pc, now, vm, tunnelCmd, processes, unreaped, exited, result>>

OtherEnds ==
    /\ listener = "other" /\ listener' = "nobody"
    /\ UNCHANGED <<pc, now, vm, tunnelCmd, processes, unreaped, exited, result>>

TunnelExits ==
    /\ processes = 1 /\ ~unreaped
    /\ ProcessEnds
    /\ UNCHANGED <<pc, now, vm, tunnelCmd, exited, result>>

WaiterCloses ==
    /\ unreaped
    /\ unreaped' = FALSE
    /\ exited' = "closed"
    /\ UNCHANGED <<pc, now, vm, tunnelCmd, processes, listener, result>>

Done == pc = "done" /\ ~unreaped /\ UNCHANGED vars

\* Local and bounded: sleeps, child processes that are started or killed, the
\* local port with its timeout.
Own ==
    \/ CheckFlags
    \/ Prepare("port", "config") \/ Prepare("config", "loop")
    \/ StartTunnel \/ TunnelAssigned \/ NoticeExit \/ NoExitNoticed
    \/ ProbePort \/ TimeOut \/ KillTunnel

\* The code sets no limit on any of these.
WaitsFor ==
    \/ Insert \/ OperationWait \/ PollSaysRunning \/ PollFails
    \/ Handshake \/ DeferredCleanup \/ DeleteInstance

Next ==
    \/ Own \/ WaitsFor \/ WaiterCloses \/ Done
    \/ TunnelListens \/ TunnelExits \/ OtherListens \/ OtherEnds

Spec == Init /\ [][Next]_vars

(* What the function does itself it goes on with; the goroutine of a       *)
(* tunnel that has exited runs. No call to GCE and no handshake has to be  *)
(* answered, no VM has to be RUNNING ever, and no tunnel has to exit.      *)
FairSpec == Spec /\ WF_vars(Own) /\ WF_vars(WaiterCloses)

-----------------------------------------------------------------------------
(* What run sees of this: the answer, and from then on what there is.      *)
(* cleanup on a failure comes before the answer.                           *)
Answer == IF result = "ok" \/ pc = "done" THEN result ELSE "none"

VmOfRun == IF Answer = "none" THEN "none" ELSE vm

TunnelOfRun ==
    CASE processes > 0 /\ (pc \in {"delete", "done"} \/ tunnelCmd # "started") -> "lost"
      [] result = "ok" -> IF pc = "done" THEN "killed" ELSE "up"
      [] OTHER -> "none"

AbstractTarget == INSTANCE Target
    WITH answer <- Answer, vm <- VmOfRun, tunnel <- TunnelOfRun

(* provisionAndTunnel and its closure are what Suite takes them for, and   *)
(* no tunnel process is ever lost: one that is alive is that of the        *)
(* command cleanup would kill, whichever attempt started it and whenever   *)
(* it was given up, and none outlives the killing.                         *)
ImplementsTarget == AbstractTarget!Spec

-----------------------------------------------------------------------------
(* A failure that is noticed after CreateInstance has returned the VM      *)
(* deletes it, or tries to; so does the deferred call after a success.     *)
NoLeakOnceCreated ==
    [][(pc \in {"port", "config", "loop", "delete"} /\ pc' = "done") =>
          vm' \in {"deleted", "undeletable"}]_vars

(* The channel the loop looks at tells of the process in tunnelCmd, never  *)
(* of one before it: an exit is noticed once, and only when it happened.   *)
ChannelIsCurrent ==
    tunnelCmd = "started" =>
        (exited = "closed" <=> processes = 0 /\ ~unreaped)

(* A success is that of the tunnel in hand: whoever else had the port in   *)
(* the meantime, and whichever attempts failed, the address is handed over *)
(* only while the tunnel that cleanup would kill leads to this VM.         *)
SuccessIsOwn ==
    [][result # "ok" /\ result' = "ok" =>
          listener = "tunnel" /\ tunnelCmd = "started" /\ exited = "open" /\ vm = "up"]_vars

(* The function returns, and after a success the deferred call finishes,   *)
(* unless GCE, the SSH handshake or the checks in between keep it waiting  *)
(* for ever: whichever tunnels fail, exit or meet another process on the   *)
(* port, the loop never goes round past its deadline.                      *)
ReturnsUnlessKeptWaiting ==
    \/ <>(pc = "done")
    \/ \E w \in {"insert", "wait", "poll", "handshake", "handed", "delete"} : <>[](pc = w)

(* README.md: the teardown of the VM is guaranteed, even on failure.       *)
TearDownGuaranteed == pc = "done" => vm # "up"
=============================================================================
