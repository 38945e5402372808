------------------------ MODULE Provisioning_proofs ------------------------
(***************************************************************************)
(* The safety properties of provisionAndTunnel, for every deadline. The    *)
(* inductive invariant relates what the function holds (tunnelCmd and the  *)
(* channel) to what exists (the process, the listener, the VM). At the     *)
(* end, that the function implements the contract of module Target.        *)
(***************************************************************************)
EXTENDS Provisioning, TLAPS

BeforeClosure == {"flags", "insert", "wait", "poll", "port", "config"}
WithVM        == {"poll", "port", "config", "loop", "select", "probe", "handshake",
                  "handed", "kill", "delete"}

\* A process that is alive is that of the command in hand, one that has just
\* exited has no successor yet, and only one that is alive listens.
ProcessInv ==
    /\ tunnelCmd # "started" => processes = 0 /\ ~unreaped
    /\ unreaped => processes = 0
    /\ listener = "tunnel" => processes = 1
    /\ pc \in {"delete", "done"} => processes = 0

\* What has been made by each point of the function.
ProgressInv ==
    /\ pc \in BeforeClosure => tunnelCmd = "nil"
    /\ pc \in WithVM => vm = "up"
    /\ pc = "handed" => result = "ok"
    /\ result = "ok" => /\ pc \in {"handed", "kill", "delete", "done"}
                        /\ tunnelCmd = "started"
    /\ pc = "done" /\ result = "ok" => vm \in {"deleted", "undeletable"}

\* The inductive invariant.
IInv == TypeOK /\ ProcessInv /\ ProgressInv /\ ChannelIsCurrent

\* The invariant holds on entry to provisionAndTunnel.
LEMMA InitInv == Init => IInv
<1> SUFFICES ASSUME Init PROVE IInv
  OBVIOUS
<1>1. TypeOK
  BY DEF Init, TypeOK
<1>2. ProcessInv /\ ChannelIsCurrent
  BY DEF Init, ProcessInv, ChannelIsCurrent
<1>3. ProgressInv
  BY DEF Init, ProgressInv, BeforeClosure, WithVM
<1> QED
  BY <1>1, <1>2, <1>3 DEF IInv

\* Every step of the function, of the waiting goroutine and of the processes
\* outside preserves the invariant.
LEMMA StepInv ==
  ASSUME IInv, [Next]_vars
  PROVE  IInv'
<1> USE DEF IInv, TypeOK, ProcessInv, ProgressInv, ChannelIsCurrent, BeforeClosure, WithVM
<1>1. CASE CheckFlags
  BY <1>1 DEF CheckFlags, ReturnError, tunnelVars
<1>2. CASE Insert
  BY <1>2 DEF Insert, ReturnError, tunnelVars
<1>3. CASE OperationWait
  BY <1>3 DEF OperationWait, ReturnError, tunnelVars
<1>4. CASE PollSaysRunning
  BY <1>4 DEF PollSaysRunning, GoTo, tunnelVars
<1>5. CASE PollFails
  BY <1>5 DEF PollFails, ReturnError, tunnelVars
<1>6. CASE Prepare("port", "config")
  BY <1>6 DEF Prepare, CleanUpAndReturnError, tunnelVars
<1>7. CASE Prepare("config", "loop")
  BY <1>7 DEF Prepare, CleanUpAndReturnError, tunnelVars
<1>8. CASE StartTunnel
  BY <1>8 DEF StartTunnel, Sleep, tunnelVars
<1>9. CASE TunnelAssigned
  BY <1>9 DEF TunnelAssigned, tunnelVars
<1>10. CASE NoticeExit
  BY <1>10 DEF NoticeExit, Sleep, tunnelVars
<1>11. CASE NoExitNoticed
  BY <1>11 DEF NoExitNoticed, tunnelVars
<1>12. CASE ProbePort
  BY <1>12 DEF ProbePort, Sleep, tunnelVars
<1>13. CASE Handshake
  BY <1>13 DEF Handshake, Sleep, KeyAccepted, tunnelVars
<1>14. CASE TimeOut
  BY <1>14 DEF TimeOut, CleanUpAndReturnError, tunnelVars
<1>15. CASE DeferredCleanup
  BY <1>15 DEF DeferredCleanup, GoTo, tunnelVars
<1>16. CASE KillTunnel
  <2>1. CASE tunnelCmd = "started" /\ processes = 1
    BY <1>16, <2>1 DEF KillTunnel, GoTo, ProcessEnds
  <2>2. CASE ~(tunnelCmd = "started" /\ processes = 1)
    BY <1>16, <2>2 DEF KillTunnel, GoTo
  <2> QED
    BY <2>1, <2>2
<1>17. CASE DeleteInstance
  BY <1>17 DEF DeleteInstance, GoTo, tunnelVars
<1>18. CASE WaiterCloses
  BY <1>18 DEF WaiterCloses, tunnelVars
<1>19. CASE Done
  BY <1>19 DEF Done, vars, tunnelVars
<1>20. CASE TunnelListens
  BY <1>20 DEF TunnelListens, tunnelVars
<1>21. CASE TunnelExits
  BY <1>21 DEF TunnelExits, ProcessEnds, tunnelVars
<1>22. CASE OtherListens
  BY <1>22 DEF OtherListens, tunnelVars
<1>23. CASE OtherEnds
  BY <1>23 DEF OtherEnds, tunnelVars
<1>24. CASE UNCHANGED vars
  BY <1>24 DEF vars, tunnelVars
<1> QED
  BY <1>1, <1>2, <1>3, <1>4, <1>5, <1>6, <1>7, <1>8, <1>9, <1>10, <1>11, <1>12,
     <1>13, <1>14, <1>15, <1>16, <1>17, <1>18, <1>19, <1>20, <1>21, <1>22, <1>23,
     <1>24 DEF Next, Own, WaitsFor

\* The invariant holds in every state of every behaviour.
THEOREM Invariant == Spec => []IInv
<1>1. IInv /\ [Next]_vars => IInv'
  BY StepInv
<1> QED
  BY InitInv, <1>1, PTL DEF Spec

\* Every variable keeps its type; there is never a second gcloud process.
THEOREM TypeCorrect == Spec => []TypeOK
<1>1. IInv => TypeOK
  BY DEF IInv
<1> QED
  BY Invariant, <1>1, PTL

\* A tunnel process that is alive is the one cleanup would kill, and there is
\* never a second one.
OneTunnelInHand ==
    /\ processes = 1 => tunnelCmd = "started"
    /\ pc \in {"delete", "done"} => processes = 0

\* A live tunnel process is the one cleanup kills, and none outlives cleanup.
THEOREM TunnelInHand == Spec => []OneTunnelInHand
<1>1. IInv => OneTunnelInHand
  BY DEF IInv, TypeOK, ProcessInv, OneTunnelInHand
<1> QED
  BY Invariant, <1>1, PTL

\* The channel of the loop tells of the process in hand, never of an earlier
\* one, although startTunnel that fails leaves the old channel in place.
THEOREM ChannelCurrent == Spec => []ChannelIsCurrent
<1>1. IInv => ChannelIsCurrent
  BY DEF IInv
<1> QED
  BY Invariant, <1>1, PTL

\* What provisionAndTunnel leaves to run: after a success a VM and a command that
\* the deferred cleanup will find, and after cleanup, or a failure, no process.
HandsOver ==
    /\ pc = "handed" => vm = "up" /\ result = "ok" /\ tunnelCmd = "started"
    /\ pc = "done" => /\ processes = 0
                      /\ result = "ok" => vm \in {"deleted", "undeletable"}

\* The contract of provisionAndTunnel on which stage "target" of Suite relies.
THEOREM HandOver == Spec => []HandsOver
<1>1. IInv => HandsOver
  BY DEF IInv, TypeOK, ProcessInv, ProgressInv, HandsOver, WithVM
<1> QED
  BY Invariant, <1>1, PTL

\* provisionAndTunnel returns no error in one place only.
LEMMA OnlyHandshakeSucceeds ==
  ASSUME [Next]_vars, result # "ok", result' = "ok"
  PROVE  Handshake /\ KeyAccepted(listener) /\ pc = "handshake"
<1>1. CASE UNCHANGED vars
  BY <1>1 DEF vars
<1>2. CASE CheckFlags \/ Insert \/ OperationWait \/ PollSaysRunning \/ PollFails
  BY <1>2 DEF CheckFlags, Insert, OperationWait, PollSaysRunning, PollFails, ReturnError
<1>3. CASE Prepare("port", "config") \/ Prepare("config", "loop") \/ TimeOut
  BY <1>3 DEF Prepare, TimeOut, CleanUpAndReturnError
<1>4. CASE StartTunnel \/ TunnelAssigned \/ NoticeExit \/ NoExitNoticed \/ ProbePort
  BY <1>4 DEF StartTunnel, TunnelAssigned, NoticeExit, NoExitNoticed, ProbePort
<1>5. CASE DeferredCleanup \/ KillTunnel \/ DeleteInstance
  BY <1>5 DEF DeferredCleanup, KillTunnel, DeleteInstance
<1>6. CASE WaiterCloses \/ Done \/ TunnelListens \/ TunnelExits \/ OtherListens \/ OtherEnds
  BY <1>6 DEF WaiterCloses, Done, vars, TunnelListens, TunnelExits, OtherListens, OtherEnds
<1>7. CASE Handshake
  BY <1>7 DEF Handshake
<1> QED
  BY <1>1, <1>2, <1>3, <1>4, <1>5, <1>6, <1>7 DEF Next, Own, WaitsFor

\* The address is handed over only while the tunnel in hand leads to this VM,
\* whoever else used the port before.
THEOREM OwnSuccess == Spec => SuccessIsOwn
<1>1. ASSUME IInv, [Next]_vars, result # "ok", result' = "ok"
      PROVE  listener = "tunnel" /\ tunnelCmd = "started" /\ exited = "open" /\ vm = "up"
  <2>1. pc = "handshake" /\ listener = "tunnel" /\ vm = "up"
    BY <1>1, OnlyHandshakeSucceeds DEF KeyAccepted
  <2>2. processes = 1 /\ tunnelCmd = "started"
    BY <1>1, <2>1 DEF IInv, TypeOK, ProcessInv
  <2>3. exited = "open"
    BY <1>1, <2>2 DEF IInv, TypeOK, ChannelIsCurrent
  <2> QED
    BY <2>1, <2>2, <2>3
<1>2. IInv /\ [Next]_vars =>
        [result # "ok" /\ result' = "ok" =>
           listener = "tunnel" /\ tunnelCmd = "started" /\ exited = "open" /\ vm = "up"]_vars
  BY <1>1
<1> QED
  BY Invariant, <1>2, PTL DEF Spec, SuccessIsOwn

\* A failure noticed after CreateInstance has returned the VM goes through its
\* deletion, and so does the deferred call.
THEOREM NoLeak == Spec => NoLeakOnceCreated
<1>1. ASSUME [Next]_vars, pc \in {"port", "config", "loop", "delete"}, pc' = "done"
      PROVE  vm' \in {"deleted", "undeletable"}
  <2>1. CASE UNCHANGED vars
    BY <1>1, <2>1 DEF vars
  <2>2. CASE CheckFlags \/ Insert \/ OperationWait \/ PollSaysRunning \/ PollFails
    BY <1>1, <2>2 DEF CheckFlags, Insert, OperationWait, PollSaysRunning, PollFails, GoTo
  <2>3. CASE Prepare("port", "config") \/ Prepare("config", "loop") \/ TimeOut
    BY <1>1, <2>3 DEF Prepare, TimeOut, CleanUpAndReturnError
  <2>4. CASE StartTunnel \/ TunnelAssigned \/ NoticeExit \/ NoExitNoticed \/ ProbePort \/ Handshake
    BY <1>1, <2>4 DEF StartTunnel, TunnelAssigned, NoticeExit, NoExitNoticed, ProbePort, Handshake
  <2>5. CASE DeferredCleanup \/ KillTunnel
    BY <1>1, <2>5 DEF DeferredCleanup, KillTunnel, GoTo
  <2>6. CASE WaiterCloses \/ Done \/ TunnelListens \/ TunnelExits \/ OtherListens \/ OtherEnds
    BY <1>1, <2>6 DEF WaiterCloses, Done, vars, TunnelListens, TunnelExits, OtherListens, OtherEnds
  <2>7. CASE DeleteInstance
    BY <2>7 DEF DeleteInstance
  <2> QED
    BY <1>1, <2>1, <2>2, <2>3, <2>4, <2>5, <2>6, <2>7 DEF Next, Own, WaitsFor
<1>2. [Next]_vars =>
        [(pc \in {"port", "config", "loop", "delete"} /\ pc' = "done") =>
           vm' \in {"deleted", "undeletable"}]_vars
  BY <1>1
<1> QED
  BY <1>2, PTL DEF Spec, NoLeakOnceCreated

-----------------------------------------------------------------------------
\* The tunnel as run sees it: the process that could have been lost is not.
LEMMA TunnelShown ==
  ASSUME IInv
  PROVE  TunnelOfRun = IF result # "ok" THEN "none" ELSE IF pc = "done" THEN "killed" ELSE "up"
BY DEF IInv, TypeOK, ProcessInv, TunnelOfRun

\* The same after a step.
LEMMA TunnelShownNext ==
  ASSUME IInv'
  PROVE  TunnelOfRun' =
            IF result' # "ok" THEN "none" ELSE IF pc' = "done" THEN "killed" ELSE "up"
BY DEF IInv, TypeOK, ProcessInv, TunnelOfRun

\* Before the answer run learns of nothing, and after it only of the cleanup.
LEMMA Unnoticed ==
  ASSUME IInv, IInv',
         \/ result # "ok" /\ result' # "ok" /\ pc # "done" /\ pc' # "done"
         \/ UNCHANGED <<result, vm>> /\ (pc = "done" <=> pc' = "done")
  PROVE  UNCHANGED AbstractTarget!targetVars
<1>1. UNCHANGED TunnelOfRun
  BY TunnelShown, TunnelShownNext
<1>2. UNCHANGED <<Answer, VmOfRun>>
  BY DEF Answer, VmOfRun
<1> QED
  BY <1>1, <1>2 DEF AbstractTarget!targetVars

\* provisionAndTunnel returns an error, with no tunnel left.
LEMMA ErrorRefuses ==
  ASSUME IInv, IInv', result # "ok", pc # "done", result' = "error", pc' = "done"
  PROVE  AbstractTarget!Refuse
<1>1. TunnelOfRun = "none" /\ TunnelOfRun' = "none"
  BY TunnelShown, TunnelShownNext
<1>2. Answer = "none" /\ Answer' = "error"
  BY DEF Answer
<1>3. VmOfRun' \in {"none", "up", "deleted", "undeletable"}
  BY DEF VmOfRun, IInv, TypeOK
<1> QED
  BY <1>1, <1>2, <1>3 DEF AbstractTarget!Refuse, AbstractTarget!Refused

\* A handshake that succeeds is the success run is told of.
LEMMA HandshakeSucceeds ==
  ASSUME IInv, IInv', Handshake, result' = "ok"
  PROVE  AbstractTarget!Succeed
<1>1. result = "none" \/ result = "error"
  BY DEF IInv, TypeOK, ProgressInv, Handshake
<1>2. pc = "handshake" /\ pc' = "handed" /\ vm' = "up"
  BY <1>1 DEF Handshake, KeyAccepted
<1>3. TunnelOfRun' = "up"
  BY <1>2, TunnelShownNext
<1>4. Answer = "none" /\ Answer' = "ok" /\ VmOfRun' = "up"
  BY <1>1, <1>2 DEF Answer, VmOfRun
<1> QED
  BY <1>3, <1>4 DEF AbstractTarget!Succeed, AbstractTarget!Ready

\* The end of the closure: called by run it is the cleanup of the contract, and
\* called by the function itself it comes before the answer.
LEMMA DeletionAnswers ==
  ASSUME IInv, IInv', DeleteInstance
  PROVE  AbstractTarget!Next \/ UNCHANGED AbstractTarget!targetVars
<1>1. /\ pc = "delete" /\ pc' = "done" /\ result' = result
      /\ vm' \in {"deleted", "undeletable"}
  BY DEF DeleteInstance, GoTo
<1>2. CASE result = "ok"
  <2>1. TunnelOfRun = "up" /\ TunnelOfRun' = "killed"
    BY <1>1, <1>2, TunnelShown, TunnelShownNext
  <2>2. Answer = "ok" /\ Answer' = "ok" /\ VmOfRun' = vm'
    BY <1>1, <1>2 DEF Answer, VmOfRun
  <2> QED
    BY <1>1, <2>1, <2>2
    DEF AbstractTarget!Next, AbstractTarget!CleanUp, AbstractTarget!TornDown
<1>3. CASE result = "error"
  BY <1>1, <1>3, ErrorRefuses DEF AbstractTarget!Next
<1>4. CASE result = "none"
  <2>1. UNCHANGED TunnelOfRun
    BY <1>1, <1>4, TunnelShown, TunnelShownNext
  <2>2. UNCHANGED <<Answer, VmOfRun>>
    BY <1>1, <1>4 DEF Answer, VmOfRun
  <2> QED
    BY <2>1, <2>2 DEF AbstractTarget!targetVars
<1> QED
  BY <1>2, <1>3, <1>4 DEF IInv, TypeOK

\* provisionAndTunnel and its closure implement the contract that Suite uses,
\* for every deadline and whatever gcloud and GCE do.
THEOREM Refinement == Spec => ImplementsTarget
<1>1. Init => AbstractTarget!Init
  BY DEF Init, AbstractTarget!Init, Answer, VmOfRun, TunnelOfRun
<1>2. ASSUME IInv, IInv', [Next]_vars
      PROVE  AbstractTarget!Next \/ UNCHANGED AbstractTarget!targetVars
  <2> USE DEF IInv, TypeOK, ProgressInv
  <2>1. CASE CheckFlags \/ Insert \/ OperationWait \/ PollFails
    <3>1. result # "ok" /\ pc # "done"
      BY <1>2, <2>1 DEF CheckFlags, Insert, OperationWait, PollFails
    <3>2. CASE pc' = "done"
      <4>1. result' = "error"
        BY <2>1, <3>2 DEF CheckFlags, Insert, OperationWait, PollFails, ReturnError
      <4> QED
        BY <1>2, <3>1, <3>2, <4>1, ErrorRefuses DEF AbstractTarget!Next
    <3>3. CASE pc' # "done"
      <4>1. result' # "ok"
        BY <1>2, <2>1, <3>3 DEF CheckFlags, Insert, OperationWait, PollFails, ReturnError
      <4> QED
        BY <1>2, <3>1, <3>3, <4>1, Unnoticed
    <3> QED
      BY <3>2, <3>3
  <2>2. CASE PollSaysRunning \/ StartTunnel \/ TunnelAssigned \/ NoticeExit \/ NoExitNoticed
             \/ ProbePort \/ DeferredCleanup \/ KillTunnel
    <3>1. UNCHANGED <<result, vm>> /\ pc # "done" /\ pc' # "done"
      BY <2>2 DEF PollSaysRunning, StartTunnel, TunnelAssigned, NoticeExit, NoExitNoticed,
         ProbePort, DeferredCleanup, KillTunnel, GoTo
    <3> QED
      BY <1>2, <3>1, Unnoticed
  <2>3. CASE Prepare("port", "config") \/ Prepare("config", "loop") \/ TimeOut
    <3>1. result # "ok" /\ result' # "ok" /\ pc # "done" /\ pc' # "done"
      BY <1>2, <2>3 DEF Prepare, TimeOut, CleanUpAndReturnError
    <3> QED
      BY <1>2, <3>1, Unnoticed
  <2>4. CASE Handshake
    <3>1. CASE result' = "ok"
      BY <1>2, <2>4, <3>1, HandshakeSucceeds DEF AbstractTarget!Next
    <3>2. CASE result' # "ok"
      <4>1. UNCHANGED <<result, vm>> /\ pc # "done" /\ pc' # "done"
        BY <2>4, <3>2 DEF Handshake
      <4> QED
        BY <1>2, <4>1, Unnoticed
    <3> QED
      BY <3>1, <3>2
  <2>5. CASE DeleteInstance
    BY <1>2, <2>5, DeletionAnswers
  <2>6. CASE WaiterCloses \/ TunnelListens \/ TunnelExits \/ OtherListens \/ OtherEnds
    <3>1. UNCHANGED <<result, vm, pc>>
      BY <2>6 DEF WaiterCloses, TunnelListens, TunnelExits, OtherListens, OtherEnds
    <3> QED
      BY <1>2, <3>1, Unnoticed
  <2>7. CASE Done \/ UNCHANGED vars
    <3>1. UNCHANGED <<result, vm, pc>>
      BY <2>7 DEF Done, vars
    <3> QED
      BY <1>2, <3>1, Unnoticed
  <2> QED
    BY <1>2, <2>1, <2>2, <2>3, <2>4, <2>5, <2>6, <2>7 DEF Next, Own, WaitsFor
<1>3. IInv /\ IInv' /\ [Next]_vars => [AbstractTarget!Next]_(AbstractTarget!targetVars)
  BY <1>2
<1> QED
  BY Invariant, <1>1, <1>3, PTL DEF Spec, ImplementsTarget, AbstractTarget!Spec
=============================================================================
