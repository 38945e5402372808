------------------------------- MODULE Target -------------------------------
(***************************************************************************)
(* What provisionAndTunnel (src/main.go) and the cleanup closure it        *)
(* returns promise to run, whatever GCE and gcloud do: run is answered     *)
(* once. With a success it gets a VM and a tunnel, and the closure, called *)
(* once, stops the tunnel and deletes the VM or tries to. With an error it *)
(* gets no closure: no tunnel is left, though a VM may be.                 *)
(***************************************************************************)

VARIABLES answer,        \* what run has been told
          vm,            \* the VM, as run has to count with it
          tunnel         \* the gcloud process run is responsible for

targetVars == <<answer, vm, tunnel>>

Init ==
    /\ answer = "none"
    /\ vm = "none"
    /\ tunnel = "none"

(* What the call does to the VM and the tunnel: with a success, with an    *)
(* error, and when the closure is called.                                  *)
Ready == vm' = "up" /\ tunnel' = "up"

Refused == vm' \in {"none", "up", "deleted", "undeletable"} /\ UNCHANGED tunnel

TornDown ==
    /\ tunnel = "up" /\ tunnel' = "killed"
    /\ vm' \in {"deleted", "undeletable"}

Succeed == Ready /\ answer = "none" /\ answer' = "ok"

Refuse == Refused /\ answer = "none" /\ answer' = "error"

CleanUp == TornDown /\ answer = "ok" /\ UNCHANGED answer

Next == Succeed \/ Refuse \/ CleanUp

Spec == Init /\ [][Next]_targetVars
=============================================================================
