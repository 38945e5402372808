-------------------------- MODULE MCProvisioning --------------------------
(* Model of Provisioning for TLC: a deadline that leaves room for several  *)
(* attempts, failed starts and exits of the tunnel in every order.         *)
EXTENDS Provisioning

MCDeadline == 40
=============================================================================
