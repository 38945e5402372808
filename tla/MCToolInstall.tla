--------------------------- MODULE MCToolInstall ---------------------------
(* Model of ToolInstall for TLC: each branch of the Docker installer, one  *)
(* of the two executables that are fetched alike, and two executions.      *)
EXTENDS ToolInstall

MCRequired == {"docker", "kind", "cilium"}
MCOSes == {"cos", "nixos", "ubuntu", "rhel"}
=============================================================================
