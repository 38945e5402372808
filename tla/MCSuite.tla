------------------------------ MODULE MCSuite ------------------------------
(***************************************************************************)
(* Model of Suite for TLC: two gatekeepers, one of which breaks the rules  *)
(* by needing a tool, three other checks, two of them with a tool, and     *)
(* three destructive checks, one of which breaks the rules by having no    *)
(* Cleanup. Docker requires a new login; nobody has an installer for helm. *)
(***************************************************************************)
EXTENDS Suite

CONSTANTS gate, greedyGate, plain, dependent, exotic, mutator, wrecker, careless,
          docker, kind, helm

MCChecks == {gate, greedyGate, plain, dependent, exotic, mutator, wrecker, careless}
MCTools == {docker, kind, helm}
MCTier0Checks == {gate, greedyGate}
MCDestructiveChecks == {mutator, wrecker, careless}
MCCleanableChecks == {mutator, wrecker}
MCNeeds == [c \in MCChecks |-> CASE c \in {greedyGate, exotic} -> {helm}
                                 [] c = dependent -> {docker, kind}
                                 [] c = mutator -> {docker}
                                 [] OTHER -> {}]
MCInstallableTools == {docker, kind}
MCReconnectTools == {docker}
=============================================================================
