------------------------ MODULE MCDestructiveChecks ------------------------
(* The registered check alone, and the others as if they were registered. *)
EXTENDS DestructiveChecks

MCRegistries == {{"containerCerts"}, {"dockerRun"}, {"ciliumDatapath", "kindCluster"}}
=============================================================================
