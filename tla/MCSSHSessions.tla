--------------------------- MODULE MCSSHSessions ---------------------------
(* Model of SSHSessions for TLC: two calls at a time on a connection with  *)
(* three sessions, and a third and fourth call for which commands that     *)
(* outlived their own may leave no session.                                *)
EXTENDS SSHSessions

MCNumCalls == 4
=============================================================================
