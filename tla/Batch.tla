------------------------------- MODULE Batch -------------------------------
(***************************************************************************)
(* What a batch of checks promises to its caller, runTier0 or runTier1,    *)
(* whatever goroutines and channels carry it out: at most Concurrency      *)
(* checks execute at any time, the verdict is given once and only when     *)
(* nothing is executing any more, a batch stops early only because its     *)
(* context was cancelled, and it passes exactly when every check of it was *)
(* executed and passed.                                                    *)
(***************************************************************************)
EXTENDS Naturals, FiniteSets

CONSTANTS Checks,        \* every check there is
          Concurrency    \* value of the -concurrency flag

VARIABLES members,       \* the checks of this batch
          outcome,       \* what is known of each check
          verdict,       \* what the caller has been told
          cancelled      \* the context of the batch is done

batchVars == <<members, outcome, verdict, cancelled>>

Outcomes == {"unstarted", "running", "passed", "failed"}

BatchTypeOK ==
    /\ members \in SUBSET Checks
    /\ outcome \in [Checks -> Outcomes]
    /\ verdict \in {"none", "pass", "fail"}
    /\ cancelled \in BOOLEAN

Having(o) == {c \in members : outcome[c] = o}

Init ==
    /\ members \in SUBSET Checks
    /\ outcome = [c \in Checks |-> "unstarted"]
    /\ verdict = "none"
    /\ cancelled = FALSE

Start(c) ==
    /\ verdict = "none"
    /\ c \in members /\ outcome[c] = "unstarted"
    /\ Cardinality(Having("running")) < Concurrency
    /\ outcome' = [outcome EXCEPT ![c] = "running"]
    /\ UNCHANGED <<members, verdict, cancelled>>

Finish(c) ==
    /\ c \in members /\ outcome[c] = "running"
    /\ \E o \in {"passed", "failed"} : outcome' = [outcome EXCEPT ![c] = o]
    /\ UNCHANGED <<members, verdict, cancelled>>

Decide ==
    /\ verdict = "none"
    /\ Having("running") = {}
    /\ cancelled \/ Having("unstarted") = {}
    /\ verdict' = IF Having("passed") = members THEN "pass" ELSE "fail"
    /\ UNCHANGED <<members, outcome, cancelled>>

Cancel ==
    /\ ~cancelled
    /\ cancelled' = TRUE
    /\ UNCHANGED <<members, outcome, verdict>>

Next ==
    \/ \E c \in Checks : Start(c) \/ Finish(c)
    \/ Decide
    \/ Cancel

Spec == Init /\ [][Next]_batchVars
=============================================================================
