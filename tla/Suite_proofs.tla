---------------------------- MODULE Suite_proofs ----------------------------
(***************************************************************************)
(* The safety properties of one execution of the program, for every set of *)
(* checks and tools, whatever they need and whichever way each step goes.  *)
(*                                                                         *)
(* The inductive invariant says, for each stage of run, what has happened  *)
(* before it; its conjuncts are shown to be preserved one by one.          *)
(***************************************************************************)
EXTENDS Suite, FiniteSetTheorems, TLAPS

(* The stages by what has happened before them.                            *)
Unfiltered == {"target", "connect", "detect", "validate"}
Resolving  == {"resolve", "tools", "reconnect"}
InTier1    == {"tier1", "destructive", "cleanup"}
Unwinding  == {"unwind", "teardown"}
Returned   == status \in {"exit0", "exit1"}

(* Only checks that passed validateChecks become active, and only active   *)
(* ones are started.                                                       *)
FilterInv ==
    /\ stage \in Unfiltered => active = {}
    /\ \A c \in active : Conforms(c)
    /\ \A c \in Checks : outcome[c] # "unstarted" => c \in active

(* The members of a batch are the checks of its tier, and its verdict is   *)
(* still open while its stage lasts.                                       *)
BatchInv ==
    /\ stage = "tier0" => members = ActiveTier0 /\ verdict = "none"
    /\ stage = "tier1" => members = NonDestructive /\ verdict = "none"

(* How far the checks of each tier have come at each stage.                *)
OutcomeInv ==
    /\ stage \in {"tier0"} \cup Resolving =>
           \A c \in ActiveTier1 : outcome[c] = "unstarted"
    /\ stage \in Resolving \cup InTier1 =>
           \A c \in ActiveTier0 : outcome[c] = "passed"
    /\ stage = "tier1" => \A c \in Destructive : outcome[c] = "unstarted"
    /\ stage \in {"destructive", "cleanup"} => \A c \in NonDestructive : Ended(c)
    /\ Running # {} => stage \in {"tier0", "tier1", "destructive", "over"}
    /\ stage = "destructive" => \A c, d \in Running : c = d

(* Whose Cleanup has been called, and whose is due.                        *)
Due(c) == c \in Destructive /\ Ended(c) /\ cleaned[c] = "no"

TidyInv ==
    /\ \A c \in Checks : cleaned[c] # "no" => c \in Destructive /\ Ended(c)
    /\ stage \in {"destructive"} \cup Unwinding => \A c \in Checks : ~Due(c)
    /\ stage = "cleanup" => \A c, d \in Checks : Due(c) /\ Due(d) => c = d
    /\ Returned => \A c \in Destructive : outcome[c] # "running" /\ ~Due(c)

(* failed is set by everything that keeps the suite from certifying.       *)
Certified ==
    \A c \in active : outcome[c] = "passed" /\ (c \in Destructive => cleaned[c] = "ok")

FailedInv ==
    /\ stage \in {"destructive", "cleanup"} /\ ~failed =>
           /\ \A c \in NonDestructive : outcome[c] = "passed"
           /\ \A c \in Destructive : outcome[c] # "failed" /\ cleaned[c] # "error"
    /\ stage \in Unwinding /\ ~failed => Certified
    /\ status = "exit0" => Certified

(* There is one connection in hand, which checks and the deferred Close    *)
(* share, and no other is open.                                            *)
ConnInv ==
    /\ sshClient = runner
    /\ \A i \in Conn : clients[i] = "open" => i = sshClient
    /\ stage \in {"target", "connect"} => sshClient = 0
    /\ stage \in {"detect", "validate", "tier0"} \cup Resolving => sshClient = 1
    /\ stage \in {"detect", "validate", "tier0"} \cup Resolving \cup InTier1 =>
           sshClient \in Conn /\ clients[sshClient] = "open"
    /\ stage = "teardown" \/ Returned => \A i \in Conn : clients[i] # "open"

(* What is installed, and in which login it can be used.                   *)
ToolInv ==
    /\ stage \in Unfiltered \cup {"tier0", "resolve"} => installed = {}
    /\ stage = "tools" /\ installed \cap ReconnectTools # {} => reconnect
    /\ stage \in InTier1 => installed \cap ReconnectTools \subseteq loggedInWith[runner]
    /\ stage \in {"tools", "reconnect"} \cup InTier1 =>
           \A c \in ActiveTier1 : Needs[c] \subseteq InstallableTools \cup todo
    /\ stage \in {"reconnect"} \cup InTier1 => todo = {}

(* The VM and the tunnel that provisioning has handed over.                *)
TargetInv ==
    /\ status = "alive" <=> stage # "over"
    /\ stage = "target" => tunnel = "none"
    /\ tunnel = "killed" => vm # "up"
    /\ Returned => tunnel # "up"

(* The inductive invariant.                                                *)
IInv ==
    /\ TypeOK /\ FilterInv /\ BatchInv /\ OutcomeInv /\ TidyInv
    /\ FailedInv /\ ConnInv /\ ToolInv /\ TargetInv

-----------------------------------------------------------------------------
\* Which steps touch which variables.
LEMMA Frames ==
  ASSUME [Next]_vars
  PROVE  /\ UNCHANGED checkVars \/ ValidateAndFilter
         /\ \/ UNCHANGED batchVars
            \/ ValidateAndFilter \/ AllToolsVisited \/ Reconnect
            \/ EndTier0 \/ EndNonDestructive
            \/ \E c \in Checks : StartCheck(c) \/ FinishCheck(c)
                                 \/ RunDestructive(c) \/ EndDestructive(c)
         /\ UNCHANGED cleaned \/ \E c \in Checks : CleanUp(c)
         /\ UNCHANGED toolVars \/ CollectTools
            \/ \E t \in Tools : AlreadyExists(t) \/ Install(t)
         /\ UNCHANGED sshVars \/ Connect \/ Reconnect \/ CloseClient
         /\ UNCHANGED targetVars \/ Provision \/ TearDown
<1>1. CASE UNCHANGED vars
  BY <1>1 DEF vars
<1>2. CASE UseExistingVM \/ Provision \/ Connect \/ DetectOS \/ ValidateAndFilter
  BY <1>2 DEF UseExistingVM, Provision, T!Ready, T!Refused, Connect, DetectOS, ValidateAndFilter, checkVars
<1>3. ASSUME NEW c \in Checks, \/ StartCheck(c) \/ FinishCheck(c)
                               \/ RunDestructive(c) \/ EndDestructive(c) \/ CleanUp(c)
      PROVE  /\ UNCHANGED <<checkVars, toolVars, sshVars, targetVars>>
             /\ UNCHANGED cleaned \/ CleanUp(c)
             /\ UNCHANGED batchVars \/ ~CleanUp(c)
  BY <1>3 DEF StartCheck, FinishCheck, RunDestructive, EndDestructive, CleanUp, OutsideBatch
<1>4. CASE EndTier0 \/ EndNonDestructive \/ EndTier1 \/ CollectTools \/ AllToolsVisited \/ Reconnect
  BY <1>4 DEF EndTier0, EndNonDestructive, EndTier1, CollectTools, AllToolsVisited,
              Reconnect, OutsideBatch
<1>5. ASSUME NEW t \in Tools, NoInstaller(t) \/ AlreadyExists(t) \/ Install(t)
      PROVE  /\ UNCHANGED <<checkVars, batchVars, cleaned, sshVars, targetVars>>
             /\ NoInstaller(t) => UNCHANGED toolVars
  BY <1>5 DEF NoInstaller, AlreadyExists, Install, toolVars
<1>6. CASE CloseClient \/ TearDown \/ NothingDeferred \/ Killed \/ Over
  BY <1>6 DEF CloseClient, TearDown, T!TornDown, NothingDeferred, Exit, Killed, Over, vars
<1> QED
  BY <1>1, <1>2, <1>3, <1>4, <1>5, <1>6 DEF Next, Step

\* The stage, and how the process ends, keep their types.
LEMMA ControlStep ==
  ASSUME TypeOK, [Next]_vars
  PROVE  /\ stage' \in Stages /\ failed' \in BOOLEAN
         /\ status' \in {"alive", "exit0", "exit1", "crashed"}
<1>0. /\ stage \in Stages /\ failed \in BOOLEAN
      /\ status \in {"alive", "exit0", "exit1", "crashed"}
  BY DEF TypeOK
<1> USE <1>0 DEF Stages
<1>1. CASE UNCHANGED vars
  BY <1>1 DEF vars
<1>2. CASE UseExistingVM \/ Provision \/ Connect \/ DetectOS \/ ValidateAndFilter
  BY <1>2 DEF UseExistingVM, Provision, T!Ready, T!Refused, Connect, DetectOS, ValidateAndFilter, Fail
<1>3. ASSUME NEW c \in Checks, \/ StartCheck(c) \/ FinishCheck(c)
                               \/ RunDestructive(c) \/ EndDestructive(c) \/ CleanUp(c)
      PROVE  /\ stage' \in Stages /\ failed' \in BOOLEAN
             /\ status' \in {"alive", "exit0", "exit1", "crashed"}
  BY <1>3 DEF StartCheck, FinishCheck, RunDestructive, EndDestructive, CleanUp, OutsideBatch
<1>4. CASE EndTier0 \/ EndNonDestructive \/ EndTier1 \/ CollectTools \/ AllToolsVisited \/ Reconnect
  BY <1>4 DEF EndTier0, EndNonDestructive, EndTier1, CollectTools, AllToolsVisited,
              Reconnect, EnterTier1, Fail, OutsideBatch
<1>5. ASSUME NEW t \in Tools, NoInstaller(t) \/ AlreadyExists(t) \/ Install(t)
      PROVE  /\ stage' \in Stages /\ failed' \in BOOLEAN
             /\ status' \in {"alive", "exit0", "exit1", "crashed"}
  BY <1>5 DEF NoInstaller, AlreadyExists, Install, Fail
<1>6. CASE CloseClient \/ TearDown \/ NothingDeferred \/ Killed \/ Over
  BY <1>6 DEF CloseClient, TearDown, T!TornDown, NothingDeferred, Exit, Killed, Over, vars
<1> QED
  BY <1>1, <1>2, <1>3, <1>4, <1>5, <1>6 DEF Next, Step

\* Registered, active and chosen checks contain one another, and each check has
\* one outcome.
LEMMA ChecksStep ==
  ASSUME TypeOK, FilterInv, [Next]_vars
  PROVE  /\ registered' \in SUBSET Checks /\ active' \in SUBSET registered'
         /\ ctxDone' = FALSE /\ members' \in SUBSET active'
         /\ outcome' \in [Checks -> {"unstarted", "running", "passed", "failed"}]
         /\ verdict' \in {"none", "pass", "fail"}
<1>0. /\ registered \in SUBSET Checks /\ active \in SUBSET registered
      /\ ctxDone = FALSE /\ members \in SUBSET active
      /\ outcome \in [Checks -> {"unstarted", "running", "passed", "failed"}]
      /\ verdict \in {"none", "pass", "fail"}
  BY DEF TypeOK
<1> USE <1>0 DEF checkVars, batchVars
<1>1. CASE ValidateAndFilter
  <2>1. members = {} /\ active = {}
    BY <1>1 DEF ValidateAndFilter, FilterInv, Unfiltered
  <2>2. PICK cs \in SUBSET registered :
            /\ active' = cs
            /\ \/ UNCHANGED batchVars
               \/ members' = cs \cap Tier0Checks /\ outcome' = outcome /\ verdict' = "none"
    BY <1>1, <2>1 DEF ValidateAndFilter, BeginBatch
  <2>3. registered' = registered /\ ctxDone' = ctxDone
    BY <1>1 DEF ValidateAndFilter
  <2> QED
    BY <2>1, <2>2, <2>3
<1>2. CASE UNCHANGED <<checkVars, batchVars>>
  BY <1>2
<1>3. CASE UNCHANGED checkVars /\ (AllToolsVisited \/ Reconnect)
  BY <1>3 DEF AllToolsVisited, Reconnect, EnterTier1, BeginBatch, NonDestructive, ActiveTier1
<1>4. CASE UNCHANGED checkVars /\ (EndTier0 \/ EndNonDestructive)
  BY <1>4 DEF EndTier0, EndNonDestructive, B!Decide
<1>5. ASSUME UNCHANGED checkVars,
             NEW c \in Checks, \/ StartCheck(c) \/ FinishCheck(c)
                               \/ RunDestructive(c) \/ EndDestructive(c)
      PROVE  /\ members' = members /\ verdict' = verdict
             /\ outcome' \in [Checks -> {"unstarted", "running", "passed", "failed"}]
  BY <1>5 DEF StartCheck, FinishCheck, B!Start, B!Finish, RunDestructive, EndDestructive
<1> QED
  BY <1>1, <1>2, <1>3, <1>4, <1>5, Frames

\* What Cleanup returned, the tools and the target keep their types.
LEMMA EffectsStep ==
  ASSUME TypeOK, [Next]_vars
  PROVE  /\ cleaned' \in [Checks -> {"no", "ok", "error"}]
         /\ todo' \in SUBSET Tools /\ installed' \in SUBSET Tools
         /\ reconnect' \in BOOLEAN
         /\ vm' \in {"none", "up", "deleted", "undeletable"}
         /\ tunnel' \in {"none", "up", "killed"}
<1>0. /\ cleaned \in [Checks -> {"no", "ok", "error"}] /\ active \in SUBSET Checks
      /\ todo \in SUBSET Tools /\ installed \in SUBSET Tools /\ reconnect \in BOOLEAN
      /\ vm \in {"none", "up", "deleted", "undeletable"}
      /\ tunnel \in {"none", "up", "killed"}
  BY DEF TypeOK
<1>1. cleaned' \in [Checks -> {"no", "ok", "error"}]
  BY <1>0, Frames DEF CleanUp
<1>2. todo' \in SUBSET Tools /\ installed' \in SUBSET Tools /\ reconnect' \in BOOLEAN
  <2>1. CASE UNCHANGED toolVars
    BY <1>0, <2>1 DEF toolVars
  <2>2. CASE CollectTools
    <3>1. \A c \in ActiveTier1 : Needs[c] \in SUBSET Tools
      BY <1>0, SuiteAssumption DEF ActiveTier1
    <3> QED
      BY <1>0, <2>2, <3>1 DEF CollectTools
  <2>3. ASSUME NEW t \in Tools, AlreadyExists(t) \/ Install(t)
        PROVE  todo' \in SUBSET Tools /\ installed' \in SUBSET Tools /\ reconnect' \in BOOLEAN
    BY <1>0, <2>3 DEF AlreadyExists, Install
  <2> QED
    BY <2>1, <2>2, <2>3, Frames
<1>3. /\ vm' \in {"none", "up", "deleted", "undeletable"}
      /\ tunnel' \in {"none", "up", "killed"}
  BY <1>0, Frames DEF targetVars, Provision, T!Ready, T!Refused, TearDown, T!TornDown
<1> QED
  BY <1>1, <1>2, <1>3

\* The connections keep their types.
LEMMA ConnectionsStep ==
  ASSUME TypeOK, [Next]_vars
  PROVE  /\ clients' \in [Conn -> {"unused", "open", "closed"}]
         /\ sshClient' \in Conn \cup {0} /\ runner' \in Conn \cup {0}
         /\ loggedInWith' \in [Conn -> SUBSET Tools]
<1>0. /\ clients \in [Conn -> {"unused", "open", "closed"}]
      /\ sshClient \in Conn \cup {0} /\ runner \in Conn \cup {0}
      /\ loggedInWith \in [Conn -> SUBSET Tools] /\ installed \in SUBSET Tools
      /\ 1 \in Conn /\ 2 \in Conn
  BY DEF TypeOK, Conn
<1>1. CASE UNCHANGED sshVars
  BY <1>0, <1>1 DEF sshVars
<1>2. CASE Connect
  BY <1>0, <1>2 DEF Connect, Dial, sshVars
<1>3. CASE Reconnect
  BY <1>0, <1>3 DEF Reconnect
<1>4. CASE CloseClient
  BY <1>0, <1>4 DEF CloseClient
<1> QED
  BY <1>1, <1>2, <1>3, <1>4, Frames

\* Every step preserves the types.
LEMMA TypeStep ==
  ASSUME TypeOK, FilterInv, [Next]_vars
  PROVE  TypeOK'
BY ControlStep, ChecksStep, EffectsStep, ConnectionsStep DEF TypeOK

-----------------------------------------------------------------------------
\* Nothing is started that validateChecks and IsApplicable did not let through.
LEMMA FilterStep ==
  ASSUME TypeOK, FilterInv, BatchInv, [Next]_vars
  PROVE  FilterInv'
<1>0. /\ outcome \in [Checks -> {"unstarted", "running", "passed", "failed"}]
      /\ registered \in SUBSET Checks /\ active \in SUBSET registered /\ members \in SUBSET active
  BY DEF TypeOK, Conn
<1> USE <1>0 DEF checkVars, batchVars, toolVars, sshVars, targetVars, FilterInv,
        BatchInv, Conforms, Unfiltered, Resolving, InTier1, Unwinding, Returned,
        ActiveTier0, ActiveTier1, NonDestructive, Destructive, Running, Ended
<1>1. CASE UseExistingVM
  BY <1>1 DEF UseExistingVM, Fail
<1>2. CASE Provision
  BY <1>2 DEF Provision, T!Ready, T!Refused, Fail
<1>3. CASE Connect
  BY <1>3 DEF Connect, Dial, Fail
<1>4. CASE DetectOS
  BY <1>4 DEF DetectOS, Fail
<1>5. CASE ValidateAndFilter
  BY <1>5 DEF ValidateAndFilter, BeginBatch, Fail
<1>6. ASSUME NEW c \in Checks, StartCheck(c)
      PROVE  FilterInv'
  BY <1>6 DEF StartCheck, InBatch, B!Start, OutsideBatch
<1>7. ASSUME NEW c \in Checks, FinishCheck(c)
      PROVE  FilterInv'
  BY <1>7 DEF FinishCheck, InBatch, B!Finish, OutsideBatch
<1>8. CASE EndTier0
  BY <1>8 DEF EndTier0, B!Decide, B!Having, Fail, OutsideBatch
<1>9. CASE EndNonDestructive
  BY <1>9 DEF EndNonDestructive, B!Decide, B!Having, OutsideBatch
<1>10. CASE CollectTools
  BY <1>10 DEF CollectTools
<1>11. ASSUME NEW t \in Tools, NoInstaller(t)
      PROVE  FilterInv'
  BY <1>11 DEF NoInstaller, Fail
<1>12. ASSUME NEW t \in Tools, AlreadyExists(t)
      PROVE  FilterInv'
  BY <1>12 DEF AlreadyExists
<1>13. ASSUME NEW t \in Tools, Install(t)
      PROVE  FilterInv'
  BY <1>13 DEF Install, Fail
<1>14. CASE AllToolsVisited
  BY <1>14 DEF AllToolsVisited, EnterTier1, BeginBatch
<1>15. CASE Reconnect
  BY <1>15 DEF Reconnect, EnterTier1, BeginBatch, Fail
<1>16. ASSUME NEW c \in Checks, RunDestructive(c)
      PROVE  FilterInv'
  BY <1>16 DEF RunDestructive, OutsideBatch
<1>17. ASSUME NEW c \in Checks, EndDestructive(c)
      PROVE  FilterInv'
  BY <1>17 DEF EndDestructive, OutsideBatch
<1>18. ASSUME NEW c \in Checks, CleanUp(c)
      PROVE  FilterInv'
  BY <1>18 DEF CleanUp
<1>19. CASE EndTier1
  BY <1>19 DEF EndTier1, OutsideBatch
<1>20. CASE CloseClient
  BY <1>20 DEF CloseClient
<1>21. CASE TearDown
  BY <1>21 DEF TearDown, T!TornDown, Exit
<1>22. CASE NothingDeferred
  BY <1>22 DEF NothingDeferred, Exit
<1>23. CASE Killed
  BY <1>23 DEF Killed
<1>24. CASE UNCHANGED vars
  BY <1>24 DEF vars
<1> QED
  BY <1>1, <1>2, <1>3, <1>4, <1>5, <1>6, <1>7, <1>8, <1>9, <1>10, <1>11, <1>12,
     <1>13, <1>14, <1>15, <1>16, <1>17, <1>18, <1>19, <1>20, <1>21, <1>22, <1>23,
     <1>24
  DEF Next, Step, Over

\* runChecksConcurrently is given the checks of one tier at a time.
LEMMA BatchStep ==
  ASSUME TypeOK, FilterInv, BatchInv, [Next]_vars
  PROVE  BatchInv'
<1>0. /\ outcome \in [Checks -> {"unstarted", "running", "passed", "failed"}]
      /\ registered \in SUBSET Checks /\ active \in SUBSET registered /\ members \in SUBSET active
      /\ verdict \in {"none", "pass", "fail"}
  BY DEF TypeOK, Conn
<1> USE <1>0 DEF checkVars, batchVars, toolVars, sshVars, targetVars, FilterInv,
        BatchInv, Unfiltered, Resolving, InTier1, Unwinding, Returned, ActiveTier0,
        ActiveTier1, NonDestructive, Destructive, Running, Ended
<1>1. CASE UseExistingVM
  BY <1>1 DEF UseExistingVM, Fail
<1>2. CASE Provision
  BY <1>2 DEF Provision, T!Ready, T!Refused, Fail
<1>3. CASE Connect
  BY <1>3 DEF Connect, Dial, Fail
<1>4. CASE DetectOS
  BY <1>4 DEF DetectOS, Fail
<1>5. CASE ValidateAndFilter
  BY <1>5 DEF ValidateAndFilter, BeginBatch, Fail
<1>6. ASSUME NEW c \in Checks, StartCheck(c)
      PROVE  BatchInv'
  BY <1>6 DEF StartCheck, InBatch, B!Start, OutsideBatch
<1>7. ASSUME NEW c \in Checks, FinishCheck(c)
      PROVE  BatchInv'
  BY <1>7 DEF FinishCheck, InBatch, B!Finish, OutsideBatch
<1>8. CASE EndTier0
  BY <1>8 DEF EndTier0, B!Decide, B!Having, Fail, OutsideBatch
<1>9. CASE EndNonDestructive
  BY <1>9 DEF EndNonDestructive, B!Decide, B!Having, OutsideBatch
<1>10. CASE CollectTools
  BY <1>10 DEF CollectTools
<1>11. ASSUME NEW t \in Tools, NoInstaller(t)
      PROVE  BatchInv'
  BY <1>11 DEF NoInstaller, Fail
<1>12. ASSUME NEW t \in Tools, AlreadyExists(t)
      PROVE  BatchInv'
  BY <1>12 DEF AlreadyExists
<1>13. ASSUME NEW t \in Tools, Install(t)
      PROVE  BatchInv'
  BY <1>13 DEF Install, Fail
<1>14. CASE AllToolsVisited
  BY <1>14 DEF AllToolsVisited, EnterTier1, BeginBatch
<1>15. CASE Reconnect
  BY <1>15 DEF Reconnect, EnterTier1, BeginBatch, Fail
<1>16. ASSUME NEW c \in Checks, RunDestructive(c)
      PROVE  BatchInv'
  BY <1>16 DEF RunDestructive, OutsideBatch
<1>17. ASSUME NEW c \in Checks, EndDestructive(c)
      PROVE  BatchInv'
  BY <1>17 DEF EndDestructive, OutsideBatch
<1>18. ASSUME NEW c \in Checks, CleanUp(c)
      PROVE  BatchInv'
  BY <1>18 DEF CleanUp
<1>19. CASE EndTier1
  BY <1>19 DEF EndTier1, OutsideBatch
<1>20. CASE CloseClient
  BY <1>20 DEF CloseClient
<1>21. CASE TearDown
  BY <1>21 DEF TearDown, T!TornDown, Exit
<1>22. CASE NothingDeferred
  BY <1>22 DEF NothingDeferred, Exit
<1>23. CASE Killed
  BY <1>23 DEF Killed
<1>24. CASE UNCHANGED vars
  BY <1>24 DEF vars
<1> QED
  BY <1>1, <1>2, <1>3, <1>4, <1>5, <1>6, <1>7, <1>8, <1>9, <1>10, <1>11, <1>12,
     <1>13, <1>14, <1>15, <1>16, <1>17, <1>18, <1>19, <1>20, <1>21, <1>22, <1>23,
     <1>24
  DEF Next, Step, Over

\* The stages follow the order of the tiers, and no check is left running between
\* them.
LEMMA OutcomeStep ==
  ASSUME TypeOK, FilterInv, BatchInv, OutcomeInv, [Next]_vars
  PROVE  OutcomeInv'
<1>0. /\ outcome \in [Checks -> {"unstarted", "running", "passed", "failed"}]
      /\ registered \in SUBSET Checks /\ active \in SUBSET registered /\ members \in SUBSET active
      /\ verdict \in {"none", "pass", "fail"}
      /\ ctxDone = FALSE
  BY DEF TypeOK, Conn
<1> USE <1>0 DEF checkVars, batchVars, toolVars, sshVars, targetVars, FilterInv,
        BatchInv, OutcomeInv, Unfiltered, Resolving, InTier1, Unwinding, Returned,
        ActiveTier0, ActiveTier1, NonDestructive, Destructive, Running, Ended
<1>1. CASE UseExistingVM
  BY <1>1 DEF UseExistingVM, Fail
<1>2. CASE Provision
  BY <1>2 DEF Provision, T!Ready, T!Refused, Fail
<1>3. CASE Connect
  BY <1>3 DEF Connect, Dial, Fail
<1>4. CASE DetectOS
  BY <1>4 DEF DetectOS, Fail
<1>5. CASE ValidateAndFilter
  BY <1>5 DEF ValidateAndFilter, BeginBatch, Fail
<1>6. ASSUME NEW c \in Checks, StartCheck(c)
      PROVE  OutcomeInv'
  BY <1>6 DEF StartCheck, InBatch, B!Start, OutsideBatch
<1>7. ASSUME NEW c \in Checks, FinishCheck(c)
      PROVE  OutcomeInv'
  BY <1>7 DEF FinishCheck, InBatch, B!Finish, OutsideBatch
<1>8. CASE EndTier0
  BY <1>8 DEF EndTier0, B!Decide, B!Having, Fail, OutsideBatch
<1>9. CASE EndNonDestructive
  BY <1>9 DEF EndNonDestructive, B!Decide, B!Having, OutsideBatch
<1>10. CASE CollectTools
  BY <1>10 DEF CollectTools
<1>11. ASSUME NEW t \in Tools, NoInstaller(t)
      PROVE  OutcomeInv'
  BY <1>11 DEF NoInstaller, Fail
<1>12. ASSUME NEW t \in Tools, AlreadyExists(t)
      PROVE  OutcomeInv'
  BY <1>12 DEF AlreadyExists
<1>13. ASSUME NEW t \in Tools, Install(t)
      PROVE  OutcomeInv'
  BY <1>13 DEF Install, Fail
<1>14. CASE AllToolsVisited
  BY <1>14 DEF AllToolsVisited, EnterTier1, BeginBatch
<1>15. CASE Reconnect
  BY <1>15 DEF Reconnect, EnterTier1, BeginBatch, Fail
<1>16. ASSUME NEW c \in Checks, RunDestructive(c)
      PROVE  OutcomeInv'
  BY <1>16 DEF RunDestructive, OutsideBatch
<1>17. ASSUME NEW c \in Checks, EndDestructive(c)
      PROVE  OutcomeInv'
  BY <1>17 DEF EndDestructive, OutsideBatch
<1>18. ASSUME NEW c \in Checks, CleanUp(c)
      PROVE  OutcomeInv'
  BY <1>18 DEF CleanUp
<1>19. CASE EndTier1
  BY <1>19 DEF EndTier1, OutsideBatch
<1>20. CASE CloseClient
  BY <1>20 DEF CloseClient
<1>21. CASE TearDown
  BY <1>21 DEF TearDown, T!TornDown, Exit
<1>22. CASE NothingDeferred
  BY <1>22 DEF NothingDeferred, Exit
<1>23. CASE Killed
  BY <1>23 DEF Killed
<1>24. CASE UNCHANGED vars
  BY <1>24 DEF vars
<1> QED
  BY <1>1, <1>2, <1>3, <1>4, <1>5, <1>6, <1>7, <1>8, <1>9, <1>10, <1>11, <1>12,
     <1>13, <1>14, <1>15, <1>16, <1>17, <1>18, <1>19, <1>20, <1>21, <1>22, <1>23,
     <1>24
  DEF Next, Step, Over

\* Each destructive check is followed by its own Cleanup before the next one starts.
LEMMA TidyStep ==
  ASSUME TypeOK, FilterInv, BatchInv, OutcomeInv, TidyInv, TargetInv, [Next]_vars
  PROVE  TidyInv'
<1>0. /\ outcome \in [Checks -> {"unstarted", "running", "passed", "failed"}]
      /\ cleaned \in [Checks -> {"no", "ok", "error"}]
      /\ registered \in SUBSET Checks /\ active \in SUBSET registered /\ members \in SUBSET active
  BY DEF TypeOK, Conn
<1> USE <1>0 DEF checkVars, batchVars, toolVars, sshVars, targetVars, FilterInv,
        BatchInv, OutcomeInv, TidyInv, TargetInv, Due, Conforms, Unfiltered,
        Resolving, InTier1, Unwinding, Returned, ActiveTier0, ActiveTier1,
        NonDestructive, Destructive, Running, Ended
<1>1. CASE UseExistingVM
  BY <1>1 DEF UseExistingVM, Fail
<1>2. CASE Provision
  BY <1>2 DEF Provision, T!Ready, T!Refused, Fail
<1>3. CASE Connect
  BY <1>3 DEF Connect, Dial, Fail
<1>4. CASE DetectOS
  BY <1>4 DEF DetectOS, Fail
<1>5. CASE ValidateAndFilter
  BY <1>5 DEF ValidateAndFilter, BeginBatch, Fail
<1>6. ASSUME NEW c \in Checks, StartCheck(c)
      PROVE  TidyInv'
  BY <1>6 DEF StartCheck, InBatch, B!Start, OutsideBatch
<1>7. ASSUME NEW c \in Checks, FinishCheck(c)
      PROVE  TidyInv'
  BY <1>7 DEF FinishCheck, InBatch, B!Finish, OutsideBatch
<1>8. CASE EndTier0
  BY <1>8 DEF EndTier0, B!Decide, B!Having, Fail, OutsideBatch
<1>9. CASE EndNonDestructive
  BY <1>9 DEF EndNonDestructive, B!Decide, B!Having, OutsideBatch
<1>10. CASE CollectTools
  BY <1>10 DEF CollectTools
<1>11. ASSUME NEW t \in Tools, NoInstaller(t)
      PROVE  TidyInv'
  BY <1>11 DEF NoInstaller, Fail
<1>12. ASSUME NEW t \in Tools, AlreadyExists(t)
      PROVE  TidyInv'
  BY <1>12 DEF AlreadyExists
<1>13. ASSUME NEW t \in Tools, Install(t)
      PROVE  TidyInv'
  BY <1>13 DEF Install, Fail
<1>14. CASE AllToolsVisited
  BY <1>14 DEF AllToolsVisited, EnterTier1, BeginBatch
<1>15. CASE Reconnect
  BY <1>15 DEF Reconnect, EnterTier1, BeginBatch, Fail
<1>16. ASSUME NEW c \in Checks, RunDestructive(c)
      PROVE  TidyInv'
  BY <1>16 DEF RunDestructive, OutsideBatch
<1>17. ASSUME NEW c \in Checks, EndDestructive(c)
      PROVE  TidyInv'
  BY <1>17 DEF EndDestructive, OutsideBatch
<1>18. ASSUME NEW c \in Checks, CleanUp(c)
      PROVE  TidyInv'
  BY <1>18 DEF CleanUp
<1>19. CASE EndTier1
  BY <1>19 DEF EndTier1, OutsideBatch
<1>20. CASE CloseClient
  BY <1>20 DEF CloseClient
<1>21. CASE TearDown
  BY <1>21 DEF TearDown, T!TornDown, Exit
<1>22. CASE NothingDeferred
  BY <1>22 DEF NothingDeferred, Exit
<1>23. CASE Killed
  BY <1>23 DEF Killed
<1>24. CASE UNCHANGED vars
  BY <1>24 DEF vars
<1> QED
  BY <1>1, <1>2, <1>3, <1>4, <1>5, <1>6, <1>7, <1>8, <1>9, <1>10, <1>11, <1>12,
     <1>13, <1>14, <1>15, <1>16, <1>17, <1>18, <1>19, <1>20, <1>21, <1>22, <1>23,
     <1>24
  DEF Next, Step, Over

\* Whatever keeps the suite from certifying is in the variable failed when run
\* returns.
LEMMA FailedStep ==
  ASSUME TypeOK, FilterInv, BatchInv, OutcomeInv, TidyInv, FailedInv, TargetInv,
         [Next]_vars
  PROVE  FailedInv'
<1>0. /\ outcome \in [Checks -> {"unstarted", "running", "passed", "failed"}]
      /\ cleaned \in [Checks -> {"no", "ok", "error"}]
      /\ registered \in SUBSET Checks /\ active \in SUBSET registered /\ members \in SUBSET active
      /\ verdict \in {"none", "pass", "fail"}
      /\ ctxDone = FALSE
      /\ failed \in BOOLEAN
  BY DEF TypeOK, Conn
<1> USE <1>0 DEF checkVars, batchVars, toolVars, sshVars, targetVars, FilterInv,
        BatchInv, OutcomeInv, TidyInv, Due, FailedInv, Certified, TargetInv,
        Unfiltered, Resolving, InTier1, Unwinding, Returned, ActiveTier0,
        ActiveTier1, NonDestructive, Destructive, Running, Ended
<1>1. CASE UseExistingVM
  BY <1>1 DEF UseExistingVM, Fail
<1>2. CASE Provision
  BY <1>2 DEF Provision, T!Ready, T!Refused, Fail
<1>3. CASE Connect
  BY <1>3 DEF Connect, Dial, Fail
<1>4. CASE DetectOS
  BY <1>4 DEF DetectOS, Fail
<1>5. CASE ValidateAndFilter
  BY <1>5 DEF ValidateAndFilter, BeginBatch, Fail
<1>6. ASSUME NEW c \in Checks, StartCheck(c)
      PROVE  FailedInv'
  BY <1>6 DEF StartCheck, InBatch, B!Start, OutsideBatch
<1>7. ASSUME NEW c \in Checks, FinishCheck(c)
      PROVE  FailedInv'
  BY <1>7 DEF FinishCheck, InBatch, B!Finish, OutsideBatch
<1>8. CASE EndTier0
  BY <1>8 DEF EndTier0, B!Decide, B!Having, Fail, OutsideBatch
<1>9. CASE EndNonDestructive
  BY <1>9 DEF EndNonDestructive, B!Decide, B!Having, OutsideBatch
<1>10. CASE CollectTools
  BY <1>10 DEF CollectTools
<1>11. ASSUME NEW t \in Tools, NoInstaller(t)
      PROVE  FailedInv'
  BY <1>11 DEF NoInstaller, Fail
<1>12. ASSUME NEW t \in Tools, AlreadyExists(t)
      PROVE  FailedInv'
  BY <1>12 DEF AlreadyExists
<1>13. ASSUME NEW t \in Tools, Install(t)
      PROVE  FailedInv'
  BY <1>13 DEF Install, Fail
<1>14. CASE AllToolsVisited
  BY <1>14 DEF AllToolsVisited, EnterTier1, BeginBatch
<1>15. CASE Reconnect
  BY <1>15 DEF Reconnect, EnterTier1, BeginBatch, Fail
<1>16. ASSUME NEW c \in Checks, RunDestructive(c)
      PROVE  FailedInv'
  BY <1>16 DEF RunDestructive, OutsideBatch
<1>17. ASSUME NEW c \in Checks, EndDestructive(c)
      PROVE  FailedInv'
  BY <1>17 DEF EndDestructive, OutsideBatch
<1>18. ASSUME NEW c \in Checks, CleanUp(c)
      PROVE  FailedInv'
  BY <1>18 DEF CleanUp
<1>19. CASE EndTier1
  BY <1>19 DEF EndTier1, OutsideBatch
<1>20. CASE CloseClient
  BY <1>20 DEF CloseClient
<1>21. CASE TearDown
  BY <1>21 DEF TearDown, T!TornDown, Exit
<1>22. CASE NothingDeferred
  BY <1>22 DEF NothingDeferred, Exit
<1>23. CASE Killed
  BY <1>23 DEF Killed
<1>24. CASE UNCHANGED vars
  BY <1>24 DEF vars
<1> QED
  BY <1>1, <1>2, <1>3, <1>4, <1>5, <1>6, <1>7, <1>8, <1>9, <1>10, <1>11, <1>12,
     <1>13, <1>14, <1>15, <1>16, <1>17, <1>18, <1>19, <1>20, <1>21, <1>22, <1>23,
     <1>24
  DEF Next, Step, Over

\* sshClient and runner stay the same connection, the only open one, across a
\* reconnect that succeeds and one that fails.
LEMMA ConnStep ==
  ASSUME TypeOK, ConnInv, TargetInv, [Next]_vars
  PROVE  ConnInv'
<1>0. /\ clients \in [Conn -> {"unused", "open", "closed"}]
      /\ sshClient \in Conn \cup {0} /\ runner \in Conn \cup {0}
  BY DEF TypeOK, Conn
<1> USE <1>0 DEF checkVars, batchVars, toolVars, sshVars, targetVars, ConnInv,
        TargetInv, Conn, Unfiltered, Resolving, InTier1, Unwinding, Returned
<1>1. CASE UseExistingVM
  BY <1>1 DEF UseExistingVM, Fail
<1>2. CASE Provision
  BY <1>2 DEF Provision, T!Ready, T!Refused, Fail
<1>3. CASE Connect
  BY <1>3 DEF Connect, Dial, Fail
<1>4. CASE DetectOS
  BY <1>4 DEF DetectOS, Fail
<1>5. CASE ValidateAndFilter
  BY <1>5 DEF ValidateAndFilter, BeginBatch, Fail
<1>6. ASSUME NEW c \in Checks, StartCheck(c)
      PROVE  ConnInv'
  BY <1>6 DEF StartCheck, InBatch, B!Start, OutsideBatch
<1>7. ASSUME NEW c \in Checks, FinishCheck(c)
      PROVE  ConnInv'
  BY <1>7 DEF FinishCheck, InBatch, B!Finish, OutsideBatch
<1>8. CASE EndTier0
  BY <1>8 DEF EndTier0, B!Decide, B!Having, Fail, OutsideBatch
<1>9. CASE EndNonDestructive
  BY <1>9 DEF EndNonDestructive, B!Decide, B!Having, OutsideBatch
<1>10. CASE CollectTools
  BY <1>10 DEF CollectTools
<1>11. ASSUME NEW t \in Tools, NoInstaller(t)
      PROVE  ConnInv'
  BY <1>11 DEF NoInstaller, Fail
<1>12. ASSUME NEW t \in Tools, AlreadyExists(t)
      PROVE  ConnInv'
  BY <1>12 DEF AlreadyExists
<1>13. ASSUME NEW t \in Tools, Install(t)
      PROVE  ConnInv'
  BY <1>13 DEF Install, Fail
<1>14. CASE AllToolsVisited
  BY <1>14 DEF AllToolsVisited, EnterTier1, BeginBatch
<1>15. CASE Reconnect
  BY <1>15 DEF Reconnect, EnterTier1, BeginBatch, Fail
<1>16. ASSUME NEW c \in Checks, RunDestructive(c)
      PROVE  ConnInv'
  BY <1>16 DEF RunDestructive, OutsideBatch
<1>17. ASSUME NEW c \in Checks, EndDestructive(c)
      PROVE  ConnInv'
  BY <1>17 DEF EndDestructive, OutsideBatch
<1>18. ASSUME NEW c \in Checks, CleanUp(c)
      PROVE  ConnInv'
  BY <1>18 DEF CleanUp
<1>19. CASE EndTier1
  BY <1>19 DEF EndTier1, OutsideBatch
<1>20. CASE CloseClient
  BY <1>20 DEF CloseClient
<1>21. CASE TearDown
  BY <1>21 DEF TearDown, T!TornDown, Exit
<1>22. CASE NothingDeferred
  BY <1>22 DEF NothingDeferred, Exit
<1>23. CASE Killed
  BY <1>23 DEF Killed
<1>24. CASE UNCHANGED vars
  BY <1>24 DEF vars
<1> QED
  BY <1>1, <1>2, <1>3, <1>4, <1>5, <1>6, <1>7, <1>8, <1>9, <1>10, <1>11, <1>12,
     <1>13, <1>14, <1>15, <1>16, <1>17, <1>18, <1>19, <1>20, <1>21, <1>22, <1>23,
     <1>24
  DEF Next, Step, Over

\* The loop over the tools leaves none unvisited, and asks for a new login when one
\* of them needs it.
LEMMA ToolStep ==
  ASSUME TypeOK, FilterInv, ConnInv, ToolInv, [Next]_vars
  PROVE  ToolInv'
<1>0. /\ registered \in SUBSET Checks /\ active \in SUBSET registered /\ members \in SUBSET active
      /\ todo \in SUBSET Tools /\ installed \in SUBSET Tools /\ reconnect \in BOOLEAN
      /\ sshClient \in Conn \cup {0} /\ runner \in Conn \cup {0}
      /\ loggedInWith \in [Conn -> SUBSET Tools] /\ Needs \in [Checks -> SUBSET Tools]
  BY SuiteAssumption DEF TypeOK, Conn
<1> USE <1>0 DEF checkVars, batchVars, toolVars, sshVars, targetVars, FilterInv,
        ConnInv, ToolInv, Conn, Unfiltered, Resolving, InTier1, Unwinding, Returned,
        ActiveTier0, ActiveTier1, NonDestructive, Destructive, Running, Ended
<1>1. CASE UseExistingVM
  BY <1>1 DEF UseExistingVM, Fail
<1>2. CASE Provision
  BY <1>2 DEF Provision, T!Ready, T!Refused, Fail
<1>3. CASE Connect
  BY <1>3 DEF Connect, Dial, Fail
<1>4. CASE DetectOS
  BY <1>4 DEF DetectOS, Fail
<1>5. CASE ValidateAndFilter
  BY <1>5 DEF ValidateAndFilter, BeginBatch, Fail
<1>6. ASSUME NEW c \in Checks, StartCheck(c)
      PROVE  ToolInv'
  BY <1>6 DEF StartCheck, InBatch, B!Start, OutsideBatch
<1>7. ASSUME NEW c \in Checks, FinishCheck(c)
      PROVE  ToolInv'
  BY <1>7 DEF FinishCheck, InBatch, B!Finish, OutsideBatch
<1>8. CASE EndTier0
  BY <1>8 DEF EndTier0, B!Decide, B!Having, Fail, OutsideBatch
<1>9. CASE EndNonDestructive
  BY <1>9 DEF EndNonDestructive, B!Decide, B!Having, OutsideBatch
<1>10. CASE CollectTools
  BY <1>10 DEF CollectTools
<1>11. ASSUME NEW t \in Tools, NoInstaller(t)
      PROVE  ToolInv'
  BY <1>11 DEF NoInstaller, Fail
<1>12. ASSUME NEW t \in Tools, AlreadyExists(t)
      PROVE  ToolInv'
  BY <1>12 DEF AlreadyExists
<1>13. ASSUME NEW t \in Tools, Install(t)
      PROVE  ToolInv'
  BY <1>13 DEF Install, Fail
<1>14. CASE AllToolsVisited
  BY <1>14 DEF AllToolsVisited, EnterTier1, BeginBatch
<1>15. CASE Reconnect
  BY <1>15 DEF Reconnect, EnterTier1, BeginBatch, Fail
<1>16. ASSUME NEW c \in Checks, RunDestructive(c)
      PROVE  ToolInv'
  BY <1>16 DEF RunDestructive, OutsideBatch
<1>17. ASSUME NEW c \in Checks, EndDestructive(c)
      PROVE  ToolInv'
  BY <1>17 DEF EndDestructive, OutsideBatch
<1>18. ASSUME NEW c \in Checks, CleanUp(c)
      PROVE  ToolInv'
  BY <1>18 DEF CleanUp
<1>19. CASE EndTier1
  BY <1>19 DEF EndTier1, OutsideBatch
<1>20. CASE CloseClient
  BY <1>20 DEF CloseClient
<1>21. CASE TearDown
  BY <1>21 DEF TearDown, T!TornDown, Exit
<1>22. CASE NothingDeferred
  BY <1>22 DEF NothingDeferred, Exit
<1>23. CASE Killed
  BY <1>23 DEF Killed
<1>24. CASE UNCHANGED vars
  BY <1>24 DEF vars
<1> QED
  BY <1>1, <1>2, <1>3, <1>4, <1>5, <1>6, <1>7, <1>8, <1>9, <1>10, <1>11, <1>12,
     <1>13, <1>14, <1>15, <1>16, <1>17, <1>18, <1>19, <1>20, <1>21, <1>22, <1>23,
     <1>24
  DEF Next, Step, Over

\* The deferred cleanup runs unless the process is killed.
LEMMA TargetStep ==
  ASSUME TypeOK, TargetInv, [Next]_vars
  PROVE  TargetInv'
<1> USE DEF checkVars, batchVars, toolVars, sshVars, targetVars, TargetInv,
        Unfiltered, Resolving, InTier1, Unwinding, Returned
<1>1. CASE UseExistingVM
  BY <1>1 DEF UseExistingVM, Fail
<1>2. CASE Provision
  BY <1>2 DEF Provision, T!Ready, T!Refused, Fail
<1>3. CASE Connect
  BY <1>3 DEF Connect, Dial, Fail
<1>4. CASE DetectOS
  BY <1>4 DEF DetectOS, Fail
<1>5. CASE ValidateAndFilter
  BY <1>5 DEF ValidateAndFilter, BeginBatch, Fail
<1>6. ASSUME NEW c \in Checks, StartCheck(c)
      PROVE  TargetInv'
  BY <1>6 DEF StartCheck, InBatch, B!Start, OutsideBatch
<1>7. ASSUME NEW c \in Checks, FinishCheck(c)
      PROVE  TargetInv'
  BY <1>7 DEF FinishCheck, InBatch, B!Finish, OutsideBatch
<1>8. CASE EndTier0
  BY <1>8 DEF EndTier0, B!Decide, B!Having, Fail, OutsideBatch
<1>9. CASE EndNonDestructive
  BY <1>9 DEF EndNonDestructive, B!Decide, B!Having, OutsideBatch
<1>10. CASE CollectTools
  BY <1>10 DEF CollectTools
<1>11. ASSUME NEW t \in Tools, NoInstaller(t)
      PROVE  TargetInv'
  BY <1>11 DEF NoInstaller, Fail
<1>12. ASSUME NEW t \in Tools, AlreadyExists(t)
      PROVE  TargetInv'
  BY <1>12 DEF AlreadyExists
<1>13. ASSUME NEW t \in Tools, Install(t)
      PROVE  TargetInv'
  BY <1>13 DEF Install, Fail
<1>14. CASE AllToolsVisited
  BY <1>14 DEF AllToolsVisited, EnterTier1, BeginBatch
<1>15. CASE Reconnect
  BY <1>15 DEF Reconnect, EnterTier1, BeginBatch, Fail
<1>16. ASSUME NEW c \in Checks, RunDestructive(c)
      PROVE  TargetInv'
  BY <1>16 DEF RunDestructive, OutsideBatch
<1>17. ASSUME NEW c \in Checks, EndDestructive(c)
      PROVE  TargetInv'
  BY <1>17 DEF EndDestructive, OutsideBatch
<1>18. ASSUME NEW c \in Checks, CleanUp(c)
      PROVE  TargetInv'
  BY <1>18 DEF CleanUp
<1>19. CASE EndTier1
  BY <1>19 DEF EndTier1, OutsideBatch
<1>20. CASE CloseClient
  BY <1>20 DEF CloseClient
<1>21. CASE TearDown
  BY <1>21 DEF TearDown, T!TornDown, Exit
<1>22. CASE NothingDeferred
  BY <1>22 DEF NothingDeferred, Exit
<1>23. CASE Killed
  BY <1>23 DEF Killed
<1>24. CASE UNCHANGED vars
  BY <1>24 DEF vars
<1> QED
  BY <1>1, <1>2, <1>3, <1>4, <1>5, <1>6, <1>7, <1>8, <1>9, <1>10, <1>11, <1>12,
     <1>13, <1>14, <1>15, <1>16, <1>17, <1>18, <1>19, <1>20, <1>21, <1>22, <1>23,
     <1>24
  DEF Next, Step, Over

-----------------------------------------------------------------------------
\* The invariant holds when run begins.
LEMMA InitInv == Init => IInv
<1> SUFFICES ASSUME Init PROVE IInv
  OBVIOUS
<1>1. TypeOK
  BY DEF Init, TypeOK, Stages, Conn
<1>2. FilterInv /\ BatchInv /\ OutcomeInv
  BY DEF Init, FilterInv, BatchInv, OutcomeInv, Unfiltered, Resolving, InTier1, Running
<1>3. TidyInv /\ FailedInv
  BY DEF Init, TidyInv, FailedInv, Unwinding, Returned, Due, Ended
<1>4. ConnInv /\ ToolInv /\ TargetInv
  BY DEF Init, ConnInv, ToolInv, TargetInv, Unfiltered, Resolving, InTier1, Returned
<1> QED
  BY <1>1, <1>2, <1>3, <1>4 DEF IInv

\* The invariant holds in every state of every execution.
THEOREM Invariant == Spec => []IInv
<1>1. IInv /\ [Next]_vars => IInv'
  BY TypeStep, FilterStep, BatchStep, OutcomeStep, TidyStep, FailedStep, ConnStep,
     ToolStep, TargetStep DEF IInv
<1> QED
  BY InitInv, <1>1, PTL DEF Spec

\* Nothing but the end of the process happens on the way to stage "over", or in it.
LEMMA OverChangesNothing ==
  ASSUME [Next]_vars, stage' = "over"
  PROVE  UNCHANGED <<checkVars, batchVars, cleaned, toolVars, sshVars>>
<1>1. CASE UNCHANGED vars
  BY <1>1 DEF vars
<1>2. CASE UseExistingVM \/ Provision \/ Connect \/ DetectOS \/ ValidateAndFilter
  BY <1>2 DEF UseExistingVM, Provision, T!Ready, T!Refused, Connect, DetectOS, ValidateAndFilter, Fail
<1>3. ASSUME NEW c \in Checks, \/ StartCheck(c) \/ FinishCheck(c)
                               \/ RunDestructive(c) \/ EndDestructive(c) \/ CleanUp(c)
      PROVE  stage' # "over"
  BY <1>3 DEF StartCheck, FinishCheck, InBatch, RunDestructive, EndDestructive, CleanUp
<1>4. CASE EndTier0 \/ EndNonDestructive \/ EndTier1 \/ CollectTools \/ AllToolsVisited \/ Reconnect
  BY <1>4 DEF EndTier0, EndNonDestructive, EndTier1, CollectTools, AllToolsVisited,
              Reconnect, EnterTier1, Fail
<1>5. ASSUME NEW t \in Tools, NoInstaller(t) \/ AlreadyExists(t) \/ Install(t)
      PROVE  stage' # "over"
  BY <1>5 DEF NoInstaller, AlreadyExists, Install, Fail
<1>6. CASE CloseClient \/ TearDown \/ NothingDeferred \/ Killed \/ Over
  BY <1>6 DEF CloseClient, TearDown, T!TornDown, NothingDeferred, Exit, Killed, Over, vars
<1> QED
  BY <1>1, <1>2, <1>3, <1>4, <1>5, <1>6 DEF Next, Step

\* Every variable keeps its type.
THEOREM TypeCorrect == Spec => []TypeOK
<1>1. IInv => TypeOK
  BY DEF IInv
<1> QED
  BY Invariant, <1>1, PTL

\* Exit code 0 certifies that every applicable check passed and every destructive
\* one was undone, through all the places where run can note a failure.
THEOREM Certifies == Spec => []ExitZeroCertifies
<1>1. IInv => ExitZeroCertifies
  BY DEF IInv, FailedInv, Certified, ExitZeroCertifies
<1> QED
  BY Invariant, <1>1, PTL

\* When run has returned no connection is open, and a VM that was handed over is
\* deleted or its deletion was tried.
THEOREM Unwound == Spec => []EverythingUnwound
<1>1. IInv => EverythingUnwound
  BY DEF IInv, ConnInv, TargetInv, Returned, EverythingUnwound
<1> QED
  BY Invariant, <1>1, PTL

\* Installers and the checks of Tier 1 wait for every gatekeeper. The property is
\* about the past, so it is its own induction hypothesis.
THEOREM Gatekeepers == Spec => []GatekeepersFirst
<1>1. Init => GatekeepersFirst
  BY DEF Init, GatekeepersFirst, ActiveTier0, ActiveTier1
<1>2. ASSUME IInv, GatekeepersFirst, [Next]_vars
      PROVE  GatekeepersFirst'
  <2>0. /\ active \in SUBSET Checks /\ members \in SUBSET active
        /\ outcome \in [Checks -> {"unstarted", "running", "passed", "failed"}]
    BY <1>2 DEF IInv, TypeOK
  <2>1. CASE UNCHANGED <<checkVars, batchVars, toolVars>>
    BY <1>2, <2>1 DEF checkVars, batchVars, toolVars, GatekeepersFirst, ActiveTier0, ActiveTier1
  <2>2. CASE ValidateAndFilter
    <3>1. installed' = {}
      BY <1>2, <2>2 DEF ValidateAndFilter, toolVars, IInv, ToolInv, Unfiltered
    <3>2. outcome' = outcome /\ active' \subseteq Checks
      BY <1>2, <2>0, <2>2 DEF ValidateAndFilter, BeginBatch, batchVars, IInv, TypeOK
    <3>3. \A c \in Checks : outcome[c] = "unstarted"
      BY <1>2, <2>2 DEF ValidateAndFilter, IInv, FilterInv, Unfiltered
    <3> QED
      BY <3>1, <3>2, <3>3 DEF GatekeepersFirst, ActiveTier1
  <2>3. CASE AllToolsVisited \/ Reconnect \/ EndTier0 \/ EndNonDestructive
    BY <1>2, <2>0, <2>3
    DEF AllToolsVisited, Reconnect, EndTier0, EndNonDestructive, EnterTier1, BeginBatch,
        B!Decide, OutsideBatch, checkVars, batchVars, toolVars, GatekeepersFirst,
        ActiveTier0, ActiveTier1
  <2>4. ASSUME NEW c \in Checks, StartCheck(c) \/ FinishCheck(c)
        PROVE  GatekeepersFirst'
    BY <1>2, <2>0, <2>4
    DEF StartCheck, FinishCheck, InBatch, B!Start, B!Finish, OutsideBatch, checkVars,
        toolVars, IInv, BatchInv, OutcomeInv, ToolInv, Unfiltered, Resolving, InTier1,
        GatekeepersFirst, ActiveTier0, ActiveTier1, NonDestructive
  <2>5. ASSUME NEW c \in Checks, RunDestructive(c) \/ EndDestructive(c)
        PROVE  GatekeepersFirst'
    BY <1>2, <2>0, <2>5
    DEF RunDestructive, EndDestructive, OutsideBatch, checkVars, toolVars, IInv, OutcomeInv,
        InTier1, GatekeepersFirst, ActiveTier0, ActiveTier1, Destructive
  <2>6. CASE CollectTools \/ \E t \in Tools : AlreadyExists(t) \/ Install(t)
    BY <1>2, <2>6
    DEF CollectTools, AlreadyExists, Install, checkVars, batchVars, IInv, OutcomeInv,
        Resolving, GatekeepersFirst, ActiveTier0, ActiveTier1
  <2> QED
    BY <2>1, <2>2, <2>3, <2>4, <2>5, <2>6, <1>2, Frames
<1> QED
  BY Invariant, <1>1, <1>2, PTL DEF Spec

\* A check, or an installer, never talks over a connection the program has closed,
\* and the groups of its login are those the installers gave the user.
THEOREM CurrentRunner == Spec => []RunnerIsCurrent
<1>1. Init => RunnerIsCurrent
  BY DEF Init, RunnerIsCurrent, Running
<1>2. ASSUME IInv, stage # "over"
      PROVE  RunnerIsCurrent
  <2>1. /\ Running # {} => stage \in {"tier0", "tier1", "destructive"}
        /\ sshClient = runner
    BY <1>2 DEF IInv, OutcomeInv, ConnInv
  <2>2. Running # {} \/ stage \in {"detect", "tools", "cleanup"} =>
            runner # 0 /\ clients[runner] = "open"
    BY <1>2, <2>1 DEF IInv, ConnInv, Resolving, InTier1, Conn
  <2>3. Running # {} =>
            \/ installed = {}
            \/ installed \cap ReconnectTools \subseteq loggedInWith[runner]
    BY <1>2, <2>1 DEF IInv, ToolInv, Unfiltered, InTier1
  <2> QED
    BY <2>2, <2>3 DEF RunnerIsCurrent
<1>3. RunnerIsCurrent /\ (stage = "over")' /\ [Next]_vars => RunnerIsCurrent'
  BY OverChangesNothing DEF RunnerIsCurrent, Running, batchVars, sshVars, toolVars
<1>4. IInv /\ ~(stage = "over") => RunnerIsCurrent
  BY <1>2
<1> QED
  BY Invariant, <1>1, <1>3, <1>4, PTL DEF Spec

\* A check runs only once each of its tools is there, and no gatekeeper needs one.
THEOREM ToolsFirst == Spec => []ToolsBeforeChecks
<1>1. Init => ToolsBeforeChecks
  BY DEF Init, ToolsBeforeChecks, Running
<1>2. ASSUME IInv, stage # "over"
      PROVE  ToolsBeforeChecks
  <2>1. SUFFICES ASSUME NEW c \in Running, Needs[c] # {}
                 PROVE  stage # "tier0" /\ todo = {} /\ Needs[c] \subseteq InstallableTools
    BY DEF ToolsBeforeChecks
  <2>2. c \in active /\ c \in Checks /\ outcome[c] = "running"
    BY <1>2 DEF Running, IInv, FilterInv
  <2>3. c \in ActiveTier1
    BY <1>2, <2>1, <2>2 DEF IInv, FilterInv, Conforms, ActiveTier1
  <2>4. stage \in {"tier1", "destructive"}
    BY <1>2, <2>2, <2>3 DEF IInv, OutcomeInv, Running
  <2> QED
    BY <1>2, <2>3, <2>4 DEF IInv, ToolInv, InTier1
<1>3. ToolsBeforeChecks /\ (stage = "over")' /\ [Next]_vars => ToolsBeforeChecks'
  BY OverChangesNothing DEF ToolsBeforeChecks, Running, batchVars, toolVars
<1>4. IInv /\ ~(stage = "over") => ToolsBeforeChecks
  BY <1>2
<1> QED
  BY Invariant, <1>1, <1>3, <1>4, PTL DEF Spec

\* A destructive check runs alone and on a VM on which those before it were
\* cleaned up, and each that was started has been cleaned up when run returns.
\* validateChecks does not refuse a destructive check of Tier 0, which would run
\* with the gatekeepers and never be cleaned up; no registered check is one.
THEOREM CleanedUp ==
  ASSUME DestructiveChecks \cap Tier0Checks = {}
  PROVE  Spec => []AlwaysCleanedUp
<1> DEFINE Untidy == {c \in DestructiveChecks : outcome[c] # "unstarted" /\ cleaned[c] = "no"}
           Alone == \A c \in Running \cap DestructiveChecks : Running = {c} /\ Untidy \subseteq {c}
<1>0. AlwaysCleanedUp <=> Alone /\ (Returned => Untidy = {})
  BY DEF AlwaysCleanedUp, Returned
<1>1. Init => Alone
  BY DEF Init, Running
<1>2. ASSUME IInv
      PROVE  Returned => Untidy = {}
  <2> SUFFICES ASSUME Returned, NEW c \in DestructiveChecks,
                      outcome[c] # "unstarted", cleaned[c] = "no"
               PROVE  FALSE
    OBVIOUS
  <2>1. c \in Destructive
    BY <1>2, SuiteAssumption DEF IInv, FilterInv, Destructive, ActiveTier1
  <2>2. outcome[c] # "running" /\ ~Due(c)
    BY <1>2, <2>1 DEF IInv, TidyInv
  <2>3. outcome[c] \in {"passed", "failed"}
    BY <1>2, <2>2, SuiteAssumption DEF IInv, TypeOK
  <2> QED
    BY <2>1, <2>2, <2>3 DEF Due, Ended
<1>3. ASSUME IInv, stage # "over"
      PROVE  Alone
  <2> SUFFICES ASSUME NEW c \in Running, c \in DestructiveChecks
               PROVE  Running = {c} /\ Untidy \subseteq {c}
    OBVIOUS
  <2>1. c \in Checks /\ c \in active /\ outcome[c] = "running"
    BY <1>3 DEF Running, IInv, FilterInv
  <2>2. c \in Destructive
    BY <2>1 DEF Destructive, ActiveTier1
  <2>3. stage = "destructive"
    BY <1>3, <2>1, <2>2 DEF IInv, OutcomeInv, Running, Destructive
  <2>4. Running = {c}
    BY <1>3, <2>3 DEF IInv, OutcomeInv
  <2>5. ASSUME NEW d \in Untidy
        PROVE  d = c
    <3>1. d \in Destructive /\ d \in Checks
      BY <1>3, <2>5, SuiteAssumption DEF IInv, FilterInv, Destructive, ActiveTier1
    <3>2. ~Ended(d)
      BY <1>3, <2>3, <2>5, <3>1 DEF IInv, TidyInv, Due
    <3>3. d \in Running
      BY <1>3, <2>5, <3>1, <3>2 DEF IInv, TypeOK, Ended, Running
    <3> QED
      BY <2>4, <3>3
  <2> QED
    BY <2>4, <2>5
<1>4. IInv /\ ~(stage = "over") => Alone
  BY <1>3
<1>5. Alone /\ (stage = "over")' /\ [Next]_vars => Alone'
  BY OverChangesNothing DEF Running, batchVars
<1>6. IInv => (Returned => Untidy = {})
  BY <1>2
<1>7. Alone /\ (Returned => Untidy = {}) => AlwaysCleanedUp
  BY <1>0
<1> HIDE DEF Alone, Untidy
<1> QED
  BY Invariant, <1>1, <1>4, <1>5, <1>6, <1>7, PTL DEF Spec

-----------------------------------------------------------------------------
\* Checks that run at the same time, of whichever batch.
AtMostConcurrency == Cardinality(Running) <= Concurrency

\* Batch counts as this module does.
LEMMA SameCardinality ==
  ASSUME NEW S
  PROVE  B!Cardinality(S) = Cardinality(S)
BY DEF B!Cardinality, Cardinality

\* The checks that run during a batch are members of it.
LEMMA RunningAreMembers ==
  ASSUME IInv, stage \in {"tier0", "tier1"}
  PROVE  Running = B!Having("running")
<1>1. ASSUME NEW c \in Running
      PROVE  c \in members
  BY <1>1 DEF IInv, FilterInv, BatchInv, OutcomeInv, InTier1, Running, ActiveTier0, ActiveTier1,
              NonDestructive, Destructive
<1>2. members \subseteq Checks
  BY DEF IInv, TypeOK
<1> QED
  BY <1>1, <1>2 DEF Running, B!Having

\* Nothing runs when the next destructive check is started.
LEMMA RunningAreDestructive ==
  ASSUME IInv, stage = "destructive"
  PROVE  Running \subseteq Destructive
<1> SUFFICES ASSUME NEW c \in Running PROVE c \in Destructive
  OBVIOUS
<1>1. c \in active /\ outcome[c] = "running"
  BY DEF Running, IInv, FilterInv
<1>2. c \in ActiveTier1
  BY <1>1 DEF IInv, OutcomeInv, InTier1, ActiveTier0, ActiveTier1
<1> QED
  BY <1>1, <1>2 DEF IInv, OutcomeInv, NonDestructive, Destructive, Ended

\* The flag --concurrency bounds the checks of the whole program, not only those of
\* one batch: module SSHSessions relies on it, and so does validateConcurrency.
THEOREM Bounded == Spec => []AtMostConcurrency
<1>0. ASSUME NEW S \in SUBSET Checks
      PROVE  IsFiniteSet(S) /\ Cardinality(S) \in Nat
  BY SuiteAssumption, FS_Subset, FS_CardinalityType
<1>1. Init => AtMostConcurrency
  <2> SUFFICES ASSUME Init PROVE AtMostConcurrency
    OBVIOUS
  <2>1. Running = {}
    BY DEF Init, Running
  <2> QED
    BY <2>1, FS_EmptySet, SuiteAssumption DEF AtMostConcurrency
<1>2. ASSUME IInv, AtMostConcurrency, [Next]_vars
      PROVE  AtMostConcurrency'
  <2>0. /\ outcome \in [Checks -> {"unstarted", "running", "passed", "failed"}]
        /\ Running \in SUBSET Checks /\ Concurrency \in Nat /\ Concurrency >= 1
    BY <1>2, SuiteAssumption DEF IInv, TypeOK, Running
  <2>1. CASE UNCHANGED outcome
    BY <1>2, <2>1 DEF AtMostConcurrency, Running
  <2>2. ASSUME NEW c \in Checks, StartCheck(c)
        PROVE  AtMostConcurrency'
    <3>1. Running' = Running \cup {c} /\ c \notin Running
      BY <2>0, <2>2 DEF StartCheck, B!Start, Running
    <3>2. Cardinality(Running) < Concurrency
      BY <1>2, <2>2, RunningAreMembers, SameCardinality DEF StartCheck, InBatch, B!Start
    <3>3. Cardinality(Running \cup {c}) = Cardinality(Running) + 1
      BY <1>0, <2>0, <3>1, FS_AddElement
    <3> QED
      BY <1>0, <2>0, <3>1, <3>2, <3>3 DEF AtMostConcurrency
  <2>3. ASSUME NEW c \in Checks, FinishCheck(c) \/ EndDestructive(c)
        PROVE  AtMostConcurrency'
    <3>1. Running' \subseteq Running
      BY <2>0, <2>3 DEF FinishCheck, B!Finish, EndDestructive, Running
    <3>2. Cardinality(Running') <= Cardinality(Running) /\ Cardinality(Running') \in Nat
      BY <1>0, <2>0, <3>1, FS_Subset
    <3> QED
      BY <1>0, <1>2, <2>0, <3>2 DEF AtMostConcurrency
  <2>4. ASSUME NEW c \in Checks, RunDestructive(c)
        PROVE  AtMostConcurrency'
    <3>1. Running = {}
      BY <1>2, <2>4, RunningAreDestructive DEF RunDestructive
    <3>2. Running' = {c}
      BY <2>0, <2>4, <3>1 DEF RunDestructive, Running
    <3> QED
      BY <2>0, <3>2, FS_Singleton DEF AtMostConcurrency
  <2> QED
    BY <1>2, <2>1, <2>2, <2>3, <2>4, Frames
    DEF batchVars, ValidateAndFilter, BeginBatch, AllToolsVisited, Reconnect, EnterTier1,
        EndTier0, EndNonDestructive, B!Decide
<1> QED
  BY Invariant, <1>1, <1>2, PTL DEF Spec

-----------------------------------------------------------------------------
\* run chooses its target once.
LEMMA NeverBack ==
  ASSUME [Next]_vars, stage' = "target"
  PROVE  stage = "target"
<1>1. CASE UNCHANGED vars
  BY <1>1 DEF vars
<1>2. CASE UseExistingVM \/ Provision \/ Connect \/ DetectOS \/ ValidateAndFilter
  BY <1>2 DEF UseExistingVM, Provision, Connect, DetectOS, ValidateAndFilter, Fail
<1>3. ASSUME NEW c \in Checks, \/ StartCheck(c) \/ FinishCheck(c)
                               \/ RunDestructive(c) \/ EndDestructive(c) \/ CleanUp(c)
      PROVE  stage = "target"
  BY <1>3 DEF StartCheck, FinishCheck, RunDestructive, EndDestructive, CleanUp, OutsideBatch
<1>4. CASE EndTier0 \/ EndNonDestructive \/ EndTier1 \/ CollectTools \/ AllToolsVisited
           \/ Reconnect
  BY <1>4 DEF EndTier0, EndNonDestructive, EndTier1, CollectTools, AllToolsVisited,
              Reconnect, EnterTier1, Fail, OutsideBatch
<1>5. ASSUME NEW t \in Tools, NoInstaller(t) \/ AlreadyExists(t) \/ Install(t)
      PROVE  stage = "target"
  BY <1>5 DEF NoInstaller, AlreadyExists, Install, Fail
<1>6. CASE CloseClient \/ TearDown \/ NothingDeferred \/ Killed \/ Over
  BY <1>6 DEF CloseClient, TearDown, NothingDeferred, Exit, Killed, Over, vars
<1> QED
  BY <1>1, <1>2, <1>3, <1>4, <1>5, <1>6 DEF Next, Step

\* run keeps its side of the contract of module Target: it asks for a VM at most
\* once, calls the closure at most once and only after a success, and does nothing
\* else to the VM or the tunnel. Where the VM is the user's, or the process dies
\* first, it stands as after a refusal that left nothing.
THEOREM KeepsContract == Spec => T!Spec
<1>1. Init => T!Init
  BY DEF Init, T!Init, Answer
<1>2. ASSUME IInv, [Next]_vars
      PROVE  T!Next \/ UNCHANGED T!targetVars
  <2>1. /\ stage = "target" => tunnel = "none"
        /\ vm \in {"none", "up", "deleted", "undeletable"}
    BY <1>2 DEF IInv, TypeOK, TargetInv
  <2>2. CASE Provision
    <3>1. CASE T!Ready /\ stage' = "connect"
      BY <2>2, <3>1 DEF Provision, T!Next, T!Succeed, T!Ready, Answer
    <3>2. CASE T!Refused /\ stage' = "unwind"
      BY <2>1, <2>2, <3>2 DEF Provision, T!Next, T!Refuse, T!Refused, Answer
    <3> QED
      BY <2>2, <3>1, <3>2 DEF Provision, Fail
  <2>3. CASE TearDown
    BY <2>3 DEF TearDown, Exit, T!Next, T!CleanUp, T!TornDown, Answer
  <2>4. CASE UNCHANGED targetVars
    <3>1. vm' = vm /\ tunnel' = tunnel
      BY <2>4 DEF targetVars
    <3>2. CASE stage = "target" /\ stage' # "target"
      BY <2>1, <3>1, <3>2 DEF T!Next, T!Refuse, T!Refused, Answer
    <3>3. CASE stage = "target" <=> stage' = "target"
      BY <3>1, <3>3 DEF T!targetVars, Answer
    <3> QED
      BY <1>2, <3>2, <3>3, NeverBack
  <2> QED
    BY <1>2, <2>2, <2>3, <2>4, Frames
<1>3. IInv /\ [Next]_vars => [T!Next]_(T!targetVars)
  BY <1>2
<1> QED
  BY Invariant, <1>1, <1>3, PTL DEF Spec, T!Spec
=============================================================================
