------------------------- MODULE SSHSessions_proofs -------------------------
(***************************************************************************)
(* The safety properties of RealSSHRunner, for every number of calls and   *)
(* every pair of limits with Concurrency < MaxSessions.                    *)
(***************************************************************************)
EXTENDS SSHSessions, FiniteSetTheorems, TLAPS

Returning == {"closing", "returned"}

\* How far each call, its goroutine and its command can be from one another.
CallInv(c) ==
    /\ call[c] = "new" => goroutine[c] = "none" /\ remote[c] = "none"
    /\ call[c] \in {"new", "waiting", "ctxDone"} => result[c] = "none"
    /\ call[c] \in {"closing", "returned"} => result[c] # "none"
    /\ result[c] = "refused" => remote[c] = "none"

\* What the goroutine holds, what is in the channel and what was taken from it
\* come from sshd, or from the loss of the connection.
ResultInv(c) ==
    /\ "answer" \in {goroutine[c], done[c], result[c]} => remote[c] = "ended"
    /\ "lost" \in {goroutine[c], done[c], result[c]} => connection = "gone"

\* The inductive invariant.
IInv == TypeOK /\ \A c \in Calls : CallInv(c) /\ ResultInv(c)

\* The invariant holds before the first call.
LEMMA InitInv == Init => IInv
BY DEF Init, IInv, TypeOK, CallInv, ResultInv

\* Every step preserves the types.
LEMMA TypeStep ==
  ASSUME IInv, [Next]_vars
  PROVE  TypeOK'
<1> USE DEF IInv, TypeOK, Outcomes
<1>1. ASSUME NEW c \in Calls, NewSession(c)
      PROVE  TypeOK'
  BY <1>1 DEF NewSession
<1>2. ASSUME NEW c \in Calls, Refused(c)
      PROVE  TypeOK'
  BY <1>2 DEF Refused
<1>3. ASSUME NEW c \in Calls, RunFails(c)
      PROVE  TypeOK'
  BY <1>3 DEF RunFails
<1>4. ASSUME NEW c \in Calls, RunAnswers(c)
      PROVE  TypeOK'
  BY <1>4 DEF RunAnswers
<1>5. ASSUME NEW c \in Calls, Send(c)
      PROVE  TypeOK'
  BY <1>5 DEF Send
<1>6. ASSUME NEW c \in Calls, SelectResult(c)
      PROVE  TypeOK'
  BY <1>6 DEF SelectResult
<1>7. ASSUME NEW c \in Calls, SelectCtx(c)
      PROVE  TypeOK'
  BY <1>7 DEF SelectCtx
<1>8. ASSUME NEW c \in Calls, CloseSession(c)
      PROVE  TypeOK'
  BY <1>8 DEF CloseSession
<1>9. ASSUME NEW c \in Calls, CommandEnds(c)
      PROVE  TypeOK'
  BY <1>9 DEF CommandEnds
<1>10. ASSUME NEW c \in Calls, CtxEnds(c)
      PROVE  TypeOK'
  BY <1>10 DEF CtxEnds
<1>11. CASE CloseClient
  BY <1>11 DEF CloseClient
<1>12. CASE ConnectionBreaks
  BY <1>12 DEF ConnectionBreaks
<1>13. CASE UNCHANGED vars
  BY <1>13 DEF vars
<1> QED
  BY <1>1, <1>2, <1>3, <1>4, <1>5, <1>6, <1>7, <1>8, <1>9, <1>10, <1>11, <1>12, <1>13
  DEF Next, Client, Done

\* A step of one call, or of the environment, preserves the invariant of each.
LEMMA CallStep ==
  ASSUME IInv, [Next]_vars, NEW d \in Calls
  PROVE  CallInv(d)' /\ ResultInv(d)'
<1> USE DEF IInv, TypeOK, Outcomes, CallInv, ResultInv
<1>1. ASSUME NEW c \in Calls, NewSession(c)
      PROVE  CallInv(d)' /\ ResultInv(d)'
  BY <1>1 DEF NewSession, Begins
<1>2. ASSUME NEW c \in Calls, Refused(c)
      PROVE  CallInv(d)' /\ ResultInv(d)'
  BY <1>2 DEF Refused, Begins
<1>3. ASSUME NEW c \in Calls, RunFails(c)
      PROVE  CallInv(d)' /\ ResultInv(d)'
  BY <1>3 DEF RunFails
<1>4. ASSUME NEW c \in Calls, RunAnswers(c)
      PROVE  CallInv(d)' /\ ResultInv(d)'
  BY <1>4 DEF RunAnswers
<1>5. ASSUME NEW c \in Calls, Send(c)
      PROVE  CallInv(d)' /\ ResultInv(d)'
  BY <1>5 DEF Send
<1>6. ASSUME NEW c \in Calls, SelectResult(c)
      PROVE  CallInv(d)' /\ ResultInv(d)'
  BY <1>6 DEF SelectResult, InSelect
<1>7. ASSUME NEW c \in Calls, SelectCtx(c)
      PROVE  CallInv(d)' /\ ResultInv(d)'
  BY <1>7 DEF SelectCtx
<1>8. ASSUME NEW c \in Calls, CloseSession(c)
      PROVE  CallInv(d)' /\ ResultInv(d)'
  BY <1>8 DEF CloseSession
<1>9. ASSUME NEW c \in Calls, CommandEnds(c)
      PROVE  CallInv(d)' /\ ResultInv(d)'
  BY <1>9 DEF CommandEnds
<1>10. ASSUME NEW c \in Calls, CtxEnds(c)
      PROVE  CallInv(d)' /\ ResultInv(d)'
  BY <1>10 DEF CtxEnds
<1>11. CASE CloseClient
  BY <1>11 DEF CloseClient
<1>12. CASE ConnectionBreaks
  BY <1>12 DEF ConnectionBreaks
<1>13. CASE UNCHANGED vars
  BY <1>13 DEF vars
<1> QED
  BY <1>1, <1>2, <1>3, <1>4, <1>5, <1>6, <1>7, <1>8, <1>9, <1>10, <1>11, <1>12, <1>13
  DEF Next, Client, Done

\* The invariant holds in every state of every behaviour.
THEOREM Invariant == Spec => []IInv
<1>1. IInv /\ [Next]_vars => IInv'
  BY TypeStep, CallStep DEF IInv
<1> QED
  BY InitInv, <1>1, PTL DEF Spec

\* Every variable keeps its type.
THEOREM TypeCorrect == Spec => []TypeOK
<1>1. IInv => TypeOK
  BY DEF IInv
<1> QED
  BY Invariant, <1>1, PTL

\* A call that returns the outcome of its command leaves nothing of it on the VM,
\* although another goroutine than the caller waited for the command, and one
\* that returns the error of a lost connection is right about the connection.
THEOREM AnswersAreFinal == Spec => []AnswerMeansEnded
<1>1. IInv => AnswerMeansEnded
  BY DEF IInv, ResultInv, AnswerMeansEnded
<1> QED
  BY Invariant, <1>1, PTL

\* While the connection is up, a session sshd still counts is that of a call in
\* progress, or of a command that outlived the context of its call.
LEMMA ServedOrStray ==
  ASSUME IInv, connection = "up"
  PROVE  Served \subseteq InProgress \cup Strays
<1> SUFFICES ASSUME NEW c \in Calls, remote[c] = "running"
             PROVE  c \in InProgress \cup Strays
  BY DEF Served
<1>1. CASE call[c] = "returned"
  BY <1>1 DEF IInv, TypeOK, Outcomes, CallInv, ResultInv, Strays, Served
<1>2. CASE call[c] # "returned"
  BY <1>2 DEF IInv, TypeOK, CallInv, InProgress, InSelect
<1> QED
  BY <1>1, <1>2

\* Sets of calls can be counted.
LEMMA SessionsFinite ==
  ASSUME NEW S \in SUBSET Calls
  PROVE  IsFiniteSet(S) /\ Cardinality(S) \in Nat
<1>1. IsFiniteSet(Calls)
  BY FS_Interval, SessionsAssumption DEF Calls
<1> QED
  BY <1>1, FS_Subset, FS_CardinalityType

\* sshd refuses a session only once stray commands have used up the margin that
\* validateConcurrency leaves: without strays and while the connection is up, no
\* check ever fails for it.
THEOREM RefusalsExplained == Spec => RefusedOnlyByStrays
<1>1. ASSUME IInv, NEW c \in Calls, Refused(c), connection = "up"
      PROVE  Cardinality(Strays) > MaxSessions - Concurrency
  <2>1. /\ Served \in SUBSET Calls /\ InProgress \in SUBSET Calls
        /\ Strays \in SUBSET Calls /\ InProgress \cup Strays \in SUBSET Calls
    BY DEF Served, InProgress, InSelect, Strays
  <2>2. Cardinality(Served) <= Cardinality(InProgress \cup Strays)
    BY <1>1, <2>1, ServedOrStray, SessionsFinite, FS_Subset
  <2>3. /\ Cardinality(Served) \in Nat /\ Cardinality(InProgress) \in Nat
        /\ Cardinality(Strays) \in Nat /\ Cardinality(InProgress \cap Strays) \in Nat
    BY <2>1, SessionsFinite
  <2>4. Cardinality(InProgress \cup Strays) =
          Cardinality(InProgress) + Cardinality(Strays) - Cardinality(InProgress \cap Strays)
    BY <2>1, SessionsFinite, FS_Union
  <2>5. Cardinality(Served) >= MaxSessions /\ Cardinality(InProgress) < Concurrency
    BY <1>1 DEF Refused, Begins
  <2> QED
    BY <2>2, <2>3, <2>4, <2>5, SessionsAssumption
<1>2. IInv /\ [Next]_vars =>
        [\A c \in Calls : Refused(c) /\ connection = "up" => Cardinality(Strays) > MaxSessions - Concurrency]_vars
  BY <1>1
<1> QED
  BY Invariant, <1>2, PTL DEF Spec, RefusedOnlyByStrays
=============================================================================
