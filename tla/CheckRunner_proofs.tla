------------------------- MODULE CheckRunner_proofs -------------------------
(***************************************************************************)
(* Proofs about CheckRunner, for every number of checks, every concurrency *)
(* that validateConcurrency accepts and every set of hanging checks.       *)
(***************************************************************************)
EXTENDS CheckRunner, FiniteSetTheorems, TLAPS

(* The loop launches the checks in order, and leaves before the last one   *)
(* only with a done context.                                               *)
LoopInv ==
    /\ \A c \in Checks : gpc[c] = "idle" <=> c >= next
    /\ pc \in {"recheck", "spawn"} => next \in Checks
    /\ pc \in {"lock", "append"} => next \in Checks /\ cancelled
    /\ pc \in {"wait", "returned"} => next \notin Checks \/ CtxErr \in errs

(* Only the holder of the mutex is inside append, and what it has read is  *)
(* still what the slice holds.                                             *)
MutexInv ==
    /\ \A c \in Checks : gpc[c] = "appending" <=> mu = c
    /\ pc = "append" <=> mu = Main
    /\ mu # Free => snap[mu] = errs

(* Where an entry of the slice can have come from.                         *)
ErrsInv ==
    /\ \A c \in Checks :
          c \in errs => gpc[c] \in {"releasing", "finishing", "exited"}
    /\ CtxErr \in errs => /\ pc \in {"wait", "returned"}
                          /\ cancelled
                          /\ next \in Checks

LateInv ==
    /\ lateStarts # {} => cancelled /\ pc # "spawn"
    /\ \A a, b \in lateStarts : a = b

ReturnInv == pc = "returned" => Counted = {}

(* The inductive invariant.                                                *)
IInv == TypeOK /\ CountersExact /\ LoopInv /\ MutexInv /\ ErrsInv /\ LateInv
        /\ ReturnInv

-----------------------------------------------------------------------------
(* Every set of checks is finite and has at most NumChecks members.        *)
LEMMA ChecksFinite ==
    ASSUME NEW S \in SUBSET Checks
    PROVE  /\ IsFiniteSet(S)
           /\ Cardinality(S) \in 0..NumChecks
<1>1. IsFiniteSet(1..NumChecks) /\ Cardinality(1..NumChecks) = NumChecks
  BY FS_Interval, NumChecksAssumption
<1>2. S \in SUBSET (1..NumChecks)
  BY DEF Checks
<1>3. IsFiniteSet(S) /\ Cardinality(S) <= Cardinality(1..NumChecks)
  BY <1>1, <1>2, FS_Subset
<1>4. Cardinality(S) \in Nat
  BY <1>3, FS_CardinalityType
<1> QED
  BY <1>1, <1>3, <1>4, NumChecksAssumption

(* The two counted sets are sets of checks, now and after the step.        *)
LEMMA CountedSets ==
    /\ InFlight \in SUBSET Checks /\ InFlight' \in SUBSET Checks
    /\ Counted \in SUBSET Checks /\ Counted' \in SUBSET Checks
  BY DEF InFlight, Counted, Checks

(* Adding a member to, or taking one from, a set of checks.                *)
LEMMA CountOneMore ==
    ASSUME NEW S \in SUBSET Checks, NEW c \in Checks, c \notin S
    PROVE  Cardinality(S \cup {c}) = Cardinality(S) + 1
  BY ChecksFinite, FS_AddElement

LEMMA CountOneLess ==
    ASSUME NEW S \in SUBSET Checks, NEW c \in S
    PROVE  Cardinality(S \ {c}) = Cardinality(S) - 1
  BY ChecksFinite, FS_RemoveElement

(* The initial state satisfies the inductive invariant.                    *)
LEMMA InitIInv == Init => IInv
<1> SUFFICES ASSUME Init PROVE IInv
  OBVIOUS
<1> USE NumChecksAssumption, ConcurrencyAssumption
<1>1. TypeOK
  <2>1. gpc \in [Checks -> CheckPCs] /\ snap \in [Threads -> SUBSET Entries]
    BY DEF Init, CheckPCs
  <2>2. next \in 1..(NumChecks + 1) /\ sem \in 0..Concurrency /\ wg \in 0..NumChecks
    BY DEF Init
  <2> QED
    BY <2>1, <2>2 DEF Init, TypeOK, LoopPCs
<1>2. InFlight = {} /\ Counted = {}
  BY DEF Init, InFlight, Counted
<1>3. CountersExact
  BY <1>2, FS_EmptySet DEF Init, CountersExact, LoopToken
<1>4. LoopInv /\ MutexInv /\ ErrsInv /\ LateInv /\ ReturnInv
  BY DEF Init, LoopInv, MutexInv, ErrsInv, LateInv, ReturnInv, Checks, Free,
         Main, CtxErr
<1> QED
  BY <1>1, <1>3, <1>4 DEF IInv

(* Every step keeps the order of the launches.                              *)
LEMMA LoopStep ==
    ASSUME TypeOK, LoopInv, MutexInv, ErrsInv, [Next]_vars
    PROVE  LoopInv'
<1> USE NumChecksAssumption DEF Checks, Main, CtxErr
<1>1. CASE SelectDone
  BY <1>1 DEF SelectDone, TypeOK, LoopInv
<1>2. CASE SelectSlot
  BY <1>2 DEF SelectSlot, TypeOK, LoopInv
<1>3. CASE Recheck
  BY <1>3 DEF Recheck, TypeOK, LoopInv
<1>4. CASE Launch
  BY <1>4 DEF Launch, TypeOK, LoopInv
<1>5. CASE LockCtxErr
  BY <1>5 DEF LockCtxErr, TypeOK, LoopInv, LockAndRead
<1>6. CASE AppendCtxErr
  BY <1>6 DEF AppendCtxErr, TypeOK, LoopInv, WriteAndUnlock
<1>7. CASE LoopEnds
  BY <1>7 DEF LoopEnds, TypeOK, LoopInv
<1>8. CASE WaitAndReturn
  BY <1>8 DEF WaitAndReturn, TypeOK, LoopInv
<1>9. ASSUME NEW c \in Checks, Announce(c) PROVE LoopInv'
  BY <1>9 DEF Announce, TypeOK, LoopInv
<1>10. ASSUME NEW c \in Checks, RunReturns(c) PROVE LoopInv'
  BY <1>10 DEF RunReturns, TypeOK, LoopInv
<1>11. ASSUME NEW c \in Checks, LockErr(c) PROVE LoopInv'
  BY <1>11 DEF LockErr, TypeOK, LoopInv, LockAndRead
<1>12. ASSUME NEW c \in Checks, AppendErr(c) PROVE LoopInv'
  BY <1>12 DEF AppendErr, TypeOK, LoopInv, MutexInv, WriteAndUnlock, Free
<1>13. ASSUME NEW c \in Checks, ReleaseSlot(c) PROVE LoopInv'
  BY <1>13 DEF ReleaseSlot, TypeOK, LoopInv
<1>14. ASSUME NEW c \in Checks, Done(c) PROVE LoopInv'
  BY <1>14 DEF Done, TypeOK, LoopInv
<1>15. CASE Cancel
  BY <1>15 DEF Cancel, TypeOK, LoopInv
<1>16. CASE UNCHANGED vars
  BY <1>16 DEF TypeOK, LoopInv, vars
<1> QED
  BY <1>1, <1>2, <1>3, <1>4, <1>5, <1>6, <1>7, <1>8, <1>9,
     <1>10, <1>11, <1>12, <1>13, <1>14, <1>15, <1>16
  DEF Next, Loop, Bookkeeping, Terminated

(* Every step keeps the append of one goroutine apart from the others.      *)
LEMMA MutexStep ==
    ASSUME TypeOK, LoopInv, MutexInv, [Next]_vars
    PROVE  MutexInv'
<1> USE NumChecksAssumption DEF Checks, Main, Free, Threads
<1>1. CASE SelectDone
  BY <1>1 DEF SelectDone, TypeOK, LoopInv, MutexInv
<1>2. CASE SelectSlot
  BY <1>2 DEF SelectSlot, TypeOK, LoopInv, MutexInv
<1>3. CASE Recheck
  BY <1>3 DEF Recheck, TypeOK, LoopInv, MutexInv
<1>4. CASE Launch
  BY <1>4 DEF Launch, TypeOK, LoopInv, MutexInv
<1>5. CASE LockCtxErr
  BY <1>5 DEF LockCtxErr, TypeOK, MutexInv, LockAndRead
<1>6. CASE AppendCtxErr
  BY <1>6 DEF AppendCtxErr, TypeOK, MutexInv, WriteAndUnlock
<1>7. CASE LoopEnds
  BY <1>7 DEF LoopEnds, TypeOK, LoopInv, MutexInv
<1>8. CASE WaitAndReturn
  BY <1>8 DEF WaitAndReturn, TypeOK, LoopInv, MutexInv
<1>9. ASSUME NEW c \in Checks, Announce(c) PROVE MutexInv'
  BY <1>9 DEF Announce, TypeOK, LoopInv, MutexInv
<1>10. ASSUME NEW c \in Checks, RunReturns(c) PROVE MutexInv'
  BY <1>10 DEF RunReturns, TypeOK, LoopInv, MutexInv
<1>11. ASSUME NEW c \in Checks, LockErr(c) PROVE MutexInv'
  BY <1>11 DEF LockErr, TypeOK, MutexInv, LockAndRead
<1>12. ASSUME NEW c \in Checks, AppendErr(c) PROVE MutexInv'
  BY <1>12 DEF AppendErr, TypeOK, MutexInv, WriteAndUnlock
<1>13. ASSUME NEW c \in Checks, ReleaseSlot(c) PROVE MutexInv'
  BY <1>13 DEF ReleaseSlot, TypeOK, LoopInv, MutexInv
<1>14. ASSUME NEW c \in Checks, Done(c) PROVE MutexInv'
  BY <1>14 DEF Done, TypeOK, LoopInv, MutexInv
<1>15. CASE Cancel
  BY <1>15 DEF Cancel, TypeOK, LoopInv, MutexInv
<1>16. CASE UNCHANGED vars
  BY <1>16 DEF TypeOK, LoopInv, MutexInv, vars
<1> QED
  BY <1>1, <1>2, <1>3, <1>4, <1>5, <1>6, <1>7, <1>8, <1>9,
     <1>10, <1>11, <1>12, <1>13, <1>14, <1>15, <1>16
  DEF Next, Loop, Bookkeeping, Terminated

(* Every step keeps the entries of the slice accounted for.                 *)
LEMMA ErrsStep ==
    ASSUME TypeOK, LoopInv, MutexInv, ErrsInv, [Next]_vars
    PROVE  ErrsInv'
<1> USE NumChecksAssumption DEF Checks, Main, CtxErr, Free, Threads
<1>1. CASE SelectDone
  BY <1>1 DEF SelectDone, TypeOK, LoopInv, ErrsInv
<1>2. CASE SelectSlot
  BY <1>2 DEF SelectSlot, TypeOK, LoopInv, ErrsInv
<1>3. CASE Recheck
  BY <1>3 DEF Recheck, TypeOK, LoopInv, ErrsInv
<1>4. CASE Launch
  BY <1>4 DEF Launch, TypeOK, LoopInv, ErrsInv
<1>5. CASE LockCtxErr
  BY <1>5 DEF LockCtxErr, TypeOK, LoopInv, MutexInv, ErrsInv, LockAndRead
<1>6. CASE AppendCtxErr
  BY <1>6 DEF AppendCtxErr, TypeOK, LoopInv, MutexInv, ErrsInv, WriteAndUnlock
<1>7. CASE LoopEnds
  BY <1>7 DEF LoopEnds, TypeOK, LoopInv, ErrsInv
<1>8. CASE WaitAndReturn
  BY <1>8 DEF WaitAndReturn, TypeOK, LoopInv, ErrsInv
<1>9. ASSUME NEW c \in Checks, Announce(c) PROVE ErrsInv'
  BY <1>9 DEF Announce, TypeOK, LoopInv, ErrsInv
<1>10. ASSUME NEW c \in Checks, RunReturns(c) PROVE ErrsInv'
  BY <1>10 DEF RunReturns, TypeOK, LoopInv, ErrsInv
<1>11. ASSUME NEW c \in Checks, LockErr(c) PROVE ErrsInv'
  BY <1>11 DEF LockErr, TypeOK, LoopInv, MutexInv, ErrsInv, LockAndRead
<1>12. ASSUME NEW c \in Checks, AppendErr(c) PROVE ErrsInv'
  BY <1>12 DEF AppendErr, TypeOK, LoopInv, MutexInv, ErrsInv, WriteAndUnlock
<1>13. ASSUME NEW c \in Checks, ReleaseSlot(c) PROVE ErrsInv'
  BY <1>13 DEF ReleaseSlot, TypeOK, LoopInv, ErrsInv
<1>14. ASSUME NEW c \in Checks, Done(c) PROVE ErrsInv'
  BY <1>14 DEF Done, TypeOK, LoopInv, ErrsInv
<1>15. CASE Cancel
  BY <1>15 DEF Cancel, TypeOK, LoopInv, ErrsInv
<1>16. CASE UNCHANGED vars
  BY <1>16 DEF TypeOK, LoopInv, ErrsInv, vars
<1> QED
  BY <1>1, <1>2, <1>3, <1>4, <1>5, <1>6, <1>7, <1>8, <1>9,
     <1>10, <1>11, <1>12, <1>13, <1>14, <1>15, <1>16
  DEF Next, Loop, Bookkeeping, Terminated

(* Every step keeps the late starts down to one.                            *)
LEMMA LateStep ==
    ASSUME TypeOK, LateInv, [Next]_vars
    PROVE  LateInv'
<1>1. CASE SelectDone
  BY <1>1 DEF SelectDone, TypeOK, LateInv
<1>2. CASE SelectSlot
  BY <1>2 DEF SelectSlot, TypeOK, LateInv
<1>3. CASE Recheck
  BY <1>3 DEF Recheck, TypeOK, LateInv
<1>4. CASE Launch
  BY <1>4 DEF Launch, TypeOK, LateInv
<1>5. CASE LockCtxErr
  BY <1>5 DEF LockCtxErr, TypeOK, LateInv
<1>6. CASE AppendCtxErr
  BY <1>6 DEF AppendCtxErr, TypeOK, LateInv
<1>7. CASE LoopEnds
  BY <1>7 DEF LoopEnds, TypeOK, LateInv
<1>8. CASE WaitAndReturn
  BY <1>8 DEF WaitAndReturn, TypeOK, LateInv
<1>9. ASSUME NEW c \in Checks, Announce(c) PROVE LateInv'
  BY <1>9 DEF Announce, TypeOK, LateInv
<1>10. ASSUME NEW c \in Checks, RunReturns(c) PROVE LateInv'
  BY <1>10 DEF RunReturns, TypeOK, LateInv
<1>11. ASSUME NEW c \in Checks, LockErr(c) PROVE LateInv'
  BY <1>11 DEF LockErr, TypeOK, LateInv
<1>12. ASSUME NEW c \in Checks, AppendErr(c) PROVE LateInv'
  BY <1>12 DEF AppendErr, TypeOK, LateInv
<1>13. ASSUME NEW c \in Checks, ReleaseSlot(c) PROVE LateInv'
  BY <1>13 DEF ReleaseSlot, TypeOK, LateInv
<1>14. ASSUME NEW c \in Checks, Done(c) PROVE LateInv'
  BY <1>14 DEF Done, TypeOK, LateInv
<1>15. CASE Cancel
  BY <1>15 DEF Cancel, TypeOK, LateInv
<1>16. CASE UNCHANGED vars
  BY <1>16 DEF TypeOK, LateInv, vars
<1> QED
  BY <1>1, <1>2, <1>3, <1>4, <1>5, <1>6, <1>7, <1>8, <1>9,
     <1>10, <1>11, <1>12, <1>13, <1>14, <1>15, <1>16
  DEF Next, Loop, Bookkeeping, Terminated

-----------------------------------------------------------------------------
(* The two counters. Each step moves at most one check into or out of the  *)
(* set a counter stands for.                                               *)

LEMMA SlotsStep ==
    ASSUME TypeOK, CountersExact, LoopInv, [Next]_vars
    PROVE  /\ sem' = Cardinality(InFlight') + LoopToken'
           /\ sem' \in 0..Concurrency
<1> DEFINE Exact == sem' = Cardinality(InFlight') + LoopToken' /\ sem' \in 0..Concurrency
<1> USE ConcurrencyAssumption
<1>0. Cardinality(InFlight) \in Nat
  BY ChecksFinite, CountedSets, NumChecksAssumption
<1>1. CASE SelectSlot
  <2>1. InFlight' = InFlight
    BY <1>1 DEF SelectSlot, InFlight
  <2> QED
    BY <1>0, <1>1, <2>1 DEF SelectSlot, CountersExact, LoopToken, TypeOK
<1>2. CASE Recheck
  <2>1. InFlight' = InFlight
    BY <1>2 DEF Recheck, InFlight
  <2> QED
    BY <1>0, <1>2, <2>1 DEF Recheck, CountersExact, LoopToken, TypeOK
<1>3. CASE Launch
  <2>1. next \in Checks /\ next \notin InFlight
    BY <1>3 DEF Launch, LoopInv, InFlight, Checks
  <2>2. InFlight' = InFlight \cup {next}
    BY <1>3, <2>1 DEF Launch, InFlight, TypeOK
  <2>3. Cardinality(InFlight') = Cardinality(InFlight) + 1
    BY <2>1, <2>2, CountOneMore, CountedSets
  <2> QED
    BY <1>0, <1>3, <2>3 DEF Launch, CountersExact, LoopToken, TypeOK
<1>4. CASE SelectDone \/ LockCtxErr \/ AppendCtxErr \/ LoopEnds \/ WaitAndReturn
           \/ Cancel \/ UNCHANGED vars
  <2>1. InFlight' = InFlight /\ LoopToken' = LoopToken /\ sem' = sem
    BY <1>4 DEF SelectDone, LockCtxErr, AppendCtxErr, LoopEnds, WaitAndReturn,
                Cancel, vars, InFlight, LoopToken
  <2> QED
    BY <2>1 DEF CountersExact, TypeOK
<1>5. ASSUME NEW c \in Checks,
             Announce(c) \/ RunReturns(c) \/ LockErr(c) \/ AppendErr(c) \/ Done(c)
      PROVE  Exact
  <2>1. InFlight' = InFlight
    BY <1>5 DEF Announce, RunReturns, LockErr, AppendErr, Done, InFlight, TypeOK
  <2>2. LoopToken' = LoopToken /\ sem' = sem
    BY <1>5 DEF Announce, RunReturns, LockErr, AppendErr, Done, LoopToken
  <2> QED
    BY <2>1, <2>2 DEF CountersExact, TypeOK
<1>6. ASSUME NEW c \in Checks, ReleaseSlot(c)
      PROVE  Exact
  <2>1. c \in InFlight
    BY <1>6 DEF ReleaseSlot, InFlight
  <2>2. InFlight' = InFlight \ {c}
    BY <1>6 DEF ReleaseSlot, InFlight, TypeOK
  <2>3. Cardinality(InFlight') = Cardinality(InFlight) - 1
    BY <2>1, <2>2, CountOneLess, CountedSets
  <2> QED
    BY <1>0, <1>6, <2>3 DEF ReleaseSlot, CountersExact, LoopToken, TypeOK
<1> QED
  BY <1>1, <1>2, <1>3, <1>4, <1>5, <1>6 DEF Next, Loop, Bookkeeping, Terminated

LEMMA WaitGroupStep ==
    ASSUME TypeOK, CountersExact, LoopInv, [Next]_vars
    PROVE  /\ wg' = Cardinality(Counted')
           /\ wg' \in 0..NumChecks
<1>1. CASE Launch
  <2>1. next \in Checks /\ next \notin Counted
    BY <1>1 DEF Launch, LoopInv, Counted, Checks
  <2>2. Counted' = Counted \cup {next}
    BY <1>1, <2>1 DEF Launch, Counted, TypeOK
  <2>3. Cardinality(Counted') = Cardinality(Counted) + 1
    BY <2>1, <2>2, CountOneMore, CountedSets
  <2> QED
    BY <1>1, <2>3, CountedSets, ChecksFinite DEF Launch, CountersExact
<1>2. CASE SelectDone \/ SelectSlot \/ Recheck \/ LockCtxErr \/ AppendCtxErr
           \/ LoopEnds \/ WaitAndReturn \/ Cancel \/ UNCHANGED vars
  <2>1. Counted' = Counted /\ wg' = wg
    BY <1>2 DEF SelectDone, SelectSlot, Recheck, LockCtxErr, AppendCtxErr,
                LoopEnds, WaitAndReturn, Cancel, vars, Counted
  <2> QED
    BY <2>1 DEF CountersExact, TypeOK
<1>3. ASSUME NEW c \in Checks,
             Announce(c) \/ RunReturns(c) \/ LockErr(c) \/ AppendErr(c) \/ ReleaseSlot(c)
      PROVE  wg' = Cardinality(Counted') /\ wg' \in 0..NumChecks
  <2>1. Counted' = Counted
    BY <1>3 DEF Announce, RunReturns, LockErr, AppendErr, ReleaseSlot, Counted, TypeOK
  <2>2. wg' = wg
    BY <1>3 DEF Announce, RunReturns, LockErr, AppendErr, ReleaseSlot
  <2> QED
    BY <2>1, <2>2 DEF CountersExact, TypeOK
<1>4. ASSUME NEW c \in Checks, Done(c)
      PROVE  wg' = Cardinality(Counted') /\ wg' \in 0..NumChecks
  <2>1. c \in Counted
    BY <1>4 DEF Done, Counted
  <2>2. Counted' = Counted \ {c}
    BY <1>4 DEF Done, Counted, TypeOK
  <2>3. Cardinality(Counted') = Cardinality(Counted) - 1
    BY <2>1, <2>2, CountOneLess, CountedSets
  <2> QED
    BY <1>4, <2>3, CountedSets, ChecksFinite DEF Done, CountersExact
<1> QED
  BY <1>1, <1>2, <1>3, <1>4 DEF Next, Loop, Bookkeeping, Terminated

-----------------------------------------------------------------------------
(* Every step keeps the types; the two counters have lemmas of their own.   *)
LEMMA TypeStep ==
    ASSUME TypeOK, CountersExact, LoopInv, MutexInv, [Next]_vars
    PROVE  TypeOK'
<1>0. sem' \in 0..Concurrency /\ wg' \in 0..NumChecks
  BY SlotsStep, WaitGroupStep
<1> USE NumChecksAssumption DEF TypeOK
<1>1. CASE SelectDone \/ SelectSlot \/ Recheck \/ LoopEnds \/ WaitAndReturn \/ Cancel
           \/ UNCHANGED vars
  BY <1>0, <1>1 DEF SelectDone, SelectSlot, Recheck, LoopEnds, WaitAndReturn,
                    Cancel, vars, LoopPCs
<1>2. CASE Launch
  <2>1. next \in Checks /\ next' \in 1..(NumChecks + 1)
    BY <1>2 DEF Launch, LoopInv, Checks
  <2> QED
    BY <1>0, <1>2, <2>1 DEF Launch, LoopPCs, CheckPCs
<1>3. CASE LockCtxErr
  BY <1>0, <1>3 DEF LockCtxErr, LockAndRead, LoopPCs, Threads, Main
<1>4. CASE AppendCtxErr
  BY <1>0, <1>4 DEF AppendCtxErr, WriteAndUnlock, LoopPCs, Threads, Main, Entries
<1>5. ASSUME NEW c \in Checks, Announce(c) \/ RunReturns(c) \/ ReleaseSlot(c) \/ Done(c)
      PROVE  TypeOK'
  BY <1>0, <1>5 DEF Announce, RunReturns, ReleaseSlot, Done, CheckPCs
<1>6. ASSUME NEW c \in Checks, LockErr(c)
      PROVE  TypeOK'
  BY <1>0, <1>6 DEF LockErr, LockAndRead, CheckPCs, Checks, Threads
<1>7. ASSUME NEW c \in Checks, AppendErr(c)
      PROVE  TypeOK'
  BY <1>0, <1>7 DEF AppendErr, WriteAndUnlock, CheckPCs, Checks, Threads, Entries
<1> QED
  BY <1>1, <1>2, <1>3, <1>4, <1>5, <1>6, <1>7 DEF Next, Loop, Bookkeeping, Terminated

(* wg is zero only when every goroutine that was launched is gone, and      *)
(* nothing is launched after the return.                                    *)
LEMMA ReturnStep ==
    ASSUME TypeOK, CountersExact, ReturnInv, [Next]_vars
    PROVE  ReturnInv'
<1>1. CASE WaitAndReturn
  <2>1. Counted' = Counted /\ Cardinality(Counted) = 0
    BY <1>1 DEF WaitAndReturn, CountersExact, Counted
  <2> QED
    BY <2>1, CountedSets, ChecksFinite, FS_EmptySet DEF ReturnInv
<1>2. CASE SelectDone \/ SelectSlot \/ Recheck \/ Launch \/ LockCtxErr \/ AppendCtxErr
           \/ LoopEnds
  BY <1>2 DEF SelectDone, SelectSlot, Recheck, Launch, LockCtxErr, AppendCtxErr,
              LoopEnds, ReturnInv
<1>3. CASE Cancel \/ UNCHANGED vars
  BY <1>3 DEF Cancel, vars, ReturnInv, Counted
<1>4. ASSUME NEW c \in Checks, Bookkeeping(c) \/ RunReturns(c)
      PROVE  ReturnInv'
  BY <1>4 DEF Bookkeeping, Announce, LockErr, AppendErr, ReleaseSlot, Done, RunReturns,
              ReturnInv, Counted, TypeOK
<1> QED
  BY <1>1, <1>2, <1>3, <1>4 DEF Next, Loop, Terminated

(* The invariant is inductive, hence holds in every reachable state.        *)
THEOREM Inductive == Spec => []IInv
<1>1. IInv /\ [Next]_vars => IInv'
  BY TypeStep, SlotsStep, WaitGroupStep, LoopStep, MutexStep, ErrsStep, LateStep,
     ReturnStep DEF IInv, CountersExact
<1> QED
  BY InitIInv, <1>1, PTL DEF Spec

(* All variables of the runner keep their types.                            *)
THEOREM TypeCorrect == Spec => []TypeOK
  BY Inductive, PTL DEF IInv

(* The channel and the WaitGroup count exactly what they stand for.         *)
THEOREM ExactCounters == Spec => []CountersExact
  BY Inductive, PTL DEF IInv

(* At most Concurrency checks execute at the same time.                     *)
THEOREM Bounded == Spec => []ConcurrencyBound
<1>1. IInv => ConcurrencyBound
  <2> SUFFICES ASSUME IInv PROVE ConcurrencyBound
    OBVIOUS
  <2>1. Executing \in SUBSET InFlight /\ InFlight \in SUBSET Checks
    BY DEF Executing, InFlight
  <2>2. Cardinality(Executing) <= Cardinality(InFlight)
    BY <2>1, ChecksFinite, FS_Subset
  <2>3. Cardinality(InFlight) <= sem /\ sem <= Concurrency
    BY <2>1, ChecksFinite, ConcurrencyAssumption, NumChecksAssumption
    DEF IInv, TypeOK, CountersExact, LoopToken
  <2>4. Cardinality(Executing) \in Nat /\ Cardinality(InFlight) \in Nat /\ sem \in Nat
    BY <2>1, ChecksFinite, ConcurrencyAssumption, NumChecksAssumption DEF IInv, TypeOK
  <2> QED
    BY <2>2, <2>3, <2>4, ConcurrencyAssumption DEF ConcurrencyBound
<1> QED
  BY Inductive, <1>1, PTL

(* A call that has returned has left no goroutine, lock or token behind.    *)
THEOREM LeavesNothing == Spec => []NothingLeftBehind
<1>1. IInv => NothingLeftBehind
  <2> SUFFICES ASSUME IInv, pc = "returned" PROVE NothingLeftBehind
    BY DEF NothingLeftBehind
  <2>1. Counted = {} /\ InFlight = {}
    BY DEF IInv, ReturnInv, Counted, InFlight
  <2>2. sem = 0
    BY <2>1, FS_EmptySet DEF IInv, CountersExact, LoopToken
  <2>3. mu = Free
    <3>1. \A c \in Checks : gpc[c] # "appending"
      BY <2>1 DEF Counted
    <3> QED
      BY <3>1, NumChecksAssumption DEF IInv, MutexInv, TypeOK, Threads, Checks, Main
  <2> QED
    BY <2>1, <2>2, <2>3 DEF NothingLeftBehind
<1> QED
  BY Inductive, <1>1, PTL

(* Without an error in the slice, every check was launched and has ended.   *)
THEOREM EmptyErrs == Spec => []EmptyMeansAllRan
<1>1. IInv => EmptyMeansAllRan
  BY NumChecksAssumption DEF IInv, EmptyMeansAllRan, LoopInv, ReturnInv, Counted, Checks, TypeOK
<1> QED
  BY Inductive, <1>1, PTL

(* At most one check is launched after the cancellation.                    *)
THEOREM OneLateStart == Spec => []AtMostOneLateStart
<1>1. IInv => AtMostOneLateStart
  <2> SUFFICES ASSUME IInv PROVE AtMostOneLateStart
    OBVIOUS
  <2>1. lateStarts = {} \/ \E c : lateStarts = {c}
    BY DEF IInv, LateInv
  <2>2. Cardinality(lateStarts) \in {0, 1}
    BY <2>1, FS_EmptySet, FS_Singleton
  <2> QED
    BY <2>2 DEF AtMostOneLateStart
<1> QED
  BY Inductive, <1>1, PTL

(* No step loses an error.                                                  *)
THEOREM NoErrorLost == Spec => ErrsOnlyGrow
<1>1. IInv /\ [Next]_vars => [errs \subseteq errs']_errs
  <2> SUFFICES ASSUME IInv, [Next]_vars PROVE errs \subseteq errs'
    OBVIOUS
  <2>1. CASE AppendCtxErr
    BY <2>1 DEF AppendCtxErr, WriteAndUnlock, IInv, MutexInv, Main, Free
  <2>2. ASSUME NEW c \in Checks, AppendErr(c)
        PROVE  errs \subseteq errs'
    BY <2>2 DEF AppendErr, WriteAndUnlock, IInv, MutexInv, Checks, Free
  <2>3. CASE LockCtxErr
    BY <2>3 DEF LockCtxErr, LockAndRead
  <2>4. ASSUME NEW c \in Checks, LockErr(c)
        PROVE  errs \subseteq errs'
    BY <2>4 DEF LockErr, LockAndRead
  <2> QED
    BY <2>1, <2>2, <2>3, <2>4
    DEF Next, Loop, Bookkeeping, Terminated, vars, SelectDone, SelectSlot, Recheck,
        Launch, LoopEnds, WaitAndReturn, Announce, RunReturns, ReleaseSlot, Done, Cancel
<1> QED
  BY Inductive, <1>1, PTL DEF Spec, ErrsOnlyGrow

-----------------------------------------------------------------------------
(* The refinement of Batch. Steps that only move a goroutine between two    *)
(* places the caller cannot tell apart leave the outcomes as they are.      *)
LEMMA SameOutcomes ==
    ASSUME IInv, [Next]_vars, ~Launch, \A c \in Checks : ~RunReturns(c)
    PROVE  outcomeBar' = outcomeBar
<1> SUFFICES ASSUME NEW d \in Checks PROVE OutcomeOf(d)' = OutcomeOf(d)
  BY DEF outcomeBar
<1> USE DEF OutcomeOf
<1>0. gpc \in [Checks -> CheckPCs]
  BY DEF IInv, TypeOK
<1>1. CASE AppendCtxErr
  <2>1. errs' = errs \cup {CtxErr} /\ gpc' = gpc
    BY <1>1 DEF AppendCtxErr, WriteAndUnlock, IInv, MutexInv, Main, Free
  <2> QED
    BY <2>1 DEF Checks, CtxErr
<1>2. ASSUME NEW c \in Checks, Announce(c) \/ ReleaseSlot(c) \/ Done(c)
      PROVE  OutcomeOf(d)' = OutcomeOf(d)
  BY <1>0, <1>2 DEF Announce, ReleaseSlot, Done
<1>3. ASSUME NEW c \in Checks, LockErr(c)
      PROVE  OutcomeOf(d)' = OutcomeOf(d)
  BY <1>0, <1>3 DEF LockErr, LockAndRead
<1>4. ASSUME NEW c \in Checks, AppendErr(c)
      PROVE  OutcomeOf(d)' = OutcomeOf(d)
  <2>1. errs' = errs \cup {c} /\ gpc' = [gpc EXCEPT ![c] = "releasing"]
    BY <1>4 DEF AppendErr, WriteAndUnlock, IInv, MutexInv, Checks, Free
  <2> QED
    BY <1>0, <1>4, <2>1 DEF AppendErr
<1>5. CASE SelectDone \/ SelectSlot \/ Recheck \/ LockCtxErr \/ LoopEnds
           \/ WaitAndReturn \/ Cancel \/ UNCHANGED vars
  BY <1>5 DEF SelectDone, SelectSlot, Recheck, LockCtxErr, LockAndRead, LoopEnds,
              WaitAndReturn, Cancel, vars
<1> QED
  BY <1>1, <1>2, <1>3, <1>4, <1>5 DEF Next, Loop, Bookkeeping, Terminated

(* The launch of a check starts it in the batch.                            *)
LEMMA LaunchStarts ==
    ASSUME IInv, Launch
    PROVE  AbstractBatch!Start(next)
<1> DEFINE Running == AbstractBatch!Having("running")
<1>1. next \in Checks /\ gpc[next] = "idle" /\ next \notin errs
  BY DEF Launch, IInv, LoopInv, ErrsInv, Checks
<1>2. outcomeBar' = [outcomeBar EXCEPT ![next] = "running"]
  <2>1. gpc' = [gpc EXCEPT ![next] = "ready"] /\ errs' = errs /\ gpc \in [Checks -> CheckPCs]
    BY DEF Launch, IInv, TypeOK
  <2>2. \A d \in Checks :
            OutcomeOf(d)' = IF d = next THEN "running" ELSE OutcomeOf(d)
    BY <1>1, <2>1 DEF OutcomeOf
  <2> QED
    BY <2>2 DEF outcomeBar
<1>3. outcomeBar[next] = "unstarted"
  BY <1>1 DEF outcomeBar, OutcomeOf
<1>4. Running \in SUBSET InFlight
  BY DEF AbstractBatch!Having, outcomeBar, OutcomeOf, InFlight, Checks, IInv,
         TypeOK, CheckPCs
<1>5. Cardinality(Running) < Concurrency
  <2>1. Cardinality(Running) <= Cardinality(InFlight)
    BY <1>4, CountedSets, ChecksFinite, FS_Subset
  <2>2. Cardinality(InFlight) + 1 <= Concurrency
    BY DEF Launch, IInv, TypeOK, CountersExact, LoopToken
  <2>3. Cardinality(Running) \in Nat /\ Cardinality(InFlight) \in Nat
    BY <1>4, CountedSets, ChecksFinite, NumChecksAssumption
  <2> HIDE DEF Running
  <2> QED
    BY <2>1, <2>2, <2>3, ConcurrencyAssumption
<1>6. verdictBar = "none" /\ verdictBar' = verdictBar /\ cancelled' = cancelled
  BY DEF Launch, verdictBar
<1>7. AbstractBatch!Cardinality(Running) = Cardinality(Running)
  BY DEF AbstractBatch!Cardinality, Cardinality
<1> QED
  BY <1>1, <1>2, <1>3, <1>5, <1>6, <1>7 DEF AbstractBatch!Start

(* A check that returns finishes in the batch.                              *)
LEMMA ReturnFinishes ==
    ASSUME IInv, NEW c \in Checks, RunReturns(c)
    PROVE  AbstractBatch!Finish(c)
<1>1. gpc[c] = "running" /\ c \notin errs
  BY DEF RunReturns, IInv, ErrsInv
<1>2. PICK r \in {"failing", "releasing"} : gpc' = [gpc EXCEPT ![c] = r]
  BY DEF RunReturns
<1>3. outcomeBar' = [outcomeBar EXCEPT ![c] = IF r = "failing" THEN "failed" ELSE "passed"]
  <2>1. errs' = errs /\ gpc \in [Checks -> CheckPCs]
    BY DEF RunReturns, IInv, TypeOK
  <2>2. \A d \in Checks :
            OutcomeOf(d)' = IF d = c THEN IF r = "failing" THEN "failed" ELSE "passed"
                                     ELSE OutcomeOf(d)
    BY <1>1, <1>2, <2>1 DEF OutcomeOf
  <2> QED
    BY <2>2 DEF outcomeBar
<1>4. outcomeBar[c] = "running"
  BY <1>1 DEF outcomeBar, OutcomeOf
<1>5. verdictBar' = verdictBar /\ cancelled' = cancelled
  BY DEF RunReturns, verdictBar
<1> QED
  BY <1>3, <1>4, <1>5 DEF AbstractBatch!Finish

(* The return decides the batch.                                            *)
LEMMA ReturnDecides ==
    ASSUME IInv, WaitAndReturn
    PROVE  AbstractBatch!Decide
<1> USE DEF IInv, TypeOK, WaitAndReturn
<1>1. Counted = {}
  BY CountedSets, ChecksFinite, FS_EmptySet DEF CountersExact
<1>2. \A c \in Checks : gpc[c] \in {"idle", "exited"}
  BY <1>1 DEF Counted
<1>3. AbstractBatch!Having("running") = {}
  BY <1>2 DEF AbstractBatch!Having, Checks, outcomeBar, OutcomeOf
<1>4. cancelled \/ AbstractBatch!Having("unstarted") = {}
  <2>1. CASE CtxErr \in errs
    BY <2>1 DEF ErrsInv
  <2>2. CASE CtxErr \notin errs
    <3>1. \A c \in Checks : gpc[c] = "exited"
      BY <1>2, <2>2, NumChecksAssumption DEF LoopInv, Checks
    <3> QED
      BY <3>1 DEF AbstractBatch!Having, Checks, outcomeBar, OutcomeOf
  <2> QED
    BY <2>1, <2>2
<1>5. errs = {} <=> AbstractBatch!Having("passed") = Checks
  <2>1. ASSUME errs = {} PROVE AbstractBatch!Having("passed") = Checks
    <3>1. \A c \in Checks : gpc[c] = "exited"
      BY <1>2, <2>1, NumChecksAssumption DEF LoopInv, Checks
    <3> QED
      BY <2>1, <3>1 DEF AbstractBatch!Having, Checks, outcomeBar, OutcomeOf
  <2>2. ASSUME NEW c \in Checks, c \in errs PROVE c \notin AbstractBatch!Having("passed")
    BY <1>2, <2>2 DEF AbstractBatch!Having, Checks, outcomeBar, OutcomeOf
  <2>3. ASSUME CtxErr \in errs PROVE next \in Checks /\ next \notin AbstractBatch!Having("passed")
    <3>1. next \in Checks /\ gpc[next] = "idle"
      BY <2>3 DEF ErrsInv, LoopInv, Checks
    <3> QED
      BY <3>1 DEF AbstractBatch!Having, Checks, outcomeBar, OutcomeOf
  <2> QED
    BY <2>1, <2>2, <2>3 DEF Entries
<1>6. outcomeBar' = outcomeBar
  BY DEF outcomeBar, OutcomeOf
<1>7. verdictBar = "none" /\ verdictBar' = IF errs = {} THEN "pass" ELSE "fail"
  BY DEF verdictBar
<1> QED
  BY <1>3, <1>4, <1>5, <1>6, <1>7 DEF AbstractBatch!Decide, Checks

(* The runner implements the batch it promises to its callers.              *)
THEOREM Refinement == Spec => ImplementsBatch
<1>1. Init => AbstractBatch!Init
  BY DEF Init, AbstractBatch!Init, outcomeBar, OutcomeOf, verdictBar, Checks
<1>2. IInv /\ [Next]_vars => [AbstractBatch!Next]_(AbstractBatch!batchVars)
  <2> SUFFICES ASSUME IInv, [Next]_vars
               PROVE  AbstractBatch!Next \/ UNCHANGED AbstractBatch!batchVars
    BY DEF AbstractBatch!batchVars
  <2> USE DEF AbstractBatch!Next
  <2>1. CASE Launch
    BY <2>1, LaunchStarts DEF IInv, LoopInv, Launch
  <2>2. ASSUME NEW c \in Checks, RunReturns(c)
        PROVE  AbstractBatch!Next
    BY <2>2, ReturnFinishes
  <2>3. CASE WaitAndReturn
    BY <2>3, ReturnDecides
  <2>4. CASE Cancel
    BY <2>4 DEF Cancel, AbstractBatch!Cancel, outcomeBar, OutcomeOf, verdictBar
  <2>5. CASE ~Launch /\ (\A c \in Checks : ~RunReturns(c)) /\ ~WaitAndReturn /\ ~Cancel
    <3>1. outcomeBar' = outcomeBar
      BY <2>5, SameOutcomes
    <3>2. cancelled' = cancelled /\ verdictBar' = verdictBar
      BY <2>5 DEF Next, Loop, Bookkeeping, Terminated, vars, verdictBar, SelectDone,
         SelectSlot, Recheck, LockCtxErr, AppendCtxErr, LoopEnds, Announce, LockErr,
         AppendErr, ReleaseSlot, Done, LockAndRead, WriteAndUnlock, IInv, MutexInv,
         ReturnInv, Counted
    <3> QED
      BY <3>1, <3>2 DEF AbstractBatch!batchVars
  <2> QED
    BY <2>1, <2>2, <2>3, <2>4, <2>5
<1> QED
  BY Inductive, <1>1, <1>2, PTL DEF Spec, ImplementsBatch, AbstractBatch!Spec
=============================================================================
