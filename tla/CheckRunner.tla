---------------------------- MODULE CheckRunner ----------------------------
(***************************************************************************)
(* runChecksConcurrently (src/main.go): a loop launches one goroutine per  *)
(* check, a buffered channel "sem" bounds how many of them are in flight,  *)
(* a WaitGroup "wg" holds the return back until all of them are done, and  *)
(* a mutex "mu" protects the slice "errs" they append their failures to.   *)
(*                                                                         *)
(* Every operation on one of those shared objects is an action of its own. *)
(* The append to errs is the read of the slice followed by the write of    *)
(* the longer one, which is what the mutex has to keep together.           *)
(***************************************************************************)
EXTENDS Integers, FiniteSets

CONSTANTS NumChecks,     \* length of the slice of checks
          Concurrency,   \* *concurrencyFlag
          Hanging        \* checks whose Run may never return by itself

ASSUME ConcurrencyAssumption == Concurrency \in 1..9  \* validateConcurrency
ASSUME NumChecksAssumption == NumChecks \in Nat
ASSUME HangingAssumption == Hanging \subseteq 1..NumChecks

Checks == 1..NumChecks   \* a check is named by its place in the slice
Main == 0                \* the goroutine of the caller
Threads == 0..NumChecks
Free == -1               \* mu is not held
CtxErr == 0              \* the entry ctx.Err() of errs

VARIABLES pc,            \* where the caller's goroutine is
          next,          \* the check its loop is at
          gpc,           \* where the goroutine of each check is
          sem,           \* number of tokens in the channel sem
          wg,            \* counter of the WaitGroup
          mu,            \* which goroutine holds the mutex
          snap,          \* the slice a goroutine has read inside append
          errs,          \* the accumulated errors
          cancelled,     \* ctx.Err() # nil
          lateStarts     \* history: the checks launched once ctx was done

vars == <<pc, next, gpc, sem, wg, mu, snap, errs, cancelled, lateStarts>>

LoopPCs == {"select", "recheck", "spawn", "lock", "append", "wait", "returned"}
CheckPCs == {"idle", "ready", "running", "failing", "appending", "releasing",
             "finishing", "exited"}
Entries == Checks \cup {CtxErr}

TypeOK ==
    /\ pc \in LoopPCs
    /\ next \in 1..(NumChecks + 1)
    /\ gpc \in [Checks -> CheckPCs]
    /\ sem \in 0..Concurrency
    /\ wg \in 0..NumChecks
    /\ mu \in Threads \cup {Free}
    /\ snap \in [Threads -> SUBSET Entries]
    /\ errs \in SUBSET Entries
    /\ cancelled \in BOOLEAN
    /\ lateStarts \in SUBSET Checks

Init ==
    /\ pc = "select"
    /\ next = 1
    /\ gpc = [c \in Checks |-> "idle"]
    /\ sem = 0
    /\ wg = 0
    /\ mu = Free
    /\ snap = [t \in Threads |-> {}]
    /\ errs = {}
    /\ cancelled = FALSE
    /\ lateStarts = {}

-----------------------------------------------------------------------------
(* The operators named Bad... are faults a change of the code could bring  *)
(* in. No specification uses them: they stand in for the definition that   *)
(* follows them, to show that the properties would notice.                 *)

(* mu.Lock(), and the first and second half of errs = append(errs, entry). *)

BadLockAndRead(t) ==               \* append without the mutex
    /\ mu' = t
    /\ snap' = [snap EXCEPT ![t] = errs]
    /\ UNCHANGED errs

LockAndRead(t) ==
    /\ mu = Free
    /\ mu' = t
    /\ snap' = [snap EXCEPT ![t] = errs]
    /\ UNCHANGED errs

WriteAndUnlock(t, entry) ==
    /\ errs' = snap[t] \cup {entry}
    /\ mu' = Free
    /\ snap' = [snap EXCEPT ![t] = {}]

(* The caller's goroutine. Go chooses at random when both cases of the     *)
(* select are ready, so a free slot may win against a done context.        *)

BadSelectDone ==                   \* leaves the loop without an error
    /\ pc = "select" /\ next \in Checks
    /\ cancelled
    /\ pc' = "wait"
    /\ UNCHANGED <<next, gpc, sem, wg, mu, snap, errs, cancelled, lateStarts>>

SelectDone ==
    /\ pc = "select" /\ next \in Checks
    /\ cancelled
    /\ pc' = "lock"
    /\ UNCHANGED <<next, gpc, sem, wg, mu, snap, errs, cancelled, lateStarts>>

BadSelectSlotUnbounded ==          \* a channel that never fills
    /\ pc = "select" /\ next \in Checks
    /\ sem' = sem + 1
    /\ pc' = "recheck"
    /\ UNCHANGED <<next, gpc, wg, mu, snap, errs, cancelled, lateStarts>>

SelectSlot ==
    /\ pc = "select" /\ next \in Checks
    /\ sem < Concurrency
    /\ sem' = sem + 1
    /\ pc' = "recheck"
    /\ UNCHANGED <<next, gpc, wg, mu, snap, errs, cancelled, lateStarts>>

BadRecheckLeak ==                  \* keeps the token when ctx is done
    /\ pc = "recheck"
    /\ pc' = IF cancelled THEN "lock" ELSE "spawn"
    /\ UNCHANGED <<next, gpc, sem, wg, mu, snap, errs, cancelled, lateStarts>>

BadRecheckSkipped ==               \* no second look at ctx.Err()
    /\ pc = "recheck"
    /\ pc' = "spawn"
    /\ UNCHANGED <<next, gpc, sem, wg, mu, snap, errs, cancelled, lateStarts>>

BadRecheckSilent ==                \* leaves the loop without an error
    /\ pc = "recheck"
    /\ IF cancelled
       THEN pc' = "wait" /\ sem' = sem - 1
       ELSE pc' = "spawn" /\ UNCHANGED sem
    /\ UNCHANGED <<next, gpc, wg, mu, snap, errs, cancelled, lateStarts>>

Recheck ==
    /\ pc = "recheck"
    /\ IF cancelled
       THEN pc' = "lock" /\ sem' = sem - 1
       ELSE pc' = "spawn" /\ UNCHANGED sem
    /\ UNCHANGED <<next, gpc, wg, mu, snap, errs, cancelled, lateStarts>>

Launch ==
    /\ pc = "spawn"
    /\ wg' = wg + 1
    /\ gpc' = [gpc EXCEPT ![next] = "ready"]
    /\ lateStarts' = IF cancelled THEN lateStarts \cup {next} ELSE lateStarts
    /\ next' = next + 1
    /\ pc' = "select"
    /\ UNCHANGED <<sem, mu, snap, errs, cancelled>>

LockCtxErr ==
    /\ pc = "lock"
    /\ LockAndRead(Main)
    /\ pc' = "append"
    /\ UNCHANGED <<next, gpc, sem, wg, cancelled, lateStarts>>

AppendCtxErr ==
    /\ pc = "append"
    /\ WriteAndUnlock(Main, CtxErr)
    /\ pc' = "wait"
    /\ UNCHANGED <<next, gpc, sem, wg, cancelled, lateStarts>>

LoopEnds ==
    /\ pc = "select" /\ next \notin Checks
    /\ pc' = "wait"
    /\ UNCHANGED <<next, gpc, sem, wg, mu, snap, errs, cancelled, lateStarts>>

BadWaitAndReturn ==                \* does not wait
    /\ pc = "wait"
    /\ pc' = "returned"
    /\ UNCHANGED <<next, gpc, sem, wg, mu, snap, errs, cancelled, lateStarts>>

WaitAndReturn ==
    /\ pc = "wait"
    /\ wg = 0
    /\ pc' = "returned"
    /\ UNCHANGED <<next, gpc, sem, wg, mu, snap, errs, cancelled, lateStarts>>

Loop == SelectDone \/ SelectSlot \/ Recheck \/ Launch \/ LockCtxErr
        \/ AppendCtxErr \/ LoopEnds \/ WaitAndReturn

-----------------------------------------------------------------------------
(* The goroutine of check c. Its two deferred calls run in reverse order:  *)
(* the slot is given back before the WaitGroup is told.                    *)

Announce(c) ==
    /\ gpc[c] = "ready"
    /\ mu = Free               \* mu is held only to print the line
    /\ gpc' = [gpc EXCEPT ![c] = "running"]
    /\ UNCHANGED <<pc, next, sem, wg, mu, snap, errs, cancelled, lateStarts>>

RunReturns(c) ==
    /\ gpc[c] = "running"
    /\ \E result \in {"failing", "releasing"} :
          gpc' = [gpc EXCEPT ![c] = result]
    /\ UNCHANGED <<pc, next, sem, wg, mu, snap, errs, cancelled, lateStarts>>

LockErr(c) ==
    /\ gpc[c] = "failing"
    /\ LockAndRead(c)
    /\ gpc' = [gpc EXCEPT ![c] = "appending"]
    /\ UNCHANGED <<pc, next, sem, wg, cancelled, lateStarts>>

BadAppendErrNoRelease(c) ==        \* a failing check keeps its slot
    /\ gpc[c] = "appending"
    /\ WriteAndUnlock(c, c)
    /\ gpc' = [gpc EXCEPT ![c] = "finishing"]
    /\ UNCHANGED <<pc, next, sem, wg, cancelled, lateStarts>>

AppendErr(c) ==
    /\ gpc[c] = "appending"
    /\ WriteAndUnlock(c, c)
    /\ gpc' = [gpc EXCEPT ![c] = "releasing"]
    /\ UNCHANGED <<pc, next, sem, wg, cancelled, lateStarts>>

ReleaseSlot(c) ==
    /\ gpc[c] = "releasing"
    /\ sem > 0
    /\ sem' = sem - 1
    /\ gpc' = [gpc EXCEPT ![c] = "finishing"]
    /\ UNCHANGED <<pc, next, wg, mu, snap, errs, cancelled, lateStarts>>

Done(c) ==
    /\ gpc[c] = "finishing"
    /\ wg' = wg - 1
    /\ gpc' = [gpc EXCEPT ![c] = "exited"]
    /\ UNCHANGED <<pc, next, sem, mu, snap, errs, cancelled, lateStarts>>

Bookkeeping(c) == Announce(c) \/ LockErr(c) \/ AppendErr(c) \/ ReleaseSlot(c)
                  \/ Done(c)

(* The context may be cancelled at any moment before the call returns.     *)
Cancel ==
    /\ pc # "returned"
    /\ ~cancelled
    /\ cancelled' = TRUE
    /\ UNCHANGED <<pc, next, gpc, sem, wg, mu, snap, errs, lateStarts>>

Terminated == pc = "returned" /\ UNCHANGED vars

Next ==
    \/ Loop
    \/ \E c \in Checks : Bookkeeping(c) \/ RunReturns(c)
    \/ Cancel
    \/ Terminated

Spec == Init /\ [][Next]_vars

(* The Go scheduler runs every goroutine that can run. A check returns by  *)
(* itself unless it is in Hanging (the runner sets no deadline on a remote *)
(* command), and every check returns once ctx is done, which is what the   *)
(* select of RealSSHRunner.Run is for. Nobody has to cancel the context.   *)
BadFairness ==                     \* a runner that does not look at ctx
    /\ WF_vars(Loop)
    /\ \A c \in Checks : WF_vars(Bookkeeping(c))
    /\ \A c \in Checks \ Hanging : WF_vars(RunReturns(c))

Fairness ==
    /\ WF_vars(Loop)
    /\ \A c \in Checks : WF_vars(Bookkeeping(c))
    /\ \A c \in Checks \ Hanging : WF_vars(RunReturns(c))
    /\ \A c \in Hanging : WF_vars(cancelled /\ RunReturns(c))

FairSpec == Spec /\ Fairness

-----------------------------------------------------------------------------
(* Which checks hold a token of sem, are counted by wg, are executing.     *)

InFlight == {c \in Checks : gpc[c] \in {"ready", "running", "failing",
                                        "appending", "releasing"}}
Counted == {c \in Checks : gpc[c] \notin {"idle", "exited"}}
Executing == {c \in Checks : gpc[c] \in {"ready", "running"}}
LoopToken == IF pc \in {"recheck", "spawn"} THEN 1 ELSE 0

(* The channel and the WaitGroup count exactly what they stand for: no     *)
(* path of the loop or of a goroutine leaks a slot or returns one twice,   *)
(* and wg can neither go negative, which panics, nor stay above zero.      *)
CountersExact ==
    /\ sem = Cardinality(InFlight) + LoopToken
    /\ wg = Cardinality(Counted)

(* No more than Concurrency checks use the SSH connection at once.         *)
ConcurrencyBound == Cardinality(Executing) <= Concurrency

(* When the call has returned, no goroutine of it is left that could still *)
(* use the SSH client its caller is going to close, hold the mutex, or     *)
(* append to the slice the caller is reading.                              *)
NothingLeftBehind ==
    pc = "returned" => /\ Counted = {}
                       /\ mu = Free
                       /\ sem = 0

(* An empty slice means that every check was launched and ended: a batch   *)
(* that was cut short never looks like a passed one to runTier0, runTier1. *)
EmptyMeansAllRan ==
    (pc = "returned" /\ errs = {}) =>
        \A c \in Checks : gpc[c] = "exited"

(* Cancelling stops the loop: the context is read again after a slot was   *)
(* won, so at most one further check is ever launched, the one whose       *)
(* second look at ctx.Err() came just before the cancellation.             *)
AtMostOneLateStart == Cardinality(lateStarts) <= 1

(* An error, once in the slice, stays there: two appends that overlap      *)
(* would lose one of them.                                                 *)
ErrsOnlyGrow == [][errs \subseteq errs']_errs

(* A cancelled batch returns, even when checks hang.                       *)
CancelReturns == cancelled ~> (pc = "returned")

(* Checks that hang cannot starve the others while a slot is left: each    *)
(* check that does not hang is executed and ends, unless ctx is cancelled. *)
NoStarvation ==
    Cardinality(Hanging) < Concurrency =>
        \A c \in Checks \ Hanging : <>(cancelled \/ gpc[c] = "exited")

-----------------------------------------------------------------------------
(* The batch its callers see.                                              *)

OutcomeOf(c) ==
    IF gpc[c] = "idle" THEN "unstarted"
    ELSE IF gpc[c] \in {"ready", "running"} THEN "running"
    ELSE IF c \in errs \/ gpc[c] \in {"failing", "appending"} THEN "failed"
    ELSE "passed"

outcomeBar == [c \in Checks |-> OutcomeOf(c)]

verdictBar == IF pc # "returned" THEN "none"
              ELSE IF errs = {} THEN "pass" ELSE "fail"

AbstractBatch == INSTANCE Batch
    WITH members <- Checks, outcome <- outcomeBar, verdict <- verdictBar

(* The goroutines, the channel, the WaitGroup and the mutex implement the  *)
(* batch of module Batch.                                                  *)
ImplementsBatch == AbstractBatch!Spec
=============================================================================
