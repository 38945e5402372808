---------------------------- MODULE SSHSessions ----------------------------
(***************************************************************************)
(* RealSSHRunner (src/pkg/validation/runner.go): Run and CombinedOutput    *)
(* open a session on the one SSH client all checks share, leave the remote *)
(* command to a goroutine of their own, and select between its result and  *)
(* the end of their context. sshd, which is external, has MaxSessions      *)
(* sessions for the connection and gives one back when its command ends,   *)
(* not when the client closes it; only then does session.Run return on a   *)
(* connection that is up. When the connection breaks, session.Run returns  *)
(* an error and the command may go on.                                     *)
(*                                                                         *)
(* A call is one Run or CombinedOutput. At most Concurrency of them are in *)
(* progress, because every check makes its calls one after the other.      *)
(***************************************************************************)
EXTENDS Naturals, FiniteSets

CONSTANTS NumCalls,      \* bound: calls that checks make
          Concurrency,   \* checks that run at the same time
          MaxSessions    \* sshd's limit for the connection

ASSUME SessionsAssumption ==
    /\ NumCalls \in Nat /\ Concurrency \in Nat \ {0} /\ MaxSessions \in Nat
    /\ Concurrency < MaxSessions          \* validateConcurrency

Calls == 1..NumCalls     \* in the order in which they ask for a session

VARIABLES
    connection, \* of the shared client; "gone" once the client knows of it
    call,       \* where each call is: in the select, "ctxDone" once its context
                \* is done; its deferred Close comes with "returned"
    result,     \* what it is going to return, or has returned
    goroutine,  \* the goroutine that executes its command, and then holds
                \* what session.Run returned
    done,       \* its channel, of capacity 1
    remote      \* sshd's end of the session, and the command

vars == <<connection, call, result, goroutine, done, remote>>

Outcomes == {"answer", "lost"}   \* of session.Run

TypeOK ==
    /\ connection \in {"up", "gone"}
    /\ call \in [Calls -> {"new", "waiting", "ctxDone", "closing", "returned"}]
    /\ result \in [Calls -> {"none", "refused", "ctxErr"} \cup Outcomes]
    /\ goroutine \in [Calls -> {"none", "executing", "ended"} \cup Outcomes]
    /\ done \in [Calls -> {"empty"} \cup Outcomes]
    /\ remote \in [Calls -> {"none", "running", "ended"}]

Init ==
    /\ connection = "up"
    /\ call = [c \in Calls |-> "new"]
    /\ result = [c \in Calls |-> "none"]
    /\ goroutine = [c \in Calls |-> "none"]
    /\ done = [c \in Calls |-> "empty"]
    /\ remote = [c \in Calls |-> "none"]

InSelect == {c \in Calls : call[c] \in {"waiting", "ctxDone"}}
InProgress == InSelect \cup {c \in Calls : call[c] = "closing"}
Served == {c \in Calls : remote[c] = "running"}      \* sessions sshd counts
AllReturned == \A c \in Calls : call[c] = "returned"

-----------------------------------------------------------------------------
(* NewSession, and the go statement when it succeeds.                      *)

Begins(c) ==
    /\ call[c] = "new" /\ \A d \in 1..(c - 1) : call[d] # "new"
    /\ Cardinality(InProgress) < Concurrency

Refused(c) ==
    /\ Begins(c)
    /\ connection = "gone" \/ Cardinality(Served) >= MaxSessions
    /\ call' = [call EXCEPT ![c] = "returned"]
    /\ result' = [result EXCEPT ![c] = "refused"]
    /\ UNCHANGED <<connection, goroutine, done, remote>>

NewSession(c) ==
    /\ Begins(c)
    /\ connection = "up" /\ Cardinality(Served) < MaxSessions
    /\ call' = [call EXCEPT ![c] = "waiting"]
    /\ goroutine' = [goroutine EXCEPT ![c] = "executing"]
    /\ remote' = [remote EXCEPT ![c] = "running"]
    /\ UNCHANGED <<connection, result, done>>

(* The goroutine: session.Run waits for sshd to say that the command has   *)
(* ended. The deferred Close of the call does not end that wait; the loss  *)
(* of the connection does. (A session closed before the goroutine asked    *)
(* for the command is like one whose command ended.) What session.Run      *)
(* returned goes into the channel.                                         *)

RunFails(c) ==
    /\ goroutine[c] = "executing" /\ connection = "gone"
    /\ goroutine' = [goroutine EXCEPT ![c] = "lost"]
    /\ UNCHANGED <<connection, call, result, done, remote>>

BadRunAnswers(c) ==                \* session.Start, without session.Wait
    /\ goroutine[c] = "executing"
    /\ connection = "up"
    /\ goroutine' = [goroutine EXCEPT ![c] = "answer"]
    /\ UNCHANGED <<connection, call, result, done, remote>>

RunAnswers(c) ==
    /\ goroutine[c] = "executing"
    /\ connection = "up" /\ remote[c] = "ended"
    /\ goroutine' = [goroutine EXCEPT ![c] = "answer"]
    /\ UNCHANGED <<connection, call, result, done, remote>>

BadSend(c) ==                      \* a channel without a buffer
    /\ goroutine[c] \in Outcomes /\ done[c] = "empty"
    /\ c \in InSelect
    /\ done' = [done EXCEPT ![c] = goroutine[c]]
    /\ goroutine' = [goroutine EXCEPT ![c] = "ended"]
    /\ UNCHANGED <<connection, call, result, remote>>

Send(c) ==
    /\ goroutine[c] \in Outcomes /\ done[c] = "empty"
    /\ done' = [done EXCEPT ![c] = goroutine[c]]
    /\ goroutine' = [goroutine EXCEPT ![c] = "ended"]
    /\ UNCHANGED <<connection, call, result, remote>>

(* The select, and the deferred session.Close, which finds the session at  *)
(* its end when the result was taken. sshd may refuse the signal, whose    *)
(* error is ignored, so the command may go on.                             *)

BadSelectResult(c) ==              \* the channel is closed, and not sent to
    /\ c \in InSelect
    /\ done' = [done EXCEPT ![c] = "empty"]
    /\ call' = [call EXCEPT ![c] = "returned"]
    /\ result' = [result EXCEPT ![c] = done[c]]
    /\ UNCHANGED <<connection, goroutine, remote>>

SelectResult(c) ==
    /\ c \in InSelect /\ done[c] # "empty"
    /\ done' = [done EXCEPT ![c] = "empty"]
    /\ call' = [call EXCEPT ![c] = "returned"]
    /\ result' = [result EXCEPT ![c] = done[c]]
    /\ UNCHANGED <<connection, goroutine, remote>>

SelectCtx(c) ==
    /\ call[c] = "ctxDone"
    /\ call' = [call EXCEPT ![c] = "closing"]
    /\ result' = [result EXCEPT ![c] = "ctxErr"]
    /\ \/ connection = "up" /\ remote[c] = "running"
          /\ remote' = [remote EXCEPT ![c] = "ended"]
       \/ UNCHANGED remote
    /\ UNCHANGED <<connection, goroutine, done>>

CloseSession(c) ==
    /\ call[c] = "closing"
    /\ call' = [call EXCEPT ![c] = "returned"]
    /\ UNCHANGED <<connection, result, goroutine, done, remote>>

(* The deferred Close of the client in run, after the last call.           *)
CloseClient ==
    /\ AllReturned /\ connection = "up"
    /\ connection' = "gone"
    /\ UNCHANGED <<call, result, goroutine, done, remote>>

-----------------------------------------------------------------------------
(* The environment. What becomes of the commands after the connection is   *)
(* gone is left open: no step reads it.                                    *)

CommandEnds(c) ==
    /\ remote[c] = "running" /\ connection = "up"
    /\ remote' = [remote EXCEPT ![c] = "ended"]
    /\ UNCHANGED <<connection, call, result, goroutine, done>>

CtxEnds(c) ==
    /\ call[c] = "waiting"
    /\ call' = [call EXCEPT ![c] = "ctxDone"]
    /\ UNCHANGED <<connection, result, goroutine, done, remote>>

ConnectionBreaks ==
    /\ connection = "up" /\ ~AllReturned
    /\ connection' = "gone"
    /\ UNCHANGED <<call, result, goroutine, done, remote>>

Done == AllReturned /\ connection = "gone" /\ UNCHANGED vars

\* The steps that need no answer of sshd.
Client(c) ==
    \/ RunFails(c) \/ Send(c)
    \/ SelectResult(c) \/ SelectCtx(c) \/ CloseSession(c)

Next ==
    \/ \E c \in Calls :
          \/ NewSession(c) \/ Refused(c) \/ Client(c) \/ RunAnswers(c)
          \/ CommandEnds(c) \/ CtxEnds(c)
    \/ CloseClient \/ ConnectionBreaks \/ Done

Spec == Init /\ [][Next]_vars

(* The goroutines of the client run. Nothing makes sshd answer: neither    *)
(* the request for a session nor the end of a command is fair, no command  *)
(* has to end, no context to be done, no connection to break.              *)
FairSpec == Spec /\ WF_vars(CloseClient) /\ \A c \in Calls : WF_vars(Client(c))

-----------------------------------------------------------------------------
(* Sessions that outlived the call they were opened for, because its       *)
(* context was done.                                                       *)
Strays == {c \in Served : result[c] = "ctxErr"}

(* On a connection that is up, a call is refused a session only when such  *)
(* sessions have used up the margin that validateConcurrency leaves below  *)
(* the limit of sshd.                                                      *)
RefusedOnlyByStrays ==
    [][\A c \in Calls : Refused(c) /\ connection = "up"
                           => Cardinality(Strays) > MaxSessions - Concurrency]_vars

(* A call that returns the outcome of its command leaves nothing of it     *)
(* behind on the VM; the error of a lost connection, after which the       *)
(* command may go on, is returned only when the connection is gone.        *)
AnswerMeansEnded ==
    \A c \in Calls :
        /\ result[c] = "answer" => remote[c] = "ended"
        /\ result[c] = "lost" => connection = "gone"

(* A call returns once its context is done or the connection is gone, even *)
(* if the command goes on. Its goroutine may wait for the command as long  *)
(* as the connection is up, and does not outlive the connection.           *)
CallsEnd ==
    /\ \A c \in Calls :
          (call[c] = "ctxDone" \/ (c \in InSelect /\ connection = "gone"))
              ~> call[c] = "returned"
    /\ AllReturned ~> \A c \in Calls : goroutine[c] \in {"none", "ended"}
=============================================================================
