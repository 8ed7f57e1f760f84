------------------------------ MODULE Requests ------------------------------
(***************************************************************************)
(* Requests whose handlers run statement by statement without a            *)
(* transaction, so that those of other requests come in between.  The      *)
(* request is fixed; its handler begins with its first statement, ends     *)
(* with an answer, and may be lost in between: an error of the database or *)
(* of redis, or the end of the process.                                    *)
(*                                                                         *)
(* before is a history variable: the order of requests in real time, to    *)
(* state what a request owes only to those it did not overlap.             *)
(***************************************************************************)
EXTENDS Naturals

CONSTANTS Calls,        \* requests
          MaxFailures   \* bound: requests that are lost

ASSUME RequestsAssumption == MaxFailures \in Nat

VARIABLES request,   \* request[c]: a record with the operation and its parameters
          pc,        \* "idle", the next statement, or "ended"
          answer,    \* what it answered
          before,    \* before[c]: requests that had ended when c began
          failures   \* requests lost so far

requests == <<request, pc, answer, before, failures>>

Answers == {"none", "OK", "ACTION_DONE_PREVIOUSLY", "NOT_ACCESS", "USER_EXISTED", "USER_NOT_VALIDATED",
            "SPAM", "CODE_VERIFY_INCORRECT", "PARAMETER_VALUE_INVALID", "EXCEPTION_ERROR"}

RequestsInit ==
  /\ pc = [c \in Calls |-> "idle"]
  /\ answer = [c \in Calls |-> "none"]
  /\ before = [c \in Calls |-> {}]
  /\ failures = 0

Op(c) == request[c].op
Begun(c) == pc[c] # "idle"
Ended(c) == pc[c] = "ended"

\* Requests that ran, for some time, at the same time.
Met(c, d) == c \notin before[d] /\ d \notin before[c]

\* A request that begins comes after those that have ended.
Timed(c) ==
  before' = IF Begun(c) THEN before ELSE [before EXCEPT ![c] = {d \in Calls : Ended(d)}]

\* c executes the statement from and goes on with to.
Move(c, from, to) ==
  /\ pc[c] = from
  /\ pc' = [pc EXCEPT ![c] = to]
  /\ Timed(c)
  /\ UNCHANGED <<request, failures>>

Go(c, from, to) == Move(c, from, to) /\ UNCHANGED answer
Return(c, from, result) == Move(c, from, "ended") /\ answer' = [answer EXCEPT ![c] = result]

Lose(c) ==
  /\ Begun(c) /\ ~ Ended(c)
  /\ failures < MaxFailures
  /\ failures' = failures + 1
  /\ pc' = [pc EXCEPT ![c] = "ended"]
  /\ answer' = [answer EXCEPT ![c] = "EXCEPTION_ERROR"]
  /\ UNCHANGED <<request, before>>
=============================================================================
