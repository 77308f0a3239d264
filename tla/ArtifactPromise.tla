--------------------------- MODULE ArtifactPromise ---------------------------
(***************************************************************************)
(* What the report of a run promises: it is asked for once, and then once  *)
(* released as one document or refused.  What the user is told of the job  *)
(* and what became of the document never differ.                           *)
(***************************************************************************)
CONSTANTS Runs, Documents, NONE

VARIABLES
  verdict,   \* by run: none, pending, released or refused
  answer,    \* the same, as the status of the job tells it
  document   \* the document released

promise == <<verdict, answer, document>>

Promised ==
  /\ verdict = [r \in Runs |-> "none"] /\ answer = verdict
  /\ document = [r \in Runs |-> NONE]

Settle(r, before, after) ==
  /\ verdict[r] = before /\ verdict' = [verdict EXCEPT ![r] = after]
  /\ answer[r] = before /\ answer' = [answer EXCEPT ![r] = after]

Ask(r) == Settle(r, "none", "pending") /\ UNCHANGED document
Refuse(r) == Settle(r, "pending", "refused") /\ UNCHANGED document
Release(r) ==
  /\ Settle(r, "pending", "released")
  /\ \E d \in Documents : document' = [document EXCEPT ![r] = d]

Keeping == \E r \in Runs : Ask(r) \/ Refuse(r) \/ Release(r)

Promise == Promised /\ [][Keeping]_promise
=============================================================================
