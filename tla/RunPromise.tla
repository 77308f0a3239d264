----------------------------- MODULE RunPromise -----------------------------
(***************************************************************************)
(* What a run of the run queue promises its user: it ends once, in one     *)
(* way; a result is there if and only if it completed; and a run on the    *)
(* provider route gives its charge back if and only if it failed.          *)
(***************************************************************************)
CONSTANTS
  Runs,       \* the runs the promise is made for
  Refundable  \* those whose failure returns the charge

VARIABLES
  verdict,    \* by run: open, or the way it ended
  published,  \* runs with a result
  refunded    \* runs whose charge was compensated

promise == <<verdict, published, refunded>>

Ending == {"complete", "failed", "cancelled"}

Promised ==
  /\ verdict = [r \in Runs |-> "open"]
  /\ published = {} /\ refunded = {}

End(r, ending) ==
  /\ verdict[r] = "open"
  /\ verdict' = [verdict EXCEPT ![r] = ending]
  /\ published' = IF ending = "complete" THEN published \cup {r} ELSE published
  /\ refunded' = IF ending = "failed" /\ r \in Refundable
                   THEN refunded \cup {r} ELSE refunded

Keeping == \E r \in Runs, ending \in Ending : End(r, ending)

Promise == Promised /\ [][Keeping]_promise
=============================================================================
