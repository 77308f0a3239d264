--------------------------- MODULE SpendingPromise ---------------------------
(***************************************************************************)
(* What the ledger of attempts promises whoever approved a round: which    *)
(* requests reach the provider, and what is ever held to be known of them. *)
(* There are no reservations, leases, lanes or processes here: a request   *)
(* is paid for in one step that looks at the money already spent.          *)
(***************************************************************************)
EXTENDS Integers, FiniteSets

CONSTANTS Requests, Stages, Synthesis, MaxCalls, StageLimit, NULL

VARIABLES
  paid,  \* by request: NULL, or the stage it was sent for, its fate and what is known of it
  kept   \* stages whose result is retained

promise == <<paid, kept>>

Spent == {r \in Requests : paid[r] # NULL}
SpentOn(s) == {r \in Spent : paid[r].stage = s}
Reserved == {r \in Spent : paid[r].stage \notin Synthesis}

Nothing ==
  /\ paid = [r \in Requests |-> NULL]
  /\ kept = {}

(* The account of one request changes, and nothing else. *)
Account(r, entry) ==
  /\ paid' = [paid EXCEPT ![r] = entry]
  /\ UNCHANGED kept

(* A request leaves within the allowances, for a stage that has no result yet and of
   which nothing is uncertain. *)
Pay(r, s) ==
  /\ paid[r] = NULL /\ s \notin kept
  /\ Account(r, [stage |-> s, fate |-> "sent", known |-> "nothing"])
  /\ Cardinality(Spent) < MaxCalls /\ Cardinality(SpentOn(s)) < StageLimit
  /\ s \notin Synthesis /\ StageLimit > 1 => Cardinality(Reserved) < MaxCalls - 1
  /\ \A q \in SpentOn(s) : paid[q].known # "nothing"

(* The provider charges or refuses, once. *)
Decide(r, fate) ==
  /\ paid[r] # NULL /\ paid[r].fate = "sent"
  /\ Account(r, [paid[r] EXCEPT !.fate = fate])

(* Only the truth is learned, and it is not forgotten. *)
Learn(r) ==
  /\ paid[r] # NULL /\ paid[r].fate # "sent" /\ paid[r].known = "nothing"
  /\ Account(r, [paid[r] EXCEPT !.known = paid[r].fate])

(* A result is retained for a call that was charged, and known to be. *)
Keep(s) ==
  /\ kept' = kept \cup {s}
  /\ \E r \in SpentOn(s) : paid[r].known = "charged"
  /\ UNCHANGED paid

Spending ==
  \/ \E r \in Requests :
       /\ paid'[r] # paid[r]
       /\ \/ Learn(r) \/ Decide(r, "charged") \/ Decide(r, "refused")
          \/ \E s \in Stages : Pay(r, s)
  \/ kept' # kept /\ \E s \in Stages : Keep(s)

Promise == Nothing /\ [][Spending]_promise
=============================================================================
