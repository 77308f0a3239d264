--------------------------- MODULE QuotaAdmission ---------------------------
(***************************************************************************)
(* The admission of runs of one account within its rolling quota: the      *)
(* replay of a submission whose answer was lost, the window over the       *)
(* charges of all users of the account, the tier of the user who submits,  *)
(* and the compensation of charges.                                        *)
(*                                                                         *)
(* An admission locks the account row and reads the database clock after   *)
(* that, so admissions happen one at a time, in the order of their clock.  *)
(* A run, its charge and its idempotency record are inserted by one        *)
(* transaction and are one row here; its place in the ledger is the run id.*)
(***************************************************************************)
EXTENDS Integers, Sequences, FiniteSets

CONSTANTS
  Users,     \* the users of the account
  Keys,      \* idempotency keys a client may send
  Requests,  \* hashes of a request
  Tiers,     \* chargeable tiers
  Limit,     \* ROLLING_QUOTA_LIMITS
  Window,    \* 168 hours
  KeyLife,   \* 24 hours, the life of an idempotency record
  MaxTime,   \* bound of the clock in a run of the model checker
  MaxRuns,   \* bound of the runs admitted in such a run
  NULL       \* no tier, no denial

VARIABLES
  now,      \* the database clock
  tier,     \* by user: the tier of the entitlement in force
  ledger,   \* admitted runs with their charges, in the order of admission
  answer,   \* the last answer a client heard: a run, for a key and a request
  denial    \* the last refusal, until a run is admitted or a tier changes

vars == <<now, tier, ledger, answer, denial>>

ASSUME QuotaAssumption ==
  /\ Limit \in [Tiers -> Nat \ {0}] /\ NULL \notin Tiers
  /\ Window \in Nat /\ KeyLife \in Nat /\ MaxTime \in Nat /\ MaxRuns \in Nat
  /\ 0 < KeyLife /\ KeyLife < Window

Charge == [user : Users, key : Keys, request : Requests, at : Nat, tier : Tiers,
           returned : 0 .. 1]
Named == [user : Users, key : Keys, request : Requests, run : Nat]
Refusal == [next : Nat, used : Nat, limit : Nat, fresh : BOOLEAN]

Runs == DOMAIN ledger

TypeOK ==
  /\ now \in Nat
  /\ tier \in [Users -> Tiers \cup {NULL}]
  /\ ledger \in Seq(Charge)
  /\ answer # NULL => answer \in Named /\ answer.run \in Runs
  /\ denial # NULL => denial \in Refusal

Init ==
  /\ now = 0
  /\ tier \in [Users -> Tiers]
  /\ ledger = <<>>
  /\ answer = NULL
  /\ denial = NULL

-----------------------------------------------------------------------------
(* quotaState: the charges in the window that no entry compensates. *)
Counted ==
  {r \in Runs : ledger[r].returned = 0 /\ now - Window < ledger[r].at /\ ledger[r].at <= now}

Used == Cardinality(Counted)

(* Mutant of Oldest: the last of the charges. *)
Newest == CHOOSE r \in Counted : \A other \in Counted : ledger[r].at >= ledger[other].at

(* min(charged_at) of the same statement. *)
Oldest == CHOOSE r \in Counted : \A other \in Counted : ledger[r].at <= ledger[other].at

(* The idempotency records of a key that are still valid. *)
Recorded(u, k) ==
  {r \in Runs : ledger[r].user = u /\ ledger[r].key = k /\ now < ledger[r].at + KeyLife}

(* UNIQUE (account_id, requested_by_user_id, idempotency_key_hash). *)
Unused(u, k) == \A r \in Runs : ledger[r].user # u \/ ledger[r].key # k

Answer(u, k, q, r) ==
  answer' = [user |-> u, key |-> k, request |-> q, run |-> r]

(* Mutant of Replay: the hash of the request is not compared. *)
ReplayAnyRequest(u, k, q) ==
  /\ \E r \in Recorded(u, k) : Answer(u, k, q, r)
  /\ UNCHANGED <<now, tier, ledger, denial>>

(* A key with a valid record is answered from it; another request under it is an error. *)
Replay(u, k, q) ==
  /\ \E r \in Recorded(u, k) : ledger[r].request = q /\ Answer(u, k, q, r)
  /\ UNCHANGED <<now, tier, ledger, denial>>

(* Mutant of Admit: a full window admits one more. *)
AdmitAtLimit(u, k, q) ==
  /\ Recorded(u, k) = {} /\ Unused(u, k)
  /\ tier[u] # NULL /\ Used <= Limit[tier[u]] /\ Len(ledger) < MaxRuns
  /\ ledger' = Append(ledger, [user |-> u, key |-> k, request |-> q, at |-> now,
                               tier |-> tier[u], returned |-> 0])
  /\ Answer(u, k, q, Len(ledger) + 1) \/ UNCHANGED answer
  /\ denial' = NULL
  /\ UNCHANGED <<now, tier>>

(* admitRunWithinQuota, accepted.  A key whose record ran out meets the unique key of
   its run and the transaction is rolled back.  The answer may be lost. *)
Admit(u, k, q) ==
  /\ Recorded(u, k) = {} /\ Unused(u, k)
  /\ tier[u] # NULL /\ Used < Limit[tier[u]] /\ Len(ledger) < MaxRuns
  /\ ledger' = Append(ledger, [user |-> u, key |-> k, request |-> q, at |-> now,
                               tier |-> tier[u], returned |-> 0])
  /\ Answer(u, k, q, Len(ledger) + 1) \/ UNCHANGED answer
  /\ denial' = NULL
  /\ UNCHANGED <<now, tier>>

(* quota_exceeded: nothing is stored, the refusal names the next capacity. *)
Deny(u, k) ==
  /\ Recorded(u, k) = {}
  /\ tier[u] # NULL /\ Used >= Limit[tier[u]]
  /\ denial' = [next |-> ledger[Oldest].at + Window, used |-> Used,
                limit |-> Limit[tier[u]], fresh |-> TRUE]
  /\ UNCHANGED <<now, tier, ledger, answer>>

(* Mutant of Compensate: a charge is compensated again. *)
CompensateAgain(r) ==
  /\ ledger' = [ledger EXCEPT ![r].returned = @ + 1]
  /\ denial' = IF denial = NULL THEN NULL ELSE [denial EXCEPT !.fresh = FALSE]
  /\ UNCHANGED <<now, tier, answer>>

(* compensateQuotaCharge, and the terminal failure of a live run. *)
Compensate(r) ==
  /\ ledger[r].returned = 0
  /\ ledger' = [ledger EXCEPT ![r].returned = @ + 1]
  /\ denial' = IF denial = NULL THEN NULL ELSE [denial EXCEPT !.fresh = FALSE]
  /\ UNCHANGED <<now, tier, answer>>

(* An entitlement is granted, revoked or runs out (AdminEntitlements). *)
Entitle(u, t) ==
  /\ tier[u] # t
  /\ tier' = [tier EXCEPT ![u] = t]
  /\ denial' = NULL
  /\ UNCHANGED <<now, ledger, answer>>

Tick ==
  /\ now < MaxTime
  /\ now' = now + 1
  /\ UNCHANGED <<tier, ledger, answer, denial>>

-----------------------------------------------------------------------------
Submit(u, k) == Deny(u, k) \/ \E q \in Requests : Replay(u, k, q) \/ Admit(u, k, q)

Next ==
  \/ \E u \in Users, k \in Keys : Submit(u, k)
  \/ \E u \in Users, t \in Tiers \cup {NULL} : Entitle(u, t)
  \/ \E r \in Runs : Compensate(r)
  \/ Tick

Spec == Init /\ [][Next]_vars

-----------------------------------------------------------------------------
(* Properties. *)

(* The charges up to a run that share its window. *)
Before(r) ==
  {s \in 1 .. r : ledger[s].returned = 0 /\ ledger[r].at - Window < ledger[s].at}

(* When a run was admitted its window held no more charges than its tier allows, and
   no compensation, change of tier, other user or retry makes it hold more later. *)
WithinQuota == \A r \in Runs : Cardinality(Before(r)) <= Limit[ledger[r].tier]

(* Whatever clients are told of a key, in retries before and after its record runs out,
   names one run, the only one of the key, and the request it was admitted for. *)
AnswersAgree ==
  /\ answer # NULL =>
       LET run == ledger[answer.run] IN
       <<run.user, run.key, run.request>> = <<answer.user, answer.key, answer.request>>
  /\ \A r, s \in Runs :
       ledger[r].user = ledger[s].user /\ ledger[r].key = ledger[s].key => r = s

(* A refusal with a window that is exactly full names the moment it has room again: not
   later, and not earlier unless a charge is compensated.  It says nothing once a run
   was admitted or the tier changed, nor when a tier with a lower limit left the window
   more than full: then the moment named is too early. *)
NextCapacityIsTrue ==
  denial # NULL /\ denial.used = denial.limit =>
    /\ now >= denial.next => Used < denial.limit
    /\ now < denial.next /\ denial.fresh => Used >= denial.limit
=============================================================================
