---------------------------- MODULE AttemptLedger ----------------------------
(***************************************************************************)
(* Paid provider calls inside one approved execution: the ledger of        *)
(* attempts (consultant_research_attempt) and the retained stage results   *)
(* (consultant_research_stage), the worker processes whose parallel lanes  *)
(* admit, announce, send and account for the calls, and the provider.      *)
(*                                                                         *)
(* The execution may be claimed again after a lost lease or a crash; the   *)
(* process of an earlier claim may still be running then.  A claim stands  *)
(* for its lease token; assertExecutionFence and lockResearchAuthority     *)
(* accept the claim that holds the lease.  ResearchExecution models how    *)
(* leases, stops and approvals come and go.                                *)
(***************************************************************************)
EXTENDS Integers, FiniteSets

CONSTANTS
  Requests,      \* request ids the processes may draw
  Stages,        \* provider stages of the round (attempt_group_key)
  Synthesis,     \* those whose response schema is matchbase_live_synthesis
  MaxCalls,      \* plan.max_calls
  StageLimit,    \* plan.automatic_recovery_attempts ?? 1
  MaxClaims,     \* bound: claims of the execution's job
  NULL           \* SQL NULL

ASSUME LedgerAssumption ==
  /\ IsFiniteSet(Requests) /\ Synthesis \subseteq Stages
  /\ MaxCalls \in Nat \ {0} /\ StageLimit \in Nat \ {0} /\ MaxClaims \in Nat

Claims == 1 .. MaxClaims

VARIABLES
  claims, leased,  \* claims made so far, and whether the last one holds its lease
  row,             \* consultant_research_attempt, by request
  saved,           \* stages with a row in consultant_research_stage
  lane,            \* by claim and stage: where that process is in the stage
  call,            \* by request: the claim, stage and step of the process making it
  receipts,        \* accounting updates issued without being awaited
  net              \* what really became of the request: sent, charged, refused

vars == <<claims, leased, row, saved, lane, call, receipts, net>>

Outcome == {"dispatch_intent", "completed", "failed", "not_dispatched"}
ProviderOutcome == {"unknown", "received", "rejected", "not_dispatched"}
Row == [stage : Stages, outcome : Outcome, provider : ProviderOutcome]
LaneStep == {"asleep", "ready", "calling", "executed", "done"}
CallStep == {"free", "unacked", "admitted", "started", "sent", "answered",
             "aborted", "silent", "refused", "unusable", "faulted", "done"}
Event == [outcome : Outcome, provider : ProviderOutcome]

ASSUME LedgerNullAssumption == NULL \notin Row

TypeOK ==
  /\ claims \in 0 .. MaxClaims /\ leased \in BOOLEAN
  /\ row \in [Requests -> Row \cup {NULL}]
  /\ saved \subseteq Stages
  /\ lane \in [Claims -> [Stages -> LaneStep]]
  /\ call \in [Requests -> [claim : Claims \cup {0}, step : CallStep]]
  /\ receipts \subseteq [request : Requests, event : Event]
  /\ net \in [Requests -> {"unsent", "sent", "charged", "refused"}]

Init ==
  /\ claims = 0 /\ leased = FALSE
  /\ row = [r \in Requests |-> NULL]
  /\ saved = {}
  /\ lane = [c \in Claims |-> [s \in Stages |-> "asleep"]]
  /\ call = [r \in Requests |-> [claim |-> 0, step |-> "free"]]
  /\ receipts = {}
  /\ net = [r \in Requests |-> "unsent"]

-----------------------------------------------------------------------------
(* The ledger. *)

Fenced(c) == leased /\ c = claims

Consumed == {r \in Requests : row[r] # NULL /\ row[r].outcome # "not_dispatched"}
Unknown == {r \in Consumed : row[r].provider = "unknown"}
InStage(R, s) == {r \in R : row[r].stage = s}
OutsideSynthesis(R) == {r \in R : row[r].stage \notin Synthesis}

(* Calls kept back from every stage but the synthesis. *)
Reserve(s) == IF StageLimit > 1 /\ s \notin Synthesis THEN 1 ELSE 0

(* Mutant of Admissible: off by one. *)
AdmissibleOneMore(s) ==
  /\ Cardinality(InStage(Consumed, s)) < StageLimit
  /\ Cardinality(Consumed) <= MaxCalls - Reserve(s)
  /\ InStage(Unknown, s) = {}

(* Mutant of Admissible: an uncertain attempt is no obstacle. *)
AdmissibleUncertain(s) ==
  /\ Cardinality(InStage(Consumed, s)) < StageLimit
  /\ Cardinality(Consumed) < MaxCalls - Reserve(s)

Admissible(s) ==
  /\ Cardinality(InStage(Consumed, s)) < StageLimit
  /\ Cardinality(Consumed) < MaxCalls - Reserve(s)
  /\ InStage(Unknown, s) = {}

(* Mutant of Accounted: the last receipt wins. *)
AccountedLast(a, event) ==
  LET settled == FALSE
      late == a.outcome # "dispatch_intent" /\ event.outcome = "dispatch_intent"
  IN [a EXCEPT !.outcome = IF late \/ settled THEN @ ELSE event.outcome,
               !.provider = IF settled \/ event.provider = "unknown" THEN @ ELSE event.provider]

(* recordResearchAttemptReceipt: the row once an event is applied to it. *)
Accounted(a, event) ==
  LET settled == a.outcome = "completed" /\ event.outcome # "completed"
      late == a.outcome # "dispatch_intent" /\ event.outcome = "dispatch_intent"
  IN [a EXCEPT !.outcome = IF late \/ settled THEN @ ELSE event.outcome,
               !.provider = IF settled \/ event.provider = "unknown" THEN @ ELSE event.provider]

Apply(r, event) ==
  row' = IF row[r] = NULL THEN row ELSE [row EXCEPT ![r] = Accounted(row[r], event)]

Outcomes(outcome, provider) == [outcome |-> outcome, provider |-> provider]
StartedEvent == Outcomes("dispatch_intent", "unknown")
CompletedEvent == Outcomes("completed", "received")
(* Mutant of FailedEvent: silence means not dispatched. *)
FailedEventOptimistic(step) ==
  CASE step \in {"unacked", "silent"} -> Outcomes("not_dispatched", "not_dispatched")
    [] step = "refused" -> Outcomes("failed", "rejected")
    [] step \in {"unusable", "faulted"} -> Outcomes("failed", "received")
    [] OTHER -> Outcomes("failed", "unknown")

(* Mutant of FailedEvent: the provider's word as outcome. *)
FailedEventVerbatim(step) ==
  CASE step = "unacked" -> Outcomes("not_dispatched", "not_dispatched")
    [] step = "refused" -> Outcomes("rejected", "rejected")
    [] step \in {"unusable", "faulted"} -> Outcomes("failed", "received")
    [] OTHER -> Outcomes("failed", "unknown")

FailedEvent(step) ==
  CASE step = "unacked" -> Outcomes("not_dispatched", "not_dispatched")
    [] step = "refused" -> Outcomes("failed", "rejected")
    [] step \in {"unusable", "faulted"} -> Outcomes("failed", "received")
    [] OTHER -> Outcomes("failed", "unknown")

-----------------------------------------------------------------------------
(* Claims and leases. *)

(* A first claim, or one after a recovery requeued the job: every recovery asks
   for a call that is left, and focus recovery asks nothing of the receipts. *)
Claim ==
  /\ ~leased /\ claims < MaxClaims
  /\ claims > 0 => Cardinality(Consumed) < MaxCalls
  /\ claims' = claims + 1 /\ leased' = TRUE
  /\ UNCHANGED <<row, saved, lane, call, receipts, net>>

LoseLease ==
  /\ leased
  /\ leased' = FALSE
  /\ UNCHANGED <<claims, row, saved, lane, call, receipts, net>>

(* The process of claim c dies; nothing of what it awaits reports. *)
Crash(c) ==
  /\ c <= claims
  /\ lane' = [lane EXCEPT ![c] = [s \in Stages |-> "done"]]
  /\ call' = [r \in Requests |-> IF call[r].claim = c
                                 THEN [claim |-> c, step |-> "done"] ELSE call[r]]
  /\ UNCHANGED <<claims, leased, row, saved, receipts, net>>

-----------------------------------------------------------------------------
(* A lane: executeResearchStage around runLiveCompletionWithRecovery. *)

MoveLane(c, s, step) == lane' = [lane EXCEPT ![c][s] = step]
MoveCall(r, step) == call' = [call EXCEPT ![r] = [claim |-> @.claim, step |-> step]]

(* loadResearchStage. *)
Load(c, s) ==
  /\ c <= claims /\ lane[c][s] = "asleep"
  /\ MoveLane(c, s, IF Fenced(c) /\ s \notin saved THEN "ready" ELSE "done")
  /\ UNCHANGED <<claims, leased, row, saved, call, receipts, net>>

(* reserveResearchAttempt; its COMMIT may succeed without the process knowing. *)
Admit(c, s, r) ==
  /\ lane[c][s] = "ready"
  /\ Fenced(c) /\ Admissible(s)
  /\ row[r] = NULL
  /\ row' = [row EXCEPT ![r] =
               [stage |-> s, outcome |-> "dispatch_intent", provider |-> "unknown"]]
  /\ \E step \in {"admitted", "unacked"} :
       call' = [call EXCEPT ![r] = [claim |-> c, step |-> step]]
  /\ MoveLane(c, s, "calling")
  /\ UNCHANGED <<claims, leased, saved, receipts, net>>

(* A refused admission is not transient; an abort or a preflight error before it
   ends the stage as well. *)
GiveUp(c, s) ==
  /\ lane[c][s] = "ready"
  /\ MoveLane(c, s, "done")
  /\ UNCHANGED <<claims, leased, row, saved, call, receipts, net>>

(* The "started" checkpoint: accounting, then the lease. *)
Announce(r) ==
  /\ call[r].step = "admitted"
  /\ Apply(r, StartedEvent)
  /\ \E step \in {"aborted"} \cup IF Fenced(call[r].claim) THEN {"started"} ELSE {} :
       MoveCall(r, step)
  /\ UNCHANGED <<claims, leased, saved, lane, receipts, net>>

(* callOpenRouterCompletion, unless the signal has been aborted meanwhile. *)
Send(r) ==
  /\ call[r].step = "started"
  /\ MoveCall(r, "sent")
  /\ net' = [net EXCEPT ![r] = "sent"]
  /\ UNCHANGED <<claims, leased, row, saved, lane, receipts>>

AbortSend(r) ==
  /\ call[r].step = "started"
  /\ MoveCall(r, "aborted")
  /\ UNCHANGED <<claims, leased, row, saved, lane, receipts, net>>

ProviderDecides(r) ==
  /\ net[r] = "sent"
  /\ \E fate \in {"charged", "refused"} : net' = [net EXCEPT ![r] = fate]
  /\ UNCHANGED <<claims, leased, row, saved, lane, call, receipts>>

(* The response, usable or not; a refusal with a status that says so; or a
   timeout, an abort or a transport fault, whatever the provider did. *)
Hear(r) ==
  /\ call[r].step = "sent"
  /\ \E step \in {"silent"} \cup
         CASE net[r] = "charged" -> {"answered", "unusable"}
           [] net[r] = "refused" -> {"refused"}
           [] OTHER -> {} :
       MoveCall(r, step)
  /\ UNCHANGED <<claims, leased, row, saved, lane, receipts, net>>

(* Mutant of Complete: the accounting is issued, and not awaited. *)
CompleteUnawaited(r) ==
  /\ call[r].step = "answered" /\ Fenced(call[r].claim)
  /\ receipts' = receipts \cup {[request |-> r, event |-> CompletedEvent]}
  /\ MoveCall(r, "done")
  /\ MoveLane(call[r].claim, row[r].stage, "executed")
  /\ UNCHANGED <<claims, leased, row, saved, net>>

(* The "completed" checkpoint. *)
Complete(r) ==
  LET c == call[r].claim IN
  /\ call[r].step = "answered"
  /\ Fenced(c)
  /\ Apply(r, CompletedEvent)
  /\ MoveCall(r, "done")
  /\ MoveLane(c, row[r].stage, "executed")
  /\ UNCHANGED <<claims, leased, saved, receipts, net>>

(* It rejects: the lease is gone, the database failed, or another lane's
   checkpoint did and the chain of checkpoints is broken.  Its own accounting
   was issued, and is not awaited. *)
CompleteFault(r) ==
  /\ call[r].step = "answered"
  /\ receipts' = receipts \cup {[request |-> r, event |-> CompletedEvent]}
  /\ MoveCall(r, "faulted")
  /\ UNCHANGED <<claims, leased, row, saved, lane, net>>

Failing == {"unacked", "aborted", "silent", "refused", "unusable", "faulted"}
Transient == {"silent", "refused", "unusable"}

(* The "failed" checkpoint; a transient failure tries the stage once more. *)
Fail(r) ==
  LET c == call[r].claim IN
  /\ call[r].step \in Failing
  /\ Apply(r, FailedEvent(call[r].step))
  /\ \E step \in {"done"} \cup
         IF Fenced(c) /\ call[r].step \in Transient THEN {"ready"} ELSE {} :
       MoveLane(c, row[r].stage, step)
  /\ MoveCall(r, "done")
  /\ UNCHANGED <<claims, leased, saved, receipts, net>>

FailFault(r) ==
  /\ call[r].step \in Failing
  /\ receipts' = receipts \cup {[request |-> r, event |-> FailedEvent(call[r].step)]}
  /\ MoveLane(call[r].claim, row[r].stage, "done")
  /\ MoveCall(r, "done")
  /\ UNCHANGED <<claims, leased, row, saved, net>>

(* Updates nobody awaits are applied in any order, or lost. *)
Deliver(m) ==
  /\ receipts' = receipts \ {m}
  /\ Apply(m.request, m.event)
  /\ UNCHANGED <<claims, leased, saved, lane, call, net>>

Lose(m) ==
  /\ receipts' = receipts \ {m}
  /\ UNCHANGED <<claims, leased, row, saved, lane, call, net>>

(* Mutant of Commit: by execution alone. *)
CommitUnfenced(c, s) ==
  /\ lane[c][s] = "executed"
  /\ saved' = saved \cup {s}
  /\ MoveLane(c, s, "done")
  /\ UNCHANGED <<claims, leased, row, call, receipts, net>>

(* commitResearchStage. *)
Commit(c, s) ==
  /\ lane[c][s] = "executed"
  /\ saved' = IF Fenced(c) THEN saved \cup {s} ELSE saved
  /\ MoveLane(c, s, "done")
  /\ UNCHANGED <<claims, leased, row, call, receipts, net>>

-----------------------------------------------------------------------------
Calling(r) ==
  \/ Announce(r) \/ Send(r) \/ AbortSend(r) \/ ProviderDecides(r) \/ Hear(r)
  \/ Complete(r) \/ CompleteFault(r) \/ Fail(r) \/ FailFault(r)

Next ==
  \/ Claim \/ LoseLease
  \/ \E c \in Claims : Crash(c)
  \/ \E c \in Claims, s \in Stages :
       \/ Load(c, s) \/ GiveUp(c, s) \/ Commit(c, s)
       \/ \E r \in Requests : Admit(c, s, r)
  \/ \E r \in Requests : Calling(r)
  \/ \E m \in receipts : Deliver(m) \/ Lose(m)

Spec == Init /\ [][Next]_vars

-----------------------------------------------------------------------------
(* What the ledger promises. *)

Sent == {r \in Requests : net[r] # "unsent"}

(* However often the execution is claimed, requests that really left stay within
   the approved round allowance and each stage's recovery allowance, and the last
   approved call is kept for the synthesis. *)
AllowanceKept ==
  /\ Cardinality(Sent) <= MaxCalls
  /\ StageLimit > 1 => Cardinality(OutsideSynthesis(Sent)) < MaxCalls
  /\ \A s \in Stages : Cardinality(InStage(Sent, s)) <= StageLimit

(* The ledger never says less than what happened: a call recorded as not
   dispatched was not sent, one recorded as rejected was not charged, and one
   whose answer is recorded was; in whatever order its receipts arrive. *)
LedgerTellsTruth ==
  \A r \in Requests :
    IF row[r] = NULL THEN net[r] = "unsent"
    ELSE /\ row[r].outcome = "not_dispatched" => net[r] = "unsent"
         /\ row[r].provider = "not_dispatched" => row[r].outcome = "not_dispatched"
         /\ row[r].provider = "rejected" => net[r] = "refused"
         /\ row[r].provider = "received" => net[r] = "charged"
         /\ row[r].outcome = "completed" => row[r].provider = "received"

(* A request is sent only when the fate of every earlier request of its stage is
   known: an uncertain charge is never repeated, by no process and no claim. *)
NoBlindReplay ==
  [][\A q, r \in Requests :
       /\ net[r] = "unsent" /\ net'[r] = "sent"
       /\ q # r /\ net[q] # "unsent" /\ row[q].stage = row[r].stage
       => row[q].provider # "unknown"]_vars

(* A stage whose result is retained is never admitted again. *)
SavedStageIsNotRepaid ==
  [][\A r \in Requests : row[r] = NULL /\ row'[r] # NULL => row'[r].stage \notin saved]_vars

(* What is known of a request that left, from its row. *)
Known(r) ==
  CASE row[r].provider = "received" -> "charged"
    [] row[r].provider = "rejected" -> "refused"
    [] OTHER -> "nothing"

Entry == [stage : Stages, fate : {"sent", "charged", "refused"},
          known : {"nothing", "charged", "refused"}]

ASSUME EntryNullAssumption == NULL \notin Entry

Paid == [r \in Requests |->
  IF net[r] = "unsent" THEN NULL
  ELSE [stage |-> row[r].stage, fate |-> net[r], known |-> Known(r)]]

Money == INSTANCE SpendingPromise WITH paid <- Paid, kept <- saved

(* Whatever claims, lanes, lost commits and late receipts do, what the provider sees is
   what a ledger would allow that is asked at the moment a request leaves: reserving
   first, and accounting late, spends nothing more and repeats nothing uncertain. *)
KeepsSpendingPromise == Money!Promise

(* What a receipt settled stays: a completed attempt remains completed, and a
   known provider outcome never becomes unknown. *)
SettledReceiptsStay ==
  [][\A r \in Requests : row[r] # NULL =>
       /\ row[r].outcome = "completed" => row'[r] = row[r]
       /\ row[r].provider # "unknown" => row'[r].provider # "unknown"]_vars
=============================================================================
