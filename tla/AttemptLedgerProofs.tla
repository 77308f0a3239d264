------------------------- MODULE AttemptLedgerProofs -------------------------
(* What holds of the attempt ledger for every round allowance, every number of
   claims and every set of stages. *)
EXTENDS AttemptLedger, FiniteSetTheorems, TLAPS

(* A request's process and what became of the request agree. *)
CallFits(r) ==
  LET step == call[r].step IN
  /\ step = "free" <=> row[r] = NULL
  /\ step = "free" => call[r].claim = 0
  /\ step # "free" => call[r].claim \in 1 .. claims
  /\ step \in {"unacked", "admitted", "started", "aborted"} => net[r] = "unsent"
  /\ step \in {"unacked", "admitted", "started"} =>
       row[r].outcome = "dispatch_intent" /\ row[r].provider = "unknown"
  /\ step \in {"answered", "unusable", "faulted"} => net[r] = "charged"
  /\ step = "refused" => net[r] = "refused"

(* An event is true of its request. *)
EventFits(r, e) ==
  /\ e.provider = "received" => net[r] = "charged"
  /\ e.provider = "rejected" => net[r] = "refused"
  /\ e.outcome = "completed" => e.provider = "received"
  /\ e.provider = "not_dispatched" <=> e.outcome = "not_dispatched"
  /\ e.outcome = "not_dispatched" => net[r] = "unsent"

(* Unawaited updates are true, and issued at the end of a call. *)
ReceiptsFit ==
  \A m \in receipts :
    EventFits(m.request, m.event) /\ call[m.request].step \in {"faulted", "done"}

(* A request withdrawn as never dispatched has no other event. *)
WithdrawnFit ==
  /\ \A r \in Requests : row[r] # NULL /\ row[r].outcome = "not_dispatched" =>
       /\ call[r].step = "done"
       /\ \A m \in receipts : m.request = r => m.event.outcome = "not_dispatched"
  /\ \A m, n \in receipts :
       m.request = n.request /\ m.event.outcome = "not_dispatched" =>
         n.event.outcome = "not_dispatched" /\ call[m.request].step = "done"

LedgerInv ==
  /\ TypeOK
  /\ \A r \in Requests : CallFits(r)
  /\ ReceiptsFit
  /\ WithdrawnFit
  /\ LedgerTellsTruth

USE LedgerAssumption, LedgerNullAssumption

-----------------------------------------------------------------------------
(* The events the processes issue. *)

LEMMA EventsTyped ==
  /\ StartedEvent \in Event /\ CompletedEvent \in Event
  /\ \A step \in Failing : FailedEvent(step) \in Event
BY DEF StartedEvent, CompletedEvent, FailedEvent, Failing, Outcomes, Event, Outcome,
       ProviderOutcome

LEMMA FailedEventValue ==
  \A step \in Failing :
    /\ step = "unacked" => FailedEvent(step) = Outcomes("not_dispatched", "not_dispatched")
    /\ step = "refused" => FailedEvent(step) = Outcomes("failed", "rejected")
    /\ step \in {"unusable", "faulted"} => FailedEvent(step) = Outcomes("failed", "received")
    /\ step \in {"aborted", "silent"} => FailedEvent(step) = Outcomes("failed", "unknown")
BY DEF FailedEvent, Failing

LEMMA AccountedTyped ==
  ASSUME NEW a \in Row, NEW e \in Event
  PROVE  /\ Accounted(a, e) \in Row
         /\ Accounted(a, e).stage = a.stage
         /\ Accounted(a, e).outcome \in {a.outcome, e.outcome}
         /\ Accounted(a, e).provider \in {a.provider, e.provider}
         /\ a.outcome = "completed" => Accounted(a, e).outcome = "completed"
         /\ a.outcome # "dispatch_intent" /\ e.outcome = "dispatch_intent" =>
              Accounted(a, e).outcome = a.outcome
         /\ a.outcome # "completed" /\ e.outcome # "dispatch_intent" =>
              Accounted(a, e).outcome = e.outcome
         /\ a.outcome = "completed" /\ e.outcome # "completed" =>
              Accounted(a, e).provider = a.provider
         /\ e.provider = "unknown" => Accounted(a, e).provider = a.provider
         /\ (a.outcome # "completed" \/ e.outcome = "completed") /\ e.provider # "unknown" =>
              Accounted(a, e).provider = e.provider
BY DEF Accounted, Row, Event, Outcome, ProviderOutcome

-----------------------------------------------------------------------------
(* Applying a true event to a request leaves a true row. *)

RowTrue(a, n) ==
  /\ a.outcome = "not_dispatched" => n = "unsent"
  /\ a.provider = "not_dispatched" => a.outcome = "not_dispatched"
  /\ a.provider = "rejected" => n = "refused"
  /\ a.provider = "received" => n = "charged"
  /\ a.outcome = "completed" => a.provider = "received"

LEMMA AccountedTrue ==
  ASSUME NEW r \in Requests, NEW e \in Event, row[r] \in Row,
         RowTrue(row[r], net[r]), EventFits(r, e),
         row[r].outcome = "not_dispatched" => e.outcome = "not_dispatched"
  PROVE  RowTrue(Accounted(row[r], e), net[r])
<1> DEFINE b == Accounted(row[r], e)
<1>0. /\ row[r].outcome \in Outcome /\ row[r].provider \in ProviderOutcome
      /\ e.outcome \in Outcome /\ e.provider \in ProviderOutcome
  BY DEF Row, Event
<1>1. CASE row[r].outcome = "completed"
  BY <1>1, AccountedTyped DEF RowTrue, EventFits
<1>2. CASE row[r].outcome # "completed" /\ e.outcome = "dispatch_intent"
  BY <1>2, <1>0, AccountedTyped DEF RowTrue, EventFits, Outcome, ProviderOutcome
<1>3. CASE row[r].outcome # "completed" /\ e.outcome # "dispatch_intent"
  BY <1>3, <1>0, AccountedTyped DEF RowTrue, EventFits, Outcome, ProviderOutcome
<1> QED BY <1>1, <1>2, <1>3
LEMMA TruthByRow ==
  ASSUME TypeOK
  PROVE  LedgerTellsTruth <=>
           \A r \in Requests : IF row[r] = NULL THEN net[r] = "unsent"
                              ELSE RowTrue(row[r], net[r])
BY DEF LedgerTellsTruth, RowTrue

LEMMA ApplyTrue ==
  ASSUME LedgerInv, NEW r \in Requests, NEW e \in Event, row[r] # NULL,
         Apply(r, e), EventFits(r, e),
         row[r].outcome = "not_dispatched" => e.outcome = "not_dispatched"
  PROVE  /\ row' \in [Requests -> Row \cup {NULL}]
         /\ \A q \in Requests \ {r} : row'[q] = row[q]
         /\ row'[r] \in Row /\ row'[r] # NULL
         /\ row'[r] = Accounted(row[r], e)
         /\ row'[r].stage = row[r].stage
         /\ RowTrue(row'[r], net[r])
<1>1. row[r] \in Row /\ row \in [Requests -> Row \cup {NULL}]
  BY DEF LedgerInv, TypeOK
<1>2. RowTrue(row[r], net[r])
  BY TruthByRow DEF LedgerInv
<1>3. Accounted(row[r], e) \in Row /\ Accounted(row[r], e).stage = row[r].stage
  BY <1>1, AccountedTyped
<1>4. RowTrue(Accounted(row[r], e), net[r])
  BY <1>1, <1>2, AccountedTrue
<1>5. row' = [row EXCEPT ![r] = Accounted(row[r], e)]
  BY DEF Apply
<1> QED BY <1>1, <1>3, <1>4, <1>5

(* What the running call r knows when its process takes a step. *)
LEMMA CallFacts ==
  ASSUME LedgerInv, NEW r \in Requests, call[r].step # "free"
  PROVE  /\ row[r] \in Row /\ row[r] # NULL /\ row[r].stage \in Stages
         /\ call[r].claim \in Claims /\ call[r].claim <= claims
         /\ call[r].step # "done" => row[r].outcome # "not_dispatched"
         /\ call[r].step \notin {"faulted", "done"} => \A m \in receipts : m.request # r
         /\ call[r].step = "answered" => EventFits(r, CompletedEvent)
         /\ call[r].step = "admitted" => EventFits(r, StartedEvent)
         /\ call[r].step \in Failing => EventFits(r, FailedEvent(call[r].step))
<1>1. CallFits(r) /\ TypeOK /\ WithdrawnFit /\ ReceiptsFit
  BY DEF LedgerInv
<1>2. row[r] \in Row /\ row[r] # NULL /\ row[r].stage \in Stages
  BY <1>1 DEF CallFits, TypeOK, Row
<1>3. call[r].claim \in Claims /\ call[r].claim <= claims
  BY <1>1 DEF CallFits, TypeOK, Claims
<1>4. call[r].step # "done" => row[r].outcome # "not_dispatched"
  BY <1>1, <1>2 DEF WithdrawnFit
<1>5. call[r].step \notin {"faulted", "done"} => \A m \in receipts : m.request # r
  BY <1>1 DEF ReceiptsFit
<1>6. call[r].step = "answered" => EventFits(r, CompletedEvent)
  BY <1>1 DEF CallFits, EventFits, CompletedEvent, Outcomes
<1>7. call[r].step = "admitted" => EventFits(r, StartedEvent)
  BY <1>1 DEF CallFits, EventFits, StartedEvent, Outcomes
<1>8. ASSUME call[r].step \in Failing PROVE EventFits(r, FailedEvent(call[r].step))
  <2>1. CASE call[r].step = "unacked"
    BY <1>1, <1>8, <2>1, FailedEventValue DEF CallFits, EventFits, Outcomes
  <2>2. CASE call[r].step = "refused"
    BY <1>1, <1>8, <2>2, FailedEventValue DEF CallFits, EventFits, Outcomes
  <2>3. CASE call[r].step \in {"unusable", "faulted"}
    BY <1>1, <1>8, <2>3, FailedEventValue DEF CallFits, EventFits, Outcomes
  <2>4. CASE call[r].step \in {"aborted", "silent"}
    BY <1>1, <1>8, <2>4, FailedEventValue DEF CallFits, EventFits, Outcomes
  <2> QED BY <1>8, <2>1, <2>2, <2>3, <2>4 DEF Failing
<1> QED BY <1>2, <1>3, <1>4, <1>5, <1>6, <1>7, <1>8

-----------------------------------------------------------------------------
(* Every step keeps the ledger true. *)

LEMMA LedgerInit == Init => LedgerInv
<1> SUFFICES ASSUME Init PROVE LedgerInv
  OBVIOUS
<1>1. TypeOK
  <2>1. lane \in [Claims -> [Stages -> LaneStep]]
    BY DEF Init, LaneStep
  <2>2. call \in [Requests -> [claim : Claims \cup {0}, step : CallStep]]
    BY DEF Init, CallStep
  <2>3. claims \in 0 .. MaxClaims
    BY DEF Init
  <2>5. leased \in BOOLEAN
    BY Zenon DEF Init
  <2>4. row \in [Requests -> Row \cup {NULL}]
    BY DEF Init
  <2> QED BY <2>1, <2>2, <2>3, <2>4, <2>5 DEF Init, TypeOK
<1>2. \A r \in Requests : CallFits(r)
  BY DEF Init, CallFits
<1>3. ReceiptsFit /\ WithdrawnFit /\ LedgerTellsTruth
  BY DEF Init, ReceiptsFit, WithdrawnFit, LedgerTellsTruth
<1> QED BY <1>1, <1>2, <1>3 DEF LedgerInv

LEMMA HearStep ==
  ASSUME NEW r \in Requests, Hear(r)
  PROVE  \E step \in {"silent", "answered", "unusable", "refused"} :
           /\ MoveCall(r, step)
           /\ step \in {"answered", "unusable"} => net[r] = "charged"
           /\ step = "refused" => net[r] = "refused"
<1>1. CASE net[r] = "charged"
  BY <1>1, Zenon DEF Hear
<1>2. CASE net[r] = "refused"
  BY <1>2, Zenon DEF Hear
<1>3. CASE net[r] # "charged" /\ net[r] # "refused"
  BY <1>3, Zenon DEF Hear
<1> QED BY <1>1, <1>2, <1>3

LEMMA MoveCallEffect ==
  ASSUME TypeOK, NEW r \in Requests, NEW step \in CallStep, MoveCall(r, step)
  PROVE  /\ call' \in [Requests -> [claim : Claims \cup {0}, step : CallStep]]
         /\ \A q \in Requests \ {r} : call'[q] = call[q]
         /\ call'[r].step = step /\ call'[r].claim = call[r].claim
BY DEF TypeOK, MoveCall

LEMMA MoveLaneEffect ==
  ASSUME TypeOK, NEW c \in Claims, NEW s \in Stages, NEW step \in LaneStep,
         MoveLane(c, s, step)
  PROVE  /\ lane' \in [Claims -> [Stages -> LaneStep]]
         /\ lane'[c][s] = step
         /\ \A d \in Claims, t \in Stages : d # c \/ t # s => lane'[d][t] = lane[d][t]
BY DEF TypeOK, MoveLane

LEMMA TypedStep ==
  ASSUME LedgerInv, [Next]_vars
  PROVE  TypeOK'
<1> USE DEF TypeOK
<1>0. TypeOK
  BY DEF LedgerInv
<1>1. CASE Claim
  BY <1>0, <1>1 DEF Claim
<1>2. CASE LoseLease
  BY <1>0, <1>2 DEF LoseLease
<1>3. ASSUME NEW c \in Claims, Crash(c) PROVE TypeOK'
  BY <1>0, <1>3 DEF Crash, LaneStep, CallStep
<1>4. ASSUME NEW c \in Claims, NEW s \in Stages, Load(c, s) \/ GiveUp(c, s) \/ Commit(c, s)
      PROVE TypeOK'
  <2>1. PICK step \in LaneStep : MoveLane(c, s, step)
    BY <1>4 DEF Load, GiveUp, Commit, LaneStep
  <2>2. lane' \in [Claims -> [Stages -> LaneStep]]
    BY <1>0, <2>1, MoveLaneEffect
  <2> QED BY <1>0, <1>4, <2>2 DEF Load, GiveUp, Commit
<1>5. ASSUME NEW c \in Claims, NEW s \in Stages, NEW r \in Requests, Admit(c, s, r)
      PROVE TypeOK'
  BY <1>0, <1>5 DEF Admit, MoveLane, LaneStep, CallStep, Row, Outcome, ProviderOutcome
<1>6. ASSUME NEW r \in Requests, Calling(r) PROVE TypeOK'
  <2>1. CASE Announce(r)
    BY <1>0, <2>1, CallFacts, ApplyTrue, EventsTyped DEF Announce, MoveCall, CallStep
  <2>2. CASE Send(r) \/ AbortSend(r)
    <3>1. PICK step \in CallStep : MoveCall(r, step)
      BY <2>2 DEF Send, AbortSend, CallStep
    <3>2. call' \in [Requests -> [claim : Claims \cup {0}, step : CallStep]]
      BY <1>0, <3>1, MoveCallEffect
    <3> QED BY <1>0, <2>2, <3>2 DEF Send, AbortSend
  <2>8. CASE ProviderDecides(r)
    BY <1>0, <2>8 DEF ProviderDecides
  <2>3. CASE Hear(r)
    <3>1. PICK step \in CallStep : MoveCall(r, step)
      BY <2>3, HearStep DEF CallStep
    <3> QED BY <1>0, <2>3, <3>1, MoveCallEffect DEF Hear
  <2>4. CASE Complete(r)
    BY <1>0, <2>4, CallFacts, ApplyTrue, EventsTyped
       DEF Complete, MoveCall, MoveLane, CallStep, LaneStep
  <2>5. CASE CompleteFault(r)
    BY <1>0, <2>5, EventsTyped DEF CompleteFault, MoveCall, CallStep
  <2>6. CASE Fail(r)
    <3>1. row' \in [Requests -> Row \cup {NULL}]
      BY <2>6, CallFacts, ApplyTrue, EventsTyped DEF Fail, Failing
    <3>2. call' \in [Requests -> [claim : Claims \cup {0}, step : CallStep]]
      BY <1>0, <2>6, MoveCallEffect DEF Fail, CallStep
    <3>3. PICK step \in LaneStep : MoveLane(call[r].claim, row[r].stage, step)
      BY <2>6 DEF Fail, LaneStep
    <3>4. call[r].claim \in Claims /\ row[r].stage \in Stages
      BY <2>6, CallFacts DEF Fail, Failing
    <3>5. lane' \in [Claims -> [Stages -> LaneStep]]
      BY <1>0, <3>3, <3>4, MoveLaneEffect
    <3> QED BY <1>0, <2>6, <3>1, <3>2, <3>5 DEF Fail
  <2>7. CASE FailFault(r)
    BY <1>0, <2>7, CallFacts, EventsTyped
       DEF FailFault, MoveCall, MoveLane, CallStep, LaneStep, Failing
  <2> QED BY <1>6, <2>1, <2>2, <2>3, <2>4, <2>5, <2>6, <2>7, <2>8 DEF Calling
<1>7. ASSUME NEW m \in receipts, Deliver(m) \/ Lose(m) PROVE TypeOK'
  <2>1. CASE Lose(m)
    BY <1>0, <2>1 DEF Lose
  <2>2. CASE Deliver(m)
    <3>1. row' \in [Requests -> Row \cup {NULL}]
      BY <1>0, <2>2, AccountedTyped DEF Deliver, Apply
    <3> QED BY <1>0, <2>2, <3>1 DEF Deliver
  <2> QED BY <1>7, <2>1, <2>2
<1>8. CASE UNCHANGED vars
  BY <1>0, <1>8 DEF vars
<1> QED BY <1>1, <1>2, <1>3, <1>4, <1>5, <1>6, <1>7, <1>8 DEF Next

LEMMA FactsKept ==
  ASSUME LedgerInv
  PROVE  /\ TypeOK /\ ReceiptsFit /\ WithdrawnFit
         /\ \A q \in Requests : CallFits(q)
         /\ \A q \in Requests : row[q] = NULL => net[q] = "unsent"
         /\ \A q \in Requests : row[q] # NULL => RowTrue(row[q], net[q])
         /\ \A m \in receipts : m.request \in Requests /\ m.event \in Event
         /\ \A m \in receipts : EventFits(m.request, m.event)
         /\ \A m \in receipts : call[m.request].step \in {"faulted", "done"}
BY TruthByRow DEF LedgerInv, TypeOK, ReceiptsFit

(* Steps of claims, leases and lanes. *)
LEMMA LaneSteps ==
  ASSUME LedgerInv, TypeOK', UNCHANGED <<row, call, receipts, net>>, claims' >= claims
  PROVE  LedgerInv'
<1>1. \A q \in Requests : CallFits(q)'
  BY FactsKept DEF CallFits, TypeOK
<1>2. ReceiptsFit' /\ WithdrawnFit' /\ LedgerTellsTruth'
  BY DEF LedgerInv, ReceiptsFit, EventFits, WithdrawnFit, LedgerTellsTruth
<1> QED BY <1>1, <1>2 DEF LedgerInv

(* A step of one call that leaves the ledger alone. *)
LEMMA SilentSteps ==
  ASSUME LedgerInv, TypeOK', UNCHANGED <<claims, row, receipts>>, NEW r \in Requests,
         \A q \in Requests \ {r} : call'[q] = call[q] /\ net'[q] = net[q],
         CallFits(r)', call[r].step \notin {"free", "done"},
         call[r].step = "faulted" => call'[r].step \in {"faulted", "done"},
         \/ net'[r] = net[r]
         \/ /\ call[r].step \notin {"faulted", "done"}
            /\ row[r].provider = "unknown" /\ row[r].outcome = "dispatch_intent"
  PROVE  LedgerInv'
<1>1. \A q \in Requests : CallFits(q)'
  BY FactsKept DEF CallFits
<1>2. row[r] # NULL /\ row[r] \in Row /\ row[r].outcome # "not_dispatched"
  BY CallFacts
<1>3. ReceiptsFit'
  <2> SUFFICES ASSUME NEW m \in receipts
               PROVE  EventFits(m.request, m.event)' /\ call'[m.request].step \in {"faulted", "done"}
    BY DEF ReceiptsFit
  <2>1. CASE m.request = r
    BY <2>1, FactsKept DEF EventFits
  <2>2. CASE m.request # r
    BY <2>2, FactsKept DEF EventFits
  <2> QED BY <2>1, <2>2
<1>5. WithdrawnFit'
  BY <1>2, FactsKept DEF WithdrawnFit
<1>4. LedgerTellsTruth'
  BY <1>2, FactsKept DEF LedgerTellsTruth, RowTrue
<1> QED BY <1>1, <1>3, <1>4, <1>5 DEF LedgerInv

(* A step of one call that accounts for it. *)
LEMMA AccountingSteps ==
  ASSUME LedgerInv, TypeOK', UNCHANGED <<claims, receipts, net>>, NEW r \in Requests,
         NEW e \in Event, Apply(r, e), EventFits(r, e), e.outcome = "not_dispatched" =>
           call[r].step = "unacked" /\ call'[r].step = "done",
         \A q \in Requests \ {r} : call'[q] = call[q],
         call'[r].claim = call[r].claim, call[r].step \notin {"free", "done"},
         call'[r].step \in {"started", "aborted", "done"},
         call[r].step = "faulted" => call'[r].step = "done",
         call'[r].step \in {"started", "aborted"} =>
           call[r].step = "admitted" /\ e = StartedEvent
  PROVE  LedgerInv'
<1>1. /\ row[r] # NULL /\ row[r] \in Row /\ row[r].outcome # "not_dispatched"
      /\ call[r].step \notin {"faulted", "done"} => \A m \in receipts : m.request # r
  BY CallFacts
<1>2. /\ \A q \in Requests \ {r} : row'[q] = row[q]
      /\ row'[r] \in Row /\ row'[r] # NULL /\ row'[r] = Accounted(row[r], e)
      /\ RowTrue(row'[r], net[r])
  BY <1>1, ApplyTrue
<1>3. row'[r].outcome = "not_dispatched" => e.outcome = "not_dispatched"
  BY <1>1, <1>2, AccountedTyped
<1>4. ASSUME call'[r].step \in {"started", "aborted"}
      PROVE  row'[r].outcome = "dispatch_intent" /\ row'[r].provider = "unknown"
  BY <1>1, <1>2, <1>4, FactsKept, AccountedTyped DEF CallFits, StartedEvent, Outcomes
<1>5. \A q \in Requests : CallFits(q)'
  <2>1. CallFits(r)'
    BY <1>1, <1>2, <1>4, FactsKept DEF CallFits
  <2> QED BY <1>2, <2>1, FactsKept DEF CallFits
<1>6. ReceiptsFit'
  <2> SUFFICES ASSUME NEW m \in receipts
               PROVE  EventFits(m.request, m.event)' /\ call'[m.request].step \in {"faulted", "done"}
    BY DEF ReceiptsFit
  <2>1. CASE m.request = r
    BY <1>1, <2>1, FactsKept DEF EventFits
  <2>2. CASE m.request # r
    BY <2>2, FactsKept DEF EventFits
  <2> QED BY <2>1, <2>2
<1>7. WithdrawnFit'
  <2>1. ASSUME NEW q \in Requests, row'[q] # NULL, row'[q].outcome = "not_dispatched"
        PROVE  /\ call'[q].step = "done"
               /\ \A m \in receipts : m.request = q => m.event.outcome = "not_dispatched"
    <3>1. CASE q = r
      BY <1>1, <1>3, <2>1, <3>1
    <3>2. CASE q # r
      BY <1>2, <2>1, <3>2, FactsKept DEF WithdrawnFit
    <3> QED BY <3>1, <3>2
  <2>2. ASSUME NEW m \in receipts, NEW n \in receipts, m.request = n.request,
               m.event.outcome = "not_dispatched"
        PROVE  n.event.outcome = "not_dispatched" /\ call'[m.request].step = "done"
    BY <1>1, <2>2, FactsKept DEF WithdrawnFit
  <2> QED BY <2>1, <2>2 DEF WithdrawnFit
<1>8. LedgerTellsTruth'
  BY <1>2, FactsKept DEF LedgerTellsTruth, RowTrue
<1> QED BY <1>5, <1>6, <1>7, <1>8 DEF LedgerInv

(* A step of one call that issues an update nobody awaits. *)
LEMMA IssuingSteps ==
  ASSUME LedgerInv, TypeOK', UNCHANGED <<claims, row, net>>, NEW r \in Requests,
         NEW e \in Event, receipts' = receipts \cup {[request |-> r, event |-> e]},
         EventFits(r, e), \A q \in Requests \ {r} : call'[q] = call[q],
         call'[r].claim = call[r].claim, call[r].step \notin {"free", "done"},
         \/ call'[r].step = "done"
         \/ call'[r].step = "faulted" /\ call[r].step = "answered",
         e.outcome = "not_dispatched" => call[r].step = "unacked" /\ call'[r].step = "done"
  PROVE  LedgerInv'
<1>1. /\ row[r] # NULL /\ row[r] \in Row /\ row[r].outcome # "not_dispatched"
      /\ call[r].step \notin {"faulted", "done"} => \A m \in receipts : m.request # r
  BY CallFacts
<1>2. \A q \in Requests : CallFits(q)'
  BY <1>1, FactsKept DEF CallFits
<1>6. \A m \in receipts' : m \in receipts \/ (m.request = r /\ m.event = e)
  <2>1. \A m \in receipts' : m \in receipts \/ m = [request |-> r, event |-> e]
    OBVIOUS
  <2> QED BY <2>1
<1>3. ReceiptsFit'
  <2> SUFFICES ASSUME NEW m \in receipts'
               PROVE  EventFits(m.request, m.event)' /\ call'[m.request].step \in {"faulted", "done"}
    BY DEF ReceiptsFit
  <2>1. CASE m \in receipts /\ m.request # r
    BY <2>1, FactsKept DEF EventFits
  <2>2. CASE m \in receipts /\ m.request = r
    BY <1>1, <2>2, FactsKept DEF EventFits
  <2>3. CASE m.request = r /\ m.event = e
    BY <2>3 DEF EventFits
  <2> QED BY <1>6, <2>1, <2>2, <2>3
<1>4. WithdrawnFit'
  <2>1. \A m \in receipts' : m \in receipts \/ (m.request = r /\ m.event = e)
    BY <1>6
  <2>2. \A q \in Requests : row[q] # NULL /\ row[q].outcome = "not_dispatched" => q # r
    BY <1>1
  <2>3. ASSUME NEW m \in receipts, m.event.outcome = "not_dispatched"
        PROVE  m.request # r
    BY <2>3, FactsKept DEF WithdrawnFit
  <2>4. \A m \in receipts : m.request \in Requests
    BY FactsKept DEF TypeOK
  <2>5. \A q \in Requests : row'[q] # NULL /\ row'[q].outcome = "not_dispatched" =>
          /\ call'[q].step = "done"
          /\ \A m \in receipts' : m.request = q => m.event.outcome = "not_dispatched"
    BY <2>1, <2>2, FactsKept DEF WithdrawnFit
  <2>6. \A m, n \in receipts' :
          m.request = n.request /\ m.event.outcome = "not_dispatched" =>
            n.event.outcome = "not_dispatched" /\ call'[m.request].step = "done"
    BY <1>1, <2>1, <2>3, <2>4, FactsKept DEF WithdrawnFit
  <2> QED BY <2>5, <2>6 DEF WithdrawnFit
<1>5. LedgerTellsTruth'
  BY DEF LedgerInv, LedgerTellsTruth
<1> QED BY <1>2, <1>3, <1>4, <1>5 DEF LedgerInv

LEMMA CrashKeeps ==
  ASSUME LedgerInv, TypeOK', NEW c \in Claims, Crash(c)
  PROVE  LedgerInv'
<1>1. \A q \in Requests : call'[q] = call[q] \/ (call'[q].step = "done" /\ call[q].claim = c
                                                 /\ call'[q].claim = c)
  BY DEF Crash
<1>2. \A q \in Requests : CallFits(q)'
  BY <1>1, FactsKept DEF Crash, CallFits, TypeOK, Claims
<1>3. ReceiptsFit'
  BY <1>1, FactsKept DEF Crash, ReceiptsFit, EventFits
<1>4. WithdrawnFit'
  BY <1>1, FactsKept DEF Crash, WithdrawnFit
<1>5. LedgerTellsTruth'
  BY DEF Crash, LedgerInv, LedgerTellsTruth
<1> QED BY <1>2, <1>3, <1>4, <1>5 DEF LedgerInv

LEMMA AdmitKeeps ==
  ASSUME LedgerInv, TypeOK', NEW c \in Claims, NEW s \in Stages, NEW r \in Requests,
         Admit(c, s, r)
  PROVE  LedgerInv'
<1>1. /\ row[r] = NULL /\ net[r] = "unsent" /\ call[r].step = "free"
      /\ \A m \in receipts : m.request # r
  BY FactsKept DEF Admit, CallFits
<1>2. /\ row'[r] \in Row /\ row'[r] # NULL
      /\ row'[r].outcome = "dispatch_intent" /\ row'[r].provider = "unknown"
      /\ \A q \in Requests \ {r} : row'[q] = row[q] /\ call'[q] = call[q]
  BY FactsKept DEF Admit, TypeOK, Row, Outcome, ProviderOutcome
<1>3. call'[r].claim = c /\ call'[r].step \in {"admitted", "unacked"} /\ c \in 1 .. claims
  BY FactsKept DEF Admit, TypeOK, Fenced, Claims
<1>4. \A q \in Requests : CallFits(q)'
  BY <1>1, <1>2, <1>3, FactsKept DEF Admit, CallFits
<1>5. ReceiptsFit'
  BY <1>1, <1>2, FactsKept DEF Admit, ReceiptsFit, EventFits
<1>6. WithdrawnFit'
  BY <1>1, <1>2, FactsKept DEF Admit, WithdrawnFit
<1>7. LedgerTellsTruth'
  BY <1>1, <1>2, FactsKept DEF Admit, LedgerTellsTruth, RowTrue
<1> QED BY <1>4, <1>5, <1>6, <1>7 DEF LedgerInv

LEMMA DeliverKeeps ==
  ASSUME LedgerInv, TypeOK', NEW m \in receipts, Deliver(m) \/ Lose(m)
  PROVE  LedgerInv'
<1>1. CASE Lose(m)
  <2>1. \A q \in Requests : CallFits(q)'
    BY <1>1, FactsKept DEF Lose, CallFits
  <2>2. ReceiptsFit' /\ WithdrawnFit' /\ LedgerTellsTruth'
    BY <1>1 DEF Lose, LedgerInv, ReceiptsFit, EventFits, WithdrawnFit, LedgerTellsTruth
  <2> QED BY <2>1, <2>2 DEF LedgerInv
<1>2. CASE Deliver(m)
  <2> DEFINE r == m.request
  <2>1. /\ r \in Requests /\ m.event \in Event /\ EventFits(r, m.event)
        /\ call[r].step \in {"faulted", "done"} /\ row[r] # NULL
        /\ row[r].outcome = "not_dispatched" => m.event.outcome = "not_dispatched"
    BY FactsKept DEF CallFits, WithdrawnFit
  <2>2. /\ \A q \in Requests \ {r} : row'[q] = row[q]
        /\ row'[r] # NULL /\ row'[r] = Accounted(row[r], m.event)
        /\ RowTrue(row'[r], net[r])
    BY <1>2, <2>1, ApplyTrue DEF Deliver
  <2>3. row'[r].outcome = "not_dispatched" => m.event.outcome = "not_dispatched"
    BY <2>1, <2>2, FactsKept, AccountedTyped DEF TypeOK
  <2>4. \A q \in Requests : CallFits(q)'
    <3>1. CallFits(r)'
      BY <1>2, <2>1, <2>2, FactsKept DEF Deliver, CallFits
    <3> QED BY <1>2, <2>2, <3>1, FactsKept DEF Deliver, CallFits
  <2>5. ReceiptsFit'
    BY <1>2, FactsKept DEF Deliver, ReceiptsFit, EventFits
  <2>6. WithdrawnFit'
    <3>1. ASSUME NEW q \in Requests, row'[q] # NULL, row'[q].outcome = "not_dispatched"
          PROVE  /\ call'[q].step = "done"
                 /\ \A n \in receipts : n.request = q => n.event.outcome = "not_dispatched"
      <4>1. CASE q = r
        BY <1>2, <2>3, <3>1, <4>1, FactsKept DEF Deliver, WithdrawnFit
      <4>2. CASE q # r
        BY <1>2, <2>2, <3>1, <4>2, FactsKept DEF Deliver, WithdrawnFit
      <4> QED BY <4>1, <4>2
    <3> QED BY <1>2, <3>1, FactsKept DEF Deliver, WithdrawnFit
  <2>7. LedgerTellsTruth'
    BY <1>2, <2>2, FactsKept DEF Deliver, LedgerTellsTruth, RowTrue
  <2> QED BY <2>4, <2>5, <2>6, <2>7 DEF LedgerInv
<1> QED BY <1>1, <1>2

LEMMA CallingKeeps ==
  ASSUME LedgerInv, TypeOK', NEW r \in Requests, Calling(r)
  PROVE  LedgerInv'
<1> USE FactsKept, EventsTyped, FailedEventValue
<1>1. CASE Announce(r)
  <2>1. PICK step \in {"started", "aborted"} : MoveCall(r, step)
    BY <1>1 DEF Announce
  <2>2. /\ call'[r].step = step /\ call'[r].claim = call[r].claim
        /\ \A q \in Requests \ {r} : call'[q] = call[q]
    BY <2>1, MoveCallEffect DEF CallStep
  <2>3. StartedEvent.outcome # "not_dispatched" /\ EventFits(r, StartedEvent)
    BY <1>1, CallFacts DEF Announce, StartedEvent, Outcomes
  <2> QED BY <1>1, <2>2, <2>3, AccountingSteps DEF Announce
<1>2. CASE Send(r) \/ AbortSend(r)
  <2>1. PICK step \in {"sent", "aborted"} :
          MoveCall(r, step) /\ (step = "aborted" => net' = net)
    BY <1>2 DEF Send, AbortSend
  <2>2. /\ call'[r].step = step /\ call'[r].claim = call[r].claim
        /\ \A q \in Requests \ {r} : call'[q] = call[q] /\ net'[q] = net[q]
    BY <1>2, <2>1, MoveCallEffect DEF CallStep, Send, AbortSend, TypeOK
  <2>3. CallFits(r)'
    BY <1>2, <2>1, <2>2 DEF Send, AbortSend, CallFits
  <2>4. call[r].step = "started" /\ row[r].provider = "unknown"
        /\ row[r].outcome = "dispatch_intent"
    BY <1>2 DEF Send, AbortSend, CallFits
  <2> QED BY <1>2, <2>2, <2>3, <2>4, SilentSteps DEF Send, AbortSend
<1>3. CASE Hear(r)
  <2>1. PICK step \in {"silent", "answered", "unusable", "refused"} :
          /\ MoveCall(r, step)
          /\ step \in {"answered", "unusable"} => net[r] = "charged"
          /\ step = "refused" => net[r] = "refused"
    BY <1>3, HearStep
  <2>2. /\ call'[r].step = step /\ call'[r].claim = call[r].claim
        /\ \A q \in Requests \ {r} : call'[q] = call[q]
    BY <2>1, MoveCallEffect DEF CallStep
  <2>3. CallFits(r)'
    BY <1>3, <2>1, <2>2 DEF Hear, CallFits
  <2> QED BY <1>3, <2>2, <2>3, SilentSteps DEF Hear
<1>4. CASE Complete(r)
  <2>1. /\ call'[r].step = "done" /\ call'[r].claim = call[r].claim
        /\ \A q \in Requests \ {r} : call'[q] = call[q]
    BY <1>4, MoveCallEffect DEF Complete, CallStep
  <2>2. CompletedEvent.outcome # "not_dispatched" /\ EventFits(r, CompletedEvent)
    BY <1>4, CallFacts DEF Complete, CompletedEvent, Outcomes
  <2> QED BY <1>4, <2>1, <2>2, AccountingSteps DEF Complete
<1>5. CASE CompleteFault(r)
  <2>1. /\ call'[r].step = "faulted" /\ call'[r].claim = call[r].claim
        /\ \A q \in Requests \ {r} : call'[q] = call[q]
    BY <1>5, MoveCallEffect DEF CompleteFault, CallStep
  <2>2. CompletedEvent.outcome # "not_dispatched" /\ EventFits(r, CompletedEvent)
    BY <1>5, CallFacts DEF CompleteFault, CompletedEvent, Outcomes
  <2> QED BY <1>5, <2>1, <2>2, IssuingSteps DEF CompleteFault
<1>6. CASE Fail(r) \/ FailFault(r)
  <2> DEFINE e == FailedEvent(call[r].step)
  <2>1. /\ call'[r].step = "done" /\ call'[r].claim = call[r].claim
        /\ \A q \in Requests \ {r} : call'[q] = call[q]
    BY <1>6, MoveCallEffect DEF Fail, FailFault, CallStep
  <2>2. call[r].step \in Failing /\ e \in Event /\ EventFits(r, e)
    BY <1>6, CallFacts DEF Fail, FailFault, Failing
  <2>3. e.outcome = "not_dispatched" => call[r].step = "unacked"
    BY <2>2 DEF Failing, Outcomes
  <2> HIDE DEF e
  <2>4. CASE Fail(r)
    BY <2>1, <2>2, <2>3, <2>4, AccountingSteps DEF Fail, Failing, e
  <2>5. CASE FailFault(r)
    BY <2>1, <2>2, <2>3, <2>5, IssuingSteps DEF FailFault, Failing, e
  <2> QED BY <1>6, <2>4, <2>5
<1>7. CASE ProviderDecides(r)
  <2>1. /\ \A q \in Requests \ {r} : net'[q] = net[q]
        /\ net[r] = "sent" /\ net'[r] # "unsent"
    BY <1>7 DEF ProviderDecides, TypeOK
  <2>2. \A q \in Requests : CallFits(q)'
    BY <1>7, <2>1 DEF ProviderDecides, CallFits
  <2>3. ReceiptsFit'
    BY <1>7, <2>1 DEF ProviderDecides, ReceiptsFit, EventFits
  <2>4. WithdrawnFit'
    BY <1>7 DEF ProviderDecides, WithdrawnFit
  <2>5. LedgerTellsTruth'
    BY <1>7, <2>1 DEF ProviderDecides, LedgerTellsTruth, RowTrue
  <2> QED BY <2>2, <2>3, <2>4, <2>5 DEF LedgerInv
<1> QED BY <1>1, <1>2, <1>3, <1>4, <1>5, <1>6, <1>7 DEF Calling

LEMMA LedgerStep == LedgerInv /\ [Next]_vars => LedgerInv'
<1> SUFFICES ASSUME LedgerInv, [Next]_vars PROVE LedgerInv'
  OBVIOUS
<1>0. TypeOK'
  BY TypedStep
<1>1. CASE Claim \/ LoseLease \/ UNCHANGED vars
  BY <1>0, <1>1, LaneSteps, FactsKept DEF Claim, LoseLease, vars, TypeOK
<1>2. ASSUME NEW c \in Claims, Crash(c) PROVE LedgerInv'
  BY <1>0, <1>2, CrashKeeps
<1>3. ASSUME NEW c \in Claims, NEW s \in Stages, Load(c, s) \/ GiveUp(c, s) \/ Commit(c, s)
      PROVE LedgerInv'
  BY <1>0, <1>3, LaneSteps, FactsKept DEF Load, GiveUp, Commit, TypeOK
<1>4. ASSUME NEW c \in Claims, NEW s \in Stages, NEW r \in Requests, Admit(c, s, r)
      PROVE LedgerInv'
  BY <1>0, <1>4, AdmitKeeps
<1>5. ASSUME NEW r \in Requests, Calling(r) PROVE LedgerInv'
  BY <1>0, <1>5, CallingKeeps
<1>6. ASSUME NEW m \in receipts, Deliver(m) \/ Lose(m) PROVE LedgerInv'
  BY <1>0, <1>6, DeliverKeeps
<1> QED BY <1>1, <1>2, <1>3, <1>4, <1>5, <1>6 DEF Next

LEMMA LedgerAlways == Spec => []LedgerInv
BY LedgerInit, LedgerStep, PTL DEF Spec

(* The rows, the processes and the network keep their types. *)
THEOREM LedgerTypeCorrect == Spec => []TypeOK
<1>1. LedgerInv => TypeOK
  BY DEF LedgerInv
<1> QED BY <1>1, LedgerAlways, PTL

(* The ledger tells the truth about every request, for any number of requests,
   claims and stages and whatever order receipts arrive in. *)
THEOREM LedgerIsTrue == Spec => []LedgerTellsTruth
<1>1. LedgerInv => LedgerTellsTruth
  BY DEF LedgerInv
<1> QED BY <1>1, LedgerAlways, PTL

-----------------------------------------------------------------------------
(* What a step may do to a row. *)

AppliedTo(q) ==
  /\ row[q] # NULL
  /\ \E e \in Event :
       /\ row'[q] = Accounted(row[q], e)
       /\ EventFits(q, e)
       /\ row[q].outcome = "not_dispatched" => e.outcome = "not_dispatched"

RowStep(q) ==
  \/ row'[q] = row[q]
  \/ \E c \in Claims, s \in Stages : Admit(c, s, q)
  \/ AppliedTo(q)

LEMMA ApplySteps ==
  ASSUME LedgerInv, NEW r \in Requests, NEW e \in Event, Apply(r, e), EventFits(r, e),
         row[r] # NULL, row[r].outcome = "not_dispatched" => e.outcome = "not_dispatched"
  PROVE  \A q \in Requests : RowStep(q)
BY ApplyTrue DEF RowStep, AppliedTo

LEMMA RowSteps ==
  ASSUME LedgerInv, [Next]_vars
  PROVE  \A q \in Requests : RowStep(q)
<1>1. CASE UNCHANGED row
  BY <1>1 DEF RowStep
<1>2. ASSUME NEW c \in Claims, NEW s \in Stages, NEW r \in Requests, Admit(c, s, r)
      PROVE  \A q \in Requests : RowStep(q)
  <2>1. \A q \in Requests \ {r} : row'[q] = row[q]
    BY <1>2, FactsKept DEF Admit, TypeOK
  <2> QED BY <1>2, <2>1 DEF RowStep
<1>3. ASSUME NEW r \in Requests, Announce(r) PROVE \A q \in Requests : RowStep(q)
  BY <1>3, CallFacts, EventsTyped, ApplySteps DEF Announce
<1>4. ASSUME NEW r \in Requests, Complete(r) PROVE \A q \in Requests : RowStep(q)
  BY <1>4, CallFacts, EventsTyped, ApplySteps DEF Complete
<1>5. ASSUME NEW r \in Requests, Fail(r) PROVE \A q \in Requests : RowStep(q)
  <2>1. call[r].step \in Failing /\ Apply(r, FailedEvent(call[r].step))
    BY <1>5 DEF Fail
  <2>2. call[r].step # "free" /\ call[r].step # "done"
    BY <2>1 DEF Failing
  <2> QED BY <2>1, <2>2, CallFacts, EventsTyped, ApplySteps
<1>6. ASSUME NEW m \in receipts, Deliver(m) PROVE \A q \in Requests : RowStep(q)
  <2>1. /\ m.request \in Requests /\ m.event \in Event /\ EventFits(m.request, m.event)
        /\ row[m.request] # NULL
        /\ row[m.request].outcome = "not_dispatched" => m.event.outcome = "not_dispatched"
    BY FactsKept DEF CallFits, WithdrawnFit
  <2> QED BY <1>6, <2>1, ApplySteps DEF Deliver
<1> QED BY <1>1, <1>2, <1>3, <1>4, <1>5, <1>6
        DEF Next, vars, Claim, LoseLease, Crash, Load, GiveUp, Commit, Calling, Send, AbortSend,
            ProviderDecides, Hear, CompleteFault, FailFault, Lose

(* A row that is only accounted for keeps its stage, and becomes neither consumed
   nor uncertain again. *)
LEMMA AppliedFacts ==
  ASSUME LedgerInv, NEW q \in Requests, AppliedTo(q)
  PROVE  /\ row'[q] \in Row /\ row'[q] # NULL /\ row'[q].stage = row[q].stage
         /\ row[q].outcome = "not_dispatched" => row'[q].outcome = "not_dispatched"
         /\ row[q].provider # "unknown" => row'[q].provider # "unknown"
         /\ row[q].outcome = "completed" => row'[q] = row[q]
<1>1. PICK e \in Event :
        /\ row'[q] = Accounted(row[q], e)
        /\ EventFits(q, e)
        /\ row[q].outcome = "not_dispatched" => e.outcome = "not_dispatched"
  BY DEF AppliedTo
<1>2. row[q] \in Row /\ RowTrue(row[q], net[q])
  BY FactsKept DEF AppliedTo, TypeOK
<1>3. /\ Accounted(row[q], e) \in Row
      /\ Accounted(row[q], e).stage = row[q].stage
  BY <1>2, AccountedTyped
<1>4. row[q].provider # "unknown" => row'[q].provider # "unknown"
  BY <1>1, <1>2, AccountedTyped
<1>5. row[q].outcome = "not_dispatched" => row'[q].outcome = "not_dispatched"
  BY <1>1, <1>2, AccountedTyped
<1>6. ASSUME row[q].outcome = "completed" PROVE row'[q] = row[q]
  <2>1. row[q].provider = "received"
    BY <1>2, <1>6 DEF RowTrue
  <2>2. row'[q].outcome = "completed"
    BY <1>1, <1>2, <1>6, AccountedTyped
  <2>3. row'[q].provider = "received"
    <3>1. CASE e.outcome = "completed"
      BY <1>1, <1>2, <1>6, <3>1, AccountedTyped DEF EventFits
    <3>2. CASE e.outcome # "completed"
      BY <1>1, <1>2, <1>6, <2>1, <3>2, AccountedTyped
    <3> QED BY <3>1, <3>2
  <2> QED BY <1>1, <1>2, <1>3, <1>6, <2>1, <2>2, <2>3 DEF Row
<1> QED BY <1>1, <1>3, <1>4, <1>5, <1>6, LedgerNullAssumption

(* What a receipt settled stays settled (recordResearchAttemptReceipt), for any
   instance. *)
THEOREM SettledReceiptsAlwaysStay == Spec => SettledReceiptsStay
<1>1. ASSUME LedgerInv, [Next]_vars, NEW r \in Requests, row[r] # NULL
      PROVE  /\ row[r].outcome = "completed" => row'[r] = row[r]
             /\ row[r].provider # "unknown" => row'[r].provider # "unknown"
  <2>1. RowStep(r)
    BY <1>1, RowSteps
  <2>2. CASE \E c \in Claims, s \in Stages : Admit(c, s, r)
    BY <1>1, <2>2 DEF Admit
  <2> QED BY <1>1, <2>1, <2>2, AppliedFacts DEF RowStep
<1>2. LedgerInv /\ [Next]_vars =>
        [\A r \in Requests : row[r] # NULL =>
           /\ row[r].outcome = "completed" => row'[r] = row[r]
           /\ row[r].provider # "unknown" => row'[r].provider # "unknown"]_vars
  BY <1>1
<1> QED BY <1>2, LedgerAlways, PTL DEF Spec, SettledReceiptsStay

-----------------------------------------------------------------------------
(* An uncertain charge is never repeated. *)

OneUnknown ==
  \A q, r \in Unknown : row[q].stage = row[r].stage => q = r

LEMMA OneUnknownStep == LedgerInv /\ OneUnknown /\ [Next]_vars => OneUnknown'
<1> SUFFICES ASSUME LedgerInv, OneUnknown, [Next]_vars PROVE OneUnknown'
  OBVIOUS
<1>0. \A q \in Requests : RowStep(q)
  BY RowSteps
<1>1. ASSUME NEW c \in Claims, NEW s \in Stages, NEW r \in Requests, Admit(c, s, r)
      PROVE  OneUnknown'
  <2>1. /\ \A q \in Requests \ {r} : row'[q] = row[q]
        /\ row'[r].stage = s
        /\ \A q \in Unknown : row[q].stage # s
    BY <1>1, FactsKept DEF Admit, TypeOK, Admissible, InStage
  <2> QED BY <2>1 DEF OneUnknown, Unknown, Consumed
<1>2. CASE \A q \in Requests : row'[q] = row[q] \/ AppliedTo(q)
  <2>1. \A q \in Unknown' : q \in Unknown /\ row'[q].stage = row[q].stage
    BY <1>2, AppliedFacts DEF Unknown, Consumed, AppliedTo
  <2> QED BY <2>1 DEF OneUnknown
<1> QED BY <1>0, <1>1, <1>2 DEF RowStep

LEMMA OneUnknownAlways == Spec => []OneUnknown
<1>1. Init => OneUnknown
  BY DEF Init, OneUnknown, Unknown, Consumed
<1> QED BY <1>1, OneUnknownStep, LedgerAlways, PTL DEF Spec

LEMMA SendOnly ==
  ASSUME LedgerInv, [Next]_vars, NEW r \in Requests, net[r] = "unsent", net'[r] = "sent"
  PROVE  Send(r)
<1>1. ASSUME NEW q \in Requests, Send(q), q # r PROVE FALSE
  BY <1>1, FactsKept DEF Send, TypeOK
<1>2. ASSUME NEW q \in Requests, ProviderDecides(q) PROVE FALSE
  BY <1>2, FactsKept DEF ProviderDecides, TypeOK
<1>3. net' # net
  OBVIOUS
<1> QED BY <1>1, <1>2, <1>3
        DEF Next, vars, Claim, LoseLease, Crash, Load, GiveUp, Commit, Admit, Calling, Announce,
            AbortSend, Hear, Complete, CompleteFault, Fail, FailFault, Deliver, Lose

(* No process of any claim sends a stage's next request while the fate of an
   earlier one is unknown (reserveResearchAttempt). *)
THEOREM NeverBlindReplay == Spec => NoBlindReplay
<1>1. ASSUME LedgerInv, OneUnknown, [Next]_vars, NEW q \in Requests, NEW r \in Requests,
             net[r] = "unsent", net'[r] = "sent",
             q # r, net[q] # "unsent", row[q].stage = row[r].stage
      PROVE  row[q].provider # "unknown"
  <2>1. call[r].step = "started"
    BY <1>1, SendOnly DEF Send
  <2>2. r \in Unknown
    BY <1>1, <2>1, FactsKept DEF CallFits, Unknown, Consumed
  <2>3. row[q] # NULL /\ row[q].outcome # "not_dispatched"
    BY <1>1, FactsKept DEF RowTrue
  <2> QED BY <1>1, <2>2, <2>3 DEF OneUnknown, Unknown, Consumed
<1>2. LedgerInv /\ OneUnknown /\ [Next]_vars =>
        [\A q, r \in Requests :
           /\ net[r] = "unsent" /\ net'[r] = "sent"
           /\ q # r /\ net[q] # "unsent" /\ row[q].stage = row[r].stage
           => row[q].provider # "unknown"]_vars
  BY <1>1
<1> QED BY <1>2, LedgerAlways, OneUnknownAlways, PTL DEF Spec, NoBlindReplay

-----------------------------------------------------------------------------
(* A retained stage is never admitted again. *)

Running(r) == call[r].step \notin {"free", "done"}

LanesInv ==
  /\ \A c \in Claims : c > claims => \A s \in Stages : lane[c][s] = "asleep"
  /\ \A c \in Claims, s \in Stages :
       Fenced(c) /\ lane[c][s] \in {"ready", "calling", "executed"} => s \notin saved
  /\ \A r \in Requests : Running(r) => lane[call[r].claim][row[r].stage] = "calling"
  /\ \A q, r \in Requests :
       Running(q) /\ Running(r) /\ call[q].claim = call[r].claim /\ row[q].stage = row[r].stage
         => q = r

LEMMA LanesInit == Init => LanesInv
BY DEF Init, LanesInv, Running, Fenced, Claims

(* The stage of a row never changes. *)
LEMMA StageKept ==
  ASSUME LedgerInv, [Next]_vars, NEW q \in Requests, row[q] # NULL
  PROVE  row'[q] # NULL /\ row'[q].stage = row[q].stage
<1>1. RowStep(q)
  BY RowSteps
<1> QED BY <1>1, AppliedFacts DEF RowStep, Admit

(* Steps that leave every lane where it is, and start no call. *)
LEMMA LanesUntouched ==
  ASSUME LedgerInv, LanesInv, [Next]_vars, UNCHANGED <<claims, leased, saved, lane>>,
         \A q \in Requests : Running(q)' => Running(q) /\ call'[q].claim = call[q].claim
  PROVE  LanesInv'
<1>1. \A q \in Requests : Running(q)' =>
        /\ Running(q) /\ call'[q].claim = call[q].claim
        /\ row'[q].stage = row[q].stage
  BY StageKept, FactsKept DEF Running, CallFits
<1> QED BY <1>1 DEF LanesInv, Fenced

(* Steps that end call r and leave its lane in a step of its process. *)
LEMMA LaneAfterCall ==
  ASSUME LedgerInv, LanesInv, [Next]_vars, UNCHANGED <<claims, leased, saved>>,
         NEW r \in Requests, Running(r), ~Running(r)',
         \A q \in Requests \ {r} : call'[q] = call[q],
         NEW step \in LaneStep, MoveLane(call[r].claim, row[r].stage, step),
         step \in {"ready", "executed", "done"}
  PROVE  LanesInv'
<1> DEFINE c == call[r].claim
           s == row[r].stage
<1>1. c \in Claims /\ c <= claims /\ s \in Stages
  BY CallFacts DEF Running
<1>2. /\ lane'[c][s] = step
      /\ \A d \in Claims, t \in Stages : d # c \/ t # s => lane'[d][t] = lane[d][t]
  BY <1>1, MoveLaneEffect, FactsKept
<1>3. \A q \in Requests : Running(q)' =>
        /\ q # r /\ Running(q) /\ call'[q].claim = call[q].claim
        /\ row'[q].stage = row[q].stage /\ call[q].claim \in Claims /\ row[q].stage \in Stages
  <2> SUFFICES ASSUME NEW q \in Requests, Running(q)'
               PROVE  /\ q # r /\ Running(q) /\ call'[q].claim = call[q].claim
                      /\ row'[q].stage = row[q].stage
                      /\ call[q].claim \in Claims /\ row[q].stage \in Stages
    OBVIOUS
  <2>1. q # r /\ Running(q) /\ call'[q].claim = call[q].claim
    BY DEF Running
  <2> QED BY <2>1, StageKept, CallFacts DEF Running
<1>4. lane[c][s] = "calling"
  BY DEF LanesInv
<1>5. \A d \in Claims : d > claims => \A t \in Stages : lane'[d][t] = "asleep"
  BY <1>1, <1>2, FactsKept DEF LanesInv, Claims, TypeOK
<1>6. \A d \in Claims, t \in Stages :
        Fenced(d) /\ lane'[d][t] \in {"ready", "calling", "executed"} => t \notin saved
  BY <1>1, <1>2, <1>4 DEF LanesInv
<1>7. \A q \in Requests : Running(q)' => lane'[call'[q].claim][row'[q].stage] = "calling"
  BY <1>2, <1>3 DEF LanesInv
<1>8. \A p, q \in Requests :
        /\ Running(p)' /\ Running(q)'
        /\ call'[p].claim = call'[q].claim /\ row'[p].stage = row'[q].stage
        => p = q
  BY <1>3 DEF LanesInv
<1> QED BY <1>5, <1>6, <1>7, <1>8 DEF LanesInv, Fenced

(* Steps of a lane without a call. *)
LEMMA LaneAlone ==
  ASSUME LedgerInv, LanesInv, UNCHANGED <<claims, leased, row, call>>,
         NEW c \in Claims, NEW s \in Stages, NEW step \in {"ready", "done"},
         MoveLane(c, s, step), lane[c][s] # "calling", c <= claims,
         step = "ready" => s \notin saved /\ saved' = saved,
         \/ saved' = saved
         \/ saved' = saved \cup {s} /\ Fenced(c)
  PROVE  LanesInv'
<1>1. /\ lane'[c][s] = step
      /\ \A d \in Claims, t \in Stages : d # c \/ t # s => lane'[d][t] = lane[d][t]
  BY MoveLaneEffect, FactsKept DEF LaneStep
<1>2. \A q \in Requests : Running(q) => call[q].claim \in Claims /\ row[q].stage \in Stages
  BY CallFacts DEF Running
<1>3. \A d \in Claims : d > claims => \A t \in Stages : lane'[d][t] = "asleep"
  BY <1>1, FactsKept DEF LanesInv, Claims, TypeOK
<1>4. \A d \in Claims, t \in Stages :
        Fenced(d) /\ lane'[d][t] \in {"ready", "calling", "executed"} => t \notin saved'
  BY <1>1 DEF LanesInv, Fenced
<1>5. \A q \in Requests : Running(q) => lane'[call[q].claim][row[q].stage] = "calling"
  BY <1>1, <1>2 DEF LanesInv
<1> QED BY <1>3, <1>4, <1>5 DEF LanesInv, Fenced, Running

LEMMA LanesStep == LedgerInv /\ LanesInv /\ [Next]_vars => LanesInv'
<1> SUFFICES ASSUME LedgerInv, LanesInv, [Next]_vars PROVE LanesInv'
  OBVIOUS
<1> USE FactsKept
<1>1. CASE Claim
  <2>1. \A c \in Claims : Fenced(c)' => \A s \in Stages : lane[c][s] = "asleep"
    BY <1>1 DEF Claim, Fenced, LanesInv, TypeOK, Claims
  <2>2. \A c \in Claims : c > claims' => \A s \in Stages : lane[c][s] = "asleep"
    BY <1>1 DEF Claim, LanesInv, TypeOK, Claims
  <2> QED BY <1>1, <2>1, <2>2 DEF Claim, LanesInv, Running
<1>2. CASE LoseLease
  BY <1>2 DEF LoseLease, LanesInv, Running, Fenced
<1>3. ASSUME NEW c \in Claims, Crash(c) PROVE LanesInv'
  <2>1. \A d \in Claims, s \in Stages :
          IF d = c THEN lane'[d][s] = "done" ELSE lane'[d][s] = lane[d][s]
    BY <1>3 DEF Crash, TypeOK
  <2>2. \A q \in Requests : Running(q)' =>
          /\ Running(q) /\ call'[q] = call[q] /\ call[q].claim # c
          /\ call[q].claim \in Claims /\ row[q].stage \in Stages
    BY <1>3, CallFacts DEF Crash, Running
  <2>3. \A d \in Claims : d > claims => \A s \in Stages : lane'[d][s] = "asleep"
    BY <1>3, <2>1 DEF Crash, LanesInv, TypeOK, Claims
  <2>4. \A d \in Claims, s \in Stages :
          Fenced(d) /\ lane'[d][s] \in {"ready", "calling", "executed"} => s \notin saved
    BY <2>1 DEF LanesInv
  <2>5. \A q \in Requests : Running(q)' => lane'[call'[q].claim][row[q].stage] = "calling"
    BY <2>1, <2>2 DEF LanesInv
  <2>6. \A p, q \in Requests :
          Running(p)' /\ Running(q)' /\ call'[p].claim = call'[q].claim
            /\ row[p].stage = row[q].stage => p = q
    BY <2>2 DEF LanesInv
  <2> QED BY <1>3, <2>3, <2>4, <2>5, <2>6 DEF Crash, LanesInv, Fenced
<1>4. ASSUME NEW c \in Claims, NEW s \in Stages, Load(c, s) \/ GiveUp(c, s) \/ Commit(c, s)
      PROVE LanesInv'
  <2>1. lane[c][s] # "asleep" => c <= claims
    BY DEF LanesInv, Claims, TypeOK
  <2>2. CASE Load(c, s)
    BY <1>4, <2>2, LaneAlone DEF Load
  <2>3. CASE GiveUp(c, s)
    BY <2>1, <2>3, LaneAlone DEF GiveUp
  <2>4. CASE Commit(c, s)
    BY <2>1, <2>4, LaneAlone DEF Commit
  <2> QED BY <1>4, <2>2, <2>3, <2>4
<1>5. ASSUME NEW c \in Claims, NEW s \in Stages, NEW r \in Requests, Admit(c, s, r)
      PROVE LanesInv'
  <2>1. /\ lane'[c][s] = "calling"
        /\ \A d \in Claims, t \in Stages : d # c \/ t # s => lane'[d][t] = lane[d][t]
    BY <1>5, MoveLaneEffect DEF Admit, LaneStep
  <2>2. /\ call'[r].claim = c /\ row'[r].stage = s
        /\ \A q \in Requests \ {r} : call'[q] = call[q] /\ row'[q] = row[q]
    BY <1>5 DEF Admit, TypeOK
  <2>3. \A q \in Requests \ {r} : Running(q)' =>
          /\ Running(q) /\ call[q].claim \in Claims /\ row[q].stage \in Stages
          /\ call[q].claim # c \/ row[q].stage # s
    <3>1. \A q \in Requests \ {r} : Running(q)' =>
            Running(q) /\ call[q].claim \in Claims /\ row[q].stage \in Stages
      BY <2>2, CallFacts DEF Running
    <3> QED BY <1>5, <3>1 DEF LanesInv, Admit
  <2>4. \A d \in Claims : d > claims => \A t \in Stages : lane'[d][t] = "asleep"
    BY <1>5, <2>1 DEF Admit, Fenced, LanesInv, TypeOK, Claims
  <2>5. \A d \in Claims, t \in Stages :
          Fenced(d) /\ lane'[d][t] \in {"ready", "calling", "executed"} => t \notin saved
    BY <1>5, <2>1 DEF Admit, LanesInv
  <2>6. \A q \in Requests : Running(q)' => lane'[call'[q].claim][row'[q].stage] = "calling"
    BY <2>1, <2>2, <2>3 DEF LanesInv
  <2>7. \A p, q \in Requests :
          Running(p)' /\ Running(q)' /\ call'[p].claim = call'[q].claim
            /\ row'[p].stage = row'[q].stage => p = q
    BY <2>2, <2>3 DEF LanesInv
  <2> QED BY <1>5, <2>4, <2>5, <2>6, <2>7 DEF Admit, LanesInv, Fenced
<1>6. ASSUME NEW r \in Requests,
             Announce(r) \/ Send(r) \/ AbortSend(r) \/ Hear(r) \/ CompleteFault(r)
      PROVE LanesInv'
  <2>1. Running(r) /\ \E step \in CallStep : MoveCall(r, step)
    BY <1>6, HearStep DEF Announce, Send, AbortSend, CompleteFault, Hear, Running, CallStep
  <2>2. \A q \in Requests : Running(q)' => Running(q) /\ call'[q].claim = call[q].claim
    BY <2>1, MoveCallEffect DEF Running
  <2> QED BY <1>6, <2>2, LanesUntouched DEF Announce, Send, AbortSend, Hear, CompleteFault
<1>7. ASSUME NEW r \in Requests, Complete(r) \/ Fail(r) \/ FailFault(r) PROVE LanesInv'
  <2>1. MoveCall(r, "done") /\ Running(r)
    BY <1>7 DEF Complete, Fail, FailFault, Running, Failing
  <2>2. ~Running(r)' /\ \A q \in Requests \ {r} : call'[q] = call[q]
    BY <2>1, MoveCallEffect DEF Running, CallStep
  <2>3. PICK step \in {"ready", "executed", "done"} :
          MoveLane(call[r].claim, row[r].stage, step)
    BY <1>7 DEF Complete, Fail, FailFault
  <2> QED BY <1>7, <2>1, <2>2, <2>3, LaneAfterCall DEF LaneStep, Complete, Fail, FailFault
<1>8. ASSUME NEW r \in Requests, ProviderDecides(r) PROVE LanesInv'
  BY <1>8, LanesUntouched DEF ProviderDecides, Running
<1>9. ASSUME NEW m \in receipts, Deliver(m) \/ Lose(m) PROVE LanesInv'
  BY <1>9, LanesUntouched DEF Deliver, Lose, Running
<1>10. CASE UNCHANGED vars
  BY <1>10 DEF vars, LanesInv, Running, Fenced
<1> QED BY <1>1, <1>2, <1>3, <1>4, <1>5, <1>6, <1>7, <1>8, <1>9, <1>10 DEF Next, Calling

LEMMA LanesAlways == Spec => []LanesInv
BY LanesInit, LanesStep, LedgerAlways, PTL DEF Spec

(* A stage with a retained result is never admitted again, by a later claim or by
   the process of an earlier one (loadResearchStage, commitResearchStage). *)
THEOREM SavedStagesAreNotRepaid == Spec => SavedStageIsNotRepaid
<1>1. ASSUME LedgerInv, LanesInv, [Next]_vars, NEW r \in Requests,
             row[r] = NULL, row'[r] # NULL
      PROVE  row'[r].stage \notin saved
  <2>1. PICK c \in Claims, s \in Stages : Admit(c, s, r)
    BY <1>1, RowSteps DEF RowStep, AppliedTo
  <2>2. row'[r].stage = s
    BY <1>1, <2>1, FactsKept DEF Admit, TypeOK
  <2>3. Fenced(c) /\ lane[c][s] = "ready"
    BY <2>1 DEF Admit
  <2> QED BY <1>1, <2>2, <2>3 DEF LanesInv
<1>2. LedgerInv /\ LanesInv /\ [Next]_vars =>
        [\A r \in Requests : row[r] = NULL /\ row'[r] # NULL => row'[r].stage \notin saved]_vars
  BY <1>1
<1> QED BY <1>2, LedgerAlways, LanesAlways, PTL DEF Spec, SavedStageIsNotRepaid

-----------------------------------------------------------------------------
(* The allowances. *)

AllowanceInv ==
  /\ Cardinality(Consumed) <= MaxCalls
  /\ StageLimit > 1 => Cardinality(OutsideSynthesis(Consumed)) < MaxCalls
  /\ \A s \in Stages : Cardinality(InStage(Consumed, s)) <= StageLimit

LEMMA ConsumedFinite ==
  /\ IsFiniteSet(Consumed) /\ Cardinality(Consumed) \in Nat
  /\ IsFiniteSet(OutsideSynthesis(Consumed))
  /\ Cardinality(OutsideSynthesis(Consumed)) \in Nat
  /\ \A s \in Stages :
       IsFiniteSet(InStage(Consumed, s)) /\ Cardinality(InStage(Consumed, s)) \in Nat
<1>1. /\ Consumed \subseteq Requests /\ OutsideSynthesis(Consumed) \subseteq Requests
      /\ \A s \in Stages : InStage(Consumed, s) \subseteq Requests
  BY DEF Consumed, OutsideSynthesis, InStage
<1>2. \A R \in SUBSET Requests : IsFiniteSet(R) /\ Cardinality(R) \in Nat
  BY FS_Subset, FS_CardinalityType DEF LedgerAssumption
<1> QED BY <1>1, <1>2

(* A finite set that loses elements, or gains at most one. *)
LEMMA Shrinks ==
  ASSUME NEW A, NEW B, IsFiniteSet(A), B \subseteq A
  PROVE  Cardinality(B) <= Cardinality(A) /\ Cardinality(B) \in Nat /\ Cardinality(A) \in Nat
BY FS_Subset, FS_CardinalityType

LEMMA GrowsByOne ==
  ASSUME NEW A, NEW B, NEW x, IsFiniteSet(A), B \subseteq A \cup {x}
  PROVE  /\ Cardinality(B) <= Cardinality(A) + 1
         /\ Cardinality(B) \in Nat /\ Cardinality(A) \in Nat
<1>1. /\ IsFiniteSet(A \cup {x}) /\ Cardinality(A \cup {x}) <= Cardinality(A) + 1
      /\ Cardinality(A) \in Nat /\ Cardinality(A \cup {x}) \in Nat
  BY FS_AddElement, FS_CardinalityType
<1>2. Cardinality(B) <= Cardinality(A \cup {x}) /\ Cardinality(B) \in Nat
  BY <1>1, Shrinks
<1> QED BY <1>1, <1>2

LEMMA RoomForOne ==
  ASSUME NEW A, NEW B, NEW x, IsFiniteSet(A), B \cup {x} \subseteq A, x \notin B
  PROVE  Cardinality(B) + 1 <= Cardinality(A)
<1>1. IsFiniteSet(B)
  BY FS_Subset
<1>2. Cardinality(B \cup {x}) = Cardinality(B) + 1
  BY <1>1, FS_AddElement
<1> QED BY <1>2, Shrinks

LEMMA AllowanceStep == LedgerInv /\ AllowanceInv /\ [Next]_vars => AllowanceInv'
<1> SUFFICES ASSUME LedgerInv, AllowanceInv, [Next]_vars PROVE AllowanceInv'
  OBVIOUS
<1>0. \A q \in Requests : RowStep(q)
  BY RowSteps
<1>1. ASSUME NEW c \in Claims, NEW s \in Stages, NEW r \in Requests, Admit(c, s, r)
      PROVE  AllowanceInv'
  <2>1. /\ \A q \in Requests \ {r} : row'[q] = row[q]
        /\ row'[r].stage = s /\ row[r] = NULL
    BY <1>1, FactsKept DEF Admit, TypeOK
  <2>2. /\ Consumed' \subseteq Consumed \cup {r}
        /\ OutsideSynthesis(Consumed)' \subseteq OutsideSynthesis(Consumed) \cup {r}
        /\ InStage(Consumed, s)' \subseteq InStage(Consumed, s) \cup {r}
    BY <2>1 DEF Consumed, OutsideSynthesis, InStage
  <2>3. s \in Synthesis => OutsideSynthesis(Consumed)' \subseteq OutsideSynthesis(Consumed)
    BY <2>1 DEF Consumed, OutsideSynthesis
  <2>4. \A t \in Stages \ {s} : InStage(Consumed, t)' \subseteq InStage(Consumed, t)
    BY <2>1 DEF Consumed, InStage
  <2>5. OutsideSynthesis(Consumed) \subseteq Consumed
    BY DEF OutsideSynthesis
  <2>6. Admissible(s)
    BY <1>1 DEF Admit
  <2>7. Cardinality(Consumed') <= MaxCalls
    <3>1. /\ Cardinality(Consumed') <= Cardinality(Consumed) + 1
          /\ Cardinality(Consumed') \in Nat
      BY <2>2, ConsumedFinite, GrowsByOne
    <3>2. Cardinality(Consumed) < MaxCalls
      <4>1. Reserve(s) \in {0, 1}
        BY DEF Reserve
      <4>2. Cardinality(Consumed) < MaxCalls - Reserve(s)
        BY <2>6 DEF Admissible
      <4> QED BY <4>1, <4>2, ConsumedFinite DEF LedgerAssumption
    <3> QED BY <3>1, <3>2, ConsumedFinite DEF LedgerAssumption
  <2>8. ASSUME StageLimit > 1 PROVE Cardinality(OutsideSynthesis(Consumed)') < MaxCalls
    <3>1. CASE s \in Synthesis
      BY <2>3, <2>8, <3>1, ConsumedFinite, Shrinks DEF AllowanceInv, LedgerAssumption
    <3>2. CASE s \notin Synthesis
      <4>1. Cardinality(OutsideSynthesis(Consumed)') <= Cardinality(OutsideSynthesis(Consumed)) + 1
        BY <2>2, ConsumedFinite, GrowsByOne
      <4>2. Cardinality(OutsideSynthesis(Consumed)) <= Cardinality(Consumed)
        BY <2>5, ConsumedFinite, Shrinks
      <4>3. Cardinality(Consumed) < MaxCalls - 1
        BY <2>6, <2>8, <3>2 DEF Admissible, Reserve
      <4>4. Cardinality(OutsideSynthesis(Consumed)') \in Nat
        BY <2>2, ConsumedFinite, GrowsByOne
      <4> QED BY <4>1, <4>2, <4>3, <4>4, ConsumedFinite DEF LedgerAssumption
    <3> QED BY <3>1, <3>2
  <2>9. \A t \in Stages : Cardinality(InStage(Consumed, t)') <= StageLimit
    <3>1. Cardinality(InStage(Consumed, s)') <= StageLimit
      <4>1. Cardinality(InStage(Consumed, s)) < StageLimit
        BY <2>6 DEF Admissible
      <4>2. /\ Cardinality(InStage(Consumed, s)') <= Cardinality(InStage(Consumed, s)) + 1
            /\ Cardinality(InStage(Consumed, s)') \in Nat
        BY <2>2, ConsumedFinite, GrowsByOne
      <4> QED BY <4>1, <4>2, ConsumedFinite DEF LedgerAssumption
    <3>2. ASSUME NEW t \in Stages \ {s} PROVE Cardinality(InStage(Consumed, t)') <= StageLimit
      BY <2>4, ConsumedFinite, Shrinks DEF AllowanceInv, LedgerAssumption
    <3> QED BY <3>1, <3>2
  <2> QED BY <2>7, <2>8, <2>9 DEF AllowanceInv
<1>2. CASE \A q \in Requests : row'[q] = row[q] \/ AppliedTo(q)
  <2>1. \A q \in Requests : row'[q] # NULL /\ row'[q].outcome # "not_dispatched" =>
          /\ row[q] # NULL /\ row[q].outcome # "not_dispatched"
          /\ row'[q].stage = row[q].stage
    BY <1>2, AppliedFacts DEF AppliedTo
  <2>2. /\ Consumed' \subseteq Consumed
        /\ OutsideSynthesis(Consumed)' \subseteq OutsideSynthesis(Consumed)
        /\ \A t \in Stages : InStage(Consumed, t)' \subseteq InStage(Consumed, t)
    BY <2>1 DEF Consumed, OutsideSynthesis, InStage
  <2>3. Cardinality(Consumed') <= MaxCalls
    BY <2>2, ConsumedFinite, Shrinks DEF AllowanceInv, LedgerAssumption
  <2>4. ASSUME StageLimit > 1 PROVE Cardinality(OutsideSynthesis(Consumed)') < MaxCalls
    BY <2>2, <2>4, ConsumedFinite, Shrinks DEF AllowanceInv, LedgerAssumption
  <2>5. ASSUME NEW t \in Stages PROVE Cardinality(InStage(Consumed, t)') <= StageLimit
    BY <2>2, ConsumedFinite, Shrinks DEF AllowanceInv, LedgerAssumption
  <2> QED BY <2>3, <2>4, <2>5 DEF AllowanceInv
<1> QED BY <1>0, <1>1, <1>2 DEF RowStep

LEMMA AllowanceInit == Init => AllowanceInv
<1> SUFFICES ASSUME Init PROVE AllowanceInv
  OBVIOUS
<1>1. /\ Consumed = {} /\ OutsideSynthesis(Consumed) = {}
      /\ \A s \in Stages : InStage(Consumed, s) = {}
  BY DEF Init, Consumed, OutsideSynthesis, InStage
<1> QED BY <1>1, FS_EmptySet DEF AllowanceInv, LedgerAssumption

(* However often an execution is claimed, what is really sent stays within the
   approved round and stage allowances, and leaves the synthesis its call. *)
THEOREM AllowanceAlwaysKept == Spec => []AllowanceKept
<1>1. ASSUME LedgerInv, AllowanceInv PROVE AllowanceKept
  <2>1. \A r \in Sent : row[r] # NULL /\ row[r].outcome # "not_dispatched"
    BY <1>1, FactsKept DEF Sent, RowTrue
  <2>2. /\ Sent \subseteq Consumed
        /\ OutsideSynthesis(Sent) \subseteq OutsideSynthesis(Consumed)
        /\ \A s \in Stages : InStage(Sent, s) \subseteq InStage(Consumed, s)
    BY <2>1 DEF Sent, Consumed, OutsideSynthesis, InStage
  <2>3. Cardinality(Sent) <= MaxCalls
    BY <1>1, <2>2, ConsumedFinite, Shrinks DEF AllowanceInv, LedgerAssumption
  <2>4. ASSUME StageLimit > 1 PROVE Cardinality(OutsideSynthesis(Sent)) < MaxCalls
    BY <1>1, <2>2, <2>4, ConsumedFinite, Shrinks DEF AllowanceInv, LedgerAssumption
  <2>5. ASSUME NEW s \in Stages PROVE Cardinality(InStage(Sent, s)) <= StageLimit
    BY <1>1, <2>2, ConsumedFinite, Shrinks DEF AllowanceInv, LedgerAssumption
  <2> QED BY <2>3, <2>4, <2>5 DEF AllowanceKept
<1>2. Spec => []AllowanceInv
  BY AllowanceInit, AllowanceStep, LedgerAlways, PTL DEF Spec
<1> QED BY <1>1, <1>2, LedgerAlways, PTL

-----------------------------------------------------------------------------
(* What is paid for, seen from the provider and the retained results alone. *)

(* While a call runs nothing has been accounted for it.  A lane that executed its stage
   leaves a received answer behind; and once it did so under the lease, or its result is
   retained, nothing of the stage is uncertain any more. *)
SettledInv ==
  /\ \A r \in Requests :
       call[r].step \notin {"free", "faulted", "done"} => row[r].provider = "unknown"
  /\ \A c \in Claims, s \in Stages : lane[c][s] = "executed" =>
       /\ \E r \in Requests :
            row[r] # NULL /\ row[r].stage = s /\ row[r].provider = "received"
       /\ Fenced(c) => InStage(Unknown, s) = {}
  /\ \A s \in saved : InStage(Unknown, s) = {}

LEMMA SettledInit == Init => SettledInv
BY DEF Init, SettledInv, InStage

(* A received answer stays received. *)
LEMMA ReceivedStays ==
  ASSUME LedgerInv, NEW q \in Requests, AppliedTo(q)
  PROVE  /\ row[q].provider = "received" => row'[q].provider = "received"
         /\ row[q].provider = "rejected" => row'[q].provider = "rejected"
<1>1. PICK e \in Event : row'[q] = Accounted(row[q], e) /\ EventFits(q, e)
  BY DEF AppliedTo
<1>2. row[q] \in Row /\ RowTrue(row[q], net[q])
  BY FactsKept DEF AppliedTo, TypeOK
<1>3. /\ row'[q].provider \in {row[q].provider, e.provider}
      /\ e.provider = "unknown" => row'[q].provider = row[q].provider
      /\ e.provider \in ProviderOutcome
  BY <1>1, <1>2, AccountedTyped DEF Event
<1> QED BY <1>1, <1>2, <1>3 DEF RowTrue, EventFits, ProviderOutcome

(* Accounting leaves no more uncertain than before. *)
LEMMA UnknownShrinks ==
  ASSUME LedgerInv, \A q \in Requests : row'[q] = row[q] \/ AppliedTo(q)
  PROVE  \A s \in Stages : InStage(Unknown, s)' \subseteq InStage(Unknown, s)
<1>1. \A q \in Unknown' : q \in Unknown /\ row'[q].stage = row[q].stage
  BY AppliedFacts DEF Unknown, Consumed, AppliedTo
<1> QED BY <1>1 DEF InStage

(* Steps that execute no stage, retain none and admit no request. *)
LEMMA SettledByRows ==
  ASSUME LedgerInv, SettledInv, \A q \in Requests : row'[q] = row[q] \/ AppliedTo(q),
         saved' = saved,
         \A r \in Requests : call'[r].step \notin {"free", "faulted", "done"} =>
           row'[r].provider = "unknown",
         \A c \in Claims, s \in Stages : lane'[c][s] = "executed" =>
           lane[c][s] = "executed" /\ (Fenced(c)' => Fenced(c))
  PROVE  SettledInv'
<1>1. ASSUME NEW c \in Claims, NEW s \in Stages, lane'[c][s] = "executed"
      PROVE  /\ \E r \in Requests :
                  row'[r] # NULL /\ row'[r].stage = s /\ row'[r].provider = "received"
             /\ Fenced(c)' => InStage(Unknown, s)' = {}
  <2>1. PICK r \in Requests :
          row[r] # NULL /\ row[r].stage = s /\ row[r].provider = "received"
    BY <1>1 DEF SettledInv
  <2>2. row'[r] # NULL /\ row'[r].stage = s /\ row'[r].provider = "received"
    BY <2>1, AppliedFacts, ReceivedStays
  <2>3. Fenced(c)' => InStage(Unknown, s) = {}
    BY <1>1 DEF SettledInv
  <2> QED BY <2>2, <2>3, UnknownShrinks
<1>2. \A s \in saved' : InStage(Unknown, s)' = {}
  BY UnknownShrinks, FactsKept DEF SettledInv, TypeOK
<1> QED BY <1>1, <1>2 DEF SettledInv

LEMMA SettledByAdmit ==
  ASSUME LedgerInv, LanesInv, SettledInv, NEW c \in Claims, NEW s \in Stages,
         NEW r \in Requests, Admit(c, s, r)
  PROVE  SettledInv'
<1>1. /\ \A q \in Requests \ {r} : row'[q] = row[q] /\ call'[q] = call[q]
      /\ row[r] = NULL /\ row'[r].stage = s /\ row'[r].provider = "unknown"
      /\ saved' = saved /\ Fenced(c) /\ lane[c][s] = "ready"
      /\ \A d \in Claims : Fenced(d)' <=> d = c
  BY FactsKept DEF Admit, TypeOK, Fenced
<1>2. /\ lane'[c][s] = "calling"
      /\ \A d \in Claims, t \in Stages : d # c \/ t # s => lane'[d][t] = lane[d][t]
  BY FactsKept, MoveLaneEffect DEF Admit, LaneStep
<1>3. \A t \in Stages \ {s} : InStage(Unknown, t)' \subseteq InStage(Unknown, t)
  BY <1>1 DEF InStage, Unknown, Consumed
<1>4. \A q \in Requests : call'[q].step \notin {"free", "faulted", "done"} =>
        row'[q].provider = "unknown"
  BY <1>1 DEF SettledInv
<1>5. ASSUME NEW d \in Claims, NEW t \in Stages, lane'[d][t] = "executed"
      PROVE  /\ \E q \in Requests :
                  row'[q] # NULL /\ row'[q].stage = t /\ row'[q].provider = "received"
             /\ Fenced(d)' => InStage(Unknown, t)' = {}
  <2>1. lane[d][t] = "executed" /\ (d # c \/ t # s)
    BY <1>2, <1>5
  <2>2. PICK q \in Requests :
          row[q] # NULL /\ row[q].stage = t /\ row[q].provider = "received"
    BY <2>1 DEF SettledInv
  <2>3. Fenced(d)' => d = c /\ t # s /\ InStage(Unknown, t) = {}
    BY <1>1, <2>1 DEF SettledInv
  <2> QED BY <1>1, <1>3, <2>2, <2>3
<1>6. s \notin saved
  BY <1>1 DEF LanesInv
<1>7. \A t \in saved' : InStage(Unknown, t)' = {}
  BY <1>1, <1>3, <1>6, FactsKept DEF SettledInv, TypeOK
<1> QED BY <1>4, <1>5, <1>7 DEF SettledInv

LEMMA SettledByComplete ==
  ASSUME LedgerInv, SettledInv, OneUnknown, [Next]_vars, NEW r \in Requests, Complete(r)
  PROVE  SettledInv'
<1> DEFINE c == call[r].claim
           s == row[r].stage
<1>1. /\ row[r] \in Row /\ row[r] # NULL /\ s \in Stages /\ c \in Claims
      /\ row[r].outcome # "not_dispatched" /\ row[r].provider = "unknown"
      /\ EventFits(r, CompletedEvent)
  BY CallFacts DEF Complete, SettledInv
<1>2. /\ \A q \in Requests \ {r} : row'[q] = row[q] /\ call'[q] = call[q]
      /\ row'[r] # NULL /\ row'[r].stage = s /\ row'[r] = Accounted(row[r], CompletedEvent)
      /\ call'[r].step = "done"
  BY <1>1, ApplyTrue, EventsTyped, FactsKept, MoveCallEffect DEF Complete, CallStep
<1>3. row'[r].provider = "received"
  BY <1>1, <1>2, EventsTyped, AccountedTyped DEF CompletedEvent, Outcomes
<1>4. /\ lane'[c][s] = "executed"
      /\ \A d \in Claims, t \in Stages : d # c \/ t # s => lane'[d][t] = lane[d][t]
  BY <1>1, FactsKept, MoveLaneEffect DEF Complete, LaneStep
<1>5. /\ \A t \in Stages : InStage(Unknown, t)' \subseteq InStage(Unknown, t)
      /\ InStage(Unknown, s)' = {}
  <2>1. Unknown' \subseteq Unknown \ {r}
    BY <1>2, <1>3 DEF Unknown, Consumed
  <2>2. \A q \in Unknown : row[q].stage = s => q = r
    BY <1>1 DEF OneUnknown, Unknown, Consumed
  <2> QED BY <1>2, <2>1, <2>2 DEF InStage, Unknown, Consumed
<1>6. ASSUME NEW d \in Claims, NEW t \in Stages, lane'[d][t] = "executed"
      PROVE  /\ \E q \in Requests :
                  row'[q] # NULL /\ row'[q].stage = t /\ row'[q].provider = "received"
             /\ Fenced(d)' => InStage(Unknown, t)' = {}
  <2>1. CASE d = c /\ t = s
    BY <1>2, <1>3, <1>5, <2>1
  <2>2. CASE d # c \/ t # s
    <3>1. PICK q \in Requests :
            row[q] # NULL /\ row[q].stage = t /\ row[q].provider = "received"
      BY <1>4, <1>6, <2>2 DEF SettledInv
    <3>2. Fenced(d)' => InStage(Unknown, t) = {}
      BY <1>4, <1>6, <2>2 DEF SettledInv, Complete, Fenced
    <3> QED BY <1>1, <1>2, <1>5, <3>1, <3>2
  <2> QED BY <2>1, <2>2
<1>7. \A t \in saved' : InStage(Unknown, t)' = {}
  BY <1>5, FactsKept DEF SettledInv, Complete, TypeOK
<1>8. \A q \in Requests : call'[q].step \notin {"free", "faulted", "done"} =>
        row'[q].provider = "unknown"
  BY <1>2 DEF SettledInv
<1> QED BY <1>6, <1>7, <1>8 DEF SettledInv

LEMMA SettledByCommit ==
  ASSUME LedgerInv, SettledInv, NEW c \in Claims, NEW s \in Stages, Commit(c, s)
  PROVE  SettledInv'
<1>1. \A d \in Claims, t \in Stages : lane'[d][t] = "executed" => lane[d][t] = "executed"
  BY FactsKept, MoveLaneEffect DEF Commit, LaneStep
<1>2. \A t \in saved' : InStage(Unknown, t) = {}
  BY DEF Commit, SettledInv
<1> QED BY <1>1, <1>2 DEF Commit, SettledInv, Fenced, InStage, Unknown, Consumed

(* Where no request is admitted, rows are only accounted for. *)
LEMMA RowsApplied ==
  ASSUME LedgerInv, [Next]_vars, \A q \in Requests : row[q] = NULL => row'[q] = NULL
  PROVE  \A q \in Requests : row'[q] = row[q] \/ AppliedTo(q)
<1>1. ASSUME NEW q \in Requests, NEW c \in Claims, NEW s \in Stages, Admit(c, s, q) PROVE FALSE
  BY <1>1, FactsKept DEF Admit, TypeOK, Row, Outcome, ProviderOutcome
<1> QED BY <1>1, RowSteps DEF RowStep

LEMMA SettledStep ==
  ASSUME LedgerInv, LanesInv, OneUnknown, SettledInv, [Next]_vars
  PROVE  SettledInv'
<1> USE FactsKept
<1>1. CASE Claim
  <2>1. \A c \in Claims : Fenced(c)' => \A s \in Stages : lane[c][s] = "asleep"
    BY <1>1 DEF Claim, Fenced, LanesInv, TypeOK, Claims
  <2> QED BY <1>1, <2>1 DEF Claim, SettledInv, InStage, Unknown, Consumed
<1>2. CASE LoseLease
  BY <1>2 DEF LoseLease, SettledInv, Fenced, InStage, Unknown, Consumed
<1>3. ASSUME NEW c \in Claims, Crash(c) PROVE SettledInv'
  <2>1. \A d \in Claims, s \in Stages : lane'[d][s] = "executed" => lane[d][s] = "executed"
    BY <1>3 DEF Crash, TypeOK
  <2>2. \A q \in Requests : call'[q] = call[q] \/ call'[q].step = "done"
    BY <1>3 DEF Crash
  <2> QED BY <1>3, <2>1, <2>2 DEF Crash, SettledInv, Fenced, InStage, Unknown, Consumed
<1>4. ASSUME NEW c \in Claims, NEW s \in Stages, Load(c, s) \/ GiveUp(c, s) PROVE SettledInv'
  <2>1. \A d \in Claims, t \in Stages : lane'[d][t] = "executed" => lane[d][t] = "executed"
    BY <1>4, MoveLaneEffect DEF Load, GiveUp, LaneStep
  <2> QED BY <1>4, <2>1 DEF Load, GiveUp, SettledInv, Fenced, InStage, Unknown, Consumed
<1>5. ASSUME NEW r \in Requests,
             \/ Send(r) \/ AbortSend(r) \/ Hear(r) \/ CompleteFault(r) \/ FailFault(r)
             \/ ProviderDecides(r)
      PROVE SettledInv'
  <2>1. \A q \in Requests :
          call'[q].step \notin {"free", "faulted", "done"} =>
            call[q].step \notin {"free", "faulted", "done"}
    <3>1. CASE ProviderDecides(r)
      BY <3>1 DEF ProviderDecides
    <3>2. CASE FailFault(r)
      BY <3>2, MoveCallEffect DEF FailFault, CallStep
    <3>3. CASE Send(r) \/ AbortSend(r) \/ Hear(r) \/ CompleteFault(r)
      <4>1. call[r].step \in {"started", "sent", "answered"}
        BY <3>3 DEF Send, AbortSend, Hear, CompleteFault
      <4>2. PICK step \in CallStep : MoveCall(r, step)
        BY <3>3, HearStep DEF Send, AbortSend, CompleteFault, CallStep
      <4> QED BY <4>1, <4>2, MoveCallEffect
    <3> QED BY <1>5, <3>1, <3>2, <3>3
  <2>2. \A d \in Claims, t \in Stages : lane'[d][t] = "executed" => lane[d][t] = "executed"
    <3>1. CASE FailFault(r)
      BY <3>1, CallFacts, MoveLaneEffect DEF FailFault, Failing, LaneStep
    <3> QED BY <1>5, <3>1 DEF Send, AbortSend, Hear, CompleteFault, ProviderDecides
  <2>3. UNCHANGED <<row, saved, claims, leased>>
    BY <1>5 DEF Send, AbortSend, Hear, CompleteFault, FailFault, ProviderDecides
  <2> QED BY <2>1, <2>2, <2>3 DEF SettledInv, Fenced, InStage, Unknown, Consumed
<1>6. ASSUME NEW r \in Requests, Announce(r) \/ Fail(r) PROVE SettledInv'
  <2>1. call[r].step \notin {"free", "done"} /\ call[r].claim \in Claims /\ row[r].stage \in Stages
    BY <1>6, CallFacts DEF Announce, Fail, Failing
  <2>2. \A q \in Requests \ {r} : call'[q] = call[q]
    BY <1>6, MoveCallEffect DEF Announce, Fail, CallStep
  <2>3. \A q \in Requests : row[q] = NULL => row'[q] = NULL
    BY <1>6 DEF Announce, Fail, Apply, TypeOK
  <2>4. \A q \in Requests : row'[q] = row[q] \/ AppliedTo(q)
    BY <2>3, RowsApplied
  <2>5. CASE Announce(r)
    <3>1. row[r] \in Row /\ row[r].provider = "unknown"
      BY <2>1, <2>5, CallFacts DEF Announce, CallFits
    <3>2. /\ row'[r] = Accounted(row[r], StartedEvent)
          /\ \A q \in Requests \ {r} : row'[q] = row[q]
      BY <2>1, <2>5, CallFacts, ApplyTrue, EventsTyped DEF Announce
    <3>3. row'[r].provider = "unknown"
      BY <3>1, <3>2, EventsTyped, AccountedTyped DEF StartedEvent, Outcomes
    <3> QED BY <2>2, <2>4, <2>5, <3>2, <3>3, SettledByRows DEF Announce, SettledInv, Fenced
  <2>6. CASE Fail(r)
    <3>1. call'[r].step = "done"
      BY <2>6, MoveCallEffect DEF Fail, CallStep
    <3>2. \A q \in Requests \ {r} : row'[q] = row[q]
      BY <2>1, <2>6, CallFacts, ApplyTrue, EventsTyped DEF Fail, Failing
    <3>3. PICK step \in {"done", "ready"} : MoveLane(call[r].claim, row[r].stage, step)
      BY <2>6 DEF Fail
    <3>4. \A d \in Claims, t \in Stages : lane'[d][t] = "executed" => lane[d][t] = "executed"
      BY <2>1, <3>3, MoveLaneEffect DEF LaneStep
    <3> QED BY <2>2, <2>4, <2>6, <3>1, <3>2, <3>4, SettledByRows DEF Fail, SettledInv, Fenced
  <2> QED BY <1>6, <2>5, <2>6
<1>7. ASSUME NEW m \in receipts, Deliver(m) \/ Lose(m) PROVE SettledInv'
  <2>1. \A q \in Requests : row[q] = NULL => row'[q] = NULL
    BY <1>7 DEF Deliver, Lose, Apply, TypeOK
  <2>2. \A q \in Requests : row'[q] = row[q] \/ AppliedTo(q)
    BY <2>1, RowsApplied
  <2>3. \A q \in Requests : call[q].step \notin {"free", "faulted", "done"} =>
          q # m.request
    BY <1>7
  <2>4. \A q \in Requests : q # m.request => row'[q] = row[q]
    BY <1>7 DEF Deliver, Lose, Apply, TypeOK
  <2> QED BY <1>7, <2>2, <2>3, <2>4, SettledByRows DEF Deliver, Lose, SettledInv, Fenced
<1>8. CASE UNCHANGED vars
  BY <1>8 DEF vars, SettledInv, Fenced, InStage, Unknown, Consumed
<1> QED BY <1>1, <1>2, <1>3, <1>4, <1>5, <1>6, <1>7, <1>8, SettledByAdmit, SettledByComplete,
           SettledByCommit DEF Next, Calling

LEMMA SettledAlways == Spec => []SettledInv
BY SettledInit, SettledStep, LedgerAlways, LanesAlways, OneUnknownAlways, PTL DEF Spec

-----------------------------------------------------------------------------
(* Each step is one step of SpendingPromise, or none at all. *)

LEMMA SameCardinality == \A S : Money!Cardinality(S) = Cardinality(S)
BY DEF Money!Cardinality, Cardinality

LEMMA SameMoney ==
  ASSUME net' = net, saved' = saved,
         \A q \in Requests : net[q] # "unsent" =>
           row'[q].stage = row[q].stage /\ row'[q].provider = row[q].provider
  PROVE  UNCHANGED Money!promise
<1>1. \A q \in Requests : Paid'[q] = Paid[q]
  BY DEF Paid, Known
<1>2. Paid' = Paid
  BY <1>1 DEF Paid
<1> QED BY <1>2 DEF Money!promise

LEMMA PaidFunction ==
  ASSUME NEW r \in Requests, NEW entry, Paid'[r] = entry,
         \A q \in Requests \ {r} : Paid'[q] = Paid[q]
  PROVE  Paid' = [Paid EXCEPT ![r] = entry]
BY DEF Paid

LEMMA SentFacts ==
  ASSUME LedgerInv, NEW q \in Requests, net[q] # "unsent"
  PROVE  /\ row[q] \in Row /\ row[q] # NULL /\ q \in Consumed
         /\ row[q].provider \in {"unknown", "received", "rejected"}
         /\ Paid[q] = [stage |-> row[q].stage, fate |-> net[q], known |-> Known(q)]
         /\ Known(q) = "nothing" <=> row[q].provider = "unknown"
         /\ Paid[q] # NULL /\ Paid[q].stage = row[q].stage /\ Paid[q].known = Known(q)
<1>1. row[q] \in Row /\ row[q] # NULL /\ RowTrue(row[q], net[q])
  BY FactsKept DEF TypeOK
<1>2. /\ row[q].outcome # "not_dispatched"
      /\ row[q].provider \in {"unknown", "received", "rejected"}
  BY <1>1 DEF RowTrue, Row, ProviderOutcome
<1>3. /\ Known(q) \in {"nothing", "charged", "refused"}
      /\ Known(q) = "nothing" <=> row[q].provider = "unknown"
  BY <1>2 DEF Known
<1>4. Paid[q] = [stage |-> row[q].stage, fate |-> net[q], known |-> Known(q)]
  BY DEF Paid
<1>5. Paid[q] \in Entry
  BY <1>1, <1>3, <1>4, FactsKept DEF Entry, TypeOK, Row
<1>6. Paid[q] # NULL
  BY <1>5, EntryNullAssumption
<1>7. Paid[q].stage = row[q].stage /\ Paid[q].known = Known(q)
  BY <1>4
<1> QED BY <1>1, <1>2, <1>3, <1>4, <1>6, <1>7 DEF Consumed

LEMMA PaidIsNull ==
  ASSUME LedgerInv
  PROVE  \A q \in Requests : Paid[q] = NULL <=> net[q] = "unsent"
BY SentFacts DEF Paid

LEMMA SpentFacts ==
  ASSUME LedgerInv
  PROVE  /\ \A q \in Money!Spent : q \in Requests /\ net[q] # "unsent"
         /\ \A q \in Requests : net[q] # "unsent" => q \in Money!Spent
         /\ \A s \in Stages : \A q \in Money!SpentOn(s) : q \in Money!Spent /\ row[q].stage = s
         /\ \A s \in Stages : \A q \in Money!Spent :
              row[q].stage = s => q \in Money!SpentOn(s)
         /\ \A q \in Money!Reserved : q \in Money!Spent /\ row[q].stage \notin Synthesis
<1>1. /\ \A q \in Money!Spent : q \in Requests /\ net[q] # "unsent"
      /\ \A q \in Requests : net[q] # "unsent" => q \in Money!Spent
  BY PaidIsNull DEF Money!Spent
<1>2. \A q \in Money!Spent : Paid[q].stage = row[q].stage
  BY <1>1, SentFacts
<1> QED BY <1>1, <1>2 DEF Money!SpentOn, Money!Reserved

(* Accounting for a request that left is learning its fate, or nothing. *)
LEMMA AccountingIsLearning ==
  ASSUME LedgerInv, NEW r \in Requests, net' = net, saved' = saved,
         \A q \in Requests \ {r} : row'[q] = row[q], row'[r] = row[r] \/ AppliedTo(r)
  PROVE  Money!Spending \/ UNCHANGED Money!promise
<1>1. CASE net[r] = "unsent" \/ row'[r].provider = row[r].provider
  BY <1>1, AppliedFacts, SameMoney
<1>2. CASE net[r] # "unsent" /\ row'[r].provider # row[r].provider
  <2>1. PICK e \in Event : row'[r] = Accounted(row[r], e) /\ EventFits(r, e)
    BY <1>2 DEF AppliedTo
  <2>2. row'[r].stage = row[r].stage
    BY <1>2, AppliedFacts
  <2>3. row[r].provider = "unknown"
    BY <1>2, SentFacts, ReceivedStays
  <2>9. row'[r].provider = e.provider /\ e.provider \in {"received", "rejected"}
    <3>1. row'[r].provider \in {row[r].provider, e.provider}
      BY <1>2, <2>1, SentFacts, AccountedTyped
    <3> QED BY <1>2, <2>1, <2>3, <3>1 DEF Event, ProviderOutcome, EventFits
  <2>4. Known(r) = "nothing" /\ Known(r)' = net[r] /\ net[r] \in {"charged", "refused"}
    BY <2>1, <2>3, <2>9 DEF Known, EventFits
  <2>5. /\ Paid[r] = [stage |-> row[r].stage, fate |-> net[r], known |-> "nothing"]
        /\ Paid'[r] = [stage |-> row[r].stage, fate |-> net[r], known |-> net[r]]
        /\ \A q \in Requests \ {r} : Paid'[q] = Paid[q]
    BY <1>2, <2>2, <2>4 DEF Paid, Known
  <2>6. Paid' = [Paid EXCEPT ![r] = [Paid[r] EXCEPT !.known = Paid[r].fate]]
    <3>1. Paid'[r] = [Paid[r] EXCEPT !.known = Paid[r].fate]
      BY <2>5
    <3> QED BY <2>5, <3>1, PaidFunction
  <2>7. Paid[r] # NULL
    BY <1>2, PaidIsNull
  <2>8. Money!Learn(r) /\ Paid'[r] # Paid[r]
    BY <2>4, <2>5, <2>6, <2>7 DEF Money!Learn, Money!Account
  <2> QED BY <2>8 DEF Money!Spending
<1> QED BY <1>1, <1>2

(* The provider's decision. *)
LEMMA ProviderDecidesOnce ==
  ASSUME LedgerInv, NEW r \in Requests, ProviderDecides(r)
  PROVE  Money!Spending
<1>1. PICK fate \in {"charged", "refused"} : net' = [net EXCEPT ![r] = fate]
  BY DEF ProviderDecides
<1>2. /\ net[r] = "sent" /\ net'[r] = fate /\ row' = row /\ saved' = saved
      /\ \A q \in Requests \ {r} : net'[q] = net[q]
  BY <1>1, FactsKept DEF ProviderDecides, TypeOK
<1>3. /\ Paid[r] = [stage |-> row[r].stage, fate |-> "sent", known |-> Known(r)]
      /\ Paid'[r] = [stage |-> row[r].stage, fate |-> fate, known |-> Known(r)]
      /\ \A q \in Requests \ {r} : Paid'[q] = Paid[q]
  BY <1>2 DEF Paid, Known
<1>4. Paid' = [Paid EXCEPT ![r] = [Paid[r] EXCEPT !.fate = fate]]
  <2>1. Paid'[r] = [Paid[r] EXCEPT !.fate = fate]
    BY <1>3
  <2> QED BY <1>3, <2>1, PaidFunction
<1>5. Money!Decide(r, fate) /\ Paid'[r] # Paid[r]
  BY <1>2, <1>3, <1>4, PaidIsNull DEF Money!Decide, Money!Account
<1> QED BY <1>5 DEF Money!Spending

(* A request that leaves was admitted within the allowances, of which it holds its part
   already; its stage has no result, and it is the only one of it that is uncertain. *)
LEMMA SendIsPaying ==
  ASSUME LedgerInv, AllowanceInv, OneUnknown, SettledInv, NEW r \in Requests, Send(r)
  PROVE  Money!Spending
<1> DEFINE s == row[r].stage
<1>1. /\ net[r] = "unsent" /\ row[r].provider = "unknown" /\ s \in Stages
      /\ r \in Unknown /\ r \in Consumed /\ row' = row /\ saved' = saved
      /\ net'[r] = "sent" /\ \A q \in Requests \ {r} : net'[q] = net[q]
  BY CallFacts, FactsKept DEF Send, CallFits, Unknown, Consumed, TypeOK
<1>2. s \notin saved
  BY <1>1 DEF SettledInv, InStage
<1>3. /\ Paid[r] = NULL
      /\ Paid'[r] = [stage |-> s, fate |-> "sent", known |-> "nothing"]
      /\ \A q \in Requests \ {r} : Paid'[q] = Paid[q]
  BY <1>1 DEF Paid, Known
<1>4. Paid'[r] # Paid[r]
  <2>1. Paid'[r] \in Entry
    BY <1>1, <1>3 DEF Entry
  <2> QED BY <1>3, <2>1, EntryNullAssumption
<1>5. Paid' = [Paid EXCEPT ![r] = [stage |-> s, fate |-> "sent", known |-> "nothing"]]
  BY <1>3, PaidFunction
<1>6. /\ Money!Spent \cup {r} \subseteq Consumed /\ r \notin Money!Spent
      /\ Money!SpentOn(s) \cup {r} \subseteq InStage(Consumed, s) /\ r \notin Money!SpentOn(s)
      /\ s \notin Synthesis => Money!Reserved \cup {r} \subseteq OutsideSynthesis(Consumed)
      /\ r \notin Money!Reserved
  <2>1. \A q \in Money!Spent : q \in Consumed
    BY SpentFacts, SentFacts
  <2>2. r \notin Money!Spent
    BY <1>1, SpentFacts
  <2> QED BY <1>1, <2>1, <2>2, SpentFacts DEF InStage, OutsideSynthesis
<1>7. /\ Cardinality(Money!Spent) < MaxCalls
      /\ Cardinality(Money!SpentOn(s)) < StageLimit
      /\ s \notin Synthesis /\ StageLimit > 1 => Cardinality(Money!Reserved) < MaxCalls - 1
  <2>1. Cardinality(Money!Spent) + 1 <= Cardinality(Consumed)
    BY <1>6, ConsumedFinite, RoomForOne
  <2>2. Cardinality(Money!SpentOn(s)) + 1 <= Cardinality(InStage(Consumed, s))
    BY <1>1, <1>6, ConsumedFinite, RoomForOne
  <2>3. s \notin Synthesis =>
          Cardinality(Money!Reserved) + 1 <= Cardinality(OutsideSynthesis(Consumed))
    BY <1>6, ConsumedFinite, RoomForOne
  <2>4. /\ Cardinality(Money!Spent) \in Nat /\ Cardinality(Money!SpentOn(s)) \in Nat
        /\ Cardinality(Money!Reserved) \in Nat
    <3>1. /\ Money!Spent \subseteq Requests /\ Money!SpentOn(s) \subseteq Requests
          /\ Money!Reserved \subseteq Requests
      BY DEF Money!Spent, Money!SpentOn, Money!Reserved
    <3> QED BY <3>1, Shrinks DEF LedgerAssumption
  <2> QED BY <1>1, <2>1, <2>2, <2>3, <2>4, ConsumedFinite DEF AllowanceInv, LedgerAssumption
<1>8. \A q \in Money!SpentOn(s) : Paid[q].known # "nothing"
  <2> SUFFICES ASSUME NEW q \in Money!SpentOn(s), Paid[q].known = "nothing" PROVE FALSE
    OBVIOUS
  <2>1. q \in Requests /\ net[q] # "unsent" /\ Paid[q].stage = s
    BY <1>1, SpentFacts DEF Money!SpentOn
  <2>2. q \in Unknown /\ row[q].stage = s
    <3>1. Known(q) = "nothing" /\ q \in Consumed
      BY <2>1, SentFacts
    <3>2. row[q].provider = "unknown"
      BY <2>1, <3>1, SentFacts
    <3> QED BY <1>1, <3>1, <3>2, SpentFacts DEF Unknown
  <2> QED BY <1>1, <2>1, <2>2 DEF OneUnknown
<1>9. Money!Pay(r, s)
  <2>1. Money!Account(r, [stage |-> s, fate |-> "sent", known |-> "nothing"])
    BY <1>1, <1>5 DEF Money!Account
  <2> QED BY <1>2, <1>3, <1>7, <1>8, <2>1, SameCardinality DEF Money!Pay
<1> QED BY <1>1, <1>4, <1>9 DEF Money!Spending

(* A retained result was charged, and known to be. *)
LEMMA CommitIsKeeping ==
  ASSUME LedgerInv, SettledInv, NEW c \in Claims, NEW s \in Stages, Commit(c, s)
  PROVE  Money!Spending \/ UNCHANGED Money!promise
<1>1. net' = net /\ row' = row
  BY DEF Commit
<1>2. CASE saved' = saved
  BY <1>1, <1>2, SameMoney
<1>3. CASE saved' # saved
  <2>1. saved' = saved \cup {s} /\ lane[c][s] = "executed"
    BY <1>3 DEF Commit
  <2>2. PICK r \in Requests :
          row[r] # NULL /\ row[r].stage = s /\ row[r].provider = "received"
    BY <2>1 DEF SettledInv
  <2>3. net[r] = "charged" /\ Known(r) = "charged"
    BY <2>2, FactsKept DEF RowTrue, Known
  <2>4. r \in Money!SpentOn(s) /\ Paid[r].known = "charged"
    <3>1. net[r] # "unsent" /\ Paid[r].known = "charged" /\ s \in Stages
      BY <2>3, SentFacts
    <3> QED BY <2>2, <3>1, SpentFacts
  <2>5. Paid' = Paid
    BY <1>1 DEF Paid, Known
  <2>6. Money!Keep(s)
    BY <2>1, <2>4, <2>5 DEF Money!Keep
  <2> QED BY <1>3, <2>6 DEF Money!Spending
<1> QED BY <1>2, <1>3

LEMMA MoneyStep ==
  ASSUME LedgerInv, AllowanceInv, OneUnknown, SettledInv, [Next]_vars
  PROVE  Money!Spending \/ UNCHANGED Money!promise
<1>1. CASE UNCHANGED <<row, saved, net>>
  BY <1>1, SameMoney
<1>2. ASSUME NEW c \in Claims, NEW s \in Stages, NEW r \in Requests, Admit(c, s, r)
      PROVE  UNCHANGED Money!promise
  <2>1. /\ net[r] = "unsent" /\ net' = net /\ saved' = saved
        /\ \A q \in Requests \ {r} : row'[q] = row[q]
    BY <1>2, FactsKept DEF Admit, TypeOK
  <2> QED BY <2>1, SameMoney
<1>3. ASSUME NEW r \in Requests, Announce(r) \/ Complete(r) \/ Fail(r)
      PROVE  Money!Spending \/ UNCHANGED Money!promise
  <2>1. /\ \A q \in Requests : row[q] = NULL => row'[q] = NULL
        /\ \A q \in Requests \ {r} : row'[q] = row[q]
        /\ net' = net /\ saved' = saved
    BY <1>3, FactsKept DEF Announce, Complete, Fail, Apply, TypeOK
  <2> QED BY <2>1, RowsApplied, AccountingIsLearning
<1>4. ASSUME NEW m \in receipts, Deliver(m)
      PROVE  Money!Spending \/ UNCHANGED Money!promise
  <2>1. /\ \A q \in Requests : row[q] = NULL => row'[q] = NULL
        /\ m.request \in Requests
        /\ \A q \in Requests \ {m.request} : row'[q] = row[q]
        /\ net' = net /\ saved' = saved
    BY <1>4, FactsKept DEF Deliver, Apply, TypeOK
  <2> QED BY <2>1, RowsApplied, AccountingIsLearning
<1> QED BY <1>1, <1>2, <1>3, <1>4, SendIsPaying, ProviderDecidesOnce, CommitIsKeeping
        DEF Next, vars, Claim, LoseLease, Crash, Load, GiveUp, Calling, AbortSend, Hear,
            CompleteFault, FailFault, Lose

(* Whatever claims, lanes, lost commits and late receipts do, requests leave and become
   known as if one ledger were asked, and told the truth, at the moment each leaves. *)
THEOREM SpendingPromiseKept == Spec => KeepsSpendingPromise
<1>1. Init => Money!Nothing
  BY DEF Init, Money!Nothing, Paid
<1>2. LedgerInv /\ AllowanceInv /\ OneUnknown /\ SettledInv /\ [Next]_vars =>
        [Money!Spending]_(Money!promise)
  BY MoneyStep
<1>3. Spec => []AllowanceInv
  BY AllowanceInit, AllowanceStep, LedgerAlways, PTL DEF Spec
<1> QED BY <1>1, <1>2, <1>3, LedgerAlways, OneUnknownAlways, SettledAlways, PTL
        DEF Spec, KeepsSpendingPromise, Money!Promise
=============================================================================
