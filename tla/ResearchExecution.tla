------------------------- MODULE ResearchExecution -------------------------
(***************************************************************************)
(* One MatchBASE research run: the rows PostgreSQL keeps for it, the       *)
(* consultant's browser tabs that quote, approve, stop and page through    *)
(* results, the durable workers that execute approved rounds under a lease *)
(* and the operator's recoveries.                                          *)
(*                                                                         *)
(* A round row and the execution it is approved into are one and the same  *)
(* element of Rounds: a quote is approved at most once and the execution   *)
(* id is drawn then.  Rounds are created in the order 1, 2, ...            *)
(*                                                                         *)
(* One action is one database transaction, or one statement outside a      *)
(* transaction; everything between two of them may interleave.  Lease,     *)
(* quote and approval clocks are Booleans that turn once.                  *)
(***************************************************************************)
EXTENDS Integers

CONSTANTS
  NumRounds,      \* bound: round rows one run may create
  Workers,        \* slots running runNextConsultantWorkflowJob
  Tabs,           \* browser tabs that use "reveal more" (revealMoreCandidates)
  Listings,       \* bound: listings of the rounds that may be under way at once
  Sweeps,         \* bound: expiry statements with an old snapshot at once
  Stages,         \* stage keys of an execution's provider calls
  MaxCalls,       \* plan.max_calls
  MaxResumes,     \* LEAST(2, plan.execution_recovery.max_resumes)
  NULL            \* SQL NULL

ASSUME BoundsAssumption ==
  /\ NumRounds \in Nat /\ MaxCalls \in Nat /\ MaxResumes \in Nat
ASSUME NullAssumption == NULL \notin Workers /\ NULL \notin Nat /\ NULL # "user-cancelled"

Rounds == 1 .. NumRounds
MaxRoundNumber == 5

VARIABLES
  session,    \* the run's consultant_workflow_session row
  round,      \* its consultant_research_round rows
  job,        \* its consultant_workflow_job rows of stage 'research', by execution; the
              \* token and the lease are kept only while the row is running, as every
              \* test of either also asks for that status
  output,     \* consultant_output_v3: the execution whose output the run shows
  attempt,    \* consultant_research_attempt, by execution: its calls, and the stages with
              \* an attempt of unknown provider outcome: intended only (open), or failed (lost)
  pc, held,   \* worker: where it is in its job, and the job it claimed
  inflight,   \* worker, execution: stages whose provider call its process still awaits
  tab,        \* tab: the session row it read and has not written back
  settling,   \* listing: the round its settling statement matched, and its outcome
  sweep,      \* expiry statement: an execution and what its snapshot shows of it
  missed      \* kept for OneDispatcher only: executions requeued past an attempt that
              \* the snapshot of the expiry did not show

dbVars == <<session, round, job, output, attempt>>
workerVars == <<pc, held, inflight>>
waitingVars == <<tab, settling, sweep, missed>>
vars == <<session, round, job, output, attempt, pc, held, inflight, tab, settling, sweep, missed>>

RoundStatus == {"none", "proposed", "approved", "completed", "failed", "cancelled"}
JobStatus == {"none", "queued", "running", "completed", "failed"}
JobError == {NULL, "user-cancelled", "execution-interrupted", "workflow-execution-failed"}
SessionState == {"prepared", "researching", "progressive_reveal_ready",
                 "workflow_complete", "workflow_failed"}
Session == [execution : Rounds \cup {NULL}, state : SessionState, cancelled : BOOLEAN]
RoundRow == [status : RoundStatus, number : Nat, parent : Rounds \cup {NULL},
             recovers : Rounds \cup {NULL}, open : BOOLEAN]
JobRow == [status : JobStatus, token : Workers \cup {NULL}, live : BOOLEAN,
           error : JobError, resumes : 0 .. MaxResumes]
AttemptRow == [calls : 0 .. MaxCalls, open : SUBSET Stages, lost : SUBSET Stages]
Settlement == [round : Rounds, outcome : {"failed", "cancelled"}]
Snapshot == [round : Rounds, resumes : 0 .. MaxResumes,
             published : BOOLEAN, repeatable : BOOLEAN]
Phase == {"idle", "claimed", "running", "published", "closing",
          "catch", "failing", "marked", "incident"}

TypeOK ==
  /\ session \in Session
  /\ round \in [Rounds -> RoundRow]
  /\ job \in [Rounds -> JobRow]
  /\ output \in Rounds \cup {NULL}
  /\ attempt \in [Rounds -> AttemptRow]
  /\ pc \in [Workers -> Phase]
  /\ held \in [Workers -> Rounds \cup {NULL}]
  /\ \A w \in Workers : held[w] = NULL <=> pc[w] = "idle"
  /\ inflight \in [Workers -> [Rounds -> SUBSET Stages]]
  /\ tab \in [Tabs -> Session \cup {NULL}]
  /\ settling \in [Listings -> Settlement \cup {NULL}]
  /\ sweep \in [Sweeps -> Snapshot \cup {NULL}]
  /\ missed \subseteq Rounds

(* The run has been interpreted and its research prompt approved; no round yet. *)
Init ==
  /\ session = [execution |-> NULL, state |-> "prepared", cancelled |-> FALSE]
  /\ round = [r \in Rounds |-> [status |-> "none", number |-> 0, parent |-> NULL,
                                recovers |-> NULL, open |-> TRUE]]
  /\ job = [r \in Rounds |-> [status |-> "none", token |-> NULL, live |-> FALSE,
                              error |-> NULL, resumes |-> 0]]
  /\ output = NULL
  /\ attempt = [r \in Rounds |-> [calls |-> 0, open |-> {}, lost |-> {}]]
  /\ pc = [w \in Workers |-> "idle"]
  /\ held = [w \in Workers |-> NULL]
  /\ inflight = [w \in Workers |-> [r \in Rounds |-> {}]]
  /\ tab = [t \in Tabs |-> NULL]
  /\ settling = [l \in Listings |-> NULL]
  /\ sweep = [x \in Sweeps |-> NULL]
  /\ missed = {}

-----------------------------------------------------------------------------
(* Reading the rows. *)

Active(r) == job[r].status \in {"queued", "running"}
ActiveRounds == {r \in Rounds : Active(r)}
Completed == {r \in Rounds : round[r].status = "completed"}

(* ORDER BY round_number DESC LIMIT 1; a retained recovery can leave a tie,
   and then either row may come first. *)
Latest(r) == r \in Completed /\ \A s \in Completed : round[s].number <= round[r].number

(* r is the next row to insert. *)
NextRow(r) == round[r].status = "none" /\ \A s \in Rounds : s < r => round[s].status # "none"
LastRow(r) == round[r].status # "none" /\ \A s \in Rounds : s > r => round[s].status = "none"

(* renewConsultantWorkflowJobLease succeeds for the job w holds. *)
Renewable(w) ==
  LET j == job[held[w]] IN
  /\ j.token = w /\ j.status = "running" /\ j.live
  /\ session.execution = held[w]

(* assertExecutionFence and, on top of it, lockResearchAuthority. *)
Fenced(w) == Renewable(w) /\ ~session.cancelled
Authorised(w) == Fenced(w) /\ round[held[w]].status = "approved" /\ round[held[w]].open

(* Mutant of SaveSession: every row is written. *)
SaveSessionAlways(s) == session' = s

(* saveConsultantWorkflowSession: a whole-row upsert that leaves a stopped
   execution's row, and the row of another execution for a stopped one, alone. *)
SaveSession(s) ==
  session' = IF \/ session.execution = s.execution /\ session.cancelled
                \/ s.execution # NULL /\ job[s.execution].error = "user-cancelled"
             THEN session ELSE s

(* A job row that leaves "running", or never was there, for status. *)
Release(j, status, error) ==
  [j EXCEPT !.status = status, !.error = error, !.token = NULL, !.live = FALSE]

Researching(r) == [execution |-> r, state |-> "researching", cancelled |-> FALSE]
Ready(r) == [execution |-> r, state |-> "progressive_reveal_ready", cancelled |-> FALSE]
Failed(r) == [execution |-> r, state |-> "workflow_failed", cancelled |-> FALSE]

-----------------------------------------------------------------------------
(* The consultant: quotes, consent, stop. *)

(* What settleResearchRounds writes for r, were it to run now. *)
Settled(r) ==
  IF round[r].status = "approved" /\ job[r].status = "failed"
  THEN IF job[r].error = "user-cancelled" THEN "cancelled" ELSE "failed"
  ELSE round[r].status

(* The quote route takes the earliest of the latest completed rounds as parent. *)
SaveQuote(r) ==
  /\ NextRow(r)
  /\ \E parent \in Completed \cup {NULL} :
       /\ IF parent = NULL THEN Completed = {}
          ELSE Latest(parent) /\ \A s \in Completed : Latest(s) => parent <= s
       /\ LET n == 1 + IF parent = NULL THEN 0 ELSE round[parent].number IN
          /\ n <= MaxRoundNumber
          /\ round' = [round EXCEPT ![r] =
               [@ EXCEPT !.status = "proposed", !.number = n, !.parent = parent]]
  /\ UNCHANGED <<session, job, output, attempt, workerVars, waitingVars>>

(* Mutant of ParentIsLatest: the parent is not looked up again. *)
ParentOnceLatest(r) == TRUE

(* The quote still continues the latest completed round. *)
ParentIsLatest(r) ==
  IF round[r].parent = NULL THEN Completed = {} /\ round[r].number = 1
  ELSE Latest(round[r].parent) /\ round[r].number = round[round[r].parent].number + 1

(* Mutant of ApproveQuote: the job is queued, the round is not marked. *)
ApproveQuoteUnmarked(r) ==
  /\ round[r].status = "proposed"
  /\ ActiveRounds = {}
  /\ ParentIsLatest(r)
  /\ \A s \in Rounds : Settled(s) # "approved"
  /\ round' = [s \in Rounds |-> [round[s] EXCEPT !.status = Settled(s)]]
  /\ session' = Researching(r)
  /\ job' = [job EXCEPT ![r].status = "queued"]
  /\ UNCHANGED <<output, attempt, workerVars, waitingVars>>

(* approveResearchQuote.  The replay of an approved quote changes nothing. *)
ApproveQuote(r) ==
  /\ round[r].status = "proposed"
  /\ ActiveRounds = {}
  /\ ParentIsLatest(r)
  /\ \A s \in Rounds : Settled(s) # "approved"    \* unique index: one approved round per run
  /\ round' = [s \in Rounds |-> [round[s] EXCEPT !.status =
                                   IF s = r THEN "approved" ELSE Settled(s)]]
  /\ session' = Researching(r)
  /\ job' = [job EXCEPT ![r].status = "queued"]
  /\ UNCHANGED <<output, attempt, workerVars, waitingVars>>

StopResearch ==
  LET r == session.execution IN
  /\ r # NULL
  /\ ~session.cancelled
  /\ session.state \notin {"progressive_reveal_ready", "workflow_complete"}
  /\ Active(r)
  /\ job' = [job EXCEPT ![r] = Release(@, "failed", "user-cancelled")]
  /\ session' = [session EXCEPT !.state = "workflow_failed", !.cancelled = TRUE]
  /\ UNCHANGED <<round, output, attempt, workerVars, waitingVars>>

(* settleResearchRounds outside a session lock (every listing of the rounds).
   Under READ COMMITTED the statement joins the job row of its snapshot; when
   the round row is locked by another transaction it waits, and then checks
   only the round row again. *)
SettleRead(l, r) ==
  /\ settling[l] = NULL
  /\ Settled(r) # round[r].status
  /\ settling' = [settling EXCEPT ![l] = [round |-> r, outcome |-> Settled(r)]]
  /\ UNCHANGED <<dbVars, workerVars, tab, sweep, missed>>

(* Mutant of SettleWrite: the round row is not checked again. *)
SettleWriteBlind(l) ==
  LET r == settling[l].round IN
  /\ settling[l] # NULL
  /\ round' = [round EXCEPT ![r].status = settling[l].outcome]
  /\ settling' = [settling EXCEPT ![l] = NULL]
  /\ UNCHANGED <<session, job, output, attempt, workerVars, tab, sweep, missed>>

SettleWrite(l) ==
  LET r == settling[l].round IN
  /\ settling[l] # NULL
  /\ round' = IF round[r].status = "approved"
              THEN [round EXCEPT ![r].status = settling[l].outcome] ELSE round
  /\ settling' = [settling EXCEPT ![l] = NULL]
  /\ UNCHANGED <<session, job, output, attempt, workerVars, tab, sweep, missed>>

(* reveal_more: the route reads the session row, and revealMoreCandidates
   writes the whole row back, without a lock or a version. *)
RevealRead(t) ==
  /\ tab[t] = NULL
  /\ session.execution # NULL
  /\ output # NULL
  /\ tab' = [tab EXCEPT ![t] = session]
  /\ UNCHANGED <<dbVars, workerVars, settling, sweep, missed>>

RevealWrite(t) ==
  /\ tab[t] # NULL
  /\ \E state \in {tab[t].state} \cup
         IF tab[t].state = "progressive_reveal_ready" THEN {"workflow_complete"} ELSE {} :
       SaveSession([tab[t] EXCEPT !.state = state])
  /\ tab' = [tab EXCEPT ![t] = NULL]
  /\ UNCHANGED <<round, job, output, attempt, workerVars, settling, sweep, missed>>

-----------------------------------------------------------------------------
(* The durable worker: runNextConsultantWorkflowJob. *)

GoTo(w, p) == pc' = [pc EXCEPT ![w] = p]
Leave(w) == GoTo(w, "idle") /\ held' = [held EXCEPT ![w] = NULL]

Claim(w, r) ==
  /\ pc[w] = "idle"
  /\ job[r].status = "queued"
  /\ job' = [job EXCEPT ![r] = [@ EXCEPT !.status = "running", !.token = w, !.live = TRUE]]
  /\ GoTo(w, "claimed")
  /\ held' = [held EXCEPT ![w] = r]
  /\ UNCHANGED <<session, round, output, attempt, inflight, waitingVars>>

(* getOrRestoreWorkflowSession, assertLease and the round's status: reads. *)
Start(w) ==
  /\ pc[w] = "claimed"
  /\ GoTo(w, IF Renewable(w) /\ round[held[w]].status = "approved"
             THEN "running" ELSE "catch")
  /\ UNCHANGED <<dbVars, held, inflight, waitingVars>>

Checkpoint(w) ==
  /\ pc[w] = "running"
  /\ Fenced(w)
  /\ SaveSession(Researching(held[w]))
  /\ UNCHANGED <<round, job, output, attempt, workerVars, waitingVars>>

(* A provider call of unknown outcome, awaited or not. *)
Uncertain(r) == attempt[r].open \cup attempt[r].lost

(* A row of intent for stage s of execution r, and the call under way. *)
Send(w, r, s) ==
  /\ attempt' = [attempt EXCEPT ![r].calls = @ + 1, ![r].open = @ \cup {s}]
  /\ inflight' = [inflight EXCEPT ![w][r] = @ \cup {s}]

(* Mutant of Dispatch: the call is counted, not reserved. *)
DispatchUnreserved(w, s) ==
  LET r == held[w] IN
  /\ pc[w] = "running"
  /\ s \notin inflight[w][r]
  /\ attempt[r].calls < MaxCalls
  /\ Send(w, r, s)
  /\ UNCHANGED <<session, round, job, output, pc, held, waitingVars>>

(* reserveResearchAttempt commits before the request leaves the process.  It asks
   that no attempt of the same stage is uncertain, and nothing of other stages. *)
Dispatch(w, s) ==
  LET r == held[w] IN
  /\ pc[w] = "running"
  /\ Authorised(w)
  /\ s \notin Uncertain(r)
  /\ attempt[r].calls < MaxCalls
  /\ Send(w, r, s)
  /\ UNCHANGED <<session, round, job, output, pc, held, waitingVars>>

(* recordResearchAttemptReceipt is not fenced: it may come after a stop, a
   requeue or the end of the job. *)
Receipt(w, r, s) ==
  /\ s \in inflight[w][r]
  /\ \E lost \in {{}, {s}} :
       attempt' = [attempt EXCEPT ![r].open = @ \ {s}, ![r].lost = @ \cup lost]
  /\ inflight' = [inflight EXCEPT ![w][r] = @ \ {s}]
  /\ UNCHANGED <<session, round, job, output, pc, held, waitingVars>>

(* Mutant of Publish: the run's output row is inserted, never updated. *)
PublishFirstOutput(w) ==
  LET r == held[w] IN
  /\ pc[w] = "running"
  /\ inflight[w][r] = {}
  /\ Authorised(w)
  /\ round' = [round EXCEPT ![r].status = "completed"]
  /\ output' = IF output = NULL THEN r ELSE output
  /\ SaveSession(Ready(r))
  /\ GoTo(w, "published")
  /\ UNCHANGED <<job, attempt, held, inflight, waitingVars>>

(* The publication transaction of executeConsultantWorkflowResearch. *)
Publish(w) ==
  LET r == held[w] IN
  /\ pc[w] = "running"
  /\ inflight[w][r] = {}
  /\ Authorised(w)
  /\ round' = [round EXCEPT ![r].status = "completed"]
  /\ output' = r
  /\ SaveSession(Ready(r))
  /\ GoTo(w, "published")
  /\ UNCHANGED <<job, attempt, held, inflight, waitingVars>>

(* Any refusal of a fence, provider fault or abort while research runs. *)
ResearchFault(w) ==
  /\ pc[w] = "running"
  /\ GoTo(w, "catch")
  /\ UNCHANGED <<dbVars, held, inflight, waitingVars>>

FinalLease(w) ==
  /\ pc[w] = "published"
  /\ GoTo(w, IF Renewable(w) THEN "closing" ELSE "catch")
  /\ UNCHANGED <<dbVars, held, inflight, waitingVars>>

(* Mutant of FinishJob: by job id alone. *)
FinishJobUnfenced(w, status, error) ==
  LET j == job[held[w]] IN
  job' = [job EXCEPT ![held[w]] = Release(j, status, error)]

(* finishConsultantWorkflowJob: token and status, not the lease's expiry. *)
FinishJob(w, status, error) ==
  LET j == job[held[w]] IN
  job' = IF j.token = w /\ j.status = "running"
         THEN [job EXCEPT ![held[w]] = Release(@, status, error)]
         ELSE job

Finish(w) ==
  /\ pc[w] = "closing"
  /\ FinishJob(w, "completed", NULL)
  /\ Leave(w)
  /\ UNCHANGED <<session, round, output, attempt, inflight, waitingVars>>

(* The UPDATE itself fails. *)
FinishFault(w) ==
  /\ pc[w] = "closing"
  /\ GoTo(w, "catch")
  /\ UNCHANGED <<dbVars, held, inflight, waitingVars>>

(* The catch block: a lost lease writes nothing more. *)
Catch(w) ==
  /\ pc[w] = "catch"
  /\ IF Renewable(w) THEN GoTo(w, "failing") /\ UNCHANGED held ELSE Leave(w)
  /\ UNCHANGED <<dbVars, inflight, waitingVars>>

MarkFailed(w) ==
  /\ pc[w] = "failing"
  /\ IF Fenced(w)
     THEN SaveSession(Failed(held[w])) /\ GoTo(w, "marked") /\ UNCHANGED held
     ELSE Leave(w) /\ UNCHANGED session
  /\ UNCHANGED <<round, job, output, attempt, inflight, waitingVars>>

FinishFailed(w) ==
  /\ pc[w] = "marked"
  /\ FinishJob(w, "failed", "workflow-execution-failed")
  /\ GoTo(w, "incident")
  /\ UNCHANGED <<session, round, output, attempt, held, inflight, waitingVars>>

(* The process dies; the calls it awaits never report. *)
Crash(w) ==
  /\ pc[w] # "idle"
  /\ Leave(w)
  /\ inflight' = [inflight EXCEPT ![w] = [r \in Rounds |-> {}]]
  /\ UNCHANGED <<dbVars, waitingVars>>

(* A rejected await outside the catch block, or a leaseLost flag set by a
   failed heartbeat: the job is left to its lease. *)
Abandon(w) ==
  /\ pc[w] # "idle"
  /\ Leave(w)
  /\ UNCHANGED <<dbVars, inflight, waitingVars>>

-----------------------------------------------------------------------------
(* Recovery: leases, operator and incident controller. *)

LeaseElapses(r) ==
  /\ job[r].status = "running" /\ job[r].live
  /\ job' = [job EXCEPT ![r].live = FALSE]
  /\ UNCHANGED <<session, round, output, attempt, workerVars, waitingVars>>

WindowCloses(r) ==
  /\ round[r].status = "approved" /\ round[r].open
  /\ round' = [round EXCEPT ![r].open = FALSE]
  /\ UNCHANGED <<session, job, output, attempt, workerVars, waitingVars>>

(* What the expiry statement asks of rounds and attempts, which it does not lock. *)
Repeatable(r) ==
  /\ round[r].status = "approved"
  /\ Uncertain(r) = {} /\ attempt[r].calls < MaxCalls

(* Mutant of Resumable: resumes are not bounded. *)
ResumableUnbounded(r) ==
  /\ session.execution = r /\ ~session.cancelled
  /\ round[r].open

(* What it asks of the rows it has locked, and of the clock. *)
Resumable(r) ==
  /\ session.execution = r /\ ~session.cancelled
  /\ round[r].open
  /\ job[r].resumes < MaxResumes

Expired(r) == job[r].status = "running" /\ ~job[r].live

(* Mutant of Expire: a published execution's job is not looked at. *)
ExpireUnpublished(r, published, repeatable) ==
  LET again == repeatable /\ Resumable(r)
      status == IF again THEN "queued" ELSE "failed"
  IN
  /\ ~published
  /\ job' = [job EXCEPT ![r] = [Release(@, status, "execution-interrupted") EXCEPT
                                  !.resumes = job[r].resumes + IF again THEN 1 ELSE 0]]
  /\ session' = IF session.execution = r /\ ~session.cancelled
                THEN [session EXCEPT !.state = IF again THEN "researching" ELSE "workflow_failed"]
                ELSE session

(* What the statement writes, given what its snapshot shows. *)
Expire(r, published, repeatable) ==
  LET again == repeatable /\ Resumable(r)
      status == IF published THEN "completed" ELSE IF again THEN "queued" ELSE "failed"
  IN
  /\ job' = [job EXCEPT ![r] = [Release(@, status, "execution-interrupted") EXCEPT
                                  !.resumes = job[r].resumes + IF again THEN 1 ELSE 0]]
  /\ session' = IF ~published /\ session.execution = r /\ ~session.cancelled
                THEN [session EXCEPT !.state = IF again THEN "researching" ELSE "workflow_failed"]
                ELSE session

(* failExpiredConsultantWorkflowJobs, with a snapshot as fresh as its locks. *)
FailExpired(r) ==
  /\ Expired(r)
  /\ Expire(r, output = r, Repeatable(r))
  /\ UNCHANGED <<round, output, attempt, workerVars, waitingVars>>

(* The same statement under READ COMMITTED: rounds, attempts and output are those of
   its snapshot; session and job are the latest versions, once it has locked them.
   It takes less than a lease (90 seconds): a job that was requeued and claimed again
   after the snapshot is not expired when it writes. *)
SweepRead(x, r) ==
  /\ sweep[x] = NULL
  /\ job[r].status = "running"
  /\ sweep' = [sweep EXCEPT ![x] = [round |-> r, resumes |-> job[r].resumes,
                                    published |-> output = r, repeatable |-> Repeatable(r)]]
  /\ UNCHANGED <<dbVars, workerVars, tab, settling, missed>>

SweepWrite(x) ==
  LET r == sweep[x].round IN
  /\ sweep[x] # NULL
  /\ IF Expired(r) /\ job[r].resumes = sweep[x].resumes
     THEN Expire(r, sweep[x].published, sweep[x].repeatable)
     ELSE UNCHANGED <<session, job>>
  /\ missed' = IF job[r].status # "queued" /\ job'[r].status = "queued" /\ Uncertain(r) # {}
               THEN missed \cup {r} ELSE missed
  /\ sweep' = [sweep EXCEPT ![x] = NULL]
  /\ UNCHANGED <<round, output, attempt, workerVars, tab, settling>>

(* Mutant of Resume: of any execution. *)
ResumeDisplaced(r) ==
  /\ session.state = "workflow_failed" /\ ~session.cancelled
  /\ job[r].status = "failed" /\ job[r].error # "user-cancelled"
  /\ round[r].status \in {"approved", "failed"} /\ round[r].open
  /\ job[r].resumes < MaxResumes
  /\ ActiveRounds = {}
  /\ Uncertain(r) = {} /\ attempt[r].calls < MaxCalls
  /\ round' = [round EXCEPT ![r].status = "approved"]
  /\ job' = [job EXCEPT ![r] = [Release(@, "queued", NULL) EXCEPT
                                  !.resumes = job[r].resumes + 1]]
  /\ session' = Researching(r)
  /\ UNCHANGED <<output, attempt, inflight, waitingVars>>

(* resumeFailedConsultantResearchExecution, called by the operator's CLI and by
   the incident controller; the quorum of retained stages is left open. *)
Resume(r) ==
  /\ session.execution = r /\ session.state = "workflow_failed" /\ ~session.cancelled
  /\ job[r].status = "failed" /\ job[r].error # "user-cancelled"
  /\ round[r].status \in {"approved", "failed"} /\ round[r].open
  /\ job[r].resumes < MaxResumes
  /\ ActiveRounds = {}
  /\ Uncertain(r) = {} /\ attempt[r].calls < MaxCalls
  /\ round' = [round EXCEPT ![r].status = "approved"]
  /\ job' = [job EXCEPT ![r] = [Release(@, "queued", NULL) EXCEPT
                                  !.resumes = job[r].resumes + 1]]
  /\ session' = Researching(r)
  /\ UNCHANGED <<output, attempt, inflight, waitingVars>>

OperatorResume(r) == Resume(r) /\ UNCHANGED <<pc, held>>

(* applyConsultantIncidentRecovery after containment, by the worker itself. *)
IncidentResume(w) == pc[w] = "incident" /\ Resume(held[w]) /\ Leave(w)

IncidentReview(w) ==
  /\ pc[w] = "incident"
  /\ Leave(w)
  /\ UNCHANGED <<dbVars, inflight, waitingVars>>

(* Mutant of FocusRecover: of an execution the session no longer names. *)
FocusRecoverDisplaced(r) ==
  /\ session.state = "workflow_failed" /\ ~session.cancelled
  /\ round[r].status = "failed" /\ round[r].number >= 2 /\ LastRow(r)
  /\ round[r].parent \in Completed
  /\ \A s \in Completed : round[s].number < round[r].number
  /\ ActiveRounds = {}
  /\ job[r].status = "failed" /\ job[r].error = "workflow-execution-failed"
  /\ attempt[r].open = {} /\ attempt[r].calls \in 1 .. MaxCalls - 2
  /\ round' = [round EXCEPT ![r].status = "approved"]
  /\ job' = [job EXCEPT ![r] = Release(@, "queued", NULL)]
  /\ session' = Researching(r)
  /\ UNCHANGED <<output, attempt, workerVars, waitingVars>>

(* recoverApprovedFocusStage: a later round that failed in its focus analysis. *)
FocusRecover(r) ==
  /\ session.execution = r /\ session.state = "workflow_failed" /\ ~session.cancelled
  /\ round[r].status = "failed" /\ round[r].number >= 2 /\ LastRow(r)
  /\ round[r].parent \in Completed
  /\ \A s \in Completed : round[s].number < round[r].number
  /\ ActiveRounds = {}
  /\ job[r].status = "failed" /\ job[r].error = "workflow-execution-failed"
  /\ attempt[r].open = {} /\ attempt[r].calls \in 1 .. MaxCalls - 2
  /\ round' = [round EXCEPT ![r].status = "approved"]
  /\ job' = [job EXCEPT ![r] = Release(@, "queued", NULL)]
  /\ session' = Researching(r)
  /\ UNCHANGED <<output, attempt, workerVars, waitingVars>>

(* Mutant of RecoverRetained: work may be under way. *)
RecoverRetainedWhileActive(r, n) ==
  /\ session.execution = r
  /\ \/ session.state = "workflow_failed" /\ round[r].status = "failed"
     \/ /\ session.state \in {"progressive_reveal_ready", "workflow_complete"}
        /\ round[r].status = "completed"
  /\ \A s \in Completed : round[s].recovers # r
  /\ NextRow(n)
  /\ round' = [round EXCEPT ![n] = [@ EXCEPT !.status = "completed", !.parent = r,
                                     !.recovers = r, !.number = round[r].number]]
  /\ output' = n
  /\ session' = Ready(n)
  /\ UNCHANGED <<job, attempt, workerVars, waitingVars>>

(* recoverFailedResearchRound and recoverCompletedResearchRound: a completed row
   n built from what execution r retained, without a job and without a call. *)
RecoverRetained(r, n) ==
  /\ session.execution = r
  /\ \/ session.state = "workflow_failed" /\ round[r].status = "failed"
     \/ /\ session.state \in {"progressive_reveal_ready", "workflow_complete"}
        /\ round[r].status = "completed"
  /\ ActiveRounds = {}
  /\ \A s \in Completed : round[s].recovers # r
  /\ NextRow(n)
  /\ round' = [round EXCEPT ![n] = [@ EXCEPT !.status = "completed", !.parent = r,
                                     !.recovers = r, !.number = round[r].number]]
  /\ output' = n
  /\ session' = Ready(n)
  /\ UNCHANGED <<job, attempt, workerVars, waitingVars>>

-----------------------------------------------------------------------------
Research(w) ==
  \/ \E r \in Rounds : Claim(w, r)
  \/ Start(w) \/ Checkpoint(w) \/ Publish(w)
  \/ \E s \in Stages : Dispatch(w, s) \/ \E r \in Rounds : Receipt(w, r, s)
  \/ ResearchFault(w) \/ FinalLease(w) \/ Finish(w) \/ FinishFault(w)
  \/ Catch(w) \/ MarkFailed(w) \/ FinishFailed(w)
  \/ IncidentResume(w) \/ IncidentReview(w) \/ Crash(w) \/ Abandon(w)

Next ==
  \/ StopResearch
  \/ \E w \in Workers : Research(w)
  \/ \E t \in Tabs : RevealRead(t) \/ RevealWrite(t)
  \/ \E l \in Listings : SettleWrite(l)
  \/ \E x \in Sweeps : SweepWrite(x)
  \/ \E r \in Rounds :
       \/ SaveQuote(r) \/ ApproveQuote(r)
       \/ \E l \in Listings : SettleRead(l, r)
       \/ \E x \in Sweeps : SweepRead(x, r)
       \/ LeaseElapses(r) \/ WindowCloses(r) \/ FailExpired(r)
       \/ OperatorResume(r) \/ FocusRecover(r)
       \/ \E n \in Rounds : RecoverRetained(r, n)

Spec == Init /\ [][Next]_vars

(* A worker that is alive takes its next step, and its research ends: provider
   calls time out and the allowance is finite.  worker-cli claims and expires in
   a loop; a lease nobody renews runs out. *)
Conclude(w) == Publish(w) \/ ResearchFault(w)
Advance(w) ==
  \/ Start(w) \/ FinalLease(w) \/ Finish(w) \/ FinishFault(w) \/ Catch(w)
  \/ MarkFailed(w) \/ FinishFailed(w) \/ IncidentResume(w) \/ IncidentReview(w)
Unrenewed(r) == \A w \in Workers : held[w] = r => job[r].token # w

Fairness ==
  /\ WF_vars(\E w \in Workers, r \in Rounds : Claim(w, r))
  /\ \A w \in Workers : WF_vars(Conclude(w)) /\ WF_vars(Advance(w))
  /\ \A r \in Rounds : WF_vars(LeaseElapses(r) /\ Unrenewed(r)) /\ WF_vars(FailExpired(r))

FairSpec == Spec /\ Fairness

-----------------------------------------------------------------------------
(* What the rows promise. *)

(* Completed rounds number 1, 2, ... without a gap, and two of them have the
   same number only when one re-reads the other: competing quotes, resumed
   executions and recoveries of failed rounds never publish a number twice. *)
RoundLineage ==
  \A r \in Completed :
    /\ round[r].number > 1 => \E p \in Completed : round[p].number = round[r].number - 1
    /\ \A s \in Completed :
         round[s].number = round[r].number =>
           \/ r = s \/ round[r].recovers \in Completed \/ round[s].recovers \in Completed

(* The execution whose job may still run is the one the session names: consent
   to a round is never displaced while the round is queued or running
   (consultant-research-rounds.ts:155). *)
ActiveJobIsCurrent == \A r \in ActiveRounds : session.execution = r

(* A queued or running job has an approval it may publish under: settling the
   rounds of failed jobs never takes the approval of a job that was resumed. *)
ActiveJobIsApproved ==
  \A r \in ActiveRounds : round[r].status \in {"approved", "completed"}

(* The output shown is a completed round of the highest number published:
   superseded or expired work never replaces a newer result. *)
OutputIsNewest == output # NULL => Latest(output)

(* The session says its execution was stopped exactly when that execution's job
   was: no whole-row save by a tab or a worker, on a row read before the stop,
   hides it, and none carries it over to another execution. *)
StopIsShown ==
  session.execution # NULL =>
    (session.cancelled <=> job[session.execution].error = "user-cancelled")

(* Two processes never await calls for one stage of an execution.  They await calls
   of one execution at all only after a requeue whose snapshot missed an attempt:
   otherwise nothing, no crash, lost lease or resume, lets a second process dispatch
   beside a call of the first. *)
OneDispatcher ==
  \A v, w \in Workers, r \in Rounds :
    v # w /\ inflight[v][r] # {} /\ inflight[w][r] # {} =>
      inflight[v][r] \cap inflight[w][r] = {} /\ r \in missed

(* A stop is final for its execution: nothing requeues the job, and a worker that
   is already writing its results cannot publish them. *)
StopIsFinal ==
  [][\A r \in Rounds : job[r].error = "user-cancelled" =>
       /\ job'[r] = job[r]
       /\ round'[r].status = "completed" => round[r].status = "completed"]_vars

(* A completed round's row is immutable (docs/CONSULTANT_PROGRESSIVE_RESEARCH.md:43),
   whatever late settlement, resume or recovery reaches it. *)
CompletedIsImmutable ==
  [][\A r \in Completed : round'[r] = round[r]]_vars

(* Every approved job ends: crashes, lost leases and repeated resumes leave
   nothing queued or running for ever. *)
EveryJobSettles == \A r \in Rounds : Active(r) ~> ~Active(r)
=============================================================================
