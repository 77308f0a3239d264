----------------------- MODULE ResearchExecutionProofs ----------------------
(***************************************************************************)
(* What ResearchExecution promises for any number of rounds, stages,       *)
(* workers, tabs, listings and expiry statements.                          *)
(***************************************************************************)
EXTENDS ResearchPromise, TLAPS

-----------------------------------------------------------------------------
(* The rows keep their types. *)

LEMMA NullIsNoRound == NULL \notin Rounds
BY NullAssumption, BoundsAssumption DEF Rounds

LEMMA ReleaseType ==
  ASSUME NEW j \in JobRow, NEW status \in JobStatus, NEW error \in JobError
  PROVE  Release(j, status, error) \in JobRow
BY DEF Release, JobRow

LEMMA ClaimedType ==
  ASSUME NEW j \in JobRow, NEW w \in Workers
  PROVE  [j EXCEPT !.status = "running", !.token = w, !.live = TRUE] \in JobRow
BY DEF JobRow, JobStatus

LEMMA RowTypes ==
  ASSUME TypeOK, NEW r \in Rounds
  PROVE  round[r] \in RoundRow /\ job[r] \in JobRow /\ attempt[r] \in AttemptRow
BY DEF TypeOK

LEMMA MarkedType ==
  ASSUME NEW row \in RoundRow, NEW status \in RoundStatus
  PROVE  [row EXCEPT !.status = status] \in RoundRow
BY DEF RoundRow

LEMMA SentType ==
  ASSUME NEW a \in AttemptRow, NEW s \in Stages, a.calls < MaxCalls
  PROVE  [a EXCEPT !.calls = @ + 1, !.open = @ \cup {s}] \in AttemptRow
<1>1. a.calls + 1 \in 0 .. MaxCalls /\ a.open \cup {s} \in SUBSET Stages
  BY BoundsAssumption DEF AttemptRow
<1>2. \A n \in 0 .. MaxCalls, o \in SUBSET Stages :
        [a EXCEPT !.calls = n, !.open = o] \in AttemptRow
  BY DEF AttemptRow
<1> QED
  BY <1>1, <1>2

LEMMA FinishJobType ==
  ASSUME TypeOK, NEW w \in Workers, held[w] \in Rounds,
         NEW status \in JobStatus, NEW error \in JobError, FinishJob(w, status, error)
  PROVE  job' \in [Rounds -> JobRow]
<1>1. Release(job[held[w]], status, error) \in JobRow
  BY ReleaseType DEF TypeOK
<1> QED
  BY <1>1 DEF FinishJob, TypeOK

LEMMA SaveSessionType ==
  ASSUME TypeOK, NEW s \in Session, SaveSession(s)
  PROVE  session' \in Session
BY DEF SaveSession, TypeOK

(* The rows a recovery saves. *)
LEMMA SessionRows ==
  ASSUME NEW r \in Rounds
  PROVE  Researching(r) \in Session /\ Ready(r) \in Session /\ Failed(r) \in Session
BY DEF Researching, Ready, Failed, Session, SessionState

LEMMA ResumeType ==
  ASSUME TypeOK, NEW r \in Rounds, Resume(r)
  PROVE  /\ round' \in [Rounds -> RoundRow]
         /\ job' \in [Rounds -> JobRow]
         /\ session' \in Session
<1>1. Release(job[r], "queued", NULL) \in JobRow
  BY ReleaseType DEF TypeOK, JobStatus, JobError
<1>2. [Release(job[r], "queued", NULL) EXCEPT !.resumes = job[r].resumes + 1] \in JobRow
  <2>1. job[r].resumes + 1 \in 0 .. MaxResumes
    BY BoundsAssumption DEF Resume, JobRow, TypeOK
  <2> QED
    BY <1>1, <2>1 DEF JobRow
<1>3. job' \in [Rounds -> JobRow]
  BY <1>2 DEF Resume, TypeOK
<1>4. [round[r] EXCEPT !.status = "approved"] \in RoundRow
  BY RowTypes, MarkedType DEF RoundStatus
<1>5. round' \in [Rounds -> RoundRow]
  BY <1>4 DEF Resume, TypeOK
<1> QED
  BY <1>3, <1>5, SessionRows DEF Resume

LEMMA ExpireType ==
  ASSUME TypeOK, NEW r \in Rounds, NEW p \in BOOLEAN, NEW q \in BOOLEAN, Expire(r, p, q)
  PROVE  job' \in [Rounds -> JobRow] /\ session' \in Session
<1> DEFINE again == q /\ Resumable(r)
           status == IF p THEN "completed" ELSE IF again THEN "queued" ELSE "failed"
           resumed == IF again THEN 1 ELSE 0
<1>1. Release(job[r], status, "execution-interrupted") \in JobRow
  BY ReleaseType DEF TypeOK, JobStatus, JobError
<1>2. job[r].resumes + resumed \in 0 .. MaxResumes
  BY BoundsAssumption DEF Resumable, JobRow, TypeOK
<1>3. [Release(job[r], status, "execution-interrupted") EXCEPT
         !.resumes = job[r].resumes + resumed] \in JobRow
  BY <1>1, <1>2 DEF JobRow
<1>4. job' \in [Rounds -> JobRow]
  BY <1>3 DEF Expire, TypeOK
<1>5. [session EXCEPT !.state = IF again THEN "researching" ELSE "workflow_failed"] \in Session
  BY DEF TypeOK, Session, SessionState
<1> QED
  BY <1>4, <1>5 DEF Expire, TypeOK

LEMMA ResearchType ==
  ASSUME TypeOK, NEW w \in Workers, Research(w)
  PROVE  TypeOK'
<1> USE BoundsAssumption, NullAssumption
    DEF dbVars, workerVars, waitingVars, Phase, GoTo, Leave
<1>0. pc[w] # "idle" => held[w] \in Rounds
  BY DEF TypeOK
<1>1. ASSUME NEW r \in Rounds, Claim(w, r) PROVE TypeOK'
  <2>1. [job[r] EXCEPT !.status = "running", !.token = w, !.live = TRUE] \in JobRow
    BY ClaimedType DEF TypeOK
  <2> QED
    BY <1>1, <2>1, NullIsNoRound DEF Claim, TypeOK
<1>2. CASE Start(w)
  BY <1>2 DEF Start, TypeOK
<1>3. CASE Checkpoint(w)
  BY <1>0, <1>3, SaveSessionType, SessionRows DEF Checkpoint, TypeOK
<1>4. ASSUME NEW s \in Stages, Dispatch(w, s) PROVE TypeOK'
  <2>1. held[w] \in Rounds
    BY <1>0, <1>4 DEF Dispatch
  <2>2. [attempt[held[w]] EXCEPT !.calls = @ + 1, !.open = @ \cup {s}] \in AttemptRow
    BY <1>4, <2>1, RowTypes, SentType DEF Dispatch
  <2>3. attempt' \in [Rounds -> AttemptRow]
    BY <1>4, <2>1, <2>2 DEF Dispatch, Send, TypeOK, AttemptRow
  <2>4. inflight' \in [Workers -> [Rounds -> SUBSET Stages]]
    BY <1>4, <2>1 DEF Dispatch, Send, TypeOK
  <2> QED
    BY <1>4, <2>3, <2>4 DEF Dispatch, TypeOK
<1>5. ASSUME NEW r \in Rounds, NEW s \in Stages, Receipt(w, r, s) PROVE TypeOK'
  <2>1. PICK lost \in {{}, {s}} :
          attempt' = [attempt EXCEPT ![r].open = @ \ {s}, ![r].lost = @ \cup lost]
    BY <1>5 DEF Receipt
  <2>2. attempt' \in [Rounds -> AttemptRow]
    <3>1. [attempt[r] EXCEPT !.open = @ \ {s}, !.lost = @ \cup lost] \in AttemptRow
      BY <2>1, RowTypes DEF AttemptRow
    <3> QED
      BY <2>1, <3>1 DEF TypeOK
  <2>3. inflight' \in [Workers -> [Rounds -> SUBSET Stages]]
    BY <1>5 DEF Receipt, TypeOK
  <2> QED
    BY <1>5, <2>2, <2>3 DEF Receipt, TypeOK
<1>6. CASE Publish(w)
  <2>1. held[w] \in Rounds
    BY <1>0, <1>6 DEF Publish
  <2>2. [round[held[w]] EXCEPT !.status = "completed"] \in RoundRow
    BY <2>1, RowTypes, MarkedType DEF RoundStatus
  <2> QED
    BY <1>6, <2>1, <2>2, SaveSessionType, SessionRows DEF Publish, TypeOK
<1>7. CASE ResearchFault(w) \/ FinalLease(w) \/ FinishFault(w)
  BY <1>7 DEF ResearchFault, FinalLease, FinishFault, TypeOK
<1>8. CASE Finish(w)
  <2>1. job' \in [Rounds -> JobRow]
    BY <1>8, FinishJobType DEF Finish, FinishJob, TypeOK, JobStatus, JobError
  <2> QED
    BY <1>8, <2>1 DEF Finish, TypeOK
<1>9. CASE Catch(w)
  BY <1>9 DEF Catch, TypeOK
<1>10. CASE MarkFailed(w)
  BY <1>0, <1>10, SaveSessionType, SessionRows DEF MarkFailed, TypeOK
<1>11. CASE FinishFailed(w)
  <2>1. job' \in [Rounds -> JobRow]
    BY <1>11, FinishJobType DEF FinishFailed, FinishJob, TypeOK, JobStatus, JobError
  <2> QED
    BY <1>11, <2>1 DEF FinishFailed, TypeOK
<1>12. CASE IncidentResume(w)
  <2>1. held[w] \in Rounds
    BY <1>0, <1>12 DEF IncidentResume
  <2> QED
    BY <1>12, <2>1, ResumeType DEF IncidentResume, Resume, TypeOK
<1>13. CASE IncidentReview(w) \/ Abandon(w)
  BY <1>13 DEF IncidentReview, Abandon, TypeOK
<1>14. CASE Crash(w)
  <2>1. inflight' \in [Workers -> [Rounds -> SUBSET Stages]]
    BY <1>14 DEF Crash, TypeOK
  <2> QED
    BY <1>14, <2>1 DEF Crash, TypeOK
<1> QED
  BY <1>1, <1>2, <1>3, <1>4, <1>5, <1>6, <1>7, <1>8, <1>9, <1>10, <1>11, <1>12, <1>13,
     <1>14 DEF Research

(* Whatever consultants, workers and operators do, in any number, every row and
   every process stays in the states the code knows. *)
THEOREM TypeCorrect == Spec => []TypeOK
<1>1. Init => TypeOK
  BY BoundsAssumption, NullAssumption
  DEF Init, TypeOK, Session, SessionState, RoundRow, RoundStatus, JobRow, JobStatus,
      JobError, AttemptRow, Phase
<1>2. ASSUME TypeOK, Next PROVE TypeOK'
  <2> USE <1>2 DEF dbVars, workerVars, waitingVars
  <2>1. CASE StopResearch
    <3>1. session.execution \in Rounds
      BY <2>1 DEF StopResearch, TypeOK, Session
    <3>2. Release(job[session.execution], "failed", "user-cancelled") \in JobRow
      BY <3>1, ReleaseType DEF TypeOK, JobStatus, JobError
    <3>3. [session EXCEPT !.state = "workflow_failed", !.cancelled = TRUE] \in Session
      BY DEF TypeOK, Session, SessionState
    <3> QED
      BY <2>1, <3>1, <3>2, <3>3 DEF StopResearch, TypeOK
  <2>2. ASSUME NEW w \in Workers, Research(w) PROVE TypeOK'
    BY <2>2, ResearchType
  <2>3. ASSUME NEW t \in Tabs, RevealRead(t) PROVE TypeOK'
    BY <2>3 DEF RevealRead, TypeOK
  <2>4. ASSUME NEW t \in Tabs, RevealWrite(t) PROVE TypeOK'
    <3>1. PICK state \in {tab[t].state, "workflow_complete"} :
            SaveSession([tab[t] EXCEPT !.state = state])
      BY <2>4 DEF RevealWrite
    <3>2. tab[t] \in Session
      BY <2>4 DEF RevealWrite, TypeOK
    <3>3. [tab[t] EXCEPT !.state = state] \in Session
      BY <3>1, <3>2 DEF Session, SessionState
    <3>4. session' \in Session
      BY <3>1, <3>3, SaveSessionType
    <3> QED
      BY <2>4, <3>4 DEF RevealWrite, TypeOK
  <2>5. ASSUME NEW l \in Listings, SettleWrite(l) PROVE TypeOK'
    <3>1. settling[l] \in Settlement
      BY <2>5 DEF SettleWrite, TypeOK
    <3>2. settling[l].round \in Rounds /\ settling[l].outcome \in RoundStatus
      BY <3>1 DEF Settlement, RoundStatus
    <3>3. [round[settling[l].round] EXCEPT !.status = settling[l].outcome] \in RoundRow
      BY <3>2, RowTypes, MarkedType
    <3> QED
      BY <2>5, <3>2, <3>3 DEF SettleWrite, TypeOK
  <2>6. ASSUME NEW r \in Rounds, SaveQuote(r) PROVE TypeOK'
    <3>1. PICK parent \in Completed \cup {NULL} :
            round' = [round EXCEPT ![r] = [@ EXCEPT !.status = "proposed",
                        !.number = 1 + IF parent = NULL THEN 0 ELSE round[parent].number,
                        !.parent = parent]]
      BY <2>6 DEF SaveQuote
    <3>2. 1 + (IF parent = NULL THEN 0 ELSE round[parent].number) \in Nat
      BY <3>1 DEF Completed, TypeOK, RoundRow
    <3>3. parent \in Rounds \cup {NULL}
      BY <3>1 DEF Completed
    <3>4. [round[r] EXCEPT !.status = "proposed",
             !.number = 1 + IF parent = NULL THEN 0 ELSE round[parent].number,
             !.parent = parent] \in RoundRow
      <4>1. round[r] \in RoundRow /\ "proposed" \in RoundStatus
        BY DEF TypeOK, RoundStatus
      <4>2. \A row \in RoundRow, st \in RoundStatus, n \in Nat, p \in Rounds \cup {NULL} :
              [row EXCEPT !.status = st, !.number = n, !.parent = p] \in RoundRow
        BY DEF RoundRow
      <4> QED
        BY <4>1, <4>2, <3>2, <3>3
    <3> QED
      BY <2>6, <3>1, <3>4 DEF SaveQuote, TypeOK
  <2>7. ASSUME NEW r \in Rounds, ApproveQuote(r) PROVE TypeOK'
    <3>1. \A s \in Rounds : Settled(s) \in RoundStatus
      BY DEF Settled, TypeOK, RoundRow, RoundStatus
    <3>2. \A s \in Rounds : [round[s] EXCEPT !.status =
                               IF s = r THEN "approved" ELSE Settled(s)] \in RoundRow
      BY <3>1, RowTypes, MarkedType DEF RoundStatus
    <3>3. [job[r] EXCEPT !.status = "queued"] \in JobRow
      BY DEF TypeOK, JobRow, JobStatus
    <3> QED
      BY <2>7, <3>2, <3>3, SessionRows DEF ApproveQuote, TypeOK
  <2>8. ASSUME NEW r \in Rounds, NEW l \in Listings, SettleRead(l, r) PROVE TypeOK'
    <3>1. [round |-> r, outcome |-> Settled(r)] \in Settlement
      BY <2>8 DEF SettleRead, Settled, Settlement
    <3> QED
      BY <2>8, <3>1 DEF SettleRead, TypeOK
  <2>9. ASSUME NEW r \in Rounds, LeaseElapses(r) \/ WindowCloses(r) PROVE TypeOK'
    <3>1. [job[r] EXCEPT !.live = FALSE] \in JobRow
      BY DEF TypeOK, JobRow
    <3>2. [round[r] EXCEPT !.open = FALSE] \in RoundRow
      BY DEF TypeOK, RoundRow
    <3> QED
      BY <2>9, <3>1, <3>2 DEF LeaseElapses, WindowCloses, TypeOK
  <2>10. ASSUME NEW r \in Rounds, FailExpired(r) PROVE TypeOK'
    <3>1. (output = r) \in BOOLEAN /\ Repeatable(r) \in BOOLEAN
      BY DEF Repeatable
    <3> QED
      BY <2>10, <3>1, ExpireType DEF FailExpired, TypeOK
  <2>11. ASSUME NEW r \in Rounds, OperatorResume(r) PROVE TypeOK'
    BY <2>11, ResumeType DEF OperatorResume, Resume, TypeOK
  <2>12. ASSUME NEW r \in Rounds, FocusRecover(r) PROVE TypeOK'
    <3>1. Release(job[r], "queued", NULL) \in JobRow
      BY ReleaseType DEF TypeOK, JobStatus, JobError
    <3>2. [round[r] EXCEPT !.status = "approved"] \in RoundRow
      BY RowTypes, MarkedType DEF RoundStatus
    <3> QED
      BY <2>12, <3>1, <3>2, SessionRows DEF FocusRecover, TypeOK
  <2>13. ASSUME NEW r \in Rounds, NEW n \in Rounds, RecoverRetained(r, n) PROVE TypeOK'
    <3>1. [round[n] EXCEPT !.status = "completed", !.parent = r, !.recovers = r,
             !.number = round[r].number] \in RoundRow
      <4>1. round[n] \in RoundRow /\ round[r].number \in Nat /\ "completed" \in RoundStatus
        BY DEF TypeOK, RoundRow, RoundStatus
      <4>2. \A row \in RoundRow, st \in RoundStatus, k \in Nat, p \in Rounds :
              [row EXCEPT !.status = st, !.parent = p, !.recovers = p, !.number = k] \in RoundRow
        BY DEF RoundRow
      <4> QED
        BY <4>1, <4>2
    <3> QED
      BY <2>13, <3>1, SessionRows DEF RecoverRetained, TypeOK
  <2>14. ASSUME NEW x \in Sweeps, NEW r \in Rounds, SweepRead(x, r) PROVE TypeOK'
    <3>1. sweep'[x] \in Snapshot
      BY <2>14 DEF SweepRead, Snapshot, Repeatable, TypeOK, JobRow
    <3> QED
      BY <2>14, <3>1 DEF SweepRead, TypeOK
  <2>15. ASSUME NEW x \in Sweeps, SweepWrite(x) PROVE TypeOK'
    <3>1. sweep[x] \in Snapshot
      BY <2>15 DEF SweepWrite, TypeOK
    <3>2. /\ sweep[x].round \in Rounds
          /\ sweep[x].published \in BOOLEAN /\ sweep[x].repeatable \in BOOLEAN
      BY <3>1 DEF Snapshot
    <3>3. job' \in [Rounds -> JobRow] /\ session' \in Session
      BY <2>15, <3>2, ExpireType DEF SweepWrite, TypeOK
    <3>4. missed' \subseteq Rounds /\ sweep' \in [Sweeps -> Snapshot \cup {NULL}]
      BY <2>15, <3>2 DEF SweepWrite, TypeOK
    <3> QED
      BY <2>15, <3>3, <3>4 DEF SweepWrite, TypeOK
  <2> QED
    BY <1>2, <2>1, <2>2, <2>3, <2>4, <2>5, <2>6, <2>7, <2>8, <2>9, <2>10, <2>11, <2>12,
       <2>13, <2>14, <2>15 DEF Next
<1>3. TypeOK /\ UNCHANGED vars => TypeOK'
  BY DEF TypeOK, vars
<1> QED
  BY <1>1, <1>2, <1>3, PTL DEF Spec

-----------------------------------------------------------------------------
(* The steps that write a session, round, job or output row. *)

FinishStep(w) ==
  /\ held[w] \in Rounds
  /\ \E status \in {"completed", "failed"}, error \in {NULL, "workflow-execution-failed"} :
       FinishJob(w, status, error)
  /\ UNCHANGED <<session, round, output>>

(* An expiry, whatever its snapshot showed. *)
ExpireStep(r) ==
  /\ Expired(r)
  /\ \E published, repeatable \in BOOLEAN : Expire(r, published, repeatable)
  /\ job'[r].status = "queued" => Uncertain(r) = {} \/ r \in missed'
  /\ UNCHANGED <<round, output>>

RowStep ==
  \/ UNCHANGED <<session, round, job, output>>
  \/ StopResearch
  \/ \E w \in Workers, r \in Rounds : Claim(w, r)
  \/ \E w \in Workers : held[w] \in Rounds /\ (Checkpoint(w) \/ Publish(w) \/ MarkFailed(w))
  \/ \E w \in Workers : FinishStep(w)
  \/ \E t \in Tabs : RevealWrite(t)
  \/ \E l \in Listings : SettleWrite(l)
  \/ \E r \in Rounds : SaveQuote(r) \/ ApproveQuote(r) \/ LeaseElapses(r) \/ WindowCloses(r)
  \/ \E r \in Rounds : ExpireStep(r) \/ Resume(r) \/ FocusRecover(r)
  \/ \E r, n \in Rounds : RecoverRetained(r, n)

LEMMA RowSteps ==
  ASSUME TypeOK, [Next]_vars
  PROVE  RowStep
<1>1. CASE UNCHANGED vars
  BY <1>1 DEF vars, RowStep
<1>2. ASSUME NEW w \in Workers, Research(w) PROVE RowStep
  <2> USE DEF dbVars, workerVars
  <2>0. pc[w] # "idle" => held[w] \in Rounds
    BY DEF TypeOK
  <2>1. CASE Start(w) \/ ResearchFault(w) \/ FinalLease(w) \/ FinishFault(w) \/ Catch(w)
    BY <2>1 DEF Start, ResearchFault, FinalLease, FinishFault, Catch, RowStep
  <2>2. CASE IncidentReview(w) \/ Crash(w) \/ Abandon(w)
    BY <2>2 DEF IncidentReview, Crash, Abandon, RowStep
  <2>2s. ASSUME NEW s \in Stages, Dispatch(w, s) \/ \E r \in Rounds : Receipt(w, r, s)
         PROVE  RowStep
    BY <2>2s DEF Dispatch, Receipt, RowStep
  <2>3. CASE Checkpoint(w) \/ Publish(w) \/ MarkFailed(w)
    BY <2>0, <2>3 DEF Checkpoint, Publish, MarkFailed, RowStep
  <2>4. CASE Finish(w)
    <3>1. held[w] \in Rounds /\ FinishJob(w, "completed", NULL)
      BY <2>0, <2>4 DEF Finish
    <3> QED
      BY <2>4, <3>1 DEF Finish, FinishStep, RowStep
  <2>5. CASE FinishFailed(w)
    <3>1. held[w] \in Rounds /\ FinishJob(w, "failed", "workflow-execution-failed")
      BY <2>0, <2>5 DEF FinishFailed
    <3> QED
      BY <2>5, <3>1 DEF FinishFailed, FinishStep, RowStep
  <2>6. CASE IncidentResume(w)
    BY <2>0, <2>6 DEF IncidentResume, RowStep
  <2> QED
    BY <1>2, <2>1, <2>2, <2>2s, <2>3, <2>4, <2>5, <2>6 DEF Research, RowStep
<1>3. ASSUME NEW t \in Tabs, RevealRead(t) PROVE RowStep
  BY <1>3 DEF RevealRead, dbVars, RowStep
<1>4. ASSUME NEW l \in Listings, NEW r \in Rounds, SettleRead(l, r) PROVE RowStep
  BY <1>4 DEF SettleRead, dbVars, RowStep
<1>5. ASSUME NEW r \in Rounds, OperatorResume(r) PROVE RowStep
  BY <1>5 DEF OperatorResume, RowStep
<1>6. ASSUME NEW r \in Rounds, FailExpired(r) PROVE RowStep
  <2>1. (output = r) \in BOOLEAN /\ Repeatable(r) \in BOOLEAN
    BY DEF Repeatable
  <2>2. job'[r].status = "queued" => Uncertain(r) = {}
    BY <1>6 DEF FailExpired, Expire, Release, Repeatable, TypeOK, JobRow
  <2>3. ExpireStep(r)
    BY <1>6, <2>1, <2>2 DEF FailExpired, ExpireStep
  <2> QED
    BY <2>3 DEF RowStep
<1>7. ASSUME NEW x \in Sweeps, NEW r \in Rounds, SweepRead(x, r) PROVE RowStep
  BY <1>7 DEF SweepRead, dbVars, RowStep
<1>8. ASSUME NEW x \in Sweeps, SweepWrite(x) PROVE RowStep
  <2>1. /\ sweep[x].round \in Rounds
        /\ sweep[x].published \in BOOLEAN /\ sweep[x].repeatable \in BOOLEAN
    BY <1>8 DEF SweepWrite, TypeOK, Snapshot
  <2>2. CASE UNCHANGED <<session, job>>
    BY <1>8, <2>2 DEF SweepWrite, RowStep
  <2>3. CASE /\ Expired(sweep[x].round)
             /\ Expire(sweep[x].round, sweep[x].published, sweep[x].repeatable)
    <3>1. job'[sweep[x].round].status = "queued" =>
            Uncertain(sweep[x].round) = {} \/ sweep[x].round \in missed'
      BY <1>8, <2>3 DEF SweepWrite, Expired
    <3>2. ExpireStep(sweep[x].round)
      BY <1>8, <2>1, <2>3, <3>1 DEF SweepWrite, ExpireStep
    <3> QED
      BY <2>1, <3>2 DEF RowStep
  <2> QED
    BY <1>8, <2>2, <2>3 DEF SweepWrite
<1> QED
  BY <1>1, <1>2, <1>3, <1>4, <1>5, <1>6, <1>7, <1>8 DEF Next, RowStep

-----------------------------------------------------------------------------
(* A stop is final. *)

(* A job exists from its round's approval on, and a stopped one has ended. *)
StopInv ==
  \A r \in Rounds :
    /\ round[r].status \in {"none", "proposed"} => job[r].status = "none"
    /\ job[r].status = "none" => job[r].error # "user-cancelled"
    /\ job[r].error = "user-cancelled" => job[r].status = "failed"

LEMMA StopStep ==
  ASSUME TypeOK, StopInv, [Next]_vars
  PROVE  /\ StopInv'
         /\ \A r \in Rounds : job[r].error = "user-cancelled" =>
              /\ job'[r] = job[r]
              /\ round'[r].status = "completed" => round[r].status = "completed"
<1> DEFINE Final == \A r \in Rounds : job[r].error = "user-cancelled" =>
              /\ job'[r] = job[r]
              /\ round'[r].status = "completed" => round[r].status = "completed"
<1> SUFFICES StopInv' /\ Final
  OBVIOUS
<1>0. RowStep
  BY RowSteps
<1> USE NullAssumption DEF workerVars, TypeOK, JobRow, RoundRow, Release
<1>a. NULL # "user-cancelled"
  BY NullAssumption
<1>1. CASE UNCHANGED <<session, round, job, output>>
  BY <1>1 DEF StopInv
<1>2. CASE StopResearch
  BY <1>2 DEF StopResearch, StopInv, Active, Session
<1>3. ASSUME NEW w \in Workers, NEW r \in Rounds, Claim(w, r) PROVE StopInv' /\ Final
  BY <1>3 DEF Claim, StopInv
<1>4. ASSUME NEW w \in Workers, held[w] \in Rounds, Checkpoint(w) \/ MarkFailed(w)
      PROVE  StopInv' /\ Final
  BY <1>4 DEF Checkpoint, MarkFailed, StopInv
<1>5. ASSUME NEW w \in Workers, held[w] \in Rounds, Publish(w) PROVE StopInv' /\ Final
  BY <1>5 DEF Publish, Authorised, Fenced, Renewable, StopInv
<1>6. ASSUME NEW w \in Workers, FinishStep(w) PROVE StopInv' /\ Final
  BY <1>6, <1>a DEF FinishStep, FinishJob, StopInv
<1>7. ASSUME NEW t \in Tabs, RevealWrite(t) PROVE StopInv' /\ Final
  BY <1>7 DEF RevealWrite, StopInv
<1>8. ASSUME NEW l \in Listings, SettleWrite(l) PROVE StopInv' /\ Final
  <2>1. \/ round' = round
        \/ \E r \in Rounds : /\ round[r].status = "approved"
                             /\ round' = [round EXCEPT ![r].status = settling[l].outcome]
    BY <1>8 DEF SettleWrite, Settlement
  <2>2. job' = job /\ settling[l].outcome \in {"failed", "cancelled"}
    BY <1>8 DEF SettleWrite, Settlement
  <2> QED
    BY <2>1, <2>2 DEF StopInv
<1>9. ASSUME NEW r \in Rounds, SaveQuote(r) PROVE StopInv' /\ Final
  BY <1>9 DEF SaveQuote, NextRow, StopInv
<1>10. ASSUME NEW r \in Rounds, ApproveQuote(r) PROVE StopInv' /\ Final
  BY <1>10 DEF ApproveQuote, Settled, StopInv
<1>11. ASSUME NEW r \in Rounds, LeaseElapses(r) \/ WindowCloses(r) PROVE StopInv' /\ Final
  <2>1. CASE LeaseElapses(r)
    BY <2>1 DEF LeaseElapses, StopInv
  <2>2. CASE WindowCloses(r)
    BY <2>2 DEF WindowCloses, StopInv
  <2> QED
    BY <1>11, <2>1, <2>2
<1>12. ASSUME NEW r \in Rounds, ExpireStep(r) PROVE StopInv' /\ Final
  BY <1>12 DEF ExpireStep, Expired, Expire, StopInv
<1>13. ASSUME NEW r \in Rounds, Resume(r) PROVE StopInv' /\ Final
  BY <1>13, <1>a DEF Resume, StopInv
<1>14. ASSUME NEW r \in Rounds, FocusRecover(r) PROVE StopInv' /\ Final
  BY <1>14, <1>a DEF FocusRecover, StopInv
<1>15. ASSUME NEW r \in Rounds, NEW n \in Rounds, RecoverRetained(r, n)
       PROVE  StopInv' /\ Final
  BY <1>15 DEF RecoverRetained, NextRow, StopInv
<1> QED
  BY <1>0, <1>1, <1>2, <1>3, <1>4, <1>5, <1>6, <1>7, <1>8, <1>9, <1>10, <1>11, <1>12,
     <1>13, <1>14, <1>15 DEF RowStep

LEMMA StopInvariant == Spec => []StopInv
<1>1. Init => StopInv
  BY NullAssumption DEF Init, StopInv
<1>2. TypeOK /\ StopInv /\ [Next]_vars => StopInv'
  BY StopStep
<1> QED
  BY <1>1, <1>2, TypeCorrect, PTL DEF Spec

(* A stop is final for its execution: whatever worker, lease or recovery moves
   later, the job stays stopped and its round is never published. *)
THEOREM StopNeverUndone == Spec => StopIsFinal
<1>1. TypeOK /\ StopInv /\ [Next]_vars =>
        [\A r \in Rounds : job[r].error = "user-cancelled" =>
           /\ job'[r] = job[r]
           /\ round'[r].status = "completed" => round[r].status = "completed"]_vars
  BY StopStep
<1> QED
  BY <1>1, StopInvariant, TypeCorrect, PTL DEF Spec, StopIsFinal

-----------------------------------------------------------------------------
(* The session shows a stop exactly when the job was stopped. *)

(* What a tab still means to write back: it names an execution, and says "stopped"
   only of one that was. *)
TabInv ==
  \A t \in Tabs : tab[t] # NULL =>
    /\ tab[t] \in Session /\ tab[t].execution # NULL
    /\ tab[t].cancelled => job[tab[t].execution].error = "user-cancelled"

ShownInv == StopIsShown /\ TabInv

(* A tab keeps the row it read, or has just read the session's. *)
LEMMA TabSteps ==
  ASSUME TypeOK, [Next]_vars, NEW t \in Tabs
  PROVE  \/ tab'[t] = tab[t] \/ tab'[t] = NULL
         \/ tab'[t] = session /\ session.execution # NULL /\ UNCHANGED job
<1> USE DEF dbVars, workerVars, waitingVars
<1>1. tab \in [Tabs -> Session \cup {NULL}]
  BY DEF TypeOK
<1>2. ASSUME NEW u \in Tabs, RevealRead(u) \/ RevealWrite(u)
      PROVE  \/ tab'[t] = tab[t] \/ tab'[t] = NULL
             \/ tab'[t] = session /\ session.execution # NULL /\ UNCHANGED job
  BY <1>1, <1>2 DEF RevealRead, RevealWrite
<1>3. ASSUME NEW w \in Workers, Research(w) PROVE tab' = tab
  BY <1>3 DEF Research, Claim, Start, Checkpoint, Dispatch, Receipt, Publish, ResearchFault,
     FinalLease, Finish, FinishFault, Catch, MarkFailed, FinishFailed, IncidentResume,
     Resume, IncidentReview, Crash, Abandon
<1>4. ASSUME Next, \A u \in Tabs : ~RevealRead(u) /\ ~RevealWrite(u),
             \A w \in Workers : ~Research(w)
      PROVE  tab' = tab
  BY <1>4 DEF Next, StopResearch, SettleWrite, SaveQuote, ApproveQuote, SettleRead,
     LeaseElapses, WindowCloses, FailExpired, SweepRead, SweepWrite, OperatorResume,
     Resume, FocusRecover, RecoverRetained
<1> QED
  BY <1>2, <1>3, <1>4 DEF vars

LEMMA TabStep ==
  ASSUME TypeOK, StopInv, ShownInv, [Next]_vars
  PROVE  TabInv'
<1> SUFFICES ASSUME NEW t \in Tabs, tab'[t] # NULL
             PROVE  /\ tab'[t] \in Session /\ tab'[t].execution # NULL
                    /\ tab'[t].cancelled => job'[tab'[t].execution].error = "user-cancelled"
  BY DEF TabInv
<1>1. CASE tab'[t] = tab[t]
  <2>1. /\ tab[t] \in Session /\ tab[t].execution # NULL
        /\ tab[t].cancelled => job[tab[t].execution].error = "user-cancelled"
    BY <1>1 DEF ShownInv, TabInv
  <2>2. tab[t].execution \in Rounds
    BY <2>1 DEF Session
  <2> QED
    BY <1>1, <2>1, <2>2, StopStep
<1>2. CASE tab'[t] = session /\ session.execution # NULL /\ UNCHANGED job
  BY <1>2 DEF ShownInv, StopIsShown, TypeOK
<1> QED
  BY <1>1, <1>2, TabSteps

(* A saved row is shown if it is not of a stopped execution. *)
LEMMA SavedIsShown ==
  ASSUME StopIsShown, UNCHANGED job, NEW s \in Session, s.execution # NULL, SaveSession(s),
         s.cancelled => job[s.execution].error = "user-cancelled"
  PROVE  StopIsShown'
<1>1. CASE session' = session
  BY <1>1 DEF StopIsShown
<1>2. CASE session' = s /\ job[s.execution].error # "user-cancelled"
  BY <1>2 DEF StopIsShown
<1> QED
  BY <1>1, <1>2 DEF SaveSession

LEMMA ShownStep ==
  ASSUME TypeOK, StopInv, ShownInv, [Next]_vars
  PROVE  ShownInv'
<1> SUFFICES StopIsShown'
  BY TabStep DEF ShownInv
<1>0. RowStep
  BY RowSteps
<1>a. NULL # "user-cancelled" /\ NULL \notin Rounds
  BY NullAssumption, NullIsNoRound
<1>b. /\ StopIsShown
      /\ \A r \in Rounds : job[r].status \in {"none", "queued", "running", "completed"} =>
           job[r].error # "user-cancelled"
  BY DEF ShownInv, StopInv
<1> USE <1>a, <1>b DEF workerVars, TypeOK, JobRow, RoundRow, Release, Session,
        Researching, Ready, Failed
<1>1. CASE UNCHANGED <<session, round, job, output>>
  BY <1>1 DEF StopIsShown
<1>2. CASE StopResearch
  BY <1>2 DEF StopResearch, StopIsShown
<1>3. ASSUME NEW w \in Workers, NEW r \in Rounds, Claim(w, r) PROVE StopIsShown'
  <2>1. \A s \in Rounds : job'[s].error = job[s].error
    BY <1>3 DEF Claim
  <2> QED
    BY <1>3, <2>1 DEF Claim, StopIsShown
<1>4. ASSUME NEW w \in Workers, held[w] \in Rounds, Checkpoint(w) \/ Publish(w) \/ MarkFailed(w)
      PROVE  StopIsShown'
  <2>1. \A r \in Rounds : /\ Researching(r) \in Session /\ Ready(r) \in Session
                          /\ Failed(r) \in Session
    BY DEF SessionState
  <2>2. CASE Checkpoint(w)
    BY <1>4, <2>1, <2>2, SavedIsShown DEF Checkpoint
  <2>3. CASE Publish(w)
    BY <1>4, <2>1, <2>3, SavedIsShown DEF Publish
  <2>4. CASE MarkFailed(w)
    <3>1. CASE session' = session /\ job' = job
      BY <3>1 DEF StopIsShown
    <3>2. CASE SaveSession(Failed(held[w])) /\ job' = job
      BY <1>4, <2>1, <3>2, SavedIsShown
    <3> QED
      BY <2>4, <3>1, <3>2 DEF MarkFailed
  <2> QED
    BY <1>4, <2>2, <2>3, <2>4
<1>5. ASSUME NEW w \in Workers, FinishStep(w) PROVE StopIsShown'
  BY <1>5 DEF FinishStep, FinishJob, StopIsShown
<1>6. ASSUME NEW t \in Tabs, RevealWrite(t) PROVE StopIsShown'
  <2>1. /\ tab[t] \in Session /\ tab[t].execution # NULL
        /\ tab[t].cancelled => job[tab[t].execution].error = "user-cancelled"
    BY <1>6 DEF RevealWrite, ShownInv, TabInv
  <2>2. PICK state \in SessionState : SaveSession([tab[t] EXCEPT !.state = state])
    BY <1>6, <2>1 DEF RevealWrite, SessionState
  <2> QED
    BY <1>6, <2>1, <2>2, SavedIsShown DEF RevealWrite
<1>7. ASSUME NEW l \in Listings, SettleWrite(l) PROVE StopIsShown'
  BY <1>7 DEF SettleWrite, StopIsShown
<1>8. ASSUME NEW r \in Rounds, SaveQuote(r) \/ WindowCloses(r) PROVE StopIsShown'
  BY <1>8 DEF SaveQuote, WindowCloses, StopIsShown
<1>9. ASSUME NEW r \in Rounds, LeaseElapses(r) PROVE StopIsShown'
  BY <1>9 DEF LeaseElapses, StopIsShown
<1>10. ASSUME NEW r \in Rounds, ExpireStep(r) PROVE StopIsShown'
  BY <1>10 DEF ExpireStep, Expired, Expire, StopIsShown
<1>11. ASSUME NEW r \in Rounds, Resume(r) PROVE StopIsShown'
  BY <1>11 DEF Resume, StopIsShown
<1>12. ASSUME NEW r \in Rounds, FocusRecover(r) PROVE StopIsShown'
  BY <1>12 DEF FocusRecover, StopIsShown
<1>13. ASSUME NEW r \in Rounds, ApproveQuote(r) PROVE StopIsShown'
  BY <1>13 DEF ApproveQuote, StopIsShown, StopInv
<1>14. ASSUME NEW r \in Rounds, NEW n \in Rounds, RecoverRetained(r, n) PROVE StopIsShown'
  BY <1>14 DEF RecoverRetained, NextRow, StopIsShown, StopInv
<1> QED
  BY <1>0, <1>1, <1>2, <1>3, <1>4, <1>5, <1>6, <1>7, <1>8, <1>9, <1>10, <1>11, <1>12,
     <1>13, <1>14 DEF RowStep

(* Whatever a tab writes back, the session says "stopped" of its execution exactly
   when that execution was stopped. *)
THEOREM StopAlwaysShown == Spec => []StopIsShown
<1>1. Init => ShownInv
  BY DEF Init, ShownInv, StopIsShown, TabInv
<1>2. TypeOK /\ StopInv /\ ShownInv /\ [Next]_vars => ShownInv'
  BY ShownStep
<1>3. ShownInv => StopIsShown
  BY DEF ShownInv
<1> QED
  BY <1>1, <1>2, <1>3, StopInvariant, TypeCorrect, PTL DEF Spec

-----------------------------------------------------------------------------
(* Completed rounds are immutable. *)

LEMMA CompletedStep ==
  ASSUME TypeOK, [Next]_vars
  PROVE  \A r \in Completed : round'[r] = round[r]
<1> DEFINE Kept1 == \A r \in Completed : round'[r] = round[r]
<1>0. RowStep
  BY RowSteps
<1> USE DEF TypeOK, RoundRow, Completed
<1>1. CASE UNCHANGED <<session, round, job, output>> \/ StopResearch
  BY <1>1 DEF StopResearch
<1>2. ASSUME NEW w \in Workers, NEW r \in Rounds, Claim(w, r) PROVE Kept1
  BY <1>2 DEF Claim
<1>3. ASSUME NEW w \in Workers, held[w] \in Rounds,
             Checkpoint(w) \/ MarkFailed(w) \/ FinishStep(w)
      PROVE  Kept1
  BY <1>3 DEF Checkpoint, MarkFailed, FinishStep
<1>4. ASSUME NEW w \in Workers, held[w] \in Rounds, Publish(w) PROVE Kept1
  BY <1>4 DEF Publish, Authorised
<1>5. ASSUME NEW t \in Tabs, RevealWrite(t) PROVE Kept1
  BY <1>5 DEF RevealWrite
<1>6. ASSUME NEW l \in Listings, SettleWrite(l) PROVE Kept1
  BY <1>6 DEF SettleWrite
<1>7. ASSUME NEW r \in Rounds, SaveQuote(r) PROVE Kept1
  BY <1>7 DEF SaveQuote, NextRow
<1>8. ASSUME NEW r \in Rounds, ApproveQuote(r) PROVE Kept1
  <2>1. \A s \in Completed : s # r /\ Settled(s) = round[s].status
    BY <1>8 DEF ApproveQuote, Settled
  <2>2. \A s \in Completed : [round[s] EXCEPT !.status = round[s].status] = round[s]
    OBVIOUS
  <2> QED
    BY <1>8, <2>1, <2>2 DEF ApproveQuote
<1>9. ASSUME NEW r \in Rounds, LeaseElapses(r) \/ WindowCloses(r) \/ ExpireStep(r)
      PROVE  Kept1
  BY <1>9 DEF LeaseElapses, WindowCloses, ExpireStep, Expired, Expire
<1>10. ASSUME NEW r \in Rounds, Resume(r) \/ FocusRecover(r) PROVE Kept1
  BY <1>10 DEF Resume, FocusRecover
<1>11. ASSUME NEW r \in Rounds, NEW n \in Rounds, RecoverRetained(r, n) PROVE Kept1
  BY <1>11 DEF RecoverRetained, NextRow
<1> QED
  BY <1>0, <1>1, <1>2, <1>3, <1>4, <1>5, <1>6, <1>7, <1>8, <1>9, <1>10, <1>11
  DEF RowStep, FinishStep

(* A completed round never changes: no late settlement, resume or recovery
   reaches its row. *)
THEOREM CompletedNeverRewritten == Spec => CompletedIsImmutable
<1>1. TypeOK /\ [Next]_vars => [\A r \in Completed : round'[r] = round[r]]_vars
  BY CompletedStep
<1> QED
  BY <1>1, TypeCorrect, PTL DEF Spec, CompletedIsImmutable

-----------------------------------------------------------------------------
(* Repeated work is counted. *)

(* A step that takes up work again. *)
Requeued(r) == job[r].status \in {"running", "completed", "failed"} /\ job'[r].status = "queued"

(* A job is put back in the queue by a resume, which is counted and bounded, or, when
   its round follows a published one and nothing is uncertain, with two calls of the
   allowance left. *)
Counted(r) ==
  \/ job'[r].resumes = job[r].resumes + 1 /\ job'[r].resumes <= MaxResumes
  \/ /\ round[r].parent \in Completed /\ attempt[r].open = {}
     /\ attempt[r].calls <= MaxCalls - 2 /\ job'[r].resumes = job[r].resumes

Recounted ==
  \A r \in Rounds : /\ job'[r].resumes >= job[r].resumes
                   /\ Requeued(r) => Counted(r)

RequeuesAreCounted == [][Recounted]_vars

LEMMA RequeueStep ==
  ASSUME TypeOK, StopInv, [Next]_vars
  PROVE  Recounted
<1> DEFINE Bound(r) == job'[r].resumes >= job[r].resumes /\ (Requeued(r) => Counted(r))
           Same == \A r \in Rounds : Bound(r)
<1> SUFFICES Same
  BY DEF Recounted
<1>0. RowStep
  BY RowSteps
<1>a. \A r \in Rounds : job[r].resumes \in Nat /\ MaxResumes \in Nat
                        /\ attempt[r].calls \in Nat /\ MaxCalls \in Nat
  BY BoundsAssumption DEF TypeOK, JobRow, AttemptRow
<1>b. \A r \in Rounds : /\ job'[r].status = job[r].status \/ job'[r].status # "queued"
                        /\ job'[r].resumes = job[r].resumes
                        => Bound(r)
  BY <1>a DEF Requeued
<1> USE DEF TypeOK, JobRow
<1>1. CASE UNCHANGED <<session, round, job, output>>
  <2>1. job' = job
    BY <1>1
  <2> QED
    BY <2>1, <1>b
<1>2. CASE StopResearch
  <2>1. job' = [job EXCEPT ![session.execution] = Release(@, "failed", "user-cancelled")]
    BY <1>2 DEF StopResearch
  <2> QED
    BY <2>1, <1>b DEF Release
<1>3. ASSUME NEW w \in Workers, NEW r \in Rounds, Claim(w, r) PROVE Same
  BY <1>3, <1>b DEF Claim
<1>4. ASSUME NEW w \in Workers, held[w] \in Rounds,
             Checkpoint(w) \/ Publish(w) \/ MarkFailed(w)
      PROVE  Same
  BY <1>4, <1>b DEF Checkpoint, Publish, MarkFailed
<1>4f. ASSUME NEW w \in Workers, FinishStep(w) PROVE Same
  BY <1>4f, <1>b DEF FinishStep, FinishJob, Release
<1>5. ASSUME NEW t \in Tabs, RevealWrite(t) PROVE Same
  BY <1>5, <1>b DEF RevealWrite
<1>6. ASSUME NEW l \in Listings, SettleWrite(l) PROVE Same
  BY <1>6, <1>b DEF SettleWrite
<1>7. ASSUME NEW r \in Rounds, SaveQuote(r) \/ WindowCloses(r) PROVE Same
  BY <1>7, <1>b DEF SaveQuote, WindowCloses
<1>8. ASSUME NEW r \in Rounds, LeaseElapses(r) PROVE Same
  BY <1>8, <1>b DEF LeaseElapses
<1>9. ASSUME NEW r \in Rounds, ApproveQuote(r) PROVE Same
  <2>1. job[r].status = "none"
    BY <1>9 DEF ApproveQuote, StopInv
  <2>2. job' = [job EXCEPT ![r].status = "queued"]
    BY <1>9 DEF ApproveQuote
  <2> QED
    BY <2>1, <2>2, <1>a DEF Requeued
<1>10. ASSUME NEW r \in Rounds, ExpireStep(r) PROVE Same
  BY <1>10, <1>a DEF ExpireStep, Expired, Expire, Resumable, Release, Requeued, Counted
<1>11. ASSUME NEW r \in Rounds, Resume(r) PROVE Same
  BY <1>11, <1>a DEF Resume, Release, Requeued, Counted
<1>12. ASSUME NEW r \in Rounds, FocusRecover(r) PROVE Same
  <2>1. /\ job' = [job EXCEPT ![r] = Release(@, "queued", NULL)]
        /\ round[r].parent \in Completed /\ attempt[r].open = {}
        /\ attempt[r].calls \in 1 .. MaxCalls - 2
    BY <1>12 DEF FocusRecover
  <2> QED
    BY <2>1, <1>a DEF Release, Requeued, Counted
<1>13. ASSUME NEW r \in Rounds, NEW n \in Rounds, RecoverRetained(r, n) PROVE Same
  BY <1>13, <1>b DEF RecoverRetained
<1> HIDE DEF Same, TypeOK, JobRow
<1> QED
  BY <1>0, <1>1, <1>2, <1>3, <1>4, <1>4f, <1>5, <1>6, <1>7, <1>8, <1>9, <1>10, <1>11, <1>12, <1>13
  DEF RowStep

(* No way back into the queue escapes both bounds: a resume is counted against
   max_resumes, and focus recovery, which counts nothing, leaves the calls of the
   allowance as its only bound. *)
THEOREM RequeuesCounted == Spec => RequeuesAreCounted
<1>1. TypeOK /\ StopInv /\ [Next]_vars => [Recounted]_vars
  BY RequeueStep
<1> QED
  BY <1>1, TypeCorrect, StopInvariant, PTL DEF Spec, RequeuesAreCounted

-----------------------------------------------------------------------------
(* One dispatcher per execution. *)

(* An awaited call is recorded as open, and one process awaits it.  An execution that
   waits in the queue, or that another process runs, has no open call, unless it was
   requeued past one. *)
AwaitInv ==
  /\ \A w \in Workers, r \in Rounds : inflight[w][r] \subseteq attempt[r].open
  /\ \A v, w \in Workers, r \in Rounds : v # w => inflight[v][r] \cap inflight[w][r] = {}
  /\ \A r \in Rounds :
       job[r].status \in {"none", "queued"} => attempt[r].open = {} \/ r \in missed
  /\ \A v \in Workers, r \in Rounds :
       job[r].status = "running" /\ inflight[v][r] # {} => job[r].token = v \/ r \in missed
  /\ \A v, w \in Workers, r \in Rounds :
       v # w /\ inflight[v][r] # {} /\ inflight[w][r] # {} => r \in missed

(* A job comes into the queue without an open call, or past one that was missed, and
   is handed to another process out of the queue alone. *)
QueueKept(r) ==
  /\ job'[r].status \in {"none", "queued"} =>
       job[r].status \in {"none", "queued"} \/ attempt[r].open = {} \/ r \in missed'
  /\ job'[r].status = "running" =>
       job[r].status = "queued" \/ (job[r].status = "running" /\ job'[r].token = job[r].token)

LEMMA QueueSteps ==
  ASSUME TypeOK, StopInv, RowStep
  PROVE  \A r \in Rounds : QueueKept(r)
<1> DEFINE Same == \A r \in Rounds : QueueKept(r)
<1> SUFFICES Same
  OBVIOUS
<1>a. \A r \in Rounds : job'[r].status = job[r].status /\ job'[r].token = job[r].token
                        => QueueKept(r)
  BY DEF QueueKept
<1>b. \A r \in Rounds : job'[r].status \in {"completed", "failed"} => QueueKept(r)
  BY DEF QueueKept
<1> USE DEF TypeOK, JobRow
<1>1. CASE UNCHANGED <<session, round, job, output>>
  <2>1. job' = job
    BY <1>1
  <2> QED
    BY <2>1, <1>a
<1>2. CASE StopResearch
  <2>1. job' = [job EXCEPT ![session.execution] = Release(@, "failed", "user-cancelled")]
    BY <1>2 DEF StopResearch
  <2> QED
    BY <2>1, <1>a, <1>b DEF Release
<1>3. ASSUME NEW w \in Workers, NEW s \in Rounds, Claim(w, s) PROVE Same
  <2>1. QueueKept(s)
    BY <1>3 DEF Claim, QueueKept
  <2> QED
    BY <1>3, <2>1, <1>a DEF Claim
<1>4. ASSUME NEW w \in Workers, held[w] \in Rounds,
             Checkpoint(w) \/ Publish(w) \/ MarkFailed(w)
      PROVE  Same
  BY <1>4, <1>a DEF Checkpoint, Publish, MarkFailed
<1>5. ASSUME NEW w \in Workers, FinishStep(w) PROVE Same
  BY <1>5, <1>a, <1>b DEF FinishStep, FinishJob, Release
<1>6. ASSUME NEW t \in Tabs, RevealWrite(t) PROVE Same
  BY <1>6, <1>a DEF RevealWrite
<1>7. ASSUME NEW l \in Listings, SettleWrite(l) PROVE Same
  BY <1>7, <1>a DEF SettleWrite
<1>8. ASSUME NEW s \in Rounds, SaveQuote(s) \/ WindowCloses(s) \/ LeaseElapses(s) PROVE Same
  BY <1>8, <1>a DEF SaveQuote, WindowCloses, LeaseElapses
<1>9. ASSUME NEW s \in Rounds, ApproveQuote(s) PROVE Same
  <2>1. job[s].status = "none" /\ job' = [job EXCEPT ![s].status = "queued"]
    BY <1>9 DEF ApproveQuote, StopInv
  <2>2. QueueKept(s)
    BY <2>1 DEF QueueKept
  <2> QED
    BY <2>1, <2>2, <1>a
<1>10. ASSUME NEW s \in Rounds, ExpireStep(s) PROVE Same
  <2>1. /\ job[s].status = "running" /\ \A r \in Rounds \ {s} : job'[r] = job[r]
        /\ job'[s].status \in {"queued", "completed", "failed"}
    BY <1>10 DEF ExpireStep, Expired, Expire, Release
  <2>2. job'[s].status = "queued" => attempt[s].open = {} \/ s \in missed'
    BY <1>10 DEF ExpireStep, Uncertain
  <2>3. QueueKept(s)
    BY <2>1, <2>2 DEF QueueKept
  <2> QED
    BY <2>1, <2>3, <1>a
<1>11. ASSUME NEW s \in Rounds, Resume(s) \/ FocusRecover(s) PROVE Same
  <2>1. attempt[s].open = {} /\ \A r \in Rounds \ {s} : job'[r] = job[r]
    BY <1>11 DEF Resume, FocusRecover, Uncertain
  <2>2. job'[s].status = "queued"
    <3>1. CASE Resume(s)
      BY <3>1 DEF Resume, Release
    <3>2. CASE FocusRecover(s)
      BY <3>2 DEF FocusRecover, Release
    <3> QED
      BY <1>11, <3>1, <3>2
  <2>3. QueueKept(s)
    BY <2>1, <2>2 DEF QueueKept
  <2> QED
    BY <2>1, <2>3, <1>a
<1>12. ASSUME NEW s \in Rounds, NEW n \in Rounds, RecoverRetained(s, n) PROVE Same
  BY <1>12, <1>a DEF RecoverRetained
<1> HIDE DEF Same, TypeOK, JobRow
<1> QED
  BY <1>1, <1>2, <1>3, <1>4, <1>5, <1>6, <1>7, <1>8, <1>9, <1>10, <1>11, <1>12
  DEF RowStep

(* What moves calls: a dispatch, a receipt and a crash, none of which touches a job. *)
LEMMA CallSteps ==
  ASSUME TypeOK, [Next]_vars
  PROVE  \/ UNCHANGED <<attempt, inflight>> /\ missed \subseteq missed'
         \/ UNCHANGED <<job, missed>> /\ \E w \in Workers :
              \/ \E s \in Stages : Dispatch(w, s) \/ \E r \in Rounds : Receipt(w, r, s)
              \/ Crash(w)
<1> USE DEF dbVars, workerVars, waitingVars
<1> DEFINE Calls(w) == \/ \E s \in Stages : Dispatch(w, s) \/ \E r \in Rounds : Receipt(w, r, s)
                       \/ Crash(w)
<1>1. ASSUME NEW w \in Workers, Calls(w) PROVE UNCHANGED <<job, missed>>
  BY <1>1 DEF Dispatch, Receipt, Crash
<1>2. ASSUME NEW w \in Workers, Research(w), ~Calls(w)
      PROVE  UNCHANGED <<attempt, inflight, missed>>
  BY <1>2 DEF Research, Claim, Start, Checkpoint, Publish, ResearchFault, FinalLease,
     Finish, FinishFault, Catch, MarkFailed, FinishFailed, IncidentResume, Resume,
     IncidentReview, Abandon
<1>3. ASSUME NEW x \in Sweeps, SweepWrite(x)
      PROVE  UNCHANGED <<attempt, inflight>> /\ missed \subseteq missed'
  BY <1>3 DEF SweepWrite
<1>4. ASSUME Next, \A w \in Workers : ~Research(w), \A x \in Sweeps : ~SweepWrite(x)
      PROVE  UNCHANGED <<attempt, inflight, missed>>
  BY <1>4 DEF Next, StopResearch, RevealRead, RevealWrite, SettleWrite, SaveQuote,
     ApproveQuote, SettleRead, LeaseElapses, WindowCloses, FailExpired, SweepRead,
     OperatorResume, Resume, FocusRecover, RecoverRetained
<1>5. CASE UNCHANGED vars
  BY <1>5 DEF vars
<1> QED
  BY <1>1, <1>2, <1>3, <1>4, <1>5

LEMMA AwaitStep ==
  ASSUME TypeOK, StopInv, AwaitInv, [Next]_vars
  PROVE  AwaitInv'
<1> USE DEF AwaitInv
<1>a. inflight \in [Workers -> [Rounds -> SUBSET Stages]] /\ attempt \in [Rounds -> AttemptRow]
  BY DEF TypeOK
<1>b. \A w \in Workers : held[w] \in Rounds \cup {NULL} /\ (pc[w] = "running" => held[w] \in Rounds)
  BY DEF TypeOK
<1>1. CASE UNCHANGED <<attempt, inflight>> /\ missed \subseteq missed'
  <2>1. \A r \in Rounds : QueueKept(r)
    BY RowSteps, QueueSteps
  <2>2. ASSUME NEW r \in Rounds, job'[r].status \in {"none", "queued"}
        PROVE  attempt[r].open = {} \/ r \in missed'
    BY <1>1, <2>1, <2>2 DEF QueueKept
  <2>3. ASSUME NEW v \in Workers, NEW r \in Rounds, job'[r].status = "running", inflight[v][r] # {}
        PROVE  job'[r].token = v \/ r \in missed'
    BY <1>1, <2>1, <2>3 DEF QueueKept
  <2> QED
    BY <1>1, <2>2, <2>3
<1>2. ASSUME NEW w \in Workers, NEW s \in Stages, Dispatch(w, s), UNCHANGED <<job, missed>>
      PROVE  AwaitInv'
  <2> DEFINE h == held[w]
  <2>1. h \in Rounds /\ job[h].status = "running" /\ job[h].token = w
    BY <1>b, <1>2 DEF Dispatch, Authorised, Fenced, Renewable
  <2>2. s \notin attempt[h].open
    BY <1>2 DEF Dispatch, Uncertain
  <2>3. /\ attempt'[h].open = attempt[h].open \cup {s}
        /\ \A r \in Rounds \ {h} : attempt'[r] = attempt[r]
    BY <1>2, <1>a, <2>1 DEF Dispatch, Send, AttemptRow
  <2>4. /\ inflight'[w][h] = inflight[w][h] \cup {s}
        /\ \A r \in Rounds \ {h} : inflight'[w][r] = inflight[w][r]
        /\ \A v \in Workers \ {w} : inflight'[v] = inflight[v]
    BY <1>2, <1>a, <2>1 DEF Dispatch, Send
  <2>5. \A v \in Workers \ {w} : inflight[v][h] # {} => h \in missed
    BY <2>1
  <2> QED
    BY <1>2, <2>1, <2>2, <2>3, <2>4, <2>5
<1>3. ASSUME NEW w \in Workers, NEW r \in Rounds, NEW s \in Stages, Receipt(w, r, s),
             UNCHANGED <<job, missed>>
      PROVE  AwaitInv'
  <2>1. /\ attempt'[r].open = attempt[r].open \ {s}
        /\ \A q \in Rounds \ {r} : attempt'[q] = attempt[q]
    BY <1>3, <1>a DEF Receipt, AttemptRow
  <2>2. /\ inflight'[w][r] = inflight[w][r] \ {s} /\ s \in inflight[w][r]
        /\ \A q \in Rounds \ {r} : inflight'[w][q] = inflight[w][q]
        /\ \A v \in Workers \ {w} : inflight'[v] = inflight[v]
    BY <1>3, <1>a DEF Receipt
  <2>3. \A v \in Workers \ {w} : s \notin inflight[v][r]
    BY <2>2
  <2> QED
    BY <1>3, <2>1, <2>2, <2>3
<1>4. ASSUME NEW w \in Workers, Crash(w), UNCHANGED <<job, missed>> PROVE AwaitInv'
  <2>1. /\ attempt' = attempt /\ \A r \in Rounds : inflight'[w][r] = {}
        /\ \A v \in Workers \ {w} : inflight'[v] = inflight[v]
    BY <1>4, <1>a DEF Crash, dbVars
  <2> QED
    BY <1>4, <2>1
<1> QED
  BY <1>1, <1>2, <1>3, <1>4, CallSteps

(* For any number of stages and of expiry statements with old snapshots: two processes
   never await the same stage of an execution, and await calls of one execution at all
   only after a requeue whose snapshot missed an attempt.  The reservation itself
   refuses nothing but the same stage; the rest follows from the checks of whatever
   puts a job back in the queue. *)
THEOREM DispatchIsExclusive == Spec => []OneDispatcher
<1>1. Init => AwaitInv
  BY DEF Init, AwaitInv
<1>2. TypeOK /\ StopInv /\ AwaitInv /\ [Next]_vars => AwaitInv'
  BY AwaitStep
<1>3. AwaitInv => OneDispatcher
  BY DEF AwaitInv, OneDispatcher
<1> QED
  BY <1>1, <1>2, <1>3, StopInvariant, TypeCorrect, PTL DEF Spec

-----------------------------------------------------------------------------
(* The session names the execution that may still run, as long as no tab writes
   back a session row it read earlier.  MCResearchExecution's run stale_reveal
   shows what a tab does to it. *)

(* Which execution the session names changes only by an approval or a retained
   recovery, and both find no active job. *)
LEMMA ExecutionStep ==
  ASSUME TypeOK, Tabs = {}, RowStep
  PROVE  \/ session'.execution = session.execution
         \/ \E r \in Rounds : ApproveQuote(r) /\ session'.execution = r
         \/ \E r, n \in Rounds : RecoverRetained(r, n) /\ session'.execution = n
<1> DEFINE Same == session'.execution = session.execution
<1> USE DEF TypeOK, Session, Researching, Ready, Failed
<1>1. CASE UNCHANGED <<session, round, job, output>> \/ StopResearch
  BY <1>1 DEF StopResearch
<1>2. ASSUME NEW w \in Workers, NEW r \in Rounds, Claim(w, r) PROVE Same
  BY <1>2 DEF Claim
<1>3. ASSUME NEW w \in Workers, held[w] \in Rounds, Checkpoint(w) \/ Publish(w) \/ MarkFailed(w)
      PROVE  Same
  BY <1>3 DEF Checkpoint, Publish, MarkFailed, SaveSession, Authorised, Fenced, Renewable
<1>4. ASSUME NEW w \in Workers, FinishStep(w) PROVE Same
  BY <1>4 DEF FinishStep
<1>5. ASSUME NEW l \in Listings, SettleWrite(l) PROVE Same
  BY <1>5 DEF SettleWrite
<1>6. ASSUME NEW r \in Rounds, SaveQuote(r) \/ LeaseElapses(r) \/ WindowCloses(r) PROVE Same
  BY <1>6 DEF SaveQuote, LeaseElapses, WindowCloses
<1>7. ASSUME NEW r \in Rounds, ExpireStep(r) PROVE Same
  BY <1>7 DEF ExpireStep, Expired, Expire
<1>8. ASSUME NEW r \in Rounds, Resume(r) \/ FocusRecover(r) PROVE Same
  BY <1>8 DEF Resume, FocusRecover
<1>9. ASSUME NEW r \in Rounds, ApproveQuote(r) PROVE session'.execution = r
  BY <1>9 DEF ApproveQuote
<1>10. ASSUME NEW r \in Rounds, NEW n \in Rounds, RecoverRetained(r, n)
       PROVE  session'.execution = n
  BY <1>10 DEF RecoverRetained
<1> QED
  BY <1>1, <1>2, <1>3, <1>4, <1>5, <1>6, <1>7, <1>8, <1>9, <1>10 DEF RowStep

(* A job becomes active only for the execution the session then names. *)
LEMMA ActivationStep ==
  ASSUME TypeOK, RowStep, NEW r \in Rounds, Active(r)', ~Active(r)
  PROVE  session'.execution = r /\ round'[r].status = "approved" /\ ActiveRounds = {}
<1> USE NullAssumption
    DEF TypeOK, JobRow, RoundRow, Session, Active, Release, Researching, workerVars
<1> DEFINE Goal == session'.execution = r /\ round'[r].status = "approved" /\ ActiveRounds = {}
<1>1. CASE UNCHANGED <<session, round, job, output>> \/ StopResearch
  BY <1>1 DEF StopResearch
<1>2. ASSUME NEW w \in Workers, NEW s \in Rounds, Claim(w, s) PROVE Goal
  BY <1>2 DEF Claim
<1>3. ASSUME NEW w \in Workers, held[w] \in Rounds, Checkpoint(w) \/ Publish(w) \/ MarkFailed(w)
      PROVE  Goal
  BY <1>3 DEF Checkpoint, Publish, MarkFailed
<1>4. ASSUME NEW w \in Workers, FinishStep(w) PROVE Goal
  BY <1>4 DEF FinishStep, FinishJob
<1>5. ASSUME NEW l \in Listings, SettleWrite(l) PROVE Goal
  BY <1>5 DEF SettleWrite
<1>6. ASSUME NEW s \in Rounds, SaveQuote(s) \/ WindowCloses(s) PROVE Goal
  BY <1>6 DEF SaveQuote, WindowCloses
<1>7. ASSUME NEW s \in Rounds, LeaseElapses(s) PROVE Goal
  BY <1>7 DEF LeaseElapses
<1>8. ASSUME NEW s \in Rounds, ExpireStep(s) PROVE Goal
  BY <1>8 DEF ExpireStep, Expired, Expire
<1>9. ASSUME NEW s \in Rounds, Resume(s) PROVE Goal
  BY <1>9 DEF Resume
<1>10. ASSUME NEW s \in Rounds, FocusRecover(s) PROVE Goal
  BY <1>10 DEF FocusRecover
<1>11. ASSUME NEW s \in Rounds, ApproveQuote(s) PROVE Goal
  BY <1>11 DEF ApproveQuote
<1>12. ASSUME NEW s \in Rounds, NEW n \in Rounds, RecoverRetained(s, n) PROVE Goal
  BY <1>12 DEF RecoverRetained
<1>13. ASSUME NEW t \in Tabs, RevealWrite(t) PROVE Goal
  BY <1>13 DEF RevealWrite
<1> QED
  BY <1>1, <1>2, <1>3, <1>4, <1>5, <1>6, <1>7, <1>8, <1>9, <1>10, <1>11, <1>12, <1>13
  DEF RowStep

(* At most one round of the run is queued or running. *)
OneActiveRound == \A r, s \in ActiveRounds : r = s

(* Even when a tab has made the session name an earlier execution, no approval and
   no recovery puts a second round to work: each looks at the jobs themselves. *)
THEOREM OneRoundAtATime == Spec => []OneActiveRound
<1>1. Init => OneActiveRound
  BY DEF Init, OneActiveRound, ActiveRounds, Active
<1>2. ASSUME TypeOK, OneActiveRound, [Next]_vars
      PROVE  OneActiveRound'
  <2>1. RowStep
    BY <1>2, RowSteps
  <2> SUFFICES ASSUME NEW r \in Rounds, NEW s \in Rounds, Active(r)', Active(s)'
               PROVE  r = s
    BY DEF OneActiveRound, ActiveRounds
  <2>2. CASE Active(r) /\ Active(s)
    BY <1>2, <2>2 DEF OneActiveRound, ActiveRounds
  <2>3. CASE ~Active(r) \/ ~Active(s)
    <3>1. ActiveRounds = {}
      BY <1>2, <2>1, <2>3, ActivationStep
    <3>2. session'.execution = r /\ session'.execution = s
      BY <1>2, <2>1, <3>1, ActivationStep DEF ActiveRounds
    <3> QED
      BY <3>2
  <2> QED
    BY <2>2, <2>3
<1> QED
  BY <1>1, <1>2, TypeCorrect, PTL DEF Spec

(* Without a tab that pages through results while another consents, no step takes
   the session away from a queued or running round. *)
THEOREM ConsentNeverDisplaced ==
  ASSUME Tabs = {}
  PROVE  Spec => []ActiveJobIsCurrent
<1>1. Init => ActiveJobIsCurrent
  BY DEF Init, ActiveJobIsCurrent, ActiveRounds, Active
<1>2. ASSUME TypeOK, ActiveJobIsCurrent, [Next]_vars
      PROVE  ActiveJobIsCurrent'
  <2>0. RowStep
    BY <1>2, RowSteps
  <2> SUFFICES ASSUME NEW r \in Rounds, Active(r)' PROVE session'.execution = r
    BY DEF ActiveJobIsCurrent, ActiveRounds
  <2>1. CASE ~Active(r)
    BY <1>2, <2>0, <2>1, ActivationStep
  <2>2. CASE Active(r)
    <3>1. session.execution = r /\ ActiveRounds # {}
      BY <1>2, <2>2 DEF ActiveJobIsCurrent, ActiveRounds
    <3>2. session'.execution = session.execution
      BY <1>2, <2>0, <3>1, ExecutionStep DEF ApproveQuote, RecoverRetained
    <3> QED
      BY <3>1, <3>2
  <2> QED
    BY <2>1, <2>2
<1> QED
  BY <1>1, <1>2, TypeCorrect, PTL DEF Spec

(* Without a listing whose settling statement is overtaken by a resume, a queued or
   running job always has an approval to publish under. *)
THEOREM ApprovalNeverTaken ==
  ASSUME Listings = {}
  PROVE  Spec => []ActiveJobIsApproved
<1>1. Init => ActiveJobIsApproved
  BY DEF Init, ActiveJobIsApproved, ActiveRounds, Active
<1>2. ASSUME TypeOK, ActiveJobIsApproved, [Next]_vars
      PROVE  ActiveJobIsApproved'
  <2>0. RowStep
    BY <1>2, RowSteps
  <2> DEFINE Approved(r) == round[r].status \in {"approved", "completed"}
  <2> SUFFICES ASSUME NEW r \in Rounds, Active(r)' PROVE Approved(r)'
    BY DEF ActiveJobIsApproved, ActiveRounds
  <2>1. CASE ~Active(r)
    BY <1>2, <2>0, <2>1, ActivationStep
  <2>2. CASE Active(r)
    <3>0. Approved(r) /\ ActiveRounds # {}
      BY <1>2, <2>2 DEF ActiveJobIsApproved, ActiveRounds
    <3> USE <1>2, <3>0 DEF TypeOK, RoundRow, workerVars
    <3>1. CASE UNCHANGED <<session, round, job, output>> \/ StopResearch
      BY <3>1 DEF StopResearch
    <3>2. ASSUME NEW w \in Workers, NEW s \in Rounds, Claim(w, s) PROVE Approved(r)'
      BY <3>2 DEF Claim
    <3>3. ASSUME NEW w \in Workers, held[w] \in Rounds,
                 Checkpoint(w) \/ Publish(w) \/ MarkFailed(w) \/ FinishStep(w)
          PROVE  Approved(r)'
      BY <3>3 DEF Checkpoint, Publish, MarkFailed, FinishStep
    <3>4. ASSUME NEW t \in Tabs, RevealWrite(t) PROVE Approved(r)'
      BY <3>4 DEF RevealWrite
    <3>5. ASSUME NEW s \in Rounds, SaveQuote(s) PROVE Approved(r)'
      BY <3>5 DEF SaveQuote, NextRow
    <3>6. ASSUME NEW s \in Rounds, LeaseElapses(s) \/ WindowCloses(s) \/ ExpireStep(s)
          PROVE  Approved(r)'
      <4>1. CASE WindowCloses(s)
        BY <4>1 DEF WindowCloses
      <4>2. CASE LeaseElapses(s) \/ ExpireStep(s)
        BY <4>2 DEF LeaseElapses, ExpireStep, Expired, Expire
      <4> QED
        BY <3>6, <4>1, <4>2
    <3>7. ASSUME NEW s \in Rounds, ApproveQuote(s) \/ Resume(s) \/ FocusRecover(s)
          PROVE  Approved(r)'
      BY <3>7 DEF ApproveQuote, Resume, FocusRecover
    <3>8. ASSUME NEW s \in Rounds, NEW n \in Rounds, RecoverRetained(s, n)
          PROVE  Approved(r)'
      BY <3>8 DEF RecoverRetained
    <3> QED
      BY <2>0, <3>1, <3>2, <3>3, <3>4, <3>5, <3>6, <3>7, <3>8 DEF RowStep, FinishStep
  <2> QED
    BY <2>1, <2>2
<1> QED
  BY <1>1, <1>2, TypeCorrect, PTL DEF Spec

-----------------------------------------------------------------------------
(* The completed rounds form a line, and the output is its newest. *)

(* The execution the session names is at the head of the line: a step past it while
   it is not completed, and one of its newest rounds once it is. *)
HeadInv ==
  LET e == session.execution IN
  e # NULL =>
    /\ round[e].status \notin {"none", "proposed"}
    /\ \A s \in Completed : round[s].number <= round[e].number
    /\ e \notin Completed => \A s \in Completed : round[s].number < round[e].number
    /\ round[e].number > 1 => \E p \in Completed : round[p].number = round[e].number - 1

LineInv == HeadInv /\ RoundLineage /\ OutputIsNewest

(* Rows the line is made of, left alone: a row that is no more than a proposal
   has no place in it. *)
LineKept ==
  /\ output' = output
  /\ Completed' = Completed
  /\ \A s \in Rounds : round[s].status \notin {"none", "proposed"} =>
       /\ round'[s].status \notin {"none", "proposed"}
       /\ round'[s].number = round[s].number
       /\ round'[s].recovers = round[s].recovers

LEMMA LineKeptStep ==
  ASSUME TypeOK, LineInv, LineKept, session'.execution = session.execution
  PROVE  LineInv'
<1>1. \A s \in Completed : /\ round'[s].number = round[s].number
                           /\ round'[s].recovers = round[s].recovers
  BY DEF LineKept, Completed
<1>2. RoundLineage'
  BY <1>1 DEF LineInv, LineKept, RoundLineage
<1>3. OutputIsNewest'
  BY <1>1 DEF LineInv, LineKept, OutputIsNewest, Latest
<1>4. HeadInv'
  <2>1. session.execution \in Rounds \cup {NULL}
    BY DEF TypeOK, Session
  <2> QED
    BY <1>1, <2>1 DEF LineInv, LineKept, HeadInv
<1> QED
  BY <1>2, <1>3, <1>4 DEF LineInv

LEMMA LineSteps ==
  ASSUME TypeOK, RowStep
  PROVE  \/ LineKept
         \/ \E w \in Workers : held[w] \in Rounds /\ Publish(w)
         \/ \E r, n \in Rounds : RecoverRetained(r, n)
<1> USE DEF TypeOK, RoundRow, Completed, LineKept
<1>1. CASE UNCHANGED <<session, round, job, output>> \/ StopResearch
  BY <1>1 DEF StopResearch
<1>2. ASSUME NEW w \in Workers, NEW s \in Rounds, Claim(w, s) PROVE LineKept
  BY <1>2 DEF Claim
<1>3. ASSUME NEW w \in Workers, Checkpoint(w) \/ MarkFailed(w) \/ FinishStep(w)
      PROVE  LineKept
  BY <1>3 DEF Checkpoint, MarkFailed, FinishStep
<1>4. ASSUME NEW t \in Tabs, RevealWrite(t) PROVE LineKept
  BY <1>4 DEF RevealWrite
<1>5. ASSUME NEW l \in Listings, SettleWrite(l) PROVE LineKept
  BY <1>5 DEF SettleWrite, Settlement
<1>6. ASSUME NEW s \in Rounds, SaveQuote(s) PROVE LineKept
  BY <1>6 DEF SaveQuote, NextRow
<1>7. ASSUME NEW s \in Rounds, WindowCloses(s) PROVE LineKept
  BY <1>7 DEF WindowCloses
<1>8. ASSUME NEW s \in Rounds, LeaseElapses(s) \/ ExpireStep(s) PROVE LineKept
  BY <1>8 DEF LeaseElapses, ExpireStep, Expired, Expire
<1>9. ASSUME NEW s \in Rounds, ApproveQuote(s) PROVE LineKept
  BY <1>9 DEF ApproveQuote, Settled
<1>10. ASSUME NEW s \in Rounds, Resume(s) PROVE LineKept
  BY <1>10 DEF Resume
<1>11. ASSUME NEW s \in Rounds, FocusRecover(s) PROVE LineKept
  BY <1>11 DEF FocusRecover
<1> QED
  BY <1>1, <1>2, <1>3, <1>4, <1>5, <1>6, <1>7, <1>8, <1>9, <1>10, <1>11
  DEF RowStep, FinishStep

LEMMA ApproveLine ==
  ASSUME TypeOK, LineInv, LineKept, NEW r \in Rounds, ApproveQuote(r)
  PROVE  LineInv'
<1>1. session'.execution = r /\ round'[r].status = "approved" /\ round'[r].number = round[r].number
  BY DEF ApproveQuote, Researching, TypeOK, RoundRow
<1>2. r \notin Completed /\ \A s \in Completed : round'[s].number = round[s].number
  BY DEF ApproveQuote, ParentIsLatest, LineKept, Completed
<1>3. \A s \in Completed : round[s].number < round[r].number
  <2>1. CASE round[r].parent = NULL
    BY <2>1 DEF ApproveQuote, ParentIsLatest
  <2>2. CASE round[r].parent # NULL
    BY <2>2 DEF ApproveQuote, ParentIsLatest, Latest, Completed, TypeOK, RoundRow
  <2> QED
    BY <2>1, <2>2
<1>4. round[r].number > 1 => \E p \in Completed : round[p].number = round[r].number - 1
  <2>1. CASE round[r].parent = NULL
    BY <2>1 DEF ApproveQuote, ParentIsLatest
  <2>2. CASE round[r].parent # NULL
    BY <2>2 DEF ApproveQuote, ParentIsLatest, Latest, Completed, TypeOK, RoundRow
  <2> QED
    BY <2>1, <2>2
<1>5. /\ Completed' = Completed /\ output' = output /\ Completed \subseteq Rounds
      /\ \A s \in Rounds : round[s].number \in Nat
      /\ \A s \in Completed : round'[s].recovers = round[s].recovers
  BY DEF LineKept, Completed, TypeOK, RoundRow
<1>6. HeadInv'
  BY <1>1, <1>2, <1>3, <1>4, <1>5 DEF HeadInv
<1>7. RoundLineage'
  BY <1>2, <1>5 DEF LineInv, RoundLineage
<1>8. OutputIsNewest'
  BY <1>2, <1>5 DEF LineInv, OutputIsNewest, Latest
<1> QED
  BY <1>6, <1>7, <1>8 DEF LineInv

LEMMA PublishLine ==
  ASSUME TypeOK, LineInv, Tabs = {}, NEW w \in Workers, held[w] \in Rounds, Publish(w)
  PROVE  LineInv'
<1> DEFINE r == held[w]
<1>1. session.execution = r /\ round[r].status = "approved"
  BY DEF Publish, Authorised, Fenced, Renewable
<1>2. session'.execution = r /\ output' = r /\ Completed' = Completed \cup {r} /\ r \notin Completed
  BY <1>1 DEF Publish, SaveSession, Ready, Completed, TypeOK, RoundRow, Session
<1>3. \A s \in Rounds : /\ round'[s].number = round[s].number
                        /\ round'[s].recovers = round[s].recovers
  BY DEF Publish, TypeOK, RoundRow
<1>4. r # NULL /\ round'[r].status = "completed"
  BY NullIsNoRound DEF Publish, TypeOK, RoundRow
<1>5. /\ \A s \in Completed : round[s].number < round[r].number
      /\ round[r].number > 1 => \E p \in Completed : round[p].number = round[r].number - 1
  BY <1>1, <1>2, <1>4 DEF LineInv, HeadInv
<1>6. \A s \in Rounds : round[s].number \in Nat
  BY DEF TypeOK, RoundRow
<1>7. Completed \subseteq Rounds
  BY DEF Completed
<1>8. HeadInv'
  BY <1>2, <1>3, <1>4, <1>5, <1>6, <1>7 DEF HeadInv
<1>9. RoundLineage'
  BY <1>2, <1>3, <1>5, <1>6, <1>7 DEF LineInv, RoundLineage
<1>10. OutputIsNewest'
  BY <1>2, <1>3, <1>5, <1>6, <1>7 DEF OutputIsNewest, Latest
<1> QED
  BY <1>8, <1>9, <1>10 DEF LineInv

LEMMA RecoverLine ==
  ASSUME TypeOK, LineInv, NEW r \in Rounds, NEW n \in Rounds, RecoverRetained(r, n)
  PROVE  LineInv'
<1>1. session.execution = r /\ r # NULL
  BY NullIsNoRound DEF RecoverRetained
<1>2. session'.execution = n /\ output' = n /\ n \notin Completed /\ r # n
  BY DEF RecoverRetained, Ready, NextRow, Completed
<1>3. Completed' = Completed \cup {n}
  BY DEF RecoverRetained, Completed, TypeOK, RoundRow
<1>4. /\ \A s \in Rounds \ {n} : /\ round'[s].number = round[s].number
                                 /\ round'[s].recovers = round[s].recovers
      /\ round'[n].number = round[r].number
      /\ round'[n].recovers = r
      /\ round'[n].status = "completed"
  BY DEF RecoverRetained, TypeOK, RoundRow
<1>5. /\ \A s \in Completed : round[s].number <= round[r].number
      /\ r \notin Completed => \A s \in Completed : round[s].number < round[r].number
      /\ round[r].number > 1 => \E p \in Completed : round[p].number = round[r].number - 1
  BY <1>1 DEF LineInv, HeadInv
<1>6. \A s \in Rounds : round[s].number \in Nat
  BY DEF TypeOK, RoundRow
<1>7. Completed \subseteq Rounds
  BY DEF Completed
<1>8. HeadInv'
  BY <1>2, <1>3, <1>4, <1>5, <1>6, <1>7 DEF HeadInv
<1>9. RoundLineage'
  BY <1>2, <1>3, <1>4, <1>5, <1>6, <1>7 DEF LineInv, RoundLineage
<1>10. OutputIsNewest'
  BY <1>2, <1>3, <1>4, <1>5, <1>6, <1>7 DEF OutputIsNewest, Latest
<1> QED
  BY <1>8, <1>9, <1>10 DEF LineInv

LEMMA LineInvariant ==
  ASSUME Tabs = {}
  PROVE  Spec => []LineInv
<1>1. Init => LineInv
  BY DEF Init, LineInv, HeadInv, RoundLineage, OutputIsNewest, Completed
<1>2. ASSUME TypeOK, LineInv, [Next]_vars
      PROVE  LineInv'
  <2>0. RowStep
    BY <1>2, RowSteps
  <2>1. CASE LineKept
    <3>1. CASE session'.execution = session.execution
      BY <1>2, <2>1, <3>1, LineKeptStep
    <3>2. ASSUME NEW r \in Rounds, ApproveQuote(r) PROVE LineInv'
      BY <1>2, <2>1, <3>2, ApproveLine
    <3>3. ASSUME NEW r \in Rounds, NEW n \in Rounds, RecoverRetained(r, n) PROVE LineInv'
      BY <1>2, <3>3, RecoverLine
    <3> QED
      BY <1>2, <2>0, <3>1, <3>2, <3>3, ExecutionStep
  <2>2. ASSUME NEW w \in Workers, held[w] \in Rounds, Publish(w) PROVE LineInv'
    BY <1>2, <2>2, PublishLine
  <2>3. ASSUME NEW r \in Rounds, NEW n \in Rounds, RecoverRetained(r, n) PROVE LineInv'
    BY <1>2, <2>3, RecoverLine
  <2> QED
    BY <1>2, <2>0, <2>1, <2>2, <2>3, LineSteps
<1> QED
  BY <1>1, <1>2, TypeCorrect, PTL DEF Spec

(* While no tab writes back a session it read before an approval, the completed
   rounds number 1, 2, ... without a gap, and twice only for a re-reading. *)
THEOREM LineageHolds ==
  ASSUME Tabs = {}
  PROVE  Spec => []RoundLineage
<1>1. LineInv => RoundLineage
  BY DEF LineInv
<1> QED
  BY <1>1, LineInvariant, PTL

(* Under the same condition the output shown is never older than another completed
   round, whichever worker or recovery published last. *)
THEOREM OutputNeverSuperseded ==
  ASSUME Tabs = {}
  PROVE  Spec => []OutputIsNewest
<1>1. LineInv => OutputIsNewest
  BY DEF LineInv
<1> QED
  BY <1>1, LineInvariant, PTL

-----------------------------------------------------------------------------
(* What remains of the line when tabs write back old session rows. *)

(* The completed rounds number 1, 2, ... up to MaxRoundNumber without a gap, and the
   output shown is one of them. *)
PublishedInOrder ==
  /\ \A r \in Completed :
       /\ round[r].number \in 1 .. MaxRoundNumber
       /\ round[r].number > 1 =>
            \E p \in Completed : round[p].number = round[r].number - 1
  /\ output # NULL => output \in Completed

(* Inductive: an approval looks at the latest completed round again, so every round
   past its proposal has its predecessor, and completed rounds stay. *)
NumbersInv ==
  /\ \A r \in Rounds : round[r].status # "none" => round[r].number \in 1 .. MaxRoundNumber
  /\ \A r \in Rounds : round[r].status \notin {"none", "proposed"} /\ round[r].number > 1 =>
         \E p \in Completed : round[p].number = round[r].number - 1
  /\ output # NULL => output \in Completed

LEMMA NumberSteps ==
  ASSUME TypeOK, RowStep, NEW r \in Rounds
  PROVE  \/ /\ round'[r].number = round[r].number
            /\ round[r].status \in {"none", "proposed"} => round'[r].status = round[r].status
         \/ SaveQuote(r) \/ ApproveQuote(r) \/ \E s \in Rounds : RecoverRetained(s, r)
<1> DEFINE Same == /\ round'[r].number = round[r].number
                   /\ round[r].status \in {"none", "proposed"} =>
                        round'[r].status = round[r].status
<1> USE DEF TypeOK, RoundRow, workerVars
<1>1. CASE UNCHANGED <<session, round, job, output>> \/ StopResearch
  BY <1>1 DEF StopResearch
<1>2. ASSUME NEW w \in Workers, NEW s \in Rounds, Claim(w, s) PROVE Same
  BY <1>2 DEF Claim
<1>3. ASSUME NEW w \in Workers, Checkpoint(w) \/ MarkFailed(w) \/ FinishStep(w) PROVE Same
  BY <1>3 DEF Checkpoint, MarkFailed, FinishStep
<1>4. ASSUME NEW w \in Workers, held[w] \in Rounds, Publish(w) PROVE Same
  BY <1>4 DEF Publish, Authorised
<1>5. ASSUME NEW t \in Tabs, RevealWrite(t) PROVE Same
  BY <1>5 DEF RevealWrite
<1>6. ASSUME NEW l \in Listings, SettleWrite(l) PROVE Same
  BY <1>6 DEF SettleWrite, Settlement
<1>7. ASSUME NEW s \in Rounds, s # r, SaveQuote(s) \/ RecoverRetained(r, s) PROVE Same
  BY <1>7 DEF SaveQuote, RecoverRetained
<1>8. ASSUME NEW s \in Rounds, s # r, ApproveQuote(s) PROVE Same
  BY <1>8 DEF ApproveQuote, Settled
<1>9. ASSUME NEW s \in Rounds, WindowCloses(s) PROVE Same
  BY <1>9 DEF WindowCloses
<1>10. ASSUME NEW s \in Rounds, LeaseElapses(s) \/ ExpireStep(s) PROVE Same
  BY <1>10 DEF LeaseElapses, ExpireStep, Expired, Expire
<1>11. ASSUME NEW s \in Rounds, Resume(s) \/ FocusRecover(s) PROVE Same
  BY <1>11 DEF Resume, FocusRecover
<1>12. ASSUME NEW s \in Rounds, NEW n \in Rounds, n # r, RecoverRetained(s, n) PROVE Same
  BY <1>12 DEF RecoverRetained
<1> QED
  BY <1>1, <1>2, <1>3, <1>4, <1>5, <1>6, <1>7, <1>8, <1>9, <1>10, <1>11, <1>12
  DEF RowStep, FinishStep

LEMMA OutputSteps ==
  ASSUME TypeOK, RowStep, output \in Completed \cup {NULL}
  PROVE  output' \in Completed' \cup {NULL}
<1>1. CASE LineKept
  BY <1>1 DEF LineKept
<1>2. ASSUME NEW w \in Workers, held[w] \in Rounds, Publish(w)
      PROVE  output' \in Completed'
  BY <1>2 DEF Publish, Completed, TypeOK, RoundRow
<1>3. ASSUME NEW r \in Rounds, NEW n \in Rounds, RecoverRetained(r, n)
      PROVE  output' \in Completed'
  BY <1>3 DEF RecoverRetained, Completed, TypeOK, RoundRow
<1> QED
  BY <1>1, <1>2, <1>3, LineSteps

LEMMA NumbersStep ==
  ASSUME TypeOK, NumbersInv, [Next]_vars
  PROVE  NumbersInv'
<1>0. RowStep
  BY RowSteps
<1>1. /\ \A s \in Completed : s \in Completed' /\ round'[s].number = round[s].number
      /\ Completed \subseteq Rounds
      /\ \A s \in Rounds : round[s].number \in Nat
  BY CompletedStep DEF Completed, TypeOK, RoundRow
<1>2. output' # NULL => output' \in Completed'
  BY <1>0, OutputSteps DEF NumbersInv
<1> SUFFICES ASSUME NEW r \in Rounds
             PROVE  /\ round'[r].status # "none" => round'[r].number \in 1 .. MaxRoundNumber
                    /\ round'[r].status \notin {"none", "proposed"} /\ round'[r].number > 1 =>
                         \E p \in Completed' : round'[p].number = round'[r].number - 1
  BY <1>2 DEF NumbersInv
<1>3. CASE /\ round'[r].number = round[r].number
           /\ round[r].status \in {"none", "proposed"} => round'[r].status = round[r].status
  BY <1>1, <1>3 DEF NumbersInv
<1>4. CASE SaveQuote(r)
  <2>1. round'[r].status = "proposed"
    BY <1>4 DEF SaveQuote, TypeOK, RoundRow
  <2>2. PICK m \in Nat : 1 + m <= MaxRoundNumber /\ round'[r].number = 1 + m
    <3>1. PICK parent \in Completed \cup {NULL} :
            LET n == 1 + IF parent = NULL THEN 0 ELSE round[parent].number IN
            /\ n <= MaxRoundNumber
            /\ round' = [round EXCEPT ![r] =
                 [@ EXCEPT !.status = "proposed", !.number = n, !.parent = parent]]
      BY <1>4 DEF SaveQuote
    <3>2. (IF parent = NULL THEN 0 ELSE round[parent].number) \in Nat
      BY <1>1
    <3> QED
      BY <3>1, <3>2 DEF TypeOK, RoundRow
  <2> QED
    BY <2>1, <2>2 DEF MaxRoundNumber
<1>5. CASE ApproveQuote(r)
  <2>1. round[r].status = "proposed" /\ round'[r].number = round[r].number
    BY <1>5 DEF ApproveQuote, TypeOK, RoundRow
  <2>2. round[r].number > 1 => \E p \in Completed : round[p].number = round[r].number - 1
    BY <1>1, <1>5 DEF ApproveQuote, ParentIsLatest, Latest
  <2> QED
    BY <1>1, <2>1, <2>2 DEF NumbersInv
<1>6. ASSUME NEW s \in Rounds, RecoverRetained(s, r) PROVE
        /\ round'[r].number \in 1 .. MaxRoundNumber
        /\ round'[r].number > 1 => \E p \in Completed' : round'[p].number = round'[r].number - 1
  <2>1. round[s].status \in {"failed", "completed"} /\ round'[r].number = round[s].number
    BY <1>6 DEF RecoverRetained, TypeOK, RoundRow
  <2> QED
    BY <1>1, <2>1 DEF NumbersInv
<1> QED
  BY <1>0, <1>3, <1>4, <1>5, <1>6, NumberSteps

(* Stale tabs and overtaken listings may make two recoveries publish one number, but
   never leave a hole among the published numbers, exceed the limit of rounds, or
   show an output whose round is not completed. *)
THEOREM NumbersWithoutGaps == Spec => []PublishedInOrder
<1>1. Init => NumbersInv
  BY DEF Init, NumbersInv, Completed
<1>2. TypeOK /\ NumbersInv /\ [Next]_vars => NumbersInv'
  BY NumbersStep
<1>3. NumbersInv => PublishedInOrder
  BY DEF NumbersInv, PublishedInOrder, Completed
<1> QED
  BY <1>1, <1>2, <1>3, TypeCorrect, PTL DEF Spec

-----------------------------------------------------------------------------
(* The workflow implements ConsentedResearch. *)

LEMMA KeptBecomes ==
  ASSUME NEW r \in Rounds, NEW v, StatusOf(r)' = v,
         \A s \in Rounds \ {r} : StatusOf(s)' = StatusOf(s)
  PROVE  Promise!Become(r, v)
BY DEF Promise!Become, Kept

LEMMA KeptUnchanged ==
  ASSUME \A s \in Rounds : StatusOf(s)' = StatusOf(s)
  PROVE  UNCHANGED Kept
BY DEF Kept

(* Every action of the promise changes the standing of its round. *)
LEMMA ActionsMove ==
  ASSUME NEW r \in Rounds,
         \/ Promise!Propose(r) \/ Promise!Consent(r) \/ Promise!Publish(r)
         \/ Promise!End(r) \/ Promise!TakeUp(r) \/ Promise!Reread(r)
  PROVE  Promise!Next
<1>1. ASSUME NEW v, Kept' = [Kept EXCEPT ![r] = v], Kept[r] # v PROVE Kept' # Kept
  BY <1>1 DEF Kept
<1>2. Kept' # Kept
  BY <1>1 DEF Promise!Propose, Promise!Consent, Promise!Publish, Promise!End,
     Promise!TakeUp, Promise!Reread, Promise!Become
<1> QED
  BY <1>2 DEF Promise!Next

LEMMA NobodyWorks ==
  ASSUME ActiveRounds = {}
  PROVE  Promise!Idle
BY DEF Promise!Idle, Kept, StatusOf, ActiveRounds

(* A running or queued job ends. *)
LEMMA EndsOrStays ==
  ASSUME NEW r \in Rounds, session'.execution = session.execution, Active(r), ~Active(r)',
         round' = round, \A s \in Rounds \ {r} : job'[s] = job[s], StopInv
  PROVE  [Promise!Next]_Kept
<1>1. \A s \in Rounds \ {r} : StatusOf(s)' = StatusOf(s)
  BY DEF StatusOf, Active
<1>2. CASE StatusOf(r) = "working"
  <2>1. StatusOf(r)' \in {"ended", "stopped"}
    BY <1>2 DEF StatusOf, Active
  <2>2. Promise!End(r)
    BY <1>1, <1>2, <2>1, KeptBecomes DEF Promise!End, Promise!Become, Kept
  <2> QED
    BY <2>2, ActionsMove
<1>3. CASE StatusOf(r) # "working"
  <2>1. StatusOf(r)' = StatusOf(r)
    BY <1>3 DEF StatusOf, StopInv, Active
  <2> QED
    BY <1>1, <2>1, KeptUnchanged
<1> QED
  BY <1>2, <1>3

(* An ended one is taken up again. *)
LEMMA TakenUp ==
  ASSUME TypeOK, NEW r \in Rounds, Resume(r) \/ FocusRecover(r)
  PROVE  Promise!Next
<1> USE NullAssumption DEF TypeOK, RoundRow, JobRow, Release
<1>1. StatusOf(r) = "ended"
  BY DEF Resume, FocusRecover, StatusOf, Active
<1>2. /\ round'[r].status = "approved" /\ job'[r].status = "queued"
      /\ job'[r].error # "user-cancelled"
  <2>1. CASE Resume(r)
    BY <2>1 DEF Resume
  <2>2. CASE FocusRecover(r)
    BY <2>2 DEF FocusRecover
  <2> QED
    BY <2>1, <2>2
<1>3. StatusOf(r)' = "working"
  BY <1>2 DEF StatusOf, Active
<1>4. \A s \in Rounds \ {r} : round'[s] = round[s] /\ job'[s] = job[s]
  BY DEF Resume, FocusRecover
<1>5. \A s \in Rounds \ {r} : StatusOf(s)' = StatusOf(s)
  BY <1>4 DEF StatusOf, Active
<1>6. session.execution = r /\ session'.execution = r /\ ActiveRounds = {}
  BY DEF Resume, FocusRecover, Researching
<1>7. Promise!TakeUp(r)
  BY <1>1, <1>3, <1>5, <1>6, KeptBecomes, NobodyWorks DEF Promise!TakeUp, Kept
<1> QED
  BY <1>7, ActionsMove

LEMMA ApproveConsents ==
  ASSUME TypeOK, StopInv, NEW r \in Rounds, ApproveQuote(r)
  PROVE  Promise!Next
<1> USE DEF TypeOK, RoundRow, JobRow
<1>0. round[r].status = "proposed"
  BY DEF ApproveQuote
<1>1. StatusOf(r) = "proposed"
  BY <1>0 DEF StatusOf
<1>2. StatusOf(r)' = "working"
  BY DEF ApproveQuote, StatusOf, StopInv, Active
<1>3. ASSUME NEW s \in Rounds \ {r} PROVE StatusOf(s)' = StatusOf(s)
  <2>1. job'[s] = job[s] /\ round'[s].status = Settled(s)
    BY <1>3 DEF ApproveQuote
  <2> QED
    BY <2>1 DEF StatusOf, Settled, Active
<1>4. session'.execution = r /\ ActiveRounds = {}
  BY DEF ApproveQuote, Researching
<1>5. Promise!Consent(r)
  BY <1>1, <1>2, <1>3, <1>4, KeptBecomes, NobodyWorks DEF Promise!Consent, Kept
<1> QED
  BY <1>5, ActionsMove

LEMMA RecoverRereads ==
  ASSUME TypeOK, NEW r \in Rounds, NEW n \in Rounds, RecoverRetained(r, n)
  PROVE  Promise!Next
<1>0. round[n].status = "none" /\ round'[n].status = "completed"
  BY DEF RecoverRetained, NextRow, TypeOK, RoundRow
<1>1. StatusOf(n) = "none" /\ StatusOf(n)' = "published"
  BY <1>0 DEF StatusOf
<1>2. \A s \in Rounds \ {n} : StatusOf(s)' = StatusOf(s)
  BY DEF RecoverRetained, StatusOf, Active, TypeOK
<1>3. session'.execution = n /\ ActiveRounds = {}
  BY DEF RecoverRetained, Ready
<1>4. Promise!Reread(n)
  BY <1>1, <1>2, <1>3, KeptBecomes, NobodyWorks DEF Promise!Reread, Kept
<1> QED
  BY <1>4, ActionsMove

LEMMA PublishPublishes ==
  ASSUME TypeOK, StopInv, NEW w \in Workers, NEW r \in Rounds, r = held[w], Publish(w),
         session'.execution = session.execution
  PROVE  Promise!Next
<1>1. round[r].status = "approved" /\ job[r].status = "running"
  BY DEF Publish, Authorised, Fenced, Renewable
<1>2. round'[r].status = "completed" /\ job' = job
  BY DEF Publish, TypeOK, RoundRow
<1>3. StatusOf(r) = "working" /\ StatusOf(r)' = "published"
  BY <1>1, <1>2 DEF StatusOf, StopInv, Active
<1>4. \A s \in Rounds \ {r} : StatusOf(s)' = StatusOf(s)
  BY <1>2 DEF Publish, StatusOf, Active, TypeOK
<1>5. Promise!Publish(r)
  BY <1>3, <1>4, KeptBecomes DEF Promise!Publish, Kept
<1> QED
  BY <1>5, ActionsMove

LEMMA QuoteProposes ==
  ASSUME TypeOK, StopInv, NEW r \in Rounds, SaveQuote(r)
  PROVE  Promise!Next
<1>1. /\ round[r].status = "none" /\ round'[r].status = "proposed"
      /\ job' = job /\ session' = session
      /\ \A s \in Rounds \ {r} : round'[s] = round[s]
  BY DEF SaveQuote, NextRow, TypeOK, RoundRow
<1>2. StatusOf(r) = "none" /\ StatusOf(r)' = "proposed"
  BY <1>1 DEF StatusOf
<1>3. \A s \in Rounds \ {r} : StatusOf(s)' = StatusOf(s)
  BY <1>1 DEF StatusOf, Active
<1>4. Promise!Propose(r)
  BY <1>1, <1>2, <1>3, KeptBecomes DEF Promise!Propose, Kept
<1> QED
  BY <1>4, ActionsMove

LEMMA WorkStep ==
  ASSUME TypeOK, StopInv, [Next]_vars
  PROVE  [Promise!Next]_Kept
<1> DEFINE Goal == [Promise!Next]_Kept
<1>0. RowStep
  BY RowSteps
<1> USE DEF TypeOK, RoundRow, JobRow, Release, Session
<1>1. CASE UNCHANGED <<session, round, job, output>>
  BY <1>1, KeptUnchanged DEF StatusOf, Active
<1>2. CASE StopResearch
  <2>1. PICK r \in Rounds : r = session.execution
    BY <1>2 DEF StopResearch
  <2>2. /\ Active(r) /\ round' = round /\ session'.execution = session.execution
        /\ job'[r].status = "failed" /\ \A s \in Rounds \ {r} : job'[s] = job[s]
    BY <1>2, <2>1 DEF StopResearch
  <2> QED
    BY <2>2, EndsOrStays DEF Active
<1>3. ASSUME NEW w \in Workers, NEW r \in Rounds, Claim(w, r) PROVE Goal
  <2>1. \A s \in Rounds : /\ round'[s] = round[s] /\ Active(s)' = Active(s)
                          /\ job'[s].error = job[s].error
    BY <1>3 DEF Claim, Active
  <2> QED
    BY <1>3, <2>1, KeptUnchanged DEF Claim, StatusOf
<1>4. ASSUME NEW w \in Workers, held[w] \in Rounds, Checkpoint(w) \/ MarkFailed(w) PROVE Goal
  BY <1>4, KeptUnchanged DEF Checkpoint, MarkFailed, StatusOf, Active
<1>5. ASSUME NEW w \in Workers, held[w] \in Rounds, Publish(w) PROVE Goal
  <2>1. session'.execution = session.execution
    BY <1>5 DEF Publish, SaveSession, Authorised, Fenced, Renewable, Ready
  <2> QED
    BY <1>5, <2>1, PublishPublishes
<1>6. ASSUME NEW w \in Workers, FinishStep(w) PROVE Goal
  <2>1. PICK r \in Rounds : r = held[w]
    BY <1>6 DEF FinishStep
  <2>2. round' = round /\ session'.execution = session.execution
    BY <1>6 DEF FinishStep
  <2>3. CASE job' = job
    BY <2>2, <2>3, KeptUnchanged DEF StatusOf, Active
  <2>4. CASE job' # job
    <3>1. /\ job[r].status = "running" /\ job'[r].status \in {"completed", "failed"}
          /\ \A s \in Rounds \ {r} : job'[s] = job[s]
      BY <1>6, <2>1, <2>4 DEF FinishStep, FinishJob
    <3> QED
      BY <2>2, <3>1, EndsOrStays DEF Active
  <2> QED
    BY <2>3, <2>4
<1>7. ASSUME NEW l \in Listings, SettleWrite(l) PROVE Goal
  <2>1. /\ job' = job /\ session' = session
        /\ \A s \in Rounds : \/ round'[s].status = round[s].status
                             \/ /\ round[s].status = "approved"
                                /\ round'[s].status \in {"failed", "cancelled"}
    BY <1>7 DEF SettleWrite, Settlement
  <2> QED
    BY <2>1, KeptUnchanged DEF StatusOf, Active
<1>8. ASSUME NEW r \in Rounds, SaveQuote(r) PROVE Goal
  BY <1>8, QuoteProposes
<1>9. ASSUME NEW r \in Rounds, ApproveQuote(r) PROVE Goal
  BY <1>9, ApproveConsents
<1>10. ASSUME NEW r \in Rounds, LeaseElapses(r) \/ WindowCloses(r) PROVE Goal
  <2>1. CASE LeaseElapses(r)
    <3>1. \A s \in Rounds : Active(s)' = Active(s) /\ job'[s].error = job[s].error
      BY <2>1 DEF LeaseElapses, Active
    <3> QED
      BY <2>1, <3>1, KeptUnchanged DEF LeaseElapses, StatusOf
  <2>2. CASE WindowCloses(r)
    <3>1. \A s \in Rounds : round'[s].status = round[s].status
      BY <2>2 DEF WindowCloses
    <3> QED
      BY <2>2, <3>1, KeptUnchanged DEF WindowCloses, StatusOf, Active
  <2> QED
    BY <1>10, <2>1, <2>2
<1>11. ASSUME NEW r \in Rounds, ExpireStep(r) PROVE Goal
  <2>1. /\ round' = round /\ session'.execution = session.execution /\ Active(r)
        /\ job'[r].error = "execution-interrupted" /\ job[r].status = "running"
        /\ \A s \in Rounds \ {r} : job'[s] = job[s]
    BY <1>11 DEF ExpireStep, Expired, Expire, Active
  <2>2. CASE Active(r)'
    <3>1. job[r].error # "user-cancelled"
      BY <2>1 DEF StopInv
    <3> QED
      BY <2>1, <2>2, <3>1, KeptUnchanged DEF StatusOf, Active
  <2>3. CASE ~Active(r)'
    BY <2>1, <2>3, EndsOrStays
  <2> QED
    BY <2>2, <2>3
<1>12. ASSUME NEW r \in Rounds, Resume(r) \/ FocusRecover(r) PROVE Goal
  BY <1>12, TakenUp
<1>13. ASSUME NEW r \in Rounds, NEW n \in Rounds, RecoverRetained(r, n) PROVE Goal
  BY <1>13, RecoverRereads
<1>14. ASSUME NEW t \in Tabs, RevealWrite(t) PROVE Goal
  BY <1>14, KeptUnchanged DEF RevealWrite, StatusOf, Active
<1> QED
  BY <1>0, <1>1, <1>2, <1>3, <1>4, <1>5, <1>6, <1>7, <1>8, <1>9, <1>10, <1>11, <1>12,
     <1>13, <1>14 DEF RowStep

(* Without a tab the session's execution moves only with a step of the promise. *)
LEMMA PromiseStep ==
  ASSUME TypeOK, StopInv, Tabs = {}, [Next]_vars
  PROVE  [Promise!Next]_(Promise!vars)
<1>1. RowStep
  BY RowSteps
<1>2. CASE session'.execution = session.execution
  BY <1>2, WorkStep DEF Promise!vars
<1>3. ASSUME NEW r \in Rounds, ApproveQuote(r) PROVE Promise!Next
  BY <1>3, ApproveConsents
<1>4. ASSUME NEW r \in Rounds, NEW n \in Rounds, RecoverRetained(r, n) PROVE Promise!Next
  BY <1>4, RecoverRereads
<1> QED
  BY <1>1, <1>2, <1>3, <1>4, ExecutionStep

LEMMA PromiseInit == Init => Promise!Init
BY DEF Init, Promise!Init, Kept, StatusOf

(* Whatever tabs write back and listings settle, one round is worked at a time, is
   taken up again only while the session names it, and is never taken up after a
   stop or a publication: an old session row moves nothing but the consent. *)
THEOREM WorkPromiseKept == Spec => KeepsWorkPromise
<1>1. TypeOK /\ StopInv /\ [Next]_vars => [Promise!Next]_Kept
  BY WorkStep
<1> QED
  BY <1>1, PromiseInit, StopInvariant, TypeCorrect, PTL DEF Spec, KeepsWorkPromise


(* Without a tab that writes back an old session row, the durable workflow, with
   its leases, crashes, stops and recoveries, implements ConsentedResearch. *)
THEOREM PromiseKept ==
  ASSUME Tabs = {}
  PROVE  Spec => KeepsPromise
<1>1. TypeOK /\ StopInv /\ [Next]_vars => [Promise!Next]_(Promise!vars)
  BY PromiseStep
<1> QED
  BY <1>1, PromiseInit, StopInvariant, TypeCorrect, PTL DEF Spec, KeepsPromise, Promise!Spec
=============================================================================
