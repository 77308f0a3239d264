---------------------------- MODULE PdfRendering ----------------------------
(***************************************************************************)
(* The report of a Consultant run: the request for it, the render job in   *)
(* the database, and the workers that claim the job, render and qualify    *)
(* the file, write it once to the object store and release it.             *)
(*                                                                         *)
(* A job has a lease but no token of its owner: a worker that outlives its *)
(* lease goes on beside the one that took the job over, and each statement *)
(* asks only for the state of the row.  A file stands for the bytes with   *)
(* their qualification; rendering twice may give two files.                *)
(***************************************************************************)
EXTENDS Integers

CONSTANTS
  Runs,     \* complete runs with a served projection
  Workers,  \* processes of the combined worker
  Files,    \* what rendering may give
  NULL      \* no run, no file

VARIABLES
  version,  \* artifact_version.state
  job,      \* artifact_render_job: its state, attempts, and whether its lease is over
  qa,       \* artifact_qa_check: the file the persisted checks attest
  object,   \* the immutable object under the name of the version
  file,     \* artifact_version.file_sha256 with its qualification
  worker,   \* by worker: its step, run, file, and the failure it reports
  blocked   \* a live run is refused for good: each cycle ends before the reports

vars == <<version, job, qa, object, file, worker, blocked>>

Failed == {"render_failed", "qa_failed"}
Step == {"idle", "rendering", "qualifying", "renewing", "writing", "releasing", "failing"}
Attempts == 2

ASSUME RenderingAssumption == NULL \notin Runs \cup Files

TypeOK ==
  /\ version \in [Runs -> Failed \cup {"none", "rendering", "released"}]
  /\ job \in [Runs -> [state : {"none", "queued", "claimed", "completed", "failed"},
                       attempts : 0 .. Attempts, over : BOOLEAN]]
  /\ qa \in [Runs -> Files \cup {NULL}]
  /\ object \in [Runs -> Files \cup {NULL}]
  /\ file \in [Runs -> Files \cup {NULL}]
  /\ worker \in [Workers -> [step : Step, run : Runs \cup {NULL}, file : Files \cup {NULL},
                             failure : Failed]]
  /\ blocked \in BOOLEAN

Idle == [step |-> "idle", run |-> NULL, file |-> NULL, failure |-> "render_failed"]

Init ==
  /\ version = [r \in Runs |-> "none"]
  /\ job = [r \in Runs |-> [state |-> "none", attempts |-> 0, over |-> FALSE]]
  /\ qa = [r \in Runs |-> NULL] /\ object = qa /\ file = qa
  /\ worker = [w \in Workers |-> Idle]
  /\ blocked = FALSE

-----------------------------------------------------------------------------
(* requestConsultantPdfArtifact, under the advisory lock of the run.  A second
   request finds the job: it answers with it or is refused, and changes nothing. *)
Request(r) ==
  /\ version[r] = "none"
  /\ version' = [version EXCEPT ![r] = "rendering"]
  /\ job' = [job EXCEPT ![r].state = "queued"]
  /\ UNCHANGED <<qa, object, file, worker, blocked>>

Expire(r) ==
  /\ job[r].state = "claimed" /\ ~job[r].over
  /\ job' = [job EXCEPT ![r].over = TRUE]
  /\ UNCHANGED <<version, qa, object, file, worker, blocked>>

(* UPDATE ... WHERE state='rendering' and UPDATE ... WHERE state='claimed'. *)
Settle(r, outcome, answer) ==
  /\ version' = IF version[r] = "rendering" THEN [version EXCEPT ![r] = outcome] ELSE version
  /\ job' = IF job[r].state = "claimed"
              THEN [job EXCEPT ![r].state = answer, ![r].over = FALSE] ELSE job

(* sweepExpiredConsultantPdfRenderJob, first thing in every cycle. *)
Sweep(w, r) ==
  /\ worker[w] = Idle
  /\ job[r].state = "claimed" /\ job[r].attempts >= Attempts /\ job[r].over
  /\ Settle(r, "render_failed", "failed")
  /\ UNCHANGED <<qa, object, file, worker, blocked>>

(* Mutant of Claimable: one attempt more. *)
ClaimableAgain(r) ==
  /\ \/ job[r].state = "queued"
     \/ job[r].state = "claimed" /\ job[r].over
  /\ job[r].attempts <= Attempts

Claimable(r) ==
  /\ \/ job[r].state = "queued"
     \/ job[r].state = "claimed" /\ job[r].over
  /\ job[r].attempts < Attempts

(* Mutant of Claim: the attempts are not counted. *)
ClaimUncounted(w, r) ==
  /\ worker[w] = Idle
  /\ Claimable(r) /\ version[r] = "rendering"
  /\ job' = [job EXCEPT ![r].state = "claimed", ![r].over = FALSE]
  /\ worker' = [worker EXCEPT ![w] = [Idle EXCEPT !.step = "rendering", !.run = r]]
  /\ UNCHANGED <<version, qa, object, file, blocked>>

(* The claim transaction of executeNextConsultantPdfRenderJob. *)
Claim(w, r) ==
  /\ worker[w] = Idle
  /\ Claimable(r) /\ version[r] = "rendering"
  /\ job' = [job EXCEPT ![r].state = "claimed", ![r].over = FALSE, ![r].attempts = @ + 1]
  /\ worker' = [worker EXCEPT ![w] = [Idle EXCEPT !.step = "rendering", !.run = r]]
  /\ UNCHANGED <<version, qa, object, file, blocked>>

Goto(w, step) == worker' = [worker EXCEPT ![w].step = step]
Quit(w) == worker' = [worker EXCEPT ![w] = Idle]
FailAs(w, failure) ==
  worker' = [worker EXCEPT ![w].step = "failing", ![w].failure = failure]

(* Mutant of Render: the checks are not persisted before the object is written. *)
RenderUnchecked(w) ==
  /\ worker[w].step = "rendering"
  /\ \/ \E failure \in Failed : FailAs(w, failure)
     \/ \E f \in Files : worker' = [worker EXCEPT ![w].step = "renewing", ![w].file = f]
  /\ UNCHANGED <<version, job, qa, object, file, blocked>>

(* The lineage, the renderer and its output, the qualification and its checks: any of
   them may be refused. *)
Render(w) ==
  /\ worker[w].step = "rendering"
  /\ \/ \E failure \in Failed : FailAs(w, failure)
     \/ \E f \in Files : worker' = [worker EXCEPT ![w].step = "qualifying", ![w].file = f]
  /\ UNCHANGED <<version, job, qa, object, file, blocked>>

(* Mutant of Qualify: what is persisted already is not compared. *)
QualifyBlind(w) ==
  LET r == worker[w].run IN
  /\ worker[w].step = "qualifying"
  /\ qa' = [qa EXCEPT ![r] = IF @ = NULL THEN worker[w].file ELSE @]
  /\ Goto(w, "renewing")
  /\ UNCHANGED <<version, job, object, file, blocked>>

(* The checks are inserted where there are none, read back and compared; the
   transaction may fail too. *)
Qualify(w) ==
  LET r == worker[w].run IN
  /\ worker[w].step = "qualifying"
  /\ \/ /\ qa[r] \in {NULL, worker[w].file}
        /\ qa' = [qa EXCEPT ![r] = worker[w].file]
        /\ Goto(w, "renewing")
     \/ /\ UNCHANGED qa
        /\ FailAs(w, "qa_failed")
  /\ UNCHANGED <<version, job, object, file, blocked>>

(* The lease is extended if the job has one that runs, whoever's it is. *)
Renew(w) ==
  LET r == worker[w].run IN
  /\ worker[w].step = "renewing"
  /\ IF job[r].state = "claimed" /\ ~job[r].over THEN Goto(w, "writing") ELSE Quit(w)
  /\ UNCHANGED <<version, job, qa, object, file, blocked>>

(* putImmutable, on the condition that there is no object; one that is there may be
   the same.  The call may fail before the object is stored or after. *)
Put(w) ==
  LET r == worker[w].run IN
  /\ worker[w].step = "writing"
  /\ \/ /\ object[r] \in {NULL, worker[w].file}
        /\ object' = [object EXCEPT ![r] = worker[w].file]
        /\ Goto(w, "releasing") \/ FailAs(w, "render_failed")
     \/ /\ UNCHANGED object
        /\ FailAs(w, "render_failed")
  /\ UNCHANGED <<version, job, qa, file, blocked>>

(* The release transaction changes both rows, or is rolled back. *)
Release(w) ==
  LET r == worker[w].run IN
  /\ worker[w].step = "releasing"
  /\ IF version[r] = "rendering" /\ job[r].state = "claimed"
       THEN Settle(r, "released", "completed") /\ file' = [file EXCEPT ![r] = worker[w].file]
       ELSE UNCHANGED <<version, job, file>>
  /\ Quit(w)
  /\ UNCHANGED <<qa, object, blocked>>

(* Mutant of Fail: the job is not asked for its state. *)
FailAnyJob(w) ==
  LET r == worker[w].run IN
  /\ worker[w].step = "failing"
  /\ version' = IF version[r] = "rendering"
                  THEN [version EXCEPT ![r] = worker[w].failure] ELSE version
  /\ job' = [job EXCEPT ![r].state = "failed", ![r].over = FALSE]
  /\ Quit(w)
  /\ UNCHANGED <<qa, object, file, blocked>>

(* A worker reports its failure, in time or late. *)
Fail(w) ==
  /\ worker[w].step = "failing"
  /\ Settle(worker[w].run, worker[w].failure, "failed")
  /\ Quit(w)
  /\ UNCHANGED <<qa, object, file, blocked>>

(* The process is gone, or a statement of its own throws. *)
Crash(w) ==
  /\ worker[w].step # "idle"
  /\ Quit(w)
  /\ UNCHANGED <<version, job, qa, object, file, blocked>>

(* A cycle looks for a live run before it comes to the reports.  One that is refused for
   good makes every cycle throw there until that run is cancelled (Starved, LeasedRuns). *)
Obstruct == ~blocked /\ blocked' = TRUE /\ UNCHANGED <<version, job, qa, object, file, worker>>
Clear == blocked /\ blocked' = FALSE /\ UNCHANGED <<version, job, qa, object, file, worker>>

-----------------------------------------------------------------------------
Work(w) == Render(w) \/ Qualify(w) \/ Renew(w) \/ Put(w) \/ Release(w) \/ Fail(w)
Cycle(w, r) == Sweep(w, r) \/ Claim(w, r)

Next ==
  \/ Obstruct \/ Clear
  \/ \E r \in Runs : Request(r) \/ Expire(r)
  \/ \E w \in Workers : Work(w) \/ Crash(w) \/ \E r \in Runs : Cycle(w, r)

Spec == Init /\ [][Next]_vars

(* Each process goes on with its job, then begins another cycle, which comes to the
   reports unless it throws before them; leases run out. *)
Fairness ==
  /\ \A w \in Workers : WF_vars(Work(w))
  /\ \A r \in Runs :
       WF_vars(~blocked /\ \E w \in Workers : Cycle(w, r)) /\ WF_vars(Expire(r))

FairSpec == Spec /\ Fairness

-----------------------------------------------------------------------------
(* Properties. *)

(* The released file is the stored object and the one its persisted checks attest,
   whichever of two attempts rendered, qualified, stored and released it. *)
ReleasedIsQualified ==
  \A r \in Runs : version[r] = "released" =>
    file[r] # NULL /\ object[r] = file[r] /\ qa[r] = file[r]

(* What is in the object store under the name of a version passed its checks: what a
   failed or a late attempt leaves there can be released by the next one. *)
StoredIsQualified == \A r \in Runs : object[r] # NULL => object[r] = qa[r]

Verdict(state) ==
  CASE state \in Failed \cup {"failed"} -> "refused"
    [] state \in {"rendering", "queued", "claimed"} -> "pending"
    [] state \in {"released", "completed"} -> "released"
    [] OTHER -> "none"

(* The version and the job end together, once, as ArtifactPromise has it: no late
   worker takes back or changes what another one settled. *)
Promises == INSTANCE ArtifactPromise WITH
  Documents <- Files, NONE <- NULL, document <- file,
  verdict <- [r \in Runs |-> Verdict(version[r])],
  answer <- [r \in Runs |-> Verdict(job[r].state)]
KeepsArtifactPromise == Promises!Promise

(* Unless a live run that is refused is left waiting for good, which starves the
   reports, one that was asked for is released or refused, whatever crashes: the two
   attempts are used up and the last one is swept. *)
EveryRequestEnds ==
  <>[]~blocked =>
    \A r \in Runs : version[r] = "rendering" ~> version[r] \in Failed \cup {"released"}
=============================================================================
