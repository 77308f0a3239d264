------------------------- MODULE PdfRenderingProofs -------------------------
(* What holds of the rendering of reports for any number of runs, workers and
   files. *)
EXTENDS PdfRendering, TLAPS

(* A worker holds a file once it has rendered one, the persisted checks attest it once
   they are compared, and it is stored before it is released. *)
AtWork(w) ==
  /\ worker[w].step = "idle" => worker[w] = Idle
  /\ worker[w].step # "idle" => 
       worker[w].run \in Runs /\ job[worker[w].run].state \notin {"none", "queued"}
  /\ worker[w].step \in {"qualifying", "renewing", "writing", "releasing"} =>
       worker[w].file \in Files
  /\ worker[w].step \in {"renewing", "writing", "releasing"} =>
       qa[worker[w].run] = worker[w].file
  /\ worker[w].step = "releasing" => object[worker[w].run] = worker[w].file

WorkersFit == \A w \in Workers : AtWork(w)

(* The version and its job are in one phase. *)
RowsAgree == \A r \in Runs :
  /\ version[r] = "none" <=> job[r].state = "none"
  /\ version[r] = "rendering" <=> job[r].state \in {"queued", "claimed"}
  /\ version[r] = "released" <=> job[r].state = "completed"
  /\ version[r] \in Failed <=> job[r].state = "failed"

PdfInv == TypeOK /\ WorkersFit /\ RowsAgree /\ ReleasedIsQualified /\ StoredIsQualified

USE RenderingAssumption
USE DEF Failed, Step, Attempts

-----------------------------------------------------------------------------
(* The rows of the workers. *)

WorkerRows == [Workers -> [step : Step, run : Runs \cup {NULL}, file : Files \cup {NULL},
                           failure : Failed]]

LEMMA GotoRows ==
  ASSUME worker \in WorkerRows, NEW w \in Workers, NEW step \in Step, Goto(w, step)
  PROVE  /\ worker' \in WorkerRows
         /\ \A v \in Workers : v # w => worker'[v] = worker[v]
         /\ worker'[w].step = step /\ worker'[w].run = worker[w].run
         /\ worker'[w].file = worker[w].file
  BY DEF Goto, WorkerRows

LEMMA FailAsRows ==
  ASSUME worker \in WorkerRows, NEW w \in Workers, NEW failure \in Failed, FailAs(w, failure)
  PROVE  /\ worker' \in WorkerRows
         /\ \A v \in Workers : v # w => worker'[v] = worker[v]
         /\ worker'[w].step = "failing" /\ worker'[w].run = worker[w].run
         /\ worker'[w].file = worker[w].file
  BY DEF FailAs, WorkerRows

LEMMA QuitRows ==
  ASSUME worker \in WorkerRows, NEW w \in Workers, Quit(w)
  PROVE  /\ worker' \in WorkerRows
         /\ \A v \in Workers : v # w => worker'[v] = worker[v]
         /\ worker'[w] = Idle
  BY DEF Quit, WorkerRows, Idle

LEMMA SettleRows ==
  ASSUME TypeOK, RowsAgree, NEW r \in Runs,
         NEW outcome \in Failed \cup {"released"}, NEW answer \in {"failed", "completed"},
         outcome = "released" <=> answer = "completed",
         job[r].state \notin {"none", "queued"}, Settle(r, outcome, answer)
  PROVE  /\ version' \in [Runs -> Failed \cup {"none", "rendering", "released"}]
         /\ job' \in [Runs -> [state : {"none", "queued", "claimed", "completed", "failed"},
                               attempts : 0 .. Attempts, over : BOOLEAN]]
         /\ \A q \in Runs : q # r => version'[q] = version[q] /\ job'[q] = job[q]
         /\ \/ version'[r] = version[r] /\ job'[r] = job[r] /\ version[r] # "rendering"
            \/ /\ version[r] = "rendering" /\ version'[r] = outcome
               /\ job'[r].state = answer
         /\ RowsAgree'
<1>1. version[r] = "rendering" <=> job[r].state = "claimed"
  BY DEF RowsAgree
<1>2. CASE job[r].state = "claimed"
  <2>1. version' = [version EXCEPT ![r] = outcome]
    BY <1>1, <1>2 DEF Settle
  <2>2. job' = [job EXCEPT ![r] = [@ EXCEPT !.state = answer, !.over = FALSE]]
    BY <1>2 DEF Settle, TypeOK
  <2>3. job[r] \in [state : {"none", "queued", "claimed", "completed", "failed"},
                   attempts : 0 .. Attempts, over : BOOLEAN]
    BY DEF TypeOK
  <2>4. /\ [job[r] EXCEPT !.state = answer, !.over = FALSE] \in
              [state : {"none", "queued", "claimed", "completed", "failed"},
               attempts : 0 .. Attempts, over : BOOLEAN]
        /\ [job[r] EXCEPT !.state = answer, !.over = FALSE].state = answer
    BY <2>3
  <2>5. job'[r].state = answer /\ \A q \in Runs : q # r => job'[q] = job[q]
    BY <2>2, <2>4 DEF TypeOK
  <2>6. version'[r] = outcome /\ \A q \in Runs : q # r => version'[q] = version[q]
    BY <2>1 DEF TypeOK
  <2>7. RowsAgree'
    BY <2>5, <2>6 DEF RowsAgree
  <2>8. job' \in [Runs -> [state : {"none", "queued", "claimed", "completed", "failed"},
                          attempts : 0 .. Attempts, over : BOOLEAN]]
    BY <2>2, <2>4 DEF TypeOK
  <2>9. version' \in [Runs -> Failed \cup {"none", "rendering", "released"}]
    BY <2>1 DEF TypeOK
  <2> QED
    BY <1>1, <1>2, <2>5, <2>6, <2>7, <2>8, <2>9
<1>3. CASE job[r].state # "claimed"
  BY <1>1, <1>3 DEF Settle, TypeOK, RowsAgree
<1> QED
  BY <1>2, <1>3

-----------------------------------------------------------------------------
(* Every action keeps the invariant. *)

LEMMA RequestStep ==
  ASSUME PdfInv, NEW r \in Runs, Request(r)
  PROVE  PdfInv'
<1>1. TypeOK'
  BY DEF PdfInv, TypeOK, Request
<1>2. WorkersFit'
  BY DEF PdfInv, TypeOK, WorkersFit, AtWork, RowsAgree, Request
<1>3. RowsAgree'
  BY DEF PdfInv, TypeOK, RowsAgree, Request
<1>4. ReleasedIsQualified'
  BY DEF PdfInv, TypeOK, WorkersFit, AtWork, ReleasedIsQualified, Request
<1>5. StoredIsQualified'
  BY DEF PdfInv, TypeOK, WorkersFit, AtWork, StoredIsQualified, Request
<1> QED
  BY <1>1, <1>2, <1>3, <1>4, <1>5 DEF PdfInv

LEMMA ExpireStep ==
  ASSUME PdfInv, NEW r \in Runs, Expire(r)
  PROVE  PdfInv'
<1>1. TypeOK'
  BY DEF PdfInv, TypeOK, Expire
<1>2. WorkersFit'
  BY DEF PdfInv, TypeOK, WorkersFit, AtWork, RowsAgree, Expire
<1>3. RowsAgree'
  BY DEF PdfInv, TypeOK, RowsAgree, Expire
<1>4. ReleasedIsQualified'
  BY DEF PdfInv, TypeOK, WorkersFit, AtWork, ReleasedIsQualified, Expire
<1>5. StoredIsQualified'
  BY DEF PdfInv, TypeOK, WorkersFit, AtWork, StoredIsQualified, Expire
<1> QED
  BY <1>1, <1>2, <1>3, <1>4, <1>5 DEF PdfInv

LEMMA SweepStep ==
  ASSUME PdfInv, NEW w \in Workers, NEW r \in Runs, Sweep(w, r)
  PROVE  PdfInv'
<1>q. /\ UNCHANGED <<qa, object, file, worker, blocked>>
      /\ job[r].state \notin {"none", "queued"}
  BY DEF Sweep
<1>r. /\ version' \in [Runs -> Failed \cup {"none", "rendering", "released"}]
      /\ job' \in [Runs -> [state : {"none", "queued", "claimed", "completed", "failed"},
                            attempts : 0 .. Attempts, over : BOOLEAN]]
      /\ \A q \in Runs : version'[q] = version[q] \/ version'[q] \in Failed
      /\ \A q \in Runs :
           job[q].state \notin {"none", "queued"} => job'[q].state \notin {"none", "queued"}
      /\ RowsAgree'
  <2>1. Settle(r, "render_failed", "failed") /\ TypeOK /\ RowsAgree
    BY DEF Sweep, PdfInv
  <2> QED
    BY <2>1, <1>q, SettleRows
<1>1. TypeOK'
  BY <1>q, <1>r DEF PdfInv, TypeOK, WorkerRows, Idle
<1>2. WorkersFit'
  BY <1>q, <1>r DEF PdfInv, TypeOK, WorkersFit, AtWork, RowsAgree, WorkerRows, Idle
<1>3. RowsAgree'
  BY <1>q, <1>r DEF PdfInv, TypeOK, RowsAgree, WorkerRows, Idle
<1>4. ReleasedIsQualified'
  BY <1>q, <1>r DEF PdfInv, TypeOK, WorkersFit, AtWork, ReleasedIsQualified,
         WorkerRows, Idle
<1>5. StoredIsQualified'
  BY <1>q, <1>r DEF PdfInv, TypeOK, WorkersFit, AtWork, StoredIsQualified, WorkerRows,
         Idle
<1> QED
  BY <1>1, <1>2, <1>3, <1>4, <1>5 DEF PdfInv

LEMMA ClaimStep ==
  ASSUME PdfInv, NEW w \in Workers, NEW r \in Runs, Claim(w, r)
  PROVE  PdfInv'
<1>1. TypeOK'
  BY DEF PdfInv, TypeOK, Claim, Claimable, Idle
<1>2. WorkersFit'
  BY DEF PdfInv, TypeOK, WorkersFit, AtWork, RowsAgree, Claim, Claimable, Idle
<1>3. RowsAgree'
  BY DEF PdfInv, TypeOK, RowsAgree, Claim, Claimable, Idle
<1>4. ReleasedIsQualified'
  BY DEF PdfInv, TypeOK, WorkersFit, AtWork, ReleasedIsQualified, Claim, Claimable,
         Idle
<1>5. StoredIsQualified'
  BY DEF PdfInv, TypeOK, WorkersFit, AtWork, StoredIsQualified, Claim, Claimable, Idle
<1> QED
  BY <1>1, <1>2, <1>3, <1>4, <1>5 DEF PdfInv

LEMMA RenderStep ==
  ASSUME PdfInv, NEW w \in Workers, Render(w)
  PROVE  PdfInv'
<1>t. worker \in WorkerRows
  BY DEF PdfInv, TypeOK, WorkerRows
<1>w. /\ worker' \in WorkerRows
      /\ \A v \in Workers : v # w => worker'[v] = worker[v]
      /\ worker'[w].run = worker[w].run
      /\ \/ worker'[w].step = "failing"
         \/ worker'[w].step = "qualifying" /\ worker'[w].file \in Files
  <2>1. CASE \E failure \in Failed : FailAs(w, failure)
    BY <1>t, <2>1, FailAsRows
  <2>2. CASE \E f \in Files : worker' = [worker EXCEPT ![w].step = "qualifying", ![w].file = f]
    <3> PICK f \in Files : worker' = [worker EXCEPT ![w] =
                              [@ EXCEPT !.step = "qualifying", !.file = f]]
      BY <1>t, <2>2 DEF WorkerRows
    <3>1. worker[w] \in [step : Step, run : Runs \cup {NULL}, file : Files \cup {NULL},
                        failure : Failed]
      BY <1>t DEF WorkerRows
    <3>2. [worker[w] EXCEPT !.step = "qualifying", !.file = f] \in
            [step : Step, run : Runs \cup {NULL}, file : Files \cup {NULL}, failure : Failed]
      BY <3>1
    <3> QED
      BY <1>t, <3>1, <3>2 DEF WorkerRows
  <2> QED
    BY <2>1, <2>2 DEF Render
<1>1. TypeOK'
  BY <1>t, <1>w DEF PdfInv, TypeOK, Render, WorkerRows, Idle
<1>2. WorkersFit'
  BY <1>t, <1>w DEF PdfInv, TypeOK, WorkersFit, AtWork, RowsAgree, Render, WorkerRows,
         Idle
<1>3. RowsAgree'
  BY <1>t, <1>w DEF PdfInv, TypeOK, RowsAgree, Render, WorkerRows, Idle
<1>4. ReleasedIsQualified'
  BY <1>t, <1>w DEF PdfInv, TypeOK, WorkersFit, AtWork, ReleasedIsQualified, Render,
         WorkerRows, Idle
<1>5. StoredIsQualified'
  BY <1>t, <1>w DEF PdfInv, TypeOK, WorkersFit, AtWork, StoredIsQualified, Render,
         WorkerRows, Idle
<1> QED
  BY <1>1, <1>2, <1>3, <1>4, <1>5 DEF PdfInv

LEMMA QualifyStep ==
  ASSUME PdfInv, NEW w \in Workers, Qualify(w)
  PROVE  PdfInv'
<1>t. worker \in WorkerRows
  BY DEF PdfInv, TypeOK, WorkerRows
<1>w. /\ worker' \in WorkerRows
      /\ \A v \in Workers : v # w => worker'[v] = worker[v]
      /\ worker'[w].run = worker[w].run /\ worker'[w].file = worker[w].file
      /\ worker'[w].step \in {"renewing", "failing"}
  BY <1>t, GotoRows, FailAsRows DEF Qualify
<1>r. /\ worker[w].step = "qualifying" /\ UNCHANGED <<version, job, object, file, blocked>>
      /\ qa' \in [Runs -> Files \cup {NULL}]
      /\ \A q \in Runs : qa[q] # NULL => qa'[q] = qa[q]
      /\ worker'[w].step = "renewing" => qa'[worker[w].run] = worker[w].file
  <2>1. worker[w].run \in Runs /\ worker[w].file \in Files
    BY DEF Qualify, PdfInv, WorkersFit, AtWork
  <2> QED
    BY <1>t, <2>1, FailAsRows DEF Qualify, PdfInv, TypeOK
<1>1. TypeOK'
  BY <1>t, <1>w, <1>r DEF PdfInv, TypeOK, WorkerRows, Idle
<1>2. WorkersFit'
  BY <1>t, <1>w, <1>r DEF PdfInv, TypeOK, WorkersFit, AtWork, RowsAgree, WorkerRows,
         Idle
<1>3. RowsAgree'
  BY <1>t, <1>w, <1>r DEF PdfInv, TypeOK, RowsAgree, WorkerRows, Idle
<1>4. ReleasedIsQualified'
  BY <1>t, <1>w, <1>r DEF PdfInv, TypeOK, WorkersFit, AtWork, ReleasedIsQualified,
         WorkerRows, Idle
<1>5. StoredIsQualified'
  BY <1>t, <1>w, <1>r DEF PdfInv, TypeOK, WorkersFit, AtWork, StoredIsQualified,
         WorkerRows, Idle
<1> QED
  BY <1>1, <1>2, <1>3, <1>4, <1>5 DEF PdfInv

LEMMA RenewStep ==
  ASSUME PdfInv, NEW w \in Workers, Renew(w)
  PROVE  PdfInv'
<1>t. worker \in WorkerRows
  BY DEF PdfInv, TypeOK, WorkerRows
<1>w. /\ worker' \in WorkerRows
      /\ \A v \in Workers : v # w => worker'[v] = worker[v]
      /\ \/ worker'[w] = Idle
         \/ /\ worker'[w].run = worker[w].run /\ worker'[w].file = worker[w].file
            /\ worker'[w].step = "writing"
  BY <1>t, GotoRows, QuitRows DEF Renew
<1>r. worker[w].step = "renewing" /\ UNCHANGED <<version, job, qa, object, file, blocked>>
  BY DEF Renew
<1>1. TypeOK'
  BY <1>t, <1>w, <1>r DEF PdfInv, TypeOK, WorkerRows, Idle
<1>2. WorkersFit'
  BY <1>t, <1>w, <1>r DEF PdfInv, TypeOK, WorkersFit, AtWork, RowsAgree, WorkerRows,
         Idle
<1>3. RowsAgree'
  BY <1>t, <1>w, <1>r DEF PdfInv, TypeOK, RowsAgree, WorkerRows, Idle
<1>4. ReleasedIsQualified'
  BY <1>t, <1>w, <1>r DEF PdfInv, TypeOK, WorkersFit, AtWork, ReleasedIsQualified,
         WorkerRows, Idle
<1>5. StoredIsQualified'
  BY <1>t, <1>w, <1>r DEF PdfInv, TypeOK, WorkersFit, AtWork, StoredIsQualified,
         WorkerRows, Idle
<1> QED
  BY <1>1, <1>2, <1>3, <1>4, <1>5 DEF PdfInv

LEMMA PutStep ==
  ASSUME PdfInv, NEW w \in Workers, Put(w)
  PROVE  PdfInv'
<1>t. worker \in WorkerRows
  BY DEF PdfInv, TypeOK, WorkerRows
<1>w. /\ worker' \in WorkerRows
      /\ \A v \in Workers : v # w => worker'[v] = worker[v]
      /\ worker'[w].run = worker[w].run /\ worker'[w].file = worker[w].file
      /\ worker'[w].step \in {"releasing", "failing"}
  BY <1>t, GotoRows, FailAsRows DEF Put
<1>r. /\ worker[w].step = "writing" /\ UNCHANGED <<version, job, qa, file, blocked>>
      /\ object' \in [Runs -> Files \cup {NULL}]
      /\ \A q \in Runs : object[q] # NULL => object'[q] = object[q]
      /\ \A q \in Runs :
           \/ object'[q] = object[q]
           \/ q = worker[w].run /\ object'[q] = worker[w].file
      /\ worker'[w].step = "releasing" => object'[worker[w].run] = worker[w].file
  <2>1. worker[w].run \in Runs /\ worker[w].file \in Files
    BY DEF Put, PdfInv, WorkersFit, AtWork
  <2> QED
    BY <1>t, <2>1, FailAsRows DEF Put, PdfInv, TypeOK
<1>1. TypeOK'
  BY <1>t, <1>w, <1>r DEF PdfInv, TypeOK, WorkerRows, Idle
<1>2. WorkersFit'
  BY <1>t, <1>w, <1>r DEF PdfInv, TypeOK, WorkersFit, AtWork, RowsAgree, WorkerRows,
         Idle
<1>3. RowsAgree'
  BY <1>t, <1>w, <1>r DEF PdfInv, TypeOK, RowsAgree, WorkerRows, Idle
<1>4. ReleasedIsQualified'
  BY <1>t, <1>w, <1>r DEF PdfInv, TypeOK, WorkersFit, AtWork, ReleasedIsQualified,
         WorkerRows, Idle
<1>5. StoredIsQualified'
  BY <1>t, <1>w, <1>r DEF PdfInv, TypeOK, WorkersFit, AtWork, StoredIsQualified,
         WorkerRows, Idle
<1> QED
  BY <1>1, <1>2, <1>3, <1>4, <1>5 DEF PdfInv

LEMMA ReleaseStep ==
  ASSUME PdfInv, NEW w \in Workers, Release(w)
  PROVE  PdfInv'
<1>t. worker \in WorkerRows
  BY DEF PdfInv, TypeOK, WorkerRows
<1>w. /\ worker' \in WorkerRows
      /\ \A v \in Workers : v # w => worker'[v] = worker[v]
      /\ worker'[w] = Idle
  BY <1>t, QuitRows DEF Release
<1>q. /\ worker[w].step = "releasing" /\ UNCHANGED <<qa, object, blocked>>
      /\ worker[w].run \in Runs /\ worker[w].file \in Files
      /\ qa[worker[w].run] = worker[w].file /\ object[worker[w].run] = worker[w].file
  BY DEF Release, PdfInv, WorkersFit, AtWork
<1>r. /\ version' \in [Runs -> Failed \cup {"none", "rendering", "released"}]
      /\ job' \in [Runs -> [state : {"none", "queued", "claimed", "completed", "failed"},
                            attempts : 0 .. Attempts, over : BOOLEAN]]
      /\ \A q \in Runs : q # worker[w].run => version'[q] = version[q]
      /\ \A q \in Runs :
           job[q].state \notin {"none", "queued"} => job'[q].state \notin {"none", "queued"}
      /\ RowsAgree'
      /\ \/ UNCHANGED <<version, file>>
         \/ file' = [file EXCEPT ![worker[w].run] = worker[w].file]
  <2>1. CASE version[worker[w].run] = "rendering" /\ job[worker[w].run].state = "claimed"
    <3>1. Settle(worker[w].run, "released", "completed")
      BY <2>1 DEF Release
    <3> QED
      BY <1>q, <2>1, <3>1, SettleRows DEF Release, PdfInv
  <2>2. CASE ~(version[worker[w].run] = "rendering" /\ job[worker[w].run].state = "claimed")
    BY <2>2 DEF Release, PdfInv, TypeOK, RowsAgree
  <2> QED
    BY <2>1, <2>2
<1>1. TypeOK'
  BY <1>t, <1>w, <1>q, <1>r DEF PdfInv, TypeOK, WorkerRows, Idle
<1>2. WorkersFit'
  <2>1. AtWork(w)'
    BY <1>w DEF AtWork, Idle
  <2>2. ASSUME NEW v \in Workers, v # w PROVE AtWork(v)'
    <3>1. AtWork(v) /\ worker'[v] = worker[v] /\ worker[v] \in
            [step : Step, run : Runs \cup {NULL}, file : Files \cup {NULL}, failure : Failed]
      BY <2>2, <1>t, <1>w DEF PdfInv, WorkersFit, WorkerRows
    <3> QED
      BY <3>1, <1>q, <1>r DEF AtWork
  <2> QED
    BY <2>1, <2>2 DEF WorkersFit
<1>3. RowsAgree'
  BY <1>t, <1>w, <1>q, <1>r DEF PdfInv, TypeOK, RowsAgree, WorkerRows, Idle
<1>4. ReleasedIsQualified'
  BY <1>t, <1>w, <1>q, <1>r DEF PdfInv, TypeOK, WorkersFit, AtWork,
         ReleasedIsQualified, WorkerRows, Idle
<1>5. StoredIsQualified'
  BY <1>t, <1>w, <1>q, <1>r DEF PdfInv, TypeOK, WorkersFit, AtWork, StoredIsQualified,
         WorkerRows, Idle
<1> QED
  BY <1>1, <1>2, <1>3, <1>4, <1>5 DEF PdfInv

LEMMA FailStep ==
  ASSUME PdfInv, NEW w \in Workers, Fail(w)
  PROVE  PdfInv'
<1>t. worker \in WorkerRows
  BY DEF PdfInv, TypeOK, WorkerRows
<1>w. /\ worker' \in WorkerRows
      /\ \A v \in Workers : v # w => worker'[v] = worker[v]
      /\ worker'[w] = Idle
  BY <1>t, QuitRows DEF Fail
<1>q. /\ worker[w].run \in Runs /\ worker[w].failure \in Failed
      /\ job[worker[w].run].state \notin {"none", "queued"}
      /\ UNCHANGED <<qa, object, file, blocked>>
  BY <1>t DEF Fail, PdfInv, WorkersFit, AtWork, WorkerRows, RowsAgree
<1>r. /\ version' \in [Runs -> Failed \cup {"none", "rendering", "released"}]
      /\ job' \in [Runs -> [state : {"none", "queued", "claimed", "completed", "failed"},
                            attempts : 0 .. Attempts, over : BOOLEAN]]
      /\ \A q \in Runs : version'[q] = version[q] \/ version'[q] \in Failed
      /\ \A q \in Runs :
           job[q].state \notin {"none", "queued"} => job'[q].state \notin {"none", "queued"}
      /\ RowsAgree'
  <2>1. Settle(worker[w].run, worker[w].failure, "failed") /\ TypeOK /\ RowsAgree
    BY DEF Fail, PdfInv
  <2> QED
    BY <2>1, <1>q, SettleRows
<1>1. TypeOK'
  BY <1>t, <1>w, <1>q, <1>r DEF PdfInv, TypeOK, WorkerRows, Idle
<1>2. WorkersFit'
  <2>1. AtWork(w)'
    BY <1>w DEF AtWork, Idle
  <2>2. ASSUME NEW v \in Workers, v # w PROVE AtWork(v)'
    <3>1. AtWork(v) /\ worker'[v] = worker[v] /\ worker[v] \in
            [step : Step, run : Runs \cup {NULL}, file : Files \cup {NULL}, failure : Failed]
      BY <2>2, <1>t, <1>w DEF PdfInv, WorkersFit, WorkerRows
    <3> QED
      BY <3>1, <1>q, <1>r DEF AtWork
  <2> QED
    BY <2>1, <2>2 DEF WorkersFit
<1>3. RowsAgree'
  BY <1>t, <1>w, <1>q, <1>r DEF PdfInv, TypeOK, RowsAgree, WorkerRows, Idle
<1>4. ReleasedIsQualified'
  BY <1>t, <1>w, <1>q, <1>r DEF PdfInv, TypeOK, WorkersFit, AtWork,
         ReleasedIsQualified, WorkerRows, Idle
<1>5. StoredIsQualified'
  BY <1>t, <1>w, <1>q, <1>r DEF PdfInv, TypeOK, WorkersFit, AtWork, StoredIsQualified,
         WorkerRows, Idle
<1> QED
  BY <1>1, <1>2, <1>3, <1>4, <1>5 DEF PdfInv

LEMMA CrashStep ==
  ASSUME PdfInv, NEW w \in Workers, Crash(w)
  PROVE  PdfInv'
<1>t. worker \in WorkerRows
  BY DEF PdfInv, TypeOK, WorkerRows
<1>w. /\ worker' \in WorkerRows
      /\ \A v \in Workers : v # w => worker'[v] = worker[v]
      /\ worker'[w] = Idle
  BY <1>t, QuitRows DEF Crash
<1>r. UNCHANGED <<version, job, qa, object, file, blocked>>
  BY DEF Crash
<1>1. TypeOK'
  BY <1>t, <1>w, <1>r DEF PdfInv, TypeOK, WorkerRows, Idle
<1>2. WorkersFit'
  BY <1>t, <1>w, <1>r DEF PdfInv, TypeOK, WorkersFit, AtWork, RowsAgree, WorkerRows,
         Idle
<1>3. RowsAgree'
  BY <1>t, <1>w, <1>r DEF PdfInv, TypeOK, RowsAgree, WorkerRows, Idle
<1>4. ReleasedIsQualified'
  BY <1>t, <1>w, <1>r DEF PdfInv, TypeOK, WorkersFit, AtWork, ReleasedIsQualified,
         WorkerRows, Idle
<1>5. StoredIsQualified'
  BY <1>t, <1>w, <1>r DEF PdfInv, TypeOK, WorkersFit, AtWork, StoredIsQualified,
         WorkerRows, Idle
<1> QED
  BY <1>1, <1>2, <1>3, <1>4, <1>5 DEF PdfInv

LEMMA CyclesEnd ==
  ASSUME PdfInv, Obstruct \/ Clear
  PROVE  PdfInv' /\ UNCHANGED <<version, job, file>>
<1>1. UNCHANGED <<version, job, qa, object, file, worker>> /\ blocked' \in BOOLEAN
  BY DEF Obstruct, Clear
<1> QED
  BY <1>1 DEF PdfInv, TypeOK, WorkersFit, AtWork, RowsAgree, ReleasedIsQualified,
     StoredIsQualified

(* The invariant holds at first, and every step keeps it. *)
LEMMA InitInv == Init => PdfInv
<1> SUFFICES ASSUME Init PROVE PdfInv
  OBVIOUS
<1>1. TypeOK
  <2>1. qa \in [Runs -> Files \cup {NULL}] /\ object = qa /\ file = qa
    BY DEF Init
  <2>2. version \in [Runs -> Failed \cup {"none", "rendering", "released"}]
    BY DEF Init
  <2>3. job \in [Runs -> [state : {"none", "queued", "claimed", "completed", "failed"},
                          attempts : 0 .. Attempts, over : BOOLEAN]]
    BY DEF Init
  <2>4. worker \in WorkerRows /\ blocked \in BOOLEAN
    BY DEF Init, Idle, WorkerRows
  <2> QED
    BY <2>1, <2>2, <2>3, <2>4 DEF TypeOK, WorkerRows
<1>2. WorkersFit /\ RowsAgree
  BY DEF Init, WorkersFit, AtWork, RowsAgree, Idle
<1>3. ReleasedIsQualified /\ StoredIsQualified
  BY DEF Init, ReleasedIsQualified, StoredIsQualified
<1> QED
  BY <1>1, <1>2, <1>3 DEF PdfInv

LEMMA NextInv == PdfInv /\ [Next]_vars => PdfInv'
<1> SUFFICES ASSUME PdfInv, [Next]_vars PROVE PdfInv'
  OBVIOUS
<1>1. ASSUME NEW r \in Runs, Request(r) \/ Expire(r)
      PROVE  PdfInv'
  BY <1>1, RequestStep, ExpireStep
<1>2. ASSUME NEW w \in Workers, Work(w) \/ Crash(w)
      PROVE  PdfInv'
  BY <1>2, RenderStep, QualifyStep, RenewStep, PutStep, ReleaseStep, FailStep, CrashStep DEF Work
<1>3. ASSUME NEW w \in Workers, NEW r \in Runs, Cycle(w, r)
      PROVE  PdfInv'
  BY <1>3, SweepStep, ClaimStep DEF Cycle
<1>4. CASE UNCHANGED vars
  BY <1>4 DEF vars, PdfInv, TypeOK, WorkersFit, AtWork, RowsAgree, ReleasedIsQualified,
     StoredIsQualified
<1>5. CASE Obstruct \/ Clear
  BY <1>5, CyclesEnd
<1> QED
  BY <1>1, <1>2, <1>3, <1>4, <1>5 DEF Next

LEMMA InvHolds == Spec => []PdfInv
  BY InitInv, NextInv, PTL DEF Spec

(* Every variable keeps its type; no job is attempted a third time. *)
THEOREM RenderingTyped == Spec => []TypeOK
<1>1. PdfInv => TypeOK
  BY DEF PdfInv
<1> QED
  BY <1>1, InvHolds, PTL

(* What is released is what is stored and what the persisted checks attest, although
   the steps to it may be those of different attempts. *)
THEOREM ReleasesAreQualified == Spec => []ReleasedIsQualified
<1>1. PdfInv => ReleasedIsQualified
  BY DEF PdfInv
<1> QED
  BY <1>1, InvHolds, PTL

(* Nothing is in the object store that did not pass its checks. *)
THEOREM ObjectsAreQualified == Spec => []StoredIsQualified
<1>1. PdfInv => StoredIsQualified
  BY DEF PdfInv
<1> QED
  BY <1>1, InvHolds, PTL

-----------------------------------------------------------------------------
(* Each step is one step of ArtifactPromise, or none. *)

LEMMA StepIsSilent ==
  ASSUME \A r \in Runs : /\ Verdict(version'[r]) = Verdict(version[r])
                        /\ Verdict(job'[r].state) = Verdict(job[r].state),
         file' = file
  PROVE  UNCHANGED Promises!promise
BY DEF Promises!promise

LEMMA VerdictValues ==
  /\ Verdict("none") = "none"
  /\ Verdict("rendering") = "pending" /\ Verdict("queued") = "pending"
  /\ Verdict("claimed") = "pending"
  /\ Verdict("released") = "released" /\ Verdict("completed") = "released"
  /\ Verdict("failed") = "refused" /\ \A f \in Failed : Verdict(f) = "refused"
BY DEF Verdict

LEMMA StepSettles ==
  ASSUME NEW r \in Runs, NEW before, NEW after,
         Verdict(version[r]) = before, Verdict(version'[r]) = after,
         Verdict(job[r].state) = before, Verdict(job'[r].state) = after,
         \A q \in Runs : q # r => version'[q] = version[q] /\ job'[q] = job[q]
  PROVE  Promises!Settle(r, before, after)
<1>1. [q \in Runs |-> Verdict(version[q])]' =
        [[q \in Runs |-> Verdict(version[q])] EXCEPT ![r] = after]
  OBVIOUS
<1>2. [q \in Runs |-> Verdict(job[q].state)]' =
        [[q \in Runs |-> Verdict(job[q].state)] EXCEPT ![r] = after]
  OBVIOUS
<1> QED
  BY <1>1, <1>2 DEF Promises!Settle

LEMMA FailureRefuses ==
  ASSUME PdfInv, NEW r \in Runs, NEW outcome \in Failed, Settle(r, outcome, "failed"),
         job[r].state \notin {"none", "queued"}, file' = file
  PROVE  Promises!Keeping \/ UNCHANGED Promises!promise
<1>0. TypeOK /\ RowsAgree
  BY DEF PdfInv
<1>1. /\ \A q \in Runs : q # r => version'[q] = version[q] /\ job'[q] = job[q]
      /\ \/ version'[r] = version[r] /\ job'[r] = job[r]
         \/ /\ version[r] = "rendering" /\ version'[r] = outcome
            /\ job'[r].state = "failed"
  BY <1>0, SettleRows
<1>2. CASE version'[r] = version[r] /\ job'[r] = job[r]
  <2>1. \A q \in Runs : version'[q] = version[q] /\ job'[q] = job[q]
    BY <1>1, <1>2
  <2> QED
    BY <2>1, StepIsSilent
<1>3. CASE version[r] = "rendering" /\ version'[r] = outcome /\ job'[r].state = "failed"
  <2>1. job[r].state = "claimed"
    BY <1>3 DEF PdfInv, RowsAgree
  <2>2. Promises!Settle(r, "pending", "refused")
    BY <1>1, <1>3, <2>1, StepSettles, VerdictValues
  <2> QED
    BY <2>2 DEF Promises!Keeping, Promises!Refuse
<1> QED
  BY <1>1, <1>2, <1>3

LEMMA PromiseStep ==
  ASSUME PdfInv, [Next]_vars
  PROVE  Promises!Keeping \/ UNCHANGED Promises!promise
<1>1. ASSUME NEW r \in Runs, Request(r)
      PROVE  Promises!Keeping
  <2>1. /\ version[r] = "none" /\ version'[r] = "rendering"
        /\ job[r].state = "none" /\ job'[r].state = "queued"
        /\ \A q \in Runs : q # r => version'[q] = version[q] /\ job'[q] = job[q]
        /\ file' = file
    BY <1>1 DEF Request, PdfInv, TypeOK, RowsAgree
  <2>2. Promises!Settle(r, "none", "pending")
    BY <2>1, StepSettles, VerdictValues
  <2> QED
    BY <2>1, <2>2 DEF Promises!Keeping, Promises!Ask
<1>2. ASSUME NEW r \in Runs, Expire(r)
      PROVE  UNCHANGED Promises!promise
  <2>1. version' = version /\ file' = file /\ \A q \in Runs : job'[q].state = job[q].state
    BY <1>2 DEF Expire, PdfInv, TypeOK
  <2> QED
    BY <2>1, StepIsSilent
<1>3. ASSUME NEW w \in Workers, NEW r \in Runs, Sweep(w, r)
      PROVE  Promises!Keeping \/ UNCHANGED Promises!promise
  BY <1>3, FailureRefuses DEF Sweep
<1>4. ASSUME NEW w \in Workers, NEW r \in Runs, Claim(w, r)
      PROVE  UNCHANGED Promises!promise
  <2>1. /\ version' = version /\ file' = file
        /\ \A q \in Runs : Verdict(job'[q].state) = Verdict(job[q].state)
    BY <1>4, VerdictValues DEF Claim, Claimable, PdfInv, TypeOK
  <2> QED
    BY <2>1, StepIsSilent
<1>5. ASSUME NEW w \in Workers, Render(w) \/ Qualify(w) \/ Renew(w) \/ Put(w) \/ Crash(w)
      PROVE  UNCHANGED Promises!promise
  <2>1. UNCHANGED <<version, job, file>>
    BY <1>5 DEF Render, Qualify, Renew, Put, Crash
  <2> QED
    BY <2>1, StepIsSilent
<1>6. ASSUME NEW w \in Workers, Release(w)
      PROVE  Promises!Keeping \/ UNCHANGED Promises!promise
  <2> DEFINE r == worker[w].run
  <2>1. r \in Runs /\ worker[w].file \in Files
    BY <1>6 DEF Release, PdfInv, WorkersFit, AtWork
  <2>2. CASE version[r] = "rendering" /\ job[r].state = "claimed"
    <3>1. Settle(r, "released", "completed") /\ file' = [file EXCEPT ![r] = worker[w].file]
      BY <1>6, <2>2 DEF Release
    <3>2. /\ \A q \in Runs : q # r => version'[q] = version[q] /\ job'[q] = job[q]
          /\ version'[r] = "released" /\ job'[r].state = "completed"
      <4>1. TypeOK /\ RowsAgree
        BY DEF PdfInv
      <4> QED
        BY <2>1, <2>2, <3>1, <4>1, SettleRows
    <3>3. Promises!Settle(r, "pending", "released")
      BY <2>1, <2>2, <3>2, StepSettles, VerdictValues
    <3> QED
      BY <2>1, <3>1, <3>3 DEF Promises!Keeping, Promises!Release
  <2>3. CASE ~(version[r] = "rendering" /\ job[r].state = "claimed")
    BY <1>6, <2>3, StepIsSilent DEF Release
  <2> QED
    BY <2>2, <2>3
<1>7. ASSUME NEW w \in Workers, Fail(w)
      PROVE  Promises!Keeping \/ UNCHANGED Promises!promise
  <2>1. /\ worker[w].run \in Runs /\ worker[w].failure \in Failed
        /\ job[worker[w].run].state \notin {"none", "queued"}
    BY <1>7 DEF Fail, PdfInv, TypeOK, WorkersFit, AtWork
  <2> QED
    BY <1>7, <2>1, FailureRefuses DEF Fail
<1>8. CASE UNCHANGED vars
  BY <1>8, StepIsSilent DEF vars
<1>9. CASE Obstruct \/ Clear
  BY <1>9, CyclesEnd, StepIsSilent
<1> QED
  BY <1>1, <1>2, <1>3, <1>4, <1>5, <1>6, <1>7, <1>8, <1>9 DEF Next, Work, Cycle

(* A report is asked for once and released or refused once, and the status of its job
   always says which. *)
THEOREM ReportsKeepTheirPromise == Spec => KeepsArtifactPromise
<1>1. Init => Promises!Promised
  BY VerdictValues DEF Init, Promises!Promised
<1>2. PdfInv /\ [Next]_vars => [Promises!Keeping]_(Promises!promise)
  BY PromiseStep
<1> QED
  BY <1>1, <1>2, InvHolds, PTL DEF Spec, KeepsArtifactPromise, Promises!Promise
=============================================================================
