----------------------------- MODULE LeasedRuns -----------------------------
(***************************************************************************)
(* The run queue of the combined worker: research_run, the lease slots     *)
(* (execution_lease), and the three executors that take runs from it: the  *)
(* Demo and the Standard synthetic executors and the live executor, with   *)
(* its reservation and terminal record.  Users cancel runs at any time,    *)
(* workers crash, outlive their lease, or lose a database statement.       *)
(*                                                                         *)
(* An execution stands for the owner token its process drew.  A process    *)
(* knows whether a row still carries its token; the rows themselves need   *)
(* not name it, and a token is drawn again once its process is gone.  A    *)
(* released slot keeps its last run and token, as the row does.  The clock *)
(* of a worker and that of the database agree.                             *)
(***************************************************************************)
EXTENDS Integers

CONSTANTS
  Demo, Standard, Live,  \* runs, by the executor that takes them
  Slots,                 \* rows of execution_lease
  Executions,            \* owner tokens, numbered: processes at one time
  MaxFaults,             \* bound: crashes, leases outlived, statements lost, aborts
  NULL                   \* no run

Runs == Demo \cup Standard \cup Live

VARIABLES
  run,       \* research_run.state ('complete' is no_responsible_match too)
  result,    \* runs with a row in run_result
  slot,      \* execution_lease: its last run, and free, held or expired
  exec,      \* by execution: its run, its step, the ending it commits, the slot
             \* that has its token, and whether the reservation has it
  res,       \* live_research_execution_reservation, with its terminal record
  refunded,  \* runs whose charge has a compensation entry
  lost,      \* runs of which a failure update was lost
  refused,   \* live runs the executor refuses for good
  faults     \* faults so far

vars == <<run, result, slot, exec, res, refunded, lost, refused, faults>>

Ended == {"complete", "failed", "cancelled"}
Claimable == {"queued", "failed_retryable"}
RunState == Ended \cup Claimable \cup {"researching"}
Step == {"idle", "running", "failing", "releasing",                    \* synthetic
         "starting", "searching", "found", "working", "committing"}    \* live
Stage == {"none", "reserved", "discovered"} \cup Ended

ASSUME RunsAssumption ==
  /\ Demo \cap Standard = {} /\ Demo \cap Live = {} /\ Standard \cap Live = {}
  /\ NULL \notin Runs \cup Slots \cup Ended
  /\ Executions \subseteq Nat \ {0} /\ MaxFaults \in Nat

TypeOK ==
  /\ run \in [Runs -> RunState]
  /\ result \subseteq Runs
  /\ slot \in [Slots -> [run : Runs \cup {NULL}, status : {"free", "held", "expired"}]]
  /\ exec \in [Executions -> [run : Runs \cup {NULL}, step : Step, ending : Ended \cup {NULL},
                             slot : Slots \cup {NULL}, reserved : BOOLEAN]]
  /\ res \in [Live -> [fresh : BOOLEAN, stage : Stage]]
  /\ refunded \subseteq Live /\ lost \subseteq Standard /\ refused \subseteq Live
  /\ faults \in 0 .. MaxFaults

Idle == [run |-> NULL, step |-> "idle", ending |-> NULL, slot |-> NULL, reserved |-> FALSE]

Init ==
  /\ run = [r \in Runs |-> "queued"]
  /\ result = {}
  /\ slot = [s \in Slots |-> [run |-> NULL, status |-> "free"]]
  /\ exec = [e \in Executions |-> Idle]
  /\ res = [r \in Live |-> [fresh |-> FALSE, stage |-> "none"]]
  /\ refunded = {} /\ lost = {} /\ refused = {}
  /\ faults = 0

-----------------------------------------------------------------------------
(* Slots. *)

Unreleased(r) == {s \in Slots : slot[s].status # "free" /\ slot[s].run = r}
Own(e) == {s \in Slots : slot[s].status # "free" /\ exec[e].slot = s}
Released(S) == [s \in Slots |-> IF s \in S THEN [slot[s] EXCEPT !.status = "free"] ELSE slot[s]]

Gone(e) == exec[e] = Idle

(* A process draws a token and writes it to slot s, and for a live run to the
   reservation of r; it replaces the tokens there. *)
Take(e, r, s, step) ==
  /\ Gone(e) /\ \A d \in Executions : d < e => ~Gone(d)
  /\ slot' = [slot EXCEPT ![s] = [run |-> r, status |-> "held"]]
  /\ exec' = [d \in Executions |->
       IF d = e THEN [run |-> r, step |-> step, ending |-> NULL, slot |-> s, reserved |-> r \in Live]
       ELSE [exec[d] EXCEPT !.slot = IF @ = s THEN NULL ELSE @,
                            !.reserved = IF exec[d].run = r THEN FALSE ELSE @]]

Fault == faults < MaxFaults /\ faults' = faults + 1
NoFault == UNCHANGED faults

Goto(e, step) == exec' = [exec EXCEPT ![e].step = step]
Quit(e) == exec' = [exec EXCEPT ![e] = Idle]

(* UPDATE research_run SET state: the trigger on it releases the leases of a run
   that reaches a terminal state. *)
SetState(r, state) ==
  /\ run' = [run EXCEPT ![r] = state]
  /\ slot' = IF state \in Ended /\ run[r] # state THEN Released(Unreleased(r)) ELSE slot


(* recoverExpiredExecutionLeases, for one of the expired slots. *)
Recover(s) ==
  /\ slot[s].status = "expired"
  /\ slot' = Released({s})
  /\ run' = IF run[slot[s].run] = "researching"
              THEN [run EXCEPT ![slot[s].run] = "failed_retryable"] ELSE run
  /\ UNCHANGED <<result, exec, res, refunded, lost, faults, refused>>

(* A lease runs out, and with it the lease of the reservation, which is always set
   to the same time: in time when its process is gone; that a process outlives its
   lease is a fault. *)
Expire(s) ==
  /\ slot[s].status = "held"
  /\ IF \E e \in Executions : exec[e].slot = s THEN Fault ELSE NoFault
  /\ slot' = [slot EXCEPT ![s].status = "expired"]
  /\ res' = [r \in Live |-> IF r = slot[s].run THEN [res[r] EXCEPT !.fresh = FALSE] ELSE res[r]]
  /\ UNCHANGED <<run, result, exec, refunded, lost, refused>>

Crash(e) ==
  /\ ~Gone(e) /\ Fault
  /\ Quit(e)
  /\ UNCHANGED <<run, result, slot, res, refunded, lost, refused>>

(* Mutant of Cancel: the state is not asked. *)
CancelBlind(r) ==
  /\ run[r] # "cancelled"
  /\ SetState(r, "cancelled")
  /\ UNCHANGED <<result, exec, res, refunded, lost, faults, refused>>

(* cancelRun, of either application. *)
Cancel(r) ==
  /\ run[r] \notin Ended
  /\ SetState(r, "cancelled")
  /\ UNCHANGED <<result, exec, res, refunded, lost, faults, refused>>

-----------------------------------------------------------------------------
(* Synthetic runs. *)

(* acquireExecutionLease: an unexpired lease of the run answers null, an expired one
   is refused by the unique index, and an expired slot is not available. *)
Acquire(r, s, e) ==
  /\ r \in Demo \cup Standard /\ run[r] \in Claimable
  /\ Unreleased(r) = {} /\ slot[s].status = "free"
  /\ Take(e, r, s, "running")
  /\ run' = [run EXCEPT ![r] = "researching"]
  /\ UNCHANGED <<result, res, refunded, lost, faults, refused>>

(* The commit is answered, or its answer is lost and the worker sees an error. *)
LoseAnswer(e) == Fault /\ Goto(e, "failing")

(* persistSyntheticResult of the Demo application: the run's state is not read; a
   second result violates the primary key. *)
PublishDemo(e) ==
  LET r == exec[e].run IN
  /\ exec[e].step = "running" /\ r \in Demo
  /\ IF r \in result
       THEN Goto(e, "failing") /\ UNCHANGED <<run, result, slot, faults>>
       ELSE /\ SetState(r, "complete") /\ result' = result \cup {r}
            /\ (NoFault /\ Quit(e)) \/ LoseAnswer(e)
  /\ UNCHANGED <<res, refunded, lost, refused>>

PublishStandard(e) ==
  LET r == exec[e].run IN
  /\ exec[e].step = "running" /\ r \in Standard
  /\ IF run[r] \in Ended \/ r \in result
       THEN Goto(e, "releasing") /\ UNCHANGED <<run, result, slot, faults>>
       ELSE /\ SetState(r, "complete") /\ result' = result \cup {r}
            /\ (NoFault /\ Goto(e, "releasing")) \/ LoseAnswer(e)
  /\ UNCHANGED <<res, refunded, lost, refused>>

(* Building or storing the result throws. *)
Throw(e) ==
  /\ exec[e].step = "running" /\ Fault
  /\ Goto(e, "failing")
  /\ UNCHANGED <<run, result, slot, res, refunded, lost, refused>>

(* Mutant of FailDemo: the charge is given back. *)
FailDemoRefunding(e) ==
  LET r == exec[e].run IN
  /\ exec[e].step = "failing" /\ r \in Demo
  /\ SetState(r, "failed")
  /\ refunded' = refunded \cup {r}
  /\ Goto(e, "releasing")
  /\ UNCHANGED <<result, res, lost, faults, refused>>

(* The failure update of the Demo application asks nothing of the run. *)
FailDemo(e) ==
  LET r == exec[e].run IN
  /\ exec[e].step = "failing" /\ r \in Demo
  /\ SetState(r, "failed")
  /\ Goto(e, "releasing")
  /\ UNCHANGED <<result, res, refunded, lost, faults, refused>>

FailStandard(e) ==
  LET r == exec[e].run IN
  /\ exec[e].step = "failing" /\ r \in Standard
  /\ run' = IF run[r] = "researching" /\ r \notin result
              THEN [run EXCEPT ![r] = "failed_retryable"] ELSE run
  /\ Goto(e, "releasing")
  /\ UNCHANGED <<result, slot, res, refunded, lost, faults, refused>>

(* What failed the publication fails this update too.  The Demo application then
   leaves its lease, as after a crash; the finally block of the Standard one runs. *)
FailLost(e) ==
  /\ exec[e].step = "failing" /\ exec[e].run \in Standard
  /\ lost' = lost \cup {exec[e].run}
  /\ Goto(e, "releasing")
  /\ UNCHANGED <<run, result, slot, res, refunded, faults, refused>>

(* releaseExecutionLease: by token, expired or not. *)
Release(e) ==
  /\ exec[e].step = "releasing"
  /\ slot' = Released(Own(e))
  /\ Quit(e)
  /\ UNCHANGED <<run, result, res, refunded, lost, faults, refused>>

-----------------------------------------------------------------------------
(* Live runs. *)

InProgress(r) == res[r].stage \in {"reserved", "discovered"}

(* assertOwnership, lockOwnership and renewOwnership. *)
Owns(e) ==
  /\ exec[e].run \in Live /\ InProgress(exec[e].run)
  /\ exec[e].reserved /\ res[exec[e].run].fresh
  /\ \E s \in Own(e) : slot[s].status = "held"

(* No terminal record, no lease that runs, and no commit that holds the row. *)
ReservationAdmits(r) ==
  /\ InProgress(r) \/ res[r].stage = "none"
  /\ ~res[r].fresh
  /\ \A e \in Executions : ~(exec[e].run = r /\ exec[e].step = "committing")

(* The run a slot names loses it, whether it still had it or not. *)
Dispossess(s, r) ==
  IF slot[s].run \notin {NULL, r} /\ run[slot[s].run] = "researching"
    THEN [run EXCEPT ![slot[s].run] = "failed_retryable", ![r] = "researching"]
    ELSE [run EXCEPT ![r] = "researching"]

(* The admission of the run, its pipeline identity or its execution id (the version of
   the policy) is no longer the one it was submitted or reserved with: from then on
   execute and reserveExecution throw before they write anything. *)
Refuse(r) ==
  /\ r \in Live \ refused /\ run[r] \notin Ended
  /\ refused' = refused \cup {r}
  /\ UNCHANGED <<run, result, slot, exec, res, refunded, lost, faults>>

(* Mutant of Reserve: the run that had the slot is not told. *)
ReserveSilently(r, s, e) ==
  /\ r \in Live \ refused /\ run[r] \in Claimable \cup {"researching"}
  /\ ReservationAdmits(r)
  /\ slot[s].status # "held" /\ Unreleased(r) \subseteq {s}
  /\ Take(e, r, s, "starting")
  /\ run' = [run EXCEPT ![r] = "researching"]
  /\ res' = [res EXCEPT ![r] = [fresh |-> TRUE,
                                stage |-> IF @.stage = "none" THEN "reserved" ELSE @.stage]]
  /\ UNCHANGED <<result, refunded, lost, faults, refused>>

(* Mutant of Reserve: a second lease for the run. *)
ReserveBesideOwn(r, s, e) ==
  /\ r \in Live \ refused /\ run[r] \in Claimable \cup {"researching"}
  /\ ReservationAdmits(r)
  /\ slot[s].status # "held"
  /\ Take(e, r, s, "starting")
  /\ run' = Dispossess(s, r)
  /\ res' = [res EXCEPT ![r] = [fresh |-> TRUE,
                                stage |-> IF @.stage = "none" THEN "reserved" ELSE @.stage]]
  /\ UNCHANGED <<result, refunded, lost, faults, refused>>

(* reserveExecution: a released or an expired slot.  The dispatcher listed the run
   earlier, so it may be researching again by now. *)
Reserve(r, s, e) ==
  /\ r \in Live \ refused /\ run[r] \in Claimable \cup {"researching"}
  /\ ReservationAdmits(r)
  /\ slot[s].status # "held" /\ Unreleased(r) \subseteq {s}
  /\ Take(e, r, s, "starting")
  /\ run' = Dispossess(s, r)
  /\ res' = [res EXCEPT ![r] = [fresh |-> TRUE,
                                stage |-> IF @.stage = "none" THEN "reserved" ELSE @.stage]]
  /\ UNCHANGED <<result, refunded, lost, faults, refused>>

(* Mutant of Load: the checkpoint is not read. *)
LoadNothing(e) ==
  /\ exec[e].step = "starting"
  /\ IF ~Owns(e) THEN Quit(e) ELSE Goto(e, "searching")
  /\ UNCHANGED <<run, result, slot, res, refunded, lost, faults, refused>>

(* loadSourceDiscoveryCheckpoint. *)
Load(e) ==
  /\ exec[e].step = "starting"
  /\ IF ~Owns(e) THEN Quit(e)
     ELSE Goto(e, IF res[exec[e].run].stage = "discovered" THEN "working" ELSE "searching")
  /\ UNCHANGED <<run, result, slot, res, refunded, lost, faults, refused>>

(* Source discovery is paid under ownership.  Without it nothing is sent, and the
   failure takes the way of Conclude. *)
Search(e) ==
  /\ exec[e].step = "searching" /\ Owns(e)
  /\ Goto(e, "found")
  /\ UNCHANGED <<run, result, slot, res, refunded, lost, faults, refused>>

(* persistSourceDiscovery. *)
Persist(e) ==
  /\ exec[e].step = "found"
  /\ IF Owns(e) /\ res[exec[e].run].stage = "reserved"
       THEN res' = [res EXCEPT ![exec[e].run].stage = "discovered"] /\ Goto(e, "working")
       ELSE UNCHANGED res /\ Quit(e)
  /\ UNCHANGED <<run, result, slot, refunded, lost, faults, refused>>

(* What commitTerminal asks of the reservation it locks; not of the slot. *)
MayCommit(e) ==
  LET r == exec[e].run IN InProgress(r) /\ exec[e].reserved /\ res[r].fresh

(* The pipeline is over and commitTerminal opens its transaction.  An abort, by a
   missed heartbeat or the shutdown of the worker, makes it a cancellation. *)
Conclude(e, ending) ==
  /\ exec[e].step \in {"searching", "working"}
  /\ ending = "complete" => exec[e].step = "working"
  /\ IF ending = "cancelled" THEN Fault ELSE NoFault
  /\ exec' = [exec EXCEPT ![e] =
       IF MayCommit(e) THEN [@ EXCEPT !.step = "committing", !.ending = ending] ELSE Idle]
  /\ UNCHANGED <<run, result, slot, res, refunded, lost, refused>>

(* Mutant of CommitTerminal: any state of the run will do. *)
CommitTerminalBlind(e) ==
  LET r == exec[e].run
      ending == exec[e].ending IN
  /\ exec[e].step = "committing"
  /\ exec[e].slot # NULL
  /\ SetState(r, ending)
  /\ result' = IF ending = "complete" THEN result \cup {r} ELSE result
  /\ refunded' = IF ending = "failed" THEN refunded \cup {r} ELSE refunded
  /\ res' = [res EXCEPT ![r].stage = ending]
  /\ Quit(e)
  /\ UNCHANGED <<lost, faults, refused>>

(* The rest of commitTerminal.  Its last check wants the slot, which may have been
   released meanwhile but not taken; otherwise all is rolled back. *)
CommitTerminal(e) ==
  LET r == exec[e].run
      ending == exec[e].ending IN
  /\ exec[e].step = "committing"
  /\ IF run[r] \notin Ended /\ exec[e].slot # NULL
       THEN /\ SetState(r, ending)
            /\ result' = IF ending = "complete" THEN result \cup {r} ELSE result
            /\ refunded' = IF ending = "failed" THEN refunded \cup {r} ELSE refunded
            /\ res' = [res EXCEPT ![r].stage = ending]
       ELSE UNCHANGED <<run, result, slot, res, refunded>>
  /\ Quit(e)
  /\ UNCHANGED <<lost, faults, refused>>

-----------------------------------------------------------------------------
Worker(e) ==
  \/ PublishDemo(e) \/ PublishStandard(e) \/ FailDemo(e) \/ FailStandard(e) \/ Release(e)
  \/ Load(e) \/ Search(e) \/ Persist(e)
  \/ (\E ending \in Ended : Conclude(e, ending)) \/ CommitTerminal(e)

Faulty(e) == Crash(e) \/ Throw(e) \/ FailLost(e)
Pick(r) == \E s \in Slots, e \in Executions : Acquire(r, s, e) \/ Reserve(r, s, e)

Next ==
  \/ \E r \in Runs : Pick(r) \/ Cancel(r) \/ Refuse(r)
  \/ \E e \in Executions : Worker(e) \/ Faulty(e)
  \/ \E s \in Slots : Expire(s) \/ Recover(s)

(* A live run that waits and is refused makes every cycle of a worker throw before it
   comes to later live runs and to synthetic ones; which runs are earlier is not
   modelled, so it may starve any run. *)
Starved == \E q \in refused : run[q] \in Claimable

(* Every cycle of a worker recovers, then picks, unless it throws first; a running
   process goes on. *)
Fairness ==
  /\ \A r \in Runs : WF_vars(~Starved /\ Pick(r))
  /\ \A e \in Executions : WF_vars(Worker(e))
  /\ \A s \in Slots : WF_vars(Recover(s)) /\ WF_vars(NoFault /\ Expire(s))

Spec == Init /\ [][Next]_vars
FairSpec == Spec /\ Fairness

-----------------------------------------------------------------------------
(* Properties. *)

(* Runs of the Standard and of the live executor keep the promise of RunPromise:
   a stale worker, a late commit and a cancellation race for the end of a run and
   one of them has it. *)
Promises == INSTANCE RunPromise WITH
  Runs <- Standard \cup Live, Refundable <- Live,
  verdict <- [r \in Standard \cup Live |-> IF run[r] \in Ended THEN run[r] ELSE "open"],
  published <- result \ Demo
KeepsRunPromise == Promises!Promise

(* A committed terminal record says what became of the run, whatever was done to
   the run before or after it. *)
TerminalAgrees == \A r \in Live : res[r].stage \in Ended => run[r] = res[r].stage

(* A run in 'researching' has a lease that is not released, by which it can be found
   and recovered, unless the failure update of its worker was lost. *)
Stranded(r) == run[r] = "researching" /\ Unreleased(r) = {} /\ r \in lost
ResearchingIsHeld ==
  \A r \in Runs : run[r] = "researching" => Unreleased(r) # {} \/ Stranded(r)

(* A run has at most one lease, and the reservation of a live run follows it: when
   both still carry the token of some process, it is the same process. *)
LeaseIsReserved ==
  /\ \A r \in Runs, s, t \in Slots : {s, t} \subseteq Unreleased(r) => s = t
  /\ \A r \in Live, s \in Slots : slot[s] = [run |-> r, status |-> "held"] =>
       /\ res[r].fresh
       /\ \A e \in Executions : exec[e].slot = s <=> (exec[e].run = r /\ exec[e].reserved)

(* No execution that owns its run is about to pay for the discovery of sources, or to
   store it, when sources are checkpointed already: not after a crash, a lost lease or
   a reclaim by another worker. *)
DiscoveryIsKept ==
  \A e \in Executions :
    exec[e].step \in {"searching", "found"} /\ Owns(e) => res[exec[e].run].stage = "reserved"


(* A cancelled run stays cancelled, on every tier. *)
CancelIsFinal == [][\A r \in Runs : run[r] = "cancelled" => run'[r] = "cancelled"]_vars
=============================================================================
