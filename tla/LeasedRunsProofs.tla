--------------------------- MODULE LeasedRunsProofs ---------------------------
(* What holds of the run queue for any number of runs, slots, processes and
   faults. *)
EXTENDS LeasedRuns, TLAPS

(* What a process is doing fits the run it took. *)
ExecFits(e) ==
  /\ exec[e].step = "idle" => exec[e] = Idle
  /\ exec[e].step \in {"running", "failing", "releasing"} => exec[e].run \in Demo \cup Standard
  /\ exec[e].step \in {"starting", "searching", "found", "working", "committing"} =>
       exec[e].run \in Live
  /\ exec[e].step = "committing" => exec[e].ending \in Ended
  /\ exec[e].slot # NULL => slot[exec[e].slot].run = exec[e].run
  /\ exec[e].reserved => exec[e].run \in Live

Fits ==
  /\ \A e \in Executions : ExecFits(e)
  /\ \A s \in Slots : slot[s].status # "free" => slot[s].run # NULL

(* A slot and a reservation have the token of one process. *)
Tokens == \A d, e \in Executions :
  \/ exec[d].slot = exec[e].slot /\ exec[e].slot # NULL
  \/ exec[d].run = exec[e].run /\ exec[d].reserved /\ exec[e].reserved
  => d = e

(* A run with a result is never open again. *)
ResultEnds == \A r \in Runs : r \in result => run[r] \in Ended

(* A process that gives its lease back does not leave its run behind. *)
ReleasingFits ==
  \A e \in Executions :
    exec[e].step = "releasing" /\ exec[e].slot # NULL /\ slot[exec[e].slot].status # "free" =>
      run[exec[e].run] # "researching" \/ exec[e].run \in lost

(* ResearchingIsHeld and LeaseIsReserved, slot by slot. *)
ResearchingHasSlot ==
  \A r \in Runs : run[r] = "researching" =>
    r \in lost \/ \E s \in Slots : slot[s].status # "free" /\ slot[s].run = r
OneSlot == \A s, t \in Slots :
  slot[s].status # "free" /\ slot[t].status # "free" /\ slot[s].run = slot[t].run => s = t
SlotIsReserved ==
  \A s \in Slots : slot[s].status = "held" /\ slot[s].run \in Live =>
    /\ res[slot[s].run].fresh
    /\ \A e \in Executions :
         exec[e].slot = s <=> (exec[e].run = slot[s].run /\ exec[e].reserved)

LeaseInv ==
  /\ TypeOK /\ Fits /\ Tokens /\ ResultEnds /\ ReleasingFits
  /\ TerminalAgrees /\ ResearchingHasSlot /\ OneSlot /\ SlotIsReserved /\ DiscoveryIsKept

USE RunsAssumption
USE DEF Runs, Ended, Claimable, RunState, Step, Stage

-----------------------------------------------------------------------------
(* What the operators the actions are built from do to the rows. *)

SlotRows == [Slots -> [run : Runs \cup {NULL}, status : {"free", "held", "expired"}]]
ExecRows == [Executions -> [run : Runs \cup {NULL}, step : Step, ending : Ended \cup {NULL},
                            slot : Slots \cup {NULL}, reserved : BOOLEAN]]

(* Same process, same record, but for what replaced tokens change. *)
Kept(d) ==
  /\ exec'[d].run = exec[d].run /\ exec'[d].step = exec[d].step
  /\ exec'[d].ending = exec[d].ending

LEMMA GotoRows ==
  ASSUME exec \in ExecRows, NEW e \in Executions, NEW step \in Step, Goto(e, step)
  PROVE  /\ exec' \in ExecRows
         /\ \A d \in Executions : d # e => exec'[d] = exec[d]
         /\ exec'[e].run = exec[e].run /\ exec'[e].step = step
         /\ exec'[e].ending = exec[e].ending /\ exec'[e].slot = exec[e].slot
         /\ exec'[e].reserved = exec[e].reserved
  BY DEF Goto, ExecRows

LEMMA QuitRows ==
  ASSUME exec \in ExecRows, NEW e \in Executions, Quit(e)
  PROVE  /\ exec' \in ExecRows
         /\ \A d \in Executions : d # e => exec'[d] = exec[d]
         /\ exec'[e] = Idle
  BY DEF Quit, ExecRows, Idle

LEMMA ReleasedRows ==
  ASSUME slot \in SlotRows, NEW S \in SUBSET Slots, slot' = Released(S)
  PROVE  /\ slot' \in SlotRows
         /\ \A s \in Slots : slot'[s].run = slot[s].run
         /\ \A s \in Slots : s \notin S => slot'[s] = slot[s]
         /\ \A s \in S : slot'[s].status = "free"
  BY DEF Released, SlotRows

LEMMA SetStateRows ==
  ASSUME TypeOK, NEW r \in Runs, NEW state \in RunState, SetState(r, state)
  PROVE  /\ run' \in [Runs -> RunState] /\ slot' \in SlotRows
         /\ run'[r] = state
         /\ \A q \in Runs : q # r => run'[q] = run[q]
         /\ \A s \in Slots : slot'[s].run = slot[s].run
         /\ \A s \in Slots : slot[s].run # r => slot'[s] = slot[s]
         /\ \A s \in Slots : slot'[s] = slot[s] \/ slot'[s].status = "free"
         /\ state \in Ended /\ run[r] # state =>
              \A s \in Slots : slot[s].run = r => slot'[s].status = "free"
<1>0. slot \in SlotRows
  BY DEF TypeOK, SlotRows
<1>1. Unreleased(r) \in SUBSET Slots
  BY DEF Unreleased
<1>2. CASE state \in Ended /\ run[r] # state
  <2>1. slot' = Released(Unreleased(r))
    BY <1>2 DEF SetState
  <2>2. /\ slot' \in SlotRows
        /\ \A s \in Slots : slot'[s].run = slot[s].run
        /\ \A s \in Slots : s \notin Unreleased(r) => slot'[s] = slot[s]
        /\ \A s \in Unreleased(r) : slot'[s].status = "free"
    BY <1>0, <1>1, <2>1, ReleasedRows
  <2>3. \A s \in Slots : slot[s].run = r => slot'[s].status = "free"
    BY <2>2 DEF Unreleased
  <2> QED
    BY <1>2, <2>2, <2>3 DEF SetState, TypeOK, Unreleased
<1>3. CASE ~(state \in Ended /\ run[r] # state)
  BY <1>0, <1>3 DEF SetState, TypeOK
<1> QED
  BY <1>2, <1>3

LEMMA TakeRows ==
  ASSUME slot \in SlotRows, exec \in ExecRows, NEW r \in Runs, NEW s \in Slots,
         NEW e \in Executions, NEW step \in Step, Take(e, r, s, step)
  PROVE  /\ slot' \in SlotRows /\ exec' \in ExecRows
         /\ exec[e] = Idle
         /\ slot'[s] = [run |-> r, status |-> "held"]
         /\ \A t \in Slots : t # s => slot'[t] = slot[t]
         /\ exec'[e].run = r /\ exec'[e].step = step /\ exec'[e].ending = NULL
         /\ exec'[e].slot = s /\ (exec'[e].reserved <=> r \in Live)
         /\ \A d \in Executions : d # e =>
              /\ Kept(d)
              /\ exec'[d].slot = IF exec[d].slot = s THEN NULL ELSE exec[d].slot
              /\ exec'[d].reserved <=> exec[d].reserved /\ exec[d].run # r
<1>1. exec[e] = Idle
  BY DEF Take, Gone
<1>2. slot' \in SlotRows
  BY DEF Take, SlotRows
<1>3. exec' = [d \in Executions |->
       IF d = e THEN [run |-> r, step |-> step, ending |-> NULL, slot |-> s, reserved |-> r \in Live]
       ELSE [exec[d] EXCEPT !.slot = IF @ = s THEN NULL ELSE @,
                            !.reserved = IF exec[d].run = r THEN FALSE ELSE @]]
  BY DEF Take
<1>4. \A d \in Executions : d # e =>
        /\ Kept(d)
        /\ exec'[d].slot = IF exec[d].slot = s THEN NULL ELSE exec[d].slot
        /\ exec'[d].reserved <=> exec[d].reserved /\ exec[d].run # r
  <2> SUFFICES ASSUME NEW d \in Executions, d # e
               PROVE  /\ Kept(d)
                      /\ exec'[d].slot = IF exec[d].slot = s THEN NULL ELSE exec[d].slot
                      /\ exec'[d].reserved <=> exec[d].reserved /\ exec[d].run # r
    OBVIOUS
  <2>1. exec'[d] = [exec[d] EXCEPT !.slot = IF @ = s THEN NULL ELSE @,
                                   !.reserved = IF exec[d].run = r THEN FALSE ELSE @]
    BY <1>3
  <2> QED
    BY <2>1 DEF ExecRows, Kept
<1>5. exec' \in ExecRows
  <2> SUFFICES ASSUME NEW d \in Executions
               PROVE  exec'[d] \in [run : Runs \cup {NULL}, step : Step, ending : Ended \cup {NULL},
                                    slot : Slots \cup {NULL}, reserved : BOOLEAN]
    BY <1>3 DEF ExecRows
  <2>1. CASE d = e
    <3>1. (r \in Live) \in BOOLEAN
      OBVIOUS
    <3>2. exec'[d] = [run |-> r, step |-> step, ending |-> NULL, slot |-> s, reserved |-> r \in Live]
      BY <1>3, <2>1
    <3> QED
      BY <3>1, <3>2
  <2>2. CASE d # e
    <3>1. exec'[d] = [exec[d] EXCEPT !.slot = IF @ = s THEN NULL ELSE @,
                                     !.reserved = IF exec[d].run = r THEN FALSE ELSE @]
      BY <1>3, <2>2
    <3>2. exec[d] \in [run : Runs \cup {NULL}, step : Step, ending : Ended \cup {NULL},
                       slot : Slots \cup {NULL}, reserved : BOOLEAN]
      BY DEF ExecRows
    <3> QED
      BY <3>1, <3>2
  <2> QED
    BY <2>1, <2>2
<1>6. exec'[e] = [run |-> r, step |-> step, ending |-> NULL, slot |-> s, reserved |-> r \in Live]
  BY <1>3
<1>7. exec'[e].reserved <=> r \in Live
  <2>1. exec'[e].reserved = (r \in Live)
    BY <1>6
  <2> QED
    BY <2>1, Zenon
<1>8. /\ slot'[s] = [run |-> r, status |-> "held"]
      /\ \A t \in Slots : t # s => slot'[t] = slot[t]
  BY DEF Take, SlotRows
<1>9. /\ exec'[e].run = r /\ exec'[e].step = step
      /\ exec'[e].ending = NULL /\ exec'[e].slot = s
  BY <1>6
<1> QED
  BY <1>1, <1>2, <1>4, <1>5, <1>7, <1>8, <1>9

-----------------------------------------------------------------------------
(* Every action keeps the invariant. *)

LEMMA RecoverStep ==
  ASSUME LeaseInv, NEW s \in Slots, Recover(s)
  PROVE  LeaseInv'
<1>1. TypeOK'
  BY DEF LeaseInv, TypeOK, Fits, ExecFits, Recover, Released
<1>2. Fits'
  BY DEF LeaseInv, TypeOK, Fits, ExecFits, Recover, Released
<1>3. Tokens'
  BY DEF LeaseInv, TypeOK, Fits, ExecFits, Tokens, Recover, Released
<1>4. ResultEnds'
  BY DEF LeaseInv, TypeOK, Fits, ExecFits, ResultEnds, Recover, Released
<1>5. ReleasingFits'
  BY DEF LeaseInv, TypeOK, Fits, ExecFits, Tokens, ResultEnds, ReleasingFits, Recover,
         Released
<1>6. TerminalAgrees'
  BY DEF LeaseInv, TypeOK, Fits, ExecFits, TerminalAgrees, Recover, Released
<1>7. ResearchingHasSlot'
  BY DEF LeaseInv, TypeOK, Fits, ExecFits, ReleasingFits, ResearchingHasSlot, Recover,
         Released
<1>8. OneSlot'
  BY DEF LeaseInv, TypeOK, Fits, ExecFits, OneSlot, Recover, Released
<1>9. SlotIsReserved'
  BY DEF LeaseInv, TypeOK, Fits, ExecFits, Tokens, SlotIsReserved, Recover, Released
<1>10. DiscoveryIsKept'
  BY DEF LeaseInv, TypeOK, Fits, ExecFits, Tokens, DiscoveryIsKept, Owns, Own,
         InProgress, Recover, Released
<1>q. QED
  BY <1>1, <1>2, <1>3, <1>4, <1>5, <1>6, <1>7, <1>8, <1>9, <1>10 DEF LeaseInv

LEMMA ExpireStep ==
  ASSUME LeaseInv, NEW s \in Slots, Expire(s)
  PROVE  LeaseInv'
<1>t. slot \in SlotRows /\ exec \in ExecRows
  BY DEF LeaseInv, TypeOK, SlotRows, ExecRows
<1>f. faults' \in 0 .. MaxFaults
  BY DEF Expire, Fault, NoFault, LeaseInv, TypeOK
<1>0. /\ slot' \in SlotRows /\ slot[s].status = "held" /\ slot[s].run \in Runs
      /\ \A t \in Slots : t # s => slot'[t] = slot[t]
      /\ slot'[s].run = slot[s].run /\ slot'[s].status = "expired"
      /\ UNCHANGED <<run, result, exec, refunded, lost, refused>>
  BY DEF Expire, LeaseInv, TypeOK, Fits, SlotRows
<1>v. /\ res' \in [Live -> [fresh : BOOLEAN, stage : Stage]]
      /\ \A q \in Live :
                        /\ res'[q].stage = res[q].stage
                        /\ q # slot[s].run => res'[q] = res[q]
                        /\ q = slot[s].run => res'[q].fresh = FALSE
  <2>1. res \in [Live -> [fresh : BOOLEAN, stage : Stage]]
    BY DEF LeaseInv, TypeOK
  <2>2. res' = [r \in Live |-> IF r = slot[s].run THEN [res[r] EXCEPT !.fresh = FALSE] ELSE res[r]]
    BY DEF Expire
  <2>3. ASSUME NEW q \in Live
        PROVE  /\ res'[q] \in [fresh : BOOLEAN, stage : Stage]
               /\ res'[q].stage = res[q].stage
               /\ q # slot[s].run => res'[q] = res[q]
               /\ q = slot[s].run => res'[q].fresh = FALSE
    <3>1. res[q] \in [fresh : BOOLEAN, stage : Stage]
      BY <2>1
    <3>2. CASE q = slot[s].run
      <4>1. res'[q] = [res[q] EXCEPT !.fresh = FALSE]
        BY <2>2, <3>2
      <4> QED
        BY <3>1, <3>2, <4>1
    <3>3. CASE q # slot[s].run
      BY <2>2, <3>1, <3>3
    <3> QED
      BY <3>2, <3>3
  <2> QED
    BY <2>2, <2>3
<1>1. TypeOK'
  BY <1>f, <1>0, <1>v, <1>t DEF LeaseInv, TypeOK, SlotRows, ExecRows
<1>2. Fits'
  <2>1. ASSUME NEW c \in Executions
        PROVE  ExecFits(c)'
    <3>1. ExecFits(c) /\ exec[c].slot \in Slots \cup {NULL} /\ exec'[c].slot \in Slots \cup {NULL}
      BY <1>f, <1>0, <1>v, <1>t DEF LeaseInv, Fits, ExecRows
    <3> QED
      BY <3>1, <1>f, <1>0, <1>v, <1>t DEF ExecFits, SlotRows, ExecRows, Idle
  <2>2. \A t \in Slots : slot'[t].status # "free" => slot'[t].run # NULL
    BY <1>f, <1>0, <1>v, <1>t DEF LeaseInv, Fits, SlotRows
  <2> QED
    BY <2>1, <2>2 DEF Fits
<1>3. Tokens'
  BY <1>f, <1>0, <1>v, <1>t DEF LeaseInv, Fits, ExecFits, Tokens, SlotRows, ExecRows,
         Kept, Idle
<1>4. ResultEnds'
  BY <1>f, <1>0, <1>v, <1>t DEF LeaseInv, Fits, ExecFits, ResultEnds, SlotRows,
         ExecRows, Kept, Idle
<1>5. ReleasingFits'
  BY <1>f, <1>0, <1>v, <1>t DEF LeaseInv, Fits, ExecFits, Tokens, ResultEnds,
         ReleasingFits, SlotRows, ExecRows, Kept, Idle
<1>6. TerminalAgrees'
  BY <1>f, <1>0, <1>v, <1>t DEF LeaseInv, Fits, ExecFits, TerminalAgrees, SlotRows,
         ExecRows, Kept, Idle
<1>7. ResearchingHasSlot'
  BY <1>f, <1>0, <1>v, <1>t DEF LeaseInv, Fits, ExecFits, ResearchingHasSlot, SlotRows
<1>8. OneSlot'
  BY <1>f, <1>0, <1>v, <1>t DEF LeaseInv, Fits, ExecFits, OneSlot, SlotRows
<1>9. SlotIsReserved'
  <2> SUFFICES ASSUME NEW t \in Slots, slot'[t].status = "held", slot'[t].run \in Live
               PROVE  /\ res'[slot'[t].run].fresh
                      /\ \A c \in Executions :
                           exec'[c].slot = t <=> (exec'[c].run = slot'[t].run /\ exec'[c].reserved)
    BY DEF SlotIsReserved
  <2>1. slot'[t] = slot[t]
    BY <1>f, <1>0, <1>v, <1>t
  <2>2. /\ res[slot[t].run].fresh
        /\ \A c \in Executions :
             exec[c].slot = t <=> (exec[c].run = slot[t].run /\ exec[c].reserved)
    BY <2>1 DEF LeaseInv, SlotIsReserved
  <2>3. t # s /\ slot[t].run # slot[s].run
    BY <2>1, <1>0 DEF LeaseInv, OneSlot
  <2> QED
    BY <2>1, <2>2, <2>3, <1>0, <1>v
<1>10. DiscoveryIsKept'
  BY <1>f, <1>0, <1>v, <1>t DEF LeaseInv, Fits, ExecFits, Tokens, DiscoveryIsKept,
         Owns, Own, InProgress, SlotRows, ExecRows, Kept, Idle
<1>q. QED
  BY <1>1, <1>2, <1>3, <1>4, <1>5, <1>6, <1>7, <1>8, <1>9, <1>10 DEF LeaseInv

LEMMA CrashStep ==
  ASSUME LeaseInv, NEW e \in Executions, Crash(e)
  PROVE  LeaseInv'
<1>1. TypeOK'
  BY DEF LeaseInv, TypeOK, Fits, ExecFits, Crash, Gone, Fault, Quit, Idle
<1>2. Fits'
  BY DEF LeaseInv, TypeOK, Fits, ExecFits, Crash, Gone, Fault, Quit, Idle
<1>3. Tokens'
  BY DEF LeaseInv, TypeOK, Fits, ExecFits, Tokens, Crash, Gone, Fault, Quit, Idle
<1>4. ResultEnds'
  BY DEF LeaseInv, TypeOK, Fits, ExecFits, ResultEnds, Crash, Gone, Fault, Quit, Idle
<1>5. ReleasingFits'
  BY DEF LeaseInv, TypeOK, Fits, ExecFits, Tokens, ResultEnds, ReleasingFits, Crash,
         Gone, Fault, Quit, Idle
<1>6. TerminalAgrees'
  BY DEF LeaseInv, TypeOK, Fits, ExecFits, TerminalAgrees, Crash, Gone, Fault, Quit,
         Idle
<1>7. ResearchingHasSlot'
  BY DEF LeaseInv, TypeOK, Fits, ExecFits, ReleasingFits, ResearchingHasSlot, Crash,
         Gone, Fault, Quit, Idle
<1>8. OneSlot'
  BY DEF LeaseInv, TypeOK, Fits, ExecFits, OneSlot, Crash, Gone, Fault, Quit, Idle
<1>9. SlotIsReserved'
  BY DEF LeaseInv, TypeOK, Fits, ExecFits, Tokens, SlotIsReserved, Crash, Gone, Fault,
         Quit, Idle
<1>10. DiscoveryIsKept'
  BY DEF LeaseInv, TypeOK, Fits, ExecFits, Tokens, DiscoveryIsKept, Owns, Own,
         InProgress, Crash, Gone, Fault, Quit, Idle
<1>q. QED
  BY <1>1, <1>2, <1>3, <1>4, <1>5, <1>6, <1>7, <1>8, <1>9, <1>10 DEF LeaseInv

LEMMA CancelStep ==
  ASSUME LeaseInv, NEW r \in Runs, Cancel(r)
  PROVE  LeaseInv'
<1>1. TypeOK'
  BY DEF LeaseInv, TypeOK, Fits, ExecFits, Cancel, SetState, Released, Unreleased
<1>2. Fits'
  BY DEF LeaseInv, TypeOK, Fits, ExecFits, Cancel, SetState, Released, Unreleased
<1>3. Tokens'
  BY DEF LeaseInv, TypeOK, Fits, ExecFits, Tokens, Cancel, SetState, Released,
         Unreleased
<1>4. ResultEnds'
  BY DEF LeaseInv, TypeOK, Fits, ExecFits, ResultEnds, Cancel, SetState, Released,
         Unreleased
<1>5. ReleasingFits'
  BY DEF LeaseInv, TypeOK, Fits, ExecFits, Tokens, ResultEnds, ReleasingFits, Cancel,
         SetState, Released, Unreleased
<1>6. TerminalAgrees'
  BY DEF LeaseInv, TypeOK, Fits, ExecFits, TerminalAgrees, Cancel, SetState, Released,
         Unreleased
<1>7. ResearchingHasSlot'
  BY DEF LeaseInv, TypeOK, Fits, ExecFits, ReleasingFits, ResearchingHasSlot, Cancel,
         SetState, Released, Unreleased
<1>8. OneSlot'
  BY DEF LeaseInv, TypeOK, Fits, ExecFits, OneSlot, Cancel, SetState, Released,
         Unreleased
<1>9. SlotIsReserved'
  BY DEF LeaseInv, TypeOK, Fits, ExecFits, Tokens, SlotIsReserved, Cancel, SetState,
         Released, Unreleased
<1>10. DiscoveryIsKept'
  BY DEF LeaseInv, TypeOK, Fits, ExecFits, Tokens, DiscoveryIsKept, Owns, Own,
         InProgress, Cancel, SetState, Released, Unreleased
<1>q. QED
  BY <1>1, <1>2, <1>3, <1>4, <1>5, <1>6, <1>7, <1>8, <1>9, <1>10 DEF LeaseInv

LEMMA AcquireStep ==
  ASSUME LeaseInv, NEW r \in Runs, NEW s \in Slots, NEW e \in Executions, Acquire(r, s, e)
  PROVE  LeaseInv'
<1>t. slot \in SlotRows /\ exec \in ExecRows
  BY DEF LeaseInv, TypeOK, SlotRows, ExecRows
<1>0. /\ slot' \in SlotRows /\ exec' \in ExecRows /\ exec[e] = Idle
      /\ slot'[s] = [run |-> r, status |-> "held"]
      /\ \A t \in Slots : t # s => slot'[t] = slot[t]
      /\ exec'[e].run = r /\ exec'[e].step = "running" /\ exec'[e].ending = NULL
      /\ exec'[e].slot = s /\ (exec'[e].reserved <=> r \in Live)
      /\ \A d \in Executions : d # e =>
           /\ Kept(d)
           /\ exec'[d].slot = IF exec[d].slot = s THEN NULL ELSE exec[d].slot
           /\ exec'[d].reserved <=> exec[d].reserved /\ exec[d].run # r
  <2>1. Take(e, r, s, "running") /\ "running" \in Step
    BY DEF Acquire
  <2> QED
    BY <1>t, <2>1, TakeRows, SMTT(30)
<1>r. /\ run' \in [Runs -> RunState] /\ run'[r] = "researching"
      /\ \A q \in Runs : q # r => run'[q] = run[q]
      /\ run[r] \in Claimable /\ r \in Demo \cup Standard
      /\ slot[s].status = "free" /\ \A t \in Slots : slot[t].run = r => slot[t].status = "free"
      /\ UNCHANGED <<result, res, refunded, lost, faults, refused>>
  BY DEF Acquire, LeaseInv, TypeOK, Unreleased
<1>1. TypeOK'
  BY <1>t, <1>0, <1>r DEF LeaseInv, TypeOK, SlotRows, ExecRows
<1>2. Fits'
  <2>1. ASSUME NEW c \in Executions
        PROVE  ExecFits(c)'
    <3>1. ExecFits(c) /\ exec[c].slot \in Slots \cup {NULL} /\ exec'[c].slot \in Slots \cup {NULL}
      BY <1>t, <1>0, <1>r DEF LeaseInv, Fits, ExecRows
    <3>2. CASE c = e
      BY <3>1, <3>2, <1>t, <1>0, <1>r DEF ExecFits, SlotRows, ExecRows, Idle
    <3>3. CASE c # e
      BY <3>1, <3>3, <1>t, <1>0, <1>r DEF ExecFits, SlotRows, ExecRows, Kept, Idle
    <3> QED
      BY <3>2, <3>3
  <2>2. \A t \in Slots : slot'[t].status # "free" => slot'[t].run # NULL
    BY <1>t, <1>0, <1>r DEF LeaseInv, Fits, SlotRows
  <2> QED
    BY <2>1, <2>2 DEF Fits
<1>3. Tokens'
  BY <1>t, <1>0, <1>r DEF LeaseInv, Fits, ExecFits, Tokens, SlotRows, ExecRows, Kept,
         Idle
<1>4. ResultEnds'
  BY <1>t, <1>0, <1>r DEF LeaseInv, Fits, ExecFits, ResultEnds, SlotRows, ExecRows,
         Kept, Idle
<1>5. ReleasingFits'
  BY <1>t, <1>0, <1>r DEF LeaseInv, Fits, ExecFits, Tokens, ResultEnds, ReleasingFits,
         SlotRows, ExecRows, Kept, Idle
<1>6. TerminalAgrees'
  BY <1>t, <1>0, <1>r DEF LeaseInv, Fits, ExecFits, TerminalAgrees, SlotRows, ExecRows,
         Kept, Idle
<1>7. ResearchingHasSlot'
  <2>1. ASSUME NEW q \in Runs, run'[q] = "researching", q \notin lost
        PROVE  \E t \in Slots : slot'[t].status # "free" /\ slot'[t].run = q
    <3>1. CASE q = r
      <4>1. slot'[s].status = "held" /\ slot'[s].run = r
        BY <1>0
      <4> QED
        BY <3>1, <4>1
    <3>2. CASE q # r
      <4>1. run[q] = "researching"
        BY <2>1, <3>2, <1>r
      <4>2. PICK t \in Slots : slot[t].status # "free" /\ slot[t].run = q
        BY <4>1, <2>1 DEF LeaseInv, ResearchingHasSlot
      <4>3. slot'[t] = slot[t]
        BY <4>2, <1>0, <1>r
      <4> QED
        BY <4>2, <4>3
    <3> QED
      BY <3>1, <3>2
  <2> QED
    BY <2>1, <1>r DEF ResearchingHasSlot
<1>8. OneSlot'
  BY <1>t, <1>0, <1>r DEF LeaseInv, Fits, ExecFits, OneSlot, SlotRows
<1>9. SlotIsReserved'
  BY <1>t, <1>0, <1>r DEF LeaseInv, Fits, ExecFits, Tokens, SlotIsReserved, SlotRows,
         ExecRows, Kept, Idle
<1>10. DiscoveryIsKept'
  BY <1>t, <1>0, <1>r DEF LeaseInv, Fits, ExecFits, Tokens, DiscoveryIsKept, Owns, Own,
         InProgress, SlotRows, ExecRows, Kept, Idle
<1>q. QED
  BY <1>1, <1>2, <1>3, <1>4, <1>5, <1>6, <1>7, <1>8, <1>9, <1>10 DEF LeaseInv

LEMMA PublishDemoStep ==
  ASSUME LeaseInv, NEW e \in Executions, PublishDemo(e)
  PROVE  LeaseInv'
<1>t. slot \in SlotRows /\ exec \in ExecRows
  BY DEF LeaseInv, TypeOK, SlotRows, ExecRows
<1>s. /\ exec[e].run \in Runs
      /\ \/ SetState(exec[e].run, "complete")
         \/ UNCHANGED <<run, slot>>
  BY DEF PublishDemo, LeaseInv, TypeOK
<1>0. /\ run' \in [Runs -> RunState] /\ slot' \in SlotRows
      /\ \A q \in Runs : q # exec[e].run => run'[q] = run[q]
      /\ \A s \in Slots :
           /\ slot'[s].run = slot[s].run
           /\ \/ slot'[s] = slot[s]
              \/ slot'[s].status = "free" /\ slot[s].run = exec[e].run
      /\ \/ UNCHANGED <<run, slot>>
         \/ /\ run'[exec[e].run] = "complete"
            /\ run[exec[e].run] # "complete" =>
                 \A s \in Slots : slot[s].run = exec[e].run => slot'[s].status = "free"
  <2>1. CASE UNCHANGED <<run, slot>>
    BY <1>t, <2>1 DEF LeaseInv, TypeOK
  <2>2. CASE SetState(exec[e].run, "complete")
    <3>1. TypeOK
      BY DEF LeaseInv
    <3>2. /\ run' \in [Runs -> RunState] /\ slot' \in SlotRows
          /\ run'[exec[e].run] = "complete"
          /\ \A q \in Runs : q # exec[e].run => run'[q] = run[q]
          /\ \A s \in Slots : slot'[s].run = slot[s].run
          /\ \A s \in Slots : slot[s].run # exec[e].run => slot'[s] = slot[s]
          /\ \A s \in Slots : slot'[s] = slot[s] \/ slot'[s].status = "free"
          /\ "complete" \in Ended /\ run[exec[e].run] # "complete" =>
               \A s \in Slots : slot[s].run = exec[e].run => slot'[s].status = "free"
      <4>1. "complete" \in RunState
        OBVIOUS
      <4> QED
        BY <4>1, <1>s, <2>2, <3>1, SetStateRows, Zenon
    <3> QED
      BY <1>s, <3>2
  <2> QED
    BY <1>s, <2>1, <2>2
<1>g. Goto(e, "failing") \/ Quit(e)
  BY DEF PublishDemo, LoseAnswer
<1>x. /\ exec' \in ExecRows
      /\ \A d \in Executions : d # e => exec'[d] = exec[d]
      /\ \/ exec'[e] = Idle
         \/ /\ exec'[e].step = "failing" /\ exec'[e].run = exec[e].run
            /\ exec'[e].ending = exec[e].ending /\ exec'[e].slot = exec[e].slot
            /\ exec'[e].reserved = exec[e].reserved
  BY <1>t, <1>g, GotoRows, QuitRows
<1>r. /\ exec[e].step = "running" /\ exec[e].run \in Demo
      /\ UNCHANGED <<res, refunded, lost, refused>>
      /\ \/ UNCHANGED <<run, slot, result, faults>>
         \/ /\ run'[exec[e].run] = "complete" /\ result' = result \cup {exec[e].run}
            /\ faults' \in 0 .. MaxFaults
  BY <1>s DEF PublishDemo, SetState, LoseAnswer, Fault, NoFault, LeaseInv, TypeOK
<1>1. TypeOK'
  BY <1>t, <1>0, <1>x, <1>r DEF LeaseInv, TypeOK, SlotRows, ExecRows
<1>2. Fits'
  <2>1. ASSUME NEW c \in Executions
        PROVE  ExecFits(c)'
    <3>1. ExecFits(c) /\ exec[c].slot \in Slots \cup {NULL} /\ exec'[c].slot \in Slots \cup {NULL}
      BY <1>t, <1>0, <1>x, <1>r DEF LeaseInv, Fits, ExecRows
    <3>2. CASE c = e
      BY <3>1, <3>2, <1>t, <1>0, <1>x, <1>r DEF ExecFits, SlotRows, ExecRows, Idle
    <3>3. CASE c # e
      BY <3>1, <3>3, <1>t, <1>0, <1>x, <1>r DEF ExecFits, SlotRows, ExecRows, Kept, Idle
    <3> QED
      BY <3>2, <3>3
  <2>2. \A t \in Slots : slot'[t].status # "free" => slot'[t].run # NULL
    BY <1>t, <1>0, <1>x, <1>r DEF LeaseInv, Fits, SlotRows
  <2> QED
    BY <2>1, <2>2 DEF Fits
<1>3. Tokens'
  BY <1>t, <1>0, <1>x, <1>r DEF LeaseInv, Fits, ExecFits, Tokens, SlotRows, ExecRows,
         Kept, Idle
<1>4. ResultEnds'
  BY <1>t, <1>0, <1>x, <1>r DEF LeaseInv, Fits, ExecFits, ResultEnds, SlotRows,
         ExecRows, Kept, Idle
<1>5. ReleasingFits'
  BY <1>t, <1>0, <1>x, <1>r DEF LeaseInv, Fits, ExecFits, Tokens, ResultEnds,
         ReleasingFits, SlotRows, ExecRows, Kept, Idle
<1>6. TerminalAgrees'
  BY <1>t, <1>0, <1>x, <1>r DEF LeaseInv, Fits, ExecFits, TerminalAgrees, SlotRows,
         ExecRows, Kept, Idle
<1>7. ResearchingHasSlot'
  BY <1>t, <1>0, <1>x, <1>r DEF LeaseInv, Fits, ExecFits, ResearchingHasSlot, SlotRows
<1>8. OneSlot'
  BY <1>t, <1>0, <1>x, <1>r DEF LeaseInv, Fits, ExecFits, OneSlot, SlotRows
<1>9. SlotIsReserved'
  <2> SUFFICES ASSUME NEW t \in Slots, slot'[t].status = "held", slot'[t].run \in Live
               PROVE  /\ res'[slot'[t].run].fresh
                      /\ \A c \in Executions :
                           exec'[c].slot = t <=> (exec'[c].run = slot'[t].run /\ exec'[c].reserved)
    BY DEF SlotIsReserved
  <2>1. slot'[t] = slot[t]
    BY <1>t, <1>0, <1>x, <1>r
  <2>2. /\ res[slot[t].run].fresh
        /\ \A c \in Executions :
             exec[c].slot = t <=> (exec[c].run = slot[t].run /\ exec[c].reserved)
    BY <2>1 DEF LeaseInv, SlotIsReserved
  <2>3. \A c \in Executions :
          exec'[c].slot = t <=> (exec'[c].run = slot[t].run /\ exec'[c].reserved)
    <3> SUFFICES ASSUME NEW c \in Executions
                 PROVE  exec'[c].slot = t <=> (exec'[c].run = slot[t].run /\ exec'[c].reserved)
      OBVIOUS
    <3>1. CASE c # e
      BY <3>1, <2>2, <1>x
    <3>2. CASE c = e
      <4>1. exec[e].run \notin Live /\ ~exec[e].reserved /\ slot[t].run # NULL
        BY <1>r, <2>1 DEF LeaseInv, Fits, ExecFits
      <4>2. exec[e].slot # t
        BY <4>1, <2>1, <2>2
      <4> QED
        BY <3>2, <4>1, <4>2, <1>x DEF Idle
    <3> QED
      BY <3>1, <3>2
  <2> QED
    BY <2>1, <2>2, <2>3, <1>r
<1>10. DiscoveryIsKept'
  BY <1>t, <1>0, <1>x, <1>r DEF LeaseInv, Fits, ExecFits, Tokens, DiscoveryIsKept,
         Owns, Own, InProgress, SlotRows, ExecRows, Kept, Idle
<1>q. QED
  BY <1>1, <1>2, <1>3, <1>4, <1>5, <1>6, <1>7, <1>8, <1>9, <1>10 DEF LeaseInv

LEMMA PublishStandardStep ==
  ASSUME LeaseInv, NEW e \in Executions, PublishStandard(e)
  PROVE  LeaseInv'
<1>t. slot \in SlotRows /\ exec \in ExecRows
  BY DEF LeaseInv, TypeOK, SlotRows, ExecRows
<1>s. /\ exec[e].run \in Runs
      /\ \/ SetState(exec[e].run, "complete")
         \/ UNCHANGED <<run, slot>>
  BY DEF PublishStandard, LeaseInv, TypeOK
<1>0. /\ run' \in [Runs -> RunState] /\ slot' \in SlotRows
      /\ \A q \in Runs : q # exec[e].run => run'[q] = run[q]
      /\ \A s \in Slots :
           /\ slot'[s].run = slot[s].run
           /\ \/ slot'[s] = slot[s]
              \/ slot'[s].status = "free" /\ slot[s].run = exec[e].run
      /\ \/ UNCHANGED <<run, slot>>
         \/ /\ run'[exec[e].run] = "complete"
            /\ run[exec[e].run] # "complete" =>
                 \A s \in Slots : slot[s].run = exec[e].run => slot'[s].status = "free"
  <2>1. CASE UNCHANGED <<run, slot>>
    BY <1>t, <2>1 DEF LeaseInv, TypeOK
  <2>2. CASE SetState(exec[e].run, "complete")
    <3>1. TypeOK
      BY DEF LeaseInv
    <3>2. /\ run' \in [Runs -> RunState] /\ slot' \in SlotRows
          /\ run'[exec[e].run] = "complete"
          /\ \A q \in Runs : q # exec[e].run => run'[q] = run[q]
          /\ \A s \in Slots : slot'[s].run = slot[s].run
          /\ \A s \in Slots : slot[s].run # exec[e].run => slot'[s] = slot[s]
          /\ \A s \in Slots : slot'[s] = slot[s] \/ slot'[s].status = "free"
          /\ "complete" \in Ended /\ run[exec[e].run] # "complete" =>
               \A s \in Slots : slot[s].run = exec[e].run => slot'[s].status = "free"
      <4>1. "complete" \in RunState
        OBVIOUS
      <4> QED
        BY <4>1, <1>s, <2>2, <3>1, SetStateRows, Zenon
    <3> QED
      BY <1>s, <3>2
  <2> QED
    BY <1>s, <2>1, <2>2
<1>g. Goto(e, "failing") \/ Goto(e, "releasing")
  BY DEF PublishStandard, LoseAnswer
<1>x. /\ exec' \in ExecRows
      /\ \A d \in Executions : d # e => exec'[d] = exec[d]
      /\ exec'[e].step \in {"failing", "releasing"} /\ exec'[e].run = exec[e].run
      /\ exec'[e].ending = exec[e].ending /\ exec'[e].slot = exec[e].slot
      /\ exec'[e].reserved = exec[e].reserved
  BY <1>t, <1>g, GotoRows
<1>r. /\ exec[e].step = "running" /\ exec[e].run \in Standard
      /\ UNCHANGED <<res, refunded, lost, refused>>
      /\ \/ UNCHANGED <<run, slot, result, faults>> /\ (run[exec[e].run] \in Ended \/ exec[e].run \in result)
         \/ /\ run'[exec[e].run] = "complete" /\ result' = result \cup {exec[e].run}
            /\ faults' \in 0 .. MaxFaults
  BY <1>s DEF PublishStandard, SetState, LoseAnswer, Fault, NoFault, LeaseInv, TypeOK
<1>1. TypeOK'
  BY <1>t, <1>0, <1>x, <1>r DEF LeaseInv, TypeOK, SlotRows, ExecRows
<1>2. Fits'
  <2>1. ASSUME NEW c \in Executions
        PROVE  ExecFits(c)'
    <3>1. ExecFits(c) /\ exec[c].slot \in Slots \cup {NULL} /\ exec'[c].slot \in Slots \cup {NULL}
      BY <1>t, <1>0, <1>x, <1>r DEF LeaseInv, Fits, ExecRows
    <3>2. CASE c = e
      BY <3>1, <3>2, <1>t, <1>0, <1>x, <1>r DEF ExecFits, SlotRows, ExecRows, Idle
    <3>3. CASE c # e
      BY <3>1, <3>3, <1>t, <1>0, <1>x, <1>r DEF ExecFits, SlotRows, ExecRows, Kept, Idle
    <3> QED
      BY <3>2, <3>3
  <2>2. \A t \in Slots : slot'[t].status # "free" => slot'[t].run # NULL
    BY <1>t, <1>0, <1>x, <1>r DEF LeaseInv, Fits, SlotRows
  <2> QED
    BY <2>1, <2>2 DEF Fits
<1>3. Tokens'
  BY <1>t, <1>0, <1>x, <1>r DEF LeaseInv, Fits, ExecFits, Tokens, SlotRows, ExecRows,
         Kept, Idle
<1>4. ResultEnds'
  BY <1>t, <1>0, <1>x, <1>r DEF LeaseInv, Fits, ExecFits, ResultEnds, SlotRows,
         ExecRows, Kept, Idle
<1>5. ReleasingFits'
  BY <1>t, <1>0, <1>x, <1>r DEF LeaseInv, Fits, ExecFits, Tokens, ResultEnds,
         ReleasingFits, SlotRows, ExecRows, Kept, Idle
<1>6. TerminalAgrees'
  BY <1>t, <1>0, <1>x, <1>r DEF LeaseInv, Fits, ExecFits, TerminalAgrees, SlotRows,
         ExecRows, Kept, Idle
<1>7. ResearchingHasSlot'
  BY <1>t, <1>0, <1>x, <1>r DEF LeaseInv, Fits, ExecFits, ResearchingHasSlot, SlotRows
<1>8. OneSlot'
  BY <1>t, <1>0, <1>x, <1>r DEF LeaseInv, Fits, ExecFits, OneSlot, SlotRows
<1>9. SlotIsReserved'
  <2> SUFFICES ASSUME NEW t \in Slots, slot'[t].status = "held", slot'[t].run \in Live
               PROVE  /\ res'[slot'[t].run].fresh
                      /\ \A c \in Executions :
                           exec'[c].slot = t <=> (exec'[c].run = slot'[t].run /\ exec'[c].reserved)
    BY DEF SlotIsReserved
  <2>1. slot'[t] = slot[t]
    BY <1>t, <1>0, <1>x, <1>r
  <2>2. /\ res[slot[t].run].fresh
        /\ \A c \in Executions :
             exec[c].slot = t <=> (exec[c].run = slot[t].run /\ exec[c].reserved)
    BY <2>1 DEF LeaseInv, SlotIsReserved
  <2>3. \A c \in Executions :
          exec'[c].slot = t <=> (exec'[c].run = slot[t].run /\ exec'[c].reserved)
    <3> SUFFICES ASSUME NEW c \in Executions
                 PROVE  exec'[c].slot = t <=> (exec'[c].run = slot[t].run /\ exec'[c].reserved)
      OBVIOUS
    <3>1. CASE c # e
      BY <3>1, <2>2, <1>x
    <3>2. CASE c = e
      <4>1. exec[e].run \notin Live /\ ~exec[e].reserved /\ slot[t].run # NULL
        BY <1>r, <2>1 DEF LeaseInv, Fits, ExecFits
      <4>2. exec[e].slot # t
        BY <4>1, <2>1, <2>2
      <4> QED
        BY <3>2, <4>1, <4>2, <1>x DEF Idle
    <3> QED
      BY <3>1, <3>2
  <2> QED
    BY <2>1, <2>2, <2>3, <1>r
<1>10. DiscoveryIsKept'
  BY <1>t, <1>0, <1>x, <1>r DEF LeaseInv, Fits, ExecFits, Tokens, DiscoveryIsKept,
         Owns, Own, InProgress, SlotRows, ExecRows, Kept, Idle
<1>q. QED
  BY <1>1, <1>2, <1>3, <1>4, <1>5, <1>6, <1>7, <1>8, <1>9, <1>10 DEF LeaseInv

LEMMA ThrowStep ==
  ASSUME LeaseInv, NEW e \in Executions, Throw(e)
  PROVE  LeaseInv'
<1>t. slot \in SlotRows /\ exec \in ExecRows
  BY DEF LeaseInv, TypeOK, SlotRows, ExecRows
<1>x. /\ exec' \in ExecRows
      /\ \A d \in Executions : d # e => exec'[d] = exec[d]
      /\ exec'[e].step = "failing" /\ exec'[e].run = exec[e].run
      /\ exec'[e].ending = exec[e].ending /\ exec'[e].slot = exec[e].slot
      /\ exec'[e].reserved = exec[e].reserved
  BY <1>t, GotoRows DEF Throw
<1>r. /\ exec[e].step = "running" /\ faults' \in 0 .. MaxFaults
      /\ UNCHANGED <<run, result, slot, res, refunded, lost, refused>>
  BY DEF Throw, Fault, LeaseInv, TypeOK
<1>1. TypeOK'
  BY <1>t, <1>x, <1>r DEF LeaseInv, TypeOK, SlotRows, ExecRows
<1>2. Fits'
  <2>1. ASSUME NEW c \in Executions
        PROVE  ExecFits(c)'
    <3>1. ExecFits(c) /\ exec[c].slot \in Slots \cup {NULL} /\ exec'[c].slot \in Slots \cup {NULL}
      BY <1>t, <1>x, <1>r DEF LeaseInv, Fits, ExecRows
    <3>2. CASE c = e
      BY <3>1, <3>2, <1>t, <1>x, <1>r DEF ExecFits, SlotRows, ExecRows, Idle
    <3>3. CASE c # e
      BY <3>1, <3>3, <1>t, <1>x, <1>r DEF ExecFits, SlotRows, ExecRows, Kept, Idle
    <3> QED
      BY <3>2, <3>3
  <2>2. \A t \in Slots : slot'[t].status # "free" => slot'[t].run # NULL
    BY <1>t, <1>x, <1>r DEF LeaseInv, Fits, SlotRows
  <2> QED
    BY <2>1, <2>2 DEF Fits
<1>3. Tokens'
  BY <1>t, <1>x, <1>r DEF LeaseInv, Fits, ExecFits, Tokens, SlotRows, ExecRows, Kept,
         Idle
<1>4. ResultEnds'
  BY <1>t, <1>x, <1>r DEF LeaseInv, Fits, ExecFits, ResultEnds, SlotRows, ExecRows,
         Kept, Idle
<1>5. ReleasingFits'
  BY <1>t, <1>x, <1>r DEF LeaseInv, Fits, ExecFits, Tokens, ResultEnds, ReleasingFits,
         SlotRows, ExecRows, Kept, Idle
<1>6. TerminalAgrees'
  BY <1>t, <1>x, <1>r DEF LeaseInv, Fits, ExecFits, TerminalAgrees, SlotRows, ExecRows,
         Kept, Idle
<1>7. ResearchingHasSlot'
  BY <1>t, <1>x, <1>r DEF LeaseInv, Fits, ExecFits, ResearchingHasSlot, SlotRows
<1>8. OneSlot'
  BY <1>t, <1>x, <1>r DEF LeaseInv, Fits, ExecFits, OneSlot, SlotRows
<1>9. SlotIsReserved'
  BY <1>t, <1>x, <1>r DEF LeaseInv, Fits, ExecFits, Tokens, SlotIsReserved, SlotRows,
         ExecRows, Kept, Idle
<1>10. DiscoveryIsKept'
  BY <1>t, <1>x, <1>r DEF LeaseInv, Fits, ExecFits, Tokens, DiscoveryIsKept, Owns, Own,
         InProgress, SlotRows, ExecRows, Kept, Idle
<1>q. QED
  BY <1>1, <1>2, <1>3, <1>4, <1>5, <1>6, <1>7, <1>8, <1>9, <1>10 DEF LeaseInv

LEMMA FailDemoStep ==
  ASSUME LeaseInv, NEW e \in Executions, FailDemo(e)
  PROVE  LeaseInv'
<1>t. slot \in SlotRows /\ exec \in ExecRows
  BY DEF LeaseInv, TypeOK, SlotRows, ExecRows
<1>s. /\ exec[e].run \in Runs
      /\ \/ SetState(exec[e].run, "failed")
         \/ UNCHANGED <<run, slot>>
  BY DEF FailDemo, LeaseInv, TypeOK
<1>0. /\ run' \in [Runs -> RunState] /\ slot' \in SlotRows
      /\ \A q \in Runs : q # exec[e].run => run'[q] = run[q]
      /\ \A s \in Slots :
           /\ slot'[s].run = slot[s].run
           /\ \/ slot'[s] = slot[s]
              \/ slot'[s].status = "free" /\ slot[s].run = exec[e].run
      /\ \/ UNCHANGED <<run, slot>>
         \/ /\ run'[exec[e].run] = "failed"
            /\ run[exec[e].run] # "failed" =>
                 \A s \in Slots : slot[s].run = exec[e].run => slot'[s].status = "free"
  <2>1. CASE UNCHANGED <<run, slot>>
    BY <1>t, <2>1 DEF LeaseInv, TypeOK
  <2>2. CASE SetState(exec[e].run, "failed")
    <3>1. TypeOK
      BY DEF LeaseInv
    <3>2. /\ run' \in [Runs -> RunState] /\ slot' \in SlotRows
          /\ run'[exec[e].run] = "failed"
          /\ \A q \in Runs : q # exec[e].run => run'[q] = run[q]
          /\ \A s \in Slots : slot'[s].run = slot[s].run
          /\ \A s \in Slots : slot[s].run # exec[e].run => slot'[s] = slot[s]
          /\ \A s \in Slots : slot'[s] = slot[s] \/ slot'[s].status = "free"
          /\ "failed" \in Ended /\ run[exec[e].run] # "failed" =>
               \A s \in Slots : slot[s].run = exec[e].run => slot'[s].status = "free"
      <4>1. "failed" \in RunState
        OBVIOUS
      <4> QED
        BY <4>1, <1>s, <2>2, <3>1, SetStateRows, Zenon
    <3> QED
      BY <1>s, <3>2
  <2> QED
    BY <1>s, <2>1, <2>2
<1>x. /\ exec' \in ExecRows
      /\ \A d \in Executions : d # e => exec'[d] = exec[d]
      /\ exec'[e].step = "releasing" /\ exec'[e].run = exec[e].run
      /\ exec'[e].ending = exec[e].ending /\ exec'[e].slot = exec[e].slot
      /\ exec'[e].reserved = exec[e].reserved
  BY <1>t, GotoRows DEF FailDemo
<1>r. /\ exec[e].step = "failing" /\ exec[e].run \in Demo
      /\ run'[exec[e].run] = "failed"
      /\ UNCHANGED <<result, res, refunded, lost, faults, refused>>
  BY <1>s DEF FailDemo, SetState, LeaseInv, TypeOK
<1>1. TypeOK'
  BY <1>t, <1>0, <1>x, <1>r DEF LeaseInv, TypeOK, SlotRows, ExecRows
<1>2. Fits'
  <2>1. ASSUME NEW c \in Executions
        PROVE  ExecFits(c)'
    <3>1. ExecFits(c) /\ exec[c].slot \in Slots \cup {NULL} /\ exec'[c].slot \in Slots \cup {NULL}
      BY <1>t, <1>0, <1>x, <1>r DEF LeaseInv, Fits, ExecRows
    <3>2. CASE c = e
      BY <3>1, <3>2, <1>t, <1>0, <1>x, <1>r DEF ExecFits, SlotRows, ExecRows, Idle
    <3>3. CASE c # e
      BY <3>1, <3>3, <1>t, <1>0, <1>x, <1>r DEF ExecFits, SlotRows, ExecRows, Kept, Idle
    <3> QED
      BY <3>2, <3>3
  <2>2. \A t \in Slots : slot'[t].status # "free" => slot'[t].run # NULL
    BY <1>t, <1>0, <1>x, <1>r DEF LeaseInv, Fits, SlotRows
  <2> QED
    BY <2>1, <2>2 DEF Fits
<1>3. Tokens'
  BY <1>t, <1>0, <1>x, <1>r DEF LeaseInv, Fits, ExecFits, Tokens, SlotRows, ExecRows,
         Kept, Idle
<1>4. ResultEnds'
  BY <1>t, <1>0, <1>x, <1>r DEF LeaseInv, Fits, ExecFits, ResultEnds, SlotRows,
         ExecRows, Kept, Idle
<1>5. ReleasingFits'
  BY <1>t, <1>0, <1>x, <1>r DEF LeaseInv, Fits, ExecFits, Tokens, ResultEnds,
         ReleasingFits, SlotRows, ExecRows, Kept, Idle
<1>6. TerminalAgrees'
  BY <1>t, <1>0, <1>x, <1>r DEF LeaseInv, Fits, ExecFits, TerminalAgrees, SlotRows,
         ExecRows, Kept, Idle
<1>7. ResearchingHasSlot'
  BY <1>t, <1>0, <1>x, <1>r DEF LeaseInv, Fits, ExecFits, ResearchingHasSlot, SlotRows
<1>8. OneSlot'
  BY <1>t, <1>0, <1>x, <1>r DEF LeaseInv, Fits, ExecFits, OneSlot, SlotRows
<1>9. SlotIsReserved'
  BY <1>t, <1>0, <1>x, <1>r DEF LeaseInv, Fits, ExecFits, Tokens, SlotIsReserved,
         SlotRows, ExecRows, Kept, Idle
<1>10. DiscoveryIsKept'
  BY <1>t, <1>0, <1>x, <1>r DEF LeaseInv, Fits, ExecFits, Tokens, DiscoveryIsKept,
         Owns, Own, InProgress, SlotRows, ExecRows, Kept, Idle
<1>q. QED
  BY <1>1, <1>2, <1>3, <1>4, <1>5, <1>6, <1>7, <1>8, <1>9, <1>10 DEF LeaseInv

LEMMA FailStandardStep ==
  ASSUME LeaseInv, NEW e \in Executions, FailStandard(e)
  PROVE  LeaseInv'
<1>1. TypeOK'
  BY DEF LeaseInv, TypeOK, Fits, ExecFits, FailStandard, Goto
<1>2. Fits'
  BY DEF LeaseInv, TypeOK, Fits, ExecFits, FailStandard, Goto
<1>3. Tokens'
  BY DEF LeaseInv, TypeOK, Fits, ExecFits, Tokens, FailStandard, Goto
<1>4. ResultEnds'
  BY DEF LeaseInv, TypeOK, Fits, ExecFits, ResultEnds, FailStandard, Goto
<1>5. ReleasingFits'
  <2>1. /\ exec[e].run \in Runs /\ UNCHANGED <<slot, lost>>
        /\ \A q \in Runs : run'[q] = run[q] \/ run'[q] = "failed_retryable"
    BY DEF LeaseInv, TypeOK, FailStandard
  <2>2. run'[exec[e].run] # "researching"
    BY DEF LeaseInv, TypeOK, ResultEnds, FailStandard
  <2>3. \A c \in Executions : /\ exec'[c].run = exec[c].run /\ exec'[c].slot = exec[c].slot
                              /\ c # e => exec'[c].step = exec[c].step
    BY DEF LeaseInv, TypeOK, FailStandard, Goto
  <2>4. \A c \in Executions : exec[c].run \in Runs \cup {NULL} /\ exec[c].slot \in Slots \cup {NULL}
    BY DEF LeaseInv, TypeOK
  <2>5. \A c \in Executions : exec[c].step = "releasing" => exec[c].run \in Runs
    BY DEF LeaseInv, Fits, ExecFits
  <2> QED
    BY <2>1, <2>2, <2>3, <2>4, <2>5 DEF LeaseInv, ReleasingFits
<1>6. TerminalAgrees'
  BY DEF LeaseInv, TypeOK, Fits, ExecFits, TerminalAgrees, FailStandard, Goto
<1>7. ResearchingHasSlot'
  BY DEF LeaseInv, TypeOK, Fits, ExecFits, ReleasingFits, ResearchingHasSlot,
         FailStandard, Goto
<1>8. OneSlot'
  BY DEF LeaseInv, TypeOK, Fits, ExecFits, OneSlot, FailStandard, Goto
<1>9. SlotIsReserved'
  BY DEF LeaseInv, TypeOK, Fits, ExecFits, Tokens, SlotIsReserved, FailStandard, Goto
<1>10. DiscoveryIsKept'
  BY DEF LeaseInv, TypeOK, Fits, ExecFits, Tokens, DiscoveryIsKept, Owns, Own,
         InProgress, FailStandard, Goto
<1>q. QED
  BY <1>1, <1>2, <1>3, <1>4, <1>5, <1>6, <1>7, <1>8, <1>9, <1>10 DEF LeaseInv

LEMMA FailLostStep ==
  ASSUME LeaseInv, NEW e \in Executions, FailLost(e)
  PROVE  LeaseInv'
<1>1. TypeOK'
  BY DEF LeaseInv, TypeOK, Fits, ExecFits, FailLost, Goto
<1>2. Fits'
  BY DEF LeaseInv, TypeOK, Fits, ExecFits, FailLost, Goto
<1>3. Tokens'
  BY DEF LeaseInv, TypeOK, Fits, ExecFits, Tokens, FailLost, Goto
<1>4. ResultEnds'
  BY DEF LeaseInv, TypeOK, Fits, ExecFits, ResultEnds, FailLost, Goto
<1>5. ReleasingFits'
  BY DEF LeaseInv, TypeOK, Fits, ExecFits, Tokens, ResultEnds, ReleasingFits, FailLost,
         Goto
<1>6. TerminalAgrees'
  BY DEF LeaseInv, TypeOK, Fits, ExecFits, TerminalAgrees, FailLost, Goto
<1>7. ResearchingHasSlot'
  BY DEF LeaseInv, TypeOK, Fits, ExecFits, ReleasingFits, ResearchingHasSlot, FailLost,
         Goto
<1>8. OneSlot'
  BY DEF LeaseInv, TypeOK, Fits, ExecFits, OneSlot, FailLost, Goto
<1>9. SlotIsReserved'
  BY DEF LeaseInv, TypeOK, Fits, ExecFits, Tokens, SlotIsReserved, FailLost, Goto
<1>10. DiscoveryIsKept'
  BY DEF LeaseInv, TypeOK, Fits, ExecFits, Tokens, DiscoveryIsKept, Owns, Own,
         InProgress, FailLost, Goto
<1>q. QED
  BY <1>1, <1>2, <1>3, <1>4, <1>5, <1>6, <1>7, <1>8, <1>9, <1>10 DEF LeaseInv

LEMMA ReleaseStep ==
  ASSUME LeaseInv, NEW e \in Executions, Release(e)
  PROVE  LeaseInv'
<1>t. slot \in SlotRows /\ exec \in ExecRows
  BY DEF LeaseInv, TypeOK, SlotRows, ExecRows
<1>0. /\ slot' \in SlotRows
      /\ \A s \in Slots :
                         /\ slot'[s].run = slot[s].run
                         /\ \/ slot'[s] = slot[s]
                            \/ exec[e].slot = s /\ slot'[s].status = "free"
  <2>1. Own(e) \in SUBSET Slots
    BY DEF Own
  <2> QED
    BY <1>t, <2>1, ReleasedRows DEF Release, Own
<1>x. /\ exec' \in ExecRows
      /\ \A d \in Executions : d # e => exec'[d] = exec[d]
      /\ exec'[e] = Idle
  BY <1>t, QuitRows DEF Release
<1>r. /\ exec[e].step = "releasing"
      /\ UNCHANGED <<run, result, res, refunded, lost, faults, refused>>
  BY DEF Release
<1>1. TypeOK'
  BY <1>t, <1>0, <1>x, <1>r DEF LeaseInv, TypeOK, SlotRows, ExecRows
<1>2. Fits'
  <2>1. ASSUME NEW c \in Executions
        PROVE  ExecFits(c)'
    <3>1. ExecFits(c) /\ exec[c].slot \in Slots \cup {NULL} /\ exec'[c].slot \in Slots \cup {NULL}
      BY <1>t, <1>0, <1>x, <1>r DEF LeaseInv, Fits, ExecRows
    <3>2. CASE c = e
      BY <3>1, <3>2, <1>t, <1>0, <1>x, <1>r DEF ExecFits, SlotRows, ExecRows, Idle
    <3>3. CASE c # e
      BY <3>1, <3>3, <1>t, <1>0, <1>x, <1>r DEF ExecFits, SlotRows, ExecRows, Kept, Idle
    <3> QED
      BY <3>2, <3>3
  <2>2. \A t \in Slots : slot'[t].status # "free" => slot'[t].run # NULL
    BY <1>t, <1>0, <1>x, <1>r DEF LeaseInv, Fits, SlotRows
  <2> QED
    BY <2>1, <2>2 DEF Fits
<1>3. Tokens'
  BY <1>t, <1>0, <1>x, <1>r DEF LeaseInv, Fits, ExecFits, Tokens, SlotRows, ExecRows,
         Kept, Idle
<1>4. ResultEnds'
  BY <1>t, <1>0, <1>x, <1>r DEF LeaseInv, Fits, ExecFits, ResultEnds, SlotRows,
         ExecRows, Kept, Idle
<1>5. ReleasingFits'
  <2> SUFFICES ASSUME NEW c \in Executions, exec'[c].step = "releasing", exec'[c].slot # NULL,
                      slot'[exec'[c].slot].status # "free"
               PROVE  run[exec'[c].run] # "researching" \/ exec'[c].run \in lost
    BY <1>r DEF ReleasingFits
  <2>1. c # e /\ exec'[c] = exec[c]
    BY <1>x DEF Idle
  <2>2. exec[c].slot \in Slots
    BY <1>t, <2>1 DEF ExecRows
  <2>3. slot[exec[c].slot].status # "free"
    BY <1>0, <2>1, <2>2
  <2> QED
    BY <2>1, <2>3 DEF LeaseInv, ReleasingFits
<1>6. TerminalAgrees'
  BY <1>t, <1>0, <1>x, <1>r DEF LeaseInv, Fits, ExecFits, TerminalAgrees, SlotRows,
         ExecRows, Kept, Idle
<1>7. ResearchingHasSlot'
  BY <1>t, <1>0, <1>x, <1>r DEF LeaseInv, Fits, ExecFits, ReleasingFits,
         ResearchingHasSlot, SlotRows, ExecRows, Kept, Idle
<1>8. OneSlot'
  BY <1>t, <1>0, <1>x, <1>r DEF LeaseInv, Fits, ExecFits, OneSlot, SlotRows, ExecRows,
         Kept, Idle
<1>9. SlotIsReserved'
  BY <1>t, <1>0, <1>x, <1>r DEF LeaseInv, Fits, ExecFits, Tokens, SlotIsReserved,
         SlotRows, ExecRows, Kept, Idle
<1>10. DiscoveryIsKept'
  BY <1>t, <1>0, <1>x, <1>r DEF LeaseInv, Fits, ExecFits, Tokens, DiscoveryIsKept,
         Owns, Own, InProgress, SlotRows, ExecRows, Kept, Idle
<1>q. QED
  BY <1>1, <1>2, <1>3, <1>4, <1>5, <1>6, <1>7, <1>8, <1>9, <1>10 DEF LeaseInv

LEMMA ReserveStep ==
  ASSUME LeaseInv, NEW r \in Runs, NEW s \in Slots, NEW e \in Executions, Reserve(r, s, e)
  PROVE  LeaseInv'
<1>t. slot \in SlotRows /\ exec \in ExecRows
  BY DEF LeaseInv, TypeOK, SlotRows, ExecRows
<1>0. /\ slot' \in SlotRows /\ exec' \in ExecRows /\ exec[e] = Idle
      /\ slot'[s] = [run |-> r, status |-> "held"]
      /\ \A t \in Slots : t # s => slot'[t] = slot[t]
      /\ exec'[e].run = r /\ exec'[e].step = "starting" /\ exec'[e].ending = NULL
      /\ exec'[e].slot = s /\ (exec'[e].reserved <=> r \in Live)
      /\ \A d \in Executions : d # e =>
           /\ Kept(d)
           /\ exec'[d].slot = IF exec[d].slot = s THEN NULL ELSE exec[d].slot
           /\ exec'[d].reserved <=> exec[d].reserved /\ exec[d].run # r
  <2>1. Take(e, r, s, "starting") /\ "starting" \in Step
    BY DEF Reserve
  <2> QED
    BY <1>t, <2>1, TakeRows, SMTT(30)
<1>r. /\ run' \in [Runs -> RunState] /\ run'[r] = "researching"
      /\ \A q \in Runs : q # r =>
           \/ run'[q] = run[q] /\ ~(slot[s].run = q /\ run[q] = "researching")
           \/ slot[s].run = q /\ run[q] = "researching" /\ run'[q] = "failed_retryable"
      /\ run[r] \notin Ended /\ r \in Live
      /\ \A t \in Slots : slot[t].run = r /\ slot[t].status # "free" => t = s
      /\ UNCHANGED <<result, refunded, lost, faults, refused>>
  BY DEF Reserve, Dispossess, LeaseInv, TypeOK, Unreleased
<1>v. /\ res' \in [Live -> [fresh : BOOLEAN, stage : Stage]]
      /\ res'[r].fresh /\ res'[r].stage \in {"reserved", "discovered"}
      /\ \A q \in Live : q # r => res'[q] = res[q]
  BY DEF Reserve, ReservationAdmits, InProgress, LeaseInv, TypeOK
<1>1. TypeOK'
  BY <1>t, <1>0, <1>r, <1>v DEF LeaseInv, TypeOK, SlotRows, ExecRows
<1>2. Fits'
  <2>1. ASSUME NEW c \in Executions
        PROVE  ExecFits(c)'
    <3>1. ExecFits(c) /\ exec[c].slot \in Slots \cup {NULL} /\ exec'[c].slot \in Slots \cup {NULL}
      BY <1>t, <1>0, <1>r, <1>v DEF LeaseInv, Fits, ExecRows
    <3>2. CASE c = e
      BY <3>1, <3>2, <1>t, <1>0, <1>r, <1>v DEF ExecFits, SlotRows, ExecRows, Idle
    <3>3. CASE c # e
      BY <3>1, <3>3, <1>t, <1>0, <1>r, <1>v DEF ExecFits, SlotRows, ExecRows, Kept, Idle
    <3> QED
      BY <3>2, <3>3
  <2>2. \A t \in Slots : slot'[t].status # "free" => slot'[t].run # NULL
    BY <1>t, <1>0, <1>r, <1>v DEF LeaseInv, Fits, SlotRows
  <2> QED
    BY <2>1, <2>2 DEF Fits
<1>3. Tokens'
  BY <1>t, <1>0, <1>r, <1>v DEF LeaseInv, Fits, ExecFits, Tokens, SlotRows, ExecRows,
         Kept, Idle
<1>4. ResultEnds'
  BY <1>t, <1>0, <1>r, <1>v DEF LeaseInv, Fits, ExecFits, ResultEnds, SlotRows,
         ExecRows, Kept, Idle
<1>5. ReleasingFits'
  BY <1>t, <1>0, <1>r, <1>v DEF LeaseInv, Fits, ExecFits, Tokens, ResultEnds,
         ReleasingFits, SlotRows, ExecRows, Kept, Idle
<1>6. TerminalAgrees'
  BY <1>t, <1>0, <1>r, <1>v DEF LeaseInv, Fits, ExecFits, TerminalAgrees, SlotRows,
         ExecRows, Kept, Idle
<1>7. ResearchingHasSlot'
  <2> SUFFICES ASSUME NEW q \in Runs, run'[q] = "researching"
               PROVE  q \in lost' \/ \E t \in Slots : slot'[t].status # "free" /\ slot'[t].run = q
    BY DEF ResearchingHasSlot
  <2>1. CASE q = r
    BY <2>1, <1>0
  <2>2. CASE q # r
    <3>1. run[q] = "researching" /\ slot[s].run # q
      BY <2>2, <1>r
    <3>2. q \in lost \/ \E t \in Slots : slot[t].status # "free" /\ slot[t].run = q
      BY <3>1 DEF LeaseInv, ResearchingHasSlot
    <3> QED
      BY <3>1, <3>2, <1>0, <1>r
  <2> QED
    BY <2>1, <2>2
<1>8. OneSlot'
  BY <1>t, <1>0, <1>r, <1>v DEF LeaseInv, Fits, ExecFits, OneSlot, SlotRows
<1>9. SlotIsReserved'
  BY <1>t, <1>0, <1>r, <1>v DEF LeaseInv, Fits, ExecFits, Tokens, SlotIsReserved,
         SlotRows, ExecRows, Kept, Idle
<1>10. DiscoveryIsKept'
  BY <1>t, <1>0, <1>r, <1>v DEF LeaseInv, Fits, ExecFits, Tokens, DiscoveryIsKept,
         Owns, Own, InProgress, SlotRows, ExecRows, Kept, Idle
<1>q. QED
  BY <1>1, <1>2, <1>3, <1>4, <1>5, <1>6, <1>7, <1>8, <1>9, <1>10 DEF LeaseInv

LEMMA LoadStep ==
  ASSUME LeaseInv, NEW e \in Executions, Load(e)
  PROVE  LeaseInv'
<1>t. slot \in SlotRows /\ exec \in ExecRows
  BY DEF LeaseInv, TypeOK, SlotRows, ExecRows
<1>g. \/ Quit(e)
      \/ /\ Owns(e)
         /\ \/ res[exec[e].run].stage = "discovered" /\ Goto(e, "working")
            \/ res[exec[e].run].stage = "reserved" /\ Goto(e, "searching")
  BY DEF Load, Owns, InProgress
<1>x. /\ exec' \in ExecRows
      /\ \A d \in Executions : d # e => exec'[d] = exec[d]
      /\ \/ exec'[e] = Idle
         \/ /\ \/ exec'[e].step = "working"
               \/ exec'[e].step = "searching" /\ res[exec[e].run].stage = "reserved"
            /\ exec'[e].run = exec[e].run
            /\ exec'[e].ending = exec[e].ending /\ exec'[e].slot = exec[e].slot
            /\ exec'[e].reserved = exec[e].reserved
  BY <1>t, <1>g, GotoRows, QuitRows
<1>r. /\ exec[e].step = "starting" /\ exec[e].run \in Live \cup {exec[e].run}
      /\ UNCHANGED <<run, result, slot, res, refunded, lost, faults, refused>>
  BY DEF Load
<1>1. TypeOK'
  BY <1>t, <1>x, <1>r DEF LeaseInv, TypeOK, SlotRows, ExecRows
<1>2. Fits'
  <2>1. ASSUME NEW c \in Executions
        PROVE  ExecFits(c)'
    <3>1. ExecFits(c) /\ exec[c].slot \in Slots \cup {NULL} /\ exec'[c].slot \in Slots \cup {NULL}
      BY <1>t, <1>x, <1>r DEF LeaseInv, Fits, ExecRows
    <3>2. CASE c = e
      BY <3>1, <3>2, <1>t, <1>x, <1>r DEF ExecFits, SlotRows, ExecRows, Idle
    <3>3. CASE c # e
      BY <3>1, <3>3, <1>t, <1>x, <1>r DEF ExecFits, SlotRows, ExecRows, Kept, Idle
    <3> QED
      BY <3>2, <3>3
  <2>2. \A t \in Slots : slot'[t].status # "free" => slot'[t].run # NULL
    BY <1>t, <1>x, <1>r DEF LeaseInv, Fits, SlotRows
  <2> QED
    BY <2>1, <2>2 DEF Fits
<1>3. Tokens'
  BY <1>t, <1>x, <1>r DEF LeaseInv, Fits, ExecFits, Tokens, SlotRows, ExecRows, Kept,
         Idle
<1>4. ResultEnds'
  BY <1>t, <1>x, <1>r DEF LeaseInv, Fits, ExecFits, ResultEnds, SlotRows, ExecRows,
         Kept, Idle
<1>5. ReleasingFits'
  BY <1>t, <1>x, <1>r DEF LeaseInv, Fits, ExecFits, Tokens, ResultEnds, ReleasingFits,
         SlotRows, ExecRows, Kept, Idle
<1>6. TerminalAgrees'
  BY <1>t, <1>x, <1>r DEF LeaseInv, Fits, ExecFits, TerminalAgrees, SlotRows, ExecRows,
         Kept, Idle
<1>7. ResearchingHasSlot'
  BY <1>t, <1>x, <1>r DEF LeaseInv, Fits, ExecFits, ResearchingHasSlot, SlotRows
<1>8. OneSlot'
  BY <1>t, <1>x, <1>r DEF LeaseInv, Fits, ExecFits, OneSlot, SlotRows
<1>9. SlotIsReserved'
  BY <1>t, <1>x, <1>r DEF LeaseInv, Fits, ExecFits, Tokens, SlotIsReserved, SlotRows,
         ExecRows, Kept, Idle
<1>10. DiscoveryIsKept'
  BY <1>t, <1>x, <1>r DEF LeaseInv, Fits, ExecFits, Tokens, DiscoveryIsKept, Owns, Own,
         InProgress, SlotRows, ExecRows, Kept, Idle
<1>q. QED
  BY <1>1, <1>2, <1>3, <1>4, <1>5, <1>6, <1>7, <1>8, <1>9, <1>10 DEF LeaseInv

LEMMA SearchStep ==
  ASSUME LeaseInv, NEW e \in Executions, Search(e)
  PROVE  LeaseInv'
<1>1. TypeOK'
  <2>1. exec \in ExecRows /\ "found" \in Step
    BY DEF LeaseInv, TypeOK, ExecRows, Step
  <2>2. exec' \in ExecRows
    BY <2>1, GotoRows DEF Search
  <2>3. UNCHANGED <<run, result, slot, res, refunded, lost, faults, refused>>
    BY DEF Search
  <2> QED
    BY <2>2, <2>3 DEF LeaseInv, TypeOK, ExecRows
<1>2. Fits'
  BY DEF LeaseInv, TypeOK, Fits, ExecFits, Search, Owns, Own, InProgress, Goto
<1>3. Tokens'
  BY DEF LeaseInv, TypeOK, Fits, ExecFits, Tokens, Search, Owns, Own, InProgress, Goto
<1>4. ResultEnds'
  BY DEF LeaseInv, TypeOK, Fits, ExecFits, ResultEnds, Search, Owns, Own, InProgress,
         Goto
<1>5. ReleasingFits'
  BY DEF LeaseInv, TypeOK, Fits, ExecFits, Tokens, ResultEnds, ReleasingFits, Search,
         Owns, Own, InProgress, Goto
<1>6. TerminalAgrees'
  BY DEF LeaseInv, TypeOK, Fits, ExecFits, TerminalAgrees, Search, Owns, Own,
         InProgress, Goto
<1>7. ResearchingHasSlot'
  BY DEF LeaseInv, TypeOK, Fits, ExecFits, ReleasingFits, ResearchingHasSlot, Search,
         Owns, Own, InProgress, Goto
<1>8. OneSlot'
  BY DEF LeaseInv, TypeOK, Fits, ExecFits, OneSlot, Search, Owns, Own, InProgress, Goto
<1>9. SlotIsReserved'
  BY DEF LeaseInv, TypeOK, Fits, ExecFits, Tokens, SlotIsReserved, Search, Owns, Own,
         InProgress, Goto
<1>10. DiscoveryIsKept'
  BY DEF LeaseInv, TypeOK, Fits, ExecFits, Tokens, DiscoveryIsKept, Owns, Own,
         InProgress, Search, Goto
<1>q. QED
  BY <1>1, <1>2, <1>3, <1>4, <1>5, <1>6, <1>7, <1>8, <1>9, <1>10 DEF LeaseInv

LEMMA PersistStep ==
  ASSUME LeaseInv, NEW e \in Executions, Persist(e)
  PROVE  LeaseInv'
<1>t. slot \in SlotRows /\ exec \in ExecRows
  BY DEF LeaseInv, TypeOK, SlotRows, ExecRows
<1>o. /\ res \in [Live -> [fresh : BOOLEAN, stage : Stage]]
      /\ Goto(e, "working") =>
           exec[e].reserved /\ \E s \in Slots : exec[e].slot = s
  BY <1>t, GotoRows, QuitRows DEF LeaseInv, TypeOK, Persist, Owns, Own, Idle, ExecRows
<1>g. \/ Quit(e) /\ UNCHANGED res
      \/ /\ Goto(e, "working") /\ exec[e].run \in Live /\ res[exec[e].run].stage = "reserved"
         /\ res' = [res EXCEPT ![exec[e].run].stage = "discovered"]
  BY DEF Persist, Owns
<1>x. /\ exec' \in ExecRows
      /\ \A d \in Executions : d # e => exec'[d] = exec[d]
      /\ \/ exec'[e] = Idle
         \/ /\ exec'[e].step = "working" /\ exec'[e].run = exec[e].run
            /\ exec'[e].ending = exec[e].ending /\ exec'[e].slot = exec[e].slot
            /\ exec'[e].reserved = exec[e].reserved
  BY <1>t, <1>g, GotoRows, QuitRows
<1>v. /\ res' \in [Live -> [fresh : BOOLEAN, stage : Stage]]
      /\ \A q \in Live :
                        /\ res'[q].fresh = res[q].fresh
                        /\ \/ res'[q] = res[q]
                           \/ /\ q = exec[e].run /\ res[q].stage = "reserved"
                              /\ res'[q].stage = "discovered" /\ exec'[e].step = "working"
                              /\ exec[e].reserved /\ \E s \in Slots : exec[e].slot = s
  <2>1. CASE UNCHANGED res
    BY <1>o, <2>1
  <2>2. CASE /\ Goto(e, "working") /\ exec[e].run \in Live /\ res[exec[e].run].stage = "reserved"
             /\ res' = [res EXCEPT ![exec[e].run].stage = "discovered"]
    <3>1. exec'[e].step = "working"
      BY <1>t, <2>2, GotoRows
    <3> QED
      BY <1>o, <2>2, <3>1
  <2> QED
    BY <1>g, <2>1, <2>2
<1>r. /\ exec[e].step = "found"
      /\ UNCHANGED <<run, result, slot, refunded, lost, faults, refused>>
  BY DEF Persist
<1>1. TypeOK'
  BY <1>t, <1>x, <1>v, <1>r DEF LeaseInv, TypeOK, SlotRows, ExecRows
<1>2. Fits'
  <2>1. ASSUME NEW c \in Executions
        PROVE  ExecFits(c)'
    <3>1. ExecFits(c) /\ exec[c].slot \in Slots \cup {NULL} /\ exec'[c].slot \in Slots \cup {NULL}
      BY <1>t, <1>x, <1>v, <1>r DEF LeaseInv, Fits, ExecRows
    <3>2. CASE c = e
      BY <3>1, <3>2, <1>t, <1>x, <1>v, <1>r DEF ExecFits, SlotRows, ExecRows, Idle
    <3>3. CASE c # e
      BY <3>1, <3>3, <1>t, <1>x, <1>v, <1>r DEF ExecFits, SlotRows, ExecRows, Kept, Idle
    <3> QED
      BY <3>2, <3>3
  <2>2. \A t \in Slots : slot'[t].status # "free" => slot'[t].run # NULL
    BY <1>t, <1>x, <1>v, <1>r DEF LeaseInv, Fits, SlotRows
  <2> QED
    BY <2>1, <2>2 DEF Fits
<1>3. Tokens'
  BY <1>t, <1>x, <1>v, <1>r DEF LeaseInv, Fits, ExecFits, Tokens, SlotRows, ExecRows,
         Kept, Idle
<1>4. ResultEnds'
  BY <1>t, <1>x, <1>v, <1>r DEF LeaseInv, Fits, ExecFits, ResultEnds, SlotRows,
         ExecRows, Kept, Idle
<1>5. ReleasingFits'
  BY <1>t, <1>x, <1>v, <1>r DEF LeaseInv, Fits, ExecFits, Tokens, ResultEnds,
         ReleasingFits, SlotRows, ExecRows, Kept, Idle
<1>6. TerminalAgrees'
  BY <1>t, <1>x, <1>v, <1>r DEF LeaseInv, Fits, ExecFits, TerminalAgrees, SlotRows,
         ExecRows, Kept, Idle
<1>7. ResearchingHasSlot'
  BY <1>t, <1>x, <1>v, <1>r DEF LeaseInv, Fits, ExecFits, ResearchingHasSlot, SlotRows
<1>8. OneSlot'
  BY <1>t, <1>x, <1>v, <1>r DEF LeaseInv, Fits, ExecFits, OneSlot, SlotRows
<1>9. SlotIsReserved'
  BY <1>t, <1>x, <1>v, <1>r DEF LeaseInv, Fits, ExecFits, Tokens, SlotIsReserved,
         SlotRows, ExecRows, Kept, Idle
<1>10. DiscoveryIsKept'
  BY <1>t, <1>x, <1>v, <1>r DEF LeaseInv, Fits, ExecFits, Tokens, DiscoveryIsKept,
         Owns, Own, InProgress, SlotRows, ExecRows, Kept, Idle
<1>q. QED
  BY <1>1, <1>2, <1>3, <1>4, <1>5, <1>6, <1>7, <1>8, <1>9, <1>10 DEF LeaseInv

LEMMA ConcludeStep ==
  ASSUME LeaseInv, NEW e \in Executions, NEW d \in Ended, Conclude(e, d)
  PROVE  LeaseInv'
<1>t. slot \in SlotRows /\ exec \in ExecRows
  BY DEF LeaseInv, TypeOK, SlotRows, ExecRows
<1>x. /\ exec' \in ExecRows
      /\ \A q \in Executions : q # e => exec'[q] = exec[q]
      /\ \/ exec'[e] = Idle
         \/ /\ exec'[e].step = "committing" /\ exec'[e].run = exec[e].run
            /\ exec'[e].ending = d /\ exec'[e].slot = exec[e].slot
            /\ exec'[e].reserved = exec[e].reserved /\ exec[e].reserved
            /\ res[exec[e].run].stage \in {"reserved", "discovered"}
  BY <1>t DEF Conclude, ExecRows, Idle, MayCommit, InProgress
<1>r. /\ exec[e].step \in {"searching", "working"} /\ faults' \in 0 .. MaxFaults
      /\ UNCHANGED <<run, result, slot, res, refunded, lost, refused>>
  BY DEF Conclude, Fault, NoFault, LeaseInv, TypeOK
<1>1. TypeOK'
  BY <1>t, <1>x, <1>r DEF LeaseInv, TypeOK, SlotRows, ExecRows
<1>2. Fits'
  <2>1. ASSUME NEW c \in Executions
        PROVE  ExecFits(c)'
    <3>1. ExecFits(c) /\ exec[c].slot \in Slots \cup {NULL} /\ exec'[c].slot \in Slots \cup {NULL}
      BY <1>t, <1>x, <1>r DEF LeaseInv, Fits, ExecRows
    <3>2. CASE c = e
      BY <3>1, <3>2, <1>t, <1>x, <1>r DEF ExecFits, SlotRows, ExecRows, Idle
    <3>3. CASE c # e
      BY <3>1, <3>3, <1>t, <1>x, <1>r DEF ExecFits, SlotRows, ExecRows, Kept, Idle
    <3> QED
      BY <3>2, <3>3
  <2>2. \A t \in Slots : slot'[t].status # "free" => slot'[t].run # NULL
    BY <1>t, <1>x, <1>r DEF LeaseInv, Fits, SlotRows
  <2> QED
    BY <2>1, <2>2 DEF Fits
<1>3. Tokens'
  BY <1>t, <1>x, <1>r DEF LeaseInv, Fits, ExecFits, Tokens, SlotRows, ExecRows, Kept,
         Idle
<1>4. ResultEnds'
  BY <1>t, <1>x, <1>r DEF LeaseInv, Fits, ExecFits, ResultEnds, SlotRows, ExecRows,
         Kept, Idle
<1>5. ReleasingFits'
  BY <1>t, <1>x, <1>r DEF LeaseInv, Fits, ExecFits, Tokens, ResultEnds, ReleasingFits,
         SlotRows, ExecRows, Kept, Idle
<1>6. TerminalAgrees'
  BY <1>t, <1>x, <1>r DEF LeaseInv, Fits, ExecFits, TerminalAgrees, SlotRows, ExecRows,
         Kept, Idle
<1>7. ResearchingHasSlot'
  BY <1>t, <1>x, <1>r DEF LeaseInv, Fits, ExecFits, ResearchingHasSlot, SlotRows
<1>8. OneSlot'
  BY <1>t, <1>x, <1>r DEF LeaseInv, Fits, ExecFits, OneSlot, SlotRows
<1>9. SlotIsReserved'
  BY <1>t, <1>x, <1>r DEF LeaseInv, Fits, ExecFits, Tokens, SlotIsReserved, SlotRows,
         ExecRows, Kept, Idle
<1>10. DiscoveryIsKept'
  BY <1>t, <1>x, <1>r DEF LeaseInv, Fits, ExecFits, Tokens, DiscoveryIsKept, Owns, Own,
         InProgress, SlotRows, ExecRows, Kept, Idle
<1>q. QED
  BY <1>1, <1>2, <1>3, <1>4, <1>5, <1>6, <1>7, <1>8, <1>9, <1>10 DEF LeaseInv

LEMMA CommitTerminalStep ==
  ASSUME LeaseInv, NEW e \in Executions, CommitTerminal(e)
  PROVE  LeaseInv'
<1>t. slot \in SlotRows /\ exec \in ExecRows
  BY DEF LeaseInv, TypeOK, SlotRows, ExecRows
<1>g. /\ exec[e].step = "committing" /\ exec[e].run \in Live /\ exec[e].ending \in Ended
      /\ exec[e].run \in Runs /\ exec[e].ending \in RunState
  BY DEF CommitTerminal, LeaseInv, Fits, ExecFits
<1>s. \/ SetState(exec[e].run, exec[e].ending)
      \/ UNCHANGED <<run, slot>>
  BY DEF CommitTerminal
<1>0. /\ run' \in [Runs -> RunState] /\ slot' \in SlotRows
      /\ \A q \in Runs : q # exec[e].run => run'[q] = run[q]
      /\ \A s \in Slots :
           /\ slot'[s].run = slot[s].run
           /\ \/ slot'[s] = slot[s]
              \/ slot'[s].status = "free" /\ slot[s].run = exec[e].run
      /\ \/ UNCHANGED <<run, slot>>
         \/ /\ run'[exec[e].run] = exec[e].ending
            /\ run[exec[e].run] # exec[e].ending =>
                 \A s \in Slots : slot[s].run = exec[e].run => slot'[s].status = "free"
  <2>1. CASE UNCHANGED <<run, slot>>
    BY <1>t, <2>1 DEF LeaseInv, TypeOK
  <2>2. CASE SetState(exec[e].run, exec[e].ending)
    <3>1. TypeOK
      BY DEF LeaseInv
    <3>2. /\ run' \in [Runs -> RunState] /\ slot' \in SlotRows
          /\ run'[exec[e].run] = exec[e].ending
          /\ \A q \in Runs : q # exec[e].run => run'[q] = run[q]
          /\ \A s \in Slots : slot'[s].run = slot[s].run
          /\ \A s \in Slots : slot[s].run # exec[e].run => slot'[s] = slot[s]
          /\ \A s \in Slots : slot'[s] = slot[s] \/ slot'[s].status = "free"
          /\ exec[e].ending \in Ended /\ run[exec[e].run] # exec[e].ending =>
               \A s \in Slots : slot[s].run = exec[e].run => slot'[s].status = "free"
      BY <1>g, <2>2, <3>1, SetStateRows, Zenon
    <3> QED
      BY <1>g, <3>2
  <2> QED
    BY <1>s, <2>1, <2>2
<1>x. /\ exec' \in ExecRows
      /\ \A d \in Executions : d # e => exec'[d] = exec[d]
      /\ exec'[e] = Idle
  BY <1>t, QuitRows DEF CommitTerminal
<1>r. /\ UNCHANGED <<lost, faults, refused>>
      /\ \/ UNCHANGED <<run, slot, result, refunded, res>>
         \/ /\ run[exec[e].run] \notin Ended /\ run'[exec[e].run] = exec[e].ending
            /\ result' \subseteq Runs /\ refunded' \subseteq Live
            /\ result' \ {exec[e].run} = result \ {exec[e].run}
            /\ res' \in [Live -> [fresh : BOOLEAN, stage : Stage]]
            /\ res'[exec[e].run].stage = exec[e].ending
            /\ \A q \in Live : res'[q].fresh = res[q].fresh
            /\ \A q \in Live : q # exec[e].run => res'[q] = res[q]
  <2> DEFINE r == exec[e].run
  <2>1. UNCHANGED <<lost, faults, refused>>
    BY DEF CommitTerminal
  <2>2. CASE run[r] \notin Ended /\ exec[e].slot # NULL
    <3>1. /\ run' = [run EXCEPT ![r] = exec[e].ending]
          /\ result' = IF exec[e].ending = "complete" THEN result \cup {r} ELSE result
          /\ refunded' = IF exec[e].ending = "failed" THEN refunded \cup {r} ELSE refunded
          /\ res' = [res EXCEPT ![r].stage = exec[e].ending]
      BY <2>2 DEF CommitTerminal, SetState
    <3>2. /\ run \in [Runs -> RunState] /\ result \subseteq Runs /\ refunded \subseteq Live
          /\ res \in [Live -> [fresh : BOOLEAN, stage : Stage]]
      BY DEF LeaseInv, TypeOK
    <3>3. r \in Live /\ r \in Runs /\ exec[e].ending \in Ended /\ exec[e].ending \in Stage
      BY <1>g, <2>2
    <3>4. run'[r] = exec[e].ending
      BY <3>1, <3>2, <3>3
    <3>5. /\ result' \subseteq Runs /\ refunded' \subseteq Live
          /\ result' \ {r} = result \ {r}
      BY <3>1, <3>2, <3>3
    <3>6. /\ res' \in [Live -> [fresh : BOOLEAN, stage : Stage]]
          /\ res'[r].stage = exec[e].ending
          /\ \A q \in Live : res'[q].fresh = res[q].fresh
          /\ \A q \in Live : q # r => res'[q] = res[q]
      BY <3>1, <3>2, <3>3
    <3> QED
      BY <2>1, <2>2, <3>4, <3>5, <3>6
  <2>3. CASE ~(run[r] \notin Ended /\ exec[e].slot # NULL)
    BY <2>1, <2>3 DEF CommitTerminal
  <2> QED
    BY <2>2, <2>3
<1>1. TypeOK'
  BY <1>t, <1>g, <1>0, <1>x, <1>r DEF LeaseInv, TypeOK, SlotRows, ExecRows
<1>2. Fits'
  <2>1. ASSUME NEW c \in Executions
        PROVE  ExecFits(c)'
    <3>1. ExecFits(c) /\ exec[c].slot \in Slots \cup {NULL} /\ exec'[c].slot \in Slots \cup {NULL}
      BY <1>t, <1>g, <1>0, <1>x, <1>r DEF LeaseInv, Fits, ExecRows
    <3>2. CASE c = e
      BY <3>1, <3>2, <1>t, <1>g, <1>0, <1>x, <1>r DEF ExecFits, SlotRows, ExecRows, Idle
    <3>3. CASE c # e
      BY <3>1, <3>3, <1>t, <1>g, <1>0, <1>x, <1>r DEF ExecFits, SlotRows, ExecRows, Kept, Idle
    <3> QED
      BY <3>2, <3>3
  <2>2. \A t \in Slots : slot'[t].status # "free" => slot'[t].run # NULL
    BY <1>t, <1>g, <1>0, <1>x, <1>r DEF LeaseInv, Fits, SlotRows
  <2> QED
    BY <2>1, <2>2 DEF Fits
<1>3. Tokens'
  BY <1>t, <1>g, <1>0, <1>x, <1>r DEF LeaseInv, Fits, ExecFits, Tokens, SlotRows,
         ExecRows, Kept, Idle
<1>4. ResultEnds'
  BY <1>t, <1>g, <1>0, <1>x, <1>r DEF LeaseInv, Fits, ExecFits, ResultEnds, SlotRows,
         ExecRows, Kept, Idle
<1>5. ReleasingFits'
  BY <1>t, <1>g, <1>0, <1>x, <1>r DEF LeaseInv, Fits, ExecFits, Tokens, ResultEnds,
         ReleasingFits, SlotRows, ExecRows, Kept, Idle
<1>6. TerminalAgrees'
  BY <1>t, <1>g, <1>0, <1>x, <1>r DEF LeaseInv, Fits, ExecFits, TerminalAgrees,
         SlotRows, ExecRows, Kept, Idle
<1>7. ResearchingHasSlot'
  BY <1>t, <1>g, <1>0, <1>x, <1>r DEF LeaseInv, Fits, ExecFits, ResearchingHasSlot,
         SlotRows
<1>8. OneSlot'
  BY <1>t, <1>g, <1>0, <1>x, <1>r DEF LeaseInv, Fits, ExecFits, OneSlot, SlotRows
<1>9. SlotIsReserved'
  BY <1>t, <1>g, <1>0, <1>x, <1>r DEF LeaseInv, Fits, ExecFits, Tokens, SlotIsReserved,
         SlotRows, ExecRows, Kept, Idle
<1>10. DiscoveryIsKept'
  BY <1>t, <1>g, <1>0, <1>x, <1>r DEF LeaseInv, Fits, ExecFits, Tokens,
         DiscoveryIsKept, Owns, Own, InProgress, SlotRows, ExecRows, Kept, Idle
<1>q. QED
  BY <1>1, <1>2, <1>3, <1>4, <1>5, <1>6, <1>7, <1>8, <1>9, <1>10 DEF LeaseInv

(* The invariant holds at first, and every step keeps it. *)
LEMMA InitInv == Init => LeaseInv
<1> SUFFICES ASSUME Init PROVE LeaseInv
  OBVIOUS
<1>1. TypeOK
  BY DEF Init, TypeOK, Idle
<1>2. Fits
  BY DEF Init, Fits, ExecFits, Idle
<1>3. Tokens
  BY DEF Init, Tokens, Idle
<1>4. ResultEnds /\ TerminalAgrees /\ ResearchingHasSlot /\ OneSlot /\ SlotIsReserved
  BY DEF Init, ResultEnds, TerminalAgrees, ResearchingHasSlot, OneSlot, SlotIsReserved
<1>5. ReleasingFits /\ DiscoveryIsKept
  BY DEF Init, ReleasingFits, DiscoveryIsKept, Idle
<1> QED
  BY <1>1, <1>2, <1>3, <1>4, <1>5 DEF LeaseInv

LEMMA NextInv == LeaseInv /\ [Next]_vars => LeaseInv'
<1> SUFFICES ASSUME LeaseInv, [Next]_vars PROVE LeaseInv'
  OBVIOUS
<1>1. ASSUME NEW r \in Runs, NEW s \in Slots, NEW e \in Executions,
             Acquire(r, s, e) \/ Reserve(r, s, e)
      PROVE  LeaseInv'
  BY <1>1, AcquireStep, ReserveStep
<1>2. ASSUME NEW r \in Runs, Cancel(r)
      PROVE  LeaseInv'
  BY <1>2, CancelStep
<1>3. ASSUME NEW e \in Executions, Worker(e)
      PROVE  LeaseInv'
  <2>1. ASSUME NEW ending \in Ended, Conclude(e, ending)
        PROVE  LeaseInv'
    BY <2>1, ConcludeStep
  <2> QED
    BY <1>3, <2>1, PublishDemoStep, PublishStandardStep, FailDemoStep, FailStandardStep,
       ReleaseStep, LoadStep, SearchStep, PersistStep, CommitTerminalStep, Zenon DEF Worker
<1>4. ASSUME NEW e \in Executions, Faulty(e)
      PROVE  LeaseInv'
  BY <1>4, CrashStep, ThrowStep, FailLostStep DEF Faulty
<1>5. ASSUME NEW s \in Slots, Expire(s) \/ Recover(s)
      PROVE  LeaseInv'
  BY <1>5, ExpireStep, RecoverStep
<1>6. CASE UNCHANGED vars
  BY <1>6 DEF vars, LeaseInv, TypeOK, Fits, ExecFits, Tokens, ResultEnds, ReleasingFits,
     TerminalAgrees, ResearchingHasSlot, OneSlot, SlotIsReserved, DiscoveryIsKept, Owns, Own,
     InProgress
<1>7. ASSUME NEW r \in Runs, Refuse(r)
      PROVE  LeaseInv'
  BY <1>7 DEF Refuse, LeaseInv, TypeOK, Fits, ExecFits, Tokens, ResultEnds, ReleasingFits,
     TerminalAgrees, ResearchingHasSlot, OneSlot, SlotIsReserved, DiscoveryIsKept, Owns, Own,
     InProgress
<1> QED
  BY <1>1, <1>2, <1>3, <1>4, <1>5, <1>6, <1>7 DEF Next, Pick

LEMMA InvHolds == Spec => []LeaseInv
  BY InitInv, NextInv, PTL DEF Spec

(* Every variable keeps its type. *)
THEOREM RunsTyped == Spec => []TypeOK
<1>1. LeaseInv => TypeOK
  BY DEF LeaseInv
<1> QED
  BY <1>1, InvHolds, PTL

(* The committed terminal record of a live run says what became of the run, whatever
   workers, leases and users did before or since. *)
THEOREM TerminalRecordsAgree == Spec => []TerminalAgrees
<1>1. LeaseInv => TerminalAgrees
  BY DEF LeaseInv
<1> QED
  BY <1>1, InvHolds, PTL

(* No run is left in 'researching' without a lease by which it can be recovered, unless
   the failure update of its worker was lost. *)
THEOREM ResearchingRunsAreHeld == Spec => []ResearchingIsHeld
<1>1. LeaseInv => ResearchingIsHeld
  <2> SUFFICES ASSUME LeaseInv, NEW r \in Runs, run[r] = "researching", Unreleased(r) = {}
               PROVE  r \in lost
    BY DEF ResearchingIsHeld, Stranded
  <2> QED
    BY DEF LeaseInv, ResearchingHasSlot, Unreleased
<1> QED
  BY <1>1, InvHolds, PTL

(* A run has one lease at most, and the reservation of a live run names the process
   that has the lease. *)
THEOREM LeasesAreReserved == Spec => []LeaseIsReserved
<1>1. LeaseInv => LeaseIsReserved
  <2> SUFFICES ASSUME LeaseInv PROVE LeaseIsReserved
    OBVIOUS
  <2>1. ASSUME NEW r \in Runs, NEW s \in Slots, NEW t \in Slots, {s, t} \subseteq Unreleased(r)
        PROVE  s = t
    <3>1. /\ slot[s].status # "free" /\ slot[s].run = r
          /\ slot[t].status # "free" /\ slot[t].run = r
      BY <2>1 DEF Unreleased
    <3> QED
      BY <3>1 DEF LeaseInv, OneSlot
  <2>2. ASSUME NEW r \in Live, NEW s \in Slots, slot[s] = [run |-> r, status |-> "held"]
        PROVE  /\ res[r].fresh
               /\ \A e \in Executions : exec[e].slot = s <=> (exec[e].run = r /\ exec[e].reserved)
    <3>1. slot[s].run = r /\ slot[s].status = "held"
      BY <2>2
    <3> QED
      BY <3>1 DEF LeaseInv, SlotIsReserved
  <2> QED
    BY <2>1, <2>2 DEF LeaseIsReserved
<1> QED
  BY <1>1, InvHolds, PTL

(* No process that owns its run pays for, or stores, the discovery of sources that is
   checkpointed already. *)
THEOREM DiscoveriesAreKept == Spec => []DiscoveryIsKept
<1>1. LeaseInv => DiscoveryIsKept
  BY DEF LeaseInv
<1> QED
  BY <1>1, InvHolds, PTL

-----------------------------------------------------------------------------
(* The end of a run, on every tier. *)

(* A run that has ended has no lease left: the trigger released what it had, and no
   executor takes a slot for it again. *)
EndedHoldsNoSlot == \A r \in Runs : run[r] \in Ended => Unreleased(r) = {}

(* It may end anew on the Demo tier, but it is not open again. *)
EndedStaysEnded == [][\A r \in Runs : run[r] \in Ended => run'[r] \in Ended]_vars

(* EndedHoldsNoSlot, slot by slot. *)
SlotIsOpen == \A s \in Slots : slot[s].status # "free" => run[slot[s].run] \notin Ended

Over == \A r \in Runs : run[r] \in Ended => run'[r] \in Ended

LEMMA NothingEnds ==
  ASSUME LeaseInv, SlotIsOpen,
         \A r \in Runs : run'[r] \in Ended <=> run[r] \in Ended,
         \A s \in Slots : \/ slot'[s].status = "free"
                          \/ slot[s].status # "free" /\ slot'[s].run = slot[s].run
  PROVE  SlotIsOpen' /\ Over
<1>1. \A s \in Slots : slot[s].status # "free" => slot[s].run \in Runs
  BY DEF LeaseInv, Fits, TypeOK
<1> QED
  BY <1>1 DEF SlotIsOpen, Over

LEMMA RunEnds ==
  ASSUME LeaseInv, SlotIsOpen, NEW r \in Runs, NEW state \in Ended, SetState(r, state)
  PROVE  SlotIsOpen' /\ Over
<1>1. /\ run'[r] = state
      /\ \A q \in Runs : q # r => run'[q] = run[q]
      /\ \A s \in Slots : slot'[s].run = slot[s].run
      /\ \A s \in Slots : slot'[s] = slot[s] \/ slot'[s].status = "free"
      /\ run[r] # state => \A s \in Slots : slot[s].run = r => slot'[s].status = "free"
  BY SetStateRows DEF LeaseInv
<1>2. \A s \in Slots : slot[s].status # "free" => slot[s].run \in Runs
  BY DEF LeaseInv, Fits, TypeOK
<1> QED
  BY <1>1, <1>2 DEF SlotIsOpen, Over

LEMMA RunIsTaken ==
  ASSUME LeaseInv, SlotIsOpen, NEW r \in Runs, NEW s \in Slots, NEW e \in Executions,
         Acquire(r, s, e) \/ Reserve(r, s, e)
  PROVE  SlotIsOpen' /\ Over
<1>0. run \in [Runs -> RunState] /\ slot \in SlotRows
  BY DEF LeaseInv, TypeOK, SlotRows
<1>1. run[r] \notin Ended /\ run'[r] = "researching"
  BY <1>0 DEF Acquire, Reserve, Dispossess
<1>2. \A q \in Runs : run'[q] \in Ended <=> run[q] \in Ended
  BY <1>0, <1>1 DEF Acquire, Reserve, Dispossess
<1>3. slot' = [slot EXCEPT ![s] = [run |-> r, status |-> "held"]]
  BY DEF Acquire, Reserve, Take
<1>4. /\ slot'[s].run = r
      /\ \A t \in Slots : t # s => slot'[t] = slot[t]
  BY <1>0, <1>3 DEF SlotRows
<1>5. \A t \in Slots : slot[t].status # "free" => slot[t].run \in Runs
  BY DEF LeaseInv, Fits, TypeOK
<1> QED
  BY <1>1, <1>2, <1>4, <1>5 DEF SlotIsOpen, Over

LEMMA OverStep ==
  ASSUME LeaseInv, SlotIsOpen, [Next]_vars
  PROVE  SlotIsOpen' /\ Over
<1>t. /\ run \in [Runs -> RunState] /\ slot \in SlotRows
      /\ \A e \in Executions : exec[e].run \in Runs \cup {NULL}
  BY DEF LeaseInv, TypeOK, SlotRows
<1>1. ASSUME NEW r \in Runs, NEW s \in Slots, NEW e \in Executions,
             Acquire(r, s, e) \/ Reserve(r, s, e)
      PROVE  SlotIsOpen' /\ Over
  BY <1>1, RunIsTaken
<1>2. ASSUME NEW r \in Runs, Cancel(r) PROVE SlotIsOpen' /\ Over
  BY <1>2, RunEnds DEF Cancel
<1>3. ASSUME UNCHANGED <<run, slot>> PROVE SlotIsOpen' /\ Over
  BY <1>3 DEF SlotIsOpen, Over
<1>4. ASSUME NEW e \in Executions, PublishDemo(e) \/ PublishStandard(e)
      PROVE  SlotIsOpen' /\ Over
  <2>1. UNCHANGED <<run, slot>> \/ (exec[e].run \in Runs /\ SetState(exec[e].run, "complete"))
    BY <1>4 DEF PublishDemo, PublishStandard
  <2> QED
    BY <1>3, <2>1, RunEnds
<1>5. ASSUME NEW e \in Executions, FailDemo(e) PROVE SlotIsOpen' /\ Over
  BY <1>5, RunEnds DEF FailDemo
<1>6. ASSUME NEW e \in Executions, FailStandard(e) PROVE SlotIsOpen' /\ Over
  <2>1. /\ slot' = slot
        /\ \A r \in Runs : run'[r] \in Ended <=> run[r] \in Ended
    BY <1>t, <1>6 DEF FailStandard
  <2> QED
    BY <2>1, NothingEnds
<1>7. ASSUME NEW e \in Executions, Release(e) PROVE SlotIsOpen' /\ Over
  <2>1. Own(e) \in SUBSET Slots /\ run' = run /\ slot' = Released(Own(e))
    BY <1>7 DEF Release, Own
  <2>2. /\ \A s \in Slots : s \notin Own(e) => slot'[s] = slot[s]
        /\ \A s \in Own(e) : slot'[s].status = "free"
    BY <1>t, <2>1, ReleasedRows
  <2> QED
    BY <2>1, <2>2, NothingEnds
<1>8. ASSUME NEW e \in Executions,
             \/ Load(e) \/ Search(e) \/ Persist(e) \/ Faulty(e)
             \/ \E ending \in Ended : Conclude(e, ending)
      PROVE  SlotIsOpen' /\ Over
  <2>1. UNCHANGED <<run, slot>>
    BY <1>8 DEF Load, Search, Persist, Conclude, Faulty, Crash, Throw, FailLost
  <2> QED
    BY <1>3, <2>1
<1>9. ASSUME NEW e \in Executions, CommitTerminal(e) PROVE SlotIsOpen' /\ Over
  <2>1. exec[e].run \in Runs /\ exec[e].ending \in Ended
    BY <1>9 DEF CommitTerminal, LeaseInv, Fits, ExecFits
  <2>2. SetState(exec[e].run, exec[e].ending) \/ UNCHANGED <<run, slot>>
    BY <1>9 DEF CommitTerminal
  <2> QED
    BY <1>3, <2>1, <2>2, RunEnds
<1>10. ASSUME NEW s \in Slots, Expire(s) PROVE SlotIsOpen' /\ Over
  <2>1. /\ run' = run
        /\ \A t \in Slots : \/ slot'[t] = slot[t]
                            \/ slot[t].status = "held" /\ slot'[t].run = slot[t].run
    BY <1>t, <1>10 DEF Expire, SlotRows
  <2> QED
    BY <2>1, NothingEnds
<1>11. ASSUME NEW s \in Slots, Recover(s) PROVE SlotIsOpen' /\ Over
  <2>1. \A r \in Runs : run'[r] \in Ended <=> run[r] \in Ended
    BY <1>t, <1>11 DEF Recover
  <2>2. {s} \in SUBSET Slots /\ slot' = Released({s})
    BY <1>11 DEF Recover
  <2>3. /\ \A t \in Slots : t \notin {s} => slot'[t] = slot[t]
        /\ \A t \in {s} : slot'[t].status = "free"
    BY <1>t, <2>2, ReleasedRows
  <2> QED
    BY <2>1, <2>3, NothingEnds
<1>12. CASE UNCHANGED vars
  BY <1>3, <1>12 DEF vars
<1>13. ASSUME NEW r \in Runs, Refuse(r) PROVE SlotIsOpen' /\ Over
  BY <1>3, <1>13 DEF Refuse
<1> QED
  BY <1>1, <1>2, <1>4, <1>5, <1>6, <1>7, <1>8, <1>9, <1>10, <1>11, <1>12, <1>13
  DEF Next, Pick, Worker

LEMMA SlotsAreOpen == Spec => []SlotIsOpen
<1>1. Init => SlotIsOpen
  BY DEF Init, SlotIsOpen
<1>2. LeaseInv /\ SlotIsOpen /\ [Next]_vars => SlotIsOpen'
  BY OverStep
<1> QED
  BY <1>1, <1>2, InvHolds, PTL DEF Spec

(* On every tier: no retry, recovery or stale worker opens an ended run again. *)
THEOREM EndedRunsStayEnded == Spec => EndedStaysEnded
<1>1. LeaseInv /\ SlotIsOpen /\ [Next]_vars =>
        [\A r \in Runs : run[r] \in Ended => run'[r] \in Ended]_vars
  BY OverStep DEF Over
<1> QED
  BY <1>1, SlotsAreOpen, InvHolds, PTL DEF Spec, EndedStaysEnded

(* No ended run occupies an execution slot, held or expired, however it ended. *)
THEOREM EndedRunsHoldNoSlot == Spec => []EndedHoldsNoSlot
<1>1. SlotIsOpen => EndedHoldsNoSlot
  BY DEF SlotIsOpen, EndedHoldsNoSlot, Unreleased
<1> QED
  BY <1>1, SlotsAreOpen, PTL

-----------------------------------------------------------------------------
(* Each step is one End step of RunPromise, or none at all. *)

Promised == Standard \cup Live

Verdict(r) == IF run[r] \in Ended THEN run[r] ELSE "open"

LEMMA StepIsSilent ==
  ASSUME \A r \in Promised : Verdict(r)' = Verdict(r),
         result' \ Demo = result \ Demo, refunded' = refunded
  PROVE  UNCHANGED Promises!promise
BY DEF Promises!promise, Verdict, Promised

LEMMA StepIsEnd ==
  ASSUME NEW r \in Promised, NEW ending \in Ended,
         run[r] \notin Ended, run'[r] = ending,
         \A q \in Promised : q # r => run'[q] = run[q],
         result' = IF ending = "complete" THEN result \cup {r} ELSE result,
         refunded' = IF ending = "failed" /\ r \in Live THEN refunded \cup {r} ELSE refunded
  PROVE  Promises!Keeping
<1>1. r \notin Demo
  BY DEF Promised
<1>2. [q \in Promised |-> Verdict(q)]' = [[q \in Promised |-> Verdict(q)] EXCEPT ![r] = ending]
  BY DEF Verdict
<1>3. result' \ Demo = IF ending = "complete" THEN (result \ Demo) \cup {r} ELSE result \ Demo
  BY <1>1
<1>4. Promises!End(r, ending)
  BY <1>2, <1>3 DEF Promises!End, Verdict, Promised
<1> QED
  BY <1>4 DEF Promises!Keeping, Promises!Ending, Promised

LEMMA PromiseStep ==
  ASSUME LeaseInv, [Next]_vars
  PROVE  Promises!Keeping \/ UNCHANGED Promises!promise
<1>t. /\ run \in [Runs -> RunState]
      /\ \A e \in Executions : exec[e].run \in Runs \cup {NULL}
  BY DEF LeaseInv, TypeOK
<1>1. ASSUME NEW r \in Runs, NEW s \in Slots, NEW e \in Executions, Acquire(r, s, e)
      PROVE  UNCHANGED Promises!promise
  BY <1>t, <1>1, StepIsSilent DEF Acquire, Verdict, Promised
<1>2. ASSUME NEW r \in Runs, NEW s \in Slots, NEW e \in Executions, Reserve(r, s, e)
      PROVE  UNCHANGED Promises!promise
  <2>1. \A q \in Promised : Verdict(q)' = Verdict(q)
    BY <1>t, <1>2 DEF Reserve, Dispossess, Verdict, Promised
  <2> QED
    BY <1>2, <2>1, StepIsSilent DEF Reserve
<1>3. ASSUME NEW r \in Runs, Cancel(r)
      PROVE  Promises!Keeping \/ UNCHANGED Promises!promise
  <2>1. /\ run[r] \notin Ended /\ run'[r] = "cancelled"
        /\ \A q \in Runs : q # r => run'[q] = run[q]
        /\ UNCHANGED <<result, refunded>>
    BY <1>t, <1>3 DEF Cancel, SetState
  <2>2. CASE r \in Promised
    BY <2>1, <2>2, StepIsEnd DEF Promised
  <2>3. CASE r \notin Promised
    BY <2>1, <2>3, StepIsSilent DEF Promised, Verdict
  <2> QED
    BY <2>2, <2>3
<1>4. ASSUME NEW e \in Executions, PublishDemo(e)
      PROVE  UNCHANGED Promises!promise
  <2>1. /\ exec[e].run \in Demo
        /\ \A q \in Runs : q # exec[e].run => run'[q] = run[q]
        /\ result' \subseteq result \cup {exec[e].run} /\ result \subseteq result'
        /\ refunded' = refunded
    BY <1>t, <1>4 DEF PublishDemo, SetState
  <2> QED
    BY <2>1, StepIsSilent DEF Promised, Verdict
<1>5. ASSUME NEW e \in Executions, PublishStandard(e)
      PROVE  Promises!Keeping \/ UNCHANGED Promises!promise
  <2>1. CASE run[exec[e].run] \in Ended \/ exec[e].run \in result
    BY <1>5, <2>1, StepIsSilent DEF PublishStandard, Promised, Verdict
  <2>2. CASE ~(run[exec[e].run] \in Ended \/ exec[e].run \in result)
    <3>1. /\ exec[e].run \in Standard /\ run'[exec[e].run] = "complete"
          /\ \A q \in Runs : q # exec[e].run => run'[q] = run[q]
          /\ result' = result \cup {exec[e].run} /\ refunded' = refunded
      BY <1>t, <1>5, <2>2 DEF PublishStandard, SetState
    <3> QED
      BY <2>2, <3>1, StepIsEnd DEF Promised
  <2> QED
    BY <2>1, <2>2
<1>6. ASSUME NEW e \in Executions, FailDemo(e)
      PROVE  UNCHANGED Promises!promise
  <2>1. /\ exec[e].run \in Demo
        /\ \A q \in Runs : q # exec[e].run => run'[q] = run[q]
        /\ UNCHANGED <<result, refunded>>
    BY <1>t, <1>6 DEF FailDemo, SetState
  <2> QED
    BY <2>1, StepIsSilent DEF Promised, Verdict
<1>7. ASSUME NEW e \in Executions, FailStandard(e)
      PROVE  UNCHANGED Promises!promise
  BY <1>t, <1>7, StepIsSilent DEF FailStandard, Promised, Verdict
<1>8. ASSUME NEW e \in Executions,
             \/ Release(e) \/ Load(e) \/ Search(e) \/ Persist(e) \/ Faulty(e)
             \/ \E ending \in Ended : Conclude(e, ending)
      PROVE  UNCHANGED Promises!promise
  <2>1. UNCHANGED <<run, result, refunded>>
    BY <1>8 DEF Release, Load, Search, Persist, Conclude, Faulty, Crash, Throw, FailLost
  <2> QED
    BY <2>1, StepIsSilent DEF Verdict
<1>9. ASSUME NEW e \in Executions, CommitTerminal(e)
      PROVE  Promises!Keeping \/ UNCHANGED Promises!promise
  <2>1. exec[e].run \in Live /\ exec[e].ending \in Ended
    BY <1>9 DEF CommitTerminal, LeaseInv, Fits, ExecFits
  <2>2. CASE run[exec[e].run] \notin Ended /\ exec[e].slot # NULL
    <3>1. /\ run'[exec[e].run] = exec[e].ending
          /\ \A q \in Runs : q # exec[e].run => run'[q] = run[q]
          /\ result' = IF exec[e].ending = "complete" THEN result \cup {exec[e].run} ELSE result
          /\ refunded' = IF exec[e].ending = "failed" THEN refunded \cup {exec[e].run} ELSE refunded
      BY <1>t, <1>9, <2>1, <2>2 DEF CommitTerminal, SetState
    <3> QED
      BY <2>1, <2>2, <3>1, StepIsEnd DEF Promised
  <2>3. CASE ~(run[exec[e].run] \notin Ended /\ exec[e].slot # NULL)
    BY <1>9, <2>3, StepIsSilent DEF CommitTerminal, Verdict
  <2> QED
    BY <2>2, <2>3
<1>10. ASSUME NEW s \in Slots, Expire(s) \/ Recover(s)
       PROVE  UNCHANGED Promises!promise
  <2>1. \A q \in Promised : Verdict(q)' = Verdict(q)
    BY <1>t, <1>10 DEF Expire, Recover, Verdict, Promised
  <2> QED
    BY <1>10, <2>1, StepIsSilent DEF Expire, Recover
<1>11. CASE UNCHANGED vars
  BY <1>11, StepIsSilent DEF vars, Verdict
<1>12. ASSUME NEW r \in Runs, Refuse(r)
       PROVE  UNCHANGED Promises!promise
  BY <1>12, StepIsSilent DEF Refuse, Verdict
<1> QED
  BY <1>1, <1>2, <1>3, <1>4, <1>5, <1>6, <1>7, <1>8, <1>9, <1>10, <1>11, <1>12
  DEF Next, Pick, Worker

(* A run of the Standard or the live executor ends once, is published if and only if it
   completed, and gives its charge back if and only if it is a live run that failed. *)
THEOREM RunsKeepTheirPromise == Spec => KeepsRunPromise
<1>1. Init => Promises!Promised
  BY DEF Init, Promises!Promised
<1>2. LeaseInv /\ [Next]_vars => [Promises!Keeping]_(Promises!promise)
  BY PromiseStep
<1> QED
  BY <1>1, <1>2, InvHolds, PTL DEF Spec, KeepsRunPromise, Promises!Promise

(* An ended run of the Standard or the live executor keeps its ending; the Demo
   executor publishes over a cancellation. *)
EndingIsKept ==
  [][\A r \in Standard \cup Live : run[r] \in Ended => run'[r] = run[r]]_vars

(* A cancelled, failed or completed run keeps its ending, whatever a stale worker, a
   late commit or a recovery tries. *)
THEOREM EndingsAreKept == Spec => EndingIsKept
<1>1. ASSUME LeaseInv, [Next]_vars, NEW r \in Promised, run[r] \in Ended
      PROVE  run'[r] = run[r]
  <2>1. Verdict(r) # "open"
    BY <1>1 DEF Verdict
  <2>2. [q \in Promised |-> Verdict(q)]'[r] = Verdict(r)
    <3>1. CASE Promises!Keeping
      <4>1. PICK q \in Promised, ending \in Ended : Promises!End(q, ending)
        BY <3>1 DEF Promises!Keeping, Promises!Ending, Promised
      <4> QED
        BY <2>1, <4>1 DEF Promises!End, Verdict, Promised
    <3>2. CASE UNCHANGED Promises!promise
      BY <3>2 DEF Promises!promise, Verdict, Promised
    <3> QED
      BY <1>1, <3>1, <3>2, PromiseStep
  <2>3. Verdict(r)' = Verdict(r)
    BY <2>2
  <2> QED
    BY <1>1, <2>3 DEF Verdict
<1>2. LeaseInv /\ [Next]_vars =>
        [\A r \in Standard \cup Live : run[r] \in Ended => run'[r] = run[r]]_vars
  BY <1>1 DEF Promised
<1> QED
  BY <1>2, InvHolds, PTL DEF Spec, EndingIsKept
=============================================================================
