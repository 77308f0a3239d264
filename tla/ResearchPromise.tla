--------------------------- MODULE ResearchPromise --------------------------
(***************************************************************************)
(* The promise of ConsentedResearch, read off the rows ResearchExecution   *)
(* keeps.                                                                  *)
(***************************************************************************)
EXTENDS ResearchExecution

(* A published round's job may still be running, and a late failure of it is
   not the round's. *)
StatusOf(r) ==
  IF round[r].status \in {"none", "proposed"} THEN round[r].status
  ELSE IF round[r].status = "completed" THEN "published"
  ELSE IF job[r].error = "user-cancelled" THEN "stopped"
  ELSE IF Active(r) THEN "working" ELSE "ended"

Kept == [r \in Rounds |-> StatusOf(r)]

Promise == INSTANCE ConsentedResearch WITH consent <- session.execution, status <- Kept

(* The workflow keeps the promise of ConsentedResearch: every transaction is one
   of its steps or is invisible to the consultant. *)
KeepsPromise == Promise!Spec

(* What is left of it when a tab writes back an old session row, which moves the
   consent: every change of a round's standing is still a step of the promise. So
   one round is worked at a time, is taken up only while the session names it, and
   never after a stop or a publication. *)
KeepsWorkPromise == Promise!Init /\ [][Promise!Next]_Kept
=============================================================================
