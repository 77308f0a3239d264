-------------------------- MODULE ConsentedResearch -------------------------
(***************************************************************************)
(* What the research workflow promises the consultant, without sessions,   *)
(* leases, tokens or crashes: paid work runs only for the one round that   *)
(* was consented to, ends by publication, failure or stop, is taken up     *)
(* again only while no other round has been consented to since, and is     *)
(* never taken up after a stop or a publication.                           *)
(***************************************************************************)
CONSTANTS Rounds, NULL

VARIABLES
  status,    \* Rounds -> none, proposed, working, published, stopped, ended
  consent    \* the round consented to last

vars == <<status, consent>>

TypeOK ==
  /\ status \in [Rounds -> {"none", "proposed", "working", "published", "stopped", "ended"}]
  /\ consent \in Rounds \cup {NULL}

Init ==
  /\ status = [r \in Rounds |-> "none"]
  /\ consent = NULL

Idle == \A r \in Rounds : status[r] # "working"
Become(r, s) == status' = [status EXCEPT ![r] = s]

Propose(r) ==
  /\ status[r] = "none"
  /\ Become(r, "proposed")
  /\ UNCHANGED consent

Consent(r) ==
  /\ status[r] = "proposed" /\ Idle
  /\ Become(r, "working")
  /\ consent' = r

Publish(r) ==
  /\ status[r] = "working"
  /\ Become(r, "published")
  /\ UNCHANGED consent

End(r) ==
  /\ status[r] = "working"
  /\ status' \in {[status EXCEPT ![r] = s] : s \in {"ended", "stopped"}}
  /\ UNCHANGED consent

(* Resume, or focus recovery, under the consent already given. *)
TakeUp(r) ==
  /\ status[r] = "ended" /\ consent = r /\ Idle
  /\ Become(r, "working")
  /\ UNCHANGED consent

(* A free re-reading of retained evidence takes the place of the round. *)
Reread(r) ==
  /\ status[r] = "none" /\ Idle
  /\ Become(r, "published")
  /\ consent' = r

Next == status' # status /\ \E r \in Rounds :
  Propose(r) \/ Consent(r) \/ Publish(r) \/ End(r) \/ TakeUp(r) \/ Reread(r)

Spec == Init /\ [][Next]_vars
=============================================================================
