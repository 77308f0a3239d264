---------------------------- MODULE AtomicGrants ----------------------------
(***************************************************************************)
(* What the administration of entitlements promises the account: every     *)
(* command takes effect in one step, by an actor who is entitled to it and *)
(* on a subject who qualifies for it at that very moment.  There are no    *)
(* transactions, locks or counted rows here.                               *)
(***************************************************************************)
CONSTANTS Users, Tiers, Roles, NULL

VARIABLES
  tier,  \* by user: the entitlement in force
  roles  \* by user: the administrative roles in force

grants == <<tier, roles>>

Exclusive == {{"security_audit", "super_admin"}, {"product", "consultant_manager"}}

MayGovern(actor, u) ==
  actor # u /\ tier[actor] = "admin" /\ "super_admin" \in roles[actor]

(* One super-admin, one auditor, and nobody else. *)
Founded ==
  \E super, auditor \in Users :
    /\ super # auditor
    /\ tier = [u \in Users |-> IF u \in {super, auditor} THEN "admin" ELSE NULL]
    /\ roles = [u \in Users |-> IF u = super THEN {"super_admin"}
                               ELSE IF u = auditor THEN {"security_audit"} ELSE {}]

(* Who is no admin any more has no roles any more. *)
ChangeTier(u, new) ==
  /\ tier' = [tier EXCEPT ![u] = new]
  /\ roles' = [roles EXCEPT ![u] = IF new = "admin" THEN @ ELSE {}]

AddRole(u, role) ==
  /\ tier[u] = "admin" /\ \A pair \in Exclusive : ~(pair \subseteq roles[u] \cup {role})
  /\ roles' = [roles EXCEPT ![u] = @ \cup {role}]
  /\ UNCHANGED tier

(* The last auditor keeps the role. *)
DropRole(u, role) ==
  /\ role = "security_audit" =>
       \E other \in Users : other # u /\ role \in roles[other]
  /\ roles' = [roles EXCEPT ![u] = @ \ {role}]
  /\ UNCHANGED tier

Govern(u) ==
  /\ \E actor \in Users : MayGovern(actor, u)
  /\ \/ \E new \in Tiers \cup {NULL} : ChangeTier(u, new)
     \/ \E role \in Roles : AddRole(u, role) \/ DropRole(u, role)

(* Without anybody's command a consultant's tier ends, and a demo's begins. *)
Lapse(u) == tier[u] = "consultant" /\ ChangeTier(u, NULL)
Welcome(u) == tier[u] = NULL /\ ChangeTier(u, "demo")

Granting == \E u \in Users : Govern(u) \/ Lapse(u) \/ Welcome(u)

Promise == Founded /\ [][Granting]_grants
=============================================================================
