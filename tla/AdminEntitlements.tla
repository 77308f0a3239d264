-------------------------- MODULE AdminEntitlements --------------------------
(***************************************************************************)
(* Tiers and administrative roles of the users of one account, and the     *)
(* transactions by which super-admins grant and revoke them.  Transactions *)
(* run side by side; rows are locked as they are read and stay locked      *)
(* until the end, and what a transaction writes is seen when it commits.   *)
(*                                                                         *)
(* A command that is refused, and a repeated one that is answered from its *)
(* idempotency record, change neither tiers nor roles and are not actions. *)
(***************************************************************************)
EXTENDS Integers, FiniteSets

CONSTANTS
  Users,     \* active users of the account
  Tiers,     \* tiers that can be granted
  Roles,     \* administrative sub-roles
  Sessions,  \* transactions that can be open at once
  NULL       \* no tier, no user

VARIABLES
  tier,  \* by user: the entitlement in force
  roles, \* by user: the administrative roles in force
  tx     \* by session: its step, actor, subject, command and the users whose rows it holds

vars == <<tier, roles, tx>>

Command == [action : {"grant", "revoke"}, kind : {"tier"}, value : Tiers]
             \cup [action : {"grant", "revoke"}, kind : {"role"}, value : Roles]

Transaction == [actor : Users, subject : Users, command : Command,
                step : {"allowed", "counted"}, holds : SUBSET Users]

ASSUME EntitlementAssumption ==
  /\ {"admin", "consultant", "demo"} \subseteq Tiers /\ NULL \notin Tiers \cup Users
  /\ {"super_admin", "security_audit"} \subseteq Roles

TypeOK ==
  /\ tier \in [Users -> Tiers \cup {NULL}]
  /\ roles \in [Users -> SUBSET Roles]
  /\ tx \in [Sessions -> Transaction \cup {NULL}]
  /\ \A t \in Sessions : tx[t] # NULL => tx[t].actor # tx[t].subject

PROHIBITED_ROLE_PAIRS ==
  {{"security_audit", "super_admin"}, {"product", "consultant_manager"}}

Holding(role) == {u \in Users : role \in roles[u]}

(* The account begins with a super-admin and a security auditor. *)
Init ==
  \E super, auditor \in Users :
    /\ super # auditor
    /\ tier = [u \in Users |-> IF u \in {super, auditor} THEN "admin" ELSE NULL]
    /\ roles = [u \in Users |-> CASE u = super -> {"super_admin"}
                                  [] u = auditor -> {"security_audit"}
                                  [] OTHER -> {}]
    /\ tx = [t \in Sessions |-> NULL]

-----------------------------------------------------------------------------
Free(t, rows) == \A s \in Sessions \ {t} : tx[s] # NULL => tx[s].holds \cap rows = {}

(* Mutant of Authorised: a super-admin may be the subject of a command of his own. *)
AuthorisedSelf(actor, subject) == tier[actor] = "admin" /\ "super_admin" \in roles[actor]

(* The actor is an admin with the role of super-admin, and not the subject. *)
Authorised(actor, subject) ==
  actor # subject /\ tier[actor] = "admin" /\ "super_admin" \in roles[actor]

(* Mutant of Permitted: the combinations of roles are not asked. *)
PermittedAnyPair(subject, command) ==
  command.kind = "role" /\ command.action = "grant" => tier[subject] = "admin"

(* A role is granted to admins only and in no prohibited combination. *)
Permitted(subject, command) ==
  command.kind = "role" /\ command.action = "grant" =>
    /\ tier[subject] = "admin"
    /\ \A pair \in PROHIBITED_ROLE_PAIRS : ~(pair \subseteq roles[subject] \cup {command.value})

Open(t, actor, subject, command, rows) ==
  tx' = [tx EXCEPT ![t] = [actor |-> actor, subject |-> subject, command |-> command,
                           step |-> "allowed", holds |-> rows]]

(* Mutant of Begin: only the row of the subject is locked. *)
BeginUnlockedActor(t, actor, subject, command) ==
  /\ tx[t] = NULL /\ Free(t, {subject})
  /\ Authorised(actor, subject) /\ Permitted(subject, command)
  /\ Open(t, actor, subject, command, {subject})
  /\ UNCHANGED <<tier, roles>>

(* Mutant of Begin: only the row of the actor is locked. *)
BeginUnlockedSubject(t, actor, subject, command) ==
  /\ tx[t] = NULL /\ Free(t, {actor})
  /\ Authorised(actor, subject) /\ Permitted(subject, command)
  /\ Open(t, actor, subject, command, {actor})
  /\ UNCHANGED <<tier, roles>>

(* applyMutation up to its first write: lockUsers locks both users, in one order, then
   their grants are read and locked. *)
Begin(t, actor, subject, command) ==
  /\ tx[t] = NULL /\ Free(t, {actor, subject})
  /\ Authorised(actor, subject) /\ Permitted(subject, command)
  /\ Open(t, actor, subject, command, {actor, subject})
  /\ UNCHANGED <<tier, roles>>

TakesAudit(t) ==
  /\ tx[t].command = [action |-> "revoke", kind |-> "role", value |-> "security_audit"]
  /\ "security_audit" \in roles[tx[t].subject]

(* Mutant of CountAuditors: the grants are counted without being locked. *)
CountAuditorsUnlocked(t) ==
  LET auditors == Holding("security_audit") IN
  /\ tx[t] # NULL /\ TakesAudit(t) /\ tx[t].step = "allowed"
  /\ tx' = IF Cardinality(auditors) <= 1
             THEN [tx EXCEPT ![t] = NULL]
             ELSE [tx EXCEPT ![t].step = "counted"]
  /\ UNCHANGED <<tier, roles>>

(* The grants of all auditors are read and locked, once nobody else holds one; the last
   one is not revoked. *)
CountAuditors(t) ==
  LET auditors == Holding("security_audit") IN
  /\ tx[t] # NULL /\ TakesAudit(t) /\ tx[t].step = "allowed"
  /\ Free(t, auditors)
  /\ tx' = IF Cardinality(auditors) <= 1
             THEN [tx EXCEPT ![t] = NULL]
             ELSE [tx EXCEPT ![t].step = "counted", ![t].holds = @ \cup auditors]
  /\ UNCHANGED <<tier, roles>>

(* What the command leaves the subject with. *)
TierAfter(u, command) ==
  IF command.kind = "role" THEN tier[u]
  ELSE IF command.action = "grant" THEN command.value
  ELSE IF tier[u] = command.value THEN NULL ELSE tier[u]

RolesAfter(u, command) ==
  IF command.kind = "tier"
    THEN IF TierAfter(u, command) = "admin" THEN roles[u] ELSE {}
    ELSE IF command.action = "grant" THEN roles[u] \cup {command.value}
                                     ELSE roles[u] \ {command.value}

Commit(t) ==
  /\ tx[t] # NULL /\ (TakesAudit(t) => tx[t].step = "counted")
  /\ LET u == tx[t].subject
         command == tx[t].command IN
     /\ tier' = [tier EXCEPT ![u] = TierAfter(u, command)]
     /\ roles' = [roles EXCEPT ![u] = RolesAfter(u, command)]
  /\ tx' = [tx EXCEPT ![t] = NULL]

(* The connection is lost, the audit fails, or a deadlock over the grants is broken. *)
Abort(t) ==
  /\ tx[t] # NULL
  /\ tx' = [tx EXCEPT ![t] = NULL]
  /\ UNCHANGED <<tier, roles>>

(* A consultant tier is granted with an expiry, and only it. *)
Expire(u) ==
  /\ tier[u] = "consultant"
  /\ tier' = [tier EXCEPT ![u] = NULL]
  /\ UNCHANGED <<roles, tx>>

(* ensureBootstrapEntitlement: a user without a tier gets that of a demo. *)
Bootstrap(u) ==
  /\ tier[u] = NULL /\ \A t \in Sessions : tx[t] # NULL => u \notin tx[t].holds
  /\ tier' = [tier EXCEPT ![u] = "demo"]
  /\ UNCHANGED <<roles, tx>>

-----------------------------------------------------------------------------
Next ==
  \/ \E t \in Sessions, actor, subject \in Users, command \in Command :
       Begin(t, actor, subject, command)
  \/ \E t \in Sessions : CountAuditors(t) \/ Commit(t) \/ Abort(t)
  \/ \E u \in Users : Expire(u) \/ Bootstrap(u)

Spec == Init /\ [][Next]_vars

-----------------------------------------------------------------------------
(* Properties. *)

(* However super-admins revoke one another's roles and tiers at once, one remains who
   can grant them again: nobody else can. *)
SuperAdminRemains == \E u \in Users : tier[u] = "admin" /\ "super_admin" \in roles[u]

(* Roles are held by admins only: the snapshot of a user for whom that fails throws, and
   no command can repair the entitlement. *)
RolesNeedAdmin == \A u \in Users : roles[u] # {} => tier[u] = "admin"

(* No user holds two roles that exclude each other, whatever was granted side by side. *)
DutiesSeparated ==
  \A u \in Users, pair \in PROHIBITED_ROLE_PAIRS : ~(pair \subseteq roles[u])

(* Revocations of the role of auditor, side by side, never take it from the last one:
   only a change of tier does. *)
AuditRoleIsKept ==
  [][Holding("security_audit") # {} /\ Holding("security_audit")' = {} => tier' # tier]_vars

(* However their transactions overlap, commands take effect as if one were decided and
   done at a time: neither the actor's authority, nor the subject's tier and roles, nor
   the other auditor counted are stale when the command is committed. *)
Atomic == INSTANCE AtomicGrants
KeepsGrantPromise == Atomic!Promise

(* "The final active Security and audit assignment cannot be revoked." *)
AuditorRemains == Holding("security_audit") # {}
=============================================================================
