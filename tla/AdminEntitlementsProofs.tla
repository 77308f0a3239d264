----------------------- MODULE AdminEntitlementsProofs -----------------------
(* What holds of grants and revocations for any number of users, roles and open
   transactions. *)
EXTENDS AdminEntitlements, FiniteSetTheorems, TLAPS

USE EntitlementAssumption

(* What an open transaction was allowed on stays so until it ends, since it holds the
   rows it was decided on. *)
StillAllowed(t) ==
  tx[t] # NULL =>
    /\ {tx[t].actor, tx[t].subject} \subseteq tx[t].holds
    /\ tier[tx[t].actor] = "admin" /\ "super_admin" \in roles[tx[t].actor]
    /\ Permitted(tx[t].subject, tx[t].command)
    /\ tx[t].step = "counted" =>
         \E other \in tx[t].holds \ {tx[t].subject} : "security_audit" \in roles[other]

TxFit == \A t \in Sessions : StillAllowed(t)

(* No row is held twice. *)
HeldOnce ==
  \A s, t \in Sessions :
    s # t /\ tx[s] # NULL /\ tx[t] # NULL => tx[s].holds \cap tx[t].holds = {}

EntInv ==
  TypeOK /\ TxFit /\ HeldOnce /\ RolesNeedAdmin /\ DutiesSeparated /\ SuperAdminRemains

-----------------------------------------------------------------------------
LEMMA CommandFields ==
  ASSUME NEW c \in Command
  PROVE  /\ c.action \in {"grant", "revoke"} /\ c.kind \in {"tier", "role"}
         /\ c.kind = "tier" => c.value \in Tiers
         /\ c.kind = "role" => c.value \in Roles
  BY DEF Command

LEMMA TxFields ==
  ASSUME TypeOK, NEW t \in Sessions, tx[t] # NULL
  PROVE  /\ tx[t] \in Transaction /\ tx[t].actor \in Users /\ tx[t].subject \in Users
         /\ tx[t].actor # tx[t].subject /\ tx[t].command \in Command
         /\ tx[t].step \in {"allowed", "counted"} /\ tx[t].holds \in SUBSET Users
  BY DEF TypeOK, Transaction

LEMMA InitHolds == Init => EntInv
<1> SUFFICES ASSUME Init PROVE EntInv
  OBVIOUS
<1>1. PICK super, auditor \in Users :
        /\ super # auditor
        /\ tier = [u \in Users |-> IF u \in {super, auditor} THEN "admin" ELSE NULL]
        /\ roles = [u \in Users |-> CASE u = super -> {"super_admin"}
                                      [] u = auditor -> {"security_audit"}
                                      [] OTHER -> {}]
        /\ tx = [t \in Sessions |-> NULL]
  BY DEF Init
<1>2. \A u \in Users :
        /\ tier[u] = IF u \in {super, auditor} THEN "admin" ELSE NULL
        /\ u = super => roles[u] = {"super_admin"}
        /\ u = auditor => roles[u] = {"security_audit"}
        /\ u \notin {super, auditor} => roles[u] = {}
  BY <1>1
<1>3. \A u \in Users : roles[u] \in SUBSET Roles
  BY <1>2
<1>4. \A t \in Sessions : tx[t] = NULL
  BY <1>1
<1>5. TypeOK
  <2>3. tx \in [Sessions -> Transaction \cup {NULL}]
    BY <1>1
  <2>1. tier \in [Users -> Tiers \cup {NULL}]
    BY <1>1
  <2>2. roles \in [Users -> SUBSET Roles]
    BY <1>1, <1>3
  <2> QED
    BY <1>4, <2>1, <2>2, <2>3 DEF TypeOK
<1>6. RolesNeedAdmin /\ SuperAdminRemains
  BY <1>1, <1>2 DEF RolesNeedAdmin, SuperAdminRemains
<1>7. DutiesSeparated
  <2>1. \A u \in Users : \A x, y \in roles[u] : x = y
    BY <1>2
  <2>2. ASSUME NEW u \in Users, NEW pair \in PROHIBITED_ROLE_PAIRS
        PROVE  ~(pair \subseteq roles[u])
    BY <2>1 DEF PROHIBITED_ROLE_PAIRS
  <2> QED
    BY <2>2 DEF DutiesSeparated
<1> QED
  BY <1>4, <1>5, <1>6, <1>7 DEF EntInv, TxFit, StillAllowed, HeldOnce

(* A session without an open transaction, and what its end leaves to the others. *)
LEMMA EndHolds ==
  ASSUME EntInv, NEW t \in Sessions, tx' = [tx EXCEPT ![t] = NULL], UNCHANGED <<tier, roles>>
  PROVE  EntInv'
<1>1. \A s \in Sessions : tx'[s] = NULL \/ tx'[s] = tx[s]
  BY DEF EntInv, TypeOK
<1>2. TypeOK'
  BY <1>1 DEF EntInv, TypeOK
<1>3. TxFit' /\ HeldOnce'
  BY <1>1 DEF EntInv, TxFit, HeldOnce, StillAllowed, Permitted
<1>4. RolesNeedAdmin' /\ DutiesSeparated' /\ SuperAdminRemains'
  BY DEF EntInv, RolesNeedAdmin, DutiesSeparated, SuperAdminRemains
<1> QED
  BY <1>2, <1>3, <1>4 DEF EntInv

LEMMA BeginHolds ==
  ASSUME EntInv, NEW t \in Sessions, NEW actor \in Users, NEW subject \in Users,
         NEW command \in Command, Begin(t, actor, subject, command)
  PROVE  EntInv'
<1> DEFINE new == [actor |-> actor, subject |-> subject, command |-> command,
                   step |-> "allowed", holds |-> {actor, subject}]
<1>1. /\ tier' = tier /\ roles' = roles /\ tx[t] = NULL /\ tx' = [tx EXCEPT ![t] = new]
      /\ Free(t, {actor, subject}) /\ Permitted(subject, command)
      /\ actor # subject /\ tier[actor] = "admin" /\ "super_admin" \in roles[actor]
  BY DEF Begin, Open, Authorised
<1>2. new \in Transaction
  BY DEF Transaction
<1>3. tx'[t] = new /\ \A s \in Sessions : s # t => tx'[s] = tx[s]
  BY <1>1 DEF EntInv, TypeOK
<1>4. TypeOK'
  <2>1. tx' \in [Sessions -> Transaction \cup {NULL}]
    BY <1>1, <1>2 DEF EntInv, TypeOK
  <2>2. \A s \in Sessions : tx'[s] # NULL => tx'[s].actor # tx'[s].subject
    BY <1>1, <1>3 DEF EntInv, TypeOK
  <2> QED
    BY <1>1, <2>1, <2>2 DEF EntInv, TypeOK
<1>5. TxFit'
  <2>1. ASSUME NEW s \in Sessions, s # t PROVE StillAllowed(s)'
    BY <1>1, <1>3, <2>1 DEF EntInv, TxFit, StillAllowed, Permitted
  <2>2. StillAllowed(t)'
    BY <1>1, <1>3 DEF StillAllowed, Permitted
  <2> QED
    BY <2>1, <2>2 DEF TxFit
<1>6. HeldOnce'
  <2>1. \A s \in Sessions : s # t /\ tx[s] # NULL => tx[s].holds \cap {actor, subject} = {}
    BY <1>1 DEF Free
  <2>2. tx'[t].holds = {actor, subject}
    BY <1>3
  <2> QED
    BY <1>3, <2>1, <2>2 DEF EntInv, HeldOnce
<1>7. RolesNeedAdmin' /\ DutiesSeparated' /\ SuperAdminRemains'
  BY <1>1 DEF EntInv, RolesNeedAdmin, DutiesSeparated, SuperAdminRemains
<1> QED
  BY <1>4, <1>5, <1>6, <1>7 DEF EntInv

(* More than one auditor counted: one of them is not the subject. *)
LEMMA CountHolds ==
  ASSUME EntInv, NEW t \in Sessions, CountAuditors(t)
  PROVE  EntInv'
<1> DEFINE auditors == Holding("security_audit")
<1>1. /\ tier' = tier /\ roles' = roles /\ tx[t] # NULL /\ Free(t, auditors)
      /\ "security_audit" \in roles[tx[t].subject]
  BY DEF CountAuditors, TakesAudit
<1>2. CASE Cardinality(auditors) <= 1
  BY <1>1, <1>2, EndHolds DEF CountAuditors
<1>3. CASE ~(Cardinality(auditors) <= 1)
  <2>1. tx' = [tx EXCEPT ![t].step = "counted", ![t].holds = @ \cup auditors]
    BY <1>3 DEF CountAuditors
  <2>2. /\ tx[t] \in Transaction /\ tx[t].subject \in Users /\ tx[t].actor # tx[t].subject
        /\ tx[t].holds \in SUBSET Users
    BY <1>1, TxFields DEF EntInv
  <2>3. /\ tx'[t] \in Transaction
        /\ tx'[t].actor = tx[t].actor /\ tx'[t].subject = tx[t].subject
        /\ tx'[t].command = tx[t].command
        /\ tx'[t].holds = tx[t].holds \cup auditors
        /\ \A s \in Sessions : s # t => tx'[s] = tx[s]
        /\ tx' \in [Sessions -> Transaction \cup {NULL}]
    <3>1. auditors \in SUBSET Users
      BY DEF Holding
    <3> HIDE DEF auditors
    <3> QED
      BY <2>1, <2>2, <3>1 DEF EntInv, TypeOK, Transaction
  <2>4. TypeOK'
    BY <1>1, <2>2, <2>3 DEF EntInv, TypeOK
  <2>5. \E other \in auditors : other # tx[t].subject
    <3>1. SUFFICES ASSUME \A other \in auditors : other = tx[t].subject PROVE FALSE
      OBVIOUS
    <3>2. auditors = {tx[t].subject}
      BY <1>1, <2>2, <3>1 DEF Holding
    <3>3. Cardinality(auditors) = 1
      BY <3>2, FS_Singleton
    <3> QED
      BY <1>3, <3>3
  <2>6. TxFit'
    <3>1. ASSUME NEW s \in Sessions, s # t PROVE StillAllowed(s)'
      BY <1>1, <2>3, <3>1 DEF EntInv, TxFit, StillAllowed, Permitted
    <3>2. StillAllowed(t)'
      <4>1. StillAllowed(t)
        BY DEF EntInv, TxFit
      <4>2. \E other \in tx'[t].holds \ {tx'[t].subject} : "security_audit" \in roles'[other]
        BY <1>1, <2>3, <2>5 DEF Holding
      <4>3. /\ {tx'[t].actor, tx'[t].subject} \subseteq tx'[t].holds
            /\ tier'[tx'[t].actor] = "admin" /\ "super_admin" \in roles'[tx'[t].actor]
        BY <1>1, <2>3, <4>1 DEF StillAllowed
      <4>4. Permitted(tx[t].subject, tx[t].command)'
        BY <1>1, <2>3, <4>1 DEF StillAllowed, Permitted
      <4> QED
        BY <4>2, <4>3, <4>4 DEF StillAllowed
    <3> QED
      BY <3>1, <3>2 DEF TxFit
  <2>7. HeldOnce'
    <3>1. \A s \in Sessions : s # t /\ tx[s] # NULL => tx[s].holds \cap auditors = {}
      BY <1>1 DEF Free
    <3>2. \A s \in Sessions : s # t /\ tx[s] # NULL => tx[s].holds \cap tx[t].holds = {}
      BY <1>1 DEF EntInv, HeldOnce
    <3>3. \A s \in Sessions : s # t /\ tx[s] # NULL => tx[s].holds \cap tx'[t].holds = {}
      BY <2>3, <3>1, <3>2
    <3> QED
      BY <2>3, <3>3 DEF EntInv, HeldOnce
  <2>8. RolesNeedAdmin' /\ DutiesSeparated' /\ SuperAdminRemains'
    BY <1>1 DEF EntInv, RolesNeedAdmin, DutiesSeparated, SuperAdminRemains
  <2> QED
    BY <2>4, <2>6, <2>7, <2>8 DEF EntInv
<1> QED
  BY <1>2, <1>3

(* What a permitted command leaves its subject with. *)
LEMMA AfterFits ==
  ASSUME EntInv, NEW u \in Users, NEW command \in Command, Permitted(u, command)
  PROVE  /\ TierAfter(u, command) \in Tiers \cup {NULL}
         /\ RolesAfter(u, command) \in SUBSET Roles
         /\ RolesAfter(u, command) # {} => TierAfter(u, command) = "admin"
         /\ \A pair \in PROHIBITED_ROLE_PAIRS : ~(pair \subseteq RolesAfter(u, command))
<1>1. /\ tier[u] \in Tiers \cup {NULL} /\ roles[u] \in SUBSET Roles
      /\ roles[u] # {} => tier[u] = "admin"
      /\ \A pair \in PROHIBITED_ROLE_PAIRS : ~(pair \subseteq roles[u])
  BY DEF EntInv, TypeOK, RolesNeedAdmin, DutiesSeparated
<1>2. \A pair \in PROHIBITED_ROLE_PAIRS : pair # {}
  BY DEF PROHIBITED_ROLE_PAIRS
<1>3. CASE command.kind = "tier"
  <2>1. command.value \in Tiers
    BY <1>3, CommandFields
  <2> QED
    BY <1>1, <1>2, <1>3, <2>1 DEF TierAfter, RolesAfter
<1>4. CASE command.kind = "role" /\ command.action = "grant"
  <2>1. command.value \in Roles
    BY <1>4, CommandFields
  <2> QED
    BY <1>1, <1>4, <2>1 DEF TierAfter, RolesAfter, Permitted
<1>5. CASE command.kind = "role" /\ command.action = "revoke"
  BY <1>1, <1>5 DEF TierAfter, RolesAfter
<1> QED
  BY <1>3, <1>4, <1>5, CommandFields

(* A commit writes the rows of its subject, which no other transaction holds; its actor
   stays what he is. *)
LEMMA CommitHolds ==
  ASSUME EntInv, NEW t \in Sessions, Commit(t)
  PROVE  EntInv'
<1>1. PICK u \in Users, command \in Command :
        /\ tx[t] # NULL /\ u = tx[t].subject /\ command = tx[t].command
        /\ tier' = [tier EXCEPT ![u] = TierAfter(u, command)]
        /\ roles' = [roles EXCEPT ![u] = RolesAfter(u, command)]
        /\ tx' = [tx EXCEPT ![t] = NULL]
  BY TxFields DEF EntInv, Commit
<1>2. StillAllowed(t) /\ tx[t].actor \in Users /\ tx[t].actor # u
  BY <1>1, TxFields DEF EntInv, TxFit
<1>3. Permitted(u, command) /\ u \in tx[t].holds
  BY <1>1, <1>2 DEF StillAllowed
<1>4. /\ tier'[u] \in Tiers \cup {NULL} /\ roles'[u] \in SUBSET Roles
      /\ roles'[u] # {} => tier'[u] = "admin"
      /\ \A pair \in PROHIBITED_ROLE_PAIRS : ~(pair \subseteq roles'[u])
  BY <1>1, <1>3, AfterFits DEF EntInv, TypeOK
<1>5. \A v \in Users : v # u => tier'[v] = tier[v] /\ roles'[v] = roles[v]
  BY <1>1 DEF EntInv, TypeOK
<1>6. tx'[t] = NULL /\ \A s \in Sessions : s # t => tx'[s] = tx[s]
  BY <1>1 DEF EntInv, TypeOK
<1>7. TypeOK'
  <2>1. /\ tier' \in [Users -> Tiers \cup {NULL}]
        /\ roles' \in [Users -> SUBSET Roles]
        /\ tx' \in [Sessions -> Transaction \cup {NULL}]
    BY <1>1, <1>4 DEF EntInv, TypeOK
  <2>2. \A s \in Sessions : tx'[s] # NULL => tx'[s].actor # tx'[s].subject
    BY <1>6 DEF EntInv, TypeOK
  <2> QED
    BY <2>1, <2>2 DEF TypeOK
<1>8. TxFit'
  <2>1. ASSUME NEW s \in Sessions, s # t, tx[s] # NULL PROVE StillAllowed(s)'
    <3>1. /\ StillAllowed(s) /\ tx'[s] = tx[s]
          /\ tx[s].actor \in Users /\ tx[s].subject \in Users /\ tx[s].holds \in SUBSET Users
      BY <1>6, <2>1, TxFields DEF EntInv, TxFit
    <3>2. u \notin tx[s].holds
      BY <1>1, <1>3, <2>1 DEF EntInv, HeldOnce
    <3>3. \A v \in tx[s].holds : tier'[v] = tier[v] /\ roles'[v] = roles[v]
      BY <1>5, <3>1, <3>2
    <3>4. /\ {tx[s].actor, tx[s].subject} \subseteq tx[s].holds
          /\ tier'[tx[s].actor] = "admin" /\ "super_admin" \in roles'[tx[s].actor]
      BY <2>1, <3>1, <3>3 DEF StillAllowed
    <3>5. Permitted(tx[s].subject, tx[s].command)'
      BY <2>1, <3>1, <3>3, <3>4 DEF StillAllowed, Permitted
    <3>6. tx[s].step = "counted" =>
            \E other \in tx[s].holds \ {tx[s].subject} : "security_audit" \in roles'[other]
      BY <2>1, <3>1, <3>3 DEF StillAllowed
    <3> QED
      BY <3>1, <3>4, <3>5, <3>6 DEF StillAllowed
  <2> QED
    BY <1>6, <2>1 DEF TxFit, StillAllowed
<1>9. HeldOnce'
  BY <1>6 DEF EntInv, HeldOnce
<1>10. RolesNeedAdmin' /\ DutiesSeparated'
  BY <1>4, <1>5 DEF EntInv, RolesNeedAdmin, DutiesSeparated
<1>11. SuperAdminRemains'
  <2>1. tier'[tx[t].actor] = "admin" /\ "super_admin" \in roles'[tx[t].actor]
    BY <1>1, <1>2, <1>5 DEF StillAllowed
  <2> QED
    BY <1>2, <2>1 DEF SuperAdminRemains
<1> QED
  BY <1>7, <1>8, <1>9, <1>10, <1>11 DEF EntInv

(* A tier that ends or begins by itself is no admin's. *)
LEMMA TierHolds ==
  ASSUME EntInv, NEW u \in Users, Expire(u) \/ Bootstrap(u)
  PROVE  EntInv'
<1>1. /\ roles' = roles /\ tx' = tx /\ tier[u] # "admin"
      /\ \E new \in Tiers \cup {NULL} : tier' = [tier EXCEPT ![u] = new]
  BY DEF Expire, Bootstrap
<1>2. \A v \in Users : tier[v] = "admin" => tier'[v] = "admin"
  BY <1>1 DEF EntInv, TypeOK
<1>3. TypeOK'
  BY <1>1 DEF EntInv, TypeOK
<1>4. TxFit'
  <2>1. ASSUME NEW s \in Sessions, tx[s] # NULL PROVE StillAllowed(s)'
    <3>1. StillAllowed(s) /\ tx[s].actor \in Users /\ tx[s].subject \in Users
      BY <2>1, TxFields DEF EntInv, TxFit
    <3>2. Permitted(tx[s].subject, tx[s].command)'
      BY <1>1, <1>2, <2>1, <3>1 DEF StillAllowed, Permitted
    <3> QED
      BY <1>1, <1>2, <2>1, <3>1, <3>2 DEF StillAllowed
  <2> QED
    BY <1>1, <2>1 DEF TxFit, StillAllowed
<1>5. HeldOnce' /\ RolesNeedAdmin' /\ DutiesSeparated' /\ SuperAdminRemains'
  BY <1>1, <1>2 DEF EntInv, HeldOnce, RolesNeedAdmin, DutiesSeparated, SuperAdminRemains
<1> QED
  BY <1>3, <1>4, <1>5 DEF EntInv

LEMMA StepHolds == EntInv /\ [Next]_vars => EntInv'
<1> SUFFICES ASSUME EntInv, [Next]_vars PROVE EntInv'
  OBVIOUS
<1>1. ASSUME NEW t \in Sessions, Abort(t) PROVE EntInv'
  BY <1>1, EndHolds DEF Abort
<1>2. CASE UNCHANGED vars
  BY <1>2 DEF vars, EntInv, TypeOK, TxFit, HeldOnce, StillAllowed, Permitted, RolesNeedAdmin,
              DutiesSeparated, SuperAdminRemains
<1> QED
  BY <1>1, <1>2, BeginHolds, CountHolds, CommitHolds, TierHolds DEF Next

LEMMA InvHolds == Spec => []EntInv
  BY InitHolds, StepHolds, PTL DEF Spec

(* The last auditor loses the role by a change of tier only. *)
LEMMA AuditStep ==
  ASSUME EntInv, [Next]_vars,
         Holding("security_audit") # {}, Holding("security_audit")' = {}
  PROVE  tier' # tier
<1>1. SUFFICES ASSUME tier' = tier PROVE FALSE
  OBVIOUS
<1>2. PICK auditor \in Users : "security_audit" \in roles[auditor]
  BY DEF Holding
<1>3. \A v \in Users : "security_audit" \notin roles'[v]
  BY DEF Holding
<1>4. roles' # roles
  BY <1>2, <1>3
<1>5. PICK t \in Sessions : Commit(t)
  BY <1>4 DEF Next, vars, Begin, CountAuditors, Abort, Expire, Bootstrap
<1>6. PICK u \in Users, command \in Command :
        /\ tx[t] # NULL /\ u = tx[t].subject /\ command = tx[t].command
        /\ TakesAudit(t) => tx[t].step = "counted"
        /\ tier' = [tier EXCEPT ![u] = TierAfter(u, command)]
        /\ roles' = [roles EXCEPT ![u] = RolesAfter(u, command)]
  BY <1>5, TxFields DEF EntInv, Commit
<1>7. /\ roles'[u] = RolesAfter(u, command) /\ tier'[u] = TierAfter(u, command)
      /\ \A v \in Users : v # u => roles'[v] = roles[v]
  BY <1>6 DEF EntInv, TypeOK
<1>8. auditor = u
  BY <1>2, <1>3, <1>7
<1>9. tier[u] = "admin"
  BY <1>2, <1>8 DEF EntInv, RolesNeedAdmin
<1>10. command = [action |-> "revoke", kind |-> "role", value |-> "security_audit"]
  <2>1. command.kind = "role"
    BY <1>1, <1>2, <1>3, <1>7, <1>8, <1>9, CommandFields DEF RolesAfter
  <2>2. command.action = "revoke"
    BY <1>2, <1>3, <1>7, <1>8, <2>1, CommandFields DEF RolesAfter
  <2>3. command.value = "security_audit"
    BY <1>2, <1>3, <1>7, <1>8, <2>1, <2>2 DEF RolesAfter
  <2> QED
    BY <2>1, <2>2, <2>3 DEF Command
<1>11. tx[t].step = "counted"
  BY <1>2, <1>6, <1>8, <1>10 DEF TakesAudit
<1>12. PICK other \in Users : other # u /\ "security_audit" \in roles[other]
  BY <1>6, <1>11, TxFields DEF EntInv, TxFit, StillAllowed
<1> QED
  BY <1>3, <1>7, <1>12

-----------------------------------------------------------------------------
(* Each step is one step of AtomicGrants, or none at all. *)

LEMMA CommitIsGoverning ==
  ASSUME EntInv, NEW t \in Sessions, Commit(t)
  PROVE  Atomic!Granting \/ UNCHANGED Atomic!grants
<1>1. PICK u \in Users, command \in Command :
        /\ tx[t] # NULL /\ u = tx[t].subject /\ command = tx[t].command
        /\ TakesAudit(t) => tx[t].step = "counted"
        /\ tier' = [tier EXCEPT ![u] = TierAfter(u, command)]
        /\ roles' = [roles EXCEPT ![u] = RolesAfter(u, command)]
  BY TxFields DEF EntInv, Commit
<1>2. /\ StillAllowed(t) /\ tx[t].actor \in Users /\ tx[t].actor # u
      /\ tx[t].holds \in SUBSET Users
      /\ tier \in [Users -> Tiers \cup {NULL}] /\ roles \in [Users -> SUBSET Roles]
  BY <1>1, TxFields DEF EntInv, TxFit, TypeOK
<1>3. \E actor \in Users : Atomic!MayGovern(actor, u)
  BY <1>1, <1>2 DEF StillAllowed, Atomic!MayGovern
<1>4. CASE command.kind = "tier"
  <2>1. TierAfter(u, command) \in Tiers \cup {NULL}
    BY <1>1, <1>2, AfterFits DEF StillAllowed
  <2>2. Atomic!ChangeTier(u, TierAfter(u, command))
    BY <1>1, <1>4 DEF Atomic!ChangeTier, RolesAfter
  <2> QED
    BY <1>3, <2>1, <2>2 DEF Atomic!Granting, Atomic!Govern
<1>5. CASE command.kind = "role" /\ command.action = "grant"
  <2>1. command.value \in Roles /\ tier' = tier
    BY <1>1, <1>2, <1>5, CommandFields DEF TierAfter
  <2>2. Permitted(u, command)
    BY <1>1, <1>2 DEF StillAllowed
  <2>3. roles' = [roles EXCEPT ![u] = roles[u] \cup {command.value}]
    BY <1>1, <1>5 DEF RolesAfter
  <2>4. Atomic!AddRole(u, command.value)
    BY <1>5, <2>1, <2>2, <2>3
       DEF Atomic!AddRole, Permitted, Atomic!Exclusive, PROHIBITED_ROLE_PAIRS
  <2> QED
    BY <1>3, <2>1, <2>4 DEF Atomic!Granting, Atomic!Govern
<1>6. CASE command.kind = "role" /\ command.action = "revoke"
  <2>1. command.value \in Roles /\ tier' = tier
    BY <1>1, <1>2, <1>6, CommandFields DEF TierAfter
  <2>2. roles' = [roles EXCEPT ![u] = roles[u] \ {command.value}]
    BY <1>1, <1>6 DEF RolesAfter
  <2>3. CASE command.value = "security_audit" /\ "security_audit" \notin roles[u]
    <3>1. roles' = roles
      BY <1>2, <2>2, <2>3
    <3> QED
      BY <2>1, <3>1 DEF Atomic!grants
  <2>4. CASE command.value = "security_audit" => "security_audit" \in roles[u]
    <3>1. ASSUME command.value = "security_audit"
          PROVE  \E other \in Users : other # u /\ command.value \in roles[other]
      <4>1. command = [action |-> "revoke", kind |-> "role", value |-> "security_audit"]
        BY <1>6, <3>1 DEF Command
      <4>2. tx[t].step = "counted"
        BY <1>1, <2>4, <3>1, <4>1 DEF TakesAudit
      <4> QED
        BY <1>1, <1>2, <3>1, <4>2 DEF StillAllowed
    <3>2. Atomic!DropRole(u, command.value)
      BY <2>1, <2>2, <3>1 DEF Atomic!DropRole
    <3> QED
      BY <1>3, <2>1, <3>2 DEF Atomic!Granting, Atomic!Govern
  <2> QED
    BY <2>3, <2>4
<1> QED
  BY <1>4, <1>5, <1>6, CommandFields

LEMMA GrantStep ==
  ASSUME EntInv, [Next]_vars
  PROVE  Atomic!Granting \/ UNCHANGED Atomic!grants
<1>1. CASE UNCHANGED <<tier, roles>>
  BY <1>1 DEF Atomic!grants
<1>2. ASSUME NEW u \in Users, Expire(u) \/ Bootstrap(u) PROVE Atomic!Granting
  <2>1. roles[u] = {} /\ roles \in [Users -> SUBSET Roles]
    BY <1>2 DEF Expire, Bootstrap, EntInv, RolesNeedAdmin, TypeOK
  <2>2. roles' = [roles EXCEPT ![u] = {}]
    BY <1>2, <2>1 DEF Expire, Bootstrap
  <2> QED
    BY <1>2, <2>2 DEF Expire, Bootstrap, Atomic!Granting, Atomic!Lapse, Atomic!Welcome,
                      Atomic!ChangeTier
<1> QED
  BY <1>1, <1>2, CommitIsGoverning DEF Next, vars, Begin, CountAuditors, Abort

-----------------------------------------------------------------------------
(* Theorems. *)

(* Every reachable state is well typed, and no open command is its actor's own. *)
THEOREM EntitlementsTyped == Spec => []TypeOK
  BY InvHolds, PTL DEF EntInv

(* Super-admins can never take the last one's role or tier, however many commands run
   side by side. *)
THEOREM SuperAdminAlwaysRemains == Spec => []SuperAdminRemains
  BY InvHolds, PTL DEF EntInv

(* Whoever holds an administrative role is an admin. *)
THEOREM RolesAreAdmins == Spec => []RolesNeedAdmin
  BY InvHolds, PTL DEF EntInv

(* Roles that exclude each other are never held together. *)
THEOREM DutiesStaySeparated == Spec => []DutiesSeparated
  BY InvHolds, PTL DEF EntInv

(* Commands that revoke roles leave an auditor, for any number of them at once. *)
THEOREM AuditRoleAlwaysKept == Spec => AuditRoleIsKept
<1>1. EntInv /\ [Next]_vars =>
        [Holding("security_audit") # {} /\ Holding("security_audit")' = {} => tier' # tier]_vars
  BY AuditStep
<1> QED
  BY <1>1, InvHolds, PTL DEF Spec, AuditRoleIsKept

(* Commands that overlap take effect as if each were decided and done in one step, for
   any number of users and of transactions at once. *)
THEOREM GrantsAreAtomic == Spec => KeepsGrantPromise
<1>1. Init => Atomic!Founded
  <2> SUFFICES ASSUME Init PROVE Atomic!Founded
    OBVIOUS
  <2>1. PICK super, auditor \in Users :
          /\ super # auditor
          /\ tier = [u \in Users |-> IF u \in {super, auditor} THEN "admin" ELSE NULL]
          /\ roles = [u \in Users |-> CASE u = super -> {"super_admin"}
                                        [] u = auditor -> {"security_audit"}
                                        [] OTHER -> {}]
    BY DEF Init
  <2>2. roles = [u \in Users |-> IF u = super THEN {"super_admin"}
                                 ELSE IF u = auditor THEN {"security_audit"} ELSE {}]
    BY <2>1
  <2> QED
    BY <2>1, <2>2 DEF Atomic!Founded
<1>2. EntInv /\ [Next]_vars => [Atomic!Granting]_(Atomic!grants)
  BY GrantStep
<1> QED
  BY <1>1, <1>2, InvHolds, PTL DEF Spec, KeepsGrantPromise, Atomic!Promise
=============================================================================
