------------------------ MODULE QuotaAdmissionProofs ------------------------
(* What holds of admissions for any limits, window, users, keys and length of time. *)
EXTENDS QuotaAdmission, FiniteSetTheorems, WellFoundedInduction, TLAPS

USE QuotaAssumption

-----------------------------------------------------------------------------
(* A set of numbers has a least one, and a finite one a largest one. *)

LEMMA LeastOf ==
  ASSUME NEW S \in SUBSET Nat, S # {}
  PROVE  \E least \in S : \A s \in S : least <= s
<1> DEFINE R == OpToRel(<, Nat)
<1>1. IsWellFoundedOn(R, Nat)
  BY NatLessThanWellFounded
<1> HIDE DEF R
<1>2. PICK least \in S : \A s \in S : ~(<<s, least>> \in R)
  BY <1>1, WFMin
<1>3. \A s \in S : ~(s < least)
  BY <1>2 DEF R, OpToRel
<1> QED
  BY <1>3

LEMMA LargestOf ==
  ASSUME NEW n \in Nat, NEW S \in SUBSET (1 .. n), S # {}
  PROVE  \E largest \in S : \A s \in S : s <= largest
<1> DEFINE T == {m \in Nat : \A s \in S : s <= m}
<1>1. T \in SUBSET Nat /\ n \in T
  OBVIOUS
<1>2. PICK m \in T : \A t \in T : m <= t
  BY <1>1, LeastOf
<1>3. m \in S
  <2>1. SUFFICES ASSUME m \notin S PROVE FALSE
    OBVIOUS
  <2>2. m \in Nat /\ \A s \in S : s \in Nat /\ 1 <= s /\ s <= m
    BY DEF T
  <2>3. \A s \in S : s # m
    BY <2>1
  <2>4. m >= 1 /\ \A s \in S : s <= m - 1
    <3>1. PICK any \in S : TRUE
      OBVIOUS
    <3>2. m >= 1
      BY <2>2, <3>1
    <3>3. ASSUME NEW s \in S PROVE s <= m - 1
      <4>1. s \in Nat /\ s <= m /\ s # m /\ m \in Nat
        BY <2>2, <2>3
      <4> QED
        BY <4>1
    <3> QED
      BY <3>2, <3>3
  <2>5. m - 1 \in T
    BY <2>4
  <2> QED
    BY <1>2, <2>5
<1> QED
  BY <1>2, <1>3

-----------------------------------------------------------------------------
(* The charges that are not compensated, from a moment on. *)
Since(t) == {r \in Runs : ledger[r].returned = 0 /\ t <= ledger[r].at}

(* Runs are admitted in the order of the clock. *)
Ordered ==
  \A r \in Runs : ledger[r].at <= now /\ \A s \in r .. Len(ledger) : ledger[r].at <= ledger[s].at

(* A refusal with an exactly full window: all that fills it was charged since the moment
   that leaves the window when the refusal says, and less than that after it. *)
RefusalHolds ==
  denial # NULL /\ denial.used = denial.limit =>
    /\ Cardinality(Since(denial.next - Window + 1)) < denial.limit
    /\ denial.fresh => Cardinality(Since(denial.next - Window)) >= denial.limit

QuotaInv == TypeOK /\ Ordered /\ WithinQuota /\ AnswersAgree /\ RefusalHolds

-----------------------------------------------------------------------------
(* The rows of the ledger. *)

Rows(charges) ==
  \A r \in 1 .. Len(charges) :
    /\ charges[r] \in Charge
    /\ charges[r].at \in Nat /\ charges[r].tier \in Tiers /\ charges[r].returned \in 0 .. 1

LEMMA LedgerRows ==
  ASSUME ledger \in Seq(Charge)
  PROVE  Len(ledger) \in Nat /\ Runs = 1 .. Len(ledger) /\ Rows(ledger)
<1>1. Len(ledger) \in Nat /\ Runs = 1 .. Len(ledger)
  BY DEF Runs
<1>2. \A r \in 1 .. Len(ledger) : ledger[r] \in Charge
  OBVIOUS
<1>3. \A c \in Charge : c.at \in Nat /\ c.tier \in Tiers /\ c.returned \in 0 .. 1
  BY DEF Charge
<1> QED
  BY <1>1, <1>2, <1>3 DEF Rows

LEMMA SetsAreFinite ==
  ASSUME ledger \in Seq(Charge)
  PROVE  /\ IsFiniteSet(Runs) /\ IsFiniteSet(Counted)
         /\ Cardinality(Counted) \in Nat
         /\ \A t : IsFiniteSet(Since(t)) /\ Cardinality(Since(t)) \in Nat
         /\ \A r \in Runs : IsFiniteSet(Before(r)) /\ Cardinality(Before(r)) \in Nat
<1>1. IsFiniteSet(Runs)
  BY LedgerRows, FS_Interval
<1>2. /\ Counted \in SUBSET Runs
      /\ \A t : Since(t) \in SUBSET Runs
      /\ \A r \in Runs : Before(r) \in SUBSET Runs
  BY LedgerRows DEF Counted, Since, Before
<1>3. ASSUME NEW S \in SUBSET Runs
      PROVE  IsFiniteSet(S) /\ Cardinality(S) \in Nat
  BY <1>1, FS_Subset, FS_CardinalityType
<1> QED
  BY <1>1, <1>2, <1>3

LEMMA AdmitRows ==
  ASSUME TypeOK, NEW u \in Users, NEW k \in Keys, NEW q \in Requests, Admit(u, k, q)
  PROVE  /\ Len(ledger') = Len(ledger) + 1
         /\ Runs' = 1 .. Len(ledger) + 1
         /\ \A r \in Runs : ledger'[r] = ledger[r]
         /\ ledger'[Len(ledger) + 1] = [user |-> u, key |-> k, request |-> q, at |-> now,
                                        tier |-> tier[u], returned |-> 0]
         /\ tier[u] \in Tiers
         /\ ledger' \in Seq(Charge)
<1> DEFINE new == [user |-> u, key |-> k, request |-> q, at |-> now, tier |-> tier[u],
                   returned |-> 0]
<1>1. tier[u] \in Tiers /\ now \in Nat
  BY DEF Admit, TypeOK
<1>2. new \in Charge
  BY <1>1 DEF Charge
<1>3. ledger \in Seq(Charge) /\ ledger' = Append(ledger, new)
  BY DEF Admit, TypeOK
<1> HIDE DEF new
<1>4. /\ Len(ledger') = Len(ledger) + 1 /\ ledger' \in Seq(Charge)
      /\ \A r \in 1 .. Len(ledger) : ledger'[r] = ledger[r]
      /\ ledger'[Len(ledger) + 1] = new
  BY <1>2, <1>3
<1>5. Runs' = 1 .. Len(ledger) + 1 /\ Runs = 1 .. Len(ledger)
  BY <1>3, <1>4 DEF Runs
<1> QED
  BY <1>1, <1>4, <1>5 DEF new

LEMMA CompensateRows ==
  ASSUME TypeOK, NEW r \in Runs, Compensate(r)
  PROVE  /\ ledger' \in Seq(Charge) /\ Len(ledger') = Len(ledger) /\ Runs' = Runs
         /\ \A s \in Runs :
              /\ ledger'[s].user = ledger[s].user /\ ledger'[s].key = ledger[s].key
              /\ ledger'[s].request = ledger[s].request
              /\ ledger'[s].at = ledger[s].at /\ ledger'[s].tier = ledger[s].tier
              /\ ledger'[s].returned = IF s = r THEN 1 ELSE ledger[s].returned
<1>1. ledger \in Seq(Charge) /\ ledger[r].returned = 0
  BY DEF TypeOK, Compensate
<1>2. ledger' = [ledger EXCEPT ![r] = [ledger[r] EXCEPT !.returned = 1]]
  BY <1>1 DEF Compensate
<1>3. Len(ledger) \in Nat /\ Runs = 1 .. Len(ledger) /\ ledger[r] \in Charge
  BY <1>1, LedgerRows DEF Rows
<1>4. [ledger[r] EXCEPT !.returned = 1] \in Charge
  BY <1>3 DEF Charge
<1>5. ledger' \in Seq(Charge) /\ Len(ledger') = Len(ledger)
  BY <1>1, <1>2, <1>3, <1>4
<1>6. Runs' = Runs
  BY <1>1, <1>5 DEF Runs
<1>7. \A s \in Runs : ledger[s] \in Charge
  BY <1>1, LedgerRows DEF Rows
<1>8. \A s \in Runs : ledger'[s] = IF s = r THEN [ledger[r] EXCEPT !.returned = 1] ELSE ledger[s]
  BY <1>1, <1>2, <1>3
<1> QED
  BY <1>5, <1>6, <1>7, <1>8 DEF Charge

-----------------------------------------------------------------------------
(* The invariant is inductive. *)

LEMMA InitHolds == Init => QuotaInv
<1> SUFFICES ASSUME Init PROVE QuotaInv
  OBVIOUS
<1>1. ledger \in Seq(Charge) /\ Runs = {}
  BY DEF Init, Runs
<1> QED
  BY <1>1 DEF Init, QuotaInv, TypeOK, Ordered, WithinQuota, AnswersAgree, RefusalHolds

(* An admission: the new run is the last of the ledger and shares its window with what
   was counted. *)
LEMMA AdmitHolds ==
  ASSUME QuotaInv, NEW u \in Users, NEW k \in Keys, NEW q \in Requests, Admit(u, k, q)
  PROVE  QuotaInv'
<1> USE DEF QuotaInv
<1>1. /\ ledger \in Seq(Charge) /\ now \in Nat /\ now' = now /\ tier' = tier
      /\ denial' = NULL
  BY DEF Admit, TypeOK
<1>0. PICK new \in Nat : new = Len(ledger) + 1
  BY <1>1, LedgerRows
<1>2. Len(ledger) \in Nat /\ Runs = 1 .. Len(ledger) /\ Rows(ledger)
  BY <1>1, LedgerRows
<1>3. /\ Len(ledger') = new /\ Runs' = 1 .. new /\ ledger' \in Seq(Charge)
      /\ \A r \in Runs : ledger'[r] = ledger[r]
      /\ ledger'[new].user = u /\ ledger'[new].key = k /\ ledger'[new].request = q
      /\ ledger'[new].at = now /\ ledger'[new].tier = tier[u] /\ ledger'[new].returned = 0
      /\ tier[u] \in Tiers
  <2>1. TypeOK
    OBVIOUS
  <2>2. /\ Len(ledger') = new /\ Runs' = 1 .. new /\ ledger' \in Seq(Charge)
        /\ \A r \in Runs : ledger'[r] = ledger[r]
        /\ ledger'[new] = [user |-> u, key |-> k, request |-> q, at |-> now,
                           tier |-> tier[u], returned |-> 0]
        /\ tier[u] \in Tiers
    BY <1>0, <2>1, AdmitRows
  <2> HIDE DEF QuotaInv
  <2> QED
    BY <2>2
<1>4. TypeOK'
  <2>1. \/ answer' = answer
        \/ answer' = [user |-> u, key |-> k, request |-> q, run |-> new]
    BY <1>0 DEF Admit, Answer
  <2>2. answer' # NULL => answer' \in Named /\ answer'.run \in Runs'
    BY <1>0, <1>2, <1>3, <2>1 DEF Named, TypeOK
  <2> QED
    BY <1>1, <1>3, <2>2 DEF TypeOK
<1>5. Ordered'
  <2>1. ASSUME NEW r \in Runs', NEW s \in r .. new
        PROVE  ledger'[r].at <= now /\ ledger'[r].at <= ledger'[s].at
    BY <1>0, <1>1, <1>2, <1>3, <2>1 DEF Ordered, Rows
  <2>2. \A r \in Runs' : ledger'[r].at <= now
    BY <1>0, <1>1, <1>2, <1>3 DEF Ordered
  <2> QED
    BY <1>1, <1>3, <2>1, <2>2 DEF Ordered
<1>6. WithinQuota'
  <2>1. ASSUME NEW r \in Runs PROVE Cardinality(Before(r)') <= Limit[ledger'[r].tier]
    <3>1. Before(r)' = Before(r)
      BY <1>0, <1>2, <1>3 DEF Before
    <3> QED
      BY <1>3, <3>1 DEF WithinQuota
  <2>2. Before(new)' = Counted \cup {new}
    <3>1. \A s \in Runs : /\ ledger[s].at \in Nat /\ ledger[s].at <= now
                        /\ ledger'[s] = ledger[s]
      BY <1>0, <1>2, <1>3 DEF Ordered, Rows
    <3>2. 1 .. new = Runs \cup {new} /\ new \notin Runs
      BY <1>0, <1>2
    <3>3. now - Window < now
      BY <1>1
    <3> HIDE DEF QuotaInv
    <3> QED
      BY <1>3, <3>1, <3>2, <3>3 DEF Before, Counted
  <2>3. new \notin Counted
    BY <1>0, <1>2 DEF Counted
  <2>4. Cardinality(Before(new)') = Cardinality(Counted) + 1
    BY <1>1, <2>2, <2>3, SetsAreFinite, FS_AddElement
  <2>5. Cardinality(Counted) < Limit[tier[u]]
    BY DEF Admit, Used
  <2>6. Cardinality(Before(new)') <= Limit[ledger'[new].tier]
    BY <1>1, <1>3, <2>4, <2>5, SetsAreFinite
  <2>7. \A r \in Runs' : r \in Runs \/ r = new
    BY <1>0, <1>2, <1>3
  <2> QED
    BY <2>1, <2>6, <2>7 DEF WithinQuota, Before
<1>7. AnswersAgree'
  <2>1. \A r \in Runs : ledger[r].user # u \/ ledger[r].key # k
    BY DEF Admit, Unused
  <2>2. \A r, s \in Runs' :
          ledger'[r].user = ledger'[s].user /\ ledger'[r].key = ledger'[s].key => r = s
    <3>1. \A r \in Runs' : r \in Runs \/ r = new
      BY <1>0, <1>2, <1>3
    <3> QED
      BY <1>3, <2>1, <3>1 DEF AnswersAgree
  <2>3. CASE answer' = answer
    BY <1>3, <2>2, <2>3 DEF AnswersAgree, TypeOK
  <2>4. CASE answer' = [user |-> u, key |-> k, request |-> q, run |-> new]
    BY <1>3, <2>2, <2>4 DEF AnswersAgree
  <2> QED
    BY <1>0, <2>3, <2>4 DEF Admit, Answer
<1>8. RefusalHolds'
  BY <1>1 DEF RefusalHolds
<1> QED
  BY <1>4, <1>5, <1>6, <1>7, <1>8

(* A refusal: the oldest charge counted is the first to leave the window. *)
LEMMA DenyHolds ==
  ASSUME QuotaInv, NEW u \in Users, NEW k \in Keys, Deny(u, k)
  PROVE  QuotaInv'
<1> USE DEF QuotaInv
<1>1. /\ ledger \in Seq(Charge) /\ now \in Nat /\ ledger' = ledger /\ now' = now
      /\ tier' = tier /\ answer' = answer /\ Runs' = Runs
  BY DEF Deny, TypeOK, Runs
<1>2. Len(ledger) \in Nat /\ Runs = 1 .. Len(ledger) /\ Rows(ledger)
  BY <1>1, LedgerRows
<1>3. tier[u] \in Tiers /\ Limit[tier[u]] \in Nat \ {0} /\ Cardinality(Counted) >= Limit[tier[u]]
  BY DEF Deny, Used, TypeOK
<1>4. Counted # {}
  BY <1>3, FS_EmptySet
<1>5. PICK first \in Counted : \A other \in Counted : first <= other
  <2>1. Counted \in SUBSET Nat
    BY <1>2 DEF Counted
  <2> QED
    BY <1>4, <2>1, LeastOf
<1>6. \A other \in Counted : ledger[first].at <= ledger[other].at
  BY <1>2, <1>5 DEF Counted, Ordered
<1>7. /\ Oldest \in Counted
      /\ \A other \in Counted : ledger[Oldest].at <= ledger[other].at
  BY <1>5, <1>6 DEF Oldest
<1> DEFINE start == ledger[Oldest].at
<1>8. start \in Nat /\ now - Window < start /\ start <= now
  BY <1>2, <1>7 DEF Counted, Rows
<1>9. denial' = [next |-> start + Window, used |-> Cardinality(Counted),
                 limit |-> Limit[tier[u]], fresh |-> TRUE]
  BY DEF Deny, Used
<1>10. Counted = Since(start)
  BY <1>1, <1>2, <1>7, <1>8 DEF Counted, Since, Ordered, Rows
<1>11. Cardinality(Since(start + 1)) < Cardinality(Counted)
  <2>1. Since(start + 1) \in SUBSET (Counted \ {Oldest})
    BY <1>2, <1>8, <1>10 DEF Since, Rows
  <2>2. /\ IsFiniteSet(Counted \ {Oldest})
        /\ Cardinality(Counted \ {Oldest}) = Cardinality(Counted) - 1
    BY <1>1, <1>7, SetsAreFinite, FS_RemoveElement
  <2>3. Cardinality(Since(start + 1)) <= Cardinality(Counted) - 1
    BY <2>1, <2>2, FS_Subset
  <2> QED
    BY <1>1, <2>3, SetsAreFinite
<1>12. \A t : Since(t)' = Since(t)
  BY <1>1 DEF Since
<1>13. RefusalHolds'
  <2>1. /\ denial'.next - Window = start /\ denial'.used = Cardinality(Counted)
        /\ denial'.limit = Limit[tier[u]] /\ denial'.fresh
    BY <1>8, <1>9
  <2>2. Cardinality(Counted) \in Nat
    BY <1>1, SetsAreFinite
  <2> HIDE DEF start
  <2>3. SUFFICES ASSUME denial'.used = denial'.limit
                 PROVE  /\ Cardinality(Since(start + 1)) < denial'.limit
                        /\ Cardinality(Since(start)) >= denial'.limit
    BY <1>12, <2>1 DEF RefusalHolds
  <2> QED
    BY <1>10, <1>11, <2>1, <2>2, <2>3
<1>14. TypeOK'
  <2>1. denial' \in Refusal
    BY <1>1, <1>3, <1>8, <1>9, SetsAreFinite DEF Refusal
  <2> QED
    BY <1>1, <2>1 DEF TypeOK
<1>15. Ordered' /\ WithinQuota' /\ AnswersAgree'
  BY <1>1 DEF Ordered, WithinQuota, AnswersAgree, Before, Runs
<1> QED
  BY <1>13, <1>14, <1>15

(* A compensation takes a charge out of every window. *)
LEMMA CompensateHolds ==
  ASSUME QuotaInv, NEW r \in Runs, Compensate(r)
  PROVE  QuotaInv'
<1> USE DEF QuotaInv
<1>1. /\ ledger \in Seq(Charge) /\ now \in Nat /\ now' = now /\ tier' = tier /\ answer' = answer
      /\ denial' = IF denial = NULL THEN NULL ELSE [denial EXCEPT !.fresh = FALSE]
  BY DEF Compensate, TypeOK
<1>2. Len(ledger) \in Nat /\ Runs = 1 .. Len(ledger) /\ Rows(ledger)
  BY <1>1, LedgerRows
<1>3. /\ ledger' \in Seq(Charge) /\ Len(ledger') = Len(ledger) /\ Runs' = Runs
      /\ \A s \in Runs :
           /\ ledger'[s].user = ledger[s].user /\ ledger'[s].key = ledger[s].key
           /\ ledger'[s].request = ledger[s].request
           /\ ledger'[s].at = ledger[s].at /\ ledger'[s].tier = ledger[s].tier
           /\ ledger'[s].returned = IF s = r THEN 1 ELSE ledger[s].returned
  BY CompensateRows
<1>4. TypeOK'
  <2>1. denial' # NULL => denial' \in Refusal
    BY <1>1 DEF TypeOK, Refusal
  <2> QED
    BY <1>1, <1>3, <2>1 DEF TypeOK
<1>5. Ordered'
  <2>1. ASSUME NEW s \in Runs', NEW later \in s .. Len(ledger')
        PROVE  ledger'[s].at <= now /\ ledger'[s].at <= ledger'[later].at
    <3>1. s \in Runs /\ later \in Runs /\ later \in s .. Len(ledger)
      BY <1>2, <1>3
    <3> QED
      BY <1>3, <3>1 DEF Ordered
  <2>2. \A s \in Runs' : ledger'[s].at <= now
    BY <1>3 DEF Ordered
  <2> QED
    BY <1>1, <2>1, <2>2 DEF Ordered
<1>6. WithinQuota'
  <2>1. ASSUME NEW s \in Runs PROVE Cardinality(Before(s)') <= Limit[ledger'[s].tier]
    <3>1. Before(s)' \in SUBSET Before(s)
      BY <1>2, <1>3 DEF Before
    <3>2. IsFiniteSet(Before(s)) /\ Cardinality(Before(s)) \in Nat
      BY <1>1, SetsAreFinite
    <3>3. IsFiniteSet(Before(s)') /\ Cardinality(Before(s)') <= Cardinality(Before(s))
      BY <3>1, <3>2, FS_Subset
    <3>4. Cardinality(Before(s)') \in Nat
      BY <3>3, FS_CardinalityType
    <3>5. Limit[ledger[s].tier] \in Nat /\ Cardinality(Before(s)) <= Limit[ledger[s].tier]
      BY <1>2 DEF WithinQuota, Rows
    <3> QED
      BY <1>3, <3>2, <3>3, <3>4, <3>5
  <2> QED
    BY <1>3, <2>1 DEF WithinQuota
<1>7. AnswersAgree'
  BY <1>1, <1>3 DEF AnswersAgree, TypeOK
<1>8. RefusalHolds'
  <2>1. SUFFICES ASSUME denial' # NULL, denial'.used = denial'.limit
                 PROVE  /\ Cardinality(Since(denial.next - Window + 1))' < denial'.limit
                        /\ denial'.fresh = FALSE
    BY DEF RefusalHolds
  <2>2. /\ denial # NULL /\ denial \in Refusal
        /\ denial'.used = denial.used /\ denial'.limit = denial.limit
        /\ denial'.next = denial.next /\ denial'.fresh = FALSE
    BY <1>1, <2>1 DEF TypeOK, Refusal
  <2>0. PICK t \in Int : t = denial.next - Window + 1
    BY <2>2 DEF Refusal
  <2>3. Since(t)' \in SUBSET Since(t)
    BY <1>2, <1>3, <2>2 DEF Since, Refusal
  <2>4. IsFiniteSet(Since(t)) /\ Cardinality(Since(t)) \in Nat
    BY <1>1, SetsAreFinite
  <2>5. Cardinality(Since(t)') <= Cardinality(Since(t)) /\ IsFiniteSet(Since(t)')
    BY <2>3, <2>4, FS_Subset
  <2>6. Cardinality(Since(t)') \in Nat
    BY <2>5, FS_CardinalityType
  <2>7. Cardinality(Since(t)) < denial.limit /\ denial.limit \in Nat
    BY <2>0, <2>1, <2>2 DEF RefusalHolds, Refusal
  <2>8. Cardinality(Since(t)') < denial'.limit
    BY <2>2, <2>4, <2>5, <2>6, <2>7
  <2> QED
    <3>1. Cardinality(Since(denial.next - Window + 1))' = Cardinality(Since(t)')
      BY <2>0, <2>2 DEF Since
    <3> QED
      BY <2>2, <2>8, <3>1
<1> QED
  BY <1>4, <1>5, <1>6, <1>7, <1>8

LEMMA StepHolds == QuotaInv /\ [Next]_vars => QuotaInv'
<1> SUFFICES ASSUME QuotaInv, [Next]_vars PROVE QuotaInv'
  OBVIOUS
<1>1. TypeOK
  BY DEF QuotaInv
<1>2. ASSUME ledger' = ledger, denial' \in {denial, NULL}, now' \in {now, now + 1}, TypeOK',
             AnswersAgree'
      PROVE  QuotaInv'
  <2>1. Runs' = Runs /\ Runs = 1 .. Len(ledger) /\ now \in Nat /\ Rows(ledger)
    BY <1>1, <1>2, LedgerRows DEF Runs, TypeOK
  <2>2. Ordered'
    <3>1. \A r \in Runs : ledger[r].at \in Nat /\ ledger[r].at <= now
      BY <2>1 DEF QuotaInv, Ordered, Rows
    <3>2. \A r \in Runs : ledger[r].at <= now'
      BY <1>2, <2>1, <3>1
    <3> QED
      BY <1>2, <2>1, <3>2 DEF QuotaInv, Ordered
  <2>3. WithinQuota'
    BY <1>2, <2>1 DEF QuotaInv, WithinQuota, Before
  <2>4. RefusalHolds'
    BY <1>2, <2>1 DEF QuotaInv, RefusalHolds, Since
  <2> QED
    BY <1>2, <2>2, <2>3, <2>4 DEF QuotaInv
<1>3. ASSUME NEW u \in Users, NEW k \in Keys, Submit(u, k)
      PROVE  QuotaInv'
  <2>1. ASSUME NEW q \in Requests, Replay(u, k, q)
        PROVE  QuotaInv'
    <3>1. /\ ledger' = ledger /\ denial' = denial /\ now' = now /\ tier' = tier
          /\ Runs' = Runs
      BY <2>1 DEF Replay, Runs
    <3>2. PICK r \in Runs : /\ ledger[r].user = u /\ ledger[r].key = k
                            /\ ledger[r].request = q
                            /\ answer' = [user |-> u, key |-> k, request |-> q, run |-> r]
      BY <2>1 DEF Replay, Recorded, Answer
    <3>3. r \in Nat
      BY <1>1, LedgerRows DEF TypeOK
    <3>4. TypeOK'
      BY <1>1, <3>1, <3>2, <3>3 DEF TypeOK, Named
    <3>5. AnswersAgree'
      BY <3>1, <3>2 DEF QuotaInv, AnswersAgree
    <3> QED
      BY <1>2, <3>1, <3>4, <3>5
  <2> QED
    BY <1>3, <2>1, AdmitHolds, DenyHolds DEF Submit
<1>4. ASSUME NEW u \in Users, NEW t \in Tiers \cup {NULL}, Entitle(u, t)
      PROVE  QuotaInv'
  <2>1. /\ ledger' = ledger /\ denial' = NULL /\ now' = now /\ answer' = answer
        /\ tier' \in [Users -> Tiers \cup {NULL}] /\ Runs' = Runs
    BY <1>1, <1>4 DEF Entitle, TypeOK, Runs
  <2>2. TypeOK' /\ AnswersAgree'
    BY <1>1, <2>1 DEF QuotaInv, TypeOK, AnswersAgree
  <2> QED
    BY <1>2, <2>1, <2>2
<1>5. ASSUME Tick \/ UNCHANGED vars
      PROVE  QuotaInv'
  <2>1. /\ ledger' = ledger /\ denial' = denial /\ now' \in {now, now + 1}
        /\ answer' = answer /\ tier' = tier /\ Runs' = Runs
    BY <1>5 DEF Tick, vars, Runs
  <2>2. TypeOK' /\ AnswersAgree'
    BY <1>1, <2>1 DEF QuotaInv, TypeOK, AnswersAgree
  <2> QED
    BY <1>2, <2>1, <2>2
<1> QED
  BY <1>3, <1>4, <1>5, CompensateHolds DEF Next

LEMMA InvHolds == Spec => []QuotaInv
  BY InitHolds, StepHolds, PTL DEF Spec

-----------------------------------------------------------------------------
(* Theorems. *)

(* Every reachable state is well typed: a charge is compensated at most once, and the
   answer a client heard names an admitted run. *)
THEOREM QuotaTypeCorrect == Spec => []TypeOK
  BY InvHolds, PTL DEF QuotaInv

(* No run was admitted beyond the limit its user had, for any limits, window and
   number of users, whatever is compensated, retried or changed since. *)
THEOREM QuotaAlwaysKept == Spec => []WithinQuota
  BY InvHolds, PTL DEF QuotaInv

(* One idempotency key admits one run, and what a client hears of it is that run. *)
THEOREM AnswersAlwaysAgree == Spec => []AnswersAgree
  BY InvHolds, PTL DEF QuotaInv

(* The last answer a client heard is of key k of user u and names run n. *)
Heard(u, k, n) == answer # NULL /\ answer.user = u /\ answer.key = k /\ answer.run = n

(* The run of a key, once it is admitted. *)
HasRun(u, k, n) == n \in Runs /\ ledger[n].user = u /\ ledger[n].key = k

LEMMA RunStays ==
  ASSUME QuotaInv, [Next]_vars, NEW u, NEW k, NEW n, HasRun(u, k, n)
  PROVE  HasRun(u, k, n)'
<1>0. /\ ledger \in Seq(Charge) /\ Len(ledger) \in Nat /\ Runs = 1 .. Len(ledger)
  BY LedgerRows DEF QuotaInv, TypeOK
<1>1. CASE ledger' = ledger
  BY <1>1 DEF HasRun, Runs
<1>2. ASSUME NEW v \in Users, NEW j \in Keys, NEW q \in Requests, Admit(v, j, q)
      PROVE  HasRun(u, k, n)'
  <2>1. PICK charge : ledger' = Append(ledger, charge)
    BY <1>2 DEF Admit
  <2>2. /\ DOMAIN ledger' = 1 .. Len(ledger) + 1
        /\ n \in 1 .. Len(ledger) + 1 /\ ledger'[n] = ledger[n]
    BY <1>0, <2>1 DEF HasRun
  <2> QED
    BY <2>2 DEF HasRun, Runs
<1>3. ASSUME NEW r \in Runs, Compensate(r) PROVE HasRun(u, k, n)'
  <2>1. ledger' = [ledger EXCEPT ![r].returned = ledger[r].returned + 1]
    BY <1>3 DEF Compensate
  <2>2. /\ DOMAIN ledger' = DOMAIN ledger
        /\ ledger[r] \in Charge
        /\ \A s \in Runs : s # r => ledger'[s] = ledger[s]
        /\ ledger'[r] = [ledger[r] EXCEPT !.returned = ledger[r].returned + 1]
    BY <1>0, <1>3, <2>1 DEF Runs
  <2>3. ledger'[r].user = ledger[r].user /\ ledger'[r].key = ledger[r].key
    BY <2>2 DEF Charge
  <2> QED
    BY <2>2, <2>3 DEF HasRun, Runs
<1>4. ASSUME NEW v \in Users, NEW j \in Keys, Deny(v, j) \/ \E q \in Requests : Replay(v, j, q)
      PROVE  ledger' = ledger
  BY <1>4 DEF Deny, Replay
<1>5. ASSUME NEW v \in Users, NEW t \in Tiers \cup {NULL}, Entitle(v, t) PROVE ledger' = ledger
  BY <1>5 DEF Entitle
<1>6. ASSUME Tick \/ UNCHANGED vars PROVE ledger' = ledger
  BY <1>6 DEF Tick, vars
<1> QED
  BY <1>1, <1>2, <1>3, <1>4, <1>5, <1>6 DEF Next, Submit

(* However far apart two tries are, across an expired record, a compensated charge and
   a change of tier: what a client has heard of a key is all it will ever hear of it. *)
THEOREM RetriesHearOneRun ==
  ASSUME NEW u \in Users, NEW k \in Keys, NEW n \in Nat
  PROVE  Spec => [](Heard(u, k, n) => [](\A m \in Nat : Heard(u, k, m) => m = n))
<1> DEFINE Same == \A m \in Nat : Heard(u, k, m) => m = n
<1>1. QuotaInv /\ Heard(u, k, n) => HasRun(u, k, n)
  BY DEF QuotaInv, TypeOK, AnswersAgree, Heard, HasRun
<1>2. QuotaInv /\ HasRun(u, k, n) => Same
  BY DEF QuotaInv, TypeOK, AnswersAgree, Heard, HasRun
<1>3. QuotaInv /\ HasRun(u, k, n) /\ [Next]_vars => HasRun(u, k, n)'
  BY RunStays
<1> HIDE DEF Same
<1>4. Spec => [](Heard(u, k, n) => []Same)
  BY <1>1, <1>2, <1>3, InvHolds, PTL DEF Spec
<1> QED
  BY <1>4 DEF Same

(* All charges not compensated within one window that ends at any moment t. *)
InWindow(t) ==
  {r \in Runs : ledger[r].returned = 0 /\ t - Window < ledger[r].at /\ ledger[r].at <= t}

(* The account spends at most the highest limit in any window, wherever it is laid: not
   only in those that end with an admission. *)
THEOREM NoWindowOverfull ==
  ASSUME NEW most \in Nat, \A t \in Tiers : Limit[t] <= most
  PROVE  Spec => [](\A t \in Nat : Cardinality(InWindow(t)) <= most)
<1>1. ASSUME QuotaInv, NEW t \in Nat PROVE Cardinality(InWindow(t)) <= most
  <2>1. /\ ledger \in Seq(Charge) /\ Len(ledger) \in Nat /\ Runs = 1 .. Len(ledger)
        /\ Rows(ledger)
    BY <1>1, LedgerRows DEF QuotaInv, TypeOK
  <2>2. CASE InWindow(t) = {}
    BY <2>2, FS_EmptySet
  <2>3. CASE InWindow(t) # {}
    <3>1. InWindow(t) \in SUBSET (1 .. Len(ledger))
      BY <2>1 DEF InWindow
    <3>2. PICK last \in InWindow(t) : \A r \in InWindow(t) : r <= last
      BY <2>1, <2>3, <3>1, LargestOf
    <3>3. last \in Runs /\ ledger[last].at <= t /\ last \in Nat
      BY <2>1, <3>2 DEF InWindow
    <3>4. InWindow(t) \in SUBSET Before(last)
      <4>1. ASSUME NEW r \in InWindow(t) PROVE r \in Before(last)
        <5>1. /\ r \in Runs /\ r <= last /\ r \in Nat /\ 1 <= r
              /\ ledger[r].returned = 0 /\ t - Window < ledger[r].at
          BY <2>1, <3>2 DEF InWindow
        <5>2. ledger[last].at \in Nat /\ ledger[r].at \in Nat
          BY <2>1, <3>3, <5>1 DEF Rows
        <5>3. ledger[last].at - Window < ledger[r].at
          BY <3>3, <5>1, <5>2
        <5> QED
          BY <3>3, <5>1, <5>3 DEF Before
      <4> QED
        BY <4>1
    <3>5. IsFiniteSet(Before(last)) /\ Cardinality(Before(last)) \in Nat
      BY <2>1, <3>3, SetsAreFinite
    <3>6. /\ IsFiniteSet(InWindow(t))
          /\ Cardinality(InWindow(t)) <= Cardinality(Before(last))
      BY <3>4, <3>5, FS_Subset
    <3>7. Cardinality(InWindow(t)) \in Nat
      BY <3>6, FS_CardinalityType
    <3>8. /\ ledger[last].tier \in Tiers
          /\ Cardinality(Before(last)) <= Limit[ledger[last].tier]
      BY <1>1, <2>1, <3>3 DEF QuotaInv, WithinQuota, Rows
    <3>9. Limit[ledger[last].tier] \in Nat /\ Limit[ledger[last].tier] <= most
      BY <3>8
    <3> QED
      BY <3>5, <3>6, <3>7, <3>8, <3>9
  <2> QED
    BY <2>2, <2>3
<1>2. QuotaInv => \A t \in Nat : Cardinality(InWindow(t)) <= most
  BY <1>1
<1> QED
  BY <1>2, InvHolds, PTL

(* A refusal with an exactly full window names the moment it has room again. *)
THEOREM RefusalsNameTheMoment == Spec => []NextCapacityIsTrue
<1>1. ASSUME QuotaInv, denial # NULL, denial.used = denial.limit
      PROVE  /\ now >= denial.next => Used < denial.limit
             /\ now < denial.next /\ denial.fresh => Used >= denial.limit
  <2>1. /\ ledger \in Seq(Charge) /\ Runs = 1 .. Len(ledger) /\ Rows(ledger) /\ now \in Nat
        /\ denial \in Refusal
    BY <1>1, LedgerRows DEF QuotaInv, TypeOK
  <2>2. /\ Cardinality(Since(denial.next - Window + 1)) < denial.limit
        /\ denial.fresh => Cardinality(Since(denial.next - Window)) >= denial.limit
    BY <1>1 DEF QuotaInv, RefusalHolds
  <2>3. denial.next \in Nat /\ denial.limit \in Nat
    BY <2>1 DEF Refusal
  <2>4. \A r \in Runs : ledger[r].at \in Nat /\ ledger[r].at <= now
    BY <1>1, <2>1 DEF QuotaInv, Ordered, Rows
  <2>5. IsFiniteSet(Counted) /\ Cardinality(Counted) \in Nat
    BY <2>1, SetsAreFinite
  <2>6. ASSUME now >= denial.next PROVE Used < denial.limit
    <3>1. Counted \in SUBSET Since(denial.next - Window + 1)
      BY <2>1, <2>3, <2>4, <2>6 DEF Counted, Since
    <3>2. /\ IsFiniteSet(Since(denial.next - Window + 1))
          /\ Cardinality(Since(denial.next - Window + 1)) \in Nat
      BY <2>1, SetsAreFinite
    <3>3. Cardinality(Counted) <= Cardinality(Since(denial.next - Window + 1))
      BY <3>1, <3>2, FS_Subset
    <3> QED
      BY <2>2, <2>3, <2>5, <3>2, <3>3 DEF Used
  <2>7. ASSUME now < denial.next, denial.fresh PROVE Used >= denial.limit
    <3>1. Since(denial.next - Window) \in SUBSET Counted
      BY <2>1, <2>3, <2>4, <2>7 DEF Counted, Since
    <3>2. Cardinality(Since(denial.next - Window)) <= Cardinality(Counted)
      BY <2>5, <3>1, FS_Subset
    <3>3. Cardinality(Since(denial.next - Window)) \in Nat
      BY <2>1, SetsAreFinite
    <3> QED
      BY <2>2, <2>3, <2>5, <2>7, <3>2, <3>3 DEF Used
  <2> QED
    BY <2>6, <2>7
<1>2. QuotaInv => NextCapacityIsTrue
  BY <1>1 DEF NextCapacityIsTrue
<1> QED
  BY <1>2, InvHolds, PTL
=============================================================================
