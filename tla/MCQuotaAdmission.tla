-------------------------- MODULE MCQuotaAdmission --------------------------
EXTENDS QuotaAdmission, TLC

MCLimit == [t \in Tiers |-> IF t = "demo" THEN 1 ELSE 2]
Alike == Permutations(Users) \cup Permutations(Keys) \cup Permutations(Requests)
=============================================================================
