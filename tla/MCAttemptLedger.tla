-------------------------- MODULE MCAttemptLedger --------------------------
(* Instances of AttemptLedger for TLC. *)
EXTENDS AttemptLedger, TLC

RequestsAlike == Permutations(Requests)
=============================================================================
