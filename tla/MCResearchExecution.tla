----------------------- MODULE MCResearchExecution -------------------------
(* Small instances of ResearchExecution for TLC. *)
EXTENDS ResearchPromise, TLC

WorkersAlike == Permutations(Workers)
=============================================================================
