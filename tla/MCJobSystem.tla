------------------------------ MODULE MCJobSystem ------------------------------
(***************************************************************************)
(* JobProperties for TLC: every job has the same max_retries, and safety   *)
(* runs identify states that differ by a renaming of jobs or of sessions.  *)
(***************************************************************************)
EXTENDS JobProperties

CONSTANT RetryLimit

MCMaxRetries == [j \in Jobs |-> RetryLimit]

Symmetry == Permutations(Sessions) \cup Permutations(Jobs)
================================================================================
