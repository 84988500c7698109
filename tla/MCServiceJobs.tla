--------------------------- MODULE MCServiceJobs ---------------------------
(* Small instances of ServiceJobs for TLC. *)
EXTENDS ServiceJobs, TLC

Symmetry == Permutations(Worker)
============================================================================
