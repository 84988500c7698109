------------------------------ MODULE MCScanner ------------------------------
(***************************************************************************)
(* Small instances of Scanner for TLC. Entries are numbered in the order   *)
(* of the walk, so there is no symmetry left to use.                       *)
(***************************************************************************)
EXTENDS Scanner
==============================================================================
