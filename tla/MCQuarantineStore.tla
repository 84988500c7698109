------------------------- MODULE MCQuarantineStore -------------------------
(* Small instances of QuarantineStore for TLC. *)
EXTENDS QuarantineStore, TLC

Symmetry == Permutations(Path) \cup Permutations(Inode)
              \cup Permutations(Content) \cup Permutations(Id)
============================================================================
