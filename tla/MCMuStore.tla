----------------------------- MODULE MCMuStore ------------------------------
(* Small instances of MuStore for TLC. *)
EXTENDS MuStore, TLC

Symmetry == Permutations(Paths)

=============================================================================
