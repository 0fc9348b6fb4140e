--------------------------- MODULE MCTokenLifecycle ---------------------------
(* Small instances of TokenLifecycle for TLC. *)
EXTENDS TokenLifecycle, TLC

Symmetry == Permutations(Proc)
=============================================================================
