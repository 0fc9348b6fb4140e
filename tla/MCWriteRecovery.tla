--------------------------- MODULE MCWriteRecovery ---------------------------
(* Small instances of WriteRecovery for TLC. *)
EXTENDS WriteRecovery, TLC

\* Some callers retry writes and some do not, so callers are not interchangeable.
Symmetry == Permutations(Req) \cup Permutations(Env)
=============================================================================
