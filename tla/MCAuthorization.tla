---------------------------- MODULE MCAuthorization ----------------------------
(* Instances of Authorization: two slugs that compete for two companies. *)
EXTENDS Authorization, TLC

Symmetry == Permutations(Slug) \cup Permutations(Attempt) \cup Permutations(Proc)
=============================================================================
