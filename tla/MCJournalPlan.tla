---------------------------- MODULE MCJournalPlan ----------------------------
(* One instance of JournalPlan: two names, for one QuickBooks company or for two. *)
EXTENDS JournalPlan, TLC

CONSTANTS acme, bolt

MCPatch == {[slug |-> acme, key |-> "cap", value |-> 1],
            [slug |-> bolt, key |-> "read_only", value |-> "open"]}
Line(posting, amount) == [posting |-> posting, amount |-> amount]
MCEntry == {[lines |-> <<Line("Debit", 1), Line("Credit", 2), Line("Debit", 1)>>, date |-> 1]}
Symmetry == Permutations(Realm) \cup Permutations(Call)
=============================================================================
