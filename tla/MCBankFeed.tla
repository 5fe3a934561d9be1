------------------------------ MODULE MCBankFeed ------------------------------
(* Reconciliations are interchangeable, and so are syncs and lines of the feed. *)
EXTENDS BankFeed

Symmetry == Permutations(Recons) \cup Permutations(FeedKeys) \cup Permutations(Syncs)
=============================================================================
