---------------------------- MODULE MCReceivables ----------------------------
(* Receivables on a small instance; the users are distinct people.          *)
EXTENDS Receivables, TLC

Symmetry == Permutations(Users) \cup Permutations(Receipts)
=============================================================================
