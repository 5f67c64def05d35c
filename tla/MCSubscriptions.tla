-------------------------- MODULE MCSubscriptions --------------------------
(* Subscriptions for TLC: neither publications nor accounts are ordered.   *)
EXTENDS Subscriptions, TLC

Symmetry == Permutations(Publications) \cup Permutations(Accounts)
=============================================================================
