----------------------------- MODULE MCFeedSync -----------------------------
(* Small instances of FeedSync.                                            *)
EXTENDS FeedSync, TLC

Symmetry == Permutations(Publications)
=============================================================================
