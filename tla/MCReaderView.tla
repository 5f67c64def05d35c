---------------------------- MODULE MCReaderView ----------------------------
(* ReaderView for TLC: two publications with a post each.                  *)
EXTENDS ReaderView, TLC

CONSTANTS d1, d2, f1, f2

MCFeedOf == (d1 :> f1) @@ (d2 :> f2)
=============================================================================
