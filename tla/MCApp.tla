-------------------------------- MODULE MCApp --------------------------------
(* The App for TLC, with the decoders, the pane and sample posts.                         *)
EXTENDS App, PostReading, SamplePosts

MCPresets == <<"modern-dark", "light">>
MCLayouts == <<"TwoPane", "ThreePane">>

-----------------------------------------------------------------------------
(* Adding: a DID with two publications on two pages, a handle known to the well-known     *)
(* file while its DNS answers nonsense, and a blog that is no handle but has pages.       *)

Typed(host, path, did, scheme) ==
  [host |-> host, path |-> path, did |-> did, scheme |-> scheme]
MCInputs == {Typed("did1", "", TRUE, FALSE), Typed("handle", "", FALSE, FALSE),
             Typed("blog", "post", FALSE, TRUE), Typed("blog", "post", FALSE, FALSE)}
MCWellKnown == [handle |-> <<"did2">>, blog |-> <<>>]
MCDns       == [handle |-> <<"garbled">>, blog |-> <<>>]
MCPageLink  == [url \in {[host |-> "blog", path |-> p] : p \in {"", "post"}} |->
                  IF url.path = "" THEN <<"p1">> ELSE <<"p3">>]
Listing(uris, cursor) == [uris |-> uris, cursor |-> cursor]
MCRepo == [did1 |-> <<Listing(<<"p1">>, TRUE), Listing(<<"p2">>, TRUE), Listing(<<>>, TRUE)>>,
           did2 |-> <<Listing(<<"p3", "p4">>, FALSE)>>, did3 |-> <<Listing(<<>>, FALSE)>>]
MCOwnerOf == [p1 |-> "did1", p2 |-> "did1", p3 |-> "did2", p4 |-> "did2"]
=============================================================================
