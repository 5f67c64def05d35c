----------------------------- MODULE MCLinkOrder -----------------------------
(* A WordPress post for TLC: a linked image, then a linked text.                          *)
EXTENDS PostReading

MCPosts == <<
  [content |-> [type |-> "html", complete |-> TRUE, far |-> <<>>, body |->
     <<Node("p", <<>>, <<Node("a", <<"h1">>, <<Node("img", <<"i1">>, <<>>)>>),
                         Node("#text", <<"b">>, <<>>),
                         Node("a", <<"h2">>, <<Node("#text", <<"c">>, <<>>)>>)>>)>>],
   textContent |-> <<>>, description |-> <<>>, cover |-> <<>>, site |-> TRUE]>>
MCMaxOpens == <<1>>
MCGalleries == <<>>
=============================================================================
