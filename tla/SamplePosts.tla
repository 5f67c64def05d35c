----------------------------- MODULE SamplePosts -----------------------------
(* Posts of every format for TLC: a few to open and read, and many that only pass through *)
(* their decoders: two facets of a text in every arrangement, and blocks in pairs.        *)
EXTENDS ReadPost

Content(type, body) == [type |-> type, complete |-> TRUE, body |-> body, far |-> <<>>]
Broken(type)        == [Content(type, <<>>) EXCEPT !.complete = FALSE]
Post(content) ==
  [content |-> content, textContent |-> <<"t", "\n", "u", "\n", "\n", " ", "v">>,
   description |-> <<"d">>, cover |-> <<>>, site |-> TRUE]

To(href)   == Kind("Link", <<href>>)
LinkedText(tag, bytes, href) == RawText(tag, bytes, <<Facet(1, 2, <<To(href)>>)>>)
PlainText(tag, byte) == RawText(tag, <<byte>>, <<>>)
Holder(tag, kids)    == Raw(tag, <<>>, kids)

Leaflet(blocks)  == Post(Content("leaflet", <<Holder("page", blocks)>>))
Pckt(blocks)     == Post(Content("pckt", blocks))
Offprint(blocks) == Post(Content("offprint", blocks))
Html(elements)   == Post(Content("html", elements))
Markdown(nodes)  == Post(Content("markdown", nodes))

El(tag, kids) == Node(tag, <<>>, kids)
Chars(byte)   == Node("#text", <<byte>>, <<>>)
Word(byte)    == Node("Text", <<byte>>, <<>>)

LeafletPost == Leaflet(<<
  LinkedText("text", <<"a", "b", "c">>, "h1"),
  Raw("image", <<"c1">>, <<>>),
  Holder("unorderedList", <<Holder("item", <<LinkedText("text", <<"e", "f">>, "h2")>>)>>)>>)

PcktPost == Pckt(<<
  Holder("blockquote", <<LinkedText("text", <<"a", "b">>, "h1"),
                         Raw("gallery", <<"g1">>, <<>>)>>),
  Holder("table", <<
    Holder("row", <<Holder("tableHeader", <<LinkedText("text", <<"x", "y">>, "h2")>>)>>),
    Holder("row", <<Holder("tableCell", <<PlainText("text", "z")>>)>>)>>),
  Holder("unknown", <<LinkedText("text", <<"p", "q">>, "h3")>>)>>)

OffprintPost == Offprint(<<
  [Raw("image", <<"c1">>, <<>>) EXCEPT !.align = "left"],
  LinkedText("callout", <<"a", "b">>, "h1"),
  Holder("taskList", <<Raw("task", <<"[x]">>, <<LinkedText("text", <<"a", "b">>, "h2")>>)>>)>>)

HtmlPost == Html(<<
  Chars("l"), El("p", <<Chars("a"), Node("a", <<"h1">>, <<Chars("b")>>)>>),
  El("figure", <<Node("img", <<"i1">>, <<>>)>>),
  El("ul", <<El("li", <<Chars("c"), Node("a", <<"h2">>, <<El("em", <<Chars("d")>>)>>)>>)>>),
  Chars("z")>>)

MarkdownPost == Markdown(<<
  El("Paragraph", <<Word("a"), Node("Image", <<"i1">>, <<>>), Word("b"),
                    Node("Link", <<"h1">>, <<Word("c")>>)>>),
  El("Quote", <<El("Paragraph", <<Node("Image", <<"i2">>, <<>>)>>)>>)>>)

\* An author's edit changes the order of two links; the post has a cover.
Edition(first, second) ==
  [Leaflet(<<LinkedText("text", <<"a", "b">>, first),
             LinkedText("text", <<"a", "b">>, second)>>)
   EXCEPT !.cover = <<Image(<<Author, "c0">>)>>]

\* A post with nothing but a description.
Stub == [Post(Content("none", <<>>)) EXCEPT !.textContent = <<>>]

\* These are opened and read.
Read == <<LeafletPost, PcktPost, OffprintPost, HtmlPost, MarkdownPost,
          Edition("h1", "h2"), Edition("h2", "h1"), Stub>>

\* Of these it only counts what their decoders make of them.
Elsewhere == <<
  [Post([Content("pckt", <<>>) EXCEPT !.far = PcktPost.content.body])
   EXCEPT !.textContent = <<>>],
  Post([Content("ref", <<>>) EXCEPT !.far =
          <<[content |-> MarkdownPost.content, did |-> "other",
             textContent |-> <<"w">>, greengale |-> TRUE]>>]),
  Post(Broken("leaflet")), Post(Broken("offprint")), Post(Broken("html")),
  Post(Broken("unthread")), Post(Content("pckt", <<>>)), Markdown(<<>>)>>

\* All pairs.
Pairs(s, t) == FlatMap(s, LAMBDA x : Map(t, LAMBDA y : <<x, y>>))

\* Two facets of a text of three characters, the first of two bytes.
Spans == << <<0, 2>>, <<0, 1>>, <<1, 4>>, <<2, 2>>, <<3, 2>>, <<2, 3>>, <<0, 4>>, <<2, 9>> >>
Kinds == << <<To("h1")>>, <<Kind("Strong", <<>>), To("h1")>>, <<Kind("Code", <<>>), To("h1")>>,
            <<To("h1"), To("h3")>>, <<Kind("Unknown", <<>>)>> >>
Faceted ==
  LET post(p) == Leaflet(<<RawText("text", <<"e", "~", "b", "c">>,
                   <<Facet(p[1][1][1], p[1][1][2], p[2]),
                     Facet(p[1][2][1], p[1][2][2], <<To("h2")>>)>>)>>)
  IN Map(Pairs(Pairs(Spans, Spans), Kinds), post)

\* Blocks of each format.
Plainly(tags) == Map(tags, LAMBDA t : PlainText(t, "a"))
Nested(tag)   == Holder(tag, <<LinkedText("text", <<"a", "b">>, "h1"), PlainText("text", "c")>>)

\* An item, or task, in another one.
NestedItem(tag) ==
  Raw(tag, <<>>, <<PlainText("text", "a"), Raw(tag, <<>>, <<PlainText("text", "b")>>)>>)

LeafletSamples ==
  Plainly(<<"text", "header", "blockquote", "code", "poll">>) \o
  <<Holder("horizontalRule", <<>>), Raw("website", <<"h1">>, <<>>),
    Raw("bskyPost", <<"h1", "", "h2">>, <<>>),
    Raw("button", <<"h1", "b">>, <<>>), Raw("image", <<>>, <<>>), Raw("image", <<"c1">>, <<>>),
    Holder("orderedList", <<Holder("item", <<>>),
                            Holder("item", <<PlainText("text", "c")>>)>>),
    Holder("unorderedList", <<NestedItem("item"),
                              Holder("item", <<Raw("image", <<"c1">>, <<>>)>>)>>),
    PlainText("math", "a")>>

PcktSamples ==
  Plainly(<<"text", "heading", "codeBlock">>) \o
  <<Raw("gallery", <<"g1", "g2">>, <<>>), Raw("iframe", <<>>, <<>>), Nested("blockquote"),
    Holder("bulletList", <<Nested("item"),
                           Holder("item", <<Raw("gallery", <<"g1">>, <<>>)>>)>>),
    Holder("table", <<Holder("row", <<>>),
                      Holder("row", <<Nested("tableCell"), Nested("tableHeader")>>)>>),
    Holder("table", <<Holder("caption", <<>>),
                      Holder("row", <<Holder("tableCell",
                        <<Raw("image", <<"c1">>, <<>>), Nested("blockquote")>>)>>)>>),
    PlainText("footnote", "a"),
    Holder("columns", <<Holder("column", <<Nested("quote"), Raw("image", <<"c1">>, <<>>)>>)>>)>>

OffprintSamples ==
  Map(Plainly(<<"text", "heading", "codeBlock", "other">>),
      LAMBDA b : [b EXCEPT !.align = "right"]) \o
  <<Nested("blockquote"), Raw("other", <<>>, <<>>),
    Holder("imageGrid", <<Raw("cell", <<"c1">>, <<>>), Raw("cell", <<>>, <<>>)>>),
    [Holder("imageDiff", <<Raw("cell", <<"c1">>, <<>>)>>) EXCEPT !.align = "center"],
    Raw("webBookmark", <<"h1", "b">>, <<PlainText("description", "c")>>),
    Raw("webEmbed", <<"h1", "b">>, <<PlainText("description", "c")>>),
    Holder("bulletList", <<NestedItem("item")>>),
    Raw("other", <<"a">>, <<PlainText("text", "b")>>),
    Holder("blockquote", <<Raw("image", <<"c1">>, <<>>), Nested("text")>>),
    Holder("taskList", <<Raw("task", <<"[ ]">>, <<>>), NestedItem("task"),
                         Raw("task", <<"[x]">>, <<PlainText("text", "a")>>)>>)>>

Elements ==
  Map(<<"p", "h1", "div", "code", "sub">>,
      LAMBDA t : El(t, <<Chars("a"), El("del", <<Chars("b")>>)>>))
  \o <<Chars("a"), Chars(" "), El("#comment", <<>>), El("br", <<>>), El("hr", <<>>),
       Node("img", <<"i1">>, <<>>), Node("img", <<>>, <<>>),
       El("pre", <<El("code", <<Chars("a")>>)>>),
       Node("a", <<"h1">>, <<Chars("a"), Node("img", <<"i1">>, <<>>)>>),
       El("a", <<Chars("b")>>),
       El("blockquote", <<El("p", <<Chars(" ")>>), Chars("c")>>),
       El("ol", <<Chars("x"), El("li", <<Chars("a"), El("p", <<Chars("b")>>), Chars("c")>>)>>)>>

Pictures ==
  << <<>>, <<Node("Image", <<"i1">>, <<>>)>>,
     <<Node("Image", <<"i1">>, <<>>), El("SoftBreak", <<>>), Node("Image", <<"i2">>, <<>>)>> >>
Nodes ==
  Map(Pictures, LAMBDA p : El("Paragraph", <<Word("a")>> \o p)) \o
  Map(Pictures, LAMBDA p : El("Paragraph", p \o <<El("HardBreak", <<>>), Word("b")>>)) \o
  <<El("Quote", <<El("Heading", <<Node("Code", <<"a">>, <<>>)>>)>>), El("Rule", <<>>),
    El("CodeBlock", <<Node("Text", <<"a", "\n", "b", "\n">>, <<>>)>>), El("HtmlBlock", <<>>),
    El("List", <<El("Item", <<Word("a"), El("Strike", <<Word("b")>>)>>),
                 El("Item", <<El("Paragraph", <<Node("Link", <<"h1">>, <<Word("c")>>)>>),
                              El("List", <<El("Item", <<Word("e")>>)>>)>>)>>)>>

Decoded ==
  Map(Pairs(LeafletSamples, LeafletSamples), Leaflet)
  \o Map(Pairs(PcktSamples, PcktSamples), Pckt)
  \o Map(Pairs(OffprintSamples, OffprintSamples), Offprint)
  \o Map(Pairs(Elements, Elements), Html) \o Map(Pairs(Nodes, Nodes), Markdown)

Samples == Read \o Elsewhere \o Faceted \o Decoded

\* Editions of the same record.
Editions == {{v \in DOMAIN Read : \E first, second \in {"h1", "h2"} :
                Read[v] = Edition(first, second)}}

\* Only the posts to read are opened, the short ones twice.
Openings == [v \in DOMAIN Samples |->
               IF v > Len(Read) THEN 0 ELSE IF v \in UNION Editions THEN 2 ELSE 1]

\* A gallery of another repo, and an empty one.
SampleGalleries == [g1 |-> [did |-> "other", cids |-> <<"c8", "c9">>],
                    g2 |-> [did |-> Author, cids |-> <<>>]]
==============================================================================
