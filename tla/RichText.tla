------------------------------- MODULE RichText -------------------------------
(***************************************************************************)
(* The neutral document: a sequence of blocks that hold inlines, each a    *)
(* node [tag, data, kids], and the byte-range facets that annotate the     *)
(* flat text of Leaflet, pckt and Offprint blocks.                         *)
(*                                                                         *)
(* Text is a sequence of bytes, one string each; "~" stands for a          *)
(* continuation byte of UTF-8.  What a record holds before it is decoded   *)
(* is a node too, with two more fields: its facets and its alignment.      *)
(* Heading levels, languages, colours and alternative texts are left out.  *)
(***************************************************************************)
EXTENDS Integers, SequencesExt

Node(tag, data, kids) == [tag |-> tag, data |-> data, kids |-> kids]

\* Inline.
Text(bytes)      == Node("Text", bytes, <<>>)
CodeSpan(bytes)  == Node("Code", bytes, <<>>)
Link(href, kids) == Node("Link", <<href>>, kids)
Image(source)    == Node("Image", source, <<>>)
LineBreak        == Node("LineBreak", <<>>, <<>>)

\* Block.
Paragraph(kids)  == Node("Paragraph", <<>>, kids)
Heading(kids)    == Node("Heading", <<>>, kids)
Quote(kids)      == Node("Quote", <<>>, kids)
List(items)      == Node("List", <<>>, items)
Item(kids)       == Node("Item", <<>>, kids)
CodeBlock(bytes) == Node("CodeBlock", bytes, <<>>)
ImageGrid(kids)  == Node("ImageGrid", <<>>, kids)
Table(rows)      == Node("Table", <<>>, rows)
Callout(kids)    == Node("Callout", <<>>, kids)
Rule             == Node("Rule", <<>>, <<>>)
GalleryRef(uri)  == Node("GalleryRef", <<uri>>, <<>>)
Aligned(block)   == Node("Aligned", <<>>, <<block>>)

\* Nodes of a record, as JSON delivers them.
Raw(tag, data, kids)       == Node(tag, data, kids) @@ [facets |-> <<>>, align |-> "absent"]
RawText(tag, data, facets) == [Raw(tag, data, <<>>) EXCEPT !.facets = facets]

Map(s, Op(_)) == [i \in DOMAIN s |-> Op(s[i])]
FlatMap(s, Op(_)) == FlattenSeq([i \in DOMAIN s |-> Op(s[i])])
Some(s, Test(_)) == \E i \in DOMAIN s : Test(s[i])

WhiteSpace   == {" ", "\n"}
IsBlank(n)   == n.tag = "Text" /\ ToSet(n.data) \subseteq WhiteSpace
NotBlank(n)  == ~IsBlank(n)

-----------------------------------------------------------------------------
(* Facets.                                                                 *)

Kind(tag, data)         == [tag |-> tag, data |-> data]
Facet(start, end, kinds) == [start |-> start, end |-> end, kinds |-> kinds]

Recognised(k) == k.tag \in {"Strong", "Emphasis", "Strike", "Underline", "Highlight", "Code",
                            "Link"}

\* parse_facets: unknown features are left out, and a facet with none left.
ParseFacets(facets) ==
  SelectSeq(Map(facets, LAMBDA f : [f EXCEPT !.kinds = SelectSeq(@, Recognised)]),
            LAMBDA f : f.kinds # <<>>)

\* A byte offset between two characters.
IsCharBoundary(text, i) == i = Len(text) \/ text[i + 1] # "~"

RECURSIVE FlattenText(_)
FlattenText(n) ==
  CASE n.tag \in {"Text", "Code"} -> n.data
    [] n.tag = "LineBreak" -> <<"\n">>
    [] OTHER -> FlatMap(n.kids, FlattenText)

ApplyKind(k, n) ==
  IF k.tag = "Code" THEN CodeSpan(FlattenText(n)) ELSE Node(k.tag, k.data, <<n>>)

\* Nests a text in its styles, the first outermost.
Wrap(bytes, kinds) == FoldRight(ApplyKind, kinds, Text(bytes))

PushText(bytes) == IF bytes = <<>> THEN <<>> ELSE <<Text(bytes)>>

\* sort_by_key: by start, those with the same start in the order given.
Before(i, j, facets) ==
  \/ facets[i].start < facets[j].start
  \/ facets[i].start = facets[j].start /\ i < j

Ordered(facets) ==
  Map(SortSeq([i \in DOMAIN facets |-> i], LAMBDA i, j : Before(i, j, facets)),
      LAMBDA i : facets[i])

\* The next facet: one that overlaps, is inverted, out of range or cuts a character is
\* skipped.
ApplyFacet(bytes, acc, f) ==
  IF \/ f.start < acc.cursor \/ f.start > f.end \/ f.end > Len(bytes)
     \/ ~IsCharBoundary(bytes, f.start) \/ ~IsCharBoundary(bytes, f.end)
  THEN acc
  ELSE [out |-> acc.out \o PushText(SubSeq(bytes, acc.cursor + 1, f.start))
                \o <<Wrap(SubSeq(bytes, f.start + 1, f.end), f.kinds)>>,
        cursor |-> f.end]

\* Mutant: the text after the last facet is forgotten.
WithRestForgotten(bytes, acc) == acc.out

\* The text after the last facet.
WithRest(bytes, acc) == acc.out \o PushText(SubSeq(bytes, acc.cursor + 1, Len(bytes)))

\* apply_facets.
ApplyFacets(bytes, facets) ==
  WithRest(bytes, FoldLeft(LAMBDA acc, f : ApplyFacet(bytes, acc, f),
                           [out |-> <<>>, cursor |-> 0], Ordered(facets)))

\* The plaintext of a block: embeds, images and galleries have none.
WithoutText == {"image", "gallery", "poll", "standardSitePost", "website", "button", "bskyPost",
                "iframe", "webEmbed", "webBookmark"}
Plaintext(b) == IF b.tag \in WithoutText THEN <<>> ELSE b.data

TextBlockInlines(b) == ApplyFacets(Plaintext(b), ParseFacets(b.facets))

\* blob_image: an image only where there is a CID; the repo is the document's.
BlobImage(cid, did) == IF cid = <<>> THEN <<>> ELSE <<Image(<<did>> \o cid)>>

-----------------------------------------------------------------------------
(* What a reader gets to see, in order: each character and each image with *)
(* the address it links to.  Spacing and list marks say nothing.           *)

NoLink == "no link"
Silent == WhiteSpace \cup {"[x]", "[ ]"}

Said(what, href) == [what |-> what, href |-> href]
Says(what, href) == <<Said(what, href)>>
SaysBytes(bytes, href) ==
  Map(SelectSeq(bytes, LAMBDA b : b \notin Silent), LAMBDA b : Said(b, href))

\* Of a decoded node.
RECURSIVE Reads(_, _)
Reads(n, href) ==
  CASE n.tag \in {"Text", "Code", "CodeBlock"} -> SaysBytes(n.data, href)
    [] n.tag = "Image" -> Says(Last(n.data), href)
    [] n.tag = "GalleryRef" -> Says("gallery", href)
    [] OTHER -> LET inner == IF n.tag = "Link" THEN n.data[1] ELSE href
                IN FlatMap(n.kids, LAMBDA k : Reads(k, inner))

ReadsAll(blocks) == FlatMap(blocks, LAMBDA b : Reads(b, NoLink))

\* The address a facet gives its text: of its innermost link, unless code is outside it.
HrefOf(kinds) ==
  LET links == {i \in DOMAIN kinds : /\ kinds[i].tag = "Link"
                                     /\ \A j \in 1..i : kinds[j].tag # "Code"}
  IN IF links = {} THEN NoLink ELSE kinds[Max(links)].data[1]

\* Of a text with facets, without the algorithm: a facet counts if it lies on character
\* boundaries and meets none that counts and starts before it (or is listed first).
Fits(bytes, f) ==
  /\ f.start <= f.end /\ f.end <= Len(bytes)
  /\ IsCharBoundary(bytes, f.start) /\ IsCharBoundary(bytes, f.end)

Counting(bytes, facets) ==
  CHOOSE H \in SUBSET DOMAIN facets : \A i \in DOMAIN facets :
    i \in H <=> /\ Fits(bytes, facets[i])
                /\ \A j \in H : Before(j, i, facets) => facets[j].end <= facets[i].start

\* The facets that count meet in no byte, so it has one address at most.
HrefsAt(p, facets, counting) ==
  {HrefOf(facets[i].kinds) :
     i \in {j \in counting : facets[j].start < p /\ p <= facets[j].end}}

SaysAnnotated(bytes, facets, counting) ==
  FlattenSeq([p \in DOMAIN bytes |->
    SaysBytes(<<bytes[p]>>, CHOOSE h \in HrefsAt(p, facets, counting) \cup {NoLink} :
                              h = NoLink => HrefsAt(p, facets, counting) \subseteq {NoLink})])

AnnotatedText(bytes, facets) ==
  LET known == ParseFacets(facets)
  IN SaysAnnotated(bytes, known, Counting(bytes, known))
=============================================================================
