------------------------------ MODULE PostReading ------------------------------
(***************************************************************************)
(* Reading with the decoders and the pane: what fetching a record, showing *)
(* a body and laying it out give.                                          *)
(***************************************************************************)
EXTENDS Reading, ReadPost, ReaderPane

CONSTANT Posts   \* what the record may hold: a sequence of posts

-----------------------------------------------------------------------------
(* The values of Reading's parameters.                                     *)

Numbers == DOMAIN Posts

Hint == Paragraph(<<Text(<<"o">>)>>)

\* At most one request of a fetch fails, or the gallery it is for has gone.
Requests == {"record", "blob", "ref", "repo"} \cup DOMAIN Galleries
Outcomes == {Requests} \cup {Requests \ {r} : r \in Requests}

\* fetch_and_cache_doc: what fetching a post may bring; says is what the post said.
DocumentsOf(v) ==
  {Map(GetDocument(Posts[v], up), LAMBDA doc : doc @@ [says |-> PostSays(Posts[v], up)])
   : up \in Outcomes}

\* collect_links of the whole body.
LinksOf(blocks)  == FlatMap(blocks, CollectLinks)
ImagesOf(blocks) == UNION {CollectImageSources(blocks[i]) : i \in DOMAIN blocks}
CoverSource(v)   == Map(Posts[v].cover, LAMBDA image : image.data)

\* is_description_stub.
IsDescriptionStub(blocks, description) ==
  Trim(description) # <<>> /\ blocks = <<Paragraph(<<Text(description)>>)>>

\* The Doc event: a hint under a mere description.
WithHint(blocks, v) ==
  IF IsDescriptionStub(blocks, Posts[v].description) THEN Append(blocks, Hint) ELSE blocks

\* draw: the layout of the body under the cover.
LaidOutWith(blocks, v, shown, loaded, most) ==
  Build(blocks, Posts[v].cover, shown, loaded, most)

-----------------------------------------------------------------------------
(* Properties.                                                             *)

\* Links that text shows, apart from each other: no link is empty, or holds an image, code
\* or a line break; between two of them is text; no heading is underlined.
RECURSIVE IsStyledText(_)
IsStyledText(n) ==
  \/ n.tag = "Text" /\ n.data # <<>>
  \/ /\ n.tag \in {"Strong", "Emphasis", "Strike"} /\ n.kids # <<>>
     /\ \A i \in DOMAIN n.kids : IsStyledText(n.kids[i])

HasLink(n) == CollectLinks(n) # <<>>

RECURSIVE IsWellLinked(_)
IsWellLinked(n) ==
  CASE n.tag = "Link" -> n.kids # <<>> /\ \A i \in DOMAIN n.kids : IsStyledText(n.kids[i])
    [] n.tag = "Text" -> n.data # <<>>
    [] n.tag = "Table" -> TRUE
    [] n.tag = "Underline" -> ~HasLink(n) /\ \A i \in DOMAIN n.kids : IsStyledText(n.kids[i])
    [] n.tag = "Heading" /\ Some(n.kids, LAMBDA k : k.tag = "Underline") -> FALSE
    [] OTHER -> /\ \A i \in DOMAIN n.kids : IsWellLinked(n.kids[i])
                /\ n.tag \in {"Paragraph", "Heading", "Callout", "Strong", "Emphasis",
                              "Strike", "Highlight"} =>
                     \A i \in DOMAIN n.kids : i > 1 =>
                       ~HasLink(n.kids[i - 1]) \/ ~HasLink(n.kids[i])

LinksApart(blocks) == \A i \in DOMAIN blocks : IsWellLinked(blocks[i])

\* What the worker hands over says all that is shown of the post, in order, each character
\* and image with the address it links to: no facet, block, list, table, gallery or fallback
\* loses, repeats or reorders any of it (read.rs get_document and every decoder).  What of a
\* format is not shown, and only that, ShownBlocks names.  Where the post says nothing its
\* description may stand in.
NothingElseIsLost ==
  \A doc \in ToSet(stored) \cup {a.doc : a \in ToSet(answer)} :
    \/ ReadsAll(doc.blocks) = doc.says
    \/ /\ doc.says = <<>>
       /\ \E v \in DOMAIN Posts :
            doc.blocks = <<Paragraph(<<Text(Posts[v].description)>>)>>

\* The numbers of the places found on the screen are those of the collected links: the
\* address of each is the one its text was given (reader.rs:281-283, app.rs:1691-1693).
LinkOrderMatches ==
  Current => \A r \in linkRects : \A p \in LaidOut :
    p.row = r.row /\ p.col = r.col => p.cell.href = HrefAt(r.idx)
=============================================================================
