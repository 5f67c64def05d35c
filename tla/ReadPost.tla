------------------------------ MODULE ReadPost --------------------------------
(***************************************************************************)
(* Reading one post from its author's repo: the record, the blob or the    *)
(* record its content may be in instead, its decoder, and the galleries it *)
(* refers to.                                                              *)
(*                                                                         *)
(* A post is [content, textContent, description, cover, site]; a content   *)
(* is [type, complete, body, far], where far is what a second request      *)
(* serves: the block list of an externalised pckt content, or the one      *)
(* record a contentRef names.  Each request is answered or fails: up is    *)
(* the set of those answered.                                              *)
(***************************************************************************)
EXTENDS BlockDecoders, MarkupDecoders

CONSTANTS
  Author,      \* the repo's DID
  Galleries    \* the gallery records: [did, cids] of each AT-URI

PlatformOf == [leaflet |-> "Leaflet", pckt |-> "Pckt", offprint |-> "Offprint",
               html |-> "Wordpress", unthread |-> "Unthread"]

-----------------------------------------------------------------------------
(* The registry.                                                           *)

RECURSIVE Trim(_)
Trim(bytes) ==
  IF bytes = <<>> THEN <<>>
  ELSE IF Head(bytes) \in WhiteSpace THEN Trim(Tail(bytes))
  ELSE IF Last(bytes) \in WhiteSpace THEN Trim(Front(bytes)) ELSE bytes

\* Pieces between line ends.
Lines(bytes) ==
  FoldLeft(LAMBDA acc, b : IF b = "\n" THEN Append(acc, <<>>)
                           ELSE [acc EXCEPT ![Len(acc)] = Append(@, b)],
           <<<<>>>>, bytes)

\* with_line_breaks.
WithLineBreaks(lines) ==
  FlattenSeq([i \in DOMAIN lines |->
    IF i = 1 THEN <<Text(lines[i])>> ELSE <<LineBreak, Text(lines[i])>>])

\* Plaintext::from_text: paragraphs are apart by an empty line, found from the left.
NextByte(acc, b) ==
  CASE b # "\n" -> [acc EXCEPT !.cur = @ \o (IF acc.ends THEN <<"\n", b>> ELSE <<b>>),
                               !.ends = FALSE]
    [] b = "\n" /\ acc.ends -> [out |-> Append(acc.out, acc.cur), cur |-> <<>>, ends |-> FALSE]
    [] OTHER -> [acc EXCEPT !.ends = TRUE]

Paragraphs(acc) ==
  Map(SelectSeq(Map(Append(acc.out, acc.cur), Trim), LAMBDA p : p # <<>>),
      LAMBDA p : Paragraph(WithLineBreaks(Lines(p))))

FromText(bytes) ==
  Paragraphs(FoldLeft(NextByte, [out |-> <<>>, cur |-> <<>>, ends |-> FALSE], bytes))

\* The decoder that claims the content; none claims another type.
Decoder(content, did) ==
  CASE content.type \in {"markdown", "unthread"} -> MarkdownDecode(content)
    [] content.type = "leaflet" -> LeafletDecode(content, did)
    [] content.type = "pckt" -> PcktDecode(content, did)
    [] content.type = "offprint" -> OffprintDecode(content, did)
    [] content.type = "html" -> HtmlDecode(content)
    [] OTHER -> <<>>

\* Registry::decode: plain text where the decoder defers.
OrText(doc, textContent) == IF doc # <<>> THEN doc[1] ELSE FromText(textContent)

Decode(source, did) == OrText(Decoder(source.content, did), source.textContent)

\* Registry::publishing_platform.
PublishingPlatform(content) ==
  IF content.type \in DOMAIN PlatformOf THEN <<PlatformOf[content.type]>> ELSE <<>>

-----------------------------------------------------------------------------
(* Reading.                                                                *)

\* fetch_gallery: <<>> on any failure, and for an empty gallery.
FetchGallery(uri, up) ==
  LET g == Galleries[uri]
  IN IF (g.did # Author /\ "repo" \notin up) \/ uri \notin up THEN <<>>
     ELSE Map(g.cids, LAMBDA cid : Image(<<g.did, cid>>))

\* resolve_gallery_refs: a reference becomes its images, or is dropped.
RECURSIVE ResolveGalleryRefs(_, _)
ResolveGalleryRefs(blocks, up) ==
  FlatMap(blocks, LAMBDA b :
    CASE b.tag = "GalleryRef" ->
           LET images == FetchGallery(b.data[1], up)
           IN IF images = <<>> THEN <<>> ELSE <<ImageGrid(images)>>
      [] b.tag = "Quote" -> <<[b EXCEPT !.kids = ResolveGalleryRefs(@, up)]>>
      [] b.tag = "List" -> <<[b EXCEPT !.kids = Map(@, LAMBDA item :
                                [item EXCEPT !.kids = ResolveGalleryRefs(@, up)])]>>
      [] OTHER -> <<b>>)

\* or_description: an empty body shows the blurb instead.
OrDescription(blocks, description) ==
  IF blocks = <<>> /\ Trim(description) # <<>> THEN <<Paragraph(<<Text(description)>>)>>
  ELSE blocks

\* The blob's blocks take the place of an externalised content's own.
Spliced(content) == IF ExternalContent(content) THEN [content EXCEPT !.body = content.far]
                    ELSE content

\* content_ref: whether the content names another record.
IsRef(content) == content.type = "ref" /\ content.far # <<>>

\* What is decoded: the record a reference names, or the post.
Source(post) ==
  IF IsRef(post.content) THEN post.content.far[1]
  ELSE [post EXCEPT !.content = Spliced(@)]

\* get_document: <<>> when a request it cannot do without fails.  A referenced record is
\* decoded for the post's own repo.
GetDocument(post, up) ==
  LET content == Spliced(post.content)
      isRef   == IsRef(content)
      fails   == \/ "record" \notin up \/ ~post.site
                 \/ ExternalContent(post.content) /\ "blob" \notin up
                 \/ isRef /\ "ref" \notin up
                 \/ isRef /\ content.far[1].did # Author /\ "repo" \notin up
  IN IF fails THEN <<>>
     ELSE <<[blocks   |-> OrDescription(ResolveGalleryRefs(Decode(Source(post), Author), up),
                                        post.description),
             platform |-> IF isRef /\ content.far[1].greengale THEN <<"GreenGale">>
                          ELSE PublishingPlatform(content)]>>

-----------------------------------------------------------------------------
(* What a post says, without decoders: what the one content that counts    *)
(* says, or its plain text, in order.                                      *)

\* The blocks of a content, without what the reader leaves out of its format.
ShownBlocks(content) ==
  CASE content.type = "leaflet" ->
         FlatMap(content.body, LAMBDA page : Map(page.kids, LeafletShown))
    [] content.type = "pckt" -> Map(content.body, PcktShown)
    [] content.type = "offprint" -> Map(content.body, OffprintShown)

ContentSays(content, galleries) ==
  CASE content.type \in {"leaflet", "pckt", "offprint"} ->
         FlatMap(ShownBlocks(content), LAMBDA b : BlockSays(b, galleries))
    [] content.type = "html" -> FlatMap(content.body, LAMBDA e : HtmlSays(e, NoLink))
    [] OTHER -> FlatMap(content.body, LAMBDA n : MarkdownSays(n, NoLink))

Readable(content) ==
  CASE content.type \in {"markdown", "unthread", "leaflet", "offprint", "html"} ->
         content.complete
    [] content.type = "pckt" -> content.body # <<>>
    [] OTHER -> FALSE

SourceSays(source, galleries) ==
  IF Readable(source.content) THEN ContentSays(source.content, galleries)
  ELSE SaysBytes(source.textContent, NoLink)

PostSays(post, up) ==
  SourceSays(Source(post), [uri \in DOMAIN Galleries |->
                              Map(FetchGallery(uri, up), LAMBDA i : Last(i.data))])
=============================================================================
