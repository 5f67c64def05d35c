---------------------------- MODULE BlockDecoders -----------------------------
(***************************************************************************)
(* The decoders of the three block formats: Leaflet, pckt and Offprint.    *)
(*                                                                         *)
(* A block of a record is [tag, data, kids, facets, align], its tag the    *)
(* end of its $type.  Its data is its text; the CID of an image, if there  *)
(* is one; the address and the title of an embed ("" for none) and, where  *)
(* one can be made of it, the address to open instead.  Its kids are its   *)
(* children, items, entries, rows, cells or images; an "item" or "task" of *)
(* a Leaflet or Offprint list holds its content, if it has any, and the    *)
(* items nested in it.  A decoder gives <<document>>, or <<>> to defer.  A *)
(* poll's data is the marker it leaves.                                    *)
(***************************************************************************)
EXTENDS RichText

\* The label of an embed: its title, or else its address.
Label(b) == IF Len(b.data) < 2 \/ b.data[2] = "" THEN b.data[1] ELSE b.data[2]

\* The web page a post or a player is shown at, or else the address itself.
Target(b) == IF Len(b.data) = 3 THEN b.data[3] ELSE b.data[1]

LinkParagraph(b) ==
  IF b.data = <<>> THEN <<>>
  ELSE <<Paragraph(<<Link(Target(b), <<Text(<<Label(b)>>)>>)>>)>>

TextParagraph(b) == Paragraph(TextBlockInlines(b))

ContentOf(item) == SelectSeq(item.kids, LAMBDA k : k.tag \notin {"item", "task"})

\* Leaflet and Offprint: one paragraph for the content of each child, none without one.
ListItems(b) ==
  Map(SelectSeq(b.kids, LAMBDA c : ContentOf(c) # <<>>),
      LAMBDA c : Item(Map(ContentOf(c), TextParagraph)))

-----------------------------------------------------------------------------
(* Leaflet: pages of blocks.                                               *)

\* leaflet_block: what the reader has no model of is dropped.
LeafletBlock(b, inlines, did) ==
  CASE b.tag = "text" -> <<Paragraph(inlines)>>
    [] b.tag = "header" -> <<Heading(inlines)>>
    [] b.tag = "blockquote" -> <<Quote(<<Paragraph(inlines)>>)>>
    [] b.tag = "code" -> <<CodeBlock(b.data)>>
    [] b.tag = "image" -> BlobImage(b.data, did)
    [] b.tag = "horizontalRule" -> <<Rule>>
    [] b.tag \in {"unorderedList", "orderedList"} -> <<List(ListItems(b))>>
    [] b.tag \in {"website", "button", "bskyPost"} -> LinkParagraph(b)
    [] b.tag \in {"standardSitePost", "poll"} -> <<Paragraph(<<Text(b.data)>>)>>
    [] OTHER -> <<>>

\* Leaflet::decode: defers without a list of pages.
LeafletDecode(content, did) ==
  IF ~content.complete THEN <<>>
  ELSE <<FlatMap(content.body, LAMBDA page : FlatMap(page.kids,
                   LAMBDA b : LeafletBlock(b, TextBlockInlines(b), did)))>>

-----------------------------------------------------------------------------
(* pckt: blocks within blocks.                                             *)

\* cell_inlines: the text of the cell's blocks, apart.
CellInlines(cell) ==
  FoldLeft(LAMBDA out, b : (IF out = <<>> THEN <<>> ELSE Append(out, Text(<<" ">>)))
                           \o TextBlockInlines(b),
           <<>>, cell.kids)

\* table: a first row of header cells only is the head; what has no cells is no row.
PcktRow(cells, first) ==
  Node(IF first /\ cells # <<>> /\ \A c \in DOMAIN cells : cells[c].tag = "tableHeader"
       THEN "Head" ELSE "Row",
       <<>>, Map(cells, LAMBDA c : Node("Cell", <<>>, CellInlines(c))))

PcktTable(b) ==
  Table(Map(SelectSeq([i \in DOMAIN b.kids |-> i], LAMBDA i : b.kids[i].tag = "row"),
            LAMBDA i : PcktRow(b.kids[i].kids, i = 1)))

\* block: a gallery is a reference to be resolved; containers the reader has no model of
\* degrade to what they hold.
RECURSIVE PcktBlocks(_, _)
PcktBlock(b, inlines, did) ==
  LET children == PcktBlocks(b.kids, did)
  IN CASE b.tag = "text" -> <<Paragraph(inlines)>>
       [] b.tag = "heading" -> <<Heading(inlines)>>
       [] b.tag = "blockquote" -> <<Quote(children)>>
       [] b.tag = "codeBlock" -> <<CodeBlock(b.data)>>
       [] b.tag \in {"bulletList", "taskList", "orderedList"} ->
            <<List(Map(b.kids, LAMBDA entry : Item(PcktBlocks(entry.kids, did))))>>
       [] b.tag = "image" -> BlobImage(b.data, did)
       [] b.tag = "horizontalRule" -> <<Rule>>
       [] b.tag = "iframe" -> LinkParagraph(b)
       [] b.tag = "table" -> <<PcktTable(b)>>
       [] b.tag = "gallery" -> Map(b.data, GalleryRef)
       [] OTHER -> children

PcktBlocks(blocks, did) ==
  FlatMap(blocks, LAMBDA b : PcktBlock(b, TextBlockInlines(b), did))

\* Pckt::decode: defers without blocks.
PcktDecode(content, did) ==
  IF content.body = <<>> THEN <<>>
  ELSE <<PcktBlocks(content.body, did)>>

\* external_content_cid: whether the blocks are in a blob of their own.
ExternalContent(content) == content.type = "pckt" /\ content.body = <<>> /\ content.far # <<>>

-----------------------------------------------------------------------------
(* Offprint: one list of blocks, with an alignment each.                   *)

\* wrap_align: text is left-aligned unless it says otherwise.
WrapAlign(block, b) == IF b.align \in {"center", "right"} THEN Aligned(block) ELSE block

\* wrap_image_align: images are centred unless they say otherwise, the left included.
WrapImageAlign(block, b) == IF b.align = "absent" THEN block ELSE Aligned(block)

\* task_items: the mark is text.
TaskItems(b) ==
  Map(b.kids, LAMBDA c :
    Item(<<Paragraph(<<Text(IF c.data = <<"[x]">> THEN <<"[x]", " ">> ELSE <<"[ ]", " ">>)>>
                     \o FlatMap(ContentOf(c), TextBlockInlines))>>))

\* link_block: a bookmark's description follows on a line of its own.
LinkBlock(b) ==
  Map(LinkParagraph(b), LAMBDA p :
    [p EXCEPT !.kids = @ \o (IF b.kids = <<>> THEN <<>>
                             ELSE <<LineBreak, Text(b.kids[1].data)>>)])

OffprintGrid(b, did) ==
  LET images == FlatMap(b.kids, LAMBDA k : BlobImage(k.data, did))
  IN IF images = <<>> THEN <<>> ELSE <<WrapImageAlign(ImageGrid(images), b)>>

OffprintBlock(b, inlines, did) ==
  CASE b.tag = "text" -> <<WrapAlign(Paragraph(inlines), b)>>
    [] b.tag = "heading" -> <<WrapAlign(Heading(inlines), b)>>
    [] b.tag = "image" -> Map(BlobImage(b.data, did), LAMBDA i : WrapImageAlign(i, b))
    [] b.tag \in {"imageGrid", "imageCarousel", "imageDiff"} -> OffprintGrid(b, did)
    [] b.tag \in {"bulletList", "orderedList"} -> <<List(ListItems(b))>>
    [] b.tag = "taskList" -> <<List(TaskItems(b))>>
    [] b.tag = "blockquote" -> <<Quote(Map(b.kids, TextParagraph))>>
    [] b.tag = "codeBlock" -> <<CodeBlock(b.data)>>
    [] b.tag = "webEmbed" -> Map(LinkParagraph(b), LAMBDA p : WrapAlign(p, b))
    [] b.tag = "webBookmark" -> Map(LinkBlock(b), LAMBDA p : WrapAlign(p, b))
    [] b.tag = "callout" -> <<Callout(inlines)>>
    [] b.tag = "horizontalRule" -> <<Rule>>
    [] OTHER -> IF b.data = <<>> THEN <<>> ELSE <<Paragraph(inlines)>>

\* Offprint::decode: defers without a list of items.
OffprintDecode(content, did) ==
  IF ~content.complete THEN <<>>
  ELSE <<FlatMap(content.body, LAMBDA b : OffprintBlock(b, TextBlockInlines(b), did))>>

-----------------------------------------------------------------------------
(* What a block says, without its decoder: its text, then what it holds.   *)

EmbedTags == {"website", "button", "bskyPost", "iframe", "webEmbed", "webBookmark"}
ImageTags == {"image", "cell"}   \* a "cell" is an image of a grid

RECURSIVE BlockSays(_, _)
BlockSays(b, galleries) ==
  (CASE b.tag \in EmbedTags ->
          IF b.data = <<>> THEN <<>> ELSE Says(Label(b), Target(b))
     [] b.tag \in ImageTags -> Map(b.data, LAMBDA cid : Said(cid, NoLink))
     [] b.tag = "gallery" ->
          FlatMap(b.data, LAMBDA uri : Map(galleries[uri], LAMBDA cid : Said(cid, NoLink)))
     [] OTHER -> AnnotatedText(b.data, b.facets))
  \o FlatMap(b.kids, LAMBDA k : BlockSays(k, galleries))

-----------------------------------------------------------------------------
(* What the reader leaves out of a post, as a post without it.             *)

\* A block of which only the text is read.
TextOnly(b) == [b EXCEPT !.data = Plaintext(b), !.kids = <<>>]
TextsOnly(holder) == [holder EXCEPT !.kids = Map(@, TextOnly)]

\* Lists keep the text of each item's content: not what is nested in an item.
WithoutNested(b) ==
  [b EXCEPT !.kids = Map(@, LAMBDA c : [c EXCEPT !.kids = Map(ContentOf(c), TextOnly)])]

\* Leaflet: nested items, and every block the reader has no model of.
LeafletTags == {"text", "header", "blockquote", "code", "image", "horizontalRule",
                "unorderedList", "orderedList", "website", "button", "bskyPost",
                "standardSitePost", "poll"}
LeafletShown(b) ==
  CASE b.tag \in {"unorderedList", "orderedList"} -> WithoutNested(b)
    [] b.tag \in LeafletTags -> b
    [] OTHER -> [b EXCEPT !.data = <<>>, !.kids = <<>>]

\* pckt: of a table all but its cells' text, and the text of the blocks the reader has no
\* model of, but not what they hold.
PcktTags == {"text", "heading", "blockquote", "codeBlock", "bulletList", "taskList",
             "orderedList", "image", "horizontalRule", "iframe", "gallery"}
RECURSIVE PcktShown(_)
PcktShown(b) ==
  CASE b.tag = "table" -> [b EXCEPT !.kids = Map(@, LAMBDA row :
                             [row EXCEPT !.kids = Map(@, TextsOnly)])]
    [] b.tag \in PcktTags -> [b EXCEPT !.kids = Map(@, PcktShown)]
    [] OTHER -> [b EXCEPT !.data = <<>>, !.kids = Map(@, PcktShown)]

\* Offprint: nested items, of a quote all but its text, the description of an embed, and
\* what a block holds that the reader has no model of.
OffprintShown(b) ==
  CASE b.tag \in {"bulletList", "orderedList", "taskList"} -> WithoutNested(b)
    [] b.tag = "blockquote" -> TextsOnly(b)
    [] b.tag \in {"imageGrid", "imageCarousel", "imageDiff", "webBookmark"} -> b
    [] OTHER -> [b EXCEPT !.kids = <<>>]
=============================================================================
