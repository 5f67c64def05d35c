------------------------------ MODULE ReaderPane ------------------------------
(***************************************************************************)
(* The reader pane: a document laid out as lines of styled spans and as    *)
(* images, and its links found again in what was laid out.                 *)
(*                                                                         *)
(* Two lists of links must agree: the App's, collected from the document,  *)
(* which says where a link leads, and the one the pane finds by looking    *)
(* for accent-coloured, underlined text, which says where on the screen it *)
(* is.  They are matched by position.                                      *)
(*                                                                         *)
(* Every line fits the pane, a character is one column, an image one row   *)
(* or two; nothing is scrolled.  Colours are names, and of the other       *)
(* attributes only underlining and the focus highlight count.              *)
(***************************************************************************)
EXTENDS RichText

-----------------------------------------------------------------------------
(* The App's lists.                                                        *)

\* Mutant: the links of a table are collected too.
RECURSIVE LinksOfAny(_)
LinksOfAny(n) ==
  (IF n.tag = "Link" THEN n.data ELSE <<>>) \o FlatMap(n.kids, LinksOfAny)

\* collect_links and collect_inline_links: the text of tables has no links.
RECURSIVE CollectLinks(_)
CollectLinks(n) ==
  IF n.tag = "Table" THEN <<>>
  ELSE (IF n.tag = "Link" THEN n.data ELSE <<>>) \o FlatMap(n.kids, CollectLinks)

\* Mutant: an aligned block is not looked into.
RECURSIVE CollectUnalignedImages(_)
CollectUnalignedImages(n) ==
  CASE n.tag = "Image" -> {n.data}
    [] n.tag \in {"Table", "Aligned"} -> {}
    [] OTHER -> UNION {CollectUnalignedImages(n.kids[i]) : i \in DOMAIN n.kids}

\* collect_image_sources and collect_inline_images.
RECURSIVE CollectImageSources(_)
CollectImageSources(n) ==
  CASE n.tag = "Image" -> {n.data}
    [] n.tag = "Table" -> {}
    [] OTHER -> UNION {CollectImageSources(n.kids[i]) : i \in DOMAIN n.kids}

-----------------------------------------------------------------------------
(* Text: spans and lines.                                                  *)

Style(fg, underlined) == [fg |-> fg, underlined |-> underlined]
Body         == Style("text", FALSE)
HeadingStyle == Style("accent", FALSE)
Dim          == Style("dim", FALSE)
Bar          == Style("accent2", FALSE)   \* also inline code
Border       == Style("border", FALSE)
Marker       == Style("accent", FALSE)
LinkStyle    == Style("accent", TRUE)

\* A span also knows which link its text belongs to, if any: what a reader sees.
Span(bytes, style, href) ==
  [text |-> bytes, style |-> style, href |-> href, lit |-> FALSE]
Plain(bytes, style) == Span(bytes, style, NoLink)

\* spans_into and run: inner styles add to or replace the outer one.
InnerStyle(n, style) ==
  CASE n.tag \in {"Strong", "Emphasis", "Strike"} -> style
    [] n.tag = "Underline" -> [style EXCEPT !.underlined = TRUE]
    [] n.tag = "Highlight" -> Body
    [] n.tag = "Link" -> LinkStyle

RECURSIVE SpansInto(_, _, _)
SpansInto(n, style, href) ==
  CASE n.tag = "Text" -> <<Span(n.data, style, href)>>
    [] n.tag = "Code" -> <<Span(n.data, Bar, href)>>
    [] n.tag = "Image" -> <<Span(<<"image">>, Dim, href)>>
    [] n.tag = "LineBreak" -> <<Span(<<" ">>, Style("none", FALSE), href)>>
    [] OTHER -> FlatMap(n.kids, LAMBDA k :
                  SpansInto(k, InnerStyle(n, style),
                            IF n.tag = "Link" THEN n.data[1] ELSE href))

\* inline_lines: a line break of the block itself ends a line.
InlineLines(inlines, style) ==
  FoldLeft(LAMBDA lines, n :
             IF n.tag = "LineBreak" THEN Append(lines, <<>>)
             ELSE [lines EXCEPT ![Len(lines)] = @ \o SpansInto(n, style, NoLink)],
           <<<<>>>>, inlines)

\* What a line of a block begins with: a mark, or a bar.
Lead(tag, first) ==
  CASE tag = "Heading" -> <<Plain(IF first THEN <<"#", " ">> ELSE <<>>, Dim)>>
    [] tag = "Item" -> <<Plain(<<IF first THEN "*" ELSE " ", " ">>, Marker)>>
    [] tag \in {"Quote", "Callout"} -> <<Plain(<<"|", " ">>, Bar)>>
    [] OTHER -> <<>>

Led(tag, lines) == [i \in DOMAIN lines |-> Lead(tag, i = 1) \o lines[i]]

ImageLine(n) == <<Plain(<<"image">>, Dim)>>

\* table_lines: the text of the cells, in a frame.
RowLine(r) ==
  FlatMap(r.kids, LAMBDA c :
    <<Plain(<<"|">>, Border),
      Plain(FlatMap(c.kids, FlattenText), IF r.tag = "Head" THEN HeadingStyle ELSE Body)>>)
  \o <<Plain(<<"|">>, Border)>>

TableLines(table) ==
  LET rule == <<Plain(<<"-">>, Border)>>
  IN IF \A i \in DOMAIN table.kids : table.kids[i].kids = <<>> THEN <<>>
     ELSE <<rule>>
          \o FlatMap(table.kids, LAMBDA r :
               <<RowLine(r)>> \o (IF r.tag = "Head" THEN <<rule>> ELSE <<>>))
          \o <<rule>>

\* block_lines.
RECURSIVE BlockLines(_)
BlockLines(b) ==
  CASE b.tag \in {"Heading", "Paragraph", "Callout"} ->
         Led(b.tag, InlineLines(b.kids, IF b.tag = "Heading" THEN HeadingStyle ELSE Body))
    [] b.tag \in {"Quote", "List", "Item", "Aligned"} -> Led(b.tag, FlatMap(b.kids, BlockLines))
    [] b.tag = "CodeBlock" ->
         <<<<Plain(<<"+">>, Border)>>>>
         \o (IF b.data = <<>> THEN <<>>
             ELSE <<<<Plain(<<"|", " ">>, Border), Plain(b.data, Body)>>>>)
         \o <<<<Plain(<<"+">>, Border)>>>>
    [] b.tag \in {"Image", "GalleryRef"} -> <<ImageLine(b)>>
    [] b.tag = "ImageGrid" -> Map(b.kids, ImageLine)
    [] b.tag = "Table" -> TableLines(b)
    [] b.tag = "Rule" -> <<<<Plain(<<"-">>, Border)>>>>

\* blocks_to_text: an empty line between blocks.
BlocksToText(blocks) ==
  FlattenSeq([i \in DOMAIN blocks |->
    (IF i = 1 THEN <<>> ELSE << <<>> >>) \o BlockLines(blocks[i])])

-----------------------------------------------------------------------------
(* Images within a quote or a list.                                        *)

\* contains_image.
RECURSIVE ContainsImage(_)
ContainsImage(b) ==
  CASE b.tag \in {"Image", "ImageGrid"} -> TRUE
    [] b.tag \in {"Paragraph", "Heading"} -> Some(b.kids, LAMBDA n : n.tag = "Image")
    [] b.tag \in {"Quote", "List", "Item", "Aligned"} -> Some(b.kids, ContainsImage)
    [] OTHER -> FALSE

\* strip_block: the block without its images.
RECURSIVE Stripped(_)
Stripped(b) ==
  CASE b.tag \in {"Image", "ImageGrid"} -> Paragraph(<<>>)
    [] b.tag \in {"Paragraph", "Heading"} ->
         [b EXCEPT !.kids = SelectSeq(@, LAMBDA n : n.tag # "Image")]
    [] b.tag \in {"Quote", "List", "Item", "Aligned"} -> [b EXCEPT !.kids = Map(@, Stripped)]
    [] OTHER -> b

\* ... and the images taken out of it, in order.
RECURSIVE Drained(_)
Drained(b) ==
  CASE b.tag = "Image" -> <<b>>
    [] b.tag = "ImageGrid" -> b.kids
    [] b.tag \in {"Paragraph", "Heading"} -> SelectSeq(b.kids, LAMBDA n : n.tag = "Image")
    [] b.tag \in {"Quote", "List", "Item", "Aligned"} -> FlatMap(b.kids, Drained)
    [] OTHER -> <<>>

\* container_has_text.
RECURSIVE ContainerHasText(_)
ContainerHasText(b) ==
  CASE b.tag \in {"Paragraph", "Heading"} -> Some(b.kids, NotBlank)
    [] b.tag \in {"Quote", "List", "Item"} -> Some(b.kids, ContainerHasText)
    [] OTHER -> TRUE

-----------------------------------------------------------------------------
(* Segments: lines and images, each at its row.                            *)

GAP == 1

Segment(kind, lines, images, height) ==
  [kind |-> kind, lines |-> lines, images |-> images, height |-> height]
TextSegment(lines) == Segment("Text", lines, <<>>, Len(lines))

\* callout_segment, without its badge.
CalloutSegment(inlines) ==
  [TextSegment(InlineLines(inlines, Body)) EXCEPT !.kind = "Callout"]

\* image_display_size, its rows: a loaded image is larger than the place kept for it.
DisplayRows(source, loaded) == IF source \in loaded THEN 2 ELSE 1

ImageSegment(kind, image, loaded) ==
  Segment(kind, <<>>, <<image.data>>, DisplayRows(image.data, loaded))

\* grid_cols: of the numbers of columns that fit, one with the fullest last row, the largest.
GridCols(n, most) ==
  LET lastRow(cols) == IF n % cols = 0 THEN cols ELSE n % cols
      fit == {cols \in 1..most : cols <= n}
  IN CHOOSE c \in fit : \A d \in fit :
       lastRow(c) > lastRow(d) \/ (lastRow(c) = lastRow(d) /\ c >= d)

\* grid_layout, its rows: each as high as its highest image, with gaps between.
GridRows(images, cols, loaded) ==
  LET line(i) == (i - 1) \div cols
      tall(l) == Max({DisplayRows(images[i].data, loaded) :
                      i \in {j \in DOMAIN images : line(j) = l}})
  IN FoldSet(LAMBDA l, sum : sum + tall(l) + GAP, -GAP, {line(i) : i \in DOMAIN images})

GridSegment(images, most, loaded) ==
  Segment("Grid", <<>>, Map(images, LAMBDA i : i.data),
          GridRows(images, GridCols(Len(images), most), loaded))

\* Appended below what is there, after a gap, except an image framed by its container.
Placed(segs, seg) ==
  LET gap == IF segs = <<>> \/ seg.kind = "Framed" THEN 0 ELSE GAP
      y   == IF segs = <<>> THEN 0 ELSE Last(segs).top + Last(segs).height
  IN Append(segs, seg @@ [top |-> y + gap])

\* flush_text.
FlushText(acc) ==
  IF acc.run = <<>> THEN acc
  ELSE [segs |-> Placed(acc.segs, TextSegment(BlocksToText(acc.run))), run |-> <<>>]

\* The text of a container without its images, if it has any.
TextWithout(stripped) ==
  IF ContainerHasText(stripped) THEN <<TextSegment(BlockLines(stripped))>> ELSE <<>>

\* build: runs of text blocks are one segment each, between images, callouts and rules.
\* A quote or list with images is its text, then its images.
OwnSegments(b, loaded, most) ==
  CASE b.tag = "Image" -> <<ImageSegment("Image", b, loaded)>>
    [] b.tag \in {"Quote", "List"} ->
         TextWithout(Stripped(b))
         \o Map(Drained(b), LAMBDA i : ImageSegment("Framed", i, loaded))
    [] b.tag = "Callout" -> <<CalloutSegment(b.kids)>>
    [] b.tag = "ImageGrid" ->
         IF b.kids = <<>> THEN <<>> ELSE <<GridSegment(b.kids, most, loaded)>>
    [] b.tag = "Rule" -> <<TextSegment(<<<<Plain(<<"-">>, Border)>>>>)>>

\* Whether a block interrupts the run of text.
StandsAlone(b, showImages) ==
  \/ b.tag \in {"Callout", "Rule"}
  \/ showImages /\ b.tag \in {"Image", "ImageGrid"}
  \/ showImages /\ b.tag \in {"Quote", "List"} /\ ContainsImage(b)

Unaligned(b) == IF b.tag = "Aligned" THEN b.kids[1] ELSE b

Build(blocks, cover, showImages, loaded, most) ==
  FlushText(FoldLeft(
    LAMBDA acc, b :
      IF StandsAlone(Unaligned(b), showImages)
      THEN [FlushText(acc) EXCEPT
              !.segs = FoldLeft(Placed, @, OwnSegments(Unaligned(b), loaded, most))]
      ELSE [acc EXCEPT !.run = Append(@, b)],
    [segs |-> IF ~showImages THEN <<>>
              ELSE FoldLeft(Placed, <<>>,
                            Map(cover, LAMBDA i : ImageSegment("Image", i, loaded))),
     run  |-> <<>>],
    blocks)).segs

-----------------------------------------------------------------------------
(* Finding the links.                                                      *)

\* is_link_span, is_link_cell: also when highlighted.
IsLinkSpan(s) == s.style.fg = "accent" /\ (s.style.underlined \/ s.lit)

\* Spans of a line that begin a run of link-styled ones.
RunStarts(line) ==
  {i \in DOMAIN line : IsLinkSpan(line[i]) /\ (i > 1 => ~IsLinkSpan(line[i - 1]))}

\* The span walk: the runs of the line are counted from idx; the focused one is lit.
Lit(line, focused, idx) ==
  [i \in DOMAIN line |->
     LET occurrence == idx + Cardinality({j \in RunStarts(line) : j <= i}) - 1
     IN IF IsLinkSpan(line[i]) /\ focused = occurrence
        THEN [line[i] EXCEPT !.lit = TRUE, !.style.underlined = FALSE] ELSE line[i]]

\* The line as drawn, one cell per column; spans without text leave none.
Cells(line) ==
  FlatMap(line, LAMBDA s : Map(s.text, LAMBDA c :
    [href |-> s.href, link |-> IsLinkSpan(s), lit |-> s.lit]))

CellStarts(cells) == {c \in DOMAIN cells : cells[c].link /\ (c > 1 => ~cells[c - 1].link)}

\* The cell scan: the runs of link-styled cells of a row, counted from idx.
Rects(cells, row, shift, idx) ==
  {LET end == CHOOSE e \in c..Len(cells) : /\ \A i \in c..e : cells[i].link
                                           /\ e < Len(cells) => ~cells[e + 1].link
   IN [idx |-> idx + Cardinality({j \in CellStarts(cells) : j < c}), row |-> row,
       col |-> c + shift, width |-> end - c + 1]
   : c \in CellStarts(cells)}

\* scan_text_links, one line of it: the count advances by the longer of the two walks.
Counted(acc, spans, cells, row, shift) ==
  LET drawn == Cardinality(CellStarts(cells))
  IN [rects |-> acc.rects \cup Rects(cells, row, shift, acc.idx),
      rows  |-> Append(acc.rows, [row |-> row, shift |-> shift, cells |-> cells]),
      idx   |-> acc.idx + IF spans > drawn THEN spans ELSE drawn]

ScanLine(acc, line, row, shift, focused) ==
  Counted(acc, Cardinality(RunStarts(line)), Cells(Lit(line, focused, acc.idx)), row, shift)

\* locate_and_highlight_links, over all segments; the text of a callout is inset.
LocateAndHighlightLinks(segs, focused) ==
  LET lines(seg) == [i \in DOMAIN seg.lines |->
                       [line |-> seg.lines[i], row |-> seg.top + i - 1,
                        shift |-> IF seg.kind = "Callout" THEN 2 ELSE 0]]
  IN FoldLeft(LAMBDA acc, l : ScanLine(acc, l.line, l.row, l.shift, focused),
              [rects |-> {}, rows |-> <<>>, idx |-> 0], FlatMap(segs, lines))
=============================================================================
