---------------------------- MODULE MarkupDecoders ----------------------------
(***************************************************************************)
(* The decoders of markup: WordPress HTML and the Markdown of plain        *)
(* strings, markpub and Unthread.                                          *)
(*                                                                         *)
(* The parsers are libraries.  HTML comes as its tree, an element [tag,    *)
(* data, kids] with an address as its data, or "#text" with the characters *)
(* as its data.  Markdown comes as pulldown-cmark's events, here those of  *)
(* the tree that was written.                                              *)
(***************************************************************************)
EXTENDS RichText

-----------------------------------------------------------------------------
(* HTML.                                                                   *)

BlockTags == {"p", "h1", "ul", "ol", "blockquote", "pre", "hr", "img", "figure", "div", "table"}

\* tag_text: the characters inside, whatever the elements around them.
RECURSIVE TagText(_)
TagText(e) ==
  IF e.tag = "#text" THEN e.data
  ELSE IF e.tag = "#comment" THEN <<>> ELSE FlatMap(e.kids, TagText)

\* attr: the address of an element, if it has one.
HrefAttr(e) == IF e.data = <<>> THEN "" ELSE e.data[1]

\* inline_from_tag, and the text of inline_children: unknown elements are what they hold.
RECURSIVE InlineOf(_)
InlineOf(e) ==
  LET inside == FlatMap(e.kids, InlineOf)
  IN CASE e.tag = "#text" -> PushText(e.data)
       [] e.tag = "#comment" -> <<>>
       [] e.tag = "strong" -> <<Node("Strong", <<>>, inside)>>
       [] e.tag = "em" -> <<Node("Emphasis", <<>>, inside)>>
       [] e.tag = "del" -> <<Node("Strike", <<>>, inside)>>
       [] e.tag = "code" -> <<CodeSpan(TagText(e))>>
       [] e.tag = "a" -> <<Link(HrefAttr(e), inside)>>
       [] e.tag = "br" -> <<LineBreak>>
       [] e.tag = "img" -> Map(e.data, LAMBDA src : Image(<<src>>))
       [] OTHER -> inside

\* flush_paragraph: loose inline content is a paragraph, unless all of it is blank.
FlushParagraph(acc) ==
  [out |-> IF Some(acc.buf, NotBlank) THEN Append(acc.out, Paragraph(acc.buf)) ELSE acc.out,
   buf |-> <<>>]

\* The end of children_to_blocks.
Flushed(acc) == FlushParagraph(acc).out

\* children_to_blocks and block_from_tag: blocks interrupt the loose inline content
\* between them; elements without a meaning of their own are transparent.
RECURSIVE ChildrenToBlocks(_)
BlockFromTag(e, inlines) ==
  CASE e.tag = "p" -> IF Some(inlines, NotBlank) THEN <<Paragraph(inlines)>> ELSE <<>>
    [] e.tag = "h1" -> <<Heading(inlines)>>
    [] e.tag = "blockquote" -> <<Quote(ChildrenToBlocks(e.kids))>>
    [] e.tag \in {"ul", "ol"} ->
         <<List(Map(SelectSeq(e.kids, LAMBDA k : k.tag = "li"),
                    LAMBDA li : Item(ChildrenToBlocks(li.kids))))>>
    [] e.tag = "pre" -> <<CodeBlock(TagText(e))>>
    [] e.tag = "hr" -> <<Rule>>
    [] e.tag = "img" -> Map(e.data, LAMBDA src : Image(<<src>>))
    [] OTHER -> ChildrenToBlocks(e.kids)

ChildrenToBlocks(elements) ==
  Flushed(FoldLeft(LAMBDA acc, e :
                     IF e.tag \in BlockTags
                     THEN [FlushParagraph(acc) EXCEPT
                             !.out = @ \o BlockFromTag(e, FlatMap(e.kids, InlineOf))]
                     ELSE [acc EXCEPT !.buf = @ \o InlineOf(e)],
                   [out |-> <<>>, buf |-> <<>>], elements))

\* Wordpress::decode: defers without HTML.
HtmlDecode(content) == IF content.complete THEN <<ChildrenToBlocks(content.body)>> ELSE <<>>

\* What the elements say; outside the items of a list, a list says nothing.
RECURSIVE HtmlSays(_, _)
HtmlSays(e, href) ==
  CASE e.tag = "#text" -> SaysBytes(e.data, href)
    [] e.tag = "#comment" -> <<>>
    [] e.tag = "img" -> Map(e.data, LAMBDA src : Said(src, href))
    [] e.tag \in {"code", "pre"} -> SaysBytes(TagText(e), href)
    [] e.tag \in {"ul", "ol"} -> FlatMap(SelectSeq(e.kids, LAMBDA k : k.tag = "li"),
                                         LAMBDA li : HtmlSays(li, href))
    [] OTHER -> FlatMap(e.kids, LAMBDA k :
                  HtmlSays(k, IF e.tag = "a" THEN HrefAttr(e) ELSE href))

-----------------------------------------------------------------------------
(* Markdown.                                                               *)

Leaves == {"Text", "Code", "SoftBreak", "HardBreak", "Rule"}
Event(event, tag, data) == [event |-> event, tag |-> tag, data |-> data]

\* External: the events of a tree.
RECURSIVE Events(_)
Events(n) ==
  IF n.tag \in Leaves THEN <<Event("Leaf", n.tag, n.data)>>
  ELSE <<Event("Start", n.tag, n.data)>> \o FlatMap(n.kids, Events)
       \o <<Event("End", n.tag, <<>>)>>

\* The open containers, outermost first, are nodes still growing.
Frames == {"Paragraph", "Heading", "Quote", "List", "Item", "CodeBlock", "Strong", "Emphasis",
           "Strike", "Link", "Image"}
HoldsInlines == {"Paragraph", "Heading", "Strong", "Emphasis", "Strike", "Link"}

Grown(stack, n) == [stack EXCEPT ![Len(stack)].kids = Append(@, n)]

\* push_block: blocks belong in blocks only.
PushBlock(stack, b) ==
  IF Last(stack).tag \in {"Root", "Quote", "Item"} THEN Grown(stack, b) ELSE stack

\* push_inline: each piece of loose text gets a paragraph of its own.
PushInline(stack, n) ==
  IF Last(stack).tag \in HoldsInlines THEN Grown(stack, n)
  ELSE PushBlock(stack, Paragraph(<<n>>))

\* push_item.
PushItem(stack, n) == IF Last(stack).tag = "List" THEN Grown(stack, n) ELSE stack

\* text: code collects its lines; of an image, its alternative text is left out here.
PushChars(stack, bytes) ==
  CASE Last(stack).tag = "CodeBlock" -> [stack EXCEPT ![Len(stack)].data = @ \o bytes]
    [] Last(stack).tag = "Image" -> stack
    [] OTHER -> PushInline(stack, Text(bytes))

\* start: unknown containers are paragraphs.
StartFrame(stack, e) ==
  Append(stack, IF e.tag \in Frames THEN Node(e.tag, e.data, <<>>) ELSE Paragraph(<<>>))

\* end: the last line of code loses its line end.
EndFrame(stack) ==
  LET n == Last(stack)  rest == Front(stack)
  IN CASE n.tag = "Root" -> stack
       [] n.tag \in {"Paragraph", "Heading", "Quote", "List"} -> PushBlock(rest, n)
       [] n.tag = "CodeBlock" ->
            PushBlock(rest, IF n.data # <<>> /\ Last(n.data) = "\n"
                            THEN [n EXCEPT !.data = Front(@)] ELSE n)
       [] n.tag = "Item" -> PushItem(rest, n)
       [] OTHER -> PushInline(rest, n)

Handle(stack, e) ==
  CASE e.event = "Start" -> StartFrame(stack, e)
    [] e.event = "End" -> EndFrame(stack)
    [] e.tag = "Text" -> PushChars(stack, e.data)
    [] e.tag = "Code" -> PushInline(stack, CodeSpan(e.data))
    [] e.tag = "SoftBreak" -> PushChars(stack, <<" ">>)
    [] e.tag = "HardBreak" -> PushInline(stack, LineBreak)
    [] e.tag = "Rule" -> PushBlock(stack, Rule)

\* finish: containers still open are closed.
RECURSIVE Finish(_)
Finish(stack) == IF Len(stack) = 1 THEN stack[1].kids ELSE Finish(EndFrame(stack))

IsFiller(n) == n.tag = "LineBreak" \/ IsBlank(n)
HasReal(inlines) == Some(inlines, LAMBDA n : ~IsFiller(n))

PushImages(out, images) ==
  CASE images = <<>> -> out
    [] Len(images) = 1 -> Append(out, images[1])
    [] OTHER -> Append(out, ImageGrid(images))

PushReal(out, text) == IF HasReal(text) THEN Append(out, Paragraph(text)) ELSE out

\* hoist_images: a top-level paragraph is split around the images it holds; several in a
\* row are a grid.
HoistInline(acc, n) ==
  CASE n.tag = "Image" ->
         [out |-> PushReal(acc.out, acc.text), text |-> <<>>, images |-> Append(acc.images, n)]
    [] IsFiller(n) -> [acc EXCEPT !.text = Append(@, n)]
    [] OTHER -> [out |-> PushImages(acc.out, acc.images), text |-> Append(acc.text, n),
                 images |-> <<>>]

Hoisted(acc) == PushReal(PushImages(acc.out, acc.images), acc.text)

HoistImages(blocks) ==
  FlatMap(blocks, LAMBDA b :
    IF b.tag # "Paragraph" THEN <<b>>
    ELSE Hoisted(FoldLeft(HoistInline, [out |-> <<>>, text |-> <<>>, images |-> <<>>],
                          b.kids)))

\* from_markdown.
FromMarkdown(source) ==
  HoistImages(Finish(FoldLeft(Handle, <<Node("Root", <<>>, <<>>)>>, FlatMap(source, Events))))

\* Markdown::decode and Unthread::decode: defer without text.
MarkdownDecode(content) == IF content.complete THEN <<FromMarkdown(content.body)>> ELSE <<>>

\* What the source says; raw HTML says nothing.
RECURSIVE MarkdownSays(_, _)
MarkdownSays(n, href) ==
  CASE n.tag \in {"Text", "Code"} -> SaysBytes(n.data, href)
    [] n.tag = "Image" -> Says(n.data[1], href)
    [] OTHER -> FlatMap(n.kids, LAMBDA k :
                  MarkdownSays(k, IF n.tag = "Link" THEN n.data[1] ELSE href))
=============================================================================
