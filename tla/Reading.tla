-------------------------------- MODULE Reading --------------------------------
(***************************************************************************)
(* One post is opened, fetched, shown and read: the worker keeps a copy of *)
(* it, the App its body, its links and its image requests, and the pane    *)
(* lays it out, keeps the layout while nothing relevant changes, and finds *)
(* the links on the screen.  What decoding a record gives, and laying a    *)
(* body out, are parameters; module PostReading has their values.          *)
(*                                                                         *)
(* The worker's commands and answers wait in no particular order, which    *)
(* allows more than its queues do.  Other posts, scrolling and clicks on   *)
(* other panes are left out.                                               *)
(***************************************************************************)
EXTENDS Integers, SequencesExt

CONSTANTS
  Versions,        \* what the record may hold
  Fetched(_),      \* of a version, what fetching it may bring: <<>> or
                   \* <<[blocks, platform, says]>>, where platform is <<>> or <<address>>
  Edits,           \* sets of versions of the same record
  MaxFetches,      \* bound: how often the post is fetched
  MaxOpens,        \* bound: how often each version is opened
  BodyShown(_, _), \* the body the App shows for blocks, of a post listed as a version
  BodyLinks(_),    \* the addresses in a body
  BodyImages(_),   \* the images of a body
  CoverOf(_),      \* the cover of a version: <<>> or <<image>>
  Segments(_, _, _, _, _), \* a body laid out with its cover; [images] among other things
  LinksFound(_, _), \* of segments and the focused link: [rows, rects], the rows as
                   \* [row, shift, cells], a cell with its [href, lit]
  WellLinked(_),   \* bodies whose links are text, apart from each other
  NoHref           \* the href of text that is no link

\* fetch_and_cache_doc.
FetchAndCacheDoc == [v \in Versions |-> Fetched(v)]

Openable == {v \in Versions : MaxOpens[v] > 0}

\* A fetch brings one document or none; links are text.
ASSUME ReadingAssumption ==
  /\ 0 \notin Versions /\ \A E \in Edits : E \subseteq Versions
  /\ MaxFetches \in Nat /\ \A v \in Versions : MaxOpens[v] \in Nat
  /\ \A v \in Versions : \A doc \in FetchAndCacheDoc[v] :
       doc # <<>> =>
         /\ doc = <<doc[1]>>
         /\ doc[1].platform \in Seq(STRING) /\ Len(doc[1].platform) <= 1
         /\ \A w \in Openable : BodyLinks(BodyShown(doc[1].blocks, w)) \in Seq(STRING)

VARIABLES
  post,                \* the record as published now, one of Versions
  stored,              \* the worker's copy: <<>> or what a fetch brought
  wanted,              \* commands waiting for the worker: "open", "freshen"
  answer,              \* a Doc event waiting for the App: <<>> or <<[doc, fromCache]>>
  fetches, opens,      \* how often so far
  opened,              \* the post as it was listed when it was opened, or 0
  reading, readingPlatform, readingVersion, freshened,
  links, focusedLink, attributionLink, attributionVisible, attributionRect, linkRects,
  showImages, requested,   \* the switch, and the images ever requested
  images,              \* those loaded
  readerCache,         \* the kept layout: <<>> or <<[key, rows, placed]>>
  frame                \* "drawn", "touched" by input since, or "drained" of answers

workerVars  == <<post, stored, fetches>>
bodyVars    == <<opened, reading, readingPlatform, readingVersion, freshened>>
linkVars    == <<links, focusedLink, attributionLink, attributionVisible, linkRects>>
imageVars   == <<showImages, requested>>
screenVars  == <<attributionRect, readerCache>>
readingVars == <<workerVars, wanted, answer, opens, bodyVars, linkVars, imageVars, images,
                 screenVars, frame>>

NoFocus == -1

\* The worker may have a copy of an earlier session.
ReadingInit ==
  /\ post \in Versions /\ stored \in FetchAndCacheDoc[post] \cup {<<>>} /\ fetches = 0
  /\ wanted = {} /\ answer = <<>> /\ opens = 0
  /\ opened = 0 /\ reading = <<>> /\ readingPlatform = <<>>
  /\ readingVersion = 0 /\ freshened = FALSE
  /\ links = <<>> /\ focusedLink = NoFocus /\ attributionLink = NoFocus
  /\ attributionVisible = FALSE /\ attributionRect = FALSE /\ linkRects = {}
  /\ showImages \in BOOLEAN /\ requested = {} /\ images = {}
  /\ readerCache = <<>> /\ frame = "drawn"

-----------------------------------------------------------------------------
(* The author and the worker.                                              *)

EditPost ==
  /\ \E E \in Edits : /\ post \in E
                      /\ post' \in E \ {post}
  /\ UNCHANGED <<stored, fetches, wanted, answer, opens, bodyVars, linkVars, imageVars, images,
                 screenVars, frame>>

\* open_doc of the worker: the copy if there is one.
ServeOpen ==
  /\ "open" \in wanted /\ answer = <<>>
  /\ wanted' = wanted \ {"open"}
  /\ \/ /\ stored # <<>>
        /\ answer' = <<[doc |-> stored[1], fromCache |-> TRUE]>>
        /\ UNCHANGED <<stored, fetches>>
     \/ /\ stored = <<>> /\ fetches < MaxFetches
        /\ fetches' = fetches + 1
        /\ \E doc \in FetchAndCacheDoc[post] :
             /\ stored' = doc
             /\ answer' = IF doc = <<>> THEN <<>> ELSE <<[doc |-> doc[1], fromCache |-> FALSE]>>
  /\ UNCHANGED <<post, opens, bodyVars, linkVars, imageVars, images, screenVars, frame>>

\* freshen_doc: an answer only if something is new.
ServeFreshen ==
  /\ "freshen" \in wanted /\ answer = <<>> /\ fetches < MaxFetches
  /\ wanted' = wanted \ {"freshen"}
  /\ fetches' = fetches + 1
  /\ \E doc \in FetchAndCacheDoc[post] :
       /\ stored' = IF doc = <<>> THEN stored ELSE doc
       /\ answer' = IF \/ doc = <<>>
                       \/ /\ doc[1].blocks = stored[1].blocks
                          /\ doc[1].platform = stored[1].platform
                    THEN <<>> ELSE <<[doc |-> doc[1], fromCache |-> FALSE]>>
  /\ UNCHANGED <<post, opens, bodyVars, linkVars, imageVars, images, screenVars, frame>>

\* load_image, and the App's Image events: all that wait arrive in one frame.
LoadImages ==
  /\ requested # images
  /\ images' = requested
  /\ frame' = "drained"
  /\ UNCHANGED <<workerVars, wanted, answer, opens, bodyVars, linkVars, imageVars, screenVars>>

-----------------------------------------------------------------------------
(* The App: a frame takes input, then drains the worker's answers, then is *)
(* drawn.                                                                  *)

Touch   == frame # "drained" /\ frame' = "touched"
Current == frame = "drawn"

\* append_attribution_link, behind the body's links; a platform stands for its address.
AppendAttribution(hrefs, platform) ==
  /\ links' = hrefs \o platform
  /\ attributionLink' = IF platform = <<>> THEN NoFocus ELSE Len(hrefs)

\* open_doc of the App.  The list may not know the last edit, or the platform.
OpenDoc ==
  /\ Touch
  /\ opens < MaxOpens[post]
  /\ opens' = opens + 1
  /\ opened' \in {post, opened} \ {0}
  /\ readingPlatform' \in {<<>>} \cup {stored[i].platform : i \in DOMAIN stored}
  /\ reading' = <<>>
  /\ AppendAttribution(<<>>, readingPlatform')
  /\ focusedLink' = NoFocus /\ attributionVisible' = FALSE /\ linkRects' = {}
  /\ requested' = requested \cup (IF showImages THEN ToSet(CoverOf(opened')) ELSE {})
  /\ wanted' = wanted \cup {"open"}
  /\ UNCHANGED <<workerVars, answer, readingVersion, freshened, showImages, images,
                 screenVars>>

\* rebuild_links.
RebuildLinks(body, platform, preserveFocus) ==
  /\ AppendAttribution(BodyLinks(body), platform)
  /\ focusedLink' = IF preserveFocus /\ focusedLink < Len(links') THEN focusedLink
                    ELSE NoFocus
  /\ attributionVisible' = FALSE /\ linkRects' = {} /\ readerCache' = <<>>

\* The Doc event.
ApplyDoc ==
  /\ answer # <<>>
  /\ LET doc       == answer[1].doc
         fromCache == answer[1].fromCache
         body      == BodyShown(doc.blocks, opened)
     IN /\ readingPlatform' = doc.platform
        /\ \/ /\ reading # <<body>>
              /\ requested' = requested \cup (IF showImages THEN BodyImages(body) ELSE {})
              /\ RebuildLinks(body, doc.platform, FALSE)
              /\ reading' = <<body>>
              /\ readingVersion' = readingVersion + 1
           \/ /\ reading = <<body>>
              /\ IF readingPlatform # doc.platform
                 THEN RebuildLinks(body, doc.platform, TRUE)
                 ELSE UNCHANGED <<linkVars, readerCache>>
              /\ UNCHANGED <<reading, readingVersion, requested>>
        /\ freshened' = (freshened \/ fromCache)
        /\ wanted' = wanted \cup (IF fromCache /\ ~freshened THEN {"freshen"} ELSE {})
  /\ answer' = <<>>
  /\ frame' = "drained"
  /\ UNCHANGED <<workerVars, opens, opened, showImages, images, attributionRect>>

\* request_current_images.
RequestCurrentImages ==
  requested' = requested \cup (UNION {BodyImages(reading[i]) : i \in DOMAIN reading})
                 \cup (IF opened = 0 THEN {} ELSE ToSet(CoverOf(opened)))

\* toggle_images.
ToggleImages ==
  /\ Touch
  /\ showImages' = ~showImages
  /\ IF showImages' THEN RequestCurrentImages ELSE UNCHANGED requested
  /\ UNCHANGED <<workerVars, wanted, answer, opens, bodyVars, linkVars, images, screenVars>>

\* navigable_link_count: without an attribution that does not show.
NavigableLinks ==
  IF attributionLink # NoFocus /\ ~attributionVisible THEN attributionLink ELSE Len(links)

\* focus_link.
FocusLink(delta) ==
  LET n == NavigableLinks
  IN /\ Touch /\ n > 0
     /\ focusedLink' = IF focusedLink \in 0..(n - 1) THEN (focusedLink + delta) % n
                       ELSE IF delta < 0 THEN n - 1 ELSE 0
     /\ UNCHANGED <<workerVars, wanted, answer, opens, bodyVars, links, attributionLink,
                    attributionVisible, linkRects, imageVars, images, screenVars>>

\* draw: a pane too narrow for the attribution hides it.  Nothing is laid out before the
\* body is there; after that, again if the pane, the switch, the body, an image or the focus
\* changed.
PlacedIn(segs) == UNION {ToSet(segs[i].images) : i \in DOMAIN segs}

\* The segments are laid out, and their links found.
LayOut(segs, key) ==
  \E found \in {LinksFound(segs, focusedLink')} :
    /\ readerCache' = <<[key |-> key, rows |-> found.rows, placed |-> PlacedIn(segs)]>>
    /\ linkRects' = found.rects

Draw(width) ==
  /\ attributionVisible' = (readingPlatform # <<>> /\ width = "wide")
  /\ attributionRect' = (attributionVisible' /\ attributionLink # NoFocus)
  /\ LET drops == ~attributionVisible' /\ attributionLink # NoFocus
                  /\ focusedLink = attributionLink
         cache == IF drops THEN <<>> ELSE readerCache
         key   == <<width, showImages, readingVersion, images, focusedLink'>>
     IN /\ focusedLink' = IF drops THEN NoFocus ELSE focusedLink
        /\ IF reading = <<>> \/ (cache # <<>> /\ cache[1].key = key)
           THEN readerCache' = cache /\ UNCHANGED linkRects
           ELSE LayOut(Segments(reading[1], opened, showImages, images,
                                IF width = "wide" THEN 2 ELSE 1), key)
  /\ frame' = "drawn"
  /\ UNCHANGED <<workerVars, wanted, answer, opens, bodyVars, links, attributionLink,
                 imageVars, images>>

ReadingNext ==
  \/ EditPost
  \/ ServeOpen
  \/ ServeFreshen
  \/ LoadImages
  \/ OpenDoc
  \/ ApplyDoc
  \/ ToggleImages
  \/ \E delta \in {1, -1} : FocusLink(delta)
  \/ \E width \in {"wide", "narrow"} : Draw(width)

ReadingSpec == ReadingInit /\ [][ReadingNext]_readingVars

-----------------------------------------------------------------------------
(* What a click and Enter open.                                            *)

\* An entry of links, counted from 0; rects may hold numbers it has no entry for.
HrefAt(idx) == IF idx \in 0..(Len(links) - 1) THEN links[idx + 1] ELSE NoHref

\* link_at, of a place in the body: the number of the first rectangle it is in.
Over(rects, row, col) == {r \in rects : r.row = row /\ col \in r.col..(r.col + r.width - 1)}

FirstOf(rects) == (CHOOSE r \in rects : \A q \in rects : r.idx <= q.idx).idx

LinkAt(row, col) ==
  LET over == Over(linkRects, row, col)
  IN IF over = {} THEN NoHref ELSE HrefAt(FirstOf(over))

\* open_focused_link: not an attribution that does not show.
FocusedHref ==
  IF focusedLink = attributionLink /\ ~attributionVisible THEN NoHref ELSE HrefAt(focusedLink)

\* The text laid out, cell by cell.
CellsOf(rows) ==
  UNION {{[row |-> line.row, col |-> c + line.shift, cell |-> line.cells[c]]
          : c \in DOMAIN line.cells} : line \in ToSet(rows)}

LaidOut == UNION {CellsOf(readerCache[i].rows) : i \in DOMAIN readerCache}

-----------------------------------------------------------------------------
(* Properties.                                                             *)

ReadingTypeOK ==
  /\ post \in Versions /\ opened \in {0} \cup Versions
  /\ wanted \subseteq {"open", "freshen"}
  /\ fetches \in 0..MaxFetches /\ \E v \in Versions : opens \in 0..MaxOpens[v]
  /\ Len(stored) <= 1 /\ Len(answer) <= 1 /\ Len(reading) <= 1 /\ Len(readerCache) <= 1
  /\ readingVersion \in Nat /\ freshened \in BOOLEAN /\ showImages \in BOOLEAN
  /\ focusedLink \in NoFocus..(Len(links) - 1)
  /\ attributionLink \in {NoFocus, Len(links) - 1}
  /\ attributionVisible \in BOOLEAN /\ attributionRect \in BOOLEAN
  /\ images \subseteq requested /\ frame \in {"drawn", "touched", "drained"}

\* After a drawing with images on, every image that has a place has been asked for: a frame
\* that nothing will ever fill does not appear (app.rs request_body_images,
\* request_current_images against reader.rs build).
PlacedImagesAreRequested ==
  Current /\ showImages /\ reading # <<>> => readerCache[1].placed \subseteq requested

\* In a post whose links are text apart from each other, a click opens the address of the
\* very text it hits, or nothing; after a drawing of the body, exactly that.  The text that
\* is lit is that of the link Enter opens, and an attribution that has the focus shows
\* (app.rs link_at, open_focused_link; reader.rs draw).
ClickOpensWhatIsShown ==
  frame # "drained" /\ (reading # <<>> => WellLinked(reading[1])) =>
    LET drawn == Current /\ reading # <<>>
    IN /\ \A p \in LaidOut :
            LET at == LinkAt(p.row, p.col)
            IN /\ at \in {NoHref, p.cell.href}
               /\ drawn => at = p.cell.href /\ (p.cell.lit => FocusedHref = p.cell.href)
       /\ Current /\ attributionRect => <<HrefAt(attributionLink)>> = readingPlatform
       /\ drawn /\ focusedLink # NoFocus =>
            \/ attributionRect /\ focusedLink = attributionLink
            \/ \E p \in LaidOut : p.cell.lit
=============================================================================
