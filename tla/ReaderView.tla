----------------------------- MODULE ReaderView -----------------------------
(***************************************************************************)
(* What the reader sees: the App folds the worker's events into the open   *)
(* feed's list, the open post, its read markers and the unread badges.     *)
(*                                                                         *)
(* The two run on their own threads (or the main thread and a web worker)  *)
(* and share nothing but two FIFO channels, so every event tells of a      *)
(* moment the App may have moved on from.  The worker handles one command  *)
(* at a time; since the App only sees its events, one step per command is  *)
(* as good as many.  A body is the edition of the post it was decoded      *)
(* from.  What a listing does to the cache is FeedSync's matter: here it   *)
(* may add any documents and drop any bodies.                              *)
(***************************************************************************)
EXTENDS Integers, FiniteSets, SequencesExt

CONSTANTS
  Feeds,      \* followed publications
  Docs,       \* documents
  FeedOf,     \* document -> the publication it belongs to
  Nothing,    \* no publication, no document
  MaxEdition, \* bound: the last edition of a post
  MaxInputs   \* bound: how often the reader presses a key

ASSUME ConstantsAssumption ==
  /\ IsFiniteSet(Docs) /\ FeedOf \in [Docs -> Feeds]
  /\ Nothing \notin Feeds \cup Docs /\ Feeds \cap Docs = {}
  /\ MaxEdition \in Nat \ {0} /\ MaxInputs \in Nat

VARIABLES
  edition,    \* the author's current edition of each post
  \* the store, as the worker uses it
  cached,     \* documents with a metadata entry
  body,       \* document -> edition of its cached body, NoBody when it has none
  read,       \* documents marked read
  networkOk,  \* Ctx::network_ok
  \* the channels
  inbox,      \* commands to the worker
  events,     \* results to the App
  \* the App
  mode,       \* Browse or DocList
  openPub,    \* open_pub
  shown,      \* docs: the list on screen
  readingUri, \* reading_uri: the post whose title is on screen
  reading,    \* the post's body on screen, of which document and edition
  readUris,   \* read_uris: documents without an unread marker
  unread,     \* unread_counts: the badges
  freshened,  \* posts already freshened in this session
  loading,
  inputs,     \* keys pressed so far
  \* history
  failed      \* feeds and posts whose last request was answered with an error

store == <<cached, body, read>>
view == <<mode, openPub, shown, readingUri, reading, readUris, unread, freshened, loading>>
vars == <<edition, store, networkOk, inbox, events, view, inputs, failed>>

NoBody    == 0
NoReading == [doc |-> Nothing, edition |-> NoBody]
DocsOf(f) == {d \in Docs : FeedOf[d] = f}
CachedOf(f) == cached \cap DocsOf(f)
UnreadOf(f) == Cardinality(CachedOf(f) \ read)

TypeOK ==
  /\ edition \in [Docs -> 1..MaxEdition]
  /\ cached \subseteq Docs /\ read \subseteq cached
  /\ body \in [Docs -> NoBody..MaxEdition]
  /\ \A d \in Docs : body[d] # NoBody => d \in cached
  /\ networkOk \in BOOLEAN /\ loading \in BOOLEAN /\ failed \subseteq Feeds \cup Docs
  /\ mode \in {"Browse", "DocList"}
  /\ openPub \in Feeds \cup {Nothing}
  /\ shown \subseteq cached /\ readUris \subseteq cached
  /\ readingUri \in cached \cup {Nothing} /\ freshened \subseteq cached
  /\ reading = NoReading \/ (reading.doc \in cached /\ reading.edition \in 1..MaxEdition)
  /\ unread \in [Feeds -> 0..Cardinality(Docs)]
  /\ inputs \in 0..MaxInputs

\* Messages: what is asked or told, of what.
Msg(what, of) == [what |-> what, of |-> of]
FeedsEvent  == Msg("Feeds", [f \in Feeds |-> UnreadOf(f)])
DocsEvent(f, docs, marks) == Msg("Docs", [feed |-> f, docs |-> docs, read |-> marks])
DocEvent(d, e, cachedBody) == Msg("Doc", [doc |-> d, edition |-> e, fromCache |-> cachedBody])
ErrorEvent  == Msg("Error", Nothing)

\* The App starts on a cache left by earlier sessions, whose bodies are those of
\* posts opened and so read; the home list has come.
Init ==
  /\ edition = [d \in Docs |-> 1]
  /\ cached \in SUBSET Docs
  /\ read \in SUBSET cached
  /\ body \in [Docs -> {NoBody, 1}] /\ \A d \in Docs \ read : body[d] = NoBody
  /\ networkOk = TRUE
  /\ inbox = <<>> /\ events = <<>>
  /\ mode = "Browse" /\ openPub = Nothing /\ shown = {}
  /\ readingUri = Nothing /\ reading = NoReading
  /\ readUris = {} /\ unread = [f \in Feeds |-> UnreadOf(f)] /\ freshened = {}
  /\ loading = FALSE /\ inputs = 0 /\ failed = {}

\* The author edits a post.
Edit(d) ==
  /\ edition[d] < MaxEdition
  /\ edition' = [edition EXCEPT ![d] = @ + 1]
  /\ UNCHANGED <<store, networkOk, inbox, events, view, inputs, failed>>

-----------------------------------------------------------------------------
(* The reader's keys.                                                      *)

\* A key that sends a command, or none.
Input(commands) ==
  /\ inputs < MaxInputs
  /\ inputs' = inputs + 1
  /\ inbox' = inbox \o commands
  /\ UNCHANGED <<edition, store, networkOk, events, failed>>

\* open_feed: the list is emptied; the layout decides whether it takes over.
OpenFeed(f) ==
  /\ Input(<<Msg("OpenFeed", f)>>)
  /\ openPub' = f /\ shown' = {} /\ loading' = TRUE
  /\ mode' \in {"Browse", "DocList"}
  /\ UNCHANGED <<readingUri, reading, readUris, unread, freshened>>

\* Esc in the post list, back to the feeds.
LeaveList ==
  /\ mode = "DocList"
  /\ Input(<<>>)
  /\ mode' = "Browse" /\ openPub' = Nothing
  /\ UNCHANGED <<shown, readingUri, reading, readUris, unread, freshened, loading>>

OpenDoc(d) ==
  /\ d \in shown
  /\ Input(<<Msg("OpenDoc", d)>>)
  /\ readingUri' = d /\ reading' = NoReading /\ loading' = TRUE /\ mode' = "Browse"
  /\ UNCHANGED <<openPub, shown, readUris, unread, freshened>>

\* Mutant: a count of nothing is decremented.
NoteReadUnsaturated(d) ==
  /\ readUris' = readUris \cup {d}
  /\ unread' = IF d \notin readUris /\ openPub # Nothing
               THEN [unread EXCEPT ![openPub] = @ - 1] ELSE unread

\* note_read: the marker goes, and the open feed's badge counts one less.
NoteRead(d) ==
  /\ readUris' = readUris \cup {d}
  /\ unread' = IF d \notin readUris /\ openPub # Nothing /\ unread[openPub] > 0
               THEN [unread EXCEPT ![openPub] = @ - 1] ELSE unread

\* Mutant: the worker is not told.
MarkReadHere ==
  /\ mode = "Browse" /\ readingUri # Nothing
  /\ Input(<<>>)
  /\ NoteRead(readingUri)
  /\ UNCHANGED <<mode, openPub, shown, readingUri, reading, freshened, loading>>

MarkRead ==
  /\ mode = "Browse" /\ readingUri # Nothing
  /\ Input(<<Msg("SetRead", readingUri)>>)
  /\ NoteRead(readingUri)
  /\ UNCHANGED <<mode, openPub, shown, readingUri, reading, freshened, loading>>

\* Mutant: the selected feed is refreshed without being opened.
RefreshSelected(f) ==
  /\ mode = "Browse"
  /\ Input(<<Msg("Refresh", f)>>)
  /\ loading' = TRUE
  /\ UNCHANGED <<mode, openPub, shown, readingUri, reading, readUris, unread, freshened>>

\* refresh_current_feed opens the selected feed and leaves the list as it is.
Refresh(f) ==
  /\ mode = "Browse"
  /\ Input(<<Msg("Refresh", f)>>)
  /\ openPub' = f /\ loading' = TRUE
  /\ UNCHANGED <<mode, shown, readingUri, reading, readUris, unread, freshened>>

LoadOlder ==
  /\ openPub # Nothing
  /\ Input(<<Msg("LoadOlder", openPub)>>)
  /\ UNCHANGED view

Search ==
  /\ Input(<<Msg("Search", Nothing)>>)
  /\ openPub' = Nothing /\ loading' = TRUE /\ mode' = "Browse"
  /\ UNCHANGED <<shown, readingUri, reading, readUris, unread, freshened>>

\* Following and unfollowing end with the home list (Subscriptions).
ChangeFollows == Input(<<Msg("LoadHome", Nothing)>>) /\ UNCHANGED view

-----------------------------------------------------------------------------
(* The worker.                                                             *)

Handle(what, results) ==
  /\ inbox # <<>> /\ Head(inbox).what = what
  /\ inbox' = Tail(inbox)
  /\ events' = events \o results
  /\ UNCHANGED <<edition, view, inputs>>

LoadHome ==
  /\ Handle("LoadHome", <<FeedsEvent>>)
  /\ UNCHANGED <<store, networkOk, failed>>

\* A listing caches any documents and drops any bodies.
Listing ==
  \E new \in SUBSET (Docs \ cached), lost \in SUBSET Docs :
    /\ cached' = cached \cup new
    /\ body' = [d \in Docs |-> IF d \in lost THEN NoBody ELSE body[d]]

\* Open_feed serves the cache first, if there is any.
CachedFirst(f) ==
  IF CachedOf(f) = {} THEN <<>>
  ELSE <<DocsEvent(f, CachedOf(f), read \cap CachedOf(f))>>

\* serve_docs, after the store has changed.
ServeDocs(f) == DocsEvent(f, cached' \cap DocsOf(f), read \cap DocsOf(f))

\* The request for x was answered, or failed.
Answered(x) == failed' = failed \ {x}
Failed(x)   == failed' = failed \cup {x}

\* refresh_docs; a walk may fail after its first pages are cached.
RefreshDocs(what, served) ==
  /\ inbox # <<>> /\ Head(inbox).what = what
  /\ Listing
  /\ LET f == Head(inbox).of
     IN \/ Handle(what, served \o <<ServeDocs(f)>>) /\ networkOk' = TRUE /\ Answered(f)
        \/ Handle(what, served \o <<ErrorEvent>>) /\ UNCHANGED networkOk /\ Failed(f)
  /\ UNCHANGED read

\* OpenFeed serves the cache first.
ServeFeed == inbox # <<>> /\ RefreshDocs("OpenFeed", CachedFirst(Head(inbox).of))

\* Nothing older is left, or a window is listed, or the request fails.
ServeOlder ==
  /\ inbox # <<>> /\ Head(inbox).what = "LoadOlder"
  /\ LET f == Head(inbox).of
     IN \/ Handle("LoadOlder", <<>>) /\ UNCHANGED <<cached, body, failed>>
        \/ Listing /\ Handle("LoadOlder", <<ServeDocs(f)>>) /\ Answered(f)
        \/ Handle("LoadOlder", <<ErrorEvent>>) /\ UNCHANGED <<cached, body>> /\ Failed(f)
  /\ UNCHANGED <<read, networkOk>>

\* fetch_and_cache_doc: the current edition is decoded and cached.
FetchAndCacheDoc(d) ==
  /\ cached' = cached \cup {d}
  /\ body' = [body EXCEPT ![d] = edition[d]]
  /\ networkOk' = TRUE

\* Mutant: an error is dropped.
ServeDocQuietly ==
  /\ inbox # <<>> /\ Head(inbox).what = "OpenDoc"
  /\ LET d == Head(inbox).of
     IN \/ /\ body[d] # NoBody
           /\ Handle("OpenDoc", <<DocEvent(d, body[d], TRUE)>>)
           /\ read' = read \cup {d} /\ Answered(d)
           /\ UNCHANGED <<cached, body, networkOk>>
        \/ /\ body[d] = NoBody /\ FetchAndCacheDoc(d)
           /\ Handle("OpenDoc", <<DocEvent(d, edition[d], FALSE)>>)
           /\ read' = read \cup {d} /\ Answered(d)
        \/ /\ body[d] = NoBody
           /\ Handle("OpenDoc", <<>>) /\ UNCHANGED failed
           /\ UNCHANGED <<store, networkOk>>

\* A cached body comes at once, another is fetched; either marks the post read.
ServeDoc ==
  /\ inbox # <<>> /\ Head(inbox).what = "OpenDoc"
  /\ LET d == Head(inbox).of
     IN \/ /\ body[d] # NoBody
           /\ Handle("OpenDoc", <<DocEvent(d, body[d], TRUE)>>)
           /\ read' = read \cup {d} /\ Answered(d)
           /\ UNCHANGED <<cached, body, networkOk>>
        \/ /\ body[d] = NoBody /\ FetchAndCacheDoc(d)
           /\ Handle("OpenDoc", <<DocEvent(d, edition[d], FALSE)>>)
           /\ read' = read \cup {d} /\ Answered(d)
        \/ /\ body[d] = NoBody
           /\ Handle("OpenDoc", <<ErrorEvent>>) /\ Failed(d)
           /\ UNCHANGED <<store, networkOk>>

\* Mutant: the App is not told.
FreshenQuietly ==
  /\ \/ /\ inbox # <<>> /\ networkOk /\ Handle("FreshenDoc", <<>>)
        /\ FetchAndCacheDoc(Head(inbox).of)
     \/ Handle("FreshenDoc", <<>>) /\ networkOk' = FALSE /\ UNCHANGED <<cached, body>>
  /\ UNCHANGED <<read, failed>>

\* Freshening is given up while the network looks down; the App hears of it only
\* when the body has changed.
FreshenDoc ==
  /\ \/ /\ inbox # <<>> /\ networkOk
        /\ LET d == Head(inbox).of
           IN /\ Handle("FreshenDoc",
                   IF body[d] = edition[d] THEN <<>> ELSE <<DocEvent(d, edition[d], FALSE)>>)
              /\ FetchAndCacheDoc(d)
     \/ Handle("FreshenDoc", <<>>) /\ networkOk' = FALSE /\ UNCHANGED <<cached, body>>
  /\ UNCHANGED <<read, failed>>

SetRead ==
  /\ Handle("SetRead", <<>>)
  /\ read' = read \cup ({Head(inbox).of} \cap cached)
  /\ UNCHANGED <<cached, body, networkOk, failed>>

ServeSearch ==
  /\ \E found \in SUBSET cached : Handle("Search", <<Msg("Results", found)>>)
  /\ UNCHANGED <<store, networkOk, failed>>

-----------------------------------------------------------------------------
(* App::apply.                                                             *)

Fold(what) ==
  /\ events # <<>> /\ Head(events).what = what
  /\ events' = Tail(events)
  /\ UNCHANGED <<edition, store, networkOk, inputs, failed>>

Told == Head(events).of

FoldFeeds ==
  /\ Fold("Feeds")
  /\ unread' = Told /\ loading' = FALSE
  /\ UNCHANGED <<inbox, mode, openPub, shown, readingUri, reading, readUris, freshened>>

\* A late list of a feed that is no longer open is ignored.
FoldDocs ==
  /\ Fold("Docs")
  /\ IF openPub = Told.feed
     THEN shown' = Told.docs /\ readUris' = Told.read /\ loading' = FALSE
     ELSE UNCHANGED <<shown, readUris, loading>>
  /\ UNCHANGED <<inbox, mode, openPub, readingUri, reading, unread, freshened>>

\* Mutant: whatever body comes is shown.
AcceptsAny(d) == TRUE

\* The post on screen, or the first one.
Accepts(d) == readingUri \in {d, Nothing}

\* A body of another post than the one on screen is ignored; a cached one is
\* freshened once per session.
FoldDoc ==
  /\ Fold("Doc")
  /\ IF Accepts(Told.doc)
     THEN /\ reading' = [doc |-> Told.doc, edition |-> Told.edition]
          /\ NoteRead(Told.doc)
          /\ IF Told.fromCache /\ Told.doc \notin freshened
             THEN /\ inbox' = Append(inbox, Msg("FreshenDoc", Told.doc))
                  /\ freshened' = freshened \cup {Told.doc}
             ELSE UNCHANGED <<inbox, freshened>>
     ELSE UNCHANGED <<inbox, reading, readUris, unread, freshened>>
  /\ loading' = FALSE
  /\ UNCHANGED <<mode, openPub, shown, readingUri>>

\* Results are shown wherever the reader has gone.
FoldResults ==
  /\ Fold("Results")
  /\ shown' = Told /\ mode' = "DocList" /\ loading' = FALSE
  /\ UNCHANGED <<inbox, openPub, readingUri, reading, readUris, unread, freshened>>

FoldError ==
  /\ Fold("Error")
  /\ loading' = FALSE
  /\ UNCHANGED <<inbox, mode, openPub, shown, readingUri, reading, readUris, unread, freshened>>

Keys ==
  \/ \E f \in Feeds : OpenFeed(f) \/ Refresh(f)
  \/ \E d \in Docs : OpenDoc(d)
  \/ LeaveList \/ MarkRead \/ LoadOlder \/ Search \/ ChangeFollows

Worker ==
  \/ LoadHome \/ ServeFeed \/ RefreshDocs("Refresh", <<>>) \/ ServeOlder
  \/ ServeDoc \/ FreshenDoc \/ SetRead \/ ServeSearch

Apply == FoldFeeds \/ FoldDocs \/ FoldDoc \/ FoldResults \/ FoldError

Next == Keys \/ Worker \/ Apply \/ \E d \in Docs : Edit(d)

Spec == Init /\ [][Next]_vars

\* The worker goes on with its commands, and every frame folds what has come.
FairSpec == Spec /\ WF_vars(Worker) /\ WF_vars(Apply)

-----------------------------------------------------------------------------
(* What the reader may rely on.                                            *)

\* Everything asked has been answered, and every answer folded in.
Quiet == inbox = <<>> /\ events = <<>>

\* The body on screen is the one of the post whose title is, however late bodies
\* and freshened bodies come in (app.rs:456-494).
BodyIsOfTitle == reading = NoReading \/ reading.doc = readingUri

\* When all is quiet, the body on screen is the cached one: a freshened body is
\* never left in the cache while the reader reads an older one (worker.rs:560-589).
ScreenIsCurrent ==
  Quiet /\ reading # NoReading => body[reading.doc] \in {NoBody, reading.edition}

\* When all is quiet, the list of an open feed holds exactly the feed's cached
\* posts, through switching feeds, searching and loading older posts while lists
\* are on their way, unless its last request failed (app.rs:441-455).
ListIsOfOpenFeed ==
  Quiet /\ openPub # Nothing /\ openPub \notin failed => shown = CachedOf(openPub)

\* A post loses its unread marker only when it is read in the store, or about to
\* be (app.rs:1482-1500).
NoFalseMarks ==
  \A d \in readUris : d \in read \/ Msg("SetRead", d) \in Range(inbox)

\* A post that was opened comes up, unless the reader turns to another one or is
\* told of an error (worker.rs:532-554).
OpenAnswered ==
  \A d \in Docs :
    readingUri = d /\ reading = NoReading
      ~> reading.doc = d \/ readingUri # d \/ d \in failed

\* app.rs:264-266: a feed's badge is kept live by decrements as its posts are read.
BadgeCountsItsPosts ==
  [][\A f \in Feeds :
       unread'[f] < unread[f] =>
         \/ \E d \in readUris' \ readUris : FeedOf[d] = f
         \/ Head(events).what = "Feeds"]_vars
=============================================================================
