# A TLA+ model of standard-reader

standard-reader is a reader for long-form posts published as AT Protocol records.
A portable core and frontend run in two shells: the desktop binary `sr` and a
browser page. This directory holds TLA+ models of the parts of it whose
correctness depends on order (what happens between two requests, two store
transactions, two file writes or two events), the TLC configurations that check
them on small instances, and TLAPS proofs of the main properties for instances of
any size. Paths below are under `src/crates/` unless they start with `src/`.

## 1. The system

    keys ──► App ──ToWorker──► worker ──► store (redb file, or MemStore in the browser)
              ▲                  │   ├──► transport ──► PDS, PLC, web pages
              └───FromWorker─────┘   ├──► auth provider ──► session store
                                     └──► save_prefs ──► prefs.toml / prefs.json
    browser only: MemStore ──PersistOp──► main thread's WriteQueue ──► OPFS files

The App owns everything the reader sees and is driven by keys and by the worker's
events. The worker owns the store, the network and the account; it takes one
command at a time from a FIFO channel and sends its results on another
(`worker.rs:146-213`). A command is not atomic: between two of its requests or
store transactions the repos it reads change, a request can fail, and the process
can be killed. In the browser the store is a value in memory that emits a stream
of writes; a queue on the main thread coalesces them and one writer at a time
stores them in files.

| Component | State | Operations | What makes it correct | Modelled in |
| --- | --- | --- | --- | --- |
| Feed synchronisation (`standard-frontend/src/worker.rs:414-528`, `standard-core/src/read.rs:411-462`) | documents, per-publication watermark, per-repo older cursor | open, refresh, load older, `sr fetch` | the cached list has no hole; a refresh catches up; what was read and opened stays so | `FeedSync` |
| Follow list and its mirror (`worker.rs:366-388, 687-872`) | follow list with record keys, account, reconciliation prompt | sign in, restore, log out, follow, subscribe, unfollow, reconcile | follows and subscription records agree; nothing of another publication is deleted | `Subscriptions` |
| Web persistence (`standard-reader-web/src/{store,persist,main}.rs`) | MemStore, persist channel, WriteQueue, writer, OPFS files | mutators, push, pop, write, retry, reload | a reload finds a state the store was in, with its payloads; nothing is dropped silently; everything is saved in the end | `OpfsPersist`, `SnapshotLine` |
| Opening and freshening a post (`worker.rs:532-605`, `standard-core/src/read.rs:464-560`) | cached body, read mark, `network_ok` | open, freshen, mark read, fall back | a body once cached stays readable; screen and cache agree; nothing of a post is lost but what its format's decoder leaves out | `FeedSync`, `ReaderView`, `ReadPost`, `Reading`, `PostReading` |
| App state machine (`standard-frontend/src/app.rs`) | mode, open feed, list, open post, links, markers, badges | keys, mouse, `apply` of worker events | late events do not change what was navigated to since; markers tell the truth; a click opens what it hits | `App`, of `ReaderView`, `Appearance`, `Reading`, `AddFeed` |
| Adding a feed (`worker.rs:324-411`, `app.rs:1275-1311`) | `pending_pubs`, picker | add, choose | the answer of the picker follows what it showed | `AddFeed` |
| Appearance (`standard-frontend/src/prefs.rs`, `app.rs:860-1133`) | `Prefs`, theme editor, onboarding | pick, edit, per-blog overrides, migration | a change goes to the appearance that was asked for, and is saved; an abandoned edit leaves nothing behind | `Appearance` |
| Browser sign-in (`standard-reader-web/src/auth.rs`, `main.rs:289-330`) | in-memory session, durable snapshot, tab lock | restore, log in, log out, commit, roll back | memory never runs ahead of the durable snapshot; an answer outlives the page | `SignIn`, `WebAuth` |
| Desktop sign-in (`standard-tui/src/auth.rs`) | keyring or file session, account file | loopback callback, restore, log out, migrate | moving sessions loses none; a sign-in means an exact grant, a log-out that what could be removed is gone | `SignIn`, `DesktopAuth` |
| Desktop store (`standard-tui/src/store.rs`) | redb tables, search index | transactions, two migrations | a migration leaves no mixture and drops only what is of another format; what is stored is found | `DesktopStore`, and in part `FeedSync`, `Subscriptions` |
| Decoders (`standard-core/src/decode.rs`, `decode/*.rs`) | none | pure functions | every character, image and link of a post that the reader shows comes out once, in order | `RichText`, `BlockDecoders`, `MarkupDecoders` |
| Reader pane (`standard-frontend/src/ui/{reader,doc}.rs`) | kept layout, link places | lay out, draw, locate links | what is drawn, requested and clickable are of the same document | `ReaderPane`, `Reading` |
| Images (`worker.rs:622-682`) | blob cache | request, show, hide | a placed image has been requested | `Reading`, `OpfsPersist` |
| Rest of the UI, image sinks, transports, search ranking, service worker | pixels, HTTP | | | not modelled |

What is hard in this code is listed with its line under `hazards` in
`PROJECT.json`: partially failed listings, per-repo cursors shared by several
publications, keys that outlive the account they were learned with, lost answers,
prompts and events that come late, dialogs opened by the worker over the one in use,
coalesced writes and a tab that may be closed between any two of them, and lists of
links made by two walks over one document that must agree.

## 2. The modules

| Module | Contents |
| --- | --- |
| `FeedSync.tla`, `MCFeedSync.tla` | one repo and the worker's listing commands |
| `FeedSyncProofs.tla` | its proofs |
| `Subscriptions.tla`, `MCSubscriptions.tla` | follow list, accounts and subscription records |
| `SubscriptionsProofs.tla` | its proofs |
| `OpfsPersist.tla` | MemStore, queue, writer and files of the browser shell |
| `OpfsPersistProofs.tla` | its proofs, the refinement of `SnapshotLine` among them |
| `SnapshotLine.tla` | abstract specification of a file rewritten as a whole, which `OpfsPersist` implements |
| `ReaderView.tla`, `MCReaderView.tla` | App and worker with their two channels: what the reader sees |
| `ReaderViewProofs.tla` | its proofs |
| `Appearance.tla` | modes of the App, preferences, pickers, colour editor, onboarding |
| `AppearanceProofs.tla` | its proofs |
| `AddFeed.tla` | adding a blog, from what was typed to the follow |
| `RichText.tla` | the neutral document, facets, and what a text and a document say |
| `BlockDecoders.tla`, `MarkupDecoders.tla` | the decoders of Leaflet, pckt and Offprint; of HTML and Markdown |
| `ReadPost.tla` | `get_document`: requests, decoder registry, fallbacks, galleries |
| `ReaderPane.tla` | layout of a document, links collected and located, images requested and placed |
| `Reading.tla` | opening, fetching, drawing and clicking; what documents and layouts are is a parameter |
| `PostReading.tla` | `Reading` with the decoders and the pane, `ReadPost` and `ReaderPane` |
| `SamplePosts.tla` | the 1259 posts TLC reads |
| `App.tla` | `Appearance`, `AddFeed` and `Reading` side by side |
| `AppProofs.tla` | the proofs of `AddFeed`, `Reading` and `App` |
| `MCApp.tla` | `App` with the decoders, the pane and the sample posts |
| `MCLinkOrder.tla` | `PostReading` with one post |
| `SignIn.tla` | what both shells share: the worker's command and its account |
| `WebAuth.tla`, `DesktopAuth.tla` | the two auth providers with their stores; each extends `SignIn` |
| `WebAuthProofs.tla` | the proofs of `WebAuth` |
| `DesktopStore.tla` | the redb file: transactions, migrations, search index |
| `MCSignIn.tla` | `WebAuth`, `DesktopAuth` and `DesktopStore` side by side |
| `SignInProofs.tla` | the proofs of `DesktopAuth`, of `DesktopStore`, and of the three side by side |

Operators whose comment begins with "Mutant:" are used by no specification. Each
is a plausible mistake in the operator of the same shape that follows it, and
stands next to it so that a reader can try it: with it in place of that operator,
the property named with it in `PROJECT.json` fails.

### FeedSync

A record is its rank in `listRecords` order, so a cursor is a number and a page is
a set of consecutive live records. Deleted records drop out of pages, also those a
cursor or a watermark names; a record that does not parse (`Unparsable`) is in the
page but not in what `list_documents` returns. `cached`, `body`, `read`, `mark` and
`older` are the store's document entries, their bodies and read marks, `sync_cursor`
and `older_cursor`; `older = Top` is a cursor never set and `0` the empty string of
an exhausted repo. `pc` and the variables after it are the locals of the running
command. Every action is one request (`FetchWindowPage`, `FetchWalkPage`,
`FetchBody`) or one store transaction (`SaveDoc`, `SaveMark`, `SaveOlderCursor`,
`WalkDoc`, `FinishWalk`, `MarkFetchedRead`); `RequestFails` and `Crash` may come
between any two, and `Upgrade` is a start under another `CACHE_SCHEMA`. `get_publication`
changes nothing and is part of the start of a command, whose failure is the
command not starting. `horizon` and `torn` are history: what had been published
when the running refresh read its first page, and whether a listing was ever cut
short while it had stored documents not yet connected to the older ones.

### Subscriptions

`follows` maps a publication to the key of its record (`NoKey` when it has none);
`records` are the records of all accounts. Reconciliation (`ListSubscriptions`,
`ImportRemoteOnly`, `LinkImported`, `LinkInBoth`, `FinishSync`) and the commands go
through their publications one step at a time. Creating a record may succeed, fail,
or succeed and lose its answer; other devices create and delete records at any
moment. A listing is one request: `list_subscriptions` pages, and a record made
while it does shows up as one that was made just before or after. The PDS is assumed
never to give out a key twice (`keys` only grows), which is what time-ordered
record keys are for. `loose` is history: the publications whose mirror is known to
be possibly out of step, each for a reason named at `Mirrored`.

### OpfsPersist

A revision number stands for the contents of the index, of a body and of the
preferences; a body also carries the schema it was decoded under. `Mutate` sends a
mutator's payload ops, `EmitIndex` the index that follows, so the channel can be
drained between the two. `Frame` is the part of the draw callback that drains the
channel into the queue and starts the writer; `TakeNext`, `WriteSucceeds` and
`WriteFails` are the writer's loop with its one retry. `Reload` closes the tab at
any point and starts again from the files, under the same or a newer schema, with
any of the files unreadable: a read that fails is taken for a file that is not
there (`persist.rs:326-352`). `SnapshotLine` says what such a file promises:
it moves forward only, along the states of the running store, and a new process goes
on from it, or afresh when it could not read it. A process that started afresh leaves the
file as it is until its first index is written, and the next process may then read what
an earlier one stored: `at = 0` stands for that. The property `IndexMovesForward` is that
specification with the file and the position computed from the model's state.

### ReaderView

Two FIFO channels join App and worker. A key changes the App at once and appends a
command; the worker takes the head of `inbox`, and the App folds the head of
`events`. Since the App sees nothing of a command but its events, a command is one
step here; what a listing may do to the cache is bounded by `Listing`, which allows
more than `FeedSync` does (any new documents, any bodies lost). A body is the edition
of the post it was decoded from, and authors edit posts at any moment. `failed` is
history: feeds and posts whose last request was answered with an error. Left out:
image requests (see `Reading`), the input, picker, editor and prompt modes (see
`Appearance` and `AddFeed`), and focus, none of which decides what is folded where; the
layout decides only whether a list takes over the sidebar, so `OpenFeed` allows both.

### Appearance

`mode` is the App's mode, and decides whose handler gets the next key; `menuTarget`,
`editor`, `choices` and `syncPrompt` are the subjects the dialogs act on, `menuSel` the
cursor they share. A key is one action per dialog and meaning (`OpenThemePicker`,
`ChooseTheme`, `OpenThemeEditor`, `CommitThemeEditor`, ...). `Answer` is a worker event
that opens a dialog of its own over the current one, which is what interrupts an editor.
`saved` is what the last `SavePrefs` carried; a new App starts from it, after a broken-off
onboarding too. `asked` is history: the appearance the reader opened a dialog for. Start-up
runs the migration of `prefs.rs:161-176` on preferences of earlier versions.

### AddFeed

`AddFeed` is the whole command of the worker: normalise, resolve the handle by the
well-known file and by DNS, fall back to the page of the URL, list the publications of the
repo page by page, then follow the only one or offer several. `pending` is
`pending_pubs`, `candidates` what the App's picker shows. Requests fail at will. `offers`
and `unanswered` are history.

### RichText, BlockDecoders, MarkupDecoders, ReadPost

A document is a tree of nodes `[tag, data, kids]`; a text a sequence of bytes, with `~`
for a continuation byte, so that a facet can end inside a character. `ApplyFacets` is the
code's cursor over sorted facets, with its tests for overlap, order, range and character
boundary. Each decoder goes from the structure of a record (or the tree an HTML parser
delivers, or the events of the Markdown parser) to blocks. `ReadPost` chooses one as
`decode.rs` does, splices an external body, follows a content reference, and falls back
to the text content and the description. These modules use recursive operators and are
for TLC only. The reference definition they are checked against is `Says`: what a source
says is its characters and images in order, each with the address it links to, defined
on the source without going through blocks (`PostSays`), and read off the blocks
(`ReadsAll`). What the decoders leave out of a post, the reference leaves out by name:
`LeafletShown`, `PcktShown` and `OffprintShown` say for each format which parts of a block
are not shown (section 5 lists them), and the sample posts hold every one of them.

### ReaderPane, Reading, PostReading, App

`ReaderPane` has the two walks over a document for links (`CollectLinks`, which gives
addresses, and `LocateAndHighlightLinks`, which finds styled text on the screen) and the
two for images (`CollectImageSources`, `Build`). `Reading` has the worker's copy of a post,
the App's body, links and image requests, and the pane's kept layout; what a fetch brings,
which links and images a body has and how it is laid out are parameters, which
`PostReading` gives the decoders and the pane. The split keeps recursive operators out of
`Reading`, so that it can be proved about. Commands and answers wait in no particular order. A frame is input, then the
answers drained, then a drawing (`web/main.rs:202-234`, `tui/main.rs:133-175`), so input
is handled on what was drawn last; `frame` says how far it is. `readerCache` is the layout kept
between frames with its key. The worker may hold a body from an earlier session at the
start. Lines do not wrap, nothing is scrolled, all pending images come in one frame. `App`
puts `Appearance`, `AddFeed` and `Reading` side by side.

### SignIn, WebAuth, DesktopAuth, DesktopStore

`SignIn` holds what the worker keeps of a command; the two shells extend it. In
`WebAuth` the worker of the tab that holds the lock changes `memory`, sends the snapshot
(`Commit`), the tab's frames queue and write it (`DrainAuth`, `WriteAuth`,
`WriteAuthFails`, twice at most), and the answer (`Answered`) lets the command go on or
takes the change back. Tabs close, reload and come back from the authorisation server at
any point. In `DesktopAuth` a step is one request, one keyring operation or one file
operation; a crash leaves a file that was being written unreadable. The keyring may come or go
between any two steps (`KeyringComesOrGoes`), since a keyring can be locked and unlocked while
the program runs: `clientStore` is the store the client found when it was built, `Selected`
the one a look finds now, and `found` the one the running check of a grant looked in. A
keyring may also refuse what is asked of it: the import of sessions (`ImportLegacy`), a
look-up, which ends the command with everything as it was (`EnsureGrant`), or to be cleared,
which is passed over (`ClearStore`). `steady` is history: none of that has happened since the
process started. A sign-in may begin while somebody is signed in. In `DesktopStore` a step is
one redb transaction; opening takes three, and two versions of the program may take
turns on one file. The file at the start is none, or one of a program that stamped no schema,
with any documents, cursors and follows in it.

## 3. What TLC checks

| Run | Shows | Instance |
| --- | --- | --- |
| `feed_sync` | The cached window has no hole and a refresh catches up unless a listing was cut short (`Contiguous`, `CaughtUp`); watermarks name cached documents of their own publication (`MarkNamesCached`); read marks, bodies inside the window and the direction of the older cursor survive every interleaving (`ReadKept`, `BodyKeptInWindow`, `OlderMovesDown`) | 2 publications in the repo, 4 records of any kind, pages of 1, windows of 1 and 2 pages, one post that is opened or deleted |
| `opfs_persist` | An index never refers to a payload that is not there or is older (`PayloadBeforeIndex`); nothing is dropped on its way (`NothingDropped`); a blob is refused only when stored (`RefusedBlobsAreStored`); the index implements `SnapshotLine` (`IndexMovesForward`); everything is saved in the end (`EventuallySaved`) | 2 documents, 1 blob, 3 changes, 1 reload, 2 schemas |
| `subscriptions` | Follows and records agree (`Mirrored`); an unfollow deletes its own record only (`UnfollowDeletesItsOwn`); a completed reconciliation leaves every follow linked or asked about (`LinkedOrAsked`) | 2 publications, 2 accounts, 4 records |
| `reader_view` | The body on screen is of the post whose title is (`BodyIsOfTitle`) and agrees with the cache (`ScreenIsCurrent`); the open feed's list wins over late lists and search results (`ListIsOfOpenFeed`); a marker goes only with the read mark (`NoFalseMarks`); an opened post comes up or fails visibly (`OpenAnswered`) | 2 feeds with a post each, 1 edit, 3 keys, every initial cache |
| `sign_in` | Outside a commit the worker's memory is what a reload finds (`MemoryIsDurable`); signed in, redirected and logged out are true of the files when they are reported, on the web (`AnswersAreDurable`) and, as far as the keyring lets them, on the desktop (`DesktopAnswersHold`); moving the sessions of the desktop loses none, and a start revokes no exact grant unless the keyring comes, goes or refuses it (`StartKeepsSessions`); the desktop store serves what it holds in the format of the program (`StoreServes`); follows, read marks and the preference for images go only by the reader's command, but that a change of format drops the documents with their marks (`StoreKeeps`); every command ends (`AuthCommandsEnd`) | 2 users, 2 tabs, 2 sign-ins, 3 page loads, 4 failing writes; 1 document, 2 publications, 1 word, 2 schemas |
| `app` | A dialog has the subject it acts on (`MenusHaveTheirSubject`); changing one appearance changes no other (`OnlyTheAskedChanges`), custom blogs have a palette of their own (`BlogsHaveTheirOwnPalette`), every change is saved (`EveryChangeIsSaved`); the blocks of a post say what it says, without what its format's decoder leaves out by name (`NothingElseIsLost`); a click opens the link it hits and Enter the one that is lit (`ClickOpensWhatIsShown`); placed images were requested (`PlacedImagesAreRequested`); what is followed is what was picked (`FollowedAsPicked`) | 2 blogs, 8 keys; 1259 posts, up to 2 opens and 2 fetches of each, one failing request per fetch; 4 inputs, 2 adds |
| `feed_sync_gap`, `feed_sync_body`, `opfs_schema`, `subscriptions_prompt`, `reader_badges`, `link_order` | six places where the code and its own documentation differ, see below | smaller instances of the same modules |

**Why these bounds.** With pages of one record, four records give a first window, a
walk of more than one page, a "load older" of more than one page and records that
arrive meanwhile; two publications are what tells a per-repo cursor from a
per-publication watermark, and two kinds of neighbour (the other publication's
document, an unparsable record) can stand anywhere. In `Subscriptions` two accounts
make a key outlive its account, and four keys allow a duplicate made by another
device besides one record for each publication. Two documents and a blob meet in
the queue in every order, and three changes are enough for one to be coalesced with
another while the writer is busy with a third. Three keys in `ReaderView` let two
events be late with respect to a third key. Sizes beyond these are what the proofs
are for. In `sign_in` two sign-ins in two tabs let a code come back to a tab without the
lock, three loads let a tab be reloaded between the two, and four failures are two writes
that fail for good. Eight keys in `app` open a blog's menu, its picker and the editor,
change, commit and come back to another target. Of the sample posts eight are opened,
redrawn, focused and clicked; the others hold all arrangements of two facets over a text
with a two-byte character, and all pairs of neighbouring blocks of each format, constructs that are not shown among
them, and only go through `get_document`; a decoder that loses text does so between two
neighbours or inside one. The parts of `app`
and of `sign_in` share no variable in the code either, so each run explores their states
one part at a time. The symmetry sets permute model values no operator orders; there is none
where liveness is checked.

**Fairness.** `OpfsPersist`: the worker finishes a mutator it has begun, animation
frames come as long as the tab is open, and the browser answers every write, with
success or failure. A failing write is retried once and dropped (`main.rs:351-369`), so no
fairness of success is needed, and none is assumed of `Reload` or of new changes.
`ReaderView`: the worker goes on with its commands (`worker.rs:187`), and every frame
folds the events that have come; the reader owes nothing. `MCSignIn`: on the desktop
requests end after 30 seconds (`tui/auth.rs:478-479`) and the wait for the browser after
300 (`tui/auth.rs:85, 784-786`); on the web frames drain the auth requests, a write is tried
twice at most and answered, and the worker goes on when answered. No fairness of
success is assumed there either. `FeedSync` and
`Subscriptions` assume none: their properties are safety properties, and a worker
whose requests always fail makes no progress to promise.

**Where the code and its documentation differ.**

1. *A refresh cut short leaves a hole for good* (`feed_sync_gap`). A walk stores a page
   before it asks for the next one. If that request fails, later refreshes see a page
   they know, take it that they have caught up ("a doc already stored means we've caught
   up on this page", `worker.rs:503-504`), stop there (`worker.rs:510-512`) and
   never reach the documents below it. `torn` marks these histories, and `Contiguous` and `CaughtUp` hold
   of all others.
2. *Opened posts can lose their body* (`feed_sync_body`). `src/README.md:21` promises that
   anything opened reads without network; the first window of a repo, load older and
   `sr fetch` write listed documents with no body over entries that have one.
3. *Old bodies come back under a new schema* (`opfs_schema`). On a schema mismatch bodies
   are left out of memory but stay on disk, and the first index of the new schema vouches
   for them at the next start.
4. *Local-only follows need not be local-only* (`subscriptions_prompt`). An answer to the
   reconciliation prompt creates a record for each publication it showed, also for one
   linked in the meantime.
5. *A badge counts another feed's post* (`reader_badges`). A post marked read counts down
   the feed open when its body arrives, not the post's own.
6. *A click opens the link before* (`link_order`). Links are numbered on the screen by
   looking for link-styled text and their addresses are collected from the document; a
   linked image counts in the second list and is drawn as a dim label. Links around code or nothing,
   two links without text between them and underlined headings shift the numbers as
   well. `ClickOpensWhatIsShown` holds of documents without these (`WellLinked`).

**Observations without a run.** Reading the code closely enough to model it turned up
more; the models reproduce those of the modelled parts, and their properties are stated
so as to hold anyway.

- A page none of whose records parses ends a window without a cursor (`read.rs:457`), though
  the comment at `read.rs:439-443` reserves that for an exhausted repo: load older never
  reaches what is below.
- An external body that cannot be fetched fails the whole post (`read.rs:490`), though the
  comment at `read.rs:485-486` says it falls through to the text content.
- A content reference is decoded with the DID of the post, not of the record it names.
- The decoders drop: items nested in those of Leaflet and Offprint lists; Leaflet blocks
  without a model, though `leaflet.rs:115` has it that "a small text marker beats silent loss"
  (only polls leave one); of a pckt table all but the text of its cells, and the text of pckt
  blocks without a model; what an Offprint quote holds besides text, what an Offprint block
  without a model holds, and the description of a web embed (`offprint.rs:91`), which a bookmark
  shows. `NothingElseIsLost` excludes these and only these. Inline code in the alternative text
  of Markdown images is dropped as well; the sample posts hold none.
- `pending_pubs` is replaced by a second add: answering the first picker then follows
  nothing, and so does the second. `FollowedAsPicked` is about the first answer of the newest
  offer and says of the others that nothing unpicked is followed.
- An add that finds nothing leaves the spinner on. An emptied reconciliation leaves its
  dialog open without candidates.
- A grant is looked up in the store found now, a session in the one the client found at its
  start (`tui/auth.rs:224, 389-449`). When a keyring is unlocked or locked in between, the
  check may confirm a sign-in by an exact grant in the other store while the client holds a
  broad one, which `tui/auth.rs:232-233` means to exclude.
- A keyring that is away at the start, or refuses the import, makes the check of that same start
  find no grant: it removes `session.json` and `account.json` (`tui/auth.rs:231-237`), although
  the comment at `tui/auth.rs:205-211` has a start that fails keep its files. A token in the
  keyring stays there.
- A log-out passes over a keyring that is away or would not delete its entry
  (`tui/auth.rs:250`), and reports success with the token left, against the comment at
  `tui/auth.rs:248-249`.
- A second sign-in that is refused for its grant clears the session and the account of the
  first, and the worker keeps showing the first (`worker.rs:740-743`).
- The loopback listener takes one connection (`tui/auth.rs:784`): another request than the
  callback ends the sign-in. A code that comes back to a tab without the lock is lost.
- When the account cannot be stored, the browser reports "sign-in was not committed" although the
  session was.
- Search postings of a document's earlier words stay in the desktop index: a search finds it by
  words it no longer has.

## 4. What is proved

The proofs hold for any number of publications, records, pages and accounts, from the
assumptions on the constants that the modules state by name.

**`FeedSyncProofs`.** `Contiguous` and `CaughtUp` say something of the state between
commands only. The invariant that carries them through a command, `IInv`, has two parts.
`Structure` ties the worker's locals to its program counter: which command it can be
running, that a walk has a cursor and nothing left over, that cursors only go down
(`JobOK`, `NewestOK`, `Ordered`, with `TypeOK` and `MarkNamesCached`). `Coverage` says how
far a listing has come: a window has listed all live documents from its cursor up, a walk
has cached them but for the page at hand, and a hole in the cache can only lie between
what the running listing has gone through and what it has not (`WindowCovers`,
`WalkCovers`, `HolesAreAhead`, `PageOnKnownGround`, `WalkEnded`). The key step is
`PageOnKnownGround`: a page whose documents were all cached borders on what older
listings covered, because a hole below it would have been left by a listing cut short.
Each action preserves each part in a lemma of its own. `TypeCorrect`, `MarksNameCached`,
`WindowContiguous` and `RefreshComplete` follow; the action properties
`OlderCursorDescends`, `ReadMarksKept` and `BodiesKeptInWindow` are proved step by
step from the same invariant.

**`SubscriptionsProofs`.** That an unfollow deletes a record of its own publication only is not a
matter of the step: the stored key may stem from another account and an earlier session.
The invariant says that every key the reader holds (in the follow list, in a running
reconciliation, as the answer of a creation) was handed out, that keys are unique, and
that a record with that key is of the publication the key is held for. `TypeCorrect` and
`UnfollowIsExact` follow. `Mirrored` speaks of the state between commands, and while one
runs the follow list and the records differ in ways of its own: a second invariant,
`MInv`, says of each step of a command which records the account has for a publication
that is not loose (`Expected`: the listed one until it is linked, none while the first is
being created or once the last was deleted, the created one until its key is stored), and
that what a reconciliation has gone through is linked (`Reconciled`). `InStep` and
`NoneSilent` (`LinkedOrAsked`) are read off it.

**`WebAuthProofs`.** An answer comes several steps after the change it reports, and the
file may have refused the change meanwhile, so neither property is a matter of one step.
`Journal` says what each snapshot is worth while the worker waits: until the write is
acknowledged the file holds what a roll-back would restore, memory holds what was asked
for, and afterwards the file holds it too. Snapshots are compared as a reload would decode them
(`Same`), since a transaction may expire at any time. `Progress` says what memory holds
at the steps an answer depends on. The same three kinds of steps make up every command
(a commit, a commit that is answered, one that fails), so each has a lemma of its own,
and the cases of the restore, the sign-in and the log-out follow from them.
`WebTypeCorrect`, `MemoryDurable` and `AnswersDurable` follow, for any number of tabs,
users, sign-ins and failing writes. Assumed is that the users are finitely many and that `None` is no user, scope or tab.

**`SignInProofs`.** *The desktop.* Here the process may end at any step, with a file cut
short, and the keyring come and go at any other, so the invariant (`DInv`) says what a running
command may still rely on (`DeskProgress`): the account file names the user while a session is
being restored; when the account is written one of the stores has the exact grant; what a
log-out removed is gone before the next removal; when the file of imported sessions is
removed the keyring has them. While the keyring is as it was at the start (`steady`) it says more: the
store chosen then is the one a fresh look would choose (`StoreKept`), so the grant that was
checked is the client's, and a keyring that was cleared stays empty. `Subjects` says whom a
command is about: a step that clears without a user is a log-out. `DesktopAnswersKept` and
`StartsKeepSessions` are action properties that follow from it, for any set of users. They say
no more than the code can do: that a grant is the client's own, that a log-out leaves the
keyring empty and that a start keeps a session are claimed while the keyring neither comes,
goes nor refuses; that somebody's session is in one place or the other while the sessions
move, that what is reported as signed in has an account and an exact grant, and that both files
are empty after a log-out, always.

*The desktop store.* `StoreServes` is about an open store, but what it says has to outlive
the process that wrote it: the next may be another version of the program and may stop
between the transactions of its start. Inductive (`SInv`) is that every document, and every
cursor, is in the format *stamped in the settings* at any time, that every document is
listed and posted (`DocumentsServed`, `CursorsStamped`), that postings are of documents that
are stored (`PostingsStored`), and that an open store has its program's stamp
(`OpenStamped`). It rests on the cache and the stamp being changed in one transaction
(`MigrateSchema`), and holds of a file without a stamp as `unversioned` is a format too.
`StoreKeepsAlways` follows step by step; it needs from the invariant that a follow table of
the first version, the only one rewritten, has no record keys to lose. It does not say that
read marks outlive a change of format: `MigrateSchema` drops the documents with their marks,
and the theorem says that nothing else drops a document.
Assumed is that `Absent` is no schema, document or key, and `unversioned` no schema.

*Side by side.* The run `sign_in` checks the three in one specification, and its
properties are proved of that one (`ShellsTypeCorrect`, `ShellsMemoryDurable`,
`ShellsAnswersDurable`, `ShellsDesktopAnswers`, `ShellsStartsKeepSessions`,
`ShellsStoreServes`, `ShellsStoreKeeps`). `ShellsInv` is the invariant of the part in
use, and of the others that they are as they began; the shell never changes, so a step
of one part leaves the variables of the others alone.

**`OpfsPersistProofs`.** Every property is about ops on their way from the channel through
the queue and the writer to the disk, and a frame moves any number of them at once. The
invariant (`IInv`) is therefore stated for a queue `q` and the ops of the channel after the
first `k`: between two steps those are the model's queue and 0, and a frame is proved
by induction on `k`, pushing one op at a time. Its parts are that every payload is ahead
of every index that names it, wherever the index is, and no later write takes it back
(`PayloadsAhead`, `IndexWritten`, `BodiesInOrder`); that indexes are states of the running store, in
order (`IndexesInOrder`); and that the last write of each file on its way holds the latest contents
(`LatestIsLast`). The induction is over the set of positions that have been reached, so
it needs no operator as a parameter. `PayloadsBeforeIndex`, `NothingIsDropped`,
`RefusedStored` and `TypeCorrect` follow, and `IndexImplementsLine` shows the refinement: Init
maps to Init, and each step to a `Change`, a `Save`, a `Restart` or a stutter. An attempt to prove an
earlier `SnapshotLine`, in which a new process went on from its file or from nothing and the file
was thought empty in the second case, failed for a good reason: after an unreadable index and
two restarts the file is read again. `SnapshotLine` now says what such a file holds.

**`ReaderViewProofs`.** What is right when both channels are empty is, while something is
on its way, what the last message of its kind will make right. `EndsWith(s, kind, good)` and
`NoneOf` say that of a channel; the lemmas on how they survive appending and taking the head
are the only facts about sequences the rest uses. Inductive are that the last body told
of a post is the cached one (`ToldCurrent`), that the last thing asked for the open feed,
or the last list told of it, is its own (`ListAhead`), that bodies come only after a post was
opened (`OpenedFirst`), and that messages speak of cached posts and call read only
what is read in the store (`Types`). Handlers of the worker are summarised by the messages they send
(`Works`, `Asking`, `Folding`), and each part is preserved in a lemma over those
summaries. `BodyUnderItsTitle`, `ScreenCatchesUp`, `ListCatchesUp`, `MarksAreEarned` and
`TypeCorrect` follow. Assumed is that the posts are finitely many and no feed is a post.

**`AppearanceProofs`.** An answer of the worker moves the reader from one dialog to another
and leaves the fields of the first as they are. The invariant says of each mode what
those fields hold: the target of a dialog is the appearance the reader asked for
(`DialogsAreAsked`), and no answer is left when the App has ended (`NoLateAnswers`), which is what keeps a
new App from being moved by an answer to the previous one. `DialogsHaveSubjects`, `OwnPalette`, `ChangesAreSaved`
and `NothingElseChanges` follow, for any blogs, palettes and number of keys. Assumed is that
there is a preset and the two-pane layout, that neither `custom` nor an edited palette is
a preset, and that some palette can be reached by editing.

**`AppProofs`.** *Adding.* `FollowedAsPicked` relates the follows of a step to what a picker
was shown several messages ago. The worker keeps the candidates (`pending`), the App shows
a copy of them, and offers and answers cross on two queues. Inductive (`AddInv`) is that
whatever is of the last offer, on its way to the App (`OffersPending`), in the picker
(`PickerPending`) or on its way back (`AnswersPending`), is among the candidates the worker
keeps, until an answer to some picker lets go of them; and that there are no more offers
and additions waiting than were asked for, which takes counting the additions in a
sequence. That the pages of a listing joined together hold what the pages hold is shown by
induction over the set of prefixes that are joined so far. `AddFeedTypeCorrect` and
`AddFeedAsPicked` follow, for any names, hosts, pages and owners, and requests that fail at
will. Assumed (`AddFeedAssumption`) is that a listing of publications ends and that pages
link to publications that are known.

*Reading.* Links, link places, image requests and the kept layout are replaced at
different times: an open clears the links and keeps the layout, a freshen with the same
body may replace the attribution only, toggling images leaves everything until the next
drawing, a narrow pane takes the focus away. `RInv` says that what the worker keeps, what
is on its way and what the App shows stem from documents a fetch can have brought.
`ScreenInv` says of which body each of the others is: the links are those of the body and
then the attribution (`LinksOfTheBody`), a kept layout is that of the body for the key it
is kept under, with its link places (`KeptLayout`), after a drawing the key is of the switch and the
focus as they are (`DrawnNow`), and with images on those of the post have been asked for
(`AskedFor`). It needs nothing of what a layout is. `PlacedImagesAreRequested` and
`ClickOpensWhatIsShown` then reduce to facts on a single layout, which the two theorems
have as hypotheses: `PlacesItsImages` (a layout has places only for images of its body and
cover) and `TellsItsLinks` (the rectangles and lit cells of a layout of a well-linked body
carry the numbers of the links collected from it). Those are about recursive functions of
a document, so they are not proved; the run `app` checks the two properties with the real
decoders and pane on the sample posts, and with that the hypotheses for every layout it
draws. Assumed (`ReadingAssumption`) is that a fetch brings one document or none, with at
most one platform.

*Side by side.* `App` is the specification the run `app` checks. Its parts start as
themselves and step one at a time, so the three invariants hold together (`AppInv`), and
`AppTypeCorrect`, `AppDialogs`, `AppNothingElseChanges`, `AppFollowsAsPicked`,
`AppPlacesRequested` and `AppClicksAsShown` follow for the whole.

Proving changed the models where they could not be reasoned about: a CASE with
overlapping guards picks any arm, so the arms of `FocusLink`, `NextByte` and the resolution of a name now
exclude each other, and two operators whose precedence depends on the parser
(`SUBSET S \ T`, `UNION S \cup T`) have parentheses.

What stays with TLC, and why:

- `EventuallySaved`, `OpenAnswered` and `AuthCommandsEnd`: liveness under fairness.
- `NothingElseIsLost`: it says what decoders give, which are recursive operators over documents, and
  TLAPS has no induction over those.
- For the same reason `PlacesItsImages` and `TellsItsLinks`, the hypotheses of the theorems on
  placed images and on clicks.
- The six runs that end in a violation: each is one behaviour.

## 5. What is not modelled, and what the models cannot show

- Preferences are written when nothing else is waiting (`persist.rs:118-133`). An endless
  stream of changes would hold them back for ever; the bound on revisions hides that.
- A second browser tab writing the same files: nothing orders the two, and the model has one.
- Unread badges do not follow new posts found by a refresh (`Docs` carries no counts);
  they are corrected by the next home list. No document promises otherwise.
- `network_ok` is modelled, but what it is for (a freshen comes through when the network
  is back) is declared best effort in `worker.rs:224-227`, and the App asks once per session.
- Word wrap: a line of the model fits the pane, so links that wrap over two rows, and two
  that meet at a row's end, are not covered; nor are scrolling between a drawing and a click, or
  documents long enough to overflow the 16-bit rows.
- Tokenising HTML and Markdown is done by libraries; the model begins at what they deliver.
- The focus ring between panes, pane widths, mouse hits outside the reader, the sidebar and the dialogs' looks, and search
  ranking: functions of the App state or of two strings.
- The tables of publications and blobs of the desktop store, which are read back as written.
- Transports, image decoding, the service worker and JSON encoding: no state
  of their own that outlives a call, or nothing a small model would add to a test.

## 6. Plan

1. `FeedSync` with proofs (done).
2. `OpfsPersist` and `SnapshotLine`, with proofs and the refinement (done).
3. `Subscriptions` with proofs (done).
4. `ReaderView` with proofs (done).
5. `AddFeed`, `Appearance`, `Reading` with the decoders and the pane, and `App`; all but the
   decoders and the pane with proofs (done).
6. `SignIn`, `WebAuth`, `DesktopAuth`, `DesktopStore`, with proofs (done).
7. Left: the focus ring and scrolling, word wrap, wheel accumulation, search ranking.

## 7. Running

    tlc -workers 2 -config FeedSync.cfg MCFeedSync.tla
    tlapm FeedSyncProofs.tla
    tlapm SubscriptionsProofs.tla
    tlapm OpfsPersistProofs.tla
    tlapm ReaderViewProofs.tla
    tlapm AppearanceProofs.tla
    tlapm AppProofs.tla
    tlapm WebAuthProofs.tla
    tlapm SignInProofs.tla

`PROJECT.json` names the module and configuration of every run, the mutant that breaks each
property, and the source lines each definition stands for. The longest runs take two to
three minutes on two cores; the proofs of a module take up to two.
