------------------------------ MODULE FeedSync ------------------------------
(***************************************************************************)
(* How the worker keeps the cached document list of one repo in step with  *)
(* the repo itself: the bounded first window, the incremental walk of a    *)
(* refresh, "load older", opening a post, and the `sr fetch` command.      *)
(*                                                                         *)
(* A record is the rank of its key in listRecords order, so a larger       *)
(* number is a newer record and a page is read downwards.  A cursor c asks *)
(* for the records older than c; Top asks for the newest page.  Number 0   *)
(* stands for "no cursor": a reply without one, and the empty string the   *)
(* store keeps for an exhausted repo.                                      *)
(*                                                                         *)
(* The worker runs one command at a time, but the repo changes between any *)
(* two of its requests, each request may fail, and the process may die     *)
(* between any two store transactions: every step below is one request or  *)
(* one transaction.                                                        *)
(***************************************************************************)
EXTENDS Integers, FiniteSets

CONSTANTS
  Publications,   \* publications hosted by the repo
  NoFeed,         \* the feed of a worker that runs no command
  Unparsable,     \* the kind of a record that is not a valid document
  MaxRecords,     \* bound: how many records are ever published
  Commands,       \* bound: which listing commands are run
  PublishedKinds, \* bound: what kinds of record are published
  Openable,       \* bound: the posts the reader ever opens
  Deletable,      \* bound: the records their author may delete
  PageSize,       \* records per listRecords page (50 in the code)
  InitialPages,   \* INITIAL_PAGES, the cap of the first window
  OlderPages      \* LOAD_OLDER_PAGES, the cap of one "load older"

ASSUME PublicationsAssumption ==
  Unparsable \notin Publications /\ NoFeed \notin Publications
ASSUME BoundsAssumption ==
  /\ MaxRecords \in Nat
  /\ PublishedKinds \subseteq Publications \cup {Unparsable}
  /\ Openable \subseteq 1..MaxRecords
  /\ Deletable \subseteq 1..MaxRecords
  /\ PageSize \in Nat \ {0}
  /\ InitialPages \in Nat \ {0}
  /\ OlderPages \in Nat \ {0}

VARIABLES
  \* the remote repo
  repo,       \* live records
  published,  \* how many records were ever published
  kind,       \* record -> its publication, or Unparsable
  \* the store
  cached,     \* documents with a metadata entry
  body,       \* documents cached with their decoded body
  read,       \* documents marked read
  mark,       \* publication -> its sync_cursor, 0 when there is none
  older,      \* the repo's older_cursor; Top when it was never set
  \* the worker and the command it is running
  networkOk,  \* Ctx::network_ok
  pc,         \* the step the command is at
  op,         \* the command
  feed,       \* the publication it is for
  todo,       \* listed documents it has not gone through yet
  cursor,     \* cursor of its next request, then the one to resume from
  pages,      \* pages it has fetched
  newest,     \* newest_for_pub: the first document of `feed` it went through
  hadNew,     \* page_had_new
  \* history, read by no action
  horizon,    \* `published` when the running refresh read its first page
  torn        \* a listing ended before it had reached documents cached earlier

remoteVars == <<repo, published, kind>>
storeVars  == <<cached, body, read, mark, older>>
jobVars    == <<op, feed, todo, cursor, pages, newest, hadNew>>
history    == <<horizon, torn>>
vars == <<remoteVars, storeVars, networkOk, pc, jobVars, history>>

Top     == MaxRecords + 1
Records == 1..MaxRecords
Kinds   == Publications \cup {Unparsable}
Steps   == {"idle", "window", "save", "older", "walk", "page", "finish", "read"}
Ops     == {"none", "refresh", "loadOlder", "fetch", "open"}

NeverFetched == Top

RemoteTypeOK ==
  /\ repo \subseteq 1..published
  /\ published \in 0..MaxRecords
  /\ kind \in [Records -> Kinds]

StoreTypeOK ==
  /\ cached \subseteq {r \in 1..published : kind[r] # Unparsable}
  /\ body \subseteq cached
  /\ read \subseteq cached
  /\ mark \in [Publications -> 0..MaxRecords]
  /\ older \in 0..Top

CommandTypeOK ==
  /\ pc \in Steps
  /\ op \in Ops
  /\ feed \in Publications \cup {NoFeed}
  /\ todo \subseteq {r \in 1..published : kind[r] # Unparsable}
  /\ cursor \in 0..Top
  /\ pages \in Nat
  /\ newest \in 0..MaxRecords
  /\ horizon \in 0..published

FlagsTypeOK == networkOk \in BOOLEAN /\ hadNew \in BOOLEAN /\ torn \in BOOLEAN

TypeOK == RemoteTypeOK /\ StoreTypeOK /\ CommandTypeOK /\ FlagsTypeOK

Init ==
  /\ repo = {} /\ published = 0 /\ kind = [r \in Records |-> Unparsable]
  /\ cached = {} /\ body = {} /\ read = {}
  /\ mark = [p \in Publications |-> 0]
  /\ older = NeverFetched
  /\ networkOk = TRUE
  /\ pc = "idle" /\ op = "none" /\ feed = NoFeed
  /\ todo = {} /\ cursor = 0 /\ pages = 0 /\ newest = 0 /\ hadNew = FALSE
  /\ horizon = 0 /\ torn = FALSE

-----------------------------------------------------------------------------
(* The repo's owner and its PDS.                                           *)

Publish(k) ==
  /\ published < MaxRecords
  /\ published' = published + 1
  /\ repo' = repo \cup {published + 1}
  /\ kind' = [kind EXCEPT ![published + 1] = k]
  /\ UNCHANGED <<storeVars, networkOk, pc, jobVars, history>>

DeleteRecord(r) ==
  /\ repo' = repo \ {r}
  /\ UNCHANGED <<published, kind, storeVars, networkOk, pc, jobVars, history>>

OlderThan(c) == {r \in repo : r < c}

\* A listRecords reply to cursor c: the next records in order and, as long as
\* there may be more, the cursor of the last one.
Reply(c, records, next) ==
  /\ records \subseteq OlderThan(c)
  /\ \A r \in records : \A s \in OlderThan(c) : s > r => s \in records
  /\ Cardinality(records) <= PageSize
  /\ Cardinality(records) < PageSize => records = OlderThan(c)
  /\ \/ next = 0 /\ records = OlderThan(c)
     \/ next \in records /\ \A r \in records : next <= r

\* Mutant: only those of the feed at hand are kept.
DocumentsOfFeed(records) == {r \in records : kind[r] = feed}

\* What list_documents keeps of a page: the records that parse, whichever
\* publication of the repo they belong to.
Documents(records) == {r \in records : kind[r] # Unparsable}

-----------------------------------------------------------------------------
(* The worker.                                                             *)

Begin(step, name, p, from) ==
  /\ pc = "idle"
  /\ pc' = step /\ op' = name /\ feed' = p /\ cursor' = from
  /\ todo' = {} /\ pages' = 0 /\ newest' = 0 /\ hadNew' = FALSE
  /\ UNCHANGED <<remoteVars, storeVars, networkOk, history>>

\* The command is over and its locals are gone.
End ==
  /\ pc' = "idle" /\ op' = "none" /\ feed' = NoFeed
  /\ todo' = {} /\ cursor' = 0 /\ pages' = 0 /\ newest' = 0 /\ hadNew' = FALSE
  /\ horizon' = 0

\* OpenFeed and Refresh, once get_publication has answered.
StartRefresh(p) ==
  Begin(IF older = NeverFetched THEN "window" ELSE "walk", "refresh", p, Top)

\* Mutant: the stored cursor is not used.
LoadOlderFromTop(p) ==
  /\ older \notin {0, NeverFetched}
  /\ Begin("window", "loadOlder", p, Top)

\* LoadOlder does nothing for a repo never opened or exhausted, and otherwise
\* resumes from the stored cursor.
StartLoadOlder(p) ==
  /\ older \notin {0, NeverFetched}
  /\ Begin("window", "loadOlder", p, older)

\* `sr fetch` lists one page of each publication's repo.
StartFetchCommand(p) == Begin("window", "fetch", p, Top)

PageLimit ==
  CASE op = "refresh"   -> InitialPages
    [] op = "loadOlder" -> OlderPages
    [] OTHER            -> 1

FirstHorizon == IF pages = 0 THEN published ELSE horizon

\* One turn of list_documents_window.
FetchWindowPage ==
  /\ pc = "window"
  /\ \E records \in SUBSET repo, next \in 0..MaxRecords :
       /\ Reply(cursor, records, next)
       /\ LET docs == Documents(records)
              more == next # 0 /\ docs # {}
          IN /\ todo' = todo \cup docs
             /\ cursor' = IF more THEN next ELSE 0
             /\ pages' = pages + 1
             /\ pc' = IF more /\ pages + 1 < PageLimit THEN "window" ELSE "save"
             /\ torn' = (torn \/ (docs = {} /\ next # 0))
             /\ horizon' = FirstHorizon
  /\ UNCHANGED <<remoteVars, storeVars, networkOk, op, feed, newest, hadNew>>

\* Listed documents are gone through newest first.
NewestTodo(d) == d \in todo /\ \A r \in todo : r <= d

\* Mutant: the newest document of any publication counts.
NoteNewestOfRepo(d) == newest' = IF newest = 0 THEN d ELSE newest

NoteNewest(d) ==
  newest' = IF newest = 0 /\ kind[d] = feed THEN d ELSE newest

\* Mutant: the read mark is not carried over.
UpsertUnread(d, hasBody) ==
  /\ cached' = cached \cup {d}
  /\ body' = IF hasBody THEN body \cup {d} ELSE body \ {d}
  /\ read' = read \ {d}

\* upsert_document replaces the entry, body included, but keeps its read mark.
Upsert(d, hasBody) ==
  /\ cached' = cached \cup {d}
  /\ body' = IF hasBody THEN body \cup {d} ELSE body \ {d}
  /\ read' = read

SaveDoc ==
  /\ pc = "save"
  /\ \E d \in todo :
       /\ NewestTodo(d)
       /\ Upsert(d, FALSE)
       /\ NoteNewest(d)
       /\ todo' = todo \ {d}
       /\ hadNew' = (hadNew \/ d \notin cached)
  /\ UNCHANGED <<remoteVars, mark, older, networkOk, pc, op, feed, cursor,
                 pages, history>>

\* record_watermark and set_sync_cursor: the newest document seen, if any.
AdvanceMark ==
  mark' = IF newest = 0 THEN mark ELSE [mark EXCEPT ![feed] = newest]

\* The first window is stored: its watermark, then its resume cursor.
SaveMark ==
  /\ pc = "save" /\ todo = {} /\ op = "refresh"
  /\ AdvanceMark
  /\ pc' = "older"
  /\ UNCHANGED <<remoteVars, cached, body, read, older, networkOk, jobVars, history>>

SaveOlderCursor ==
  /\ \/ pc = "older"
     \/ pc = "save" /\ todo = {} /\ op = "loadOlder"
  /\ older' = cursor
  /\ networkOk' = (networkOk \/ op = "refresh")
  /\ End
  /\ UNCHANGED <<remoteVars, cached, body, read, mark, torn>>

\* `sr fetch` stops after its page, whether or not it reached documents cached
\* earlier, and prints the feed's newest post with its body.
EndFetchCommand ==
  /\ pc = "save" /\ todo = {} /\ op = "fetch"
  /\ \/ newest \in repo /\ Upsert(newest, TRUE)
     \/ UNCHANGED <<cached, body, read>>
  /\ torn' = (torn \/ (hadNew /\ cursor # 0 /\ older # NeverFetched))
  /\ End
  /\ UNCHANGED <<remoteVars, mark, older, networkOk>>

FetchWalkPage ==
  /\ pc = "walk"
  /\ \E records \in SUBSET repo, next \in 0..MaxRecords :
       /\ Reply(cursor, records, next)
       /\ LET docs == Documents(records)
          IN /\ todo' = docs
             /\ cursor' = next
             /\ pc' = IF docs = {} THEN "finish" ELSE "page"
             /\ torn' = (torn \/ (docs = {} /\ next # 0))
  /\ pages' = pages + 1
  /\ hadNew' = FALSE
  /\ horizon' = FirstHorizon
  /\ UNCHANGED <<remoteVars, storeVars, networkOk, op, feed, newest>>

\* Mutant: documents already stored are written again.
WalkUpsertAll(d) == Upsert(d, FALSE)

\* One document of the page: the watermark ends the walk, a document already
\* stored is left as it is.
WalkUpsert(d) ==
  IF d \in cached THEN UNCHANGED <<cached, body, read>> ELSE Upsert(d, FALSE)

WalkDoc ==
  /\ pc = "page"
  /\ \E d \in todo :
       /\ NewestTodo(d)
       /\ NoteNewest(d)
       /\ IF mark[feed] = d
          THEN /\ pc' = "finish"
               /\ todo' = {}
               /\ UNCHANGED <<cached, body, read, hadNew>>
          ELSE /\ WalkUpsert(d)
               /\ todo' = todo \ {d}
               /\ hadNew' = (hadNew \/ d \notin cached)
               /\ UNCHANGED pc
  /\ UNCHANGED <<remoteVars, mark, older, networkOk, op, feed, cursor, pages,
                 history>>

\* Mutant: the walk stops after its first page.
WalkGoesOnNever == FALSE

\* A page that brought something new has an older neighbour to look at.
WalkGoesOn == hadNew /\ cursor # 0

EndPage ==
  /\ pc = "page" /\ todo = {}
  /\ pc' = IF WalkGoesOn THEN "walk" ELSE "finish"
  /\ UNCHANGED <<remoteVars, storeVars, networkOk, jobVars, history>>

FinishWalk ==
  /\ pc = "finish"
  /\ AdvanceMark
  /\ networkOk' = TRUE
  /\ End
  /\ UNCHANGED <<remoteVars, cached, body, read, older, torn>>

-----------------------------------------------------------------------------
(* Reading posts.  The reader opens documents it was shown, so cached ones. *)

\* Mutant: unknown documents are marked too.
MarkAnyRead(d) ==
  /\ pc = "idle"
  /\ read' = read \cup {d}
  /\ UNCHANGED <<remoteVars, cached, body, mark, older, networkOk, pc, jobVars, history>>

\* OpenDoc served from the cache, or SetRead, which ignores unknown documents.
MarkCachedRead(d) ==
  /\ pc = "idle"
  /\ d \in cached
  /\ read' = read \cup {d}
  /\ UNCHANGED <<remoteVars, cached, body, mark, older, networkOk, pc, jobVars, history>>

\* OpenDoc of a document without a body: fetch, decode and cache it ...
FetchBody(d) ==
  /\ pc = "idle"
  /\ d \in (cached \ body) \cap repo
  /\ Upsert(d, TRUE)
  /\ networkOk' = TRUE
  /\ pc' = "read" /\ op' = "open" /\ todo' = {d}
  /\ UNCHANGED <<remoteVars, mark, older, feed, cursor, pages, newest, hadNew,
                 history>>

\* ... then mark it read, in a transaction of its own.
MarkFetchedRead ==
  /\ pc = "read"
  /\ read' = read \cup todo
  /\ End
  /\ UNCHANGED <<remoteVars, cached, body, mark, older, networkOk, torn>>

\* FreshenDoc rewrites the same entry when it succeeds; a failure switches
\* freshening off.
FreshenFails(d) ==
  /\ pc = "idle" /\ networkOk
  /\ d \in body
  /\ networkOk' = FALSE
  /\ UNCHANGED <<remoteVars, storeVars, pc, jobVars, history>>

-----------------------------------------------------------------------------
(* What cuts a command short.                                              *)

\* The command in progress has cached part of a listing it has not connected
\* to the documents cached before it.
MidListing ==
  \/ pc = "walk" /\ pages > 0
  \/ pc = "page" /\ (pages > 1 \/ hadNew)
  \/ pc = "save" /\ op = "fetch" /\ hadNew /\ older # NeverFetched

RequestFails ==
  /\ pc \in {"window", "walk"}
  /\ torn' = (torn \/ MidListing)
  /\ End
  /\ UNCHANGED <<remoteVars, storeVars, networkOk>>

\* The process dies and is started again; the store is as it was committed.
Crash ==
  /\ torn' = (torn \/ MidListing)
  /\ End
  /\ networkOk' = TRUE
  /\ UNCHANGED <<remoteVars, storeVars>>

\* The process is started again as a release whose CACHE_SCHEMA differs: bodies and
\* cursors are dropped, by the desktop store the documents with their marks too.
Upgrade ==
  /\ \/ cached' = {} /\ read' = {}
     \/ UNCHANGED <<cached, read>>
  /\ body' = {} /\ mark' = [p \in Publications |-> 0] /\ older' = NeverFetched
  /\ torn' = FALSE
  /\ End
  /\ networkOk' = TRUE
  /\ UNCHANGED remoteVars

Remote ==
  \/ \E k \in PublishedKinds : Publish(k)
  \/ \E r \in repo \cap Deletable : DeleteRecord(r)

Command ==
  \/ \E p \in Publications :
       \/ "refresh" \in Commands /\ StartRefresh(p)
       \/ "loadOlder" \in Commands /\ StartLoadOlder(p)
       \/ "fetch" \in Commands /\ StartFetchCommand(p)
  \/ \E d \in Openable : MarkCachedRead(d) \/ FetchBody(d) \/ FreshenFails(d)

Work ==
  \/ FetchWindowPage \/ SaveDoc \/ SaveMark \/ SaveOlderCursor \/ EndFetchCommand
  \/ FetchWalkPage \/ WalkDoc \/ EndPage \/ FinishWalk
  \/ MarkFetchedRead

Next == Remote \/ Command \/ Work \/ RequestFails \/ Crash \/ Upgrade

Spec == Init /\ [][Next]_vars

-----------------------------------------------------------------------------
(* What the walk promises.                                                 *)

LiveDocs == Documents(repo)

\* A document the feed's window should hold, newer ones being cached.
Missing(r, c) ==
  /\ r \in LiveDocs \ cached
  /\ c \in cached
  /\ older <= r /\ r < c

\* Between commands the window has no hole: every document still in the repo
\* that is at or above the older cursor and below some cached one is cached,
\* as long as no listing ended before it had reached documents cached earlier.
\* The watermark, the page probe and load-older rely on it to know where to
\* stop, and must re-establish it (worker.rs:426-519).
Contiguous ==
  pc = "idle" /\ ~torn => \A r, c \in Records : ~Missing(r, c)

\* A refresh has caught up when it ends: it has cached every document it was after, all that
\* were in the repo when it asked for its first page, still are, and lie in the window (the
\* new window, for the first refresh of a repo).  It stops where it meets a cached document,
\* for "a doc already stored means we've caught up on this page" (worker.rs:503-504).
RefreshCatchesUp ==
  op = "refresh" /\ pc \in {"older", "finish"} =>
    \A r \in LiveDocs :
      /\ r <= horizon
      /\ (IF pc = "older" THEN cursor ELSE older) <= r
      => r \in cached

\* It has, as long as no listing before it was cut short: an interrupted walk is the only
\* thing that leaves known documents on top of missing ones, where a later one stops early.
CaughtUp == ~torn => RefreshCatchesUp

\* A watermark names a cached document of its own publication, so a walk that
\* stops there stops on known ground even in a repo of several publications.
MarkNamesCached ==
  \A p \in Publications : mark[p] # 0 => mark[p] \in cached /\ kind[mark[p]] = p

\* No step marks a read document unread: upserts of re-listed or re-fetched
\* documents carry the mark over (tui/store.rs:268-276).  Only a new cache schema
\* may drop it, with the document.
ReadKept == [][read \subseteq read' \/ Upgrade]_vars

\* The reader's commands discard the body of an opened post only when they list
\* again what lies below the older cursor; posts inside the window keep theirs,
\* until a new cache schema drops them all.
BodyKeptInWindow ==
  [][\A d \in body \ body' : d < older \/ op = "fetch" \/ Upgrade]_vars

\* The older cursor only ever moves towards older records, so "load older"
\* never shrinks the window or fetches it again, unless a new cache schema has
\* dropped the window.
OlderMovesDown == [][older' <= older \/ Upgrade]_vars

\* README.md:21: anything the reader has opened reads with no network, as long as
\* the cache schema stays the same.
OpenedStaysReadable == [][body \cap read \subseteq body' \/ Upgrade]_vars
=============================================================================
