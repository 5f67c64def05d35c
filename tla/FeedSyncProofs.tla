--------------------------- MODULE FeedSyncProofs ---------------------------
(***************************************************************************)
(* Proofs about FeedSync: type correctness; watermarks name cached         *)
(* documents of their publication; a listing which was not cut short       *)
(* leaves the cached window without holes and a refresh caught up; read    *)
(* marks, bodies inside the window and the older cursor are kept.          *)
(*                                                                         *)
(* The invariant IInv has two parts.  Structure says what the program      *)
(* counter implies of the worker's locals.  Coverage says what a listing   *)
(* has covered: all documents down to its cursor, with holes only between  *)
(* what it has gone through and what it has not.                           *)
(***************************************************************************)
EXTENDS FeedSync, TLAPS

\* The worker's locals while it lists: what the program counter implies.
JobOK ==
  /\ pc = "idle" => op = "none"
  /\ pc \in {"window", "save"} => op \in {"refresh", "loadOlder", "fetch"}
  /\ pc \in {"older", "walk", "page", "finish"} => op = "refresh"
  /\ op # "none" /\ pc # "read" => feed \in Publications
  /\ pc \in {"older", "walk", "finish"} => todo = {}
  /\ pc = "read" => todo \subseteq cached
  /\ pc \in {"walk", "window"} => cursor # 0
  /\ pages = 0 /\ pc \in {"walk", "window"} =>
       todo = {} /\ cursor = IF op = "loadOlder" THEN older ELSE Top
  /\ pc \in {"save", "older", "page"} => pages > 0
  /\ pc \in {"window", "save", "older"} /\ op = "refresh" => older = NeverFetched
  /\ op = "loadOlder" => older # NeverFetched

\* The newest document seen for the feed is one of its documents; while a
\* command still has to save it, it is cached.
NewestOK ==
  newest # 0 =>
    /\ newest \in cached
    /\ kind[newest] = feed

\* Walks and windows go down: what is left to do lies above the cursor.
Ordered ==
  /\ pc # "read" => \A d \in todo : cursor <= d
  /\ op = "loadOlder" => cursor <= older /\ \A d \in todo : d < older
  /\ pc \in {"window", "save", "older", "walk", "page"} /\ pages > 0 =>
       cursor <= horizon /\ \A d \in todo : d <= horizon
  /\ older # NeverFetched => older <= published

\* A window has listed all there is down to its cursor.
WindowCovers ==
  pc \in {"window", "save", "older"} /\ pages > 0 /\ ~torn =>
    /\ op \in {"refresh", "fetch"} =>
         /\ \A c \in cached \cup todo : c <= horizon
         /\ \A r \in LiveDocs : cursor <= r /\ r <= horizon => r \in todo \cup cached
    /\ op = "loadOlder" =>
         \A r \in LiveDocs : cursor <= r /\ r < older => r \in todo \cup cached

\* A walk has cached all there is down to its cursor, but for the page at hand.
WalkCovers ==
  pc \in {"walk", "page"} /\ pages > 0 /\ ~torn =>
    \A r \in LiveDocs :
      older <= r /\ cursor <= r /\ r <= horizon => r \in todo \cup cached

\* Holes exist only while a listing is on its way down, and lie between what it
\* has gone through and what it has not.
HolesAreAhead ==
  ~torn => \A r, c \in Records : Missing(r, c) =>
    /\ MidListing
    /\ pc \in {"walk", "page"} =>
         /\ r \in todo \/ r < cursor
         /\ cursor <= c /\ c \notin todo

\* A page that brought nothing new lies on known ground.
PageOnKnownGround ==
  pc = "page" /\ todo = {} /\ ~hadNew /\ ~torn =>
    /\ \A r, c \in Records : ~Missing(r, c)
    /\ \A r \in LiveDocs : older <= r /\ r < cursor => r \in cached

\* A walk that has reached its end has caught up.
WalkEnded ==
  pc = "finish" /\ ~torn =>
    \A r \in LiveDocs : older <= r /\ r <= horizon => r \in cached

\* What does not depend on how far a listing has come ...
Structure ==
  TypeOK /\ JobOK /\ NewestOK /\ MarkNamesCached /\ Ordered

\* ... and what does.
Coverage ==
  WindowCovers /\ WalkCovers /\ HolesAreAhead /\ PageOnKnownGround /\ WalkEnded

IInv == Structure /\ Coverage

-----------------------------------------------------------------------------
(* The structural part.                                                    *)

\* A page covers everything between the cursor it was asked for and the cursor
\* that came with it.
LEMMA ReplyCovers ==
  ASSUME NEW from \in Int, NEW records, NEW next \in Int, repo \subseteq Nat,
         Reply(from, records, next)
  PROVE  /\ records \subseteq OlderThan(from)
         /\ \A r \in records : next <= r
         /\ next # 0 => next \in OlderThan(from)
         /\ \A r \in OlderThan(from) : r \in records \/ r < next
BY DEF Reply, OlderThan

\* The initial state satisfies the structural part.
LEMMA InitStructure == Init => Structure
<1> USE PublicationsAssumption, BoundsAssumption
<1> SUFFICES ASSUME Init PROVE Structure
  OBVIOUS
<1>1. TypeOK
  <2>1. RemoteTypeOK
    BY DEF Init, RemoteTypeOK, Kinds
  <2>2. StoreTypeOK
    BY DEF Init, StoreTypeOK, Top, NeverFetched
  <2>3. CommandTypeOK
    BY DEF Init, CommandTypeOK, Steps, Ops, Top
  <2>4. FlagsTypeOK
    BY DEF Init, FlagsTypeOK
  <2>5. QED  BY <2>1, <2>2, <2>3, <2>4 DEF TypeOK
<1>2. JobOK /\ Ordered
  BY DEF Init, JobOK, Ordered
<1>3. NewestOK /\ MarkNamesCached
  BY DEF Init, NewestOK, MarkNamesCached
<1>4. QED  BY <1>1, <1>2, <1>3 DEF Structure

\* Records appearing and disappearing keep the structural part.
LEMMA RemoteStructure ==
  ASSUME Structure, Remote
  PROVE  Structure'
<1> USE PublicationsAssumption, BoundsAssumption
<1>1. ASSUME NEW k \in PublishedKinds, Publish(k)
      PROVE  Structure'
  <2>1. /\ published' = published + 1 /\ published' \in 0..MaxRecords
        /\ \A r \in 1..published : kind'[r] = kind[r]
        /\ kind' \in [Records -> Kinds]
    BY <1>1 DEF Publish, Structure, TypeOK, RemoteTypeOK, Records, Kinds
  <2>2. TypeOK'
    BY <1>1, <2>1 DEF Publish, Structure, TypeOK, RemoteTypeOK, StoreTypeOK, CommandTypeOK,
         FlagsTypeOK, Records, storeVars, jobVars, history
  <2>3. (JobOK /\ Ordered)'
    BY <1>1, <2>1 DEF Publish, Structure, TypeOK, StoreTypeOK, RemoteTypeOK, JobOK, Ordered,
         storeVars, jobVars, history, NeverFetched, Top
  <2>4. (NewestOK /\ MarkNamesCached)'
    BY <1>1, <2>1 DEF Publish, Structure, TypeOK, StoreTypeOK, NewestOK, MarkNamesCached,
         storeVars, jobVars, history
  <2>5. QED  BY <2>2, <2>3, <2>4 DEF Structure
<1>2. ASSUME NEW r \in repo \cap Deletable, DeleteRecord(r)
      PROVE  Structure'
  BY <1>2 DEF DeleteRecord, Structure, TypeOK, RemoteTypeOK, StoreTypeOK,
     CommandTypeOK, FlagsTypeOK, JobOK, NewestOK, MarkNamesCached,
     Ordered, storeVars, jobVars, history, NeverFetched, Top, Records, Kinds
<1>3. QED  BY <1>1, <1>2 DEF Remote

\* StartRefresh keeps the structural part.
LEMMA StartRefreshStructure ==
  ASSUME NEW p \in Publications, Structure, StartRefresh(p)
  PROVE  Structure'
<1>1. (RemoteTypeOK /\ StoreTypeOK)'
  BY DEF StartRefresh, Begin, Structure, TypeOK, remoteVars, storeVars, jobVars,
     history, RemoteTypeOK, StoreTypeOK
<1>2. CommandTypeOK'
  BY BoundsAssumption DEF StartRefresh, Begin, Structure, TypeOK, remoteVars, storeVars,
     jobVars, history, Top, CommandTypeOK, Steps, Ops
<1>3. FlagsTypeOK'
  BY DEF StartRefresh, Begin, Structure, TypeOK, remoteVars, storeVars, jobVars,
     history, FlagsTypeOK
<1>4. JobOK'
  BY BoundsAssumption DEF StartRefresh, Begin, remoteVars, storeVars, jobVars, history,
     Top, JobOK
<1>5. Ordered'
  BY DEF StartRefresh, Begin, Structure, remoteVars, storeVars, jobVars, history,
     Ordered
<1>6. (NewestOK /\ MarkNamesCached)'
  BY DEF StartRefresh, Begin, Structure, remoteVars, storeVars, jobVars, history,
     NewestOK, MarkNamesCached
<1>7. QED  BY <1>1, <1>2, <1>3, <1>4, <1>5, <1>6 DEF Structure, TypeOK

\* StartLoadOlder keeps the structural part.
LEMMA StartLoadOlderStructure ==
  ASSUME NEW p \in Publications, Structure, StartLoadOlder(p)
  PROVE  Structure'
<1>1. (RemoteTypeOK /\ StoreTypeOK)'
  BY DEF StartLoadOlder, Begin, Structure, TypeOK, remoteVars, storeVars, jobVars,
     history, RemoteTypeOK, StoreTypeOK
<1>2. CommandTypeOK'
  BY BoundsAssumption DEF StartLoadOlder, Begin, Structure, TypeOK, remoteVars,
     storeVars, jobVars, history, StoreTypeOK, CommandTypeOK, Steps, Ops
<1>3. FlagsTypeOK'
  BY DEF StartLoadOlder, Begin, Structure, TypeOK, remoteVars, storeVars, jobVars,
     history, FlagsTypeOK
<1>4. JobOK'
  BY DEF StartLoadOlder, Begin, remoteVars, storeVars, jobVars, history, JobOK
<1>5. Ordered'
  BY DEF StartLoadOlder, Begin, Structure, TypeOK, remoteVars, storeVars, jobVars,
     history, Ordered, StoreTypeOK
<1>6. (NewestOK /\ MarkNamesCached)'
  BY DEF StartLoadOlder, Begin, Structure, remoteVars, storeVars, jobVars, history,
     NewestOK, MarkNamesCached
<1>7. QED  BY <1>1, <1>2, <1>3, <1>4, <1>5, <1>6 DEF Structure, TypeOK

\* StartFetchCommand keeps the structural part.
LEMMA StartFetchCommandStructure ==
  ASSUME NEW p \in Publications, Structure, StartFetchCommand(p)
  PROVE  Structure'
<1>1. (RemoteTypeOK /\ StoreTypeOK)'
  BY DEF StartFetchCommand, Begin, Structure, TypeOK, remoteVars, storeVars, jobVars,
     history, RemoteTypeOK, StoreTypeOK
<1>2. CommandTypeOK'
  BY BoundsAssumption DEF StartFetchCommand, Begin, Structure, TypeOK, remoteVars,
     storeVars, jobVars, history, Top, CommandTypeOK, Steps, Ops
<1>3. FlagsTypeOK'
  BY DEF StartFetchCommand, Begin, Structure, TypeOK, remoteVars, storeVars, jobVars,
     history, FlagsTypeOK
<1>4. JobOK'
  BY BoundsAssumption DEF StartFetchCommand, Begin, remoteVars, storeVars, jobVars,
     history, Top, JobOK
<1>5. Ordered'
  BY DEF StartFetchCommand, Begin, Structure, remoteVars, storeVars, jobVars, history,
     Ordered
<1>6. (NewestOK /\ MarkNamesCached)'
  BY DEF StartFetchCommand, Begin, Structure, remoteVars, storeVars, jobVars, history,
     NewestOK, MarkNamesCached
<1>7. QED  BY <1>1, <1>2, <1>3, <1>4, <1>5, <1>6 DEF Structure, TypeOK

\* A window page lies below the pages before it and above its cursor.
LEMMA FetchWindowPageOrdered ==
  ASSUME Structure, FetchWindowPage
  PROVE  Ordered'
<1> USE BoundsAssumption DEF Records
<1>1. PICK records \in SUBSET repo, next \in 0..MaxRecords :
        /\ Reply(cursor, records, next)
        /\ todo' = todo \cup Documents(records)
        /\ cursor' = IF next # 0 /\ Documents(records) # {} THEN next ELSE 0
  BY Zenon DEF FetchWindowPage
<1>2. /\ pc = "window" /\ pc' \in {"window", "save"} /\ horizon' = FirstHorizon
      /\ UNCHANGED <<published, older, op>>
  BY DEF FetchWindowPage, remoteVars, storeVars
<1>3. /\ repo \subseteq 1..published /\ published \in Nat
      /\ cursor \in 0..Top /\ older \in 0..Top /\ next \in Int /\ repo \subseteq Nat
      /\ todo \subseteq 1..published /\ pages \in Nat /\ horizon \in 0..published
  BY <1>1, <1>2 DEF Structure, TypeOK, RemoteTypeOK, StoreTypeOK, CommandTypeOK
<1>4. /\ records \subseteq OlderThan(cursor)
      /\ \A r \in records : next <= r
      /\ next # 0 => next \in OlderThan(cursor)
  <2>1. cursor \in Int
    BY <1>3 DEF Top
  <2>2. QED  BY <2>1, <1>1, <1>3, ReplyCovers
<1>5. /\ \A d \in todo' : d \in todo \/ d \in records
      /\ cursor' \in {0, next} /\ cursor' <= cursor
      /\ todo' \subseteq 1..published
  <2>1. \A d \in todo' : d \in todo \/ d \in records
    BY <1>1 DEF Documents
  <2>2. cursor' \in {0, next}
    BY <1>1, Zenon
  <2>3. next <= cursor /\ 0 <= cursor
    BY <1>3, <1>4 DEF OlderThan, Top
  <2>4. QED  BY <2>1, <2>2, <2>3, <1>3
<1>6. \A d \in todo' : cursor' <= d
  <2>1. \A d \in todo : cursor <= d
    BY <1>2 DEF Structure, Ordered
  <2>2. QED  BY <2>1, <1>3, <1>4, <1>5 DEF Top
<1>7. op = "loadOlder" => cursor' <= older /\ \A d \in todo' : d < older
  <2>1. op = "loadOlder" => cursor <= older /\ \A d \in todo : d < older
    BY DEF Structure, Ordered
  <2>2. \A d \in records : d < cursor /\ d \in Nat
    BY <1>3, <1>4 DEF OlderThan
  <2>3. QED  BY <2>1, <2>2, <1>3, <1>5 DEF Top
<1>8. cursor' <= horizon' /\ \A d \in todo' : d <= horizon'
  <2>1. CASE pages = 0
    <3>1. horizon' = published
      BY <1>2, <2>1 DEF FirstHorizon
    <3>2. QED  BY <3>1, <1>3, <1>4, <1>5 DEF OlderThan
  <2>2. CASE pages > 0
    <3>1. horizon' = horizon /\ cursor <= horizon /\ \A d \in todo : d <= horizon
      BY <1>2, <1>3, <2>2 DEF FirstHorizon, Structure, Ordered
    <3>2. \A d \in records : d < cursor /\ d \in Nat
      BY <1>3, <1>4 DEF OlderThan
    <3>3. QED  BY <3>1, <3>2, <1>3, <1>5 DEF Top
  <2>3. QED  BY <2>1, <2>2, <1>3
<1>9. older' # NeverFetched => older' <= published'
  BY <1>2 DEF Structure, Ordered, NeverFetched, Top
<1>10. QED  BY <1>2, <1>6, <1>7, <1>8, <1>9 DEF Ordered

\* FetchWindowPage keeps the structural part.
LEMMA FetchWindowPageStructure ==
  ASSUME Structure, FetchWindowPage
  PROVE  Structure'
<1>1. (RemoteTypeOK /\ StoreTypeOK)'
  BY DEF FetchWindowPage, Structure, TypeOK, remoteVars, storeVars, jobVars, history,
     RemoteTypeOK, StoreTypeOK
<1>2. CommandTypeOK'
  BY BoundsAssumption DEF FetchWindowPage, Documents, PageLimit, FirstHorizon,
     Structure, TypeOK, remoteVars, storeVars, jobVars, history, Top, RemoteTypeOK,
     CommandTypeOK, Steps
<1>3. FlagsTypeOK'
  BY DEF FetchWindowPage, Structure, TypeOK, remoteVars, storeVars, jobVars, history,
     FlagsTypeOK
<1>4. JobOK'
  BY DEF FetchWindowPage, Structure, TypeOK, remoteVars, storeVars, jobVars, history,
     JobOK, CommandTypeOK
<1>5. Ordered'
  BY FetchWindowPageOrdered
<1>6. (NewestOK /\ MarkNamesCached)'
  BY DEF FetchWindowPage, Structure, remoteVars, storeVars, jobVars, history, NewestOK,
     MarkNamesCached
<1>7. QED  BY <1>1, <1>2, <1>3, <1>4, <1>5, <1>6 DEF Structure, TypeOK

\* SaveDoc keeps the structural part.
LEMMA SaveDocStructure ==
  ASSUME Structure, SaveDoc
  PROVE  Structure'
<1>1. (RemoteTypeOK /\ StoreTypeOK)'
  BY DEF SaveDoc, Upsert, Structure, TypeOK, remoteVars, storeVars, jobVars, history,
     RemoteTypeOK, StoreTypeOK, CommandTypeOK
<1>2. CommandTypeOK'
  BY BoundsAssumption DEF SaveDoc, Upsert, NoteNewest, Structure, TypeOK, remoteVars,
     storeVars, jobVars, history, RemoteTypeOK, CommandTypeOK
<1>3. FlagsTypeOK'
  BY DEF SaveDoc, Upsert, Structure, TypeOK, remoteVars, storeVars, jobVars, history,
     FlagsTypeOK
<1>4. JobOK'
  BY DEF SaveDoc, Upsert, Structure, remoteVars, storeVars, jobVars, history, JobOK
<1>5. Ordered'
  BY DEF SaveDoc, Upsert, Structure, remoteVars, storeVars, jobVars, history, Ordered
<1>6. (NewestOK /\ MarkNamesCached)'
  BY DEF SaveDoc, Upsert, NoteNewest, Structure, remoteVars, storeVars, jobVars,
     history, NewestOK, MarkNamesCached
<1>7. QED  BY <1>1, <1>2, <1>3, <1>4, <1>5, <1>6 DEF Structure, TypeOK

\* SaveMark keeps the structural part.
LEMMA SaveMarkStructure ==
  ASSUME Structure, SaveMark
  PROVE  Structure'
<1>1. (RemoteTypeOK /\ StoreTypeOK)'
  BY DEF SaveMark, AdvanceMark, Structure, TypeOK, remoteVars, storeVars, jobVars,
     history, RemoteTypeOK, StoreTypeOK, CommandTypeOK
<1>2. CommandTypeOK'
  BY DEF SaveMark, Structure, TypeOK, remoteVars, storeVars, jobVars, history,
     CommandTypeOK, Steps
<1>3. FlagsTypeOK'
  BY DEF SaveMark, Structure, TypeOK, remoteVars, storeVars, jobVars, history,
     FlagsTypeOK
<1>4. JobOK'
  BY DEF SaveMark, Structure, remoteVars, storeVars, jobVars, history, JobOK
<1>5. Ordered'
  BY DEF SaveMark, Structure, remoteVars, storeVars, jobVars, history, Ordered
<1>6. (NewestOK /\ MarkNamesCached)'
  BY DEF SaveMark, AdvanceMark, Structure, remoteVars, storeVars, jobVars, history,
     NewestOK, MarkNamesCached
<1>7. QED  BY <1>1, <1>2, <1>3, <1>4, <1>5, <1>6 DEF Structure, TypeOK

\* SaveOlderCursor keeps the structural part.
LEMMA SaveOlderCursorStructure ==
  ASSUME Structure, SaveOlderCursor
  PROVE  Structure'
<1>1. (RemoteTypeOK /\ StoreTypeOK)'
  BY DEF SaveOlderCursor, End, Structure, TypeOK, remoteVars, storeVars, jobVars,
     history, RemoteTypeOK, StoreTypeOK, CommandTypeOK
<1>2. CommandTypeOK'
  BY BoundsAssumption DEF SaveOlderCursor, End, Structure, TypeOK, remoteVars,
     storeVars, jobVars, history, Top, RemoteTypeOK, CommandTypeOK, Steps, Ops
<1>3. FlagsTypeOK'
  BY DEF SaveOlderCursor, End, Structure, TypeOK, remoteVars, storeVars, jobVars,
     history, FlagsTypeOK
<1>4. JobOK'
  BY DEF SaveOlderCursor, End, remoteVars, storeVars, jobVars, history, JobOK
<1>5. Ordered'
  BY DEF SaveOlderCursor, End, Structure, TypeOK, remoteVars, storeVars, jobVars,
     history, Ordered, JobOK, RemoteTypeOK, CommandTypeOK
<1>6. (NewestOK /\ MarkNamesCached)'
  BY DEF SaveOlderCursor, End, Structure, remoteVars, storeVars, jobVars, history,
     NewestOK, MarkNamesCached
<1>7. QED  BY <1>1, <1>2, <1>3, <1>4, <1>5, <1>6 DEF Structure, TypeOK

\* EndFetchCommand keeps the structural part.
LEMMA EndFetchCommandStructure ==
  ASSUME Structure, EndFetchCommand
  PROVE  Structure'
<1> USE PublicationsAssumption, BoundsAssumption
    DEF EndFetchCommand, End, Upsert, Structure, TypeOK,
        remoteVars, storeVars, jobVars, history, Top, NeverFetched, Records
<1>1. (RemoteTypeOK /\ StoreTypeOK)'
  <2>1. newest \in repo =>
          newest \in {r \in 1..published : kind[r] # Unparsable}
    BY DEF RemoteTypeOK, CommandTypeOK, JobOK, NewestOK
  <2>2. CASE UNCHANGED <<cached, body, read>>
    BY <2>2 DEF StoreTypeOK, RemoteTypeOK
  <2>3. CASE /\ newest \in repo
             /\ cached' = cached \cup {newest}
             /\ body' = body \cup {newest}
             /\ read' = read
    BY <2>1, <2>3 DEF StoreTypeOK, RemoteTypeOK
  <2>4. QED  BY <2>2, <2>3, Zenon
<1>2. CommandTypeOK'
  BY DEF RemoteTypeOK, StoreTypeOK, CommandTypeOK, Steps, Ops, JobOK
<1>3. FlagsTypeOK'
  BY DEF FlagsTypeOK
<1>4. JobOK'
  BY DEF JobOK, RemoteTypeOK, CommandTypeOK
<1>5. Ordered'
  BY DEF Ordered, JobOK, RemoteTypeOK, StoreTypeOK, CommandTypeOK
<1>6. (NewestOK /\ MarkNamesCached)'
  BY DEF NewestOK, MarkNamesCached, JobOK, RemoteTypeOK, StoreTypeOK, CommandTypeOK
<1>7. QED  BY <1>1, <1>2, <1>3, <1>4, <1>5, <1>6

\* FetchWalkPage keeps the structural part.
LEMMA FetchWalkPageStructure ==
  ASSUME Structure, FetchWalkPage
  PROVE  Structure'
<1> USE PublicationsAssumption, BoundsAssumption
    DEF FetchWalkPage, Reply, OlderThan, Documents, FirstHorizon, Structure, TypeOK,
        remoteVars, storeVars, jobVars, history, Top, NeverFetched, Records
<1>1. (RemoteTypeOK /\ StoreTypeOK)'
  BY DEF RemoteTypeOK, StoreTypeOK, CommandTypeOK, JobOK, NewestOK
<1>2. CommandTypeOK'
  <2>1. PICK records \in SUBSET repo, next \in 0..MaxRecords :
          /\ todo' = {r \in records : kind[r] # Unparsable}
          /\ cursor' = next
          /\ pc' = IF todo' = {} THEN "finish" ELSE "page"
    BY Zenon
  <2>2. /\ UNCHANGED <<op, feed, newest, published, kind>>
        /\ pages' = pages + 1
        /\ horizon' \in {published, horizon}
    OBVIOUS
  <2>3. todo' \subseteq {r \in 1..published' : kind'[r] # Unparsable}
    <3>1. ASSUME NEW r \in todo'
          PROVE  r \in repo /\ kind[r] # Unparsable
      BY <2>1, <3>1
    <3>2. QED  BY <2>2, <3>1 DEF RemoteTypeOK
  <2>6. horizon' \in 0..published'
    BY <2>2 DEF RemoteTypeOK, CommandTypeOK
  <2>4. pc' \in Steps /\ cursor' \in 0..Top /\ pages' \in Nat
    BY <2>1, <2>2 DEF CommandTypeOK, Steps
  <2>5. QED  BY <2>2, <2>3, <2>4, <2>6 DEF CommandTypeOK
<1>3. FlagsTypeOK'
  BY DEF FlagsTypeOK
<1>4. JobOK'
  BY DEF JobOK, RemoteTypeOK, CommandTypeOK
<1>5. Ordered'
  BY DEF Ordered, JobOK, RemoteTypeOK, StoreTypeOK, CommandTypeOK
<1>6. (NewestOK /\ MarkNamesCached)'
  BY DEF NewestOK, MarkNamesCached, JobOK, RemoteTypeOK, StoreTypeOK, CommandTypeOK
<1>7. QED  BY <1>1, <1>2, <1>3, <1>4, <1>5, <1>6

\* WalkDoc keeps the structural part.
LEMMA WalkDocStructure ==
  ASSUME Structure, WalkDoc
  PROVE  Structure'
<1> USE PublicationsAssumption, BoundsAssumption
    DEF WalkDoc, WalkUpsert, Upsert, NewestTodo, NoteNewest, Structure, TypeOK,
        remoteVars, storeVars, jobVars, history, Top, NeverFetched, Records
<1>1. (RemoteTypeOK /\ StoreTypeOK)'
  BY DEF RemoteTypeOK, StoreTypeOK, CommandTypeOK, JobOK, NewestOK
<1>2. CommandTypeOK'
  <2>1. PICK d \in todo : /\ newest' \in {newest, d}
                          /\ todo' \in {todo \ {d}, {}}
                          /\ pc' \in {pc, "finish"}
    OBVIOUS
  <2>2. d \in 0..MaxRecords
    BY <2>1 DEF RemoteTypeOK, CommandTypeOK
  <2>3. UNCHANGED <<op, feed, cursor, pages, horizon, published, kind>>
    OBVIOUS
  <2>4. newest' \in 0..MaxRecords /\ todo' \subseteq todo /\ pc' \in Steps
    BY <2>1, <2>2 DEF CommandTypeOK, Steps
  <2>5. QED  BY <2>3, <2>4 DEF CommandTypeOK
<1>3. FlagsTypeOK'
  BY DEF FlagsTypeOK
<1>4. JobOK'
  BY DEF JobOK, RemoteTypeOK, CommandTypeOK
<1>5. Ordered'
  BY DEF Ordered, JobOK, RemoteTypeOK, StoreTypeOK, CommandTypeOK
<1>6. (NewestOK /\ MarkNamesCached)'
  BY DEF NewestOK, MarkNamesCached, JobOK, RemoteTypeOK, StoreTypeOK, CommandTypeOK
<1>7. QED  BY <1>1, <1>2, <1>3, <1>4, <1>5, <1>6

\* EndPage keeps the structural part.
LEMMA EndPageStructure ==
  ASSUME Structure, EndPage
  PROVE  Structure'
<1>1. (RemoteTypeOK /\ StoreTypeOK)'
  BY DEF EndPage, Structure, TypeOK, remoteVars, storeVars, jobVars, history,
     RemoteTypeOK, StoreTypeOK
<1>2. CommandTypeOK'
  BY DEF EndPage, Structure, TypeOK, remoteVars, storeVars, jobVars, history,
     CommandTypeOK, Steps
<1>3. FlagsTypeOK'
  BY DEF EndPage, Structure, TypeOK, remoteVars, storeVars, jobVars, history,
     FlagsTypeOK
<1>4. JobOK'
  BY DEF EndPage, WalkGoesOn, Structure, remoteVars, storeVars, jobVars, history, JobOK
<1>5. Ordered'
  BY DEF EndPage, Structure, remoteVars, storeVars, jobVars, history, Ordered
<1>6. (NewestOK /\ MarkNamesCached)'
  BY DEF EndPage, Structure, remoteVars, storeVars, jobVars, history, NewestOK,
     MarkNamesCached
<1>7. QED  BY <1>1, <1>2, <1>3, <1>4, <1>5, <1>6 DEF Structure, TypeOK

\* FinishWalk keeps the structural part.
LEMMA FinishWalkStructure ==
  ASSUME Structure, FinishWalk
  PROVE  Structure'
<1>1. (RemoteTypeOK /\ StoreTypeOK)'
  BY DEF FinishWalk, AdvanceMark, End, Structure, TypeOK, remoteVars, storeVars,
     jobVars, history, RemoteTypeOK, StoreTypeOK, CommandTypeOK
<1>2. CommandTypeOK'
  BY BoundsAssumption DEF FinishWalk, End, Structure, TypeOK, remoteVars, storeVars,
     jobVars, history, Top, RemoteTypeOK, CommandTypeOK, Steps, Ops
<1>3. FlagsTypeOK'
  BY DEF FinishWalk, End, Structure, TypeOK, remoteVars, storeVars, jobVars, history,
     FlagsTypeOK
<1>4. JobOK'
  BY DEF FinishWalk, End, remoteVars, storeVars, jobVars, history, JobOK
<1>5. Ordered'
  BY DEF FinishWalk, End, Structure, remoteVars, storeVars, jobVars, history, Ordered
<1>6. (NewestOK /\ MarkNamesCached)'
  BY DEF FinishWalk, AdvanceMark, End, Structure, remoteVars, storeVars, jobVars,
     history, NewestOK, MarkNamesCached
<1>7. QED  BY <1>1, <1>2, <1>3, <1>4, <1>5, <1>6 DEF Structure, TypeOK

\* MarkFetchedRead keeps the structural part.
LEMMA MarkFetchedReadStructure ==
  ASSUME Structure, MarkFetchedRead
  PROVE  Structure'
<1>1. (RemoteTypeOK /\ StoreTypeOK)'
  BY DEF MarkFetchedRead, End, Structure, TypeOK, remoteVars, storeVars, jobVars,
     history, RemoteTypeOK, StoreTypeOK, JobOK
<1>2. CommandTypeOK'
  BY BoundsAssumption DEF MarkFetchedRead, End, Structure, TypeOK, remoteVars,
     storeVars, jobVars, history, Top, RemoteTypeOK, CommandTypeOK, Steps, Ops
<1>3. FlagsTypeOK'
  BY DEF MarkFetchedRead, End, Structure, TypeOK, remoteVars, storeVars, jobVars,
     history, FlagsTypeOK
<1>4. JobOK'
  BY DEF MarkFetchedRead, End, remoteVars, storeVars, jobVars, history, JobOK
<1>5. Ordered'
  BY DEF MarkFetchedRead, End, Structure, remoteVars, storeVars, jobVars, history,
     Ordered
<1>6. (NewestOK /\ MarkNamesCached)'
  BY DEF MarkFetchedRead, End, Structure, remoteVars, storeVars, jobVars, history,
     NewestOK, MarkNamesCached
<1>7. QED  BY <1>1, <1>2, <1>3, <1>4, <1>5, <1>6 DEF Structure, TypeOK

\* MarkCachedRead keeps the structural part.
LEMMA MarkCachedReadStructure ==
  ASSUME NEW d \in Openable, Structure, MarkCachedRead(d)
  PROVE  Structure'
<1>1. (RemoteTypeOK /\ StoreTypeOK)'
  BY DEF MarkCachedRead, Structure, TypeOK, remoteVars, storeVars, jobVars, history,
     RemoteTypeOK, StoreTypeOK
<1>2. CommandTypeOK'
  BY DEF MarkCachedRead, Structure, TypeOK, remoteVars, storeVars, jobVars, history,
     CommandTypeOK
<1>3. FlagsTypeOK'
  BY DEF MarkCachedRead, Structure, TypeOK, remoteVars, storeVars, jobVars, history,
     FlagsTypeOK
<1>4. JobOK'
  BY DEF MarkCachedRead, Structure, remoteVars, storeVars, jobVars, history, JobOK
<1>5. Ordered'
  BY DEF MarkCachedRead, Structure, remoteVars, storeVars, jobVars, history, Ordered
<1>6. (NewestOK /\ MarkNamesCached)'
  BY DEF MarkCachedRead, Structure, remoteVars, storeVars, jobVars, history, NewestOK,
     MarkNamesCached
<1>7. QED  BY <1>1, <1>2, <1>3, <1>4, <1>5, <1>6 DEF Structure, TypeOK

\* FetchBody keeps the structural part.
LEMMA FetchBodyStructure ==
  ASSUME NEW d \in Openable, Structure, FetchBody(d)
  PROVE  Structure'
<1>1. (RemoteTypeOK /\ StoreTypeOK)'
  BY DEF FetchBody, Upsert, Structure, TypeOK, remoteVars, storeVars, jobVars, history,
     RemoteTypeOK, StoreTypeOK
<1>2. CommandTypeOK'
  BY DEF FetchBody, Upsert, Structure, TypeOK, remoteVars, storeVars, jobVars, history,
     StoreTypeOK, CommandTypeOK, Steps, Ops
<1>3. FlagsTypeOK'
  BY DEF FetchBody, Upsert, Structure, TypeOK, remoteVars, storeVars, jobVars, history,
     FlagsTypeOK
<1>4. JobOK'
  BY DEF FetchBody, Upsert, remoteVars, storeVars, jobVars, history, JobOK
<1>5. Ordered'
  BY DEF FetchBody, Upsert, Structure, remoteVars, storeVars, jobVars, history, Ordered
<1>6. (NewestOK /\ MarkNamesCached)'
  BY DEF FetchBody, Upsert, Structure, remoteVars, storeVars, jobVars, history,
     NewestOK, MarkNamesCached
<1>7. QED  BY <1>1, <1>2, <1>3, <1>4, <1>5, <1>6 DEF Structure, TypeOK

\* FreshenFails keeps the structural part.
LEMMA FreshenFailsStructure ==
  ASSUME NEW d \in Openable, Structure, FreshenFails(d)
  PROVE  Structure'
<1>1. (RemoteTypeOK /\ StoreTypeOK)'
  BY DEF FreshenFails, Structure, TypeOK, remoteVars, storeVars, jobVars, history,
     RemoteTypeOK, StoreTypeOK
<1>2. CommandTypeOK'
  BY DEF FreshenFails, Structure, TypeOK, remoteVars, storeVars, jobVars, history,
     CommandTypeOK
<1>3. FlagsTypeOK'
  BY DEF FreshenFails, Structure, TypeOK, remoteVars, storeVars, jobVars, history,
     FlagsTypeOK
<1>4. JobOK'
  BY DEF FreshenFails, Structure, remoteVars, storeVars, jobVars, history, JobOK
<1>5. Ordered'
  BY DEF FreshenFails, Structure, remoteVars, storeVars, jobVars, history, Ordered
<1>6. (NewestOK /\ MarkNamesCached)'
  BY DEF FreshenFails, Structure, remoteVars, storeVars, jobVars, history, NewestOK,
     MarkNamesCached
<1>7. QED  BY <1>1, <1>2, <1>3, <1>4, <1>5, <1>6 DEF Structure, TypeOK

\* RequestFails keeps the structural part.
LEMMA RequestFailsStructure ==
  ASSUME Structure, RequestFails
  PROVE  Structure'
<1>1. (RemoteTypeOK /\ StoreTypeOK)'
  BY DEF RequestFails, End, Structure, TypeOK, remoteVars, storeVars, jobVars, history,
     RemoteTypeOK, StoreTypeOK
<1>2. CommandTypeOK'
  BY BoundsAssumption DEF RequestFails, End, Structure, TypeOK, remoteVars, storeVars,
     jobVars, history, Top, RemoteTypeOK, CommandTypeOK, Steps, Ops
<1>3. FlagsTypeOK'
  BY DEF RequestFails, End, Structure, TypeOK, remoteVars, storeVars, jobVars, history,
     FlagsTypeOK
<1>4. JobOK'
  BY DEF RequestFails, End, remoteVars, storeVars, jobVars, history, JobOK
<1>5. Ordered'
  BY DEF RequestFails, End, Structure, remoteVars, storeVars, jobVars, history, Ordered
<1>6. (NewestOK /\ MarkNamesCached)'
  BY DEF RequestFails, End, Structure, remoteVars, storeVars, jobVars, history,
     NewestOK, MarkNamesCached
<1>7. QED  BY <1>1, <1>2, <1>3, <1>4, <1>5, <1>6 DEF Structure, TypeOK

\* Crash keeps the structural part.
LEMMA CrashStructure ==
  ASSUME Structure, Crash
  PROVE  Structure'
<1>1. (RemoteTypeOK /\ StoreTypeOK)'
  BY DEF Crash, End, Structure, TypeOK, remoteVars, storeVars, jobVars, history,
     RemoteTypeOK, StoreTypeOK
<1>2. CommandTypeOK'
  BY BoundsAssumption DEF Crash, End, Structure, TypeOK, remoteVars, storeVars, jobVars,
     history, Top, RemoteTypeOK, CommandTypeOK, Steps, Ops
<1>3. FlagsTypeOK'
  BY DEF Crash, End, remoteVars, storeVars, jobVars, history, FlagsTypeOK
<1>4. JobOK'
  BY DEF Crash, End, remoteVars, storeVars, jobVars, history, JobOK
<1>5. Ordered'
  BY DEF Crash, End, Structure, remoteVars, storeVars, jobVars, history, Ordered
<1>6. (NewestOK /\ MarkNamesCached)'
  BY DEF Crash, End, Structure, remoteVars, storeVars, jobVars, history, NewestOK,
     MarkNamesCached
<1>7. QED  BY <1>1, <1>2, <1>3, <1>4, <1>5, <1>6 DEF Structure, TypeOK

\* Upgrade keeps the structural part.
LEMMA UpgradeStructure ==
  ASSUME Structure, Upgrade
  PROVE  Structure'
<1> USE BoundsAssumption DEF Upgrade, End, Structure, TypeOK
<1>1. (RemoteTypeOK /\ StoreTypeOK)'
  <2>1. RemoteTypeOK'
    BY DEF remoteVars, RemoteTypeOK
  <2>2. cached' \subseteq {r \in 1..published' : kind'[r] # Unparsable}
    BY DEF remoteVars, StoreTypeOK
  <2>3. body' \subseteq cached' /\ read' \subseteq cached'
    BY DEF StoreTypeOK
  <2>4. mark' \in [Publications -> 0..MaxRecords] /\ older' \in 0..Top
    BY DEF NeverFetched, Top
  <2>5. QED  BY <2>1, <2>2, <2>3, <2>4 DEF StoreTypeOK, Top
<1>2. (CommandTypeOK /\ FlagsTypeOK)'
  <2>1. CommandTypeOK'
    BY DEF remoteVars, RemoteTypeOK, CommandTypeOK, Steps, Ops, Top
  <2>2. FlagsTypeOK'
    BY DEF FlagsTypeOK
  <2>3. QED  BY <2>1, <2>2
<1>3. (JobOK /\ Ordered)'
  BY DEF Upgrade, End, JobOK, Ordered
<1>4. (NewestOK /\ MarkNamesCached)'
  BY DEF Upgrade, End, NewestOK, MarkNamesCached
<1>5. QED  BY <1>1, <1>2, <1>3, <1>4 DEF Structure, TypeOK

-----------------------------------------------------------------------------
(* The coverage part.                                                      *)

\* Saving a listed document opens no hole that its listing is not to close.
LEMMA SaveDocHolesAreAhead ==
  ASSUME IInv, Structure', SaveDoc
  PROVE  HolesAreAhead'
<1> USE BoundsAssumption DEF Records
<1>1. PICK d \in todo :
        /\ hadNew' = (hadNew \/ d \notin cached)
        /\ cached' = cached \cup {d}
  BY Zenon DEF SaveDoc, Upsert
<1>2. /\ pc = "save" /\ UNCHANGED <<pc, repo, kind, older, torn, op>>
  BY DEF SaveDoc, remoteVars, history
<1> SUFFICES ASSUME ~torn', NEW r \in Records, NEW c \in Records, Missing(r, c)'
             PROVE  MidListing'
  BY <1>2 DEF HolesAreAhead
<1>3. \A x, y \in Records : Missing(x, y) => op = "fetch" /\ hadNew
  BY <1>2, Zenon DEF IInv, Coverage, HolesAreAhead, MidListing
<1>4. older # NeverFetched
  BY <1>2 DEF Missing, NeverFetched, Top, IInv, Structure, TypeOK, StoreTypeOK
<1>5. c = d => op = "fetch"
  BY <1>1, <1>2, <1>4 DEF IInv, Structure, TypeOK, JobOK, Ordered, Missing,
     StoreTypeOK, CommandTypeOK
<1>6. c # d => Missing(r, c)
  BY <1>1, <1>2 DEF Missing, LiveDocs, Documents
<1>7. c = d /\ d \in cached => Missing(r, c)
  BY <1>1, <1>2 DEF Missing, LiveDocs, Documents
<1>8. op = "fetch" /\ hadNew'
  BY <1>1, <1>3, <1>5, <1>6, <1>7, Zenon
<1>9. QED  BY <1>2, <1>4, <1>8 DEF MidListing, NeverFetched, Top

\* `sr fetch` leaves no hole unless its page ended among new documents.
LEMMA EndFetchCommandHolesAreAhead ==
  ASSUME IInv, Structure', EndFetchCommand
  PROVE  HolesAreAhead'
<1> USE BoundsAssumption DEF Records
<1>1. /\ pc = "save" /\ todo = {} /\ op = "fetch"
      /\ UNCHANGED <<repo, kind, older>>
      /\ torn' = (torn \/ (hadNew /\ cursor # 0 /\ older # NeverFetched))
  BY Zenon DEF EndFetchCommand, remoteVars
<1>2. cached' = cached
  <2>1. newest \in repo => newest \in cached
    BY DEF IInv, Structure, TypeOK, RemoteTypeOK, NewestOK
  <2>2. (newest \in repo /\ cached' = cached \cup {newest}) \/ cached' = cached
    BY Zenon DEF EndFetchCommand, Upsert
  <2>3. QED  BY <2>1, <2>2
<1> SUFFICES ASSUME ~torn', NEW r \in Records, NEW c \in Records, Missing(r, c)'
             PROVE  FALSE
  BY DEF HolesAreAhead
<1>3. ~torn /\ Missing(r, c)
  BY <1>1, <1>2 DEF Missing, LiveDocs, Documents
<1>4. hadNew /\ older # NeverFetched
  BY <1>1, <1>3, Zenon DEF IInv, Coverage, HolesAreAhead, MidListing
<1>5. cursor = 0
  BY <1>1, <1>4
<1>6. pages > 0
  BY <1>1 DEF IInv, Structure, JobOK
<1>7. /\ \A x \in cached : x <= horizon
      /\ \A x \in LiveDocs : cursor <= x /\ x <= horizon => x \in cached
  BY <1>1, <1>3, <1>6 DEF IInv, Coverage, WindowCovers
<1>8. QED  BY <1>3, <1>5, <1>7 DEF Missing, IInv, Structure, TypeOK, CommandTypeOK, RemoteTypeOK

\* A further window page extends what the window covers down to its cursor.
LEMMA FetchWindowPageWindowCovers ==
  ASSUME IInv, Structure', FetchWindowPage
  PROVE  WindowCovers'
<1> USE BoundsAssumption DEF Records
<1>1. PICK records \in SUBSET repo, next \in 0..MaxRecords :
        /\ Reply(cursor, records, next)
        /\ todo' = todo \cup Documents(records)
        /\ cursor' = IF next # 0 /\ Documents(records) # {} THEN next ELSE 0
        /\ torn' = (torn \/ (Documents(records) = {} /\ next # 0))
  BY Zenon DEF FetchWindowPage
<1>2. /\ pc = "window" /\ horizon' = FirstHorizon
      /\ UNCHANGED <<repo, published, kind, cached, older, op>>
  BY DEF FetchWindowPage, remoteVars, storeVars
<1>3. /\ repo \subseteq 1..published /\ published \in Nat /\ published <= MaxRecords
      /\ cursor \in Int /\ older \in Int /\ next \in Int /\ repo \subseteq Nat
      /\ cached \subseteq 1..published /\ todo \subseteq 1..published
      /\ pages \in Nat /\ horizon \in Int
      /\ op \in {"refresh", "fetch", "loadOlder"}
  BY <1>1, <1>2 DEF IInv, Structure, TypeOK, RemoteTypeOK, StoreTypeOK,
     CommandTypeOK, JobOK
<1>4. /\ records \subseteq OlderThan(cursor)
      /\ \A r \in OlderThan(cursor) : r \in records \/ r < next
  BY <1>1, <1>3, ReplyCovers
<1> SUFFICES ASSUME ~torn'
             PROVE  /\ op \in {"refresh", "fetch"} =>
                         /\ \A c \in cached \cup todo' : c <= horizon'
                         /\ \A r \in LiveDocs :
                              cursor' <= r /\ r <= horizon' => r \in todo' \cup cached
                    /\ op = "loadOlder" =>
                         \A r \in LiveDocs :
                           cursor' <= r /\ r < older => r \in todo' \cup cached
  BY <1>2 DEF WindowCovers, LiveDocs, Documents
<1>5. ~torn /\ (Documents(records) = {} => next = 0)
  BY <1>1, Zenon
<1>6. ASSUME NEW r \in LiveDocs, r < cursor, cursor' <= r
      PROVE  r \in todo'
  <2>1. r \in OlderThan(cursor)
    BY <1>6 DEF LiveDocs, Documents, OlderThan
  <2>2. CASE next # 0 /\ Documents(records) # {}
    BY <2>1, <2>2, <1>1, <1>3, <1>4, <1>6 DEF LiveDocs, Documents
  <2>3. CASE next = 0
    BY <2>1, <2>3, <1>1, <1>3, <1>4, <1>6 DEF LiveDocs, Documents
  <2>4. QED  BY <2>2, <2>3, <1>5, Zenon
<1>7. CASE pages = 0
  <2>1. horizon' = published /\ todo = {}
        /\ cursor = IF op = "loadOlder" THEN older ELSE Top
    BY <1>2, <1>7 DEF FirstHorizon, IInv, Structure, JobOK
  <2>2. \A c \in cached \cup todo' : c <= horizon'
    BY <2>1, <1>1, <1>3 DEF Documents
  <2>3. \A r \in LiveDocs : r <= published /\ r < Top
    BY <1>3 DEF LiveDocs, Documents, Top
  <2>4. QED  BY <2>1, <2>2, <2>3, <1>3, <1>6
<1>8. CASE pages > 0
  <2>1. horizon' = horizon
    BY <1>2, <1>3, <1>8 DEF FirstHorizon
  <2>2. /\ op \in {"refresh", "fetch"} =>
             /\ \A c \in cached \cup todo : c <= horizon
             /\ \A r \in LiveDocs : cursor <= r /\ r <= horizon => r \in todo \cup cached
        /\ op = "loadOlder" =>
             \A r \in LiveDocs : cursor <= r /\ r < older => r \in todo \cup cached
    BY <1>2, <1>5, <1>8 DEF IInv, Coverage, WindowCovers
  <2>3. ASSUME op \in {"refresh", "fetch"}, NEW c \in Documents(records)
        PROVE  c <= horizon
    <3>1. c \in LiveDocs /\ c < cursor
      BY <1>4, <2>3 DEF Documents, LiveDocs, OlderThan
    <3>2. cursor <= horizon
      BY <1>2, <1>8, <2>3 DEF IInv, Structure, Ordered
    <3>3. QED  BY <3>1, <3>2, <1>3 DEF LiveDocs, Documents
  <2>4. todo \subseteq todo'
    BY <1>1
  <2>5. \A r \in LiveDocs : r \in Int
    BY <1>3 DEF LiveDocs, Documents
  <2>6. \A c \in todo' : c \in todo \/ c \in Documents(records)
    BY <1>1
  <2>7. QED  BY <2>1, <2>2, <2>3, <2>4, <2>5, <2>6, <1>3, <1>6
<1>9. QED  BY <1>3, <1>7, <1>8

\* A walk's next page leaves every hole in that page or below it.
LEMMA FetchWalkPageHolesAreAhead ==
  ASSUME IInv, Structure', FetchWalkPage
  PROVE  HolesAreAhead'
<1> USE BoundsAssumption DEF Records
<1>1. PICK records \in SUBSET repo, next \in 0..MaxRecords :
        /\ Reply(cursor, records, next)
        /\ todo' = Documents(records)
        /\ cursor' = next
        /\ pc' = IF Documents(records) = {} THEN "finish" ELSE "page"
        /\ torn' = (torn \/ (Documents(records) = {} /\ next # 0))
  BY Zenon DEF FetchWalkPage
<1>2. /\ pc = "walk" /\ pages' = pages + 1
      /\ UNCHANGED <<repo, published, kind, cached, older>>
  BY DEF FetchWalkPage, remoteVars, storeVars
<1>3. /\ cursor \in Int /\ next \in Int /\ repo \subseteq Nat
      /\ pages \in Nat /\ todo = {}
  BY <1>2 DEF IInv, Structure, TypeOK, RemoteTypeOK, CommandTypeOK, JobOK, Top
<1>4. /\ records \subseteq OlderThan(cursor)
      /\ next # 0 => next \in OlderThan(cursor)
      /\ \A x \in OlderThan(cursor) : x \in records \/ x < next
  BY <1>1, <1>3, ReplyCovers
<1> SUFFICES ASSUME ~torn', NEW r \in Records, NEW c \in Records, Missing(r, c)'
             PROVE  /\ MidListing'
                    /\ pc' \in {"walk", "page"} =>
                         /\ r \in todo' \/ r < cursor'
                         /\ cursor' <= c /\ c \notin todo'
  BY DEF HolesAreAhead
<1>5. ~torn /\ (Documents(records) = {} => next = 0)
  BY <1>1, Zenon
<1>6. Missing(r, c)
  BY <1>2 DEF Missing, LiveDocs, Documents
<1>7. MidListing /\ r < cursor /\ cursor <= c
  BY <1>2, <1>3, <1>5, <1>6 DEF IInv, Coverage, HolesAreAhead
<1>8. pages > 0
  BY <1>2, <1>7 DEF MidListing
<1>9. r \in todo' \/ r < next
  BY <1>1, <1>4, <1>6, <1>7 DEF Missing, LiveDocs, Documents, OlderThan
<1>10. Documents(records) # {}
  BY <1>1, <1>5, <1>9
<1>11. MidListing'
  BY <1>1, <1>2, <1>3, <1>8, <1>10 DEF MidListing
<1>12. next <= c /\ c \notin todo'
  BY <1>1, <1>3, <1>4, <1>7 DEF Documents, OlderThan
<1>13. QED  BY <1>1, <1>9, <1>11, <1>12

\* A walk that meets an empty page has nothing left to list.
LEMMA FetchWalkPageWalkEnded ==
  ASSUME IInv, Structure', FetchWalkPage
  PROVE  WalkEnded'
<1> USE BoundsAssumption DEF Records
<1>1. PICK records \in SUBSET repo, next \in 0..MaxRecords :
        /\ Reply(cursor, records, next)
        /\ pc' = IF Documents(records) = {} THEN "finish" ELSE "page"
        /\ torn' = (torn \/ (Documents(records) = {} /\ next # 0))
  BY Zenon DEF FetchWalkPage
<1>2. /\ pc = "walk" /\ horizon' = FirstHorizon
      /\ UNCHANGED <<repo, kind, cached, older>>
  BY DEF FetchWalkPage, remoteVars, storeVars
<1>3. /\ cursor \in Int /\ next \in Int /\ repo \subseteq Nat
      /\ pages \in Nat /\ todo = {} /\ op = "refresh"
      /\ repo \subseteq 1..published /\ published \in Nat /\ published <= MaxRecords
  BY <1>2 DEF IInv, Structure, TypeOK, RemoteTypeOK, CommandTypeOK, JobOK, Top
<1>4. \A x \in OlderThan(cursor) : x \in records \/ x < next
  BY <1>1, <1>3, ReplyCovers
<1> SUFFICES ASSUME pc' = "finish", ~torn', NEW r \in LiveDocs,
                    older <= r, r <= horizon'
             PROVE  r \in cached
  BY <1>2 DEF WalkEnded, LiveDocs, Documents
<1>5. ~torn /\ Documents(records) = {} /\ next = 0
  <2>1. Documents(records) = {}
    BY <1>1
  <2>2. QED  BY <2>1, <1>1, Zenon
<1>6. cursor <= r
  BY <1>3, <1>4, <1>5 DEF LiveDocs, Documents, OlderThan
<1>7. pages > 0
  <2>1. pages = 0 => cursor = Top
    BY <1>2, <1>3 DEF IInv, Structure, JobOK
  <2>2. r < Top
    BY <1>3 DEF LiveDocs, Documents, Top
  <2>3. QED  BY <2>1, <2>2, <1>3, <1>6 DEF LiveDocs, Documents
<1>8. horizon' = horizon
  BY <1>2, <1>3, <1>7 DEF FirstHorizon
<1>9. QED  BY <1>2, <1>3, <1>5, <1>6, <1>7, <1>8 DEF IInv, Coverage, WalkCovers

\* Going through the newest document of a page leaves holes only below it.
LEMMA WalkDocHolesAreAhead ==
  ASSUME IInv, Structure', WalkDoc
  PROVE  HolesAreAhead'
<1> USE PublicationsAssumption, BoundsAssumption DEF Records
<1>1. PICK d \in todo :
        /\ \A r \in todo : r <= d
        /\ \/ /\ mark[feed] = d /\ todo' = {} /\ pc' = "finish"
              /\ UNCHANGED <<cached, hadNew>>
           \/ /\ todo' = todo \ {d} /\ pc' = "page"
              /\ hadNew' = (hadNew \/ d \notin cached)
              /\ cached' = cached \cup {d}
  BY Zenon DEF WalkDoc, NewestTodo, WalkUpsert, Upsert
<1>2. /\ pc = "page" /\ UNCHANGED <<repo, kind, older, cursor, torn, pages, mark, feed, op>>
  BY DEF WalkDoc, remoteVars, history
<1>3. /\ d \in 1..published /\ published \in Nat /\ published <= MaxRecords /\ cursor <= d
      /\ cursor \in Int /\ older \in Int /\ repo \subseteq 1..published
      /\ cached \subseteq 1..published /\ todo \subseteq 1..published
      /\ pages > 0 /\ feed \in Publications
  BY <1>1, <1>2 DEF IInv, Structure, TypeOK, RemoteTypeOK, StoreTypeOK,
     CommandTypeOK, Ordered, JobOK
<1> SUFFICES ASSUME ~torn', NEW r \in Records, NEW c \in Records, Missing(r, c)'
             PROVE  /\ MidListing'
                    /\ pc' \in {"walk", "page"} =>
                         /\ r \in todo' \/ r < cursor'
                         /\ cursor' <= c /\ c \notin todo'
  BY DEF HolesAreAhead
<1>4. ~torn
  BY <1>2
<1>5. \A x, y \in Records : Missing(x, y) =>
        MidListing /\ (x \in todo \/ x < cursor) /\ cursor <= y /\ y \notin todo
  BY <1>2, <1>4 DEF IInv, Coverage, HolesAreAhead
<1>6. CASE d \in cached
  \* Then d would be the upper end of a hole and still to be gone through.
  <2>1. cached' = cached
    BY <1>1, <1>6
  <2>2. Missing(r, c)
    BY <2>1, <1>2 DEF Missing, LiveDocs, Documents
  <2>3. r < d
    BY <1>1, <1>3, <1>5, <1>6, <2>2 DEF Missing, LiveDocs, Documents
  <2>4. Missing(r, d)
    BY <2>2, <2>3, <1>6, <1>3 DEF Missing
  <2>5. d \in Records
    BY <1>3
  <2>6. QED  BY <2>4, <2>5, <1>5
<1>7. CASE d \notin cached
  <2>1. mark[feed] # d
    BY <1>7, <1>3 DEF IInv, Structure, MarkNamesCached
  <2>2. /\ todo' = todo \ {d} /\ pc' = "page" /\ cached' = cached \cup {d}
        /\ hadNew' /\ cursor' = cursor
    BY <1>1, <1>2, <1>7, <2>1
  <2>3. MidListing'
    BY <2>2 DEF MidListing
  <2>4. CASE c = d
    <3>1. /\ r \in LiveDocs /\ older <= r /\ r <= horizon
          /\ r \notin cached /\ r # d /\ r < d
      BY <2>2, <2>4, <1>1, <1>2, <1>3 DEF Missing, LiveDocs, Documents, IInv, Structure,
         TypeOK, RemoteTypeOK, CommandTypeOK, Ordered
    <3>2. cursor <= r => r \in todo
      BY <3>1, <1>2, <1>3, <1>4 DEF IInv, Coverage, WalkCovers
    <3>3. r \in todo' \/ r < cursor'
      BY <2>2, <3>1, <3>2, <1>3
    <3>4. cursor' <= c /\ c \notin todo'
      BY <2>2, <2>4, <1>3
    <3>5. QED  BY <2>3, <3>3, <3>4
  <2>5. CASE c # d
    <3>1. Missing(r, c) /\ r # d
      BY <2>2, <2>5, <1>2 DEF Missing, LiveDocs, Documents
    <3>2. QED  BY <3>1, <2>2, <2>3, <1>5
  <2>6. QED  BY <2>4, <2>5
<1>8. QED  BY <1>6, <1>7

\* Publish keeps what listings cover.
LEMMA PublishCoverage ==
  ASSUME NEW k \in PublishedKinds, IInv, Structure', Publish(k)
  PROVE  Coverage'
<1>1. WindowCovers'
  <2>1. \A r \in LiveDocs' : r \in LiveDocs \/ r > published
    BY BoundsAssumption
    DEF Publish, LiveDocs, Documents, IInv, Structure, TypeOK, RemoteTypeOK, Records
  <2>2. horizon <= published /\ \A c \in cached \cup todo : c <= published
    BY DEF IInv, Structure, TypeOK, RemoteTypeOK, StoreTypeOK, CommandTypeOK
  <2>3. op = "loadOlder" /\ pages > 0 /\ pc \in {"window", "save", "older"} =>
          older <= published
    BY DEF IInv, Structure, JobOK, Ordered
  <2>4. UNCHANGED <<pc, op, todo, cached, cursor, older, horizon, torn, pages>>
    BY DEF Publish, storeVars, jobVars, history
  <2>5. published \in Nat /\ older \in Int /\ horizon \in Int
    BY DEF IInv, Structure, TypeOK, RemoteTypeOK, StoreTypeOK, CommandTypeOK
  <2>6. ASSUME ~torn, pages > 0, pc \in {"window", "save", "older"}
        PROVE  /\ op \in {"refresh", "fetch"} =>
                    \A r \in LiveDocs' : cursor <= r /\ r <= horizon => r \in todo \cup cached
               /\ op = "loadOlder" =>
                    \A r \in LiveDocs' : cursor <= r /\ r < older => r \in todo \cup cached
    <3>1. \A r \in LiveDocs' : r \in Int
      BY <2>5 DEF LiveDocs, Documents, Structure, TypeOK, RemoteTypeOK
    <3>2. QED  BY <2>1, <2>2, <2>3, <2>5, <2>6, <3>1 DEF WindowCovers, IInv, Coverage
  <2>7. QED  BY <2>2, <2>4, <2>6 DEF WindowCovers, IInv, Coverage
<1>2. /\ \A r \in LiveDocs' : r \in LiveDocs \/ r > published
      /\ UNCHANGED <<pc, op, todo, cached, cursor, older, horizon, torn, pages, hadNew>>
      /\ \A c \in cached : c <= published /\ c \in Int
      /\ published \in Int /\ horizon \in Int /\ horizon <= published
      /\ cursor \in Int /\ older \in Int
      /\ \A r \in LiveDocs' : r \in Int
  <2>1. \A r \in LiveDocs' : r \in LiveDocs \/ r > published
    BY BoundsAssumption DEF Publish, LiveDocs, Documents, IInv, Structure, TypeOK,
       RemoteTypeOK, Records
  <2>2. UNCHANGED <<pc, op, todo, cached, cursor, older, horizon, torn, pages, hadNew>>
    BY DEF Publish, storeVars, jobVars, history
  <2>3. /\ \A c \in cached : c <= published /\ c \in Int
        /\ published \in Int /\ horizon \in Int /\ horizon <= published
        /\ cursor \in Int /\ older \in Int
    BY BoundsAssumption DEF IInv, Structure, TypeOK, RemoteTypeOK, StoreTypeOK,
       CommandTypeOK, Top
  <2>4. \A r \in LiveDocs' : r \in Int
    BY <2>3 DEF LiveDocs, Documents, Structure, TypeOK, RemoteTypeOK
  <2>5. QED  BY <2>1, <2>2, <2>3, <2>4
<1>3. WalkCovers' /\ WalkEnded'
  BY <1>2 DEF IInv, Coverage, WalkCovers, WalkEnded
<1>4. \A r, c \in Records : Missing(r, c)' => Missing(r, c)
  BY <1>2 DEF Missing, Records
<1>5. HolesAreAhead'
  BY <1>2, <1>4 DEF IInv, Coverage, HolesAreAhead, MidListing, NeverFetched
<1>6. pc = "page" => cursor <= published
  BY <1>2 DEF IInv, Structure, JobOK, Ordered
<1>7. PageOnKnownGround'
  BY <1>2, <1>4, <1>6 DEF IInv, Coverage, PageOnKnownGround
<1>8. QED  BY <1>1, <1>3, <1>5, <1>7 DEF Coverage

\* DeleteRecord keeps what listings cover.
LEMMA DeleteRecordCoverage ==
  ASSUME NEW r \in repo \cap Deletable, IInv, Structure', DeleteRecord(r)
  PROVE  Coverage'
<1>1. WindowCovers'
  BY DEF DeleteRecord, IInv, Coverage, remoteVars, storeVars, jobVars, history,
     WindowCovers, LiveDocs, Documents
<1>2. WalkCovers'
  BY DEF DeleteRecord, IInv, Coverage, remoteVars, storeVars, jobVars, history,
     WalkCovers, LiveDocs, Documents
<1>3. HolesAreAhead'
  BY DEF DeleteRecord, IInv, Coverage, remoteVars, storeVars, jobVars, history,
     HolesAreAhead, LiveDocs, Missing, Documents, MidListing
<1>4. PageOnKnownGround'
  BY DEF DeleteRecord, IInv, Coverage, remoteVars, storeVars, jobVars, history,
     PageOnKnownGround, LiveDocs, Missing, Documents
<1>5. WalkEnded'
  BY DEF DeleteRecord, IInv, Coverage, remoteVars, storeVars, jobVars, history,
     WalkEnded, LiveDocs, Documents
<1>6. QED  BY <1>1, <1>2, <1>3, <1>4, <1>5 DEF Coverage

\* StartRefresh keeps what listings cover.
LEMMA StartRefreshCoverage ==
  ASSUME NEW p \in Publications, IInv, Structure', StartRefresh(p)
  PROVE  Coverage'
<1>1. WindowCovers'
  BY DEF StartRefresh, Begin, remoteVars, storeVars, jobVars, history, WindowCovers
<1>2. WalkCovers'
  BY DEF StartRefresh, Begin, remoteVars, storeVars, jobVars, history, WalkCovers
<1>3. HolesAreAhead'
  BY DEF StartRefresh, Begin, IInv, Coverage, remoteVars, storeVars, jobVars, history,
     HolesAreAhead, LiveDocs, Missing, Documents, MidListing
<1>4. PageOnKnownGround'
  BY DEF StartRefresh, Begin, remoteVars, storeVars, jobVars, history, PageOnKnownGround
<1>5. WalkEnded'
  BY DEF StartRefresh, Begin, remoteVars, storeVars, jobVars, history, WalkEnded
<1>6. QED  BY <1>1, <1>2, <1>3, <1>4, <1>5 DEF Coverage

\* StartLoadOlder keeps what listings cover.
LEMMA StartLoadOlderCoverage ==
  ASSUME NEW p \in Publications, IInv, Structure', StartLoadOlder(p)
  PROVE  Coverage'
<1>1. WindowCovers'
  BY DEF StartLoadOlder, Begin, remoteVars, storeVars, jobVars, history, WindowCovers
<1>2. WalkCovers'
  BY DEF StartLoadOlder, Begin, remoteVars, storeVars, jobVars, history, WalkCovers
<1>3. HolesAreAhead'
  BY DEF StartLoadOlder, Begin, IInv, Coverage, remoteVars, storeVars, jobVars, history,
     HolesAreAhead, LiveDocs, Missing, Documents, MidListing
<1>4. PageOnKnownGround'
  BY DEF StartLoadOlder, Begin, remoteVars, storeVars, jobVars, history,
     PageOnKnownGround
<1>5. WalkEnded'
  BY DEF StartLoadOlder, Begin, remoteVars, storeVars, jobVars, history, WalkEnded
<1>6. QED  BY <1>1, <1>2, <1>3, <1>4, <1>5 DEF Coverage

\* StartFetchCommand keeps what listings cover.
LEMMA StartFetchCommandCoverage ==
  ASSUME NEW p \in Publications, IInv, Structure', StartFetchCommand(p)
  PROVE  Coverage'
<1>1. WindowCovers'
  BY DEF StartFetchCommand, Begin, remoteVars, storeVars, jobVars, history, WindowCovers
<1>2. WalkCovers'
  BY DEF StartFetchCommand, Begin, remoteVars, storeVars, jobVars, history, WalkCovers
<1>3. HolesAreAhead'
  BY DEF StartFetchCommand, Begin, IInv, Coverage, remoteVars, storeVars, jobVars,
     history, HolesAreAhead, LiveDocs, Missing, Documents, MidListing
<1>4. PageOnKnownGround'
  BY DEF StartFetchCommand, Begin, remoteVars, storeVars, jobVars, history,
     PageOnKnownGround
<1>5. WalkEnded'
  BY DEF StartFetchCommand, Begin, remoteVars, storeVars, jobVars, history, WalkEnded
<1>6. QED  BY <1>1, <1>2, <1>3, <1>4, <1>5 DEF Coverage

\* FetchWindowPage keeps what listings cover.
LEMMA FetchWindowPageCoverage ==
  ASSUME IInv, Structure', FetchWindowPage
  PROVE  Coverage'
<1>1. WindowCovers'
  BY FetchWindowPageWindowCovers
<1>2. WalkCovers'
  BY DEF FetchWindowPage, remoteVars, storeVars, jobVars, history, WalkCovers
<1>3. HolesAreAhead'
  BY DEF FetchWindowPage, IInv, Coverage, remoteVars, storeVars, jobVars, history,
     HolesAreAhead, LiveDocs, Missing, Documents, MidListing
<1>4. PageOnKnownGround'
  BY DEF FetchWindowPage, remoteVars, storeVars, jobVars, history, PageOnKnownGround
<1>5. WalkEnded'
  BY DEF FetchWindowPage, remoteVars, storeVars, jobVars, history, WalkEnded
<1>6. QED  BY <1>1, <1>2, <1>3, <1>4, <1>5 DEF Coverage

\* SaveDoc keeps what listings cover.
LEMMA SaveDocCoverage ==
  ASSUME IInv, Structure', SaveDoc
  PROVE  Coverage'
<1>1. WindowCovers'
  BY DEF SaveDoc, Upsert, IInv, Coverage, remoteVars, storeVars, jobVars, history,
     WindowCovers, LiveDocs, Documents
<1>2. WalkCovers'
  BY DEF SaveDoc, Upsert, remoteVars, storeVars, jobVars, history, WalkCovers
<1>3. HolesAreAhead'
  BY SaveDocHolesAreAhead
<1>4. PageOnKnownGround'
  BY DEF SaveDoc, Upsert, remoteVars, storeVars, jobVars, history, PageOnKnownGround
<1>5. WalkEnded'
  BY DEF SaveDoc, Upsert, remoteVars, storeVars, jobVars, history, WalkEnded
<1>6. QED  BY <1>1, <1>2, <1>3, <1>4, <1>5 DEF Coverage

\* SaveMark keeps what listings cover.
LEMMA SaveMarkCoverage ==
  ASSUME IInv, Structure', SaveMark
  PROVE  Coverage'
<1>1. WindowCovers'
  BY DEF SaveMark, IInv, Coverage, remoteVars, storeVars, jobVars, history,
     WindowCovers, LiveDocs, Documents
<1>2. WalkCovers'
  BY DEF SaveMark, remoteVars, storeVars, jobVars, history, WalkCovers
<1>3. HolesAreAhead'
  BY DEF SaveMark, IInv, Coverage, remoteVars, storeVars, jobVars, history,
     HolesAreAhead, LiveDocs, Missing, Documents, MidListing
<1>4. PageOnKnownGround'
  BY DEF SaveMark, remoteVars, storeVars, jobVars, history, PageOnKnownGround
<1>5. WalkEnded'
  BY DEF SaveMark, remoteVars, storeVars, jobVars, history, WalkEnded
<1>6. QED  BY <1>1, <1>2, <1>3, <1>4, <1>5 DEF Coverage

\* SaveOlderCursor keeps what listings cover.
LEMMA SaveOlderCursorCoverage ==
  ASSUME IInv, Structure', SaveOlderCursor
  PROVE  Coverage'
<1>1. WindowCovers'
  BY DEF SaveOlderCursor, End, remoteVars, storeVars, jobVars, history, WindowCovers
<1>2. WalkCovers'
  BY DEF SaveOlderCursor, End, remoteVars, storeVars, jobVars, history, WalkCovers
<1>3. HolesAreAhead'
  BY DEF SaveOlderCursor, End, IInv, Coverage, Structure, TypeOK, remoteVars, storeVars,
     jobVars, history, StoreTypeOK, CommandTypeOK, JobOK, WindowCovers, HolesAreAhead,
     LiveDocs, Missing, Documents, MidListing
<1>4. PageOnKnownGround'
  BY DEF SaveOlderCursor, End, remoteVars, storeVars, jobVars, history,
     PageOnKnownGround
<1>5. WalkEnded'
  BY DEF SaveOlderCursor, End, remoteVars, storeVars, jobVars, history, WalkEnded
<1>6. QED  BY <1>1, <1>2, <1>3, <1>4, <1>5 DEF Coverage

\* EndFetchCommand keeps what listings cover.
LEMMA EndFetchCommandCoverage ==
  ASSUME IInv, Structure', EndFetchCommand
  PROVE  Coverage'
<1>1. WindowCovers'
  BY DEF EndFetchCommand, End, Upsert, remoteVars, storeVars, jobVars, history,
     WindowCovers
<1>2. WalkCovers'
  BY DEF EndFetchCommand, End, Upsert, remoteVars, storeVars, jobVars, history,
     WalkCovers
<1>3. HolesAreAhead'
  BY EndFetchCommandHolesAreAhead
<1>4. PageOnKnownGround'
  BY DEF EndFetchCommand, End, Upsert, remoteVars, storeVars, jobVars, history,
     PageOnKnownGround
<1>5. WalkEnded'
  BY DEF EndFetchCommand, End, Upsert, remoteVars, storeVars, jobVars, history,
     WalkEnded
<1>6. QED  BY <1>1, <1>2, <1>3, <1>4, <1>5 DEF Coverage

\* FetchWalkPage keeps what listings cover.
LEMMA FetchWalkPageCoverage ==
  ASSUME IInv, Structure', FetchWalkPage
  PROVE  Coverage'
<1>1. WindowCovers'
  BY DEF FetchWalkPage, remoteVars, storeVars, jobVars, history, WindowCovers
<1>2. WalkCovers'
  BY BoundsAssumption DEF FetchWalkPage, Reply, OlderThan, FirstHorizon, IInv, Coverage,
     Structure, TypeOK, remoteVars, storeVars, jobVars, history, Top, RemoteTypeOK,
     CommandTypeOK, FlagsTypeOK, JobOK, WalkCovers, LiveDocs, Documents
<1>3. HolesAreAhead'
  BY FetchWalkPageHolesAreAhead
<1>4. PageOnKnownGround'
  BY DEF FetchWalkPage, remoteVars, storeVars, jobVars, history, PageOnKnownGround
<1>5. WalkEnded'
  BY FetchWalkPageWalkEnded
<1>6. QED  BY <1>1, <1>2, <1>3, <1>4, <1>5 DEF Coverage

\* WalkDoc keeps what listings cover.
LEMMA WalkDocCoverage ==
  ASSUME IInv, Structure', WalkDoc
  PROVE  Coverage'
<1>1. WindowCovers'
  BY DEF WalkDoc, Upsert, remoteVars, storeVars, jobVars, history, WindowCovers
<1>2. WalkCovers'
  BY DEF WalkDoc, WalkUpsert, Upsert, IInv, Coverage, remoteVars, storeVars, jobVars,
     history, WalkCovers, LiveDocs, Documents
<1>3. HolesAreAhead'
  BY WalkDocHolesAreAhead
<1>4. PageOnKnownGround'
  BY BoundsAssumption DEF WalkDoc, WalkUpsert, Upsert, IInv, Coverage, Structure,
     TypeOK, remoteVars, storeVars, jobVars, history, Records, RemoteTypeOK, CommandTypeOK,
     FlagsTypeOK, Ordered, HolesAreAhead, PageOnKnownGround, WalkEnded, LiveDocs, Missing,
     Documents
<1>5. WalkEnded'
  BY BoundsAssumption DEF WalkDoc, NewestTodo, Upsert, IInv, Coverage, Structure,
     TypeOK, remoteVars, storeVars, jobVars, history, Records, RemoteTypeOK, CommandTypeOK,
     JobOK, Ordered, WalkCovers, HolesAreAhead, WalkEnded, LiveDocs, Missing, Documents,
     MarkNamesCached
<1>6. QED  BY <1>1, <1>2, <1>3, <1>4, <1>5 DEF Coverage

\* EndPage keeps what listings cover.
LEMMA EndPageCoverage ==
  ASSUME IInv, Structure', EndPage
  PROVE  Coverage'
<1>1. WindowCovers'
  BY DEF EndPage, remoteVars, storeVars, jobVars, history, WindowCovers
<1>2. WalkCovers'
  BY DEF EndPage, IInv, Coverage, remoteVars, storeVars, jobVars, history, WalkCovers,
     LiveDocs, Documents
<1>3. HolesAreAhead'
  BY DEF EndPage, WalkGoesOn, IInv, Coverage, Structure, TypeOK, remoteVars, storeVars,
     jobVars, history, StoreTypeOK, JobOK, HolesAreAhead, PageOnKnownGround, LiveDocs,
     Missing, Documents, MidListing
<1>4. PageOnKnownGround'
  BY DEF EndPage, remoteVars, storeVars, jobVars, history, PageOnKnownGround
<1>5. WalkEnded'
  BY DEF EndPage, WalkGoesOn, IInv, Coverage, Structure, TypeOK, remoteVars, storeVars,
     jobVars, history, RemoteTypeOK, CommandTypeOK, JobOK, WalkCovers, PageOnKnownGround,
     WalkEnded, LiveDocs, Documents
<1>6. QED  BY <1>1, <1>2, <1>3, <1>4, <1>5 DEF Coverage

\* FinishWalk keeps what listings cover.
LEMMA FinishWalkCoverage ==
  ASSUME IInv, Structure', FinishWalk
  PROVE  Coverage'
<1>1. WindowCovers'
  BY DEF FinishWalk, End, remoteVars, storeVars, jobVars, history, WindowCovers
<1>2. WalkCovers'
  BY DEF FinishWalk, End, remoteVars, storeVars, jobVars, history, WalkCovers
<1>3. HolesAreAhead'
  BY DEF FinishWalk, End, IInv, Coverage, remoteVars, storeVars, jobVars, history,
     HolesAreAhead, LiveDocs, Missing, Documents, MidListing
<1>4. PageOnKnownGround'
  BY DEF FinishWalk, End, remoteVars, storeVars, jobVars, history, PageOnKnownGround
<1>5. WalkEnded'
  BY DEF FinishWalk, End, remoteVars, storeVars, jobVars, history, WalkEnded
<1>6. QED  BY <1>1, <1>2, <1>3, <1>4, <1>5 DEF Coverage

\* MarkCachedRead keeps what listings cover.
LEMMA MarkCachedReadCoverage ==
  ASSUME NEW d \in Openable, IInv, Structure', MarkCachedRead(d)
  PROVE  Coverage'
<1>1. WindowCovers'
  BY DEF MarkCachedRead, remoteVars, storeVars, jobVars, history, WindowCovers
<1>2. WalkCovers'
  BY DEF MarkCachedRead, remoteVars, storeVars, jobVars, history, WalkCovers
<1>3. HolesAreAhead'
  BY DEF MarkCachedRead, IInv, Coverage, remoteVars, storeVars, jobVars, history,
     HolesAreAhead, LiveDocs, Missing, Documents, MidListing
<1>4. PageOnKnownGround'
  BY DEF MarkCachedRead, remoteVars, storeVars, jobVars, history, PageOnKnownGround
<1>5. WalkEnded'
  BY DEF MarkCachedRead, remoteVars, storeVars, jobVars, history, WalkEnded
<1>6. QED  BY <1>1, <1>2, <1>3, <1>4, <1>5 DEF Coverage

\* FetchBody keeps what listings cover.
LEMMA FetchBodyCoverage ==
  ASSUME NEW d \in Openable, IInv, Structure', FetchBody(d)
  PROVE  Coverage'
<1>1. WindowCovers'
  BY DEF FetchBody, Upsert, remoteVars, storeVars, jobVars, history, WindowCovers
<1>2. WalkCovers'
  BY DEF FetchBody, Upsert, remoteVars, storeVars, jobVars, history, WalkCovers
<1>3. HolesAreAhead'
  BY DEF FetchBody, Upsert, IInv, Coverage, remoteVars, storeVars, jobVars, history,
     HolesAreAhead, LiveDocs, Missing, Documents, MidListing
<1>4. PageOnKnownGround'
  BY DEF FetchBody, Upsert, remoteVars, storeVars, jobVars, history, PageOnKnownGround
<1>5. WalkEnded'
  BY DEF FetchBody, Upsert, remoteVars, storeVars, jobVars, history, WalkEnded
<1>6. QED  BY <1>1, <1>2, <1>3, <1>4, <1>5 DEF Coverage

\* MarkFetchedRead keeps what listings cover.
LEMMA MarkFetchedReadCoverage ==
  ASSUME IInv, Structure', MarkFetchedRead
  PROVE  Coverage'
<1>1. WindowCovers'
  BY DEF MarkFetchedRead, End, remoteVars, storeVars, jobVars, history, WindowCovers
<1>2. WalkCovers'
  BY DEF MarkFetchedRead, End, remoteVars, storeVars, jobVars, history, WalkCovers
<1>3. HolesAreAhead'
  BY DEF MarkFetchedRead, End, IInv, Coverage, remoteVars, storeVars, jobVars, history,
     HolesAreAhead, LiveDocs, Missing, Documents, MidListing
<1>4. PageOnKnownGround'
  BY DEF MarkFetchedRead, End, remoteVars, storeVars, jobVars, history,
     PageOnKnownGround
<1>5. WalkEnded'
  BY DEF MarkFetchedRead, End, remoteVars, storeVars, jobVars, history, WalkEnded
<1>6. QED  BY <1>1, <1>2, <1>3, <1>4, <1>5 DEF Coverage

\* FreshenFails keeps what listings cover.
LEMMA FreshenFailsCoverage ==
  ASSUME NEW d \in Openable, IInv, Structure', FreshenFails(d)
  PROVE  Coverage'
<1>1. WindowCovers'
  BY DEF FreshenFails, remoteVars, storeVars, jobVars, history, WindowCovers
<1>2. WalkCovers'
  BY DEF FreshenFails, remoteVars, storeVars, jobVars, history, WalkCovers
<1>3. HolesAreAhead'
  BY DEF FreshenFails, IInv, Coverage, remoteVars, storeVars, jobVars, history,
     HolesAreAhead, LiveDocs, Missing, Documents, MidListing
<1>4. PageOnKnownGround'
  BY DEF FreshenFails, remoteVars, storeVars, jobVars, history, PageOnKnownGround
<1>5. WalkEnded'
  BY DEF FreshenFails, remoteVars, storeVars, jobVars, history, WalkEnded
<1>6. QED  BY <1>1, <1>2, <1>3, <1>4, <1>5 DEF Coverage

\* RequestFails keeps what listings cover.
LEMMA RequestFailsCoverage ==
  ASSUME IInv, Structure', RequestFails
  PROVE  Coverage'
<1>1. WindowCovers'
  BY DEF RequestFails, End, remoteVars, storeVars, jobVars, history, WindowCovers
<1>2. WalkCovers'
  BY DEF RequestFails, End, remoteVars, storeVars, jobVars, history, WalkCovers
<1>3. HolesAreAhead'
  BY DEF RequestFails, End, IInv, Coverage, remoteVars, storeVars, jobVars, history,
     HolesAreAhead, LiveDocs, Missing, Documents
<1>4. PageOnKnownGround'
  BY DEF RequestFails, End, remoteVars, storeVars, jobVars, history, PageOnKnownGround
<1>5. WalkEnded'
  BY DEF RequestFails, End, remoteVars, storeVars, jobVars, history, WalkEnded
<1>6. QED  BY <1>1, <1>2, <1>3, <1>4, <1>5 DEF Coverage

\* Crash keeps what listings cover.
LEMMA CrashCoverage ==
  ASSUME IInv, Structure', Crash
  PROVE  Coverage'
<1>1. WindowCovers'
  BY DEF Crash, End, remoteVars, storeVars, jobVars, history, WindowCovers
<1>2. WalkCovers'
  BY DEF Crash, End, remoteVars, storeVars, jobVars, history, WalkCovers
<1>3. HolesAreAhead'
  BY DEF Crash, End, IInv, Coverage, remoteVars, storeVars, jobVars, history,
     HolesAreAhead, LiveDocs, Missing, Documents
<1>4. PageOnKnownGround'
  BY DEF Crash, End, remoteVars, storeVars, jobVars, history, PageOnKnownGround
<1>5. WalkEnded'
  BY DEF Crash, End, remoteVars, storeVars, jobVars, history, WalkEnded
<1>6. QED  BY <1>1, <1>2, <1>3, <1>4, <1>5 DEF Coverage

\* Upgrade keeps what listings cover: without a window there is no hole.
LEMMA UpgradeCoverage ==
  ASSUME IInv, Structure', Upgrade
  PROVE  Coverage'
<1>1. pc' = "idle" /\ older' = Top
  BY DEF Upgrade, End, NeverFetched
<1>2. \A r, c \in Records : ~Missing(r, c)'
  BY <1>1, BoundsAssumption DEF Missing, Records, Top
<1>3. QED
  BY <1>1, <1>2 DEF Coverage, WindowCovers, WalkCovers, HolesAreAhead, PageOnKnownGround,
     WalkEnded

-----------------------------------------------------------------------------
(* The two parts together.                                                 *)

\* The initial state satisfies the whole invariant.
LEMMA InitInvariant == Init => IInv
<1> SUFFICES ASSUME Init PROVE IInv
  OBVIOUS
<1>1. Structure
  BY InitStructure
<1>2. Coverage
  BY DEF Init, Coverage, WindowCovers, WalkCovers, HolesAreAhead, Missing,
     PageOnKnownGround, WalkEnded
<1>3. QED  BY <1>1, <1>2 DEF IInv

\* Starting a command keeps the invariant.
LEMMA CommandInvariant ==
  ASSUME IInv, Command
  PROVE  IInv'
<1> USE DEF IInv
<1>1. ASSUME NEW p \in Publications, StartRefresh(p)
      PROVE  IInv'
  BY <1>1, StartRefreshStructure, StartRefreshCoverage
<1>2. ASSUME NEW p \in Publications, StartLoadOlder(p)
      PROVE  IInv'
  BY <1>2, StartLoadOlderStructure, StartLoadOlderCoverage
<1>3. ASSUME NEW p \in Publications, StartFetchCommand(p)
      PROVE  IInv'
  BY <1>3, StartFetchCommandStructure, StartFetchCommandCoverage
<1>4. ASSUME NEW d \in Openable, MarkCachedRead(d)
      PROVE  IInv'
  BY <1>4, MarkCachedReadStructure, MarkCachedReadCoverage
<1>5. ASSUME NEW d \in Openable, FetchBody(d)
      PROVE  IInv'
  BY <1>5, FetchBodyStructure, FetchBodyCoverage
<1>6. ASSUME NEW d \in Openable, FreshenFails(d)
      PROVE  IInv'
  BY <1>6, FreshenFailsStructure, FreshenFailsCoverage
<1>7. QED  BY <1>1, <1>2, <1>3, <1>4, <1>5, <1>6 DEF Command

\* A command's steps keep the invariant.
LEMMA WorkInvariant ==
  ASSUME IInv, Work
  PROVE  IInv'
<1> USE DEF IInv
<1>1. CASE FetchWindowPage
  BY <1>1, FetchWindowPageStructure, FetchWindowPageCoverage
<1>2. CASE SaveDoc
  BY <1>2, SaveDocStructure, SaveDocCoverage
<1>3. CASE SaveMark
  BY <1>3, SaveMarkStructure, SaveMarkCoverage
<1>4. CASE SaveOlderCursor
  BY <1>4, SaveOlderCursorStructure, SaveOlderCursorCoverage
<1>5. CASE EndFetchCommand
  BY <1>5, EndFetchCommandStructure, EndFetchCommandCoverage
<1>6. CASE FetchWalkPage
  BY <1>6, FetchWalkPageStructure, FetchWalkPageCoverage
<1>7. CASE WalkDoc
  BY <1>7, WalkDocStructure, WalkDocCoverage
<1>8. CASE EndPage
  BY <1>8, EndPageStructure, EndPageCoverage
<1>9. CASE FinishWalk
  BY <1>9, FinishWalkStructure, FinishWalkCoverage
<1>10. CASE MarkFetchedRead
  BY <1>10, MarkFetchedReadStructure, MarkFetchedReadCoverage
<1>11. QED  BY <1>1, <1>2, <1>3, <1>4, <1>5, <1>6, <1>7, <1>8, <1>9, <1>10 DEF Work

\* Every step keeps the invariant.
LEMMA NextInvariant ==
  ASSUME IInv, [Next]_vars
  PROVE  IInv'
<1>1. CASE Remote
  <2>1. Structure'
    BY <1>1, RemoteStructure DEF IInv
  <2>2. ASSUME NEW k \in PublishedKinds, Publish(k)
        PROVE  Coverage'
    BY <2>1, <2>2, PublishCoverage
  <2>3. ASSUME NEW r \in repo \cap Deletable, DeleteRecord(r)
        PROVE  Coverage'
    BY <2>1, <2>3, DeleteRecordCoverage
  <2>4. QED  BY <1>1, <2>1, <2>2, <2>3 DEF IInv, Remote
<1>2. CASE Command
  BY <1>2, CommandInvariant
<1>3. CASE Work
  BY <1>3, WorkInvariant
<1>4. CASE RequestFails
  BY <1>4, RequestFailsStructure, RequestFailsCoverage DEF IInv
<1>5. CASE Crash
  BY <1>5, CrashStructure, CrashCoverage DEF IInv
<1>6. CASE Upgrade
  BY <1>6, UpgradeStructure, UpgradeCoverage DEF IInv
<1>7. CASE UNCHANGED vars
  BY <1>7 DEF vars, remoteVars, storeVars, jobVars, history,
     IInv, Structure, TypeOK, RemoteTypeOK, StoreTypeOK, CommandTypeOK, FlagsTypeOK,
     JobOK, NewestOK, MarkNamesCached, Ordered, Coverage, WindowCovers, WalkCovers,
     HolesAreAhead, Missing, MidListing, PageOnKnownGround, WalkEnded, LiveDocs, Documents
<1>8. QED  BY <1>1, <1>2, <1>3, <1>4, <1>5, <1>6, <1>7 DEF Next

\* The strengthening every result below rests on holds in every state.
THEOREM Inductive == Spec => []IInv
BY InitInvariant, NextInvariant, PTL DEF Spec

\* Types: in particular only parsed documents are cached, a body or a read mark
\* belongs to a cached document, and every cursor names a record that existed.
THEOREM TypeCorrect == Spec => []TypeOK
<1>1. IInv => TypeOK
  BY DEF IInv, Structure
<1>2. QED  BY Inductive, <1>1, PTL

\* Between commands the cached window has no hole, whatever the sizes of pages
\* and windows and whichever publications share the repo, unless a listing was
\* cut short (worker.rs:426-519).
THEOREM WindowContiguous == Spec => []Contiguous
<1>1. IInv => Contiguous
  BY DEF IInv, Coverage, HolesAreAhead, MidListing, Contiguous
<1>2. QED  BY Inductive, <1>1, PTL

\* A refresh that runs to its end has cached all it was after, unless a listing
\* was cut short before it (worker.rs:480-511).
THEOREM RefreshComplete == Spec => []CaughtUp
<1>1. IInv => CaughtUp
  <2> SUFFICES ASSUME IInv, ~torn, op = "refresh", pc \in {"older", "finish"},
                      NEW r \in LiveDocs, r <= horizon,
                      (IF pc = "older" THEN cursor ELSE older) <= r
               PROVE  r \in cached
    BY DEF CaughtUp, RefreshCatchesUp
  <2>1. CASE pc = "older"
    BY <2>1 DEF IInv, Structure, JobOK, Coverage, WindowCovers
  <2>2. CASE pc = "finish"
    BY <2>2 DEF IInv, Coverage, WalkEnded
  <2>3. QED  BY <2>1, <2>2
<1>2. QED  BY Inductive, <1>1, PTL

\* A watermark names a cached document of its own publication
\* (worker.rs:499-501, 523-528).
THEOREM MarksNameCached == Spec => []MarkNamesCached
<1>1. IInv => MarkNamesCached
  BY DEF IInv, Structure
<1>2. QED  BY Inductive, <1>1, PTL

\* "Load older" and a first window only ever move the older cursor down, which
\* only a new cache schema forgets
\* (worker.rs:440-445, 472-474).
THEOREM OlderCursorDescends == Spec => OlderMovesDown
<1>1. IInv /\ [Next]_vars => [older' <= older \/ Upgrade]_vars
  <2> SUFFICES ASSUME IInv, Next, ~Upgrade PROVE older' <= older
    OBVIOUS
  <2>1. older \in Int /\ cursor \in 0..Top
    BY BoundsAssumption DEF IInv, Structure, TypeOK, StoreTypeOK, CommandTypeOK
  <2>2. CASE SaveOlderCursor
    BY <2>1, <2>2 DEF SaveOlderCursor, IInv, Structure, JobOK, Ordered, NeverFetched, Top
  <2>3. CASE older' = older
    BY <2>1, <2>3
  <2>4. SaveOlderCursor \/ older' = older
    BY DEF Next, Remote, Publish, DeleteRecord, Command, StartRefresh, StartLoadOlder,
       StartFetchCommand, Begin, MarkCachedRead, FetchBody, FreshenFails, Work,
       FetchWindowPage, SaveDoc, SaveMark, EndFetchCommand, FetchWalkPage, WalkDoc,
       EndPage, FinishWalk, MarkFetchedRead, RequestFails, Crash, storeVars
  <2>5. QED  BY <2>2, <2>3, <2>4
<1>2. QED  BY Inductive, <1>1, PTL DEF Spec, OlderMovesDown

\* No step but a new cache schema marks a read document unread (tui/store.rs:268-296, 351-364).
THEOREM ReadMarksKept == Spec => ReadKept
<1>1. [Next]_vars => [read \subseteq read' \/ Upgrade]_vars
  BY DEF Next, Remote, Publish, DeleteRecord, Command, StartRefresh, StartLoadOlder,
     StartFetchCommand, Begin, MarkCachedRead, FetchBody, FreshenFails, Work,
     FetchWindowPage, SaveDoc, SaveMark, SaveOlderCursor, EndFetchCommand, FetchWalkPage,
     WalkDoc, WalkUpsert, Upsert, EndPage, FinishWalk, MarkFetchedRead, RequestFails,
     Crash, storeVars
<1>2. QED  BY <1>1, PTL DEF Spec, ReadKept

\* Only listing what lies below the older cursor again, `sr fetch` or a new cache
\* schema drops a cached body (worker.rs:435-437, 467-469, 503-504).
THEOREM BodiesKeptInWindow == Spec => BodyKeptInWindow
<1>1. IInv /\ [Next]_vars => [\A d \in body \ body' : d < older \/ op = "fetch" \/ Upgrade]_vars
  <2> SUFFICES ASSUME IInv, Next, ~Upgrade, NEW d \in body, d \notin body', op # "fetch"
               PROVE  d < older
    OBVIOUS
  <2>1. SaveDoc
    BY DEF Next, Remote, Publish, DeleteRecord, Command, StartRefresh, StartLoadOlder,
       StartFetchCommand, Begin, MarkCachedRead, FetchBody, FreshenFails, Work,
       FetchWindowPage, SaveMark, SaveOlderCursor, EndFetchCommand, FetchWalkPage,
       WalkDoc, WalkUpsert, Upsert, EndPage, FinishWalk, MarkFetchedRead, RequestFails,
       Crash, storeVars, IInv, Structure, TypeOK, StoreTypeOK
  <2>2. d \in todo
    BY <2>1 DEF SaveDoc, Upsert
  <2>3. op \in {"refresh", "loadOlder"} /\ (op = "refresh" => older = NeverFetched)
    BY <2>1 DEF SaveDoc, IInv, Structure, JobOK
  <2>4. CASE op = "loadOlder"
    BY <2>2, <2>4 DEF IInv, Structure, Ordered
  <2>5. CASE op = "refresh"
    BY <2>2, <2>3, <2>5, BoundsAssumption DEF IInv, Structure, TypeOK, RemoteTypeOK,
       CommandTypeOK, NeverFetched, Top
  <2>6. QED  BY <2>3, <2>4, <2>5
<1>2. QED  BY Inductive, <1>1, PTL DEF Spec, BodyKeptInWindow
=============================================================================
