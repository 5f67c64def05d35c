---------------------------- MODULE OpfsPersist ----------------------------
(***************************************************************************)
(* How the web shell makes its in-memory store survive a reload.           *)
(*                                                                         *)
(* The worker thread mutates MemStore and sends a PersistOp for every      *)
(* change down a channel.  The main thread drains the channel once a frame *)
(* into a coalescing WriteQueue, and a single asynchronous writer takes    *)
(* one file at a time from it, trying each write twice.  The tab may be    *)
(* reloaded between any two steps, with a newer program whose CACHE_SCHEMA *)
(* differs; the store is then rebuilt from the files.                      *)
(*                                                                         *)
(* A body is the revision it was decoded at and the schema it was decoded  *)
(* under.  The revision of an index stands for the structured state it     *)
(* carries beyond the lists of documents and blobs: read marks, follows,   *)
(* settings (and the walk cursors, which a new schema drops).              *)
(***************************************************************************)
EXTENDS Integers, FiniteSets, SequencesExt

CONSTANTS
  Docs,         \* documents
  Blobs,        \* image blobs
  MaxRevision,  \* bound: how many changes are ever made
  MaxSchema,    \* bound: the newest CACHE_SCHEMA deployed
  MaxReloads    \* bound: how often the tab is reloaded

ASSUME BoundsAssumption ==
  MaxRevision \in Nat /\ MaxSchema \in Nat \ {0} /\ MaxReloads \in Nat

VARIABLES
  clock,     \* revisions handed out so far
  schema,    \* CACHE_SCHEMA of the running program
  reloads,   \* how often the tab was reloaded
  mem,       \* MemStore: docs, their bodies, blobs, revision
  emitting,  \* a changed MemStore has still to emit its index
  prefs,     \* revision of the appearance in use
  chan,      \* persist channel, worker to main thread
  queue,     \* WriteQueue
  writer,    \* the write in progress, NoWrite between two, Idle when not busy
  disk,      \* the files
  failed,    \* history: files whose last write failed for good
  line,      \* history: snapshots of this session's MemStore
  prefsLine  \* history: revisions of this session's appearance

vars == <<clock, schema, reloads, mem, emitting, prefs, chan, queue, writer,
          disk, failed, line, prefsLine>>

Revisions == 0..MaxRevision
NoBody    == [rev |-> 0, schema |-> 0]
Bodies    == [rev : Revisions, schema : 0..MaxSchema]
Files     == ({"body"} \X Docs) \cup ({"blob"} \X Blobs) \cup {<<"index">>, <<"prefs">>}

\* IndexDto, and with it (history) the bodies MemStore had at that moment.
Snapshots ==
  [rev : Revisions, schema : 1..MaxSchema, docs : SUBSET Docs,
   blobs : SUBSET Blobs, bodies : [Docs -> Bodies]]
Snapshot(m, v) ==
  [rev |-> m.rev, schema |-> v, docs |-> m.docs, blobs |-> m.blobs,
   bodies |-> m.bodies]

\* An op and the write it becomes: a file and its new contents.
Write(file, data) == [file |-> file, data |-> data]
NoWrite == Write(<<"none">>, 0)
Idle    == [tries |-> 0, write |-> NoWrite]
NextUp  == [tries |-> 1, write |-> NoWrite]

EmptyMem ==
  [rev |-> 0, docs |-> {}, blobs |-> {}, bodies |-> [d \in Docs |-> NoBody]]

\* The empty index stands for a missing file: both load as an empty store.
EmptyDisk ==
  [index |-> Snapshot(EmptyMem, 1), bodies |-> EmptyMem.bodies, blobs |-> {},
   prefs |-> 0]

\* WriteQueue::new: only the blobs found on disk are known to be durable.
NewQueue(loaded) ==
  [bodyOrder |-> <<>>, bodies |-> [d \in Docs |-> NoBody],
   blobOrder |-> <<>>, completed |-> loaded,
   index |-> NoWrite, prefs |-> NoWrite]

TypeOK ==
  /\ clock \in Revisions /\ prefs \in Revisions
  /\ schema \in 1..MaxSchema /\ reloads \in 0..MaxReloads
  /\ Snapshot(mem, schema) \in Snapshots
  /\ emitting \in BOOLEAN
  /\ \A w \in Range(chan) \cup {queue.index, queue.prefs, writer.write} :
       w = NoWrite \/ w.file \in Files
  /\ \A d \in Docs : d \in Range(queue.bodyOrder) <=> queue.bodies[d] # NoBody
  /\ IsInjective(queue.bodyOrder) /\ IsInjective(queue.blobOrder)
  /\ queue.completed \subseteq Blobs
  /\ writer.tries \in 0..2
  /\ disk.index \in Snapshots /\ disk.bodies \in [Docs -> Bodies]
  /\ disk.blobs \subseteq Blobs /\ disk.prefs \in Revisions
  /\ failed \subseteq Files

Init ==
  /\ clock = 0 /\ schema = 1 /\ reloads = 0
  /\ mem = EmptyMem /\ emitting = FALSE /\ prefs = 0
  /\ chan = <<>> /\ queue = NewQueue({}) /\ writer = Idle
  /\ disk = EmptyDisk /\ failed = {}
  /\ line = <<Snapshot(EmptyMem, 1)>> /\ prefsLine = <<0>>

-----------------------------------------------------------------------------
(* The worker thread: MemStore.                                            *)

\* A mutation of MemStore; `ops` is what it sends before the index.
Mutate(m, ops) ==
  /\ ~emitting /\ clock < MaxRevision
  /\ clock' = clock + 1
  /\ mem' = [m EXCEPT !.rev = clock + 1]
  /\ chan' = chan \o ops
  /\ emitting' = TRUE
  /\ line' = Append(line, Snapshot(mem', schema))
  /\ UNCHANGED <<schema, reloads, prefs, queue, writer, disk, failed, prefsLine>>

\* upsert_document: the entry is replaced, with or without a body.
UpsertDocument(d, hasBody) ==
  LET decoded == [rev |-> clock + 1, schema |-> schema]
  IN Mutate([mem EXCEPT !.docs = @ \cup {d},
                        !.bodies[d] = IF hasBody THEN decoded ELSE NoBody],
            IF hasBody THEN <<Write(<<"body", d>>, decoded)>> ELSE <<>>)

\* put_blob, which the worker calls only for a blob it did not find cached.
PutBlob(b) ==
  /\ b \notin mem.blobs
  /\ Mutate([mem EXCEPT !.blobs = @ \cup {b}], <<Write(<<"blob", b>>, 1)>>)

\* Every other mutator: publications, read marks, follows, cursors, settings.
ChangeState == Mutate(mem, <<>>)

\* emit_index, at the end of every mutator.
EmitIndex ==
  /\ emitting
  /\ chan' = Append(chan, Write(<<"index">>, Snapshot(mem, schema)))
  /\ emitting' = FALSE
  /\ UNCHANGED <<clock, schema, reloads, mem, prefs, queue, writer, disk,
                 failed, line, prefsLine>>

\* The worker's save_prefs hook.
SavePrefs ==
  /\ ~emitting /\ clock < MaxRevision
  /\ clock' = clock + 1 /\ prefs' = clock + 1
  /\ chan' = Append(chan, Write(<<"prefs">>, clock + 1))
  /\ prefsLine' = Append(prefsLine, clock + 1)
  /\ UNCHANGED <<schema, reloads, mem, emitting, queue, writer, disk, failed, line>>

-----------------------------------------------------------------------------
(* The main thread: the queue and its one writer.                          *)

\* Mutant: a body already in line keeps its old contents.
PushBodyFirst(q, d, data) ==
  IF d \in Range(q.bodyOrder) THEN q
  ELSE [q EXCEPT !.bodyOrder = Append(@, d), !.bodies[d] = data]

\* Mutant: a body already in line is put in line again.
PushBodyAgain(q, d, data) ==
  [q EXCEPT !.bodyOrder = Append(@, d), !.bodies[d] = data]

\* WriteQueue::push.  Snapshots and bodies keep their latest contents, a body
\* its place in line; a blob is queued once and never after it was stored.
PushBody(q, d, data) ==
  [q EXCEPT !.bodyOrder = IF d \in Range(@) THEN @ ELSE Append(@, d),
            !.bodies[d] = data]
PushBlob(q, b) ==
  IF b \in q.completed \cup Range(q.blobOrder) THEN q
  ELSE [q EXCEPT !.blobOrder = Append(@, b)]
Push(q, w) ==
  CASE w.file[1] = "index" -> [q EXCEPT !.index = w]
    [] w.file[1] = "prefs" -> [q EXCEPT !.prefs = w]
    [] w.file[1] = "body"  -> PushBody(q, w.file[2], w.data)
    [] w.file[1] = "blob"  -> PushBlob(q, w.file[2])

\* What pop_next takes, and what it leaves.
Taken(w, rest) == [write |-> w, rest |-> rest]
TakeBody(q) ==
  LET d == Head(q.bodyOrder)
  IN Taken(Write(<<"body", d>>, q.bodies[d]),
           [q EXCEPT !.bodyOrder = Tail(@), !.bodies[d] = NoBody])
TakeBlob(q) ==
  Taken(Write(<<"blob", Head(q.blobOrder)>>, 1), [q EXCEPT !.blobOrder = Tail(@)])
TakeIndex(q) == Taken(q.index, [q EXCEPT !.index = NoWrite])
TakePrefs(q) == Taken(q.prefs, [q EXCEPT !.prefs = NoWrite])

\* Mutant: the index does not wait for its payloads.
PopIndexFirst(q) ==
  CASE q.index # NoWrite   -> TakeIndex(q)
    [] q.index = NoWrite /\ q.bodyOrder # <<>> -> TakeBody(q)
    [] q.index = NoWrite /\ q.bodyOrder = <<>> /\ q.blobOrder # <<>> -> TakeBlob(q)
    [] OTHER -> TakePrefs(q)

\* WriteQueue::pop_next: bodies, then blobs, then the index, then preferences.
PopNext(q) ==
  IF q.bodyOrder # <<>> THEN TakeBody(q)
  ELSE IF q.blobOrder # <<>> THEN TakeBlob(q)
  ELSE IF q.index # NoWrite THEN TakeIndex(q)
  ELSE TakePrefs(q)

IsQueueEmpty(q) == PopNext(q).write = NoWrite

\* A frame drains the channel and starts the writer if it is not busy.
Frame ==
  /\ chan # <<>>
  /\ queue' = FoldLeft(Push, queue, chan)
  /\ chan' = <<>>
  /\ writer' = IF writer = Idle /\ ~IsQueueEmpty(queue') THEN NextUp ELSE writer
  /\ UNCHANGED <<clock, schema, reloads, mem, emitting, prefs, disk, failed,
                 line, prefsLine>>

\* The writer takes its next file, or stops when there is none.
TakeNext ==
  /\ writer = NextUp
  /\ LET next == PopNext(queue)
     IN /\ queue' = next.rest
        /\ writer' = IF next.write = NoWrite THEN Idle
                     ELSE [tries |-> 1, write |-> next.write]
  /\ UNCHANGED <<clock, schema, reloads, mem, emitting, prefs, chan, disk,
                 failed, line, prefsLine>>

Stored(w) ==
  LET kind == w.file[1]
  IN CASE kind = "index" -> [disk EXCEPT !.index = w.data]
       [] kind = "prefs" -> [disk EXCEPT !.prefs = w.data]
       [] kind = "body"  -> [disk EXCEPT !.bodies[w.file[2]] = w.data]
       [] kind = "blob"  -> [disk EXCEPT !.blobs = @ \cup {w.file[2]}]

\* WriteQueue::mark_succeeded: a stored blob need not be written again.
MarkSucceeded(w) ==
  IF w.file[1] = "blob" THEN [queue EXCEPT !.completed = @ \cup {w.file[2]}]
  ELSE queue

WriteSucceeds ==
  /\ writer.write # NoWrite
  /\ disk' = Stored(writer.write)
  /\ queue' = MarkSucceeded(writer.write)
  /\ failed' = failed \ {writer.write.file}
  /\ writer' = NextUp
  /\ UNCHANGED <<clock, schema, reloads, mem, emitting, prefs, chan, line, prefsLine>>

\* Mutant: a failing write is tried again without end.
WriteFailsForever ==
  /\ writer.write # NoWrite
  /\ writer' = [writer EXCEPT !.tries = IF @ = 1 THEN 2 ELSE 1]
  /\ UNCHANGED <<clock, schema, reloads, mem, emitting, prefs, chan, queue,
                 disk, failed, line, prefsLine>>

\* Mutant: a failed blob counts as stored.
WriteFailsMarked ==
  /\ writer.write # NoWrite
  /\ writer' = NextUp /\ queue' = MarkSucceeded(writer.write)
  /\ failed' = failed \cup {writer.write.file}
  /\ UNCHANGED <<clock, schema, reloads, mem, emitting, prefs, chan, disk, line, prefsLine>>

\* A failed write is tried once more, then dropped.
WriteFails ==
  /\ writer.write # NoWrite
  /\ IF writer.tries = 1
     THEN writer' = [writer EXCEPT !.tries = 2] /\ UNCHANGED failed
     ELSE writer' = NextUp /\ failed' = failed \cup {writer.write.file}
  /\ UNCHANGED <<clock, schema, reloads, mem, emitting, prefs, chan, queue,
                 disk, line, prefsLine>>

-----------------------------------------------------------------------------
(* A reload, or a new release.                                             *)

\* Mutant: a schema mismatch drops the documents.
LoadWithoutDocs(v, unread) ==
  [rev    |-> disk.index.rev,
   docs   |-> IF disk.index.schema = v THEN disk.index.docs ELSE {},
   blobs  |-> {b \in disk.index.blobs \cap disk.blobs : <<"blob", b>> \notin unread},
   bodies |-> EmptyMem.bodies]

\* load_store and from_index: an index that cannot be read is taken for a missing
\* one.  Bodies come back only under the index's own schema and when they can be
\* read and parsed, blobs when they can be read.
Load(v, unread) ==
  IF <<"index">> \in unread THEN EmptyMem
  ELSE [rev    |-> disk.index.rev,
        docs   |-> disk.index.docs,
        blobs  |-> {b \in disk.index.blobs \cap disk.blobs : <<"blob", b>> \notin unread},
        bodies |-> [d \in Docs |->
                     IF /\ d \in disk.index.docs /\ <<"body", d>> \notin unread
                        /\ disk.index.schema = v
                     THEN disk.bodies[d] ELSE NoBody]]

\* decode_prefs: the file's own contents, defaults when there is none to read.
LoadPrefs(unread) == IF <<"prefs">> \in unread THEN 0 ELSE disk.prefs

Reload ==
  /\ reloads < MaxReloads
  /\ reloads' = reloads + 1
  /\ \E v \in {schema, schema + 1} \cap 1..MaxSchema, unread \in SUBSET Files :
       /\ schema' = v
       /\ mem' = Load(v, unread)
       /\ line' = <<Snapshot(mem', v)>>
       /\ prefs' = LoadPrefs(unread) /\ prefsLine' = <<prefs'>>
  /\ emitting' = FALSE /\ chan' = <<>>
  /\ queue' = NewQueue(mem'.blobs) /\ writer' = Idle
  /\ UNCHANGED <<clock, disk, failed>>

Next ==
  \/ \E d \in Docs : UpsertDocument(d, TRUE) \/ UpsertDocument(d, FALSE)
  \/ \E b \in Blobs : PutBlob(b)
  \/ ChangeState \/ EmitIndex \/ SavePrefs
  \/ Frame \/ TakeNext \/ WriteSucceeds \/ WriteFails
  \/ Reload

Spec == Init /\ [][Next]_vars

\* The tab stays open: the worker finishes what it began, frames are drawn, and
\* the browser answers every write.
Fairness ==
  /\ WF_vars(EmitIndex) /\ WF_vars(Frame) /\ WF_vars(TakeNext)
  /\ WF_vars(WriteSucceeds \/ WriteFails)

FairSpec == Spec /\ Fairness

-----------------------------------------------------------------------------
(* What survives.                                                          *)

Underway(w) ==
  \/ w \in Range(chan) \cup {queue.index, queue.prefs, writer.write}
  \/ /\ w.file[1] = "body"
     /\ w.data # NoBody /\ queue.bodies[w.file[2]] = w.data
  \/ w.file[1] = "blob" /\ w.file[2] \in Range(queue.blobOrder)

\* persist.rs:75-77: an index on disk never refers to a body older than the one
\* it was taken with, or to a blob that is not there, unless that very file could
\* not be written: payloads are written before the index that refers to them,
\* through any coalescing and whenever the tab is reloaded.
PayloadBeforeIndex ==
  /\ \A d \in Docs :
       disk.index.bodies[d].rev <= disk.bodies[d].rev \/ <<"body", d>> \in failed
  /\ \A b \in disk.index.blobs : b \in disk.blobs \/ <<"blob", b>> \in failed

\* Nothing the worker stored is silently lost on its way: once this session has
\* changed the contents of a file, the latest are on disk, or underway, or their
\* write failed for good (persist.rs:98-147, main.rs:334-372).
NothingDropped ==
  /\ \/ emitting \/ Len(line) = 1 \/ disk.index.rev = mem.rev \/ <<"index">> \in failed
     \/ Underway(Write(<<"index">>, Snapshot(mem, schema)))
  /\ \A d \in Docs :
       \/ mem.bodies[d] \in {NoBody, disk.bodies[d]} \/ <<"body", d>> \in failed
       \/ Underway(Write(<<"body", d>>, mem.bodies[d]))
  /\ \A b \in mem.blobs :
       \/ b \in disk.blobs \/ <<"blob", b>> \in failed
       \/ Underway(Write(<<"blob", b>>, 1))
  /\ \/ Len(prefsLine) = 1 \/ disk.prefs = prefs \/ <<"prefs">> \in failed
     \/ Underway(Write(<<"prefs">>, prefs))

\* persist.rs:77: the queue refuses a blob only when it is stored or about to be.
RefusedBlobsAreStored == queue.completed \subseteq disk.blobs

\* The index file only moves forward along the states of the running store, and a
\* reload goes on from it with all its documents, under a new schema too, or from
\* nothing when it cannot be read (persist.rs:98-147, 326-352, store.rs:112-160).
ContinuesIndex(saved, s) == s.rev = saved.rev /\ s.docs = saved.docs
FreshIndex(s) == s.rev = 0 /\ s.docs = {}
Position ==
  LET held == {i \in DOMAIN line : line[i].rev = disk.index.rev}
  IN IF held = {} THEN 0 ELSE CHOOSE i \in held : TRUE
IndexFile == INSTANCE SnapshotLine
  WITH at <- Position, file <- disk.index, Continues <- ContinuesIndex, Fresh <- FreshIndex
IndexMovesForward == IndexFile!Spec

\* While the tab stays open, a change of the store and a new appearance reach the
\* disk unless their file cannot be written: a busy writer comes back to what was
\* pushed behind its back, and a write that failed does not hold up the others.
IndexUnsaved == Len(line) > 1 /\ disk.index.rev # mem.rev /\ <<"index">> \notin failed
PrefsUnsaved == Len(prefsLine) > 1 /\ disk.prefs # prefs /\ <<"prefs">> \notin failed
EventuallySaved ==
  (IndexUnsaved ~> ~IndexUnsaved) /\ (PrefsUnsaved ~> ~PrefsUnsaved)

\* store.rs:22-24: bodies cached under another CACHE_SCHEMA are dropped, so the
\* store only serves bodies decoded under its own.
BodiesAreOfThisSchema ==
  \A d \in Docs : mem.bodies[d] # NoBody => mem.bodies[d].schema = schema
=============================================================================
