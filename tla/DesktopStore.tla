---------------------------- MODULE DesktopStore -----------------------------
(***************************************************************************)
(* The desktop's cache, one redb file.  Each operation writes in a single  *)
(* transaction, which a crash keeps whole or leaves out.  Opening the file *)
(* takes three of them: the follow table of the first version is           *)
(* rewritten, missing tables are made, and everything decoded in another   *)
(* format is dropped.  Two versions of the program that differ in          *)
(* CACHE_SCHEMA may take turns on the file.                                *)
(***************************************************************************)
CONSTANTS
  Docs,     \* URIs of documents
  Pubs,     \* URIs of publications, each of a DID of its own
  Terms,    \* words of the documents
  Schemas,  \* values of CACHE_SCHEMA
  Absent    \* not in the table

\* What the cache may be stamped with, and an entry have been written in: a program that
\* knew no CACHE_SCHEMA stamped nothing.
Formats == Schemas \cup {"unversioned"}

\* An entry of DOCUMENTS; schema is the format it was written in.
StoredDocs == [site : Pubs, words : SUBSET Terms, read : BOOLEAN, schema : Formats]

ASSUME StoreAssumption ==
  /\ "unversioned" \notin Schemas
  /\ Absent \notin Formats /\ Absent \notin StoredDocs /\ Absent \notin {"", "rkey"}

VARIABLES
  documents,                 \* DOCUMENTS
  docsByPub, index,          \* the multimaps: pairs of a key and a document
  cursors, olderCursors,     \* CURSORS and OLDER_CURSORS: the schema an entry dates from
  follows,                   \* FOLLOWS: "" while the rkey is not known
  followsType,               \* its value type: "absent", "unit" or "str"
  settings,
  program,                   \* CACHE_SCHEMA of the program that opened the file last
  storeStep                  \* how far opening has come; "open"; "closed"

bodies    == <<documents, docsByPub, index, cursors, olderCursors>>
storeVars == <<bodies, follows, followsType, settings, program, storeStep>>

StoreTypeOK ==
  /\ documents \in [Docs -> StoredDocs \cup {Absent}]
  /\ docsByPub \in SUBSET (Pubs \X Docs) /\ index \in SUBSET (Terms \X Docs)
  /\ cursors \in [Pubs -> Formats \cup {Absent}]
  /\ olderCursors \in [Pubs -> Formats \cup {Absent}]
  /\ follows \in [Pubs -> {Absent, "", "rkey"}]
  /\ followsType \in {"absent", "unit", "str"}
  /\ settings \in [schema : Formats, images : BOOLEAN]
  /\ program \in Schemas /\ storeStep \in {"closed", "follows", "init", "schema", "open"}
  /\ followsType # "str" => \A p \in Pubs : follows[p] # "rkey"
  /\ storeStep = "open" => followsType = "str"

Stored(d) == documents[d] # Absent

NoDocuments == [d \in Docs |-> Absent]
NoCursors   == [p \in Pubs |-> Absent]

NoFile ==
  /\ documents = NoDocuments /\ docsByPub = {} /\ index = {}
  /\ cursors = NoCursors /\ olderCursors = NoCursors
  /\ followsType = "absent" /\ follows = [p \in Pubs |-> Absent]
  /\ settings = [schema |-> "unversioned", images |-> TRUE]

\* The file of a program that stamped nothing: what it decoded is listed and posted as now,
\* and its follow table may be the set of the first version.
UnversionedFile ==
  /\ documents \in [Docs -> {doc \in StoredDocs : doc.schema = "unversioned"} \cup {Absent}]
  /\ docsByPub = {<<documents[d].site, d>> : d \in {d \in Docs : Stored(d)}}
  /\ index = UNION {documents[d].words \X {d} : d \in {d \in Docs : Stored(d)}}
  /\ cursors \in [Pubs -> {"unversioned", Absent}]
  /\ olderCursors \in [Pubs -> {"unversioned", Absent}]
  /\ \/ followsType = "unit" /\ follows \in [Pubs -> {Absent, ""}]
     \/ followsType = "str" /\ follows \in [Pubs -> {Absent, "", "rkey"}]
  /\ settings \in [schema : {"unversioned"}, images : BOOLEAN]

StoreInit ==
  /\ NoFile \/ UnversionedFile
  /\ program \in Schemas /\ storeStep = "closed"

-----------------------------------------------------------------------------
(* RedbStore::open                                                         *)

OpenStore(p) ==
  /\ storeStep = "closed"
  /\ program' = p /\ storeStep' = "follows"
  /\ UNCHANGED <<bodies, follows, followsType, settings>>

\* Mutant: the old table is dropped as the rest of the cache is.
MigrateFollowsDropping ==
  /\ storeStep = "follows"
  /\ IF followsType = "unit"
     THEN followsType' = "str" /\ follows' = [p \in Pubs |-> Absent]
     ELSE UNCHANGED <<follows, followsType>>
  /\ storeStep' = "init"
  /\ UNCHANGED <<bodies, settings, program>>

\* migrate_follows: a table of the old type is deleted and written again with its keys.
MigrateFollows ==
  /\ storeStep = "follows"
  /\ IF followsType = "unit"
     THEN followsType' = "str" /\ follows' = [p \in Pubs |-> IF follows[p] = Absent THEN Absent
                                                            ELSE ""]
     ELSE UNCHANGED <<follows, followsType>>
  /\ storeStep' = "init"
  /\ UNCHANGED <<bodies, settings, program>>

\* init_tables
InitTables ==
  /\ storeStep = "init"
  /\ followsType' = "str"
  /\ storeStep' = "schema"
  /\ UNCHANGED <<bodies, follows, settings, program>>

\* migrate_schema: bodies, postings and cursors go together, with the stamp.
MigrateSchema ==
  /\ storeStep = "schema"
  /\ IF settings.schema = program THEN UNCHANGED <<bodies, settings>>
     ELSE /\ documents' = NoDocuments /\ docsByPub' = {} /\ index' = {}
          /\ cursors' = NoCursors /\ olderCursors' = NoCursors
          /\ settings' = [settings EXCEPT !.schema = program]
  /\ storeStep' = "open"
  /\ UNCHANGED <<follows, followsType, program>>

\* The process ends, at any point.
CloseStore ==
  /\ storeStep # "closed" /\ storeStep' = "closed"
  /\ UNCHANGED <<bodies, follows, followsType, settings, program>>

-----------------------------------------------------------------------------
(* The operations of the Store and FrontendStore traits.                   *)

Writes(tables) == storeStep = "open" /\ UNCHANGED <<tables, settings, program, storeStep>>

\* Mutant: only a document that is new is indexed.
UpsertIndexingNew(d, site, words) ==
  /\ Writes(<<cursors, olderCursors, follows, followsType>>)
  /\ documents' = [documents EXCEPT ![d] =
       [site |-> site, words |-> words, schema |-> program,
        read |-> IF Stored(d) THEN documents[d].read ELSE FALSE]]
  /\ docsByPub' = docsByPub \cup {<<site, d>>}
  /\ index' = IF Stored(d) THEN index ELSE index \cup (words \X {d})

\* upsert_document: the read mark of a stored copy is kept, and so are its postings.
UpsertDocument(d, site, words) ==
  /\ Writes(<<cursors, olderCursors, follows, followsType>>)
  /\ documents' = [documents EXCEPT ![d] =
       [site |-> site, words |-> words, schema |-> program,
        read |-> IF Stored(d) THEN documents[d].read ELSE FALSE]]
  /\ docsByPub' = docsByPub \cup {<<site, d>>}
  /\ index' = index \cup (words \X {d})

\* set_read: nothing to mark where nothing is stored.
SetRead(d, read) ==
  /\ Writes(<<docsByPub, index, cursors, olderCursors, follows, followsType>>)
  /\ Stored(d)
  /\ documents' = [documents EXCEPT ![d].read = read]

SetSyncCursor(p) ==
  /\ Writes(<<documents, docsByPub, index, olderCursors, follows, followsType>>)
  /\ cursors' = [cursors EXCEPT ![p] = program]

SetOlderCursor(p) ==
  /\ Writes(<<documents, docsByPub, index, cursors, follows, followsType>>)
  /\ olderCursors' = [olderCursors EXCEPT ![p] = program]

\* follow: the rkey of a publication that is followed already stays.
Follow(p) ==
  /\ Writes(<<bodies, followsType>>)
  /\ follows[p] = Absent
  /\ follows' = [follows EXCEPT ![p] = ""]

Unfollow(p) ==
  /\ Writes(<<bodies, followsType>>)
  /\ follows' = [follows EXCEPT ![p] = Absent]

SetFollowRkey(p) ==
  /\ Writes(<<bodies, followsType>>)
  /\ follows' = [follows EXCEPT ![p] = "rkey"]

SetShowImages(on) ==
  /\ storeStep = "open"
  /\ settings' = [settings EXCEPT !.images = on]
  /\ UNCHANGED <<bodies, follows, followsType, program, storeStep>>

StoreNext ==
  \/ (\E p \in Schemas : OpenStore(p))
  \/ MigrateFollows \/ InitTables \/ MigrateSchema \/ CloseStore
  \/ (\E d \in Docs, p \in Pubs, words \in SUBSET Terms : UpsertDocument(d, p, words))
  \/ (\E d \in Docs, read \in BOOLEAN : SetRead(d, read))
  \/ (\E p \in Pubs : SetSyncCursor(p) \/ SetOlderCursor(p))
  \/ (\E p \in Pubs : Follow(p) \/ Unfollow(p) \/ SetFollowRkey(p))
  \/ (\E on \in BOOLEAN : SetShowImages(on))

StoreSpec == StoreInit /\ [][StoreNext]_storeVars

-----------------------------------------------------------------------------
(* What the store answers.                                                 *)

DocumentsFor(p) == {d \in Docs : <<p, d>> \in docsByPub /\ Stored(d)}

ReadUris(p) == {d \in DocumentsFor(p) : documents[d].read}

UnreadDocs(p) == {d \in DocumentsFor(p) : ~documents[d].read}

\* search: the documents all the words of the query are posted for.
Search(query) ==
  IF query = {} THEN {} ELSE {d \in Docs : \A t \in query : <<t, d>> \in index}

-----------------------------------------------------------------------------
(* Properties.                                                             *)

\* Once the store is open, everything it holds is in the format of this program and was
\* walked to by it; each document is listed under its publication, counted read or unread
\* there, and found by any words it has; and a search finds nothing that is not stored.
StoreServes ==
  storeStep = "open" =>
    /\ \A p \in Pubs : cursors[p] \in {Absent, program} /\ olderCursors[p] \in {Absent, program}
    /\ \A d \in Docs : Stored(d) =>
         LET doc == documents[d] IN
         /\ doc.schema = program
         /\ d \in (IF doc.read THEN ReadUris(doc.site) ELSE UnreadDocs(doc.site))
         /\ \A query \in SUBSET doc.words : query # {} => d \in Search(query)
    /\ \A query \in SUBSET Terms : \A d \in Search(query) : Stored(d)

\* A follow and its rkey, a read mark and the preference for images outlive crashes,
\* migrations and re-fetches: the reader's own command takes them away, and nothing else,
\* but that a change of format drops every document with its mark, in the transaction that
\* stamps the new format.
StoreKeeps ==
  [][/\ \A p \in Pubs : follows[p] # Absent /\ follows'[p] \notin {follows[p], "rkey"} =>
                          Unfollow(p)
     /\ \A d \in Docs : Stored(d) =>
          IF documents'[d] = Absent
          THEN storeStep = "schema" /\ settings.schema # program /\ settings'.schema = program
          ELSE documents[d].read /\ ~documents'[d].read => SetRead(d, FALSE)
     /\ settings'.images # settings.images => SetShowImages(settings'.images)]_storeVars
=============================================================================
