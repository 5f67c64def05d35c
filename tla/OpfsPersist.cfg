\* Two documents and a blob, three changes, one reload: every order in which
\* payloads and snapshots can meet in the queue.
CONSTANTS
  Docs = {d1, d2}
  Blobs = {b1}
  MaxRevision = 3
  MaxSchema = 2
  MaxReloads = 1
SPECIFICATION FairSpec
INVARIANTS
  TypeOK
  PayloadBeforeIndex
  NothingDropped
  RefusedBlobsAreStored
PROPERTIES
  IndexMovesForward
  EventuallySaved
CHECK_DEADLOCK FALSE
