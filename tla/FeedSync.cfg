\* Two publications share the repo, one record per page: four records give a window,
\* a walk of several pages and a "load older" of two, with records appearing meanwhile.
CONSTANTS
  Publications = {pa, pb}
  NoFeed = NoFeed
  Unparsable = Unparsable
  MaxRecords = 4
  Commands = {"refresh", "loadOlder", "fetch"}
  PublishedKinds = {pa, pb, Unparsable}
  Openable = {2}
  Deletable = {2}
  PageSize = 1
  InitialPages = 1
  OlderPages = 2
SPECIFICATION Spec
SYMMETRY Symmetry
INVARIANTS
  TypeOK
  Contiguous
  CaughtUp
  MarkNamesCached
PROPERTIES
  ReadKept
  BodyKeptInWindow
  OlderMovesDown
