\* The instance of FeedSync.cfg.
CONSTANTS
  Publications = {pa, pb}
  NoFeed = NoFeed
  Unparsable = Unparsable
  MaxRecords = 4
  Commands = {"refresh", "loadOlder", "fetch"}
  PublishedKinds = {pa, pb, Unparsable}
  Openable = {2}
  Deletable = {2}
  PageSize = 1
  InitialPages = 1
  OlderPages = 2
SPECIFICATION Spec
SYMMETRY Symmetry
PROPERTY OpenedStaysReadable
