\* One publication and refreshes only are enough for a walk that is cut short.
CONSTANTS
  Publications = {pa}
  NoFeed = NoFeed
  Unparsable = Unparsable
  MaxRecords = 4
  Commands = {"refresh"}
  PublishedKinds = {pa}
  Openable = {2}
  Deletable = {2}
  PageSize = 1
  InitialPages = 1
  OlderPages = 2
SPECIFICATION Spec
INVARIANT RefreshCatchesUp
