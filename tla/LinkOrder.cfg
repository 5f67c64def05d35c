\* One post with a linked image before a linked text.
SPECIFICATION ReadingSpec
CONSTANTS
  Author = "author"
  Galleries <- MCGalleries
  Posts <- MCPosts
  Versions <- Numbers
  Fetched <- DocumentsOf
  BodyShown <- WithHint
  BodyLinks <- LinksOf
  BodyImages <- ImagesOf
  CoverOf <- CoverSource
  Segments <- LaidOutWith
  LinksFound <- LocateAndHighlightLinks
  WellLinked <- LinksApart
  NoHref <- NoLink
  Edits = {}
  MaxFetches = 1
  MaxOpens <- MCMaxOpens
INVARIANTS
  LinkOrderMatches
\* The reader may put the keyboard down.
CHECK_DEADLOCK FALSE
