\* Dialogs and preferences with two blogs and eight keys; two additions; posts of every
\* format, opened once or twice and fetched at most twice.
SPECIFICATION Spec
CONSTANTS
  Blogs = {b1, b2}
  None = None
  PRESETS <- MCPresets
  Layouts <- MCLayouts
  Edited = {"mine"}
  MaxKeys = 8
  Inputs <- MCInputs
  WellKnown <- MCWellKnown
  Dns <- MCDns
  PageLink <- MCPageLink
  Repo <- MCRepo
  OwnerOf <- MCOwnerOf
  MaxAdds = 2
  Author = "author"
  Galleries <- SampleGalleries
  Posts <- Samples
  Versions <- Numbers
  Fetched <- DocumentsOf
  BodyShown <- WithHint
  BodyLinks <- LinksOf
  BodyImages <- ImagesOf
  CoverOf <- CoverSource
  Segments <- LaidOutWith
  LinksFound <- LocateAndHighlightLinks
  WellLinked <- LinksApart
  NoHref <- NoLink
  Edits <- Editions
  MaxFetches = 2
  MaxOpens <- Openings
INVARIANTS
  TypeOK
  MenusHaveTheirSubject
  BlogsHaveTheirOwnPalette
  EveryChangeIsSaved
  NothingElseIsLost
  ClickOpensWhatIsShown
  PlacedImagesAreRequested
PROPERTIES
  OnlyTheAskedChanges
  FollowedAsPicked
\* The reader may put the keyboard down.
CHECK_DEADLOCK FALSE
