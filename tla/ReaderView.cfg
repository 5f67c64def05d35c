\* Two publications, a post each, one edit, three keys, on any cache.
SPECIFICATION FairSpec
CONSTANTS
  f1 = f1
  f2 = f2
  d1 = d1
  d2 = d2
  Nothing = Nothing
  Feeds = {f1, f2}
  Docs = {d1, d2}
  FeedOf <- MCFeedOf
  MaxEdition = 2
  MaxInputs = 3
INVARIANTS
  TypeOK
  BodyIsOfTitle
  ScreenIsCurrent
  ListIsOfOpenFeed
  NoFalseMarks
PROPERTIES
  OpenAnswered
\* The reader may put the keyboard down.
CHECK_DEADLOCK FALSE
