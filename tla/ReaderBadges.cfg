\* Expected violation: a post read counts down the badge of another feed.
SPECIFICATION Spec
CONSTANTS
  f1 = f1
  f2 = f2
  d1 = d1
  d2 = d2
  Nothing = Nothing
  Feeds = {f1, f2}
  Docs = {d1, d2}
  FeedOf <- MCFeedOf
  MaxEdition = 1
  MaxInputs = 3
PROPERTIES
  BadgeCountsItsPosts
CHECK_DEADLOCK FALSE
