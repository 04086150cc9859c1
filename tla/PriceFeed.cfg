SPECIFICATION FairFeedSpec
CONSTANTS
  Threshold = 2
  Interval = 1
INVARIANTS
  StaleIsNotServed
  FreshIsServed
  NeverOlderThanAnnounced
PROPERTIES
  KeepsFetching
