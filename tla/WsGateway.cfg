SPECIFICATION FairSpec
CONSTANTS
  Nobody = Nobody
  Users = {u1}
  Public = {prices}
  Private = {orders}
  MaxAttempts = 1
  MaxSockets = 2
  MaxInbox = 1
INVARIANTS
  PublicChannelsFollow
  PrivateNeedsUser
PROPERTIES
  LostIsTerminated
CHECK_DEADLOCK FALSE
