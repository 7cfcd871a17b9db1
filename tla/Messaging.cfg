SPECIFICATION FairSpec
CONSTANTS
  low = low
  mid = mid
  high = high
  h1 = h1
  h2 = h2
  None = None
  Event = {low, mid}
  Handle = {h1}
  Feed <- FirstFeed
  Resource <- Servers
  Incoming = {"Scheduled", "Active", "Cancelled"}
  Drift <- JustBehind
  ShutdownAt = {0, 1, 2, 3, 4}
  Week = 2
  MaxTime = 4
PROPERTIES
  FollowsLifecycle
  EveryMessageShown
  EveryMessageEnds
CHECK_DEADLOCK FALSE
