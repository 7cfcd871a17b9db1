SPECIFICATION FairSpec
CONSTANTS
  low = low
  mid = mid
  high = high
  h1 = h1
  h2 = h2
  None = None
  Event = {low, high}
  Handle = {h1}
  Feed <- OuterFeed
  Resource <- Drawn
  Incoming = {"Scheduled", "Active", "Cancelled"}
  Drift <- JustBehind
  ShutdownAt = {}
  Week = 2
  MaxTime = 5
INVARIANTS
  NextsValid
  OneControl
PROPERTIES
  EventuallyStarts
  EventuallyEnds
CHECK_DEADLOCK FALSE
