SPECIFICATION Spec
CONSTANTS
  low = low
  mid = mid
  high = high
  h1 = h1
  h2 = h2
  None = None
  Event = {low, mid, high}
  Handle = {h1}
  Feed <- OneFeed
  Resource <- Servers
  Incoming = {"Scheduled", "Cancelled"}
  Drift <- JustBehind
  ShutdownAt = {0, 1, 2, 3, 4}
  Week = 2
  MaxTime = 4
INVARIANTS
  OneTariffPerRate
  ServerInSync
CHECK_DEADLOCK FALSE
