SPECIFICATION Spec
CONSTANTS
  low = low
  mid = mid
  high = high
  h1 = h1
  h2 = h2
  None = None
  Event = {low, mid, high}
  Handle = {h1}
  Feed <- OneFeed
  Resource <- Chain
  SameTarget <- SameForAll
  OptOutCancels = TRUE
  RespondExpired = TRUE
  Incoming = {"Scheduled", "Cancelled", "Superseded"}
  Drift = {}
  ShutdownAt = {}
  Week = 2
  MaxTime = 7
INVARIANTS
  CancelledNeverRuns
CHECK_DEADLOCK FALSE
