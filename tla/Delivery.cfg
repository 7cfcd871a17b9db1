SPECIFICATION FairDelivery
CONSTANTS
  low = low
  mid = mid
  high = high
  h1 = h1
  h2 = h2
  None = None
  Event = {low, high}
  Handle = {h1}
  Feed <- AnyFeed
  Resource <- Brief
  SameTarget <- SameForAll
  OptOutCancels = TRUE
  RespondExpired = TRUE
  Incoming = {"Scheduled", "Active", "Cancelled"}
  Drift = {}
  ShutdownAt = {}
  Week = 1
  MaxTime = 4
  Programs <- BothPrograms
  Required <- Flags
  Losable = {low}
INVARIANTS
  DeliveryTypeOK
  HeardRunning
  OverIsOver
PROPERTIES
  Converges
  EveryControlArrives
CHECK_DEADLOCK FALSE
