SPECIFICATION Spec
CONSTANTS
  low = low
  mid = mid
  high = high
  h1 = h1
  h2 = h2
  None = None
  Event = {low, mid, high}
  Handle = {h1, h2}
  Feed <- TwoFeeds
  Resource <- Chain
  SameTarget <- SameForAll
  OptOutCancels = TRUE
  RespondExpired = TRUE
  Incoming = {"Scheduled", "Cancelled", "Superseded"}
  Drift = {}
  ShutdownAt = {2, 3}
  Week = 1
  MaxTime = 6
CONSTRAINT
  AroundShutdown
INVARIANTS
  TypeOK
  NextsValid
  NoConflict
  NoRestart
  ClientInSync
  ServerInSync
PROPERTIES
  
  OptOutIsFinal
  HandlerProtocol
CHECK_DEADLOCK FALSE
