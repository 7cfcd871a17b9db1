SPECIFICATION FairSpec
CONSTANTS
  c1 = c1
  c2 = c2
  c3 = c3
  reading = reading
  unknown = unknown
  onReading = onReading
  onDcap = onDcap
  Files = 2
  None = None
  Conn = {c1, c2, c3}
  Path = {reading, unknown}
  Callback = {onReading, onDcap}
INVARIANTS
  TypeOK
  NoSilentSuccess
PROPERTIES
  StaysStopped
  ServedUnlessStalled
  StopsUnlessStalled
CHECK_DEADLOCK FALSE
