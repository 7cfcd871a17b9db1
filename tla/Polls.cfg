SPECIFICATION FairSpec
CONSTANTS
  fast = fast
  slow = slow
  Job = {fast, slow}
  Interval <- Rates
  Rate = {1, 2, 4}
  MayForce = TRUE
  MaxTime = 6
INVARIANTS
  TypeOK
  WithinInterval
PROPERTIES
  CaughtUp
  EventuallyPolled
CHECK_DEADLOCK FALSE
