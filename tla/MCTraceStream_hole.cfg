SPECIFICATION FairSpec
CONSTANTS
  Offer <- AnySink
  Calls <- MCCalls
  StopTimes = {1}
  PayloadCap = 3
  EventSizes = {1, 2}
  RecordsWrites = TRUE
  MaxEvents = 3
CHECK_DEADLOCK FALSE
INVARIANT HoleIsShown
