SPECIFICATION FairRecSpec
CONSTANTS
  Offer <- SinkPush
  PayloadCap = 2
  EventSizes = {1}
  RecordsWrites = TRUE
  Wrap = 4
  Cap = 4
  StartTimes = {0, 3}
  Gaps = {1, 3}
  DrainLimit = 2
  MaxCalls = 3
  MaxIrqs = 1
CHECK_DEADLOCK FALSE
INVARIANTS RecTypeOK ClockIsExact SuspicionIsFounded LatchedOnlyIfTorn AloneIsPrefix HealthyAloneIsWhole
PROPERTY DrainEnds
