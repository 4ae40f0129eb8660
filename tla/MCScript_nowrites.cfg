SPECIFICATION HardwareSpec
CONSTANTS
  Request <- MCRequest
  Resume <- MCResume
  EnterIsr <- MCEnterIsr
  Handled <- MCHandled
  DevInit <- MCDevInit
  DevRead <- MCDevRead
  DevWrite <- MCDevWrite
  DevPoll <- MCDevPoll
  DevNow <- MCDevNow
  Firmware <- MCPlainOne
  ReplayedAs <- MCReplayedAs
  RecordWrites = FALSE
  Backends = {"sim"}
  Irqs = 2
CHECK_DEADLOCK FALSE
INVARIANT SameEnd
