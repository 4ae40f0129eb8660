SPECIFICATION HardwareSpec
CONSTANTS
  Request <- MCRequest
  Resume <- MCResume
  EnterIsr <- MCEnterIsr
  Handled <- MCHandled
  DevInit <- MCDevInit
  DevRead <- MCDevRead
  DevWrite <- MCDevWrite
  DevPoll <- MCDevPoll
  DevNow <- MCDevNow
  Firmware <- MCScripted
  ReplayedAs <- MCReplayedAs
  RecordWrites = TRUE
  Backends = {"part"}
  Irqs = 1
CHECK_DEADLOCK FALSE
INVARIANT MidComputationIsReported
