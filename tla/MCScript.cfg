SPECIFICATION HardwareSpec
CONSTANTS
  Request <- MCRequest
  Resume <- MCResume
  EnterIsr <- MCEnterIsr
  Handled <- MCHandled
  DevInit <- MCDevInit
  DevRead <- MCDevRead
  DevWrite <- MCDevWrite
  DevPoll <- MCDevPoll
  DevNow <- MCDevNow
  Firmware <- MCScripted
  ReplayedAs <- MCReplayedAs
  RecordWrites = TRUE
  Backends = {"sim", "part"}
  Irqs = 2
CHECK_DEADLOCK FALSE
INVARIANTS HardwareTypeOK ShimLockstep BehindAnAccessIsExact HiddenIsReported
PROPERTIES NoMaskedIrq PumpDrains
