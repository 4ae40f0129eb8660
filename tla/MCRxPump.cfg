SPECIFICATION FairSpec
CONSTANTS
  Request <- RxRequest
  Resume <- RxResume
  EnterIsr <- RxEnterIsr
  Handled <- MCHandled
  DevInit <- McuInit
  DevRead <- McuRead
  DevWrite <- McuWrite
  DevPoll <- McuPoll
  DevNow <- McuNow
  Firmware <- MCFirmware
  ReplayedAs <- MCReplayedAs
  RecordWrites = TRUE
  RingSize = 3
  Bytes = {1, 2}
  TxTotal = 4
  FrameLen = 3
  ByteGaps = {2, 3, 4}
  FrameGaps = {1, 4}
  Iters = 8
CHECK_DEADLOCK FALSE
INVARIANTS TypeOK Lockstep EveryByteAccountedFor
INVARIANTS PendingCountsTheRing SameWorkOrDivergence OverrunDiverges
PROPERTY ReplayEventuallyEnds
