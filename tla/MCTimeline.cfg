SPECIFICATION FairTimelineSpec
CONSTANTS
  Request <- RxRequest
  Resume <- RxResume
  EnterIsr <- RxEnterIsr
  Handled <- MCHandled
  DevInit <- McuInit
  DevRead <- McuRead
  DevWrite <- McuWrite
  DevPoll <- McuPoll
  DevNow <- McuNow
  Firmware <- MCFirmware
  ReplayedAs <- MCReplayedAs
  RecordWrites = TRUE
  RingSize = 3
  Bytes = {1, 2}
  TxTotal = 3
  FrameLen = 2
  ByteGaps = {3, 5}
  FrameGaps = {1}
  Iters = 5
  CheckpointEvery = 2
  Steps = {1, 2}
  Thresholds = {1, 2, 3}
  MaxCalls = 2
CHECK_DEADLOCK FALSE
INVARIANTS TimelineTypeOK CheckpointsAreComplete SeekIsExact FindsTheFirst
PROPERTIES BackwardsUndoesWork CallsReturn
