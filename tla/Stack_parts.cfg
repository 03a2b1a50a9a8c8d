SPECIFICATION StackSpec
CONSTANTS
  Size = 2
  HistSize = 1
  IsrErrors <- MCIsrErrors
  Codes <- MCCodes
  Inhibit = 1
  Ticks = {0, 1}
  Preempt = FALSE
  RxSize = 3
  CobIds = {1, 2}
  FifoDepth = 2
  Frames = {frame1, frame2}
  NoData = 0
  SyncPeriods = {2}
  SyncWindow = 1
  SyncTimerMax = 2
  SegmentSize = 2
  ExpeditedMax = 1
  BlockFrom = 2
  SdoBufferSize = 6
  SdoTimeout = 2
  BlockMax = 2
  ClientBuffer = 6
  ObjectSizes = {1, 5}
  Transfers = 2
  SdoFaults = 1
  Held = 2
SYMMETRY FrameSymmetry
INVARIANTS StackTypeOK ListenerKnows NewestSurvives ObjectIsWhole CycleIsKept SyncPdosLeaveWindow TransferArrives ObjectOfOneTransfer CleanTransferSucceeds
PROPERTIES RightReceiver WholeWrites
CHECK_DEADLOCK FALSE
