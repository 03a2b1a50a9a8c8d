SPECIFICATION NodeSpec
CONSTANTS
  TxSize = 2
  SyncBuffers = {}
  Mailboxes <- MCMailboxes
  CountRange = 4
  NoFrame <- MCNoFrame
  Nodes <- MCNodes
  NoNode = 0
  Words <- MCWords
  SdoBuffer = 1
  SdoPolls = 2
  NumMotors = 2
  NmtBuffer = 0
  LatePower = {2}
  Faulty = {2}
  EarlyCurtain = FALSE
  Prompt = FALSE
  Resets = FALSE
  HbTimes = {0, 5}
  HbFirst = 1
  HbTimerMod = 8
  NmtTicks = {1, 2}
  NmtBehaviors <- MCBehaviors
  NmtErrors = {"ISR_TIMER_OVERFLOW", "HEARTBEAT_CONSUMER"}
  NmtCap = 8
  HbNodes = 2
  HbConsTime = 2
  HbTicks = {1}
  HbCap = 3
  PdoValues = {1, 2}
  PdoTypes = {0, 2, 255}
  InhibitTimes = {0, 2}
  EventTimes = {0, 3}
  StartValues = {0, 2}
  SyncOverflow = 2
  PdoCap = 4
INVARIANTS StoppedIsShutDown EngagedMeansNotEnabled NodeTypeOK ErrorLeavesOperational HeartbeatTells ConsumerSeesSilence TimersKept EveryNthSync
PROPERTIES NoFalseAlarm
