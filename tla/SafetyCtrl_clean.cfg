SPECIFICATION FairSpec
CONSTANTS
  TxSize = 2
  SyncBuffers = {}
  Mailboxes <- MCMailboxes
  CountRange = 4
  NoFrame <- MCNoFrame
  Nodes <- MCThreeNodes
  NoNode = 0
  Words <- MCWords
  SdoBuffer = 1
  SdoPolls = 2
  NumMotors = 3
  NmtBuffer = 0
  LatePower = {}
  Faulty = {}
  EarlyCurtain = FALSE
  Prompt = TRUE
  Resets = FALSE
INVARIANTS TypeOK MotorsFollowZustand
PROPERTIES WordIsExecuted DrivesFollowCurtain ImplementsInterlock
