SPECIFICATION Spec
CONSTANTS
  TxSize = 2
  SyncBuffers = {}
  Mailboxes <- MCMailboxes
  CountRange = 4
  NoFrame <- MCNoFrame
  Nodes <- MCNodes
  NoNode = 0
  Words <- MCWords
  SdoBuffer = 1
  SdoPolls = 2
  NumMotors = 2
  NmtBuffer = 0
  LatePower = {}
  Faulty = {}
  EarlyCurtain = TRUE
  Prompt = TRUE
  Resets = FALSE
INVARIANTS StoppedIsShutDown
