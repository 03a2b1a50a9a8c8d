SPECIFICATION Spec
CONSTANTS
  TxSize = 2
  SyncBuffers = {}
  Mailboxes = {1,2}
  CountRange = 4
  NoFrame <- MCNoFrame
  Nodes <- MCNodes
  NoNode = 0
  Words <- MCWords
  SdoBuffer = 1
  SdoPolls = 1
  NumMotors = 2
  NmtBuffer = 0
  LatePower = {2}
  Faulty = {2}
  EarlyCurtain = TRUE
  Prompt = TRUE
  Resets = TRUE
INVARIANTS DetectedMeansPowered
