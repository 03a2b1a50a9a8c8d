CONSTANTS
    TxSize <- MCTxSize
    SyncBuffers <- MCSyncBuffers
    ClearedBuffers <- MCClearedBuffers
    Mailboxes <- MCMailboxes
    CountRange <- MCCountRange
    NoFrame <- MCNoFrame
    PollingWired = FALSE
SPECIFICATION FairSpec
PROPERTIES BufferedMessageIsSent
