CONSTANTS
    TxSize <- MCTxSize
    SyncBuffers <- MCSyncBuffers
    ClearedBuffers <- MCClearedBuffers
    Mailboxes <- MCMailboxes
    CountRange <- MCCountRange
    NoFrame <- MCNoFrame
    PollingWired = TRUE
    Viewers = {v1}
    Player = player
    Server = server
    MaxUnplugs = 2
    Left = 1
    Right = 6
    BarStep = 2
    GoBack = 3
    MinBuffer = 1
    MaxBuffer = 1
    LoadReads = 1
    Repeats = 1
    Losses = 1
    MaxStarts = 3
    Requests = {r1, r2}
SPECIFICATION DriversSpec
INVARIANTS DriversTypeOK CountCoversFull CameraServesObservers NoStaleRefusal GameHasPlayer MotorsAreCalibrated MockServes SettingsTakeEffect
PROPERTIES SyncWindowCloses NoOvertaking ImplementsQueue LimitsNeedNoVoltage CalibrationEnds MockFallsSilent
