CONSTANTS
    HbNodes = 2
    HbConsTime = 2
    HbTicks = {1}
    HbCap = 3
SPECIFICATION HbSpec
INVARIANTS EveryNodeIsWatched
