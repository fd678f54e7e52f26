\* lists played in order, nothing dragged, stops fade
SPECIFICATION Spec
CONSTANTS
    Playmodes <- Ordered
    StopFade = TRUE
    StopOnClear = FALSE
    Edits <- NoDrags
    Files <- NoneUnreadable
    MaxShuffleHistory = 3
    Word = 256
    MaxEntries = 3
    MaxCursor = 3
    MaxHistory = 1
INVARIANTS
    TypeOK
    CursorFollowsSong
    CursorInRange
