\* a shuffled list, nothing dragged, stops do not fade, the history turns over
SPECIFICATION Spec
CONSTANTS
    Playmodes <- Shuffle
    StopFade = FALSE
    StopOnClear = TRUE
    Edits <- AdditionsOnly
    Files <- AnyFile
    MaxShuffleHistory = 2
    Word = 256
    MaxEntries = 3
    MaxCursor = 3
    MaxHistory = 3
INVARIANTS
    CursorFollowsSong
    CursorInRange
