\* drags and deletions in a list of four, stops do not fade
SPECIFICATION Spec
CONSTANTS
    Playmodes <- Normal
    StopFade = FALSE
    StopOnClear = FALSE
    Edits <- DragAndDelete
    Files <- GoodFiles
    MaxShuffleHistory = 2
    Word = 256
    MaxEntries = 4
    MaxCursor = 5
    MaxHistory = 1
INVARIANTS
    DragKeepsOrder
