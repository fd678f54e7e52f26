\* every command, all fades enabled, songs that fail or are short
SPECIFICATION Spec
CONSTANTS
    FadeEnable = TRUE
    PauseFade = TRUE
    StopFade = TRUE
    SeekFade = TRUE
    StopOnClear = FALSE
    ShortSongs = TRUE
    PlayMayFail = TRUE
    FadeSteps = 1
    Commands <- AllCommands
    MaxOps = 2
    MaxEnds = 1
    MaxStreams = 3
INVARIANTS
    TypeOK
    FadeIndicesValid
    OneCrossfader
    
PROPERTIES
    StreamsAreDeletedOnce
