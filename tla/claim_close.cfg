\* play, stop, close
SPECIFICATION FairSpec
CONSTANTS
    FadeEnable = TRUE
    PauseFade = TRUE
    StopFade = TRUE
    SeekFade = FALSE
    StopOnClear = FALSE
    ShortSongs = FALSE
    PlayMayFail = FALSE
    FadeSteps = 1
    Commands <- PlayAndClose
    MaxOps = 3
    MaxEnds = 0
    MaxStreams = 3
PROPERTIES
    CloseCompletes
