\* every command that stops, the threads against the GUI thread, and what is left when all is quiet
SPECIFICATION FairSpec
CONSTANTS
    FadeEnable = TRUE
    PauseFade = TRUE
    StopFade = TRUE
    SeekFade = TRUE
    StopOnClear = FALSE
    ShortSongs = FALSE
    PlayMayFail = FALSE
    FadeSteps = 1
    Commands <- PlayToClose
    MaxOps = 3
    MaxEnds = 0
    MaxStreams = 3
INVARIANTS
    OneStreamWhenQuiet
PROPERTIES
    HandlersReturn
    ShutdownCompletes
    
