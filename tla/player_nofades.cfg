\* no crossfade between songs, two songs end
SPECIFICATION Spec
CONSTANTS
    FadeEnable = FALSE
    PauseFade = TRUE
    StopFade = FALSE
    SeekFade = FALSE
    StopOnClear = TRUE
    ShortSongs = FALSE
    PlayMayFail = FALSE
    FadeSteps = 1
    Commands <- AllCommands
    MaxOps = 3
    MaxEnds = 2
    MaxStreams = 5
INVARIANTS
    NextSongOnce
