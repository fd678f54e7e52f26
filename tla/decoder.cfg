\* blocks, buffers of two lengths, seeks that may fail, a library that may stop
SPECIFICATION FairSpec
CONSTANTS
    SampleCount = 6
    BlockSize = 3
    Lengths <- ShortAndLong
    SeekMayFail = TRUE
    MaxSeeks = 2
INVARIANTS
    TypeOK
    
    BufferIsFilled
    SeekIsNotLost
PROPERTIES
    EndIsReported
CHECK_DEADLOCK FALSE
