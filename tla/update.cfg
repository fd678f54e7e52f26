\* every library, every file system of three paths; a scan and an update, one change meanwhile
SPECIFICATION Spec
CONSTANTS
    Paths <- ThreePaths
    Dirs <- TwoDirs
    DirOf <- Directories
    NameOf <- Names
    Contents <- TwoContents
    LengthOf <- Lengths
    NoFile = nofile
    MaxChanges = 1
    MaxJobs = 2
INVARIANTS
    TypeOK
    OneRowPerFile
    PurgeIsComplete
    
    
PROPERTIES
    EntriesAreKept
CHECK_DEADLOCK FALSE
