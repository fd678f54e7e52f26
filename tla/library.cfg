\* two threads on the master, one background thread that works in transactions
SPECIFICATION FairSpec
CONSTANTS
    Songs = {a}
    Values = {x, y}
    Users = {gui, web}
    Gui = gui
    Slaves = {tags}
    Master = master
    All = all
    Gone = gone
    NotCached = notcached
    None = none
    Unknown = unknown
    MaxIds = 0
    Autocommits = FALSE
    SlaveReads = FALSE
    MaxEdits = 2
    MaxCalls = 1
    MaxBegins = 1
INVARIANTS
    TypeOK
    StaleIsPending
    CountIsRight
PROPERTIES
    Answered
CHECK_DEADLOCK FALSE
