\* a background thread that reads songs from the master inside its transaction
SPECIFICATION FairSpec
CONSTANTS
    Songs = {a}
    Values = {x, y}
    Users = {gui, web}
    Gui = gui
    Slaves = {tags}
    Master = master
    All = all
    Gone = gone
    NotCached = notcached
    None = none
    Unknown = unknown
    MaxIds = 1
    Autocommits = FALSE
    SlaveReads = TRUE
    MaxEdits = 1
    MaxCalls = 1
    MaxBegins = 1
PROPERTIES
    Answered
CHECK_DEADLOCK FALSE
