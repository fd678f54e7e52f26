\* a thread for dirty tags, an editor, a rebuild
SPECIFICATION Spec
CONSTANTS
    Songs = {a}
    Tags = {x, y}
    DirtyWriters = {dirty}
    Editors = {editor}
    Rebuilds = {rebuild}
    None = none
    Unsupported = {}
    MaxOthers = 1
INVARIANTS
    TypeOK
    DirtyOrSame
    
    DanglingIsBrief
CHECK_DEADLOCK FALSE
