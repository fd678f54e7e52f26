---------------------------- MODULE LibraryUpdate ----------------------------
(***************************************************************************)
(* The library dialog and its threads.  MusikScanNewThread lists the files *)
(* of the library's directories; MusikUpdateLibThread scans if the list is *)
(* empty, adds a row for every file of it that has none, and then looks at *)
(* every file the library had before: a row whose file is missing is given *)
(* to the file it was moved to, or removed.  Escape cancels either thread. *)
(*                                                                         *)
(* Files are changed by anybody, rows only by these threads: the           *)
(* transactions that keep other writers out are modelled in MusikLibrary,  *)
(* rebuilding tags in TagThreads.  The UNIQUE constraint of the table is   *)
(* not: OneRowPerFile says that no statement needs it.                     *)
(***************************************************************************)
EXTENDS Naturals, FiniteSets

CONSTANTS
    Paths, Dirs,
    DirOf, NameOf,      \* of a path: its directory, its file name without extension
    Contents, LengthOf, \* what is in a file, with its title, artist and album; its seconds
    NoFile,
    MaxChanges, MaxJobs \* bounds: of changes other programs make, of threads

ASSUME UpdateAssumption ==
    /\ DirOf \in [Paths -> Dirs] /\ LengthOf \in [Contents -> Nat]
    /\ DOMAIN NameOf = Paths /\ NoFile \notin Contents
    /\ {MaxChanges, MaxJobs} \subseteq Nat /\ IsFiniteSet(Paths)

VARIABLES
    file,           \* what the file system holds
    rows, ids,      \* the songs table: [id, path, content]; ids given so far, which
                    \* are as old as the rows' timeadded
    pathsOf,        \* g_Paths: the directories of the library
    scanned,        \* m_arrScannedFiles
    thread,         \* what the dialog's thread is at; "none" if it has no thread
    killed,         \* has it been asked to end?
    purge,          \* NoPurge is not set
    before,         \* songsBeforeUpdate, as far as not yet looked at
    todo            \* directories still to be scanned; files still to be added
VARIABLES           \* not in the code
    old,            \* the rows at the start of an update
    disturbed,      \* paths another program has changed since the scan
    whole,          \* does `scanned' hold the files of all directories?
    changes, jobs   \* what MaxChanges and MaxJobs bound
ghosts == <<old, disturbed, whole, changes, jobs>>
dialog == <<pathsOf, scanned, thread, killed, purge>>
table  == <<rows, ids>>
vars   == <<file, table, dialog, before, todo, ghosts>>

Row(id, path, content) == [id |-> id, path |-> path, content |-> content]
RowsAt(path) == {r \in rows : r.path = path}
Exists(path) == file[path] # NoFile

Init ==
    /\ file \in [Paths -> Contents \union {NoFile}]
    /\ \E held \in SUBSET Paths, content \in [Paths -> Contents] :
       \E age \in [held -> 1..Cardinality(held)] :
          /\ \A p, q \in held : age[p] = age[q] => p = q
          /\ \A p \in held : content[p] = file[p] \/ ~Exists(p)
          /\ rows = {Row(age[p], p, content[p]) : p \in held} /\ ids = Cardinality(held)
    /\ pathsOf = Dirs /\ scanned = {} /\ thread = "none" /\ killed = FALSE /\ purge = FALSE
    /\ before = {} /\ todo = {}
    /\ old = {} /\ disturbed = {} /\ whole = TRUE /\ changes = 0 /\ jobs = 0

-----------------------------------------------------------------------------
(* The dialog.                                                             *)
Starts(place) ==
    /\ thread = "none" /\ thread' = place /\ killed' = FALSE
    /\ jobs < MaxJobs /\ jobs' = jobs + 1

ScanNew ==
    /\ Starts("scan") /\ pathsOf # {}
    /\ scanned' = {} /\ whole' = TRUE /\ todo' = pathsOf /\ disturbed' = {} /\ old' = {}
    /\ UNCHANGED <<file, table, pathsOf, purge, before, changes>>
UpdateLibrary ==
    /\ Starts("update") /\ purge' \in BOOLEAN
    /\ UNCHANGED <<file, table, pathsOf, scanned, before, todo, old, disturbed, whole, changes>>

(* Paths are added or removed.                                             *)
PathsSave ==
    /\ thread = "none"
    /\ pathsOf' \in SUBSET Dirs \ {pathsOf} /\ scanned' = {} /\ whole' = TRUE
    /\ changes < MaxChanges /\ changes' = changes + 1
    /\ UNCHANGED <<file, table, thread, killed, purge, before, todo, old, disturbed, jobs>>

(* Escape; then the dialog waits for the thread.                           *)
Cancel ==
    /\ thread \notin {"none", "ended"} /\ killed' = TRUE
    /\ UNCHANGED <<file, table, pathsOf, scanned, thread, purge, before, todo, ghosts>>
OnThreadEnd ==
    /\ thread = "ended" /\ thread' = "none"
    /\ UNCHANGED <<file, table, pathsOf, scanned, killed, purge, before, todo, ghosts>>

-----------------------------------------------------------------------------
(* GetMusicDirs.  A thread that is asked to end while it reads a directory *)
(* clears the list; before a directory, it leaves the list as it is.       *)
Scanning     == thread \in {"scan", "scanFirst"}
FilesIn(dir) == {p \in Paths : DirOf[p] = dir /\ Exists(p)}

GetMusicDir(dir) ==
    /\ Scanning /\ ~killed /\ dir \in todo
    /\ \/ scanned' = scanned \union FilesIn(dir) /\ UNCHANGED killed
       \/ FilesIn(dir) # {} /\ scanned' = {} /\ killed' = TRUE
    /\ todo' = todo \ {dir}
    /\ UNCHANGED <<file, table, pathsOf, thread, purge, before, ghosts>>
ScanEnds ==
    /\ Scanning /\ (todo = {} \/ killed)
    /\ IF thread = "scan" THEN thread' = "ended" /\ todo' = {}
                          ELSE thread' = "add" /\ todo' = scanned
    /\ whole' = (todo = {} \/ scanned = {})
    /\ UNCHANGED <<file, table, pathsOf, scanned, killed, purge, before, old, disturbed, changes, jobs>>

-----------------------------------------------------------------------------
(* MusikUpdateLibThread::Entry.                                            *)
SongsBeforeUpdate ==
    /\ thread = "update"
    /\ before' = {r.path : r \in rows} /\ old' = rows
    /\ IF scanned = {} THEN thread' = "scanFirst" /\ todo' = pathsOf /\ disturbed' = {}
                       ELSE thread' = "add" /\ todo' = scanned /\ UNCHANGED disturbed
    /\ UNCHANGED <<file, table, pathsOf, scanned, killed, purge, whole, changes, jobs>>

(* Mutant: only the name of the file is compared.                          *)
FileInLibraryByName(path) == \E r \in rows : NameOf[r.path] = NameOf[path]
FileInLibrary(path)       == RowsAt(path) # {}

AddSongDataForgetsId(path) ==        \* mutant: ids are given twice
    /\ thread = "add" /\ ~killed /\ path \in todo
    /\ IF FileInLibrary(path) \/ ~Exists(path) THEN UNCHANGED table
       ELSE rows' = rows \union {Row(ids + 1, path, file[path])} /\ UNCHANGED ids
    /\ todo' = todo \ {path}
    /\ UNCHANGED <<file, dialog, before, ghosts>>

AddSongDataFromFile(path) ==
    /\ thread = "add" /\ ~killed /\ path \in todo
    /\ IF FileInLibrary(path) \/ ~Exists(path) THEN UNCHANGED table
       ELSE rows' = rows \union {Row(ids + 1, path, file[path])} /\ ids' = ids + 1
    /\ todo' = todo \ {path}
    /\ UNCHANGED <<file, dialog, before, ghosts>>
AddEnds ==
    /\ thread = "add" /\ (todo = {} \/ killed)
    /\ thread' = (IF purge /\ ~killed THEN "purge" ELSE "ended") /\ todo' = {}
    /\ UNCHANGED <<file, table, pathsOf, scanned, killed, purge, before, ghosts>>

(* FindOrPurgeMissing: a newer row of the same length whose file has the   *)
(* same name, or else one with the same title, artist and album, is what   *)
(* has become of the missing file.  The query may find any of several.     *)
FitsOlder(row, missing) ==          \* mutant: the older row is taken
    LengthOf[row.content] = LengthOf[missing.content] /\ row.id < missing.id
Fits(row, missing) ==
    LengthOf[row.content] = LengthOf[missing.content] /\ row.id > missing.id

SameName(missing) == {r \in rows \ {missing} : NameOf[r.path] = NameOf[missing.path]}
SameTags(missing) == {r \in rows \ {missing} : r.content = missing.content}
Found(some, missing) ==             \* what a query and the test make of it
    IF some = {} THEN {{}} ELSE {{r} \intersect {x \in some : Fits(x, missing)} : r \in some}
Candidates(missing) ==
    UNION {IF byName # {} THEN {byName} ELSE Found(SameTags(missing), missing) :
              byName \in Found(SameName(missing), missing)}

(* Mutants: the candidate keeps its row; the missing row its file.         *)
MergedTwice(missing, c)  == (rows \ {missing}) \union {Row(missing.id, c.path, c.content)}
MergedInPlace(missing, c) == rows \ {c}
Merged(missing, c) == (rows \ {missing, c}) \union {Row(missing.id, c.path, c.content)}

FindOrPurgeMissing(path) ==
    /\ thread = "purge" /\ ~killed /\ path \in before
    /\ IF Exists(path) \/ RowsAt(path) = {} THEN UNCHANGED rows
       ELSE \E missing \in RowsAt(path) : \E found \in Candidates(missing) :
               rows' = IF found = {} THEN rows \ {missing}
                       ELSE Merged(missing, CHOOSE c \in found : TRUE)
    /\ before' = before \ {path}
    /\ UNCHANGED <<file, ids, dialog, todo, ghosts>>

(* Mutant: the last of the songs is not looked at.                         *)
PurgeEndsEarly ==
    /\ thread = "purge" /\ (Cardinality(before) <= 1 \/ killed)
    /\ thread' = "ended" /\ before' = {}
    /\ UNCHANGED <<file, table, pathsOf, scanned, killed, purge, todo, ghosts>>

PurgeEnds ==
    /\ thread = "purge" /\ (before = {} \/ killed)
    /\ thread' = "ended" /\ before' = {}
    /\ UNCHANGED <<file, table, pathsOf, scanned, killed, purge, todo, ghosts>>

-----------------------------------------------------------------------------
(* Another program writes, deletes or moves a file.  Without a thread that *)
(* is a change of Init, or one just before the thread was waited for.      *)
ForeignChange ==
    /\ thread # "none" /\ changes < MaxChanges /\ changes' = changes + 1
    /\ \E p \in Paths :
          \/ \E content \in (Contents \union {NoFile}) \ {file[p]} :
                file' = [file EXCEPT ![p] = content] /\ disturbed' = disturbed \union {p}
          \/ \E q \in Paths :
                /\ Exists(p) /\ ~Exists(q)
                /\ file' = [file EXCEPT ![p] = NoFile, ![q] = file[p]]
                /\ disturbed' = disturbed \union {p, q}
    /\ UNCHANGED <<table, dialog, before, todo, old, whole, jobs>>

UpdateStep ==
    \/ SongsBeforeUpdate \/ AddEnds \/ PurgeEnds
    \/ \E p \in Paths : AddSongDataFromFile(p) \/ FindOrPurgeMissing(p)
Next ==
    \/ ScanNew \/ UpdateLibrary \/ PathsSave \/ Cancel \/ OnThreadEnd
    \/ ScanEnds \/ \E d \in Dirs : GetMusicDir(d)
    \/ UpdateStep \/ ForeignChange

Spec == Init /\ [][Next]_vars
=============================================================================
