------------------------------ MODULE TagThreads ------------------------------
(***************************************************************************)
(* The threads that change tags: MusikWriteDirtyThread writes the tags of  *)
(* the dirty songs to their files, the editors (the tag dialog, an         *)
(* activity box, auto tagging) change the database and perhaps the files,  *)
(* and the library update takes the tags of files that are newer than      *)
(* their rows.  Each works on a slave library, most in transactions.  Some *)
(* enter themselves as the main frame's active thread, which Escape        *)
(* aborts.                                                                 *)
(*                                                                         *)
(* All fields of a tag are one value.  A song read through the master is   *)
(* the row as committed; the cache in between is the subject of            *)
(* MusikLibrary.                                                           *)
(***************************************************************************)
EXTENDS Naturals, FiniteSets

CONSTANTS
    Songs, Tags,
    DirtyWriters,               \* MusikWriteDirtyThread
    Editors,                    \* MusikActivityRenameThread, MusikPlaylistRetagThread,
                                \* MusikTagApplyThread
    Rebuilds,                   \* MusikUpdateLibThread, as it rebuilds tags
    None,
    Unsupported,                \* songs of a format without a writer of tags
    MaxOthers                   \* bound: changes by other programs, and ClearDirtyTags

Threads == DirtyWriters \union Editors \union Rebuilds

ASSUME TagAssumption ==
    /\ None \notin Threads \union Songs \union Tags
    /\ DirtyWriters \intersect (Editors \union Rebuilds) = {} /\ Editors \intersect Rebuilds = {}
    /\ Unsupported \subseteq Songs /\ MaxOthers \in Nat

VARIABLES
    file,           \* the tag in the file of a song
    disk, work,     \* the rows as committed, and as `writer' makes them
    writer,         \* the thread in a transaction
    job,            \* what a thread is at
    active, ends    \* m_ActiveThread; MUSIK_FRAME_THREAD_END events, by thread
VARIABLES           \* not in the code
    latest,         \* the tag a song was given last, here or elsewhere
    foreign,        \* songs whose file another program wrote after the row
    raced,          \* songs two have worked on at once
    finalized,      \* songs the user has declared clean
    others          \* steps MaxOthers bounds
dbVars    == <<disk, work, writer>>
frameVars == <<active, ends>>
ghosts    == <<latest, foreign, raced, finalized, others>>
vars      == <<file, dbVars, job, frameVars, ghosts>>

(* newer: is the file younger than the row's `modified'?                   *)
Rows == [tag : Tags, dirty : BOOLEAN, newer : BOOLEAN]

(* option: an editor writes to files; a rebuild is forced.  announced: the *)
(* thread calls SetActiveThread.                                           *)
NoJob == [at |-> "none", todo |-> {}, song |-> None, tag |-> None, option |-> FALSE,
          announced |-> FALSE, killed |-> FALSE]
At(t, places)    == job[t].at \in places
Holds(t, s)      == job[t].song = s
Goes(t, place)   == job' = [job EXCEPT ![t].at = place]
Leaves(t, place) == job' = [job EXCEPT ![t].at = place, ![t].song = None]

Init ==
    /\ \E tag \in Tags :
          /\ file = [s \in Songs |-> tag]
          /\ disk = [s \in Songs |-> [tag |-> tag, dirty |-> FALSE, newer |-> FALSE]]
    /\ work = disk /\ writer = None
    /\ job = [t \in Threads |-> NoJob] /\ active = None /\ ends = {}
    /\ latest = file /\ foreign = {} /\ raced = {} /\ finalized = {} /\ others = 0

-----------------------------------------------------------------------------
(* The main frame and the life of a thread.                                *)
Starts(t, songs, tag, option, announced) ==
    /\ At(t, {"none"})
    /\ job' = [job EXCEPT ![t] = [NoJob EXCEPT !.at = IF announced THEN "born" ELSE "begin",
                   !.todo = songs, !.tag = tag, !.option = option, !.announced = announced]]
    /\ UNCHANGED <<file, dbVars, frameVars, ghosts>>

WriteTags(t)     == active = None /\ Starts(t, {}, None, FALSE, TRUE)
EditCommit(t)    == active = None /\ \E tag \in Tags, write \in BOOLEAN : Starts(t, Songs, tag, write, TRUE)
RetagSelFiles(t) == \E tag \in Tags : Starts(t, Songs, tag, FALSE, TRUE)
Apply(t)         == \E tag \in Tags, write \in BOOLEAN : Starts(t, Songs, tag, write, FALSE)
UpdateLibrary(t) == \E force \in BOOLEAN : Starts(t, Songs, None, force, FALSE)

Entry(t) ==
    /\ At(t, {"born"})
    /\ active' = t
    /\ Goes(t, IF t \in DirtyWriters THEN "query" ELSE "begin")
    /\ UNCHANGED <<file, dbVars, ends, ghosts>>

(* While m_ActiveThread is a thread that is gone, what Delete() does is    *)
(* undefined; here, nothing.                                               *)
Escape ==
    /\ active # None /\ ~At(active, {"gone"})
    /\ job' = [job EXCEPT ![active].killed = TRUE]
    /\ UNCHANGED <<file, dbVars, frameVars, ghosts>>

(* MusikWriteDirtyThread posts to the frame and is deleted of itself; the  *)
(* others that are announced post to the control that owns them, which     *)
(* joins them, deletes them and then posts to the frame.                   *)
OnExit(t) ==
    /\ At(t, {"exit"}) /\ Goes(t, "ended")
    /\ ends' = IF t \in DirtyWriters THEN ends \union {t} ELSE ends
    /\ UNCHANGED <<file, dbVars, active, ghosts>>
IsDeleted(t) ==
    /\ t \in DirtyWriters /\ At(t, {"ended"}) /\ Goes(t, "gone")
    /\ UNCHANGED <<file, dbVars, frameVars, ghosts>>

(* Mutant: the end is not relayed to the frame.                            *)
OnThreadEndSilent(t) ==
    /\ t \notin DirtyWriters /\ At(t, {"ended"}) /\ Goes(t, "gone")
    /\ UNCHANGED <<file, dbVars, frameVars, ghosts>>

OnThreadEnd(t) ==
    /\ t \notin DirtyWriters /\ At(t, {"ended"}) /\ Goes(t, "gone")
    /\ ends' = ends \union {t}
    /\ UNCHANGED <<file, dbVars, active, ghosts>>

(* Whichever thread has ended, none is active now.                         *)
OnEndProgress ==
    /\ \E t \in ends : ends' = ends \ {t}
    /\ active' = None
    /\ UNCHANGED <<file, dbVars, job, ghosts>>

-----------------------------------------------------------------------------
(* Transactions.                                                           *)
(* BeginTransaction has waited for 20 seconds if it finds another writer;  *)
(* the statements that follow are then transactions of their own.          *)
BeginTransaction(t) ==
    /\ At(t, {"begin"}) /\ Goes(t, IF t \in DirtyWriters THEN "reset" ELSE "fresh")
    /\ IF writer = None
       THEN writer' = t /\ UNCHANGED raced
       ELSE UNCHANGED writer /\ raced' = raced \union {s \in Songs : Holds(t, s)}
    /\ UNCHANGED <<file, disk, work, frameVars, latest, foreign, finalized, others>>
EndTransaction(t) ==
    /\ At(t, {"end", "renew"})
    /\ IF writer = t THEN disk' = work /\ writer' = None ELSE UNCHANGED <<disk, writer>>
    /\ Leaves(t, IF At(t, {"renew"}) THEN "begin" ELSE IF t \in DirtyWriters THEN "next"
                 ELSE IF job[t].announced THEN "exit" ELSE "gone")
    /\ UNCHANGED <<file, work, frameVars, ghosts>>

(* A statement on the row of a song: in the transaction, or for itself, or *)
(* without success.                                                        *)
Changes(t, s, row) ==
    \/ writer = t    /\ work' = [work EXCEPT ![s] = row] /\ UNCHANGED <<disk, writer>>
    \/ writer = None /\ work' = [work EXCEPT ![s] = row] /\ disk' = work' /\ UNCHANGED writer
Refused(t) == writer \notin {t, None}

Finished(t) == job[t].todo = {} \/ job[t].killed
NextSong(t, place, tag) ==
    \E s \in job[t].todo :
        job' = [job EXCEPT ![t].at = place, ![t].song = s, ![t].tag = tag[s],
                           ![t].todo = @ \ {s}]

(* Writing a tag makes the file newer, for a rebuild that comes by.        *)
Newer(rows, s) == [rows EXCEPT ![s].newer = TRUE]
WritesFile(s, tag) ==
    IF s \in Unsupported THEN UNCHANGED <<file, disk, work, foreign>>
    ELSE /\ file' = [file EXCEPT ![s] = tag]
         /\ disk' = Newer(disk, s) /\ work' = Newer(work, s) /\ foreign' = foreign \ {s}

-----------------------------------------------------------------------------
(* MusikWriteDirtyThread.                                                  *)
QueryDirty(t) ==
    /\ At(t, {"query"})
    /\ job' = [job EXCEPT ![t].at = "next", ![t].todo = {s \in Songs : disk[s].dirty}]
    /\ UNCHANGED <<file, dbVars, frameVars, ghosts>>
DirtyFinished(t) ==
    /\ t \in DirtyWriters /\ At(t, {"next"}) /\ Finished(t) /\ Goes(t, "exit")
    /\ UNCHANGED <<file, dbVars, frameVars, ghosts>>
SongCopy(t) ==
    /\ t \in DirtyWriters /\ At(t, {"next"}) /\ ~Finished(t)
    /\ NextSong(t, "write", [s \in Songs |-> disk[s].tag])
    /\ raced' = raced \union {s \in Songs : job'[t].song = s /\ work[s].tag # disk[s].tag}
    /\ UNCHANGED <<file, dbVars, frameVars, latest, foreign, finalized, others>>
WriteTag(t) ==
    /\ t \in DirtyWriters /\ At(t, {"write"})
    /\ WritesFile(job[t].song, job[t].tag)
    /\ Goes(t, "begin")
    /\ UNCHANGED <<writer, frameVars, latest, raced, finalized, others>>

(* Mutant: the flag is cleared although the file could not be written.     *)
WriteTagFailsUnseen(t) ==
    /\ t \in DirtyWriters /\ At(t, {"write"}) /\ Goes(t, "begin")
    /\ UNCHANGED <<file, dbVars, frameVars, ghosts>>

WriteTagFails(t) ==
    /\ t \in DirtyWriters /\ At(t, {"write"}) /\ Leaves(t, "next")
    /\ UNCHANGED <<file, dbVars, frameVars, ghosts>>
UpdateItemResetDirty(t) ==
    /\ At(t, {"reset"})
    /\ LET s == job[t].song
       IN  \/ Changes(t, s, [work[s] EXCEPT !.dirty = FALSE])
           \/ Refused(t) /\ UNCHANGED dbVars
    /\ Goes(t, "end")
    /\ UNCHANGED <<file, frameVars, ghosts>>

-----------------------------------------------------------------------------
(* The editors and the rebuild.                                            *)
InLoop(t) == t \notin DirtyWriters /\ At(t, {"fresh", "next"})

(* Some transactions are as long as the job, some end every few songs.     *)
LastSong(t) ==
    /\ InLoop(t)
    /\ \/ Finished(t) /\ Goes(t, "end")
       \/ ~Finished(t) /\ At(t, {"next"}) /\ Goes(t, "renew")
    /\ UNCHANGED <<file, dbVars, frameVars, ghosts>>

Edit(t) ==
    /\ t \in Editors /\ InLoop(t) /\ ~Finished(t)
    /\ NextSong(t, IF job[t].option THEN "write" ELSE "update", [s \in Songs |-> job[t].tag])
    /\ UNCHANGED <<file, dbVars, frameVars, ghosts>>
EditWritten(t) ==
    /\ t \in Editors /\ At(t, {"write"})
    /\ \/ WritesFile(job[t].song, job[t].tag) /\ Goes(t, "update")
       \/ UNCHANGED <<file, disk, work, foreign>> /\ Leaves(t, "next")
    /\ UNCHANGED <<writer, frameVars, latest, raced, finalized, others>>

(* Two have worked on the song at once, or one without a transaction.      *)
Races(t, s) == raced' = IF writer # t \/ \E u \in Threads \ {t} : Holds(u, s)
                        THEN raced \union {s} ELSE raced
Replaces(t, tag, dirty) ==
    LET s == job[t].song
    IN  /\ \/ /\ Changes(t, s, [tag |-> tag, dirty |-> dirty, newer |-> FALSE])
              /\ latest' = [latest EXCEPT ![s] = IF t \in Editors \/ job[t].option \/ s \in foreign
                                                 THEN tag ELSE @]
              /\ foreign' = foreign \ {s} /\ finalized' = finalized \ {s}
           \/ Refused(t) /\ UNCHANGED <<dbVars, latest, foreign, finalized>>
        /\ Races(t, s)
        /\ Leaves(t, "next")

(* Mutant: `modified' is left alone.                                       *)
UpdateItemUndated(t) ==
    /\ t \in Editors /\ At(t, {"update"})
    /\ LET s == job[t].song
       IN  /\ \/ /\ Changes(t, s, [work[s] EXCEPT !.tag = job[t].tag, !.dirty = ~job[t].option])
                 /\ latest' = [latest EXCEPT ![s] = job[t].tag]
                 /\ foreign' = foreign \ {s} /\ finalized' = finalized \ {s}
              \/ Refused(t) /\ UNCHANGED <<dbVars, latest, foreign, finalized>>
           /\ Races(t, s)
    /\ Leaves(t, "next")
    /\ UNCHANGED <<file, frameVars, others>>

UpdateItem(t) ==
    /\ t \in Editors /\ At(t, {"update"})
    /\ Replaces(t, job[t].tag, ~job[t].option)
    /\ UNCHANGED <<file, frameVars, others>>

(* UpdateSongDataFromFile: is the file newer, what is in it, into the row. *)
FileIsNewer(t) ==
    /\ t \in Rebuilds /\ InLoop(t) /\ ~Finished(t)
    /\ NextSong(t, "read", [s \in Songs |-> None])
    /\ LET s == job'[t].song IN job[t].option \/ (IF writer = t THEN work ELSE disk)[s].newer
    /\ UNCHANGED <<file, dbVars, frameVars, ghosts>>
FileIsOld(t) ==
    /\ t \in Rebuilds /\ InLoop(t) /\ ~job[t].killed /\ ~job[t].option
    /\ \E s \in job[t].todo :
          /\ ~(IF writer = t THEN work ELSE disk)[s].newer
          /\ job' = [job EXCEPT ![t].at = "next", ![t].todo = @ \ {s}]
    /\ UNCHANGED <<file, dbVars, frameVars, ghosts>>

(* Mutant: the row is written although the file could not be parsed.       *)
GetMetaDataAnyway(t) ==
    /\ At(t, {"read"})
    /\ \/ job' = [job EXCEPT ![t].at = "update", ![t].tag = file[job[t].song]]
       \/ Goes(t, "update")
    /\ UNCHANGED <<file, dbVars, frameVars, ghosts>>

GetMetaData(t) ==
    /\ At(t, {"read"})
    /\ \/ job' = [job EXCEPT ![t].at = "update", ![t].tag = file[job[t].song]]
       \/ Leaves(t, "next")
    /\ UNCHANGED <<file, dbVars, frameVars, ghosts>>
UpdateFullSongData(t) ==
    /\ t \in Rebuilds /\ At(t, {"update"})
    /\ Replaces(t, job[t].tag, FALSE)
    /\ UNCHANGED <<file, frameVars, others>>

-----------------------------------------------------------------------------
(* Another program writes the tag of a file; st_mtime has whole seconds, so *)
(* that the row may seem newer.                                            *)
ForeignTag ==
    /\ others < MaxOthers /\ others' = others + 1
    /\ \E s \in Songs, tag \in Tags, newer \in BOOLEAN :
          /\ file' = [file EXCEPT ![s] = tag]
          /\ disk' = [disk EXCEPT ![s].newer = newer \/ @]
          /\ work' = [work EXCEPT ![s].newer = newer \/ @]
          /\ foreign' = foreign \union {s}
          /\ raced' = IF ~newer \/ \E t \in Threads : Holds(t, s) THEN raced \union {s} ELSE raced
    /\ UNCHANGED <<writer, job, frameVars, latest, finalized>>
ClearDirtyTags ==
    /\ others < MaxOthers /\ others' = others + 1 /\ writer = None
    /\ disk' = [s \in Songs |-> [disk[s] EXCEPT !.dirty = FALSE]] /\ work' = disk'
    /\ finalized' = finalized \union {s \in Songs : disk[s].dirty}
    /\ UNCHANGED <<file, writer, job, frameVars, latest, foreign, raced>>

DirtyStep(t) ==
    \/ QueryDirty(t) \/ DirtyFinished(t) \/ SongCopy(t) \/ WriteTag(t) \/ WriteTagFails(t)
    \/ UpdateItemResetDirty(t) \/ IsDeleted(t)
LoopStep(t) ==
    \/ LastSong(t) \/ Edit(t) \/ EditWritten(t) \/ UpdateItem(t)
    \/ FileIsNewer(t) \/ FileIsOld(t) \/ GetMetaData(t) \/ UpdateFullSongData(t) \/ OnThreadEnd(t)
Step(t) ==
    Entry(t) \/ BeginTransaction(t) \/ EndTransaction(t) \/ OnExit(t) \/ DirtyStep(t) \/ LoopStep(t)

Next ==
    \/ \E t \in DirtyWriters : WriteTags(t)
    \/ \E t \in Editors : EditCommit(t) \/ RetagSelFiles(t) \/ Apply(t)
    \/ \E t \in Rebuilds : UpdateLibrary(t)
    \/ \E t \in Threads : Step(t)
    \/ OnEndProgress \/ Escape \/ ForeignTag \/ ClearDirtyTags

Spec == Init /\ [][Next]_vars
=============================================================================
