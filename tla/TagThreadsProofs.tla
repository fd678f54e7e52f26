--------------------------- MODULE TagThreadsProofs ---------------------------
(***************************************************************************)
(* Theorems about TagThreads, for every number of songs, tags and threads  *)
(* of each kind.                                                           *)
(***************************************************************************)
EXTENDS TagThreadsMC, TLAPS

(* A thread that works on a song has one; an editor always has its tag.    *)
PlacedAt(t) ==
    /\ At(t, {"write", "update"}) => job[t].song \in Songs /\ job[t].tag \in Tags
    /\ At(t, {"read", "reset"}) => job[t].song \in Songs
    /\ At(t, {"reset"}) => t \in DirtyWriters
    /\ t \in DirtyWriters => ~At(t, {"fresh", "read", "update", "renew"})
    /\ t \in DirtyWriters /\ At(t, {"begin"}) => job[t].song \in Songs
    /\ t \in Editors /\ ~At(t, {"none"}) => job[t].tag \in Tags
Placed == \A t \in Threads : PlacedAt(t)

(* A thread that has become active has started and told so; when it has    *)
(* ended the frame has still to hear of it.                                *)
Heard ==
    /\ \A t \in Threads : At(t, {"born"}) => job[t].announced
    /\ active # None => job[active].announced /\ ~At(active, {"none", "born"})
    /\ active \in DirtyWriters /\ At(active, {"ended"}) => active \in ends
    /\ DanglingIsBrief

(* What the row lacks of its file's tag will be put right.                 *)
Synced == writer = None => work = disk
RowsFit ==
    \A s \in Songs \ (Unsupported \union raced \union finalized) :
        work[s].tag = file[s] \/ work[s].dirty \/ work[s].newer

(* A dirty song that was written has a newer file, for as long as its flag *)
(* is not reset; and it is reset in a transaction of its own.              *)
Resets(t, s) == t \in DirtyWriters /\ Holds(t, s) /\ At(t, {"begin", "reset", "end"})
NewerThanRow ==
    \A t \in Threads, s \in Songs \ (Unsupported \union raced) : Resets(t, s) => work[s].newer
ResetAlone ==
    \A t \in Threads, s \in Songs \ raced :
        Resets(t, s) /\ ~At(t, {"begin"}) => writer = t

(* The tag that is going into a row as that of the file is the file's,     *)
(* unless another thread that holds the song has written it since.         *)
Takes(t, s) == t \notin DirtyWriters /\ Holds(t, s) /\ At(t, {"update"})
TagIsOfFile ==
    \A t \in Threads, s \in Songs \ (Unsupported \union raced) :
        Takes(t, s) /\ (t \in Rebuilds \/ job[t].option) /\ writer = t =>
            \/ file[s] = job[t].tag
            \/ \E u \in Threads \ {t} : Resets(u, s) \/ Takes(u, s)

RowsInv == Synced /\ RowsFit /\ NewerThanRow /\ ResetAlone /\ TagIsOfFile
IInv    == TypeOK /\ Placed /\ Heard /\ RowsInv

-----------------------------------------------------------------------------
(* What the assumptions say of threads.                                    *)
LEMMA Apart ==
    /\ None \notin Threads /\ None \notin Songs /\ None \notin Tags
    /\ \A t \in DirtyWriters : t \in Threads /\ t \notin Editors /\ t \notin Rebuilds
    /\ \A t \in Editors : t \in Threads /\ t \notin Rebuilds
    /\ \A t \in Rebuilds : t \in Threads
    /\ \A t \in Threads : t \in DirtyWriters \/ t \in Editors \/ t \in Rebuilds
  BY TagAssumption DEF Threads

(* A thread's move changes no other's job.                                 *)
OnlyJobOf(t) == \A u \in Threads \ {t} : job'[u] = job[u]
SameSong(t) ==
    job'[t].song = job[t].song /\ job'[t].tag = job[t].tag /\ job'[t].option = job[t].option

(* A thread that goes on keeps its job.                                    *)
LEMMA GoesMoves ==
    ASSUME TypeOK, NEW t \in Threads, NEW place \in Places, Goes(t, place)
    PROVE  /\ job' \in [Threads -> Jobs] /\ OnlyJobOf(t) /\ SameSong(t)
           /\ job'[t].at = place /\ job'[t].announced = job[t].announced
  BY DEF TypeOK, Goes, Jobs, OnlyJobOf, SameSong

(* A thread that leaves a song has none.                                   *)
LEMMA LeavesMoves ==
    ASSUME TypeOK, NEW t \in Threads, NEW place \in Places, Leaves(t, place)
    PROVE  /\ job' \in [Threads -> Jobs] /\ OnlyJobOf(t)
           /\ job'[t].at = place /\ job'[t].announced = job[t].announced
           /\ job'[t].song = None /\ job'[t].tag = job[t].tag /\ job'[t].option = job[t].option
  BY DEF TypeOK, Leaves, Jobs, OnlyJobOf

(* The next song is one the thread had still to do.                        *)
LEMMA NextSongMoves ==
    ASSUME TypeOK, NEW t \in Threads, NEW place \in Places,
           NEW tag \in [Songs -> Tags \union {None}], NextSong(t, place, tag)
    PROVE  /\ job' \in [Threads -> Jobs] /\ OnlyJobOf(t)
           /\ job'[t].at = place /\ job'[t].announced = job[t].announced
           /\ job'[t].song \in Songs /\ job'[t].tag = tag[job'[t].song]
           /\ job'[t].option = job[t].option
<1>1. PICK s \in job[t].todo :
          job' = [job EXCEPT ![t].at = place, ![t].song = s, ![t].tag = tag[s],
                             ![t].todo = @ \ {s}]
  BY DEF NextSong
<1>2. s \in Songs /\ tag[s] \in Tags \union {None} /\ job[t] \in Jobs
  BY DEF TypeOK, Jobs
<1> QED BY <1>1, <1>2 DEF TypeOK, Jobs, OnlyJobOf

(* What is written of a song.                                              *)
LEMMA WritesFileWrites ==
    ASSUME TypeOK, NEW s \in Songs, NEW tag \in Tags, WritesFile(s, tag)
    PROVE  /\ file' \in [Songs -> Tags] /\ disk' \in [Songs -> Rows] /\ work' \in [Songs -> Rows]
           /\ foreign' \in SUBSET Songs
           /\ \A x \in Songs \ {s} :
                 disk'[x] = disk[x] /\ work'[x] = work[x] /\ file'[x] = file[x]
           /\ s \notin Unsupported => disk'[s].newer /\ work'[s].newer /\ file'[s] = tag
           /\ work = disk => work' = disk'
<1>1. CASE s \in Unsupported
  BY <1>1 DEF TypeOK, WritesFile
<1>2. CASE s \notin Unsupported
  <2>1. file' = [file EXCEPT ![s] = tag] /\ foreign' = foreign \ {s}
        /\ disk' = [disk EXCEPT ![s].newer = TRUE] /\ work' = [work EXCEPT ![s].newer = TRUE]
    BY <1>2 DEF WritesFile, Newer
  <2>2. file \in [Songs -> Tags] /\ disk \in [Songs -> Rows] /\ work \in [Songs -> Rows]
        /\ foreign \in SUBSET Songs
    BY DEF TypeOK
  <2>3. disk' \in [Songs -> Rows] /\ work' \in [Songs -> Rows]
    BY <2>1, <2>2 DEF Rows
  <2>4. disk'[s].newer /\ work'[s].newer /\ file'[s] = tag
    BY <2>1, <2>2 DEF Rows
  <2> QED BY <2>1, <2>2, <2>3, <2>4
<1> QED BY <1>1, <1>2

(* A statement on a row.                                                   *)
LEMMA ChangesRow ==
    ASSUME TypeOK, Synced, NEW t \in Threads, NEW s \in Songs, NEW row \in Rows, Changes(t, s, row)
    PROVE  /\ disk' \in [Songs -> Rows] /\ work' \in [Songs -> Rows] /\ writer' = writer
           /\ \A x \in Songs \ {s} : disk'[x] = disk[x] /\ work'[x] = work[x]
           /\ work'[s] = row /\ Synced'
           /\ \/ writer = t /\ disk' = disk
              \/ writer = None /\ disk' = work'
<1>1. CASE writer = t
  BY <1>1, Apart DEF TypeOK, Changes, Synced
<1>2. CASE writer = None
  BY <1>2, Apart DEF TypeOK, Changes, Synced
<1> QED BY <1>1, <1>2 DEF Changes

-----------------------------------------------------------------------------
(* What a thread's move leaves of the others.                              *)
LEMMA OthersStay ==
    ASSUME NEW t, OnlyJobOf(t), NEW u \in Threads \ {t}
    PROVE  /\ \A s : (Resets(u, s)' <=> Resets(u, s)) /\ (Takes(u, s)' <=> Takes(u, s))
           /\ \A places : At(u, places)' <=> At(u, places)
           /\ PlacedAt(u) => PlacedAt(u)'
           /\ job'[u] = job[u]
  BY DEF OnlyJobOf, Resets, Takes, PlacedAt, At, Holds

(* What of a thread's own move the frame has to hear.                      *)
HeardOf(t) ==
    /\ At(t, {"born"}) => job[t].announced
    /\ active = t => /\ job[t].announced /\ ~At(t, {"none", "born"})
                     /\ At(t, {"gone"}) \/ (t \in DirtyWriters /\ At(t, {"ended"})) => t \in ends
LEMMA HeardStays ==
    ASSUME TypeOK, Heard, NEW t \in Threads, OnlyJobOf(t), HeardOf(t)', ends \subseteq ends',
           active' \in {active, t}
    PROVE  Heard'
<1>1. \A u \in Threads : At(u, {"born"})' => job'[u].announced
  <2>1. At(t, {"born"})' => job'[t].announced
    BY DEF HeardOf
  <2>2. ASSUME NEW u \in Threads \ {t} PROVE At(u, {"born"})' => job'[u].announced
    BY OthersStay DEF Heard, OnlyJobOf, At
  <2> QED BY <2>1, <2>2 DEF At
<1>2. CASE active' = t
  BY <1>1, <1>2 DEF Heard, HeardOf, DanglingIsBrief
<1>3. CASE active' = active /\ active # t
  <2>1. active = None \/ active \in Threads \ {t}
    BY <1>3 DEF TypeOK
  <2> QED BY <1>1, <1>3, <2>1, OthersStay, Apart DEF Heard, DanglingIsBrief
<1> QED BY <1>2, <1>3

(* A thread that neither resets nor replaces a row leaves the rows' part.  *)
Rests(t) == \A s \in Songs : ~Resets(t, s) /\ ~Takes(t, s)
TagFits(t) ==
    \A s \in Songs : Takes(t, s) /\ (t \in Rebuilds \/ job[t].option) => file[s] = job[t].tag
LEMMA RestKeepsRows ==
    ASSUME RowsInv, NEW t \in Threads, OnlyJobOf(t), Rests(t),
           \A s \in Songs : ~Resets(t, s)', TagFits(t)',
           UNCHANGED <<file, dbVars, finalized>>, raced \subseteq raced'
    PROVE  RowsInv'
<1> USE DEF dbVars
<1>1. Synced' /\ RowsFit'
  BY DEF RowsInv, Synced, RowsFit
<1>2. NewerThanRow'
  BY OthersStay DEF RowsInv, NewerThanRow
<1>3. ResetAlone'
  BY OthersStay DEF RowsInv, ResetAlone
<1>4. TagIsOfFile'
  <2> SUFFICES ASSUME NEW u \in Threads, NEW s \in Songs \ (Unsupported \union raced'),
                      Takes(u, s)', u \in Rebuilds \/ job'[u].option, writer' = u,
                      file'[s] # job'[u].tag
               PROVE  \E w \in Threads \ {u} : Resets(w, s)' \/ Takes(w, s)'
    BY DEF TagIsOfFile
  <2>1. u # t
    BY DEF TagFits
  <2>2. Takes(u, s) /\ job'[u] = job[u]
    BY <2>1, OthersStay
  <2>3. PICK w \in Threads \ {u} : Resets(w, s) \/ Takes(w, s)
    BY <2>2 DEF RowsInv, TagIsOfFile
  <2>4. w # t
    BY <2>3 DEF Rests
  <2> QED BY <2>3, <2>4, OthersStay
<1> QED BY <1>1, <1>2, <1>3, <1>4 DEF RowsInv

LEMMA RestMove ==
    ASSUME IInv, NEW t \in Threads, job' \in [Threads -> Jobs], OnlyJobOf(t), PlacedAt(t)',
           HeardOf(t)', active' \in {active, t}, ends \subseteq ends', ends' \subseteq Threads,
           Rests(t), \A s \in Songs : ~Resets(t, s)', TagFits(t)',
           UNCHANGED <<file, dbVars, latest, foreign, finalized>>,
           raced \subseteq raced', raced' \in SUBSET Songs
    PROVE  IInv'
<1>1. TypeOK'
  BY DEF IInv, TypeOK, dbVars
<1>2. Placed'
  BY OthersStay DEF IInv, Placed
<1> QED BY <1>1, <1>2, HeardStays, RestKeepsRows DEF IInv

(* The frame's own steps change no job but for `killed'.                   *)
LEMMA FrameSteps ==
    ASSUME IInv, Escape \/ OnEndProgress
    PROVE  IInv'
<1> USE DEF dbVars, ghosts, frameVars
<1>1. job' \in [Threads -> Jobs] /\ \A t \in Threads :
          /\ job'[t].at = job[t].at /\ job'[t].song = job[t].song /\ job'[t].tag = job[t].tag
          /\ job'[t].option = job[t].option /\ job'[t].announced = job[t].announced
  <2>1. CASE Escape
    <3>1. active \in Threads /\ job' = [job EXCEPT ![active].killed = TRUE]
      BY <2>1 DEF IInv, TypeOK, Escape
    <3> QED BY <3>1 DEF IInv, TypeOK, Jobs
  <2>2. CASE OnEndProgress
    BY <2>2 DEF IInv, TypeOK, OnEndProgress
  <2> QED BY <2>1, <2>2
<1>2. \A t \in Threads :
          /\ \A s : (Resets(t, s)' <=> Resets(t, s)) /\ (Takes(t, s)' <=> Takes(t, s))
          /\ \A places : At(t, places)' <=> At(t, places)
          /\ PlacedAt(t)' <=> PlacedAt(t)
  BY <1>1 DEF Resets, Takes, PlacedAt, At, Holds
<1>3. UNCHANGED <<file, dbVars, ghosts>> /\ ends' \subseteq ends
      /\ ((active' = active /\ ends' = ends) \/ active' = None)
  BY DEF Escape, OnEndProgress
<1>4. TypeOK'
  BY <1>1, <1>3 DEF IInv, TypeOK
<1>5. Placed'
  BY <1>2 DEF IInv, Placed
<1>6. Heard'
  <2>1. \A t \in Threads : At(t, {"born"})' => job'[t].announced
    BY <1>1, <1>2 DEF IInv, Heard
  <2>2. CASE active' = None
    BY <2>1, <2>2, Apart DEF Heard, DanglingIsBrief
  <2>3. CASE active' = active /\ ends' = ends /\ active # None
    <3>1. active \in Threads
      BY <2>3 DEF IInv, TypeOK
    <3> QED BY <2>1, <2>3, <3>1, <1>1, <1>2 DEF IInv, Heard, DanglingIsBrief
  <2> QED BY <1>3, <2>2, <2>3
<1>7. RowsInv'
  BY <1>1, <1>2, <1>3 DEF IInv, RowsInv, Synced, RowsFit, NewerThanRow, ResetAlone, TagIsOfFile
<1> QED BY <1>4, <1>5, <1>6, <1>7 DEF IInv

-----------------------------------------------------------------------------
(* Steps that touch no row.                                                *)
LEMMA StartKeeps ==
    ASSUME IInv, NEW t \in Threads, NEW songs \in SUBSET Songs, NEW tag \in Tags \union {None},
           NEW option \in BOOLEAN, NEW announced \in BOOLEAN,
           Starts(t, songs, tag, option, announced),
           t \in DirtyWriters => announced, t \in Editors => tag \in Tags
    PROVE  IInv'
<1>1. /\ job' \in [Threads -> Jobs] /\ OnlyJobOf(t)
      /\ job[t].at = "none" /\ job'[t].at = (IF announced THEN "born" ELSE "begin")
      /\ job'[t].song = None /\ job'[t].tag = tag /\ job'[t].announced = announced
      /\ UNCHANGED <<file, dbVars, frameVars, ghosts>>
  BY DEF IInv, TypeOK, Starts, NoJob, Jobs, Places, OnlyJobOf, At
<1>2. PlacedAt(t)'
  BY <1>1 DEF PlacedAt, At
<1>3. HeardOf(t)'
  <2>1. active # t
    BY <1>1, Apart DEF IInv, Heard, At
  <2> QED BY <1>1, <2>1 DEF HeardOf, At, frameVars
<1>4. Rests(t) /\ \A s \in Songs : ~Resets(t, s)'
  BY <1>1, Apart DEF Rests, Resets, Takes, Holds, At
<1>5. TagFits(t)'
  BY <1>1 DEF TagFits, Takes, At
<1> QED BY <1>1, <1>2, <1>3, <1>4, <1>5, RestMove DEF IInv, TypeOK, frameVars, ghosts

LEMMA EntryKeeps ==
    ASSUME IInv, NEW t \in Threads, Entry(t)
    PROVE  IInv'
<1> DEFINE place == IF t \in DirtyWriters THEN "query" ELSE "begin"
<1>1. /\ job[t].at = "born" /\ active' = t /\ ends' = ends
      /\ UNCHANGED <<file, dbVars, ends, ghosts>>
      /\ job' \in [Threads -> Jobs] /\ OnlyJobOf(t) /\ SameSong(t)
      /\ job'[t].at = place /\ job'[t].announced = job[t].announced
  BY GoesMoves DEF IInv, Entry, At, Places
<1>2. PlacedAt(t)'
  BY <1>1 DEF IInv, Placed, PlacedAt, At, SameSong
<1>3. HeardOf(t)'
  BY <1>1 DEF IInv, Heard, HeardOf, At
<1>4. Rests(t) /\ \A s \in Songs : ~Resets(t, s)'
  BY <1>1 DEF Rests, Resets, Takes, At
<1>5. TagFits(t)'
  BY <1>1 DEF TagFits, Takes, At
<1> QED BY <1>1, <1>2, <1>3, <1>4, <1>5, RestMove DEF IInv, TypeOK, ghosts

(* The end of a thread, and the way there.                                 *)
LEMMA EndKeeps ==
    ASSUME IInv, NEW t \in Threads,
           OnExit(t) \/ IsDeleted(t) \/ OnThreadEnd(t) \/ DirtyFinished(t)
    PROVE  IInv'
<1>1. PICK place \in {"ended", "gone", "exit"} : Goes(t, place)
  BY DEF OnExit, IsDeleted, OnThreadEnd, DirtyFinished
<1>2. /\ job' \in [Threads -> Jobs] /\ OnlyJobOf(t) /\ SameSong(t)
      /\ job'[t].at = place /\ job'[t].announced = job[t].announced
  BY <1>1, GoesMoves DEF IInv, Places
<1>3. /\ UNCHANGED <<file, dbVars, active, ghosts>>
      /\ ends \subseteq ends' /\ ends' \subseteq Threads /\ job[t].at \in {"exit", "ended", "next"}
  BY DEF OnExit, IsDeleted, OnThreadEnd, DirtyFinished, frameVars, At, IInv, TypeOK
<1>4. PlacedAt(t)'
  BY <1>2, <1>3 DEF IInv, Placed, PlacedAt, At, SameSong
<1>5. HeardOf(t)'
  <2>1. active = t => job[t].announced
    BY Apart DEF IInv, Heard
  <2>2. CASE OnExit(t)
    <3>1. place = "ended" /\ (t \in DirtyWriters => t \in ends')
      BY <1>2, <2>2 DEF OnExit, Goes, IInv, TypeOK, Jobs
    <3> QED BY <1>2, <1>3, <2>1, <3>1 DEF HeardOf, At
  <2>3. CASE IsDeleted(t)
    <3>1. place = "gone" /\ (active = t => t \in ends')
      BY <1>2, <2>3 DEF IsDeleted, Goes, IInv, TypeOK, Jobs, Heard, frameVars
    <3> QED BY <1>2, <1>3, <2>1, <3>1 DEF HeardOf, At
  <2>4. CASE OnThreadEnd(t)
    BY <1>2, <1>3, <2>1, <2>4 DEF HeardOf, At, OnThreadEnd
  <2>5. CASE DirtyFinished(t)
    <3>1. place = "exit"
      BY <1>2, <2>5 DEF DirtyFinished, Goes, IInv, TypeOK, Jobs
    <3> QED BY <1>2, <1>3, <2>1, <3>1 DEF HeardOf, At
  <2> QED BY <2>2, <2>3, <2>4, <2>5
<1>6. Rests(t) /\ \A s \in Songs : ~Resets(t, s)'
  BY <1>2, <1>3 DEF Rests, Resets, Takes, At
<1>7. TagFits(t)'
  BY <1>2 DEF TagFits, Takes, At
<1> QED BY <1>2, <1>3, <1>4, <1>5, <1>6, <1>7, RestMove DEF IInv, TypeOK, ghosts

(* A thread that is still at work has nothing new to tell.                 *)
Working == Places \ {"none", "born", "ended", "gone"}
LEMMA WorkIsUnheard ==
    ASSUME Heard, NEW t \in Threads, job'[t].at \in Working, active' = active,
           job'[t].announced = job[t].announced
    PROVE  HeardOf(t)'
<1>1. active = t => job[t].announced
  BY Apart DEF Heard
<1> QED BY <1>1 DEF HeardOf, At, Working

(* The steps that find the next song, or none.                             *)
LEMMA SearchKeeps ==
    ASSUME IInv, NEW t \in Threads,
           QueryDirty(t) \/ SongCopy(t) \/ LastSong(t) \/ FileIsNewer(t) \/ FileIsOld(t) \/ Edit(t)
    PROVE  IInv'
<1> USE DEF dbVars, ghosts, frameVars
<1>1. /\ UNCHANGED <<file, dbVars, frameVars, latest, foreign, finalized>>
      /\ raced \subseteq raced' /\ raced' \in SUBSET Songs
      /\ job[t].at \in {"query", "next", "fresh"}
      /\ ~At(t, {"write", "update", "read", "reset", "begin", "end"})
  BY DEF QueryDirty, SongCopy, LastSong, FileIsNewer, FileIsOld, Edit, InLoop, At, IInv, TypeOK
<1>2. /\ job' \in [Threads -> Jobs] /\ OnlyJobOf(t) /\ job'[t].announced = job[t].announced
      /\ job'[t].at \in {"next", "write", "update", "read", "end", "renew"}
      /\ job'[t].at = "write" => job'[t].song \in Songs /\ job'[t].tag \in Tags
      /\ job'[t].at = "read" => t \in Rebuilds /\ job'[t].song \in Songs
      /\ job'[t].at = "update" => /\ t \in Editors /\ ~job'[t].option
                                  /\ job'[t].song \in Songs /\ job'[t].tag \in Tags
      /\ job'[t].at \in {"end", "renew"} => t \notin DirtyWriters
      /\ t \in Editors => job'[t].tag \in Tags
  <2>0. TypeOK /\ PlacedAt(t)
    BY DEF IInv, Placed
  <2>1. CASE QueryDirty(t)
    <3>1. PICK todo \in SUBSET Songs : job' = [job EXCEPT ![t].at = "next", ![t].todo = todo]
      BY <2>1 DEF QueryDirty
    <3>2. (t \in Editors => job[t].tag \in Tags) /\ job[t] \in Jobs
      BY <2>0, <2>1 DEF QueryDirty, PlacedAt, At, TypeOK
    <3>3. job' \in [Threads -> Jobs] /\ OnlyJobOf(t)
      BY <2>0, <3>1, <3>2 DEF TypeOK, Jobs, Places, OnlyJobOf
    <3>4. job'[t] = [job[t] EXCEPT !.at = "next", !.todo = todo]
      BY <2>0, <3>1 DEF TypeOK
    <3> QED BY <3>2, <3>3, <3>4 DEF Jobs
  <2>2. CASE SongCopy(t)
    <3>1. [s \in Songs |-> disk[s].tag] \in [Songs -> Tags]
      BY <2>0 DEF TypeOK, Rows
    <3>2. NextSong(t, "write", [s \in Songs |-> disk[s].tag]) /\ t \in DirtyWriters
      BY <2>2 DEF SongCopy
    <3> HIDE DEF frameVars
    <3> QED BY <2>0, <3>1, <3>2, NextSongMoves, Apart DEF Places
  <2>3. CASE LastSong(t)
    <3>1. t \notin DirtyWriters /\ (Goes(t, "end") \/ Goes(t, "renew"))
      BY <2>3 DEF LastSong, InLoop
    <3>2. At(t, {"fresh", "next"}) /\ (t \in Editors => job[t].tag \in Tags)
      BY <2>0, <2>3 DEF PlacedAt, LastSong, InLoop, At
    <3> QED BY <2>0, <3>1, <3>2, GoesMoves DEF Places, SameSong
  <2>4. CASE FileIsNewer(t)
    <3>1. NextSong(t, "read", [s \in Songs |-> None]) /\ t \in Rebuilds
      BY <2>4 DEF FileIsNewer
    <3> QED BY <2>0, <3>1, NextSongMoves, Apart DEF Places
  <2>5. CASE FileIsOld(t)
    <3>1. PICK s : job' = [job EXCEPT ![t].at = "next", ![t].todo = @ \ {s}]
      BY <2>5 DEF FileIsOld
    <3>2. t \notin Editors /\ job[t] \in Jobs
      BY <2>0, <2>5, Apart DEF FileIsOld, TypeOK
    <3> QED BY <2>0, <3>1, <3>2 DEF TypeOK, Jobs, Places, OnlyJobOf
  <2>6. CASE Edit(t)
    <3>1. t \in Editors /\ job[t].tag \in Tags
      BY <2>0, <2>6 DEF PlacedAt, Edit, InLoop, At
    <3>2. /\ NextSong(t, IF job[t].option THEN "write" ELSE "update", [s \in Songs |-> job[t].tag])
          /\ [s \in Songs |-> job[t].tag] \in [Songs -> Tags]
      BY <2>6, <3>1 DEF Edit
    <3>3. CASE job[t].option
      BY <2>0, <3>1, <3>2, <3>3, NextSongMoves DEF Places
    <3>4. CASE ~job[t].option
      BY <2>0, <3>1, <3>2, <3>4, NextSongMoves DEF Places
    <3> QED BY <3>3, <3>4
  <2> QED BY <2>1, <2>2, <2>3, <2>4, <2>5, <2>6
<1>3. PlacedAt(t)'
  BY <1>2, Apart DEF PlacedAt, At
<1>4. HeardOf(t)'
  BY <1>1, <1>2, WorkIsUnheard DEF IInv, Working, Places
<1>5. Rests(t) /\ \A s \in Songs : ~Resets(t, s)'
  BY <1>1, <1>2 DEF Rests, Resets, Takes, At
<1>6. TagFits(t)'
  BY <1>2, Apart DEF TagFits, Takes, At
<1> QED BY <1>1, <1>2, <1>3, <1>4, <1>5, <1>6, RestMove DEF IInv, TypeOK

(* A file is read, or it or its writing fails.                             *)
LEMMA ReadKeeps ==
    ASSUME IInv, NEW t \in Threads, GetMetaData(t) \/ WriteTagFails(t)
    PROVE  IInv'
<1>0. TypeOK /\ PlacedAt(t)
  BY DEF IInv, Placed
<1>1. /\ UNCHANGED <<file, dbVars, frameVars, ghosts>>
      /\ job[t].at \in {"write", "read"}
  BY DEF GetMetaData, WriteTagFails, At
<1>2. /\ job' \in [Threads -> Jobs] /\ OnlyJobOf(t) /\ job'[t].announced = job[t].announced
      /\ \/ job'[t].at = "next"
         \/ /\ job'[t].at = "update" /\ job[t].at = "read"
            /\ job'[t].song = job[t].song /\ job'[t].tag = file[job[t].song]
      /\ t \in Editors => job'[t].tag \in Tags
  <2>1. CASE Leaves(t, "next")
    <3>1. /\ job' \in [Threads -> Jobs] /\ OnlyJobOf(t) /\ job'[t].announced = job[t].announced
          /\ job'[t].at = "next" /\ job'[t].tag = job[t].tag
      BY <1>0, <2>1, LeavesMoves DEF Places
    <3> QED BY <1>0, <1>1, <3>1 DEF PlacedAt, At
  <2>2. CASE At(t, {"read"}) /\ job' = [job EXCEPT ![t].at = "update", ![t].tag = file[job[t].song]]
    <3>1. job[t].song \in Songs /\ file[job[t].song] \in Tags /\ job[t] \in Jobs
      BY <1>0, <2>2 DEF PlacedAt, TypeOK, At
    <3> QED BY <1>0, <2>2, <3>1 DEF TypeOK, Jobs, Places, OnlyJobOf, At
  <2> QED BY <2>1, <2>2 DEF GetMetaData, WriteTagFails
<1>3. PlacedAt(t)'
  BY <1>0, <1>1, <1>2, Apart DEF PlacedAt, At, TypeOK
<1>4. HeardOf(t)'
  BY <1>1, <1>2, WorkIsUnheard DEF IInv, Working, Places, frameVars
<1>5. Rests(t) /\ \A s \in Songs : ~Resets(t, s)'
  BY <1>1, <1>2 DEF Rests, Resets, Takes, At
<1>6. TagFits(t)'
  BY <1>1, <1>2 DEF TagFits, Takes, Holds, At
<1> QED BY <1>1, <1>2, <1>3, <1>4, <1>5, <1>6, RestMove DEF IInv, TypeOK, frameVars, ghosts

-----------------------------------------------------------------------------
(* Steps that touch a row, a file or the transaction.                      *)

(* The tags others are taking over are still the files', or a thread holds *)
(* the song that has written it since.                                     *)
LEMMA TagStays ==
    ASSUME TagIsOfFile, NEW t \in Threads, OnlyJobOf(t), raced \subseteq raced',
           \A u \in Threads \ {t} : writer' = u => writer = u,
           \A s \in Songs \ (Unsupported \union raced') :
              /\ file'[s] = file[s] \/ Resets(t, s)' \/ Takes(t, s)'
              /\ Takes(t, s)' /\ (t \in Rebuilds \/ job'[t].option) => file'[s] = job'[t].tag
              /\ \A u \in Threads \ {t} : writer = u /\ (Resets(t, s) \/ Takes(t, s))
                                           => Resets(t, s)' \/ Takes(t, s)'
    PROVE  TagIsOfFile'
<1> SUFFICES ASSUME NEW u \in Threads, NEW s \in Songs \ (Unsupported \union raced'),
                    Takes(u, s)', u \in Rebuilds \/ job'[u].option, writer' = u,
                    file'[s] # job'[u].tag
             PROVE  \E w \in Threads \ {u} : Resets(w, s)' \/ Takes(w, s)'
  BY DEF TagIsOfFile
<1>1. u # t
  OBVIOUS
<1>2. Takes(u, s) /\ job'[u] = job[u] /\ writer = u
  BY <1>1, OthersStay
<1>3. CASE file'[s] # file[s]
  BY <1>1, <1>3
<1>4. CASE file'[s] = file[s]
  <2>1. PICK w \in Threads \ {u} : Resets(w, s) \/ Takes(w, s)
    BY <1>2, <1>4 DEF TagIsOfFile
  <2>2. CASE w = t
    BY <1>1, <1>2, <2>1, <2>2
  <2>3. CASE w # t
    BY <2>1, <2>3, OthersStay
  <2> QED BY <2>2, <2>3
<1> QED BY <1>3, <1>4

(* Who resets a dirty flag has the transaction to itself, after t's step.  *)
LEMMA ResetStaysAlone ==
    ASSUME ResetAlone, NEW t \in Threads, OnlyJobOf(t), raced \subseteq raced',
           \A u \in Threads \ {t} : writer = u => writer' = u,
           \A s \in Songs \ raced' : Resets(t, s)' /\ job'[t].at # "begin" => writer' = t
    PROVE  ResetAlone'
<1> SUFFICES ASSUME NEW u \in Threads, NEW s \in Songs \ raced', Resets(u, s)',
                    job'[u].at # "begin"
             PROVE  writer' = u
  BY DEF ResetAlone, At
<1>1. CASE u # t
  <2>1. Resets(u, s) /\ job'[u] = job[u]
    BY <1>1, OthersStay
  <2> QED BY <1>1, <2>1 DEF ResetAlone, At
<1> QED BY <1>1

LEMMA BeginKeeps ==
    ASSUME IInv, NEW t \in Threads, BeginTransaction(t)
    PROVE  IInv'
<1> DEFINE place == IF t \in DirtyWriters THEN "reset" ELSE "fresh"
<1> USE DEF frameVars
<1>0. TypeOK /\ PlacedAt(t) /\ Heard /\ RowsInv
  BY DEF IInv, Placed
<1>1. /\ job[t].at = "begin"
      /\ UNCHANGED <<file, disk, work, frameVars, latest, foreign, finalized>>
      /\ raced \subseteq raced' /\ raced' \in SUBSET Songs
      /\ \/ writer = None /\ writer' = t
         \/ writer # None /\ writer' = writer /\ \A s \in Songs : Holds(t, s) => s \in raced'
  BY <1>0 DEF BeginTransaction, At, TypeOK
<1>2. /\ job' \in [Threads -> Jobs] /\ OnlyJobOf(t) /\ SameSong(t)
      /\ job'[t].at = place /\ job'[t].announced = job[t].announced
  BY <1>0, GoesMoves DEF BeginTransaction, Places
<1>3. TypeOK'
  BY <1>0, <1>1, <1>2 DEF TypeOK
<1>4. PlacedAt(t)'
  BY <1>0, <1>1, <1>2 DEF PlacedAt, At, SameSong
<1>5. Placed'
  BY <1>2, <1>4, OthersStay DEF IInv, Placed
<1>6. Heard'
  <2>1. HeardOf(t)'
    BY <1>0, <1>1, <1>2, WorkIsUnheard DEF Working, Places
  <2> QED BY <1>0, <1>1, <1>2, <2>1, HeardStays
<1>7. \A s \in Songs : /\ Resets(t, s)' <=> Resets(t, s)
                       /\ Resets(t, s) => Holds(t, s)
                       /\ ~Takes(t, s) /\ ~Takes(t, s)'
  BY <1>1, <1>2 DEF Resets, Takes, Holds, At, SameSong
<1>8. Synced' /\ RowsFit'
  BY <1>0, <1>1, Apart DEF RowsInv, Synced, RowsFit
<1>9. NewerThanRow'
  BY <1>0, <1>1, <1>2, <1>7, OthersStay DEF RowsInv, NewerThanRow
<1>10. ResetAlone'
  BY <1>0, <1>1, <1>2, <1>7, Apart, ResetStaysAlone DEF RowsInv
<1>11. TagIsOfFile'
  BY <1>0, <1>1, <1>2, <1>7, TagStays DEF RowsInv
<1> QED BY <1>3, <1>5, <1>6, <1>8, <1>9, <1>10, <1>11 DEF IInv, RowsInv

LEMMA EndTransactionKeeps ==
    ASSUME IInv, NEW t \in Threads, EndTransaction(t)
    PROVE  IInv'
<1> DEFINE place == IF At(t, {"renew"}) THEN "begin" ELSE IF t \in DirtyWriters THEN "next"
                    ELSE IF job[t].announced THEN "exit" ELSE "gone"
<1> USE DEF frameVars, ghosts
<1>0. TypeOK /\ PlacedAt(t) /\ Heard /\ RowsInv
  BY DEF IInv, Placed
<1>1. /\ job[t].at \in {"end", "renew"}
      /\ UNCHANGED <<file, work, frameVars, latest, foreign, raced, finalized>>
      /\ \/ writer = t /\ disk' = work /\ writer' = None
         \/ writer # t /\ UNCHANGED <<disk, writer>>
  BY DEF EndTransaction, At
<1>2. /\ job' \in [Threads -> Jobs] /\ OnlyJobOf(t) /\ job'[t].announced = job[t].announced
      /\ job'[t].at = place /\ job'[t].song = None /\ job'[t].tag = job[t].tag
  BY <1>0, LeavesMoves DEF EndTransaction, Places
<1>3. TypeOK'
  BY <1>0, <1>1, <1>2 DEF TypeOK
<1>4. PlacedAt(t)'
  BY <1>0, <1>1, <1>2, Apart DEF PlacedAt, At
<1>5. Placed'
  BY <1>2, <1>4, OthersStay DEF IInv, Placed
<1>6. Heard'
  <2>1. active = t => job[t].announced
    BY <1>0, Apart DEF Heard
  <2>2. HeardOf(t)'
    BY <1>1, <1>2, <2>1 DEF HeardOf, At
  <2> QED BY <1>0, <1>1, <1>2, <2>2, HeardStays
<1>7. \A s \in Songs : /\ ~Resets(t, s)' /\ ~Takes(t, s) /\ ~Takes(t, s)'
                       /\ Resets(t, s) => s \in raced \/ writer = t
  BY <1>0, <1>1, <1>2, Apart DEF Resets, Takes, Holds, At, RowsInv, ResetAlone
<1>8. Synced' /\ RowsFit'
  BY <1>0, <1>1 DEF RowsInv, Synced, RowsFit
<1>9. NewerThanRow'
  BY <1>0, <1>1, <1>2, <1>7, OthersStay DEF RowsInv, NewerThanRow
<1>10. ResetAlone'
  BY <1>0, <1>1, <1>2, <1>7, ResetStaysAlone DEF RowsInv
<1>11. TagIsOfFile'
  BY <1>0, <1>1, <1>2, <1>7, Apart, TagStays DEF RowsInv
<1> QED BY <1>3, <1>5, <1>6, <1>8, <1>9, <1>10, <1>11 DEF IInv, RowsInv

(* The rows after a file was written.                                      *)
LEMMA WrittenRows ==
    ASSUME TypeOK, RowsInv, NEW s \in Songs, NEW tag \in Tags, WritesFile(s, tag),
           UNCHANGED <<writer, raced, finalized>>
    PROVE  /\ Synced' /\ RowsFit'
           /\ \A x \in Songs : work[x].newer => work'[x].newer
<1>1. /\ file' \in [Songs -> Tags] /\ disk' \in [Songs -> Rows] /\ work' \in [Songs -> Rows]
      /\ \A x \in Songs \ {s} : disk'[x] = disk[x] /\ work'[x] = work[x] /\ file'[x] = file[x]
      /\ s \notin Unsupported => disk'[s].newer /\ work'[s].newer /\ file'[s] = tag
      /\ work = disk => work' = disk'
  BY WritesFileWrites
<1>2. s \in Unsupported => work' = work /\ file' = file
  BY DEF WritesFile
<1> QED BY <1>1, <1>2 DEF RowsInv, Synced, RowsFit

LEMMA WriteTagKeeps ==
    ASSUME IInv, NEW t \in Threads, WriteTag(t)
    PROVE  IInv'
<1> USE DEF frameVars
<1> DEFINE song == job[t].song
<1>0. TypeOK /\ PlacedAt(t) /\ Heard /\ RowsInv
  BY DEF IInv, Placed
<1>1. /\ t \in DirtyWriters /\ job[t].at = "write" /\ WritesFile(song, job[t].tag)
      /\ song \in Songs /\ job[t].tag \in Tags
      /\ UNCHANGED <<writer, active, ends, latest, raced, finalized>>
  BY <1>0 DEF WriteTag, At, PlacedAt
<1>2. /\ job' \in [Threads -> Jobs] /\ OnlyJobOf(t) /\ SameSong(t)
      /\ job'[t].at = "begin" /\ job'[t].announced = job[t].announced
  BY <1>0, GoesMoves DEF WriteTag, Places
<1>3. /\ file' \in [Songs -> Tags] /\ disk' \in [Songs -> Rows] /\ work' \in [Songs -> Rows]
      /\ foreign' \in SUBSET Songs
      /\ \A x \in Songs \ {song} : file'[x] = file[x]
      /\ song \notin Unsupported => work'[song].newer
  BY <1>0, <1>1, WritesFileWrites
<1>4. TypeOK'
  BY <1>0, <1>1, <1>2, <1>3 DEF TypeOK
<1>5. PlacedAt(t)'
  BY <1>0, <1>1, <1>2, Apart DEF PlacedAt, At, SameSong
<1>6. Placed'
  BY <1>2, <1>5, OthersStay DEF IInv, Placed
<1>7. Heard'
  <2>1. HeardOf(t)'
    BY <1>0, <1>1, <1>2, WorkIsUnheard DEF Working, Places
  <2> QED BY <1>0, <1>1, <1>2, <2>1, HeardStays
<1>8. \A s \in Songs : /\ Resets(t, s)' <=> s = song
                       /\ ~Resets(t, s) /\ ~Takes(t, s) /\ ~Takes(t, s)'
  BY <1>1, <1>2 DEF Resets, Takes, Holds, At, SameSong
<1>9. Synced' /\ RowsFit' /\ \A x \in Songs : work[x].newer => work'[x].newer
  BY <1>0, <1>1, WrittenRows
<1>10. NewerThanRow'
  BY <1>0, <1>1, <1>2, <1>3, <1>8, <1>9, OthersStay DEF RowsInv, NewerThanRow
<1>11. ResetAlone'
  BY <1>0, <1>1, <1>2, ResetStaysAlone DEF RowsInv
<1>12. TagIsOfFile'
  BY <1>0, <1>1, <1>2, <1>3, <1>8, TagStays DEF RowsInv
<1> QED BY <1>4, <1>6, <1>7, <1>9, <1>10, <1>11, <1>12 DEF IInv, RowsInv

LEMMA EditWrittenKeeps ==
    ASSUME IInv, NEW t \in Threads, EditWritten(t)
    PROVE  IInv'
<1> USE DEF frameVars
<1> DEFINE song == job[t].song
<1>0. TypeOK /\ PlacedAt(t) /\ Heard /\ RowsInv
  BY DEF IInv, Placed
<1>1. /\ t \in Editors /\ t \notin DirtyWriters /\ t \notin Rebuilds /\ job[t].at = "write"
      /\ song \in Songs /\ job[t].tag \in Tags
      /\ UNCHANGED <<writer, active, ends, latest, raced, finalized>>
  BY <1>0, Apart DEF EditWritten, At, PlacedAt
<1>2. \A s \in Songs : ~Resets(t, s) /\ ~Takes(t, s)
  BY <1>1 DEF Resets, Takes, At
<1>3. CASE WritesFile(song, job[t].tag) /\ Goes(t, "update")
  <2>1. /\ job' \in [Threads -> Jobs] /\ OnlyJobOf(t) /\ SameSong(t)
        /\ job'[t].at = "update" /\ job'[t].announced = job[t].announced
    BY <1>0, <1>3, GoesMoves DEF Places
  <2>2. /\ file' \in [Songs -> Tags] /\ disk' \in [Songs -> Rows] /\ work' \in [Songs -> Rows]
        /\ foreign' \in SUBSET Songs
        /\ \A x \in Songs \ {song} : file'[x] = file[x]
        /\ song \notin Unsupported => file'[song] = job[t].tag
    BY <1>0, <1>1, <1>3, WritesFileWrites
  <2>3. TypeOK'
    BY <1>0, <1>1, <2>1, <2>2 DEF TypeOK
  <2>4. PlacedAt(t)'
    BY <1>0, <1>1, <2>1 DEF PlacedAt, At, SameSong
  <2>5. Placed'
    BY <2>1, <2>4, OthersStay DEF IInv, Placed
  <2>6. HeardOf(t)'
    BY <1>0, <1>1, <2>1, WorkIsUnheard DEF Working, Places
  <2>7. Heard'
    BY <1>0, <1>1, <2>1, <2>6, HeardStays
  <2>8. \A s \in Songs : ~Resets(t, s)' /\ (Takes(t, s)' <=> s = song)
    BY <1>1, <2>1 DEF Resets, Takes, Holds, At, SameSong
  <2>9. Synced' /\ RowsFit' /\ \A x \in Songs : work[x].newer => work'[x].newer
    BY <1>0, <1>1, <1>3, WrittenRows
  <2>10. NewerThanRow'
    BY <1>0, <1>1, <2>1, <2>8, <2>9, OthersStay DEF RowsInv, NewerThanRow
  <2>11. ResetAlone'
    BY <1>0, <1>1, <2>1, <2>8, ResetStaysAlone DEF RowsInv
  <2>12. TagIsOfFile'
    BY <1>0, <1>1, <1>2, <2>1, <2>2, <2>8, TagStays DEF RowsInv, SameSong
  <2> QED BY <2>3, <2>5, <2>7, <2>9, <2>10, <2>11, <2>12 DEF IInv, RowsInv
<1>4. CASE UNCHANGED <<file, disk, work, foreign>> /\ Leaves(t, "next")
  <2>1. /\ job' \in [Threads -> Jobs] /\ OnlyJobOf(t) /\ job'[t].announced = job[t].announced
        /\ job'[t].at = "next" /\ job'[t].song = None /\ job'[t].tag = job[t].tag
    BY <1>0, <1>4, LeavesMoves DEF Places
  <2>2. PlacedAt(t)'
    BY <1>0, <1>1, <2>1 DEF PlacedAt, At
  <2>3. HeardOf(t)'
    BY <1>0, <1>1, <2>1, WorkIsUnheard DEF Working, Places
  <2>4. Rests(t) /\ TagFits(t)' /\ \A s \in Songs : ~Resets(t, s)'
    BY <1>2, <2>1 DEF Rests, TagFits, Resets, Takes, At
  <2> QED BY <1>0, <1>1, <1>4, <2>1, <2>2, <2>3, <2>4, RestMove DEF TypeOK, dbVars
<1> QED BY <1>3, <1>4 DEF EditWritten

LEMMA ResetKeeps ==
    ASSUME IInv, NEW t \in Threads, UpdateItemResetDirty(t)
    PROVE  IInv'
<1> USE DEF frameVars, ghosts
<1> DEFINE song == job[t].song
           row == [work[song] EXCEPT !.dirty = FALSE]
<1>0. TypeOK /\ PlacedAt(t) /\ Heard /\ RowsInv
  BY DEF IInv, Placed
<1>1. /\ job[t].at = "reset" /\ t \in DirtyWriters /\ song \in Songs
      /\ UNCHANGED <<file, frameVars, ghosts>>
  BY <1>0 DEF UpdateItemResetDirty, At, PlacedAt
<1>2. /\ job' \in [Threads -> Jobs] /\ OnlyJobOf(t) /\ SameSong(t)
      /\ job'[t].at = "end" /\ job'[t].announced = job[t].announced
  BY <1>0, GoesMoves DEF UpdateItemResetDirty, Places
<1>3. row \in Rows /\ row.tag = work[song].tag /\ row.newer = work[song].newer
  BY <1>0, <1>1 DEF TypeOK, Rows
<1>4. /\ disk' \in [Songs -> Rows] /\ work' \in [Songs -> Rows] /\ writer' = writer /\ Synced'
      /\ \A s \in Songs \ {song} : work'[s] = work[s]
      /\ work'[song] = row \/ work'[song] = work[song]
  <2>1. CASE Changes(t, song, row)
    BY <1>0, <1>1, <1>3, <2>1, ChangesRow DEF RowsInv
  <2>2. CASE UNCHANGED dbVars
    BY <1>0, <2>2 DEF TypeOK, RowsInv, Synced, dbVars
  <2> QED BY <2>1, <2>2 DEF UpdateItemResetDirty
<1>5. TypeOK'
  BY <1>0, <1>1, <1>2, <1>4 DEF TypeOK
<1>6. PlacedAt(t)'
  BY <1>0, <1>1, <1>2, Apart DEF PlacedAt, At, SameSong
<1>7. Placed'
  BY <1>2, <1>6, OthersStay DEF IInv, Placed
<1>8. Heard'
  <2>1. HeardOf(t)'
    BY <1>0, <1>1, <1>2, WorkIsUnheard DEF Working, Places
  <2> QED BY <1>0, <1>1, <1>2, <2>1, HeardStays
<1>9. \A s \in Songs : /\ Resets(t, s)' /\ Resets(t, s) <=> s = song
                       /\ Resets(t, s)' <=> Resets(t, s)
                       /\ ~Takes(t, s) /\ ~Takes(t, s)'
  BY <1>1, <1>2 DEF Resets, Takes, Holds, At, SameSong
<1>10. \A s \in Songs : work'[s].newer = work[s].newer /\ work'[s].tag = work[s].tag
  BY <1>3, <1>4
<1>11. NewerThanRow'
  BY <1>0, <1>1, <1>2, <1>9, <1>10, OthersStay DEF RowsInv, NewerThanRow
<1>12. RowsFit'
  <2>1. song \notin Unsupported \union raced => work[song].newer
    BY <1>0, <1>1, <1>9 DEF RowsInv, NewerThanRow
  <2> QED BY <1>0, <1>1, <1>4, <1>10, <2>1 DEF RowsInv, RowsFit
<1>13. ResetAlone'
  <2>1. \A s \in Songs \ raced' : Resets(t, s)' => writer' = t
    BY <1>0, <1>1, <1>4, <1>9 DEF RowsInv, ResetAlone, At
  <2> QED BY <1>0, <1>1, <1>2, <1>4, <2>1, ResetStaysAlone DEF RowsInv
<1>14. TagIsOfFile'
  BY <1>0, <1>1, <1>2, <1>4, <1>9, TagStays DEF RowsInv
<1> QED BY <1>4, <1>5, <1>7, <1>8, <1>11, <1>12, <1>13, <1>14 DEF IInv, RowsInv

LEMMA ReplaceKeeps ==
    ASSUME IInv, NEW t \in Threads, UpdateItem(t) \/ UpdateFullSongData(t)
    PROVE  IInv'
<1> USE DEF frameVars
<1>0. TypeOK /\ PlacedAt(t) /\ Heard /\ RowsInv
  BY DEF IInv, Placed
<1> DEFINE song == job[t].song
           flag == IF t \in Editors THEN ~job[t].option ELSE FALSE
           row == [tag |-> job[t].tag, dirty |-> flag, newer |-> FALSE]
<1>1. /\ job[t].at = "update" /\ t \notin DirtyWriters /\ (t \in Editors \/ t \in Rebuilds)
      /\ song \in Songs /\ job[t].tag \in Tags /\ job[t] \in Jobs
      /\ UNCHANGED <<file, frameVars, others>>
      /\ Replaces(t, job[t].tag, flag)
  BY <1>0, Apart DEF UpdateItem, UpdateFullSongData, At, PlacedAt, TypeOK
<1>2. /\ job' \in [Threads -> Jobs] /\ OnlyJobOf(t) /\ job'[t].announced = job[t].announced
      /\ job'[t].at = "next" /\ job'[t].song = None /\ job'[t].tag = job[t].tag
  BY <1>0, <1>1, LeavesMoves DEF Replaces, Places
<1>3. /\ raced' = raced \/ raced' = raced \union {song}
      /\ song \notin raced' => writer = t /\ \A u \in Threads \ {t} : ~Holds(u, song)
  BY <1>1 DEF Replaces, Races
<1>4. /\ disk' \in [Songs -> Rows] /\ work' \in [Songs -> Rows] /\ writer' = writer /\ Synced'
      /\ \A s \in Songs \ {song} : work'[s] = work[s]
      /\ latest' \in [Songs -> Tags] /\ foreign' \in SUBSET Songs
      /\ finalized' \in SUBSET Songs /\ finalized \subseteq finalized' \union {song}
      /\ writer = t => work'[song] = row
  <2>1. CASE Changes(t, song, row)
    <3>1. row \in Rows
      BY <1>1 DEF Rows, Jobs
    <3>2. /\ latest' \in [Songs -> Tags] /\ foreign' \in SUBSET Songs
          /\ finalized' \in SUBSET Songs /\ finalized \subseteq finalized' \union {song}
      BY <1>0, <1>1 DEF Replaces, TypeOK
    <3> QED BY <1>0, <1>1, <2>1, <3>1, <3>2, ChangesRow DEF RowsInv
  <2>2. CASE Refused(t) /\ UNCHANGED <<dbVars, latest, foreign, finalized>>
    BY <1>0, <2>2 DEF TypeOK, RowsInv, Synced, dbVars, Refused
  <2> QED BY <1>1, <2>1, <2>2 DEF Replaces
<1>5. TypeOK'
  BY <1>0, <1>1, <1>2, <1>3, <1>4 DEF TypeOK
<1>6. PlacedAt(t)'
  BY <1>0, <1>1, <1>2, Apart DEF PlacedAt, At
<1>7. Placed'
  BY <1>2, <1>6, OthersStay DEF IInv, Placed
<1>8. Heard'
  <2>1. HeardOf(t)'
    BY <1>0, <1>1, <1>2, WorkIsUnheard DEF Working, Places
  <2> QED BY <1>0, <1>1, <1>2, <2>1, HeardStays
<1>9. \A s \in Songs : /\ Takes(t, s) <=> s = song
                       /\ ~Resets(t, s)' /\ ~Resets(t, s) /\ ~Takes(t, s)'
  BY <1>1, <1>2 DEF Resets, Takes, Holds, At
<1>10. raced \subseteq raced' /\ \A u \in Threads \ {t} : Resets(u, song) => song \in raced'
  BY <1>3 DEF Resets
<1>11. NewerThanRow'
  BY <1>0, <1>1, <1>2, <1>4, <1>9, <1>10, OthersStay DEF RowsInv, NewerThanRow
<1>12. RowsFit'
  <2> SUFFICES ASSUME NEW s \in Songs \ (Unsupported \union raced' \union finalized')
               PROVE  work'[s].tag = file'[s] \/ work'[s].dirty \/ work'[s].newer
    BY DEF RowsFit
  <2>1. CASE s # song
    BY <1>0, <1>1, <1>4, <1>10, <2>1 DEF RowsInv, RowsFit
  <2>2. CASE s = song
    <3>1. writer = t /\ work'[s] = row /\ \A u \in Threads \ {t} : ~Resets(u, s) /\ ~Takes(u, s)
      BY <1>3, <1>4, <2>2 DEF Resets, Takes
    <3>2. CASE t \in Editors /\ ~job[t].option
      <4>1. flag
        BY <3>2
      <4>2. row.dirty = flag
        OBVIOUS
      <4>3. work'[s].dirty = flag
        BY <3>1, <4>2
      <4> QED BY <4>1, <4>3
    <3>3. CASE t \in Rebuilds \/ job[t].option
      <4>1. file[s] = job[t].tag
        BY <1>0, <1>9, <1>10, <2>2, <3>1, <3>3 DEF RowsInv, TagIsOfFile
      <4> QED BY <1>1, <3>1, <4>1
    <3> QED BY <1>1, <3>2, <3>3
  <2> QED BY <2>1, <2>2
<1>13. ResetAlone'
  BY <1>0, <1>1, <1>2, <1>4, <1>9, <1>10, ResetStaysAlone DEF RowsInv
<1>14. TagIsOfFile'
  <2>1. \A s \in Songs \ (Unsupported \union raced'), u \in Threads \ {t} :
            ~(writer = u /\ Takes(t, s))
    BY <1>3, <1>9
  <2> QED BY <1>0, <1>1, <1>2, <1>4, <1>9, <1>10, <2>1, TagStays DEF RowsInv
<1> QED BY <1>4, <1>5, <1>7, <1>8, <1>11, <1>12, <1>13, <1>14 DEF IInv, RowsInv

LEMMA OtherProgramKeeps ==
    ASSUME IInv, ForeignTag \/ ClearDirtyTags
    PROVE  IInv'
<1> USE DEF frameVars
<1>0. TypeOK /\ RowsInv
  BY DEF IInv
<1>1. UNCHANGED <<writer, job, active, ends, latest>> /\ raced \subseteq raced'
  BY DEF ForeignTag, ClearDirtyTags
<1>2. \A t \in Threads : \A s \in Songs :
          (Resets(t, s)' <=> Resets(t, s)) /\ (Takes(t, s)' <=> Takes(t, s))
  BY <1>1 DEF Resets, Takes, Holds, At
<1>3. Placed' /\ Heard'
  BY <1>1 DEF IInv, Placed, PlacedAt, Heard, DanglingIsBrief, At
<1>4. CASE ForeignTag
  <2>1. PICK s \in Songs, tag \in Tags, newer \in BOOLEAN :
            /\ file' = [file EXCEPT ![s] = tag]
            /\ disk' = [disk EXCEPT ![s].newer = newer \/ @]
            /\ work' = [work EXCEPT ![s].newer = newer \/ @]
            /\ foreign' = foreign \union {s}
            /\ raced' = IF ~newer \/ \E t \in Threads : Holds(t, s) THEN raced \union {s} ELSE raced
    BY <1>4 DEF ForeignTag
  <2>2. UNCHANGED finalized
    BY <1>4 DEF ForeignTag
  <2>3. /\ file' \in [Songs -> Tags] /\ disk' \in [Songs -> Rows] /\ work' \in [Songs -> Rows]
        /\ foreign' \in SUBSET Songs /\ raced' \in SUBSET Songs
    BY <1>0, <2>1 DEF TypeOK, Rows
  <2>4. \A x \in Songs : (x # s => work'[x] = work[x] /\ file'[x] = file[x])
                         /\ (work[x].newer => work'[x].newer)
    BY <1>0, <2>1 DEF TypeOK, Rows
  <2>5. s \notin raced' => work'[s].newer /\ \A t \in Threads : ~Holds(t, s)
    BY <1>0, <2>1 DEF TypeOK, Rows
  <2>6. Synced' /\ RowsFit'
    BY <1>0, <1>1, <2>1, <2>2, <2>4, <2>5 DEF RowsInv, Synced, RowsFit
  <2>7. NewerThanRow' /\ ResetAlone'
    BY <1>0, <1>1, <1>2, <2>4 DEF RowsInv, NewerThanRow, ResetAlone, At
  <2>8. TagIsOfFile'
    <3>1. \A t \in Threads, x \in Songs \ raced' : Takes(t, x) => file'[x] = file[x]
      BY <2>4, <2>5 DEF Takes
    <3> QED BY <1>0, <1>1, <1>2, <3>1 DEF RowsInv, TagIsOfFile
  <2> QED BY <1>0, <1>1, <1>3, <2>2, <2>3, <2>6, <2>7, <2>8 DEF IInv, RowsInv, TypeOK
<1>5. CASE ClearDirtyTags
  <2>1. /\ writer = None /\ UNCHANGED <<file, foreign, raced>>
        /\ disk' = [s \in Songs |-> [disk[s] EXCEPT !.dirty = FALSE]] /\ work' = disk'
        /\ finalized' = finalized \union {s \in Songs : disk[s].dirty}
    BY <1>5 DEF ClearDirtyTags
  <2>2. disk' \in [Songs -> Rows] /\ work' \in [Songs -> Rows] /\ finalized' \in SUBSET Songs
    BY <1>0, <2>1 DEF TypeOK, Rows
  <2>3. \A s \in Songs : /\ work'[s].tag = work[s].tag /\ work'[s].newer = work[s].newer
                         /\ s \notin finalized' => ~work[s].dirty
    BY <1>0, <2>1 DEF TypeOK, Rows, RowsInv, Synced
  <2>4. Synced' /\ RowsFit'
    BY <1>0, <2>1, <2>3 DEF RowsInv, Synced, RowsFit
  <2>5. NewerThanRow' /\ ResetAlone' /\ TagIsOfFile'
    BY <1>0, <1>1, <1>2, <2>1, <2>3 DEF RowsInv, NewerThanRow, ResetAlone, TagIsOfFile, At
  <2> QED BY <1>0, <1>1, <1>3, <2>1, <2>2, <2>4, <2>5 DEF IInv, RowsInv, TypeOK
<1> QED BY <1>4, <1>5

-----------------------------------------------------------------------------
LEMMA InitIsGood == Init => IInv
<1> SUFFICES ASSUME Init PROVE IInv
  OBVIOUS
<1> USE DEF Init
<1>1. PICK tag \in Tags :
          /\ file = [s \in Songs |-> tag]
          /\ disk = [s \in Songs |-> [tag |-> tag, dirty |-> FALSE, newer |-> FALSE]]
  OBVIOUS
<1>2. \A t \in Threads : job[t] = NoJob
  OBVIOUS
<1>3. TypeOK
  BY <1>1 DEF TypeOK, NoJob, Jobs, Places, Rows
<1>4. Placed /\ Heard
  <2>1. \A t \in Threads : job[t].at = "none"
    BY <1>2 DEF NoJob
  <2>2. active = None
    OBVIOUS
  <2> QED BY <2>1, <2>2, Apart DEF Placed, PlacedAt, Heard, DanglingIsBrief, At
<1>5. \A t \in Threads, s \in Songs : ~Resets(t, s) /\ ~Takes(t, s)
  BY <1>2, Apart DEF Resets, Takes, At, NoJob
<1>6. RowsInv
  BY <1>1, <1>5 DEF RowsInv, Synced, RowsFit, NewerThanRow, ResetAlone, TagIsOfFile
<1> QED BY <1>3, <1>4, <1>6 DEF IInv

LEMMA StepKeeps ==
    ASSUME IInv, NEW t \in Threads, Step(t)
    PROVE  IInv'
<1>1. CASE Entry(t)
  BY <1>1, EntryKeeps
<1>2. CASE BeginTransaction(t)
  BY <1>2, BeginKeeps
<1>3. CASE EndTransaction(t)
  BY <1>3, EndTransactionKeeps
<1>4. CASE OnExit(t) \/ IsDeleted(t) \/ OnThreadEnd(t) \/ DirtyFinished(t)
  BY <1>4, EndKeeps
<1>5. CASE QueryDirty(t) \/ SongCopy(t) \/ LastSong(t) \/ FileIsNewer(t) \/ FileIsOld(t) \/ Edit(t)
  BY <1>5, SearchKeeps
<1>6. CASE GetMetaData(t) \/ WriteTagFails(t)
  BY <1>6, ReadKeeps
<1>7. CASE WriteTag(t)
  BY <1>7, WriteTagKeeps
<1>8. CASE EditWritten(t)
  BY <1>8, EditWrittenKeeps
<1>9. CASE UpdateItemResetDirty(t)
  BY <1>9, ResetKeeps
<1>10. CASE UpdateItem(t) \/ UpdateFullSongData(t)
  BY <1>10, ReplaceKeeps
<1> QED BY <1>1, <1>2, <1>3, <1>4, <1>5, <1>6, <1>7, <1>8, <1>9, <1>10 DEF Step, DirtyStep, LoopStep

LEMMA NextKeeps ==
    ASSUME IInv, [Next]_vars
    PROVE  IInv'
<1>1. CASE \E t \in DirtyWriters : WriteTags(t)
  <2> PICK t \in DirtyWriters : WriteTags(t)
    BY <1>1
  <2> QED BY StartKeeps, Apart DEF WriteTags
<1>2. CASE \E t \in Editors : EditCommit(t) \/ RetagSelFiles(t) \/ Apply(t)
  <2>1. PICK t \in Editors : EditCommit(t) \/ RetagSelFiles(t) \/ Apply(t)
    BY <1>2
  <2>2. PICK tag \in Tags, option \in BOOLEAN, announced \in BOOLEAN :
            Starts(t, Songs, tag, option, announced)
    BY <2>1 DEF EditCommit, RetagSelFiles, Apply
  <2> QED BY <2>2, StartKeeps, Apart
<1>3. CASE \E t \in Rebuilds : UpdateLibrary(t)
  <2>1. PICK t \in Rebuilds, force \in BOOLEAN : Starts(t, Songs, None, force, FALSE)
    BY <1>3 DEF UpdateLibrary
  <2> QED BY <2>1, StartKeeps, Apart
<1>4. CASE \E t \in Threads : Step(t)
  BY <1>4, StepKeeps
<1>5. CASE OnEndProgress \/ Escape
  BY <1>5, FrameSteps
<1>6. CASE ForeignTag \/ ClearDirtyTags
  BY <1>6, OtherProgramKeeps
<1>7. CASE UNCHANGED vars
  BY <1>7 DEF vars, dbVars, frameVars, ghosts, IInv, TypeOK, Placed, PlacedAt, Heard, DanglingIsBrief,
              RowsInv, Synced, RowsFit, NewerThanRow, ResetAlone, TagIsOfFile, Resets, Takes, At, Holds
<1> QED BY <1>1, <1>2, <1>3, <1>4, <1>5, <1>6, <1>7 DEF Next

LEMMA Invariance == Spec => []IInv
  BY InitIsGood, NextKeeps, PTL DEF Spec

(* Files, rows and jobs have their types in every reachable state.         *)
THEOREM TypeCorrect == Spec => []TypeOK
<1>1. IInv => TypeOK
  BY DEF IInv
<1> QED BY <1>1, Invariance, PTL

(* A song whose file lacks its tag is dirty, or its file will be read: the *)
(* writer of dirty tags resets no flag it should not, and no rebuild or    *)
(* editor leaves the row and the file apart (MusikLibrary.cpp:939).        *)
THEOREM DirtyIsNotForgotten == Spec => []DirtyOrSame
<1>1. IInv => DirtyOrSame
  BY DEF IInv, RowsInv, RowsFit, Synced, DirtyOrSame, TypeOK
<1> QED BY <1>1, Invariance, PTL

(* The frame that aborts its active thread on Escape holds a pointer to a  *)
(* deleted one only until it has heard of its end (MusikFrameEvents.cpp,   *)
(* OnEndProgress).                                                         *)
THEOREM ActiveIsHeard == Spec => []DanglingIsBrief
<1>1. IInv => DanglingIsBrief
  BY DEF IInv, Heard
<1> QED BY <1>1, Invariance, PTL

-----------------------------------------------------------------------------
(* No tag is taken back.                                                   *)

(* What a song's newer file holds is what the song was given last, or an   *)
(* editor that wrote it is about to change the row.                        *)
NewerIsLatest ==
    \A s \in Songs \ (raced \union foreign) : work[s].newer =>
        file[s] = latest[s] \/ \E u \in Editors : Takes(u, s) /\ job[u].option

(* A writer of dirty tags has copied the latest tag.  A rebuild reads only *)
(* newer files, and takes from them the latest tag, unless another thread  *)
(* has written the file since.                                             *)
Rereads(t) == t \in Rebuilds /\ ~job[t].option /\ writer = t
EditPart(t) ==
    /\ t \in Editors /\ At(t, {"write"}) => job[t].option
    /\ \A s \in Songs \ raced :
          /\ t \in DirtyWriters /\ Holds(t, s) /\ At(t, {"write"}) => job[t].tag = latest[s]
          /\ Rereads(t) /\ Holds(t, s) /\ At(t, {"read"}) => work[s].newer
          /\ Rereads(t) /\ Takes(t, s) /\ s \notin foreign =>
                \/ job[t].tag = latest[s]
                \/ \E u \in Threads \ {t} : Resets(u, s) \/ Takes(u, s)
EditsInv == EditsSurvive /\ NewerIsLatest /\ \A t \in Threads : EditPart(t)

(* Most places leave nothing to say of a thread.                           *)
LEMMA PlainPart ==
    ASSUME NEW t \in Threads,
           \/ job'[t].at \notin {"write", "read", "update"}
           \/ t \in Editors /\ (job'[t].at = "write" => job'[t].option)
    PROVE  EditPart(t)'
  BY Apart DEF EditPart, At, Rereads, Takes

(* What t leaves of the tags and of the other threads' parts, unless two   *)
(* have worked on the song.                                                *)
LEMMA EditsFollow ==
    ASSUME EditsInv, NEW t \in Threads, OnlyJobOf(t), EditPart(t)', NewerIsLatest',
           latest' = latest, raced \subseteq raced',
           \A u \in Threads \ {t} : writer' = u => writer = u,
           \A s \in Songs \ raced' :
              /\ work'[s].tag = work[s].tag /\ (work[s].newer => work'[s].newer)
              /\ s \in foreign' \/ s \notin foreign \/ Resets(t, s)' \/ Takes(t, s)'
              /\ \A u \in Threads \ {t} : writer = u /\ (Resets(t, s) \/ Takes(t, s))
                                           => Resets(t, s)' \/ Takes(t, s)'
    PROVE  EditsInv'
<1>1. EditsSurvive'
  BY DEF EditsInv, EditsSurvive
<1>2. ASSUME NEW u \in Threads \ {t} PROVE EditPart(u)'
  <2>0. /\ EditPart(u) /\ job'[u] = job[u] /\ (writer' = u => writer = u)
        /\ \A s : (Takes(u, s)' <=> Takes(u, s))
    BY OthersStay DEF EditsInv
  <2>1. u \in Editors /\ At(u, {"write"})' => job'[u].option
    BY <2>0 DEF EditPart, At
  <2>2. ASSUME NEW s \in Songs \ raced'
        PROVE  /\ u \in DirtyWriters /\ Holds(u, s)' /\ At(u, {"write"})' => job'[u].tag = latest'[s]
               /\ Rereads(u)' /\ Holds(u, s)' /\ At(u, {"read"})' => work'[s].newer
    BY <2>0 DEF EditPart, At, Holds, Rereads
  <2>3. ASSUME NEW s \in Songs \ raced', Rereads(u)', Takes(u, s)', s \notin foreign',
               job'[u].tag # latest'[s]
        PROVE  \E w \in Threads \ {u} : Resets(w, s)' \/ Takes(w, s)'
    <3>1. Rereads(u) /\ Takes(u, s) /\ job[u].tag # latest[s] /\ writer = u
      BY <2>0, <2>3 DEF Rereads
    <3>2. CASE Resets(t, s)' \/ Takes(t, s)'
      BY <3>2
    <3>3. CASE ~(Resets(t, s)' \/ Takes(t, s)')
      <4>1. s \notin foreign
        BY <2>3, <3>3
      <4>2. PICK w \in Threads \ {u} : Resets(w, s) \/ Takes(w, s)
        BY <2>0, <3>1, <4>1 DEF EditPart
      <4>3. w # t
        BY <3>1, <3>3, <4>2
      <4> QED BY <4>2, <4>3, OthersStay
    <3> QED BY <3>2, <3>3
  <2> QED BY <2>1, <2>2, <2>3 DEF EditPart
<1> QED BY <1>1, <1>2 DEF EditsInv

(* A step that changes no tag, and neither takes an editor's written song  *)
(* away nor makes a file newer.                                            *)
LEMMA NewerStays ==
    ASSUME EditsInv, NEW t \in Threads, OnlyJobOf(t), UNCHANGED <<file, latest, foreign>>,
           raced \subseteq raced',
           \A s \in Songs \ raced' :
              /\ work'[s].newer => work[s].newer
              /\ Takes(t, s) => Takes(t, s)' /\ job'[t].option = job[t].option
    PROVE  NewerIsLatest'
<1> SUFFICES ASSUME NEW s \in Songs \ (raced' \union foreign'), work'[s].newer,
                    file'[s] # latest'[s]
             PROVE  \E u \in Editors : Takes(u, s)' /\ job'[u].option
  BY DEF NewerIsLatest
<1>1. PICK u \in Editors : Takes(u, s) /\ job[u].option
  BY DEF EditsInv, NewerIsLatest
<1>2. u \in Threads
  BY Apart
<1>3. CASE u = t
  BY <1>1, <1>3
<1>4. CASE u # t
  <2>1. Takes(u, s)' /\ job'[u] = job[u]
    BY <1>1, <1>2, <1>4, OthersStay
  <2> QED BY <1>1, <2>1
<1> QED BY <1>3, <1>4

LEMMA QuietEdits ==
    ASSUME EditsInv, NEW t \in Threads, OnlyJobOf(t), EditPart(t)',
           UNCHANGED <<file, work, latest, foreign>>, raced \subseteq raced',
           \A u \in Threads \ {t} : writer' = u => writer = u,
           \A s \in Songs \ raced' :
              /\ ~Takes(t, s)
              /\ Resets(t, s) => Resets(t, s)' \/ writer = t
    PROVE  EditsInv'
<1>1. NewerIsLatest'
  BY NewerStays
<1> QED BY <1>1, EditsFollow

(* Steps of the frame, and of a thread that starts, ends or looks for work. *)
LEMMA LifeEdits ==
    ASSUME IInv, EditsInv, NEW t \in Threads,
           \/ \E songs \in SUBSET Songs, tag \in Tags \union {None},
                 option \in BOOLEAN, announced \in BOOLEAN : Starts(t, songs, tag, option, announced)
           \/ Entry(t) \/ OnExit(t) \/ IsDeleted(t) \/ OnThreadEnd(t) \/ DirtyFinished(t)
           \/ QueryDirty(t) \/ LastSong(t) \/ FileIsOld(t) \/ WriteTagFails(t)
    PROVE  EditsInv'
<1>0. TypeOK
  BY DEF IInv
<1>1. UNCHANGED <<file, work, writer, latest, foreign, raced>>
  BY DEF Starts, Entry, OnExit, IsDeleted, OnThreadEnd, DirtyFinished, QueryDirty, LastSong,
         FileIsOld, WriteTagFails, dbVars, ghosts
<1>2. job[t].at \in {"none", "born", "exit", "ended", "next", "fresh", "query", "write"}
  BY DEF Starts, Entry, OnExit, IsDeleted, OnThreadEnd, DirtyFinished, QueryDirty, LastSong,
         FileIsOld, WriteTagFails, InLoop, At
<1>3. OnlyJobOf(t) /\ job'[t].at \in Places \ {"write", "read", "update"}
  <2>1. ASSUME NEW songs \in SUBSET Songs, NEW tag \in Tags \union {None}, NEW option \in BOOLEAN,
               NEW announced \in BOOLEAN, Starts(t, songs, tag, option, announced)
        PROVE  OnlyJobOf(t) /\ job'[t].at \in {"born", "begin"}
    BY <1>0, <2>1 DEF TypeOK, Starts, NoJob, Jobs, OnlyJobOf
  <2>2. ASSUME NEW place \in Places \ {"write", "read", "update"}, Goes(t, place) \/ Leaves(t, place)
        PROVE  OnlyJobOf(t) /\ job'[t].at = place
    BY <1>0, <2>2, GoesMoves, LeavesMoves
  <2>3. CASE QueryDirty(t) \/ FileIsOld(t)
    BY <1>0, <2>3 DEF TypeOK, QueryDirty, FileIsOld, OnlyJobOf, Places, Jobs
  <2>4. CASE Entry(t) \/ OnExit(t) \/ IsDeleted(t) \/ OnThreadEnd(t) \/ DirtyFinished(t)
    <3>1. PICK place \in {"query", "begin", "ended", "gone", "exit"} : Goes(t, place)
      BY <2>4 DEF Entry, OnExit, IsDeleted, OnThreadEnd, DirtyFinished
    <3> QED BY <2>2, <3>1 DEF Places
  <2>5. CASE LastSong(t) \/ WriteTagFails(t)
    <3>1. Goes(t, "end") \/ Goes(t, "renew") \/ Leaves(t, "next")
      BY <2>5 DEF LastSong, WriteTagFails
    <3> QED BY <2>2, <3>1 DEF Places
  <2> QED BY <2>1, <2>3, <2>4, <2>5 DEF Places
<1>4. \A s \in Songs : ~Takes(t, s) /\ ~Resets(t, s)
  BY <1>2 DEF Takes, Resets, At
<1>5. EditPart(t)'
  BY <1>3, PlainPart
<1> QED BY <1>1, <1>3, <1>4, <1>5, QuietEdits

LEMMA TransactionEdits ==
    ASSUME IInv, EditsInv, NEW t \in Threads, BeginTransaction(t) \/ EndTransaction(t)
    PROVE  EditsInv'
<1>0. TypeOK /\ PlacedAt(t) /\ RowsInv
  BY DEF IInv, Placed
<1>1. /\ UNCHANGED <<file, work, latest, foreign>> /\ raced \subseteq raced'
      /\ \A u \in Threads \ {t} : writer' = u => writer = u
      /\ job[t].at \in {"begin", "end", "renew"}
  BY <1>0, Apart DEF BeginTransaction, EndTransaction, At, ghosts
<1>2. OnlyJobOf(t) /\ job'[t].at \in {"reset", "fresh", "begin", "next", "exit", "gone"}
  BY <1>0, GoesMoves, LeavesMoves DEF BeginTransaction, EndTransaction, Places
<1>3. EditPart(t)'
  BY <1>2, PlainPart
<1>4. \A s \in Songs \ raced' : ~Takes(t, s)
  BY <1>1 DEF Takes, At
<1>5. ASSUME NEW s \in Songs \ raced', Resets(t, s)
      PROVE  Resets(t, s)' \/ writer = t
  <2>1. CASE BeginTransaction(t)
    <3>1. job'[t].at = "reset" /\ SameSong(t)
      BY <1>0, <1>5, <2>1, GoesMoves DEF BeginTransaction, Resets, Places
    <3> QED BY <1>5, <3>1 DEF Resets, Holds, At, SameSong
  <2>2. CASE EndTransaction(t)
    <3>1. ~At(t, {"begin"})
      BY <2>2 DEF EndTransaction, At
    <3> QED BY <1>0, <1>1, <1>5, <3>1 DEF RowsInv, ResetAlone
  <2> QED BY <2>1, <2>2
<1> QED BY <1>1, <1>2, <1>3, <1>4, <1>5, QuietEdits

(* A thread takes up a song: the writer of dirty tags copies its tag, an   *)
(* editor has its own, a rebuild looks at the file's age.                  *)
LEMMA SongEdits ==
    ASSUME IInv, EditsInv, NEW t \in Threads, SongCopy(t) \/ Edit(t) \/ FileIsNewer(t)
    PROVE  EditsInv'
<1>0. TypeOK /\ PlacedAt(t)
  BY DEF IInv, Placed
<1>1. /\ UNCHANGED <<file, work, disk, writer, latest, foreign>> /\ raced \subseteq raced'
      /\ job[t].at \in {"fresh", "next"}
  BY DEF SongCopy, Edit, FileIsNewer, InLoop, At, dbVars, ghosts
<1>2. \A s \in Songs \ raced' : ~Takes(t, s) /\ ~Resets(t, s)
  BY <1>1 DEF Takes, Resets, At
<1>3. OnlyJobOf(t) /\ EditPart(t)'
  <2>1. CASE SongCopy(t)
    <3>1. /\ NextSong(t, "write", [s \in Songs |-> disk[s].tag]) /\ t \in DirtyWriters
          /\ [s \in Songs |-> disk[s].tag] \in [Songs -> Tags \union {None}]
      BY <1>0, <2>1 DEF SongCopy, TypeOK, Rows
    <3>2. /\ OnlyJobOf(t) /\ job'[t].at = "write" /\ job'[t].song \in Songs
          /\ job'[t].tag = [s \in Songs |-> disk[s].tag][job'[t].song]
      BY <1>0, <3>1, NextSongMoves DEF Places
    <3>3. job'[t].tag = disk[job'[t].song].tag
      BY <3>2
    <3>4. raced' = raced \union {s \in Songs : job'[t].song = s /\ work[s].tag # disk[s].tag}
      BY <2>1 DEF SongCopy
    <3>5. \A s \in Songs \ raced' : job'[t].song = s => job'[t].tag = latest'[s]
      BY <1>1, <3>3, <3>4 DEF EditsInv, EditsSurvive
    <3> QED BY <3>1, <3>2, <3>5, Apart DEF EditPart, At, Holds, Rereads, Takes
  <2>2. CASE Edit(t)
    <3>1. t \in Editors /\ job[t].tag \in Tags
      BY <1>0, <2>2 DEF PlacedAt, Edit, InLoop, At
    <3>2. /\ NextSong(t, IF job[t].option THEN "write" ELSE "update", [s \in Songs |-> job[t].tag])
          /\ [s \in Songs |-> job[t].tag] \in [Songs -> Tags \union {None}]
      BY <2>2, <3>1 DEF Edit
    <3>3. CASE job[t].option
      BY <1>0, <3>1, <3>2, <3>3, NextSongMoves, PlainPart DEF Places
    <3>4. CASE ~job[t].option
      BY <1>0, <3>1, <3>2, <3>4, NextSongMoves, PlainPart DEF Places
    <3> QED BY <3>3, <3>4
  <2>3. CASE FileIsNewer(t)
    <3>1. NextSong(t, "read", [s \in Songs |-> None]) /\ t \in Rebuilds
      BY <2>3 DEF FileIsNewer
    <3>2. /\ OnlyJobOf(t) /\ job'[t].at = "read" /\ job'[t].song \in Songs
          /\ job'[t].option = job[t].option
      BY <1>0, <3>1, NextSongMoves DEF Places
    <3>3. job[t].option \/ (IF writer = t THEN work ELSE disk)[job'[t].song].newer
      BY <2>3 DEF FileIsNewer
    <3> QED BY <1>1, <3>1, <3>2, <3>3, Apart DEF EditPart, At, Holds, Rereads, Takes
  <2> QED BY <2>1, <2>2, <2>3
<1> QED BY <1>1, <1>2, <1>3, QuietEdits

(* A rebuild reads the file.                                               *)
LEMMA ReadEdits ==
    ASSUME IInv, EditsInv, NEW t \in Threads, GetMetaData(t)
    PROVE  EditsInv'
<1>0. TypeOK /\ PlacedAt(t)
  BY DEF IInv, Placed
<1>1. /\ UNCHANGED <<file, work, writer, latest, foreign, raced>> /\ job[t].at = "read"
  BY DEF GetMetaData, At, dbVars, ghosts
<1>2. \A s \in Songs \ raced' : ~Takes(t, s) /\ ~Resets(t, s)
  BY <1>1 DEF Takes, Resets, At
<1>3. CASE Leaves(t, "next")
  BY <1>0, <1>1, <1>2, <1>3, LeavesMoves, PlainPart, QuietEdits DEF Places
<1>4. CASE job' = [job EXCEPT ![t].at = "update", ![t].tag = file[job[t].song]]
  <2>1. job[t].song \in Songs /\ job[t] \in Jobs
    BY <1>0, <1>1 DEF PlacedAt, TypeOK, At
  <2>2. /\ OnlyJobOf(t) /\ job'[t].at = "update" /\ job'[t].song = job[t].song
        /\ job'[t].tag = file[job[t].song] /\ job'[t].option = job[t].option
    BY <1>0, <1>4, <2>1 DEF TypeOK, Jobs, OnlyJobOf
  <2>3. ASSUME NEW s \in Songs \ raced, Rereads(t), job[t].song = s, s \notin foreign,
               file[s] # latest[s]
        PROVE  \E u \in Threads \ {t} : Takes(u, s)'
    <3>1. work[s].newer
      BY <1>1, <2>3 DEF EditsInv, EditPart, Holds, At
    <3>2. PICK u \in Editors : Takes(u, s)
      BY <2>3, <3>1 DEF EditsInv, NewerIsLatest
    <3>3. u \in Threads \ {t}
      BY <2>3, <3>2, Apart DEF Rereads
    <3> QED BY <2>2, <3>2, <3>3, OthersStay
  <2>4. EditPart(t)'
    <3>1. \A s \in Songs : Takes(t, s)' => job[t].song = s
      BY <2>2 DEF Takes, Holds
    <3>2. Rereads(t)' => Rereads(t)
      BY <1>1, <2>2 DEF Rereads
    <3>3. job'[t].at \notin {"write", "read"}
      BY <2>2
    <3> QED BY <1>1, <2>2, <2>3, <3>1, <3>2, <3>3 DEF EditPart, At
  <2> QED BY <1>1, <1>2, <2>2, <2>4, QuietEdits
<1> QED BY <1>3, <1>4 DEF GetMetaData

(* A file is written with the tag it should have.                          *)
LEMMA WriteEdits ==
    ASSUME IInv, EditsInv, NEW t \in Threads, WriteTag(t) \/ EditWritten(t)
    PROVE  EditsInv'
<1> DEFINE song == job[t].song
<1>0. TypeOK /\ PlacedAt(t) /\ EditPart(t)
  BY DEF IInv, Placed, EditsInv
<1>1. /\ job[t].at = "write" /\ song \in Songs /\ job[t].tag \in Tags
      /\ UNCHANGED <<writer, latest, raced>>
      /\ t \in DirtyWriters \/ (t \in Editors /\ job[t].option)
  BY <1>0 DEF WriteTag, EditWritten, At, PlacedAt, EditPart
<1>2. \A s \in Songs : ~Takes(t, s) /\ ~Resets(t, s)
  BY <1>1 DEF Takes, Resets, At
<1>3. CASE UNCHANGED <<file, disk, work, foreign>> /\ Leaves(t, "next")
  BY <1>0, <1>1, <1>2, <1>3, LeavesMoves, PlainPart, QuietEdits DEF Places
<1>4. CASE /\ WritesFile(song, job[t].tag)
           /\ \/ t \in DirtyWriters /\ Goes(t, "begin")
              \/ t \in Editors /\ Goes(t, "update")
  <2>1. /\ OnlyJobOf(t) /\ SameSong(t)
        /\ \/ t \in DirtyWriters /\ job'[t].at = "begin"
           \/ t \in Editors /\ job'[t].at = "update"
    BY <1>0, <1>4, GoesMoves DEF Places
  <2>2. EditPart(t)'
    BY <2>1, PlainPart
  <2>3. \A s \in Songs : s = song =>
            \/ t \notin Editors /\ Resets(t, s)'
            \/ t \in Editors /\ Takes(t, s)' /\ job'[t].option
    BY <1>1, <2>1, Apart DEF Resets, Takes, Holds, At, SameSong
  <2>4. /\ \A x \in Songs \ {song} : work'[x] = work[x] /\ file'[x] = file[x]
        /\ \A x \in Songs : work'[x].tag = work[x].tag /\ (work[x].newer => work'[x].newer)
        /\ \/ file'[song] = job[t].tag
           \/ file'[song] = file[song] /\ work' = work /\ foreign' = foreign
        /\ \A x \in Songs \ {song} : x \in foreign' <=> x \in foreign
    <3>1. CASE song \in Unsupported
      BY <1>4, <3>1 DEF WritesFile
    <3>2. CASE song \notin Unsupported
      <4>1. /\ file' = [file EXCEPT ![song] = job[t].tag]
            /\ work' = [work EXCEPT ![song].newer = TRUE] /\ foreign' = foreign \ {song}
        BY <1>4, <3>2 DEF WritesFile, Newer
      <4>2. file \in [Songs -> Tags] /\ work \in [Songs -> Rows]
        BY <1>0 DEF TypeOK
      <4>3. file'[song] = job[t].tag /\ work'[song].tag = work[song].tag /\ work'[song].newer
        BY <1>1, <4>1, <4>2 DEF Rows
      <4>4. \A x \in Songs \ {song} : work'[x] = work[x] /\ file'[x] = file[x]
        BY <4>1, <4>2
      <4> QED BY <4>1, <4>3, <4>4
    <3> QED BY <3>1, <3>2
  <2>5. NewerIsLatest'
    <3> SUFFICES ASSUME NEW s \in Songs \ (raced' \union foreign'), work'[s].newer,
                        file'[s] # latest'[s]
                 PROVE  \E u \in Editors : Takes(u, s)' /\ job'[u].option
      BY DEF NewerIsLatest
    <3>1. CASE t \in Editors /\ s = song
      BY <2>3, <3>1
    <3>2. CASE t \in DirtyWriters /\ s = song /\ file'[song] = job[t].tag
      <4>1. job[t].tag = latest[s]
        BY <1>0, <1>1, <3>2 DEF EditPart, Holds, At
      <4> QED BY <1>1, <3>2, <4>1
    <3>3. CASE s # song \/ (file'[song] = file[song] /\ work' = work /\ foreign' = foreign)
      <4>1. /\ work[s].newer /\ file[s] # latest[s] /\ s \notin raced \union foreign
        BY <1>1, <2>4, <3>3
      <4>2. PICK u \in Editors : Takes(u, s) /\ job[u].option
        BY <4>1 DEF EditsInv, NewerIsLatest
      <4>3. u \in Threads \ {t}
        BY <1>2, <4>2, Apart
      <4>4. Takes(u, s)' /\ job'[u] = job[u]
        BY <2>1, <4>2, <4>3, OthersStay
      <4> QED BY <4>2, <4>4
    <3> QED BY <1>1, <2>4, <3>1, <3>2, <3>3
  <2>6. ASSUME NEW s \in Songs
        PROVE  s \in foreign' \/ s \notin foreign \/ Resets(t, s)' \/ Takes(t, s)'
    <3>1. CASE s = song
      BY <2>3, <3>1
    <3>2. CASE s # song
      BY <2>4, <3>2
    <3> QED BY <3>1, <3>2
  <2> QED BY <1>1, <1>2, <2>1, <2>2, <2>4, <2>5, <2>6, EditsFollow
<1> QED BY <1>1, <1>3, <1>4, Apart DEF WriteTag, EditWritten

(* The flag of a song is reset, and no more of its row.                    *)
LEMMA ResetEdits ==
    ASSUME IInv, EditsInv, NEW t \in Threads, UpdateItemResetDirty(t)
    PROVE  EditsInv'
<1> DEFINE song == job[t].song
           row == [work[song] EXCEPT !.dirty = FALSE]
<1>0. TypeOK /\ PlacedAt(t) /\ Synced
  BY DEF IInv, Placed, RowsInv
<1>1. /\ job[t].at = "reset" /\ song \in Songs /\ t \in DirtyWriters
      /\ UNCHANGED <<file, latest, foreign, raced>>
  BY <1>0 DEF UpdateItemResetDirty, At, PlacedAt, ghosts
<1>2. OnlyJobOf(t) /\ SameSong(t) /\ job'[t].at = "end"
  BY <1>0, GoesMoves DEF UpdateItemResetDirty, Places
<1>3. row \in Rows /\ row.tag = work[song].tag /\ row.newer = work[song].newer
  BY <1>0, <1>1 DEF TypeOK, Rows
<1>4. /\ writer' = writer
      /\ \A s \in Songs : work'[s].tag = work[s].tag /\ work'[s].newer = work[s].newer
  <2>1. CASE Changes(t, song, row)
    <3>1. /\ writer' = writer /\ work'[song] = row
          /\ \A s \in Songs \ {song} : work'[s] = work[s]
      BY <1>0, <1>1, <1>3, <2>1, ChangesRow
    <3> QED BY <1>3, <3>1
  <2>2. CASE UNCHANGED dbVars
    BY <2>2 DEF dbVars
  <2> QED BY <2>1, <2>2 DEF UpdateItemResetDirty
<1>5. \A s \in Songs : ~Takes(t, s) /\ (Resets(t, s) => Resets(t, s)')
  BY <1>1, <1>2 DEF Takes, Resets, Holds, At, SameSong
<1>6. EditPart(t)'
  BY <1>2, PlainPart
<1>7. NewerIsLatest'
  BY <1>1, <1>2, <1>4, <1>5, NewerStays
<1> QED BY <1>1, <1>2, <1>4, <1>5, <1>6, <1>7, EditsFollow

(* A row is replaced: by an editor, whose tag is the latest, or by a       *)
(* rebuild that is alone with the song and has read the latest.            *)
LEMMA ReplaceEdits ==
    ASSUME IInv, EditsInv, NEW t \in Threads, UpdateItem(t) \/ UpdateFullSongData(t)
    PROVE  EditsInv'
<1>0. TypeOK /\ PlacedAt(t) /\ Synced /\ EditPart(t)
  BY DEF IInv, Placed, RowsInv, EditsInv
<1> DEFINE song == job[t].song
           flag == IF t \in Editors THEN ~job[t].option ELSE FALSE
           row == [tag |-> job[t].tag, dirty |-> flag, newer |-> FALSE]
<1>1. /\ job[t].at = "update" /\ t \notin DirtyWriters /\ (t \in Editors \/ t \in Rebuilds)
      /\ song \in Songs /\ job[t].tag \in Tags /\ job[t] \in Jobs
      /\ Replaces(t, job[t].tag, flag) /\ UNCHANGED file
  BY <1>0, Apart DEF UpdateItem, UpdateFullSongData, At, PlacedAt, TypeOK
<1>2. OnlyJobOf(t) /\ job'[t].at = "next" /\ job'[t].song = None
  BY <1>0, <1>1, LeavesMoves DEF Replaces, Places
<1>3. /\ raced' = raced \/ raced' = raced \union {song}
      /\ song \notin raced' => writer = t /\ \A u \in Threads \ {t} : ~Holds(u, song)
  BY <1>1 DEF Replaces, Races
<1>4. /\ writer' = writer
      /\ \A s \in Songs \ {song} : /\ work'[s] = work[s] /\ latest'[s] = latest[s]
                                   /\ s \in foreign' <=> s \in foreign
      /\ writer = t => /\ work'[song] = row
                       /\ t \in Editors \/ job[t].option \/ song \in foreign
                             => latest'[song] = job[t].tag
                       /\ ~(t \in Editors \/ job[t].option \/ song \in foreign)
                             => latest'[song] = latest[song]
  <2>1. CASE Changes(t, song, row) /\ ~(Refused(t) /\ UNCHANGED <<dbVars, latest, foreign, finalized>>)
    <3>1. row \in Rows
      BY <1>1 DEF Rows, Jobs
    <3>2. /\ latest' = [latest EXCEPT ![song] =
                 IF t \in Editors \/ job[t].option \/ song \in foreign THEN job[t].tag ELSE @]
          /\ foreign' = foreign \ {song}
      BY <1>1, <2>1 DEF Replaces
    <3>3. /\ writer' = writer /\ work'[song] = row
          /\ \A s \in Songs \ {song} : work'[s] = work[s]
      BY <1>0, <1>1, <2>1, <3>1, ChangesRow
    <3>4. latest \in [Songs -> Tags]
      BY <1>0 DEF TypeOK
    <3> QED BY <1>1, <3>2, <3>3, <3>4
  <2>2. CASE Refused(t) /\ UNCHANGED <<dbVars, latest, foreign, finalized>>
    BY <2>2 DEF dbVars, Refused
  <2> QED BY <1>1, <2>1, <2>2 DEF Replaces
<1>5. \A s \in Songs : /\ Takes(t, s) \/ Resets(t, s) => s = song
                       /\ Takes(t, song) /\ ~Resets(t, s)' /\ ~Takes(t, s)'
  BY <1>1, <1>2 DEF Resets, Takes, Holds, At
<1>6. EditsSurvive'
  <2> SUFFICES ASSUME NEW s \in Songs \ raced' PROVE work'[s].tag = latest'[s]
    BY DEF EditsSurvive
  <2>1. CASE s # song
    BY <1>3, <1>4, <2>1 DEF EditsInv, EditsSurvive
  <2>2. CASE s = song
    <3>1. writer = t /\ work'[s].tag = job[t].tag /\ s \notin raced
      BY <1>3, <1>4, <2>2
    <3>2. CASE t \in Editors \/ job[t].option \/ song \in foreign
      BY <1>4, <2>2, <3>1, <3>2
    <3>3. CASE ~(t \in Editors \/ job[t].option \/ song \in foreign)
      <4>1. Rereads(t) /\ Takes(t, s) /\ s \notin foreign
        BY <1>1, <1>5, <2>2, <3>1, <3>3 DEF Rereads
      <4>2. \A u \in Threads \ {t} : ~Resets(u, s) /\ ~Takes(u, s)
        BY <1>3, <2>2 DEF Resets, Takes
      <4>3. job[t].tag = latest[s]
        BY <1>0, <3>1, <4>1, <4>2 DEF EditPart
      <4> QED BY <1>4, <2>2, <3>1, <3>3, <4>3
    <3> QED BY <3>2, <3>3
  <2> QED BY <2>1, <2>2
<1>7. NewerIsLatest'
  <2> SUFFICES ASSUME NEW s \in Songs \ (raced' \union foreign'), work'[s].newer,
                      file'[s] # latest'[s]
               PROVE  \E u \in Editors : Takes(u, s)' /\ job'[u].option
    BY DEF NewerIsLatest
  <2>1. s # song
    BY <1>3, <1>4
  <2>2. /\ work[s].newer /\ file[s] # latest[s] /\ s \notin raced \union foreign
    BY <1>1, <1>3, <1>4, <2>1
  <2>3. PICK u \in Editors : Takes(u, s) /\ job[u].option
    BY <2>2 DEF EditsInv, NewerIsLatest
  <2>4. u \in Threads \ {t}
    BY <1>5, <2>1, <2>3, Apart
  <2>5. Takes(u, s)' /\ job'[u] = job[u]
    BY <1>2, <2>3, <2>4, OthersStay
  <2> QED BY <2>3, <2>5
<1>8. ASSUME NEW u \in Threads \ {t} PROVE EditPart(u)'
  <2>0. /\ EditPart(u) /\ job'[u] = job[u] /\ (Rereads(u)' => Rereads(u))
        /\ \A s : (Takes(u, s)' <=> Takes(u, s))
        /\ \A s : Takes(u, s) => Holds(u, s)
    BY <1>2, <1>4, OthersStay DEF EditsInv, Rereads, Takes
  <2>1. \A s \in Songs \ raced' : Holds(u, s) => s # song
    BY <1>3
  <2>2. u \in Editors /\ At(u, {"write"})' => job'[u].option
    BY <2>0 DEF EditPart, At
  <2>3. ASSUME NEW s \in Songs \ raced', Holds(u, s)'
        PROVE  /\ u \in DirtyWriters /\ At(u, {"write"})' => job'[u].tag = latest'[s]
               /\ Rereads(u)' /\ At(u, {"read"})' => work'[s].newer
    <3>1. Holds(u, s) /\ s # song /\ s \notin raced
      BY <1>3, <2>0, <2>1, <2>3 DEF Holds
    <3> QED BY <1>4, <2>0, <3>1 DEF EditPart, At
  <2>4. ASSUME NEW s \in Songs \ raced', Rereads(u)', Takes(u, s)', s \notin foreign',
               job'[u].tag # latest'[s]
        PROVE  \E w \in Threads \ {u} : Resets(w, s)' \/ Takes(w, s)'
    <3>1. Rereads(u) /\ Takes(u, s) /\ s # song /\ s \notin raced
      BY <1>3, <2>0, <2>1, <2>4
    <3>2. job[u].tag # latest[s] /\ s \notin foreign
      BY <1>4, <2>0, <2>4, <3>1
    <3>3. PICK w \in Threads \ {u} : Resets(w, s) \/ Takes(w, s)
      BY <2>0, <3>1, <3>2 DEF EditPart
    <3>4. w # t
      BY <1>5, <3>1, <3>3
    <3> QED BY <1>2, <3>3, <3>4, OthersStay
  <2> QED BY <2>2, <2>3, <2>4 DEF EditPart
<1>9. EditPart(t)'
  BY <1>2, PlainPart
<1> QED BY <1>6, <1>7, <1>8, <1>9 DEF EditsInv

(* Other programs write tags while no thread holds the song, and a clean   *)
(* song keeps its tag.                                                     *)
LEMMA OtherEdits ==
    ASSUME IInv, EditsInv, ForeignTag \/ ClearDirtyTags
    PROVE  EditsInv'
<1>0. TypeOK /\ Synced
  BY DEF IInv, RowsInv
<1>1. UNCHANGED <<writer, job, latest>> /\ raced \subseteq raced' /\ foreign \subseteq foreign'
  BY DEF ForeignTag, ClearDirtyTags
<1>2. \A t \in Threads : \A s \in Songs :
          /\ (Resets(t, s)' <=> Resets(t, s)) /\ (Takes(t, s)' <=> Takes(t, s))
          /\ Holds(t, s)' <=> Holds(t, s)
  BY <1>1 DEF Resets, Takes, Holds, At
<1>3. \A s \in Songs : /\ work'[s].tag = work[s].tag /\ (work[s].newer => work'[s].newer)
                       /\ \/ file'[s] = file[s] /\ (work'[s].newer => work[s].newer)
                          \/ s \in foreign'
  <2>1. CASE ForeignTag
    <3>1. PICK x \in Songs, tag \in Tags, newer \in BOOLEAN :
              /\ file' = [file EXCEPT ![x] = tag]
              /\ work' = [work EXCEPT ![x].newer = newer \/ @]
              /\ foreign' = foreign \union {x}
      BY <2>1 DEF ForeignTag
    <3>2. file \in [Songs -> Tags] /\ work \in [Songs -> Rows]
      BY <1>0 DEF TypeOK
    <3> QED BY <3>1, <3>2 DEF Rows
  <2>2. CASE ClearDirtyTags
    <3>1. /\ writer = None /\ file' = file
          /\ work' = [s \in Songs |-> [disk[s] EXCEPT !.dirty = FALSE]]
      BY <2>2 DEF ClearDirtyTags
    <3> QED BY <1>0, <3>1 DEF TypeOK, Rows, Synced
  <2> QED BY <2>1, <2>2
<1>4. EditsSurvive'
  BY <1>1, <1>3 DEF EditsInv, EditsSurvive
<1>5. NewerIsLatest'
  <2>1. \A u \in Editors : u \in Threads
    BY Apart
  <2> QED BY <1>1, <1>2, <1>3, <2>1 DEF EditsInv, NewerIsLatest
<1>6. ASSUME NEW t \in Threads PROVE EditPart(t)'
  BY <1>1, <1>2, <1>3 DEF EditsInv, EditPart, Rereads, At
<1> QED BY <1>4, <1>5, <1>6 DEF EditsInv

(* Escape and the end of a thread touch no song.                           *)
LEMMA FrameEdits ==
    ASSUME IInv, EditsInv, Escape \/ OnEndProgress
    PROVE  EditsInv'
<1>1. \A t \in Threads :
          /\ job'[t].at = job[t].at /\ job'[t].song = job[t].song /\ job'[t].tag = job[t].tag
          /\ job'[t].option = job[t].option
  <2>1. CASE Escape
    <3>1. active \in Threads /\ job' = [job EXCEPT ![active].killed = TRUE]
      BY <2>1 DEF IInv, TypeOK, Escape
    <3> QED BY <3>1 DEF IInv, TypeOK, Jobs
  <2>2. CASE OnEndProgress
    BY <2>2 DEF OnEndProgress
  <2> QED BY <2>1, <2>2
<1>2. UNCHANGED <<file, work, writer, latest, foreign, raced>>
  BY DEF Escape, OnEndProgress, dbVars, ghosts
<1>3. \A t \in Threads :
          /\ \A s : /\ (Resets(t, s)' <=> Resets(t, s)) /\ (Takes(t, s)' <=> Takes(t, s))
                    /\ Holds(t, s)' <=> Holds(t, s)
          /\ \A places : At(t, places)' <=> At(t, places)
          /\ Rereads(t)' <=> Rereads(t)
  BY <1>1, <1>2 DEF Resets, Takes, At, Holds, Rereads
<1>4. EditsSurvive'
  BY <1>2 DEF EditsInv, EditsSurvive
<1>5. NewerIsLatest'
  <2>1. \A u \in Editors : u \in Threads
    BY Apart
  <2> QED BY <1>1, <1>2, <1>3, <2>1 DEF EditsInv, NewerIsLatest
<1>6. ASSUME NEW t \in Threads PROVE EditPart(t)'
  BY <1>1, <1>2, <1>3 DEF EditsInv, EditPart
<1> QED BY <1>4, <1>5, <1>6 DEF EditsInv

LEMMA NextEdits ==
    ASSUME IInv, EditsInv, [Next]_vars
    PROVE  EditsInv'
<1>1. CASE \/ \E t \in DirtyWriters : WriteTags(t)
           \/ \E t \in Editors : EditCommit(t) \/ RetagSelFiles(t) \/ Apply(t)
           \/ \E t \in Rebuilds : UpdateLibrary(t)
  <2>1. PICK t \in Threads : \E songs \in SUBSET Songs, tag \in Tags \union {None},
            option \in BOOLEAN, announced \in BOOLEAN : Starts(t, songs, tag, option, announced)
    BY <1>1, Apart DEF WriteTags, EditCommit, RetagSelFiles, Apply, UpdateLibrary
  <2> QED BY <2>1, LifeEdits
<1>2. ASSUME NEW t \in Threads, Step(t) PROVE EditsInv'
  <2>1. CASE BeginTransaction(t) \/ EndTransaction(t)
    BY <2>1, TransactionEdits
  <2>2. CASE \/ Entry(t) \/ OnExit(t) \/ IsDeleted(t) \/ OnThreadEnd(t) \/ DirtyFinished(t)
             \/ QueryDirty(t) \/ LastSong(t) \/ FileIsOld(t) \/ WriteTagFails(t)
    BY <2>2, LifeEdits
  <2>3. CASE SongCopy(t) \/ Edit(t) \/ FileIsNewer(t)
    BY <2>3, SongEdits
  <2>4. CASE GetMetaData(t)
    BY <2>4, ReadEdits
  <2>5. CASE WriteTag(t) \/ EditWritten(t)
    BY <2>5, WriteEdits
  <2>6. CASE UpdateItemResetDirty(t)
    BY <2>6, ResetEdits
  <2>7. CASE UpdateItem(t) \/ UpdateFullSongData(t)
    BY <2>7, ReplaceEdits
  <2> QED BY <1>2, <2>1, <2>2, <2>3, <2>4, <2>5, <2>6, <2>7 DEF Step, DirtyStep, LoopStep
<1>3. CASE Escape \/ OnEndProgress
  BY <1>3, FrameEdits
<1>4. CASE ForeignTag \/ ClearDirtyTags
  BY <1>4, OtherEdits
<1>5. CASE UNCHANGED vars
  BY <1>5 DEF vars, dbVars, frameVars, ghosts, EditsInv, EditsSurvive, NewerIsLatest, EditPart,
              Rereads, Resets, Takes, At, Holds
<1> QED BY <1>1, <1>2, <1>3, <1>4, <1>5 DEF Next

(* What a song was given last stays in its row: a rebuild takes the tag of *)
(* a file only if the file is newer, and the writer of dirty tags writes   *)
(* what it copied, so that neither brings an old tag back, whatever other  *)
(* threads and programs do between their steps (UpdateSongDataFromFile,   *)
(* MusikLibrary.cpp:523-563; MusikWriteDirtyThread, MusikThreads.cpp:362). *)
THEOREM NoEditIsTakenBack == Spec => []EditsSurvive
<1>1. Init => EditsInv
  <2> SUFFICES ASSUME Init PROVE EditsInv
    OBVIOUS
  <2>1. PICK tag \in Tags :
            /\ file = [s \in Songs |-> tag]
            /\ disk = [s \in Songs |-> [tag |-> tag, dirty |-> FALSE, newer |-> FALSE]]
    BY DEF Init
  <2>2. work = disk /\ latest = file /\ \A t \in Threads : job[t].at = "none"
    BY DEF Init, NoJob
  <2>3. \A s \in Songs : work[s].tag = latest[s] /\ ~work[s].newer
    BY <2>1, <2>2
  <2>4. \A t \in Threads : EditPart(t)
    BY <2>2 DEF EditPart, At, Takes
  <2> QED BY <2>3, <2>4 DEF EditsInv, EditsSurvive, NewerIsLatest
<1>2. IInv /\ EditsInv /\ [Next]_vars => EditsInv'
  BY NextEdits
<1>3. EditsInv => EditsSurvive
  BY DEF EditsInv
<1> QED BY <1>1, <1>2, <1>3, Invariance, PTL DEF Spec
=============================================================================
