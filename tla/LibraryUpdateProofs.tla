-------------------------- MODULE LibraryUpdateProofs --------------------------
(***************************************************************************)
(* Theorems about LibraryUpdate, for every number of files, directories    *)
(* and contents, every length and name of the songs.                       *)
(***************************************************************************)
EXTENDS LibraryUpdateMC, FiniteSetTheorems, TLAPS

(* OneRowPerFile, without counting.                                        *)
RowsDiffer == \A r, s \in rows : r.path = s.path => r = s

(* What a purge is going to look at are the songs of before the update.    *)
PathsOf(some) == {r.path : r \in some}
BeforeIsOld ==
    /\ thread \in {"scanFirst", "add"} => before = PathsOf(old)
    /\ thread = "scan" => old = {}

IInv == TypeOK /\ RowsDiffer /\ BeforeIsOld /\ PurgeIsComplete

-----------------------------------------------------------------------------
(* What the two queries find is another row of the library, or none.       *)
LEMMA CandidatesAreRows ==
    ASSUME NEW missing, NEW found \in Candidates(missing)
    PROVE  found = {} \/ \E c \in rows \ {missing} : found = {c}
<1>1. \A some \in {SameName(missing), SameTags(missing)} :
          \A f \in Found(some, missing) : f = {} \/ \E c \in rows \ {missing} : f = {c}
  BY DEF Found, SameName, SameTags
<1>2. found \in Found(SameName(missing), missing) \/ found \in Found(SameTags(missing), missing)
  BY DEF Candidates
<1> QED BY <1>1, <1>2

(* FindOrPurgeMissing: either nothing happens to the table; or the row of  *)
(* the missing file goes; or it takes the place of another one.            *)
LEMMA PurgeChanges ==
    ASSUME TypeOK, RowsDiffer, NEW path \in Paths, FindOrPurgeMissing(path)
    PROVE  \/ rows' = rows /\ (Exists(path) \/ RowsAt(path) = {})
           \/ /\ ~Exists(path)
              /\ \E missing \in rows :
                    /\ missing.path = path
                    /\ \/ rows' = rows \ {missing}
                       \/ \E c \in rows \ {missing} : rows' = Merged(missing, c)
<1>1. CASE Exists(path) \/ RowsAt(path) = {}
  BY <1>1 DEF FindOrPurgeMissing
<1>2. CASE ~(Exists(path) \/ RowsAt(path) = {})
  <2>1. PICK missing \in RowsAt(path) : \E found \in Candidates(missing) :
            rows' = IF found = {} THEN rows \ {missing}
                    ELSE Merged(missing, CHOOSE c \in found : TRUE)
    BY <1>2 DEF FindOrPurgeMissing
  <2>2. missing \in rows /\ missing.path = path
    BY DEF RowsAt
  <2>3. PICK found \in Candidates(missing) :
            rows' = IF found = {} THEN rows \ {missing}
                    ELSE Merged(missing, CHOOSE c \in found : TRUE)
    BY <2>1
  <2>4. found = {} \/ \E c \in rows \ {missing} : found = {c}
    BY CandidatesAreRows
  <2>5. CASE found = {}
    BY <1>2, <2>2, <2>3, <2>5
  <2>6. ASSUME NEW c \in rows \ {missing}, found = {c}
        PROVE  rows' = Merged(missing, c)
    <3>1. (CHOOSE x \in found : TRUE) = c
      BY <2>6
    <3> QED BY <2>3, <2>6, <3>1
  <2> QED BY <1>2, <2>2, <2>4, <2>5, <2>6
<1> QED BY <1>1, <1>2

(* What a purge step makes of the rows.                                    *)
RowsAfter(path) ==
    /\ rows' \subseteq [id : 1..ids, path : Paths, content : Contents]
    /\ \A r, s \in rows' : r.id = s.id => r = s
    /\ RowsDiffer'
    /\ PathsOf(rows') \subseteq PathsOf(rows)
    /\ PathsOf(rows) \subseteq PathsOf(rows') \union (IF Exists(path) THEN {} ELSE {path})
    /\ ~Exists(path) => path \notin PathsOf(rows')

(* After a purge step the rows are of the right type, differ, and stand    *)
(* for the same files, but for the missing one.                            *)
LEMMA PurgeKeepsRows ==
    ASSUME TypeOK, RowsDiffer, NEW path \in Paths, FindOrPurgeMissing(path)
    PROVE  TypeOK' /\ RowsAfter(path)
<1>0. /\ UNCHANGED <<file, ids, dialog, todo, ghosts>> /\ before' \subseteq Paths
      /\ before' = before \ {path}
  BY DEF FindOrPurgeMissing, TypeOK
<1>1. RowsAfter(path)
  <2>1. CASE rows' = rows /\ (Exists(path) \/ RowsAt(path) = {})
    BY <2>1 DEF RowsAfter, TypeOK, RowsDiffer, PathsOf, RowsAt
  <2>2. ASSUME ~Exists(path), NEW missing \in rows, missing.path = path, rows' = rows \ {missing}
        PROVE  RowsAfter(path)
    BY <2>2 DEF RowsAfter, TypeOK, RowsDiffer, PathsOf
  <2>3. ASSUME ~Exists(path), NEW missing \in rows, missing.path = path,
               NEW c \in rows \ {missing}, rows' = Merged(missing, c)
        PROVE  RowsAfter(path)
    <3>1. PICK n : n = Row(missing.id, c.path, c.content)
      OBVIOUS
    <3>2. rows' = (rows \ {missing, c}) \union {n}
      BY <2>3, <3>1 DEF Merged
    <3>3. /\ n \in [id : 1..ids, path : Paths, content : Contents]
          /\ n.id = missing.id /\ n.path = c.path /\ c.path # path
      BY <2>3, <3>1 DEF TypeOK, RowsDiffer, Row
    <3>4. rows' \subseteq [id : 1..ids, path : Paths, content : Contents]
      BY <3>2, <3>3 DEF TypeOK
    <3>5. \A r, s \in rows' : r.id = s.id => r = s
      BY <2>3, <3>2, <3>3 DEF TypeOK
    <3>6. RowsDiffer'
      BY <2>3, <3>2, <3>3 DEF RowsDiffer
    <3>7. PathsOf(rows') \subseteq PathsOf(rows)
      BY <3>2, <3>3 DEF PathsOf
    <3>8. PathsOf(rows) \subseteq PathsOf(rows') \union {path}
      BY <2>3, <3>2, <3>3 DEF PathsOf
    <3>9. path \notin PathsOf(rows')
      BY <2>3, <3>2, <3>3 DEF PathsOf, RowsDiffer
    <3> QED BY <2>3, <3>4, <3>5, <3>6, <3>7, <3>8, <3>9 DEF RowsAfter
  <2> QED BY <2>1, <2>2, <2>3, PurgeChanges
<1>2. TypeOK'
  BY <1>0, <1>1 DEF RowsAfter, TypeOK, dialog, ghosts
<1> QED BY <1>1, <1>2

(* A file gets a row when it has none.                                     *)
LEMMA AddKeepsRows ==
    ASSUME TypeOK, RowsDiffer, NEW path \in Paths, AddSongDataFromFile(path)
    PROVE  TypeOK' /\ RowsDiffer' /\ rows \subseteq rows'
<1>0. todo' \subseteq Paths \union Dirs /\ UNCHANGED <<file, dialog, before, ghosts>>
  BY DEF AddSongDataFromFile, TypeOK
<1>1. CASE UNCHANGED table
  BY <1>0, <1>1 DEF TypeOK, RowsDiffer, table, dialog, ghosts
<1>2. CASE ~FileInLibrary(path) /\ Exists(path)
  <2>1. PICK n : n = Row(ids + 1, path, file[path])
    OBVIOUS
  <2>2. rows' = rows \union {n} /\ ids' = ids + 1
    BY <1>2, <2>1 DEF AddSongDataFromFile
  <2>3. /\ n \in [id : 1..ids', path : Paths, content : Contents]
        /\ n.id = ids + 1 /\ n.path = path
    BY <1>2, <2>1, <2>2 DEF TypeOK, Exists, Row
  <2>4. \A r \in rows : r.path # path /\ r.id # n.id
    BY <1>2, <2>3 DEF FileInLibrary, RowsAt, TypeOK
  <2>5. /\ rows' \subseteq [id : 1..ids', path : Paths, content : Contents] /\ ids' \in Nat
        /\ \A r, s \in rows' : r.id = s.id => r = s
    BY <2>2, <2>3, <2>4 DEF TypeOK
  <2>6. RowsDiffer'
    BY <2>2, <2>3, <2>4 DEF RowsDiffer
  <2> QED BY <1>0, <2>2, <2>5, <2>6 DEF TypeOK, dialog, ghosts
<1> QED BY <1>1, <1>2 DEF AddSongDataFromFile

-----------------------------------------------------------------------------
(* The steps of the dialog, of a scan and of other programs leave the      *)
(* table alone.                                                            *)
OtherStep ==
    \/ ScanNew \/ UpdateLibrary \/ PathsSave \/ Cancel \/ OnThreadEnd
    \/ ScanEnds \/ \E d \in Dirs : GetMusicDir(d)
    \/ SongsBeforeUpdate \/ AddEnds \/ PurgeEnds \/ ForeignChange

(* They keep the types and the rows.                                       *)
LEMMA OthersKeepTypes ==
    ASSUME TypeOK, OtherStep PROVE TypeOK' /\ UNCHANGED table
<1> USE DEF TypeOK, table, dialog, ghosts
<1>1. CASE ScanNew  BY <1>1 DEF ScanNew, Starts
<1>2. CASE UpdateLibrary  BY <1>2 DEF UpdateLibrary, Starts
<1>3. CASE PathsSave  BY <1>3 DEF PathsSave
<1>4. CASE Cancel  BY <1>4 DEF Cancel
<1>5. CASE OnThreadEnd  BY <1>5 DEF OnThreadEnd
<1>6. CASE ScanEnds  BY <1>6 DEF ScanEnds
<1>7. ASSUME NEW d \in Dirs, GetMusicDir(d) PROVE TypeOK' /\ UNCHANGED table
  BY <1>7 DEF GetMusicDir, FilesIn
<1>8. CASE SongsBeforeUpdate  BY <1>8 DEF SongsBeforeUpdate
<1>9. CASE AddEnds  BY <1>9 DEF AddEnds
<1>10. CASE PurgeEnds  BY <1>10 DEF PurgeEnds
<1>11. CASE ForeignChange  BY <1>11 DEF ForeignChange, Exists
<1> QED BY <1>1, <1>2, <1>3, <1>4, <1>5, <1>6, <1>7, <1>8, <1>9, <1>10, <1>11 DEF OtherStep

(* What a purge has done stays done, and it starts with all old songs to   *)
(* be looked at.                                                           *)
LEMMA OthersKeepPurge ==
    ASSUME IInv, OtherStep PROVE BeforeIsOld' /\ PurgeIsComplete'
<1> USE DEF IInv, BeforeIsOld, PurgeIsComplete, PathsOf, Exists
<1>1. CASE ScanNew  BY <1>1 DEF ScanNew, Starts
<1>2. CASE UpdateLibrary  BY <1>2 DEF UpdateLibrary, Starts, ghosts
<1>3. CASE PathsSave  BY <1>3 DEF PathsSave
<1>4. CASE Cancel  BY <1>4 DEF Cancel, table, ghosts
<1>5. CASE OnThreadEnd  BY <1>5 DEF OnThreadEnd
<1>6. CASE ScanEnds  BY <1>6 DEF ScanEnds, Scanning, table
<1>7. ASSUME NEW d \in Dirs, GetMusicDir(d) PROVE BeforeIsOld' /\ PurgeIsComplete'
  BY <1>7 DEF GetMusicDir, Scanning, table, ghosts
<1>8. CASE SongsBeforeUpdate  BY <1>8 DEF SongsBeforeUpdate
<1>9. CASE AddEnds  BY <1>9 DEF AddEnds, table, ghosts
<1>10. CASE PurgeEnds  BY <1>10 DEF PurgeEnds, table, ghosts
<1>11. CASE ForeignChange
  <2>1. \A p \in Paths : p \in disturbed' \/ file'[p] = file[p]
    BY <1>11 DEF ForeignChange, TypeOK
  <2>2. disturbed \subseteq disturbed' /\ \A r \in rows : r.path \in Paths
    BY <1>11 DEF ForeignChange, TypeOK
  <2> QED BY <1>11, <2>1, <2>2 DEF ForeignChange, table, dialog
<1> QED BY <1>1, <1>2, <1>3, <1>4, <1>5, <1>6, <1>7, <1>8, <1>9, <1>10, <1>11 DEF OtherStep

(* The invariant is kept by every step, and so are the entries.            *)
LEMMA StepKeeps ==
    ASSUME IInv, [Next]_vars
    PROVE  IInv' /\ \A p \in Paths : Exists(p) /\ FileInLibrary(p) => FileInLibrary(p)'
<1>0. \A p \in Paths : FileInLibrary(p) <=> p \in PathsOf(rows)
  BY DEF FileInLibrary, RowsAt, PathsOf
<1>1. CASE OtherStep
  <2>1. TypeOK' /\ rows' = rows
    BY <1>1, OthersKeepTypes DEF IInv, table
  <2> QED BY <1>1, <2>1, OthersKeepPurge DEF IInv, RowsDiffer, FileInLibrary, RowsAt
<1>2. ASSUME NEW p \in Paths, AddSongDataFromFile(p)
      PROVE  IInv' /\ rows \subseteq rows'
  <2>1. TypeOK' /\ RowsDiffer' /\ rows \subseteq rows'
    BY <1>2, AddKeepsRows DEF IInv
  <2>2. BeforeIsOld' /\ PurgeIsComplete'
    BY <1>2 DEF IInv, AddSongDataFromFile, BeforeIsOld, PurgeIsComplete, PathsOf, dialog, ghosts
  <2> QED BY <2>1, <2>2 DEF IInv
<1>3. ASSUME NEW p \in Paths, FindOrPurgeMissing(p)
      PROVE  IInv' /\ \A q \in Paths : Exists(q) /\ FileInLibrary(q) => FileInLibrary(q)'
  <2>1. /\ TypeOK' /\ RowsDiffer'
        /\ PathsOf(rows') \subseteq PathsOf(rows)
        /\ PathsOf(rows) \subseteq PathsOf(rows') \union (IF Exists(p) THEN {} ELSE {p})
        /\ ~Exists(p) => p \notin PathsOf(rows')
    BY <1>3, PurgeKeepsRows DEF IInv, RowsAfter
  <2>2. /\ thread = "purge" /\ before' = before \ {p}
        /\ UNCHANGED <<file, dialog, ghosts>>
    BY <1>3 DEF FindOrPurgeMissing
  <2>3. BeforeIsOld'
    BY <2>2 DEF BeforeIsOld, dialog
  <2>4. PurgeIsComplete'
    <3>1. ASSUME NEW r \in rows', purge, ~killed
          PROVE  \/ Exists(r.path) \/ r.path \in (before \ {p}) \union disturbed
                 \/ r.path \notin PathsOf(old)
      <4>1. PICK q \in rows : q.path = r.path
        BY <2>1, <3>1 DEF PathsOf
      <4>2. \/ Exists(q.path) \/ q.path \in before \union disturbed
            \/ q.path \notin PathsOf(old)
        BY <2>2, <3>1 DEF IInv, PurgeIsComplete, PathsOf
      <4>3. r.path # p \/ Exists(p)
        BY <2>1, <3>1 DEF PathsOf
      <4> QED BY <4>1, <4>2, <4>3
    <3> QED BY <2>2, <3>1 DEF PurgeIsComplete, PathsOf, Exists, dialog, ghosts
  <2>5. ASSUME NEW q \in Paths, Exists(q), FileInLibrary(q) PROVE FileInLibrary(q)'
    BY <1>0, <2>1, <2>5 DEF FileInLibrary, RowsAt, PathsOf
  <2> QED BY <2>1, <2>3, <2>4, <2>5 DEF IInv
<1>4. CASE UNCHANGED vars
  BY <1>4 DEF IInv, TypeOK, RowsDiffer, BeforeIsOld, PurgeIsComplete, PathsOf, Exists,
     FileInLibrary, RowsAt, vars, table, dialog, ghosts
<1>5. \A p \in Paths : rows \subseteq rows' /\ FileInLibrary(p) => FileInLibrary(p)'
  BY DEF FileInLibrary, RowsAt
<1> QED BY <1>1, <1>2, <1>3, <1>4, <1>5 DEF Next, UpdateStep, OtherStep

(* A library that is read from the database has a row of its own age for   *)
(* every file.                                                             *)
LEMMA InitHolds == ASSUME Init PROVE IInv
<1>1. PICK held \in SUBSET Paths, content \in [Paths -> Contents] :
      \E age \in [held -> 1..Cardinality(held)] :
          /\ \A p, q \in held : age[p] = age[q] => p = q
          /\ rows = {Row(age[p], p, content[p]) : p \in held} /\ ids = Cardinality(held)
  BY DEF Init
<1>2. PICK age \in [held -> 1..Cardinality(held)] :
          /\ \A p, q \in held : age[p] = age[q] => p = q
          /\ rows = {Row(age[p], p, content[p]) : p \in held} /\ ids = Cardinality(held)
  BY <1>1
<1>3. Cardinality(held) \in Nat
  BY UpdateAssumption, FS_Subset, FS_CardinalityType
<1>4. \A r \in rows : r \in [id : 1..ids, path : Paths, content : Contents]
  BY <1>2, <1>3 DEF Row
<1>5. \A r, s \in rows : r.id = s.id \/ r.path = s.path => r = s
  BY <1>2 DEF Row
<1>6. TypeOK
  BY <1>2, <1>3, <1>4, <1>5 DEF Init, TypeOK
<1> QED BY <1>5, <1>6 DEF Init, IInv, RowsDiffer, BeforeIsOld, PurgeIsComplete

(* So the invariant always holds.                                          *)
LEMMA Inductive == Spec => []IInv
<1>1. Init => IInv
  BY InitHolds
<1>2. IInv /\ [Next]_vars => IInv'
  BY StepKeeps
<1> QED BY <1>1, <1>2, PTL DEF Spec

(* The table, the lists and the state of the dialog keep their types, and  *)
(* no id is given twice.                                                   *)
THEOREM TypeCorrect == Spec => []TypeOK
<1>1. IInv => TypeOK
  BY DEF IInv
<1> QED BY <1>1, Inductive, PTL

(* However FindOrPurgeMissing hands rows from missing files to others, no  *)
(* file ever has two of them.                                              *)
THEOREM RowsAreUnique == Spec => []OneRowPerFile
<1>1. IInv => OneRowPerFile
  <2>1. ASSUME IInv, NEW p \in Paths PROVE Cardinality(RowsAt(p)) <= 1
    <3>1. CASE RowsAt(p) = {}
      BY <3>1, FS_EmptySet
    <3>2. ASSUME NEW r \in RowsAt(p) PROVE Cardinality(RowsAt(p)) <= 1
      <4>1. RowsAt(p) = {r}
        BY <2>1, <3>2 DEF IInv, RowsDiffer, RowsAt
      <4>2. Cardinality({r}) = 1
        BY FS_Singleton
      <4> QED BY <4>1, <4>2
    <3> QED BY <3>1, <3>2
  <2> QED BY <2>1 DEF OneRowPerFile
<1> QED BY <1>1, Inductive, PTL

(* A purge that was not cancelled has left no row of an old file that is   *)
(* missing.                                                                *)
THEOREM PurgeLeavesNothing == Spec => []PurgeIsComplete
<1>1. IInv => PurgeIsComplete
  BY DEF IInv
<1> QED BY <1>1, Inductive, PTL

(* A file that is there never loses its row.                               *)
THEOREM EntriesStay == Spec => EntriesAreKept
<1>1. IInv /\ [Next]_vars =>
          [\A p \in Paths : Exists(p) /\ FileInLibrary(p) => FileInLibrary(p)']_vars
  BY StepKeeps
<1> QED BY <1>1, Inductive, PTL DEF Spec, EntriesAreKept

-----------------------------------------------------------------------------
(* Scans and moved songs.                                                  *)

(* What a scan is going to find, a list that is left over from a complete  *)
(* scan holds, and an update has found or has still to look at.            *)
Known == {p \in Paths \ disturbed : Exists(p) /\ DirOf[p] \in pathsOf}
ScanInv ==
    /\ Scanning => (killed /\ scanned = {}) \/ \A p \in Known : DirOf[p] \in todo \/ p \in scanned
    /\ ~Scanning /\ whole /\ scanned # {} => Known \subseteq scanned
    /\ thread = "add" /\ whole /\ ~killed => \A p \in Known : p \in todo \/ FileInLibrary(p)
    /\ UpdateIsComplete

(* The song m was moved to q, and no other file can be mistaken for it.    *)
Moved(m, q) ==
    /\ {m.path, q} \intersect disturbed = {}
    /\ ~Exists(m.path) /\ file[q] = m.content /\ DirOf[q] \in pathsOf
    /\ \A r \in old : r.path # q
    /\ \A p \in Paths \ {m.path, q} : ~Mistaken(p, m.content, {NameOf[m.path], NameOf[q]})

(* A moved song has its old row and a newer one at the new place until the *)
(* purge comes to it, and then the old row is at the new place: no other   *)
(* missing song takes either of them.                                      *)
MovedTo(m, q) ==
    IF m.path \in before
    THEN m \in rows /\ \E n \in rows : n.path = q /\ n.content = m.content /\ n.id > m.id
    ELSE \E n \in rows : n.path = q /\ n.content = m.content /\ n.id = m.id
MovedInv ==
    /\ old \subseteq [id : 1..ids, path : Paths, content : Contents]
    /\ thread = "scanFirst" => rows = old
    /\ thread = "add" => old \subseteq rows /\ \A r \in rows \ old, m \in old : r.id > m.id
    /\ thread \in {"add", "purge"} =>
          \A r \in rows : r.path \in disturbed \/ r.content \in ContentsOf(r.path)
    /\ thread = "purge" /\ whole => \A m \in old, q \in Paths : Moved(m, q) => MovedTo(m, q)

UInv == IInv /\ ScanInv /\ MovedInv

(* What is known of files, as long as they are only disturbed.             *)
Undisturbed ==
    /\ UNCHANGED <<old, pathsOf>> /\ disturbed \subseteq disturbed'
    /\ \A p \in Paths : p \in disturbed' \/ file'[p] = file[p]
LEMMA KnownStays ==
    ASSUME Undisturbed
    PROVE  /\ Known' \subseteq Known
           /\ \A p \in Paths \ disturbed' : ContentsOf(p)' = ContentsOf(p)
<1>1. \A p \in Paths \ disturbed' : Exists(p)' <=> Exists(p)
  BY DEF Undisturbed, Exists
<1> QED BY <1>1 DEF Undisturbed, Known, ContentsOf
LEMMA MovedStays ==
    ASSUME Undisturbed, NEW m, m.path \in Paths, NEW q \in Paths, Moved(m, q)'
    PROVE  Moved(m, q)
<1> DEFINE names == {NameOf[m.path], NameOf[q]}
<1>1. /\ m.path \notin disturbed' /\ q \notin disturbed' /\ file'[q] = m.content
      /\ ~Exists(m.path)' /\ DirOf[q] \in pathsOf /\ \A r \in old : r.path # q
  BY DEF Moved, Undisturbed
<1>2. ASSUME NEW p \in Paths \ {m.path, q} PROVE ~Mistaken(p, m.content, names)
  <2>1. ~Mistaken(p, m.content, names)'
    BY DEF Moved
  <2>2. p \notin disturbed'
    BY <2>1 DEF Mistaken
  <2>3. ContentsOf(p)' = ContentsOf(p)
    BY <2>2, KnownStays
  <2> QED BY <2>1, <2>2, <2>3 DEF Mistaken, Undisturbed
<1>3. file'[q] = file[q] /\ file'[m.path] = file[m.path]
  BY <1>1 DEF Undisturbed
<1> QED BY <1>1, <1>2, <1>3 DEF Moved, Exists, Undisturbed

(* The candidate is the same song, or one of the same name, and as long.   *)
LEMMA CandidatesFit ==
    ASSUME NEW missing, NEW found \in Candidates(missing)
    PROVE  \/ found = {}
           \/ \E c \in rows \ {missing} :
                 /\ found = {c} /\ Fits(c, missing)
                 /\ NameOf[c.path] = NameOf[missing.path] \/ c.content = missing.content
<1>1. \A some \in {SameName(missing), SameTags(missing)} : \A f \in Found(some, missing) :
          f = {} \/ \E c \in some : f = {c} /\ Fits(c, missing)
  BY DEF Found
<1>2. found \in Found(SameName(missing), missing) \/ found \in Found(SameTags(missing), missing)
  BY DEF Candidates
<1>3. found = {} \/ \E c \in SameName(missing) \union SameTags(missing) :
          found = {c} /\ Fits(c, missing)
  BY <1>1, <1>2
<1> QED BY <1>3 DEF SameName, SameTags

(* The only song with the tags of the missing one is found, if it fits,    *)
(* unless one of the same name does.                                       *)
LEMMA OnlyCandidate ==
    ASSUME NEW missing, NEW n \in rows \ {missing}, Fits(n, missing), n.content = missing.content,
           \A c \in rows \ {missing, n} :
              /\ NameOf[c.path] = NameOf[missing.path] => ~Fits(c, missing)
              /\ c.content # missing.content
    PROVE  Candidates(missing) \subseteq {{n}}
<1>1. SameTags(missing) = {n}
  BY DEF SameTags
<1>2. Found(SameTags(missing), missing) = {{n}}
  <2>1. {n} \intersect {x \in {n} : Fits(x, missing)} = {n}
    OBVIOUS
  <2> QED BY <1>1, <2>1 DEF Found
<1>3. \A f \in Found(SameName(missing), missing) : f \in {{}, {n}}
  <2>1. \A c \in SameName(missing) : c # n => ~Fits(c, missing)
    BY DEF SameName
  <2>2. ASSUME NEW f \in Found(SameName(missing), missing) PROVE f \in {{}, {n}}
    <3>1. f = {} \/ \E r \in SameName(missing) :
                       f = {r} \intersect {x \in SameName(missing) : Fits(x, missing)}
      BY DEF Found
    <3> QED BY <2>1, <3>1
  <2> QED BY <2>2
<1> QED BY <1>2, <1>3 DEF Candidates

-----------------------------------------------------------------------------
(* The steps that leave the table alone.                                   *)

(* What was known at the start is scanned, and what is scanned is added.   *)
LEMMA OthersScan ==
    ASSUME UInv, OtherStep PROVE ScanInv'
<1>0. TypeOK /\ ScanInv /\ rows' = rows /\ \A p : FileInLibrary(p)' <=> FileInLibrary(p)
  <2>1. rows' = rows
    BY OthersKeepTypes DEF UInv, IInv, table
  <2> QED BY <2>1 DEF UInv, IInv, FileInLibrary, RowsAt
<1> USE <1>0 DEF ScanInv, Scanning, UpdateIsComplete, table, dialog, ghosts
<1>1. CASE ScanNew
  <2>1. thread' = "scan" /\ todo' = pathsOf' /\ Known' \subseteq {p \in Paths : DirOf[p] \in pathsOf'}
    BY <1>1 DEF ScanNew, Starts, Known
  <2> QED BY <2>1
<1>2. CASE UpdateLibrary
  <2>1. thread = "none" /\ thread' = "update" /\ Known' = Known /\ UNCHANGED <<scanned, whole>>
    BY <1>2 DEF UpdateLibrary, Starts, Known, Exists
  <2> QED BY <2>1
<1>3. CASE PathsSave
  BY <1>3 DEF PathsSave
<1>4. CASE Cancel
  <2>1. killed' = TRUE /\ UNCHANGED <<thread, scanned, todo, whole>> /\ Known' = Known
    BY <1>4 DEF Cancel, Known, Exists
  <2>2. (\A p \in Paths \ disturbed : Exists(p) /\ DirOf[p] \in pathsOf => FileInLibrary(p))' <=>
        (\A p \in Paths \ disturbed : Exists(p) /\ DirOf[p] \in pathsOf => FileInLibrary(p))
    BY <1>4 DEF Cancel, Exists
  <2> QED BY <2>1, <2>2
<1>5. CASE OnThreadEnd
  <2>1. thread = "ended" /\ thread' = "none" /\ UNCHANGED <<scanned, whole>> /\ Known' = Known
    BY <1>5 DEF OnThreadEnd, Known, Exists
  <2> QED BY <2>1
<1>6. CASE ScanEnds
  <2>1. /\ Scanning /\ (todo = {} \/ killed) /\ whole' = (todo = {} \/ scanned = {})
        /\ UNCHANGED <<scanned, killed>> /\ Known' = Known
        /\ \/ thread' = "ended"
           \/ thread' = "add" /\ todo' = scanned
    BY <1>6 DEF ScanEnds, Known, Exists
  <2> QED BY <2>1
<1>7. ASSUME NEW d \in Dirs, GetMusicDir(d) PROVE ScanInv'
  <2>1. Scanning /\ ~killed /\ todo' = todo \ {d} /\ thread' = thread /\ Known' = Known
    BY <1>7 DEF GetMusicDir, Known, Exists
  <2>2. \A p \in Known : DirOf[p] = d => p \in FilesIn(d)
    BY DEF Known, FilesIn
  <2>3. \/ scanned' = scanned \union FilesIn(d)
        \/ killed' /\ scanned' = {}
    BY <1>7 DEF GetMusicDir
  <2> QED BY <2>1, <2>2, <2>3
<1>8. CASE SongsBeforeUpdate
  <2>1. /\ thread = "update" /\ UNCHANGED <<scanned, whole>>
        /\ \/ thread' = "scanFirst" /\ todo' = pathsOf'
           \/ scanned # {} /\ thread' = "add" /\ todo' = scanned /\ Known' = Known
    BY <1>8 DEF SongsBeforeUpdate, Known, Exists
  <2>2. Known' \subseteq {p \in Paths : DirOf[p] \in pathsOf'}
    BY DEF Known
  <2> QED BY <2>1, <2>2
<1>9. CASE AddEnds
  <2>1. /\ thread = "add" /\ (todo = {} \/ killed) /\ UNCHANGED <<scanned, whole, killed>>
        /\ thread' = (IF purge /\ ~killed THEN "purge" ELSE "ended") /\ Known' = Known
    BY <1>9 DEF AddEnds, Known, Exists
  <2>2. \A p \in (Paths \ disturbed)' : (Exists(p) /\ DirOf[p] \in pathsOf)' => p \in Known'
    BY DEF Known
  <2> QED BY <2>1, <2>2
<1>10. CASE PurgeEnds
  <2>1. thread = "purge" /\ thread' = "ended" /\ UNCHANGED <<scanned, whole>> /\ Known' = Known
    BY <1>10 DEF PurgeEnds, Known, Exists
  <2> QED BY <2>1
<1>11. CASE ForeignChange
  <2>1. UNCHANGED <<thread, killed, scanned, todo, whole, pathsOf, old>>
    BY <1>11 DEF ForeignChange
  <2>2. Undisturbed
    BY <1>11 DEF ForeignChange, TypeOK, Undisturbed
  <2>3. Known' \subseteq Known
    BY <2>2, KnownStays
  <2>4. UpdateIsComplete'
    <3>1. thread' = "purge" /\ whole' => \A p \in Known : FileInLibrary(p)
      BY <2>1 DEF Known
    <3>2. \A p \in (Paths \ disturbed)' : (Exists(p) /\ DirOf[p] \in pathsOf)' => p \in Known'
      BY DEF Known
    <3> QED BY <2>3, <3>1, <3>2
  <2> QED BY <2>1, <2>3, <2>4
<1> QED BY <1>1, <1>2, <1>3, <1>4, <1>5, <1>6, <1>7, <1>8, <1>9, <1>10, <1>11 DEF OtherStep

(* When the purge begins all old songs have still to be looked at, and     *)
(* rows that came in with the update are newer than theirs.                *)
LEMMA OthersMove ==
    ASSUME UInv, OtherStep PROVE MovedInv'
<1>0. /\ TypeOK /\ MovedInv /\ rows' = rows /\ ids' = ids
      /\ rows \subseteq [id : 1..ids, path : Paths, content : Contents]
  BY OthersKeepTypes DEF UInv, IInv, TypeOK, table
<1>1. CASE ScanNew \/ UpdateLibrary \/ PathsSave
  <2>1. thread' \in {"scan", "update", "none"} /\ (old' = old \/ old' = {})
    BY <1>1 DEF ScanNew, UpdateLibrary, PathsSave, Starts
  <2> QED BY <1>0, <2>1 DEF MovedInv
<1>2. CASE OnThreadEnd \/ PurgeEnds
  <2>1. thread' \in {"none", "ended"} /\ old' = old
    BY <1>2 DEF OnThreadEnd, PurgeEnds, ghosts
  <2> QED BY <1>0, <2>1 DEF MovedInv
<1>3. CASE SongsBeforeUpdate
  <2>1. thread' \in {"scanFirst", "add"} /\ old' = rows
    BY <1>3 DEF SongsBeforeUpdate
  <2>2. \A r \in rows' : (r.content \in ContentsOf(r.path))'
    BY <1>0, <2>1 DEF ContentsOf
  <2> QED BY <1>0, <2>1, <2>2 DEF MovedInv
<1>4. CASE ScanEnds
  <2>1. /\ old' = old
        /\ \/ thread' = "ended"
           \/ thread = "scanFirst" /\ thread' = "add"
    BY <1>4 DEF ScanEnds, Scanning
  <2>2. thread' = "add" => \A r \in rows' : (r.content \in ContentsOf(r.path))'
    BY <1>0, <2>1 DEF MovedInv, ContentsOf
  <2> QED BY <1>0, <2>1, <2>2 DEF MovedInv
<1>5. ASSUME NEW d \in Dirs, GetMusicDir(d) PROVE MovedInv'
  <2>1. thread' = thread /\ Scanning /\ old' = old
    BY <1>5 DEF GetMusicDir, ghosts
  <2> QED BY <1>0, <2>1 DEF MovedInv, Scanning
<1>6. CASE AddEnds
  <2>1. /\ thread = "add" /\ thread' \in {"purge", "ended"}
        /\ UNCHANGED <<file, pathsOf, before, old, disturbed, whole>>
    BY <1>6 DEF AddEnds, ghosts
  <2>2. \A r \in rows' : (r.path \in disturbed \/ r.content \in ContentsOf(r.path))'
    BY <1>0, <2>1 DEF MovedInv, ContentsOf
  <2>3. ASSUME thread' = "purge", whole', NEW m \in old', NEW q \in Paths, Moved(m, q)'
        PROVE  MovedTo(m, q)'
    <3>1. UpdateIsComplete' /\ before = PathsOf(old)
      BY <2>1, OthersScan DEF UInv, IInv, BeforeIsOld, ScanInv
    <3>2. m.path \in before' /\ m \in rows /\ m.path \in Paths /\ m.content \in Contents
      BY <1>0, <2>1, <2>3, <3>1 DEF MovedInv, PathsOf
    <3>3. q \notin disturbed' /\ file'[q] = m.content /\ DirOf[q] \in pathsOf'
          /\ \A r \in old : r.path # q
      BY <2>1, <2>3 DEF Moved
    <3>4. Exists(q)'
      BY <3>2, <3>3, UpdateAssumption DEF Exists
    <3>5. FileInLibrary(q)'
      BY <2>3, <3>1, <3>3, <3>4 DEF UpdateIsComplete
    <3>6. PICK n \in rows : n.path = q
      BY <1>0, <3>5 DEF FileInLibrary, RowsAt
    <3>7. n \notin old /\ n.id > m.id
      BY <1>0, <2>1, <2>3, <3>3, <3>6 DEF MovedInv
    <3>8. n.content = m.content
      BY <2>1, <2>2, <1>0, <3>3, <3>6 DEF ContentsOf
    <3> QED BY <1>0, <3>2, <3>6, <3>7, <3>8 DEF MovedTo
  <2> QED BY <1>0, <2>1, <2>2, <2>3 DEF MovedInv
<1>7. CASE ForeignChange \/ Cancel
  <2>1. UNCHANGED <<thread, before, old, whole, pathsOf>>
    BY <1>7 DEF ForeignChange, Cancel, dialog, ghosts
  <2>2. Undisturbed
    BY <1>0, <1>7 DEF ForeignChange, Cancel, TypeOK, Undisturbed, dialog, ghosts
  <2>3. thread' \in {"add", "purge"} =>
            \A r \in rows' : (r.path \in disturbed \/ r.content \in ContentsOf(r.path))'
    <3> SUFFICES ASSUME thread \in {"add", "purge"}, NEW r \in rows, r.path \notin disturbed'
                 PROVE  r.content \in ContentsOf(r.path)'
      BY <1>0, <2>1 DEF ContentsOf
    <3>1. r.path \in Paths \ disturbed'
      BY <1>0
    <3>2. ContentsOf(r.path)' = ContentsOf(r.path)
      BY <2>2, <3>1, KnownStays DEF ContentsOf
    <3>3. r.content \in ContentsOf(r.path)
      BY <1>0, <2>2, <3>1 DEF MovedInv, Undisturbed
    <3> QED BY <3>2, <3>3
  <2>4. ASSUME thread' = "purge", whole', NEW m \in old', NEW q \in Paths, Moved(m, q)'
        PROVE  MovedTo(m, q)'
    <3>1. Moved(m, q)
      BY <1>0, <2>1, <2>2, <2>4, MovedStays DEF MovedInv
    <3> QED BY <1>0, <2>1, <2>4, <3>1 DEF MovedInv, MovedTo
  <2> QED BY <1>0, <2>1, <2>3, <2>4 DEF MovedInv
<1> QED BY <1>1, <1>2, <1>3, <1>4, <1>5, <1>6, <1>7 DEF OtherStep

-----------------------------------------------------------------------------
(* A file that is added is in the library, with an id of its own.          *)
LEMMA AddMoves ==
    ASSUME UInv, NEW path \in Paths, AddSongDataFromFile(path)
    PROVE  ScanInv' /\ MovedInv'
<1>0. TypeOK /\ ScanInv /\ MovedInv
  BY DEF UInv, IInv
<1>1. /\ thread = "add" /\ ~killed /\ path \in todo /\ todo' = todo \ {path}
      /\ UNCHANGED <<file, pathsOf, scanned, thread, killed, before, old, disturbed, whole>>
  BY DEF AddSongDataFromFile, dialog, ghosts
<1>2. Known' = Known /\ \A p : ContentsOf(p)' = ContentsOf(p)
  BY <1>1 DEF Known, Exists, ContentsOf
<1>3. CASE FileInLibrary(path) \/ ~Exists(path)
  <2>1. rows' = rows /\ ids' = ids
    BY <1>3 DEF AddSongDataFromFile, table
  <2>2. ScanInv'
    <3>1. \A p : FileInLibrary(p)' <=> FileInLibrary(p)
      BY <2>1 DEF FileInLibrary, RowsAt
    <3>2. path \in Known => FileInLibrary(path)
      BY <1>3 DEF Known
    <3>3. thread' = "add" /\ whole' /\ ~killed' => \A p \in Known' : p \in todo' \/ FileInLibrary(p)'
      BY <1>0, <1>1, <1>2, <3>1, <3>2 DEF ScanInv
    <3> QED BY <1>0, <1>1, <1>2, <3>3 DEF ScanInv, Scanning, UpdateIsComplete
  <2>3. MovedInv'
    BY <1>0, <1>1, <1>2, <2>1 DEF MovedInv
  <2> QED BY <2>2, <2>3
<1>4. CASE ~(FileInLibrary(path) \/ ~Exists(path))
  <2>1. PICK n : n = Row(ids + 1, path, file[path])
    OBVIOUS
  <2>2. rows' = rows \union {n} /\ ids' = ids + 1 /\ n.id = ids + 1 /\ n.path = path
        /\ n.content = file[path] /\ Exists(path)
    BY <1>4, <2>1 DEF AddSongDataFromFile, Row
  <2>3. ScanInv'
    <3>1. \A p : FileInLibrary(p) \/ p = path => FileInLibrary(p)'
      BY <2>2 DEF FileInLibrary, RowsAt
    <3>2. thread' = "add" /\ whole' /\ ~killed' => \A p \in Known' : p \in todo' \/ FileInLibrary(p)'
      BY <1>0, <1>1, <1>2, <3>1 DEF ScanInv
    <3> QED BY <1>0, <1>1, <1>2, <3>2 DEF ScanInv, Scanning, UpdateIsComplete
  <2>4. MovedInv'
    <3>1. old' \subseteq [id : 1..ids', path : Paths, content : Contents]
      BY <1>0, <1>1, <2>2 DEF MovedInv, TypeOK
    <3>2. \A m \in old : n.id > m.id
      BY <1>0, <2>2 DEF MovedInv, TypeOK
    <3>3. n.content \in ContentsOf(path)
      BY <2>2 DEF ContentsOf, Exists
    <3> QED BY <1>0, <1>1, <1>2, <2>2, <3>1, <3>2, <3>3 DEF MovedInv
  <2> QED BY <2>3, <2>4
<1> QED BY <1>3, <1>4

(* What can be mistaken for a missing song would be mistaken for a moved   *)
(* one too: neither of its rows is a candidate.                            *)
LEMMA NotMistaken ==
    ASSUME UInv, thread = "purge", NEW m \in old, NEW q \in Paths, Moved(m, q),
           NEW x \in rows, x.path \notin {m.path, q}, NEW c,
           c.content = m.content, c.path \in {m.path, q}
    PROVE  /\ x.content # m.content
           /\ NameOf[x.path] = NameOf[c.path] => LengthOf[x.content] # LengthOf[m.content]
<1>1. x.path \in Paths \ {m.path, q}
  BY DEF UInv, IInv, TypeOK
<1>2. ~Mistaken(x.path, m.content, {NameOf[m.path], NameOf[q]})
  BY <1>1 DEF Moved
<1>3. x.content \in ContentsOf(x.path)
  BY <1>2 DEF UInv, MovedInv, Mistaken
<1> QED BY <1>2, <1>3 DEF Mistaken

(* The purge comes to the song itself: its row goes to the new place.      *)
LEMMA PurgeMovesRow ==
    ASSUME UInv, NEW m \in old, NEW q \in Paths, Moved(m, q), whole, m.path \in before,
           FindOrPurgeMissing(m.path)
    PROVE  \E n \in rows' : n.path = q /\ n.content = m.content /\ n.id = m.id
<1>0. TypeOK /\ RowsDiffer /\ MovedInv /\ thread = "purge"
  BY DEF UInv, IInv, FindOrPurgeMissing
<1>1. m \in rows /\ m.path \in Paths /\ ~Exists(m.path) /\ q # m.path
  <2>1. m \in rows /\ m.path \in Paths
    BY <1>0 DEF MovedInv, MovedTo
  <2> QED BY <2>1 DEF Moved
<1>2. PICK n \in rows : n.path = q /\ n.content = m.content /\ n.id > m.id
  BY <1>0 DEF MovedInv, MovedTo
<1>3. RowsAt(m.path) = {m}
  BY <1>0, <1>1 DEF RowsAt, RowsDiffer
<1>4. Fits(n, m)
  BY <1>2 DEF Fits
<1>5. ASSUME NEW c \in rows \ {m, n}
      PROVE  /\ NameOf[c.path] = NameOf[m.path] => ~Fits(c, m)
             /\ c.content # m.content
  <2>1. c.path \notin {m.path, q}
    BY <1>0, <1>1, <1>2 DEF RowsDiffer
  <2> QED BY <1>0, <2>1, NotMistaken DEF Fits
<1>6. Candidates(m) \subseteq {{n}}
  BY <1>1, <1>2, <1>4, <1>5, OnlyCandidate
<1>7. PICK found \in Candidates(m) :
          rows' = IF found = {} THEN rows \ {m} ELSE Merged(m, CHOOSE c \in found : TRUE)
  BY <1>1, <1>3 DEF FindOrPurgeMissing
<1>8. found = {n} /\ (CHOOSE c \in found : TRUE) = n
  BY <1>6, <1>7
<1>9. rows' = Merged(m, n)
  BY <1>7, <1>8
<1>10. Row(m.id, n.path, n.content) \in rows'
  BY <1>9 DEF Merged
<1> QED BY <1>2, <1>10 DEF Row

(* The purge comes to another song: neither row of the moved one is taken. *)
LEMMA PurgeSpares ==
    ASSUME UInv, NEW m \in old, NEW q \in Paths, Moved(m, q), NEW path \in Paths \ {m.path},
           FindOrPurgeMissing(path), NEW n \in rows, n.content = m.content, n.path \in {m.path, q}
    PROVE  n \in rows'
<1>0. TypeOK /\ RowsDiffer /\ MovedInv /\ thread = "purge"
  BY DEF UInv, IInv, FindOrPurgeMissing
<1>1. CASE Exists(path) \/ RowsAt(path) = {}
  BY <1>1 DEF FindOrPurgeMissing
<1>2. CASE ~(Exists(path) \/ RowsAt(path) = {})
  <2>1. PICK missing \in RowsAt(path) : \E found \in Candidates(missing) :
            rows' = IF found = {} THEN rows \ {missing}
                    ELSE Merged(missing, CHOOSE c \in found : TRUE)
    BY <1>2 DEF FindOrPurgeMissing
  <2>2. PICK found \in Candidates(missing) :
            rows' = IF found = {} THEN rows \ {missing}
                    ELSE Merged(missing, CHOOSE c \in found : TRUE)
    BY <2>1
  <2>3. path # q
    <3>1. file[q] = m.content /\ m.content \in Contents
      BY <1>0 DEF Moved, MovedInv
    <3> QED BY <1>2, <3>1, UpdateAssumption DEF Exists
  <2>4. missing \in rows /\ missing.path = path /\ missing.path \notin {m.path, q}
    BY <2>3 DEF RowsAt
  <2>5. n # missing
    BY <2>4
  <2>6. CASE found = {}
    BY <2>2, <2>5, <2>6
  <2>7. ASSUME NEW c \in rows \ {missing}, found = {c}, Fits(c, missing),
               NameOf[c.path] = NameOf[missing.path] \/ c.content = missing.content
        PROVE  n \in rows'
    <3>1. c # n
      <4>1. /\ missing.content # m.content
            /\ NameOf[missing.path] = NameOf[n.path] =>
                  LengthOf[missing.content] # LengthOf[m.content]
        BY <1>0, <2>4, NotMistaken
      <4> QED BY <2>7, <4>1 DEF Fits
    <3>2. (CHOOSE x \in found : TRUE) = c
      BY <2>7
    <3>3. rows' = Merged(missing, c)
      BY <2>2, <2>7, <3>2
    <3> QED BY <2>5, <3>1, <3>3 DEF Merged
  <2> QED BY <2>6, <2>7, CandidatesFit
<1> QED BY <1>1, <1>2

(* A step of the purge.                                                    *)
LEMMA PurgeMoves ==
    ASSUME UInv, NEW path \in Paths, FindOrPurgeMissing(path)
    PROVE  ScanInv' /\ MovedInv'
<1>0. TypeOK /\ RowsDiffer /\ ScanInv /\ MovedInv
  BY DEF UInv, IInv
<1>1. /\ thread = "purge" /\ path \in before /\ before' = before \ {path}
      /\ UNCHANGED <<file, ids, pathsOf, scanned, thread, killed, old, disturbed, whole, todo>>
  BY DEF FindOrPurgeMissing, dialog, ghosts
<1>2. Known' = Known /\ \A p : ContentsOf(p)' = ContentsOf(p)
  BY <1>1 DEF Known, Exists, ContentsOf
<1>3. ScanInv'
  <2>1. RowsAfter(path)
    BY <1>0, PurgeKeepsRows
  <2>2. ASSUME NEW p \in Paths, Exists(p), FileInLibrary(p) PROVE FileInLibrary(p)'
    <3>1. p \in PathsOf(rows)
      BY <2>2 DEF FileInLibrary, RowsAt, PathsOf
    <3>2. p \in PathsOf(rows')
      BY <2>1, <2>2, <3>1 DEF RowsAfter
    <3> QED BY <3>2 DEF FileInLibrary, RowsAt, PathsOf
  <2>3. UpdateIsComplete'
    BY <1>0, <1>1, <2>2 DEF ScanInv, UpdateIsComplete, Exists
  <2> QED BY <1>0, <1>1, <1>2, <2>3 DEF ScanInv, Scanning
<1>4. \A r \in rows' : (r.path \in disturbed \/ r.content \in ContentsOf(r.path))'
  <2>1. ASSUME NEW r \in rows' PROVE \E x \in rows : x.path = r.path /\ x.content = r.content
    BY <1>0, <2>1, PurgeChanges DEF Merged, Row
  <2> QED BY <1>0, <1>1, <1>2, <2>1 DEF MovedInv
<1>5. ASSUME whole', NEW m \in old', NEW q \in Paths, Moved(m, q)'
      PROVE  MovedTo(m, q)'
  <2>1. m \in old /\ m.path \in Paths /\ whole
    BY <1>0, <1>1, <1>5 DEF MovedInv
  <2>2. Moved(m, q)
    <3>1. Undisturbed
      BY <1>1 DEF Undisturbed
    <3> QED BY <1>5, <2>1, <3>1, MovedStays
  <2>3. MovedTo(m, q)
    BY <1>0, <1>1, <2>1, <2>2 DEF MovedInv
  <2>4. CASE path = m.path
    <3>1. \E n \in rows' : n.path = q /\ n.content = m.content /\ n.id = m.id
      BY <1>1, <2>1, <2>2, <2>4, PurgeMovesRow
    <3>2. m.path \notin before'
      BY <1>1, <2>4
    <3> QED BY <3>1, <3>2 DEF MovedTo
  <2>5. CASE path # m.path
    <3>1. m.path \in before' <=> m.path \in before
      BY <1>1, <2>5
    <3>2. \A n \in rows : n.content = m.content /\ n.path \in {m.path, q} => n \in rows'
      BY <2>1, <2>2, <2>5, PurgeSpares
    <3> QED BY <2>3, <3>1, <3>2 DEF MovedTo
  <2> QED BY <2>4, <2>5
<1>6. MovedInv'
  BY <1>0, <1>1, <1>4, <1>5 DEF MovedInv
<1> QED BY <1>3, <1>6

(* So scans are complete and moved songs have their rows, always.          *)
LEMMA MovesInductive == Spec => []UInv
<1>1. Init => UInv
  <2>1. ASSUME Init PROVE UInv
    <3>1. IInv
      BY <2>1, InitHolds
    <3> QED BY <2>1, <3>1 DEF Init, UInv, ScanInv, Scanning, UpdateIsComplete, MovedInv
  <2> QED BY <2>1
<1>2. UInv /\ [Next]_vars => UInv'
  <2> SUFFICES ASSUME UInv, [Next]_vars PROVE ScanInv' /\ MovedInv'
    BY StepKeeps DEF UInv
  <2>1. CASE OtherStep
    BY <2>1, OthersScan, OthersMove
  <2>2. ASSUME NEW p \in Paths, AddSongDataFromFile(p) \/ FindOrPurgeMissing(p)
        PROVE  ScanInv' /\ MovedInv'
    BY <2>2, AddMoves, PurgeMoves
  <2>3. CASE UNCHANGED vars
    BY <2>3 DEF UInv, ScanInv, MovedInv, MovedTo, Moved, Mistaken, ContentsOf, Known, Scanning,
       UpdateIsComplete, FileInLibrary, RowsAt, Exists, vars, table, dialog, ghosts
  <2> QED BY <2>1, <2>2, <2>3 DEF Next, UpdateStep, OtherStep
<1> QED BY <1>1, <1>2, PTL DEF Spec

(* An update that was not cancelled has found every file, whether it has   *)
(* scanned or was given the list of a scan (LibraryDialog.cpp): a list     *)
(* that a cancelled scan left is the only one it may miss files with.      *)
THEOREM UpdatesFindAll == Spec => []UpdateIsComplete
<1>1. UInv => UpdateIsComplete
  BY DEF UInv, ScanInv
<1> QED BY <1>1, MovesInductive, PTL

(* A song that was moved keeps its row, and so its rating and its count of *)
(* plays: whichever order FindOrPurgeMissing looks at missing files in, no *)
(* other song takes it, unless its tags or its name would fit as well.     *)
THEOREM MovedSongsStay == Spec => []MovedSongsKeepTheirRow
<1>1. UInv => MovedSongsKeepTheirRow
  <2> SUFFICES ASSUME UInv, thread = "purge", whole, before = {}, NEW m \in old, NEW q \in Paths,
                      Moved(m, q)
               PROVE  \E r \in rows : r.id = m.id /\ r.path = q
    BY DEF MovedSongsKeepTheirRow, Moved
  <2> QED BY DEF UInv, MovedInv, MovedTo
<1> QED BY <1>1, MovesInductive, PTL
=============================================================================
