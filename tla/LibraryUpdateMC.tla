--------------------------- MODULE LibraryUpdateMC ---------------------------
(***************************************************************************)
(* What LibraryUpdate is checked for.                                      *)
(***************************************************************************)
EXTENDS LibraryUpdate

(* Two directories; two files of the same name; two songs, equally long.   *)
ThreePaths   == 1..3
TwoDirs      == 1..2
Directories  == <<1, 2, 2>>
Names        == <<"a", "a", "b">>
TwoContents  == 1..2
Lengths      == <<1, 1>>

(* The dialog, its threads and the table have their types; every row has   *)
(* an id of its own, however rows are handed on.                           *)
TypeOK ==
    /\ file \in [Paths -> Contents \union {NoFile}]
    /\ rows \subseteq [id : 1..ids, path : Paths, content : Contents] /\ ids \in Nat
    /\ {pathsOf} \subseteq SUBSET Dirs /\ {scanned, before, disturbed} \subseteq SUBSET Paths
    /\ todo \subseteq Paths \union Dirs
    /\ thread \in {"none", "scan", "scanFirst", "update", "add", "purge", "ended"}
    /\ {killed, purge, whole} \subseteq BOOLEAN
    /\ \A r, s \in rows : r.id = s.id => r = s

(* However rows are handed from a missing file to another, no file has two *)
(* rows: no statement of the threads is one that the UNIQUE constraint of  *)
(* filename would refuse.                                                  *)
OneRowPerFile == \A p \in Paths : Cardinality(RowsAt(p)) <= 1

(* A file that is there never loses its row: a purge drops what is missing *)
(* and nothing else, also when the row is given to another id.             *)
EntriesAreKept ==
    [][\A p \in Paths : Exists(p) /\ FileInLibrary(p) => FileInLibrary(p)']_vars

(* A purge that was not cancelled has left no row of a missing file that   *)
(* was in the library before, not even when it gave a row to a file that   *)
(* is missing as well.                                                     *)
PurgeIsComplete ==
    thread \in {"purge", "ended"} /\ purge /\ ~killed =>
        \A r \in rows : \/ Exists(r.path) \/ r.path \in before \union disturbed
                        \/ r.path \notin {x.path : x \in old}

(* An update that was not cancelled, with a list that is not left over     *)
(* from a cancelled scan, has found every file.                            *)
UpdateIsComplete ==
    thread = "purge" /\ whole =>
        \A p \in Paths \ disturbed : Exists(p) /\ DirOf[p] \in pathsOf => FileInLibrary(p)

(* A song that was moved keeps its row, and so its rating and its count of *)
(* plays, at the new place if that is in the library's directories and no  *)
(* equally long song has its tags or the name of one of the two places.    *)
ContentsOf(p) == {r.content : r \in {x \in old : x.path = p}} \union ({file[p]} \ {NoFile})
Mistaken(p, content, names) ==
    \/ p \in disturbed
    \/ \E c \in ContentsOf(p) :
          /\ LengthOf[c] = LengthOf[content]
          /\ c = content \/ NameOf[p] \in names
MovedSongsKeepTheirRow ==
    thread = "purge" /\ whole /\ before = {} =>
        \A m \in old, q \in Paths :
            /\ {m.path, q} \intersect disturbed = {}
            /\ ~Exists(m.path) /\ file[q] = m.content /\ DirOf[q] \in pathsOf
            /\ \A r \in old : r.path # q
            /\ \A p \in Paths \ {m.path, q} :
                  ~Mistaken(p, m.content, {NameOf[m.path], NameOf[q]})
            => \E r \in rows : r.id = m.id /\ r.path = q
=============================================================================
