----------------------------- MODULE TagThreadsMC -----------------------------
(***************************************************************************)
(* What TagThreads is checked for.                                         *)
(***************************************************************************)
EXTENDS TagThreads

Places == {"none", "born", "query", "begin", "fresh", "next", "write", "update", "read", "reset",
           "end", "renew", "exit", "ended", "gone"}
Jobs   == [at : Places, todo : SUBSET Songs, song : Songs \union {None}, tag : Tags \union {None},
           option : BOOLEAN, announced : BOOLEAN, killed : BOOLEAN]

(* Places, rows and jobs have their types.                                 *)
TypeOK ==
    /\ file \in [Songs -> Tags] /\ {disk, work} \subseteq [Songs -> Rows]
    /\ writer \in Threads \union {None}
    /\ job \in [Threads -> Jobs]
    /\ active \in Threads \union {None} /\ ends \subseteq Threads
    /\ latest \in [Songs -> Tags] /\ {foreign, raced, finalized} \subseteq SUBSET Songs

(* A song whose file does not hold its tag is dirty, so that the tag will  *)
(* be written, or has a newer file, so that a rebuild will read it, or is  *)
(* in a transaction; unless the user has declared it clean, or two threads *)
(* or programs worked on it at the same time.                              *)
DirtyOrSame ==
    \A s \in Songs \ (Unsupported \union raced \union finalized) :
        \/ disk[s].tag = file[s]
        \/ disk[s].dirty
        \/ disk[s].newer
        \/ writer # None /\ work[s] # disk[s]

(* No rebuild and no writing of dirty tags takes back what a song was      *)
(* given last, unless two worked on it at the same time.                   *)
EditsSurvive == \A s \in Songs \ raced : work[s].tag = latest[s]

(* m_ActiveThread points to a thread that was deleted only while the event *)
(* that clears it is on its way.                                           *)
DanglingIsBrief == active # None /\ At(active, {"gone"}) => active \in ends
=============================================================================
