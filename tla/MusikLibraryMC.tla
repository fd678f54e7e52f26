----------------------------- MODULE MusikLibraryMC -----------------------------
(***************************************************************************)
(* What MusikLibrary is checked for.                                       *)
(***************************************************************************)
EXTENDS MusikLibrary

Ids == Songs \union {All}
At  == {"run", "exec", "busy", "waiting", "counted", "tell", "ended", "begin", "added", "changed",
        "commit", "signal", "unmark", "replay", "dead"}
Statements == {"none", "get", "count", "update", "remove", "removeall", "begin"}
Calling == [at : At, stmt : Statements, song : Ids]

(* The members have their types; a song that is not in the database is not *)
(* in the cache.                                                           *)
TypeOK ==
    /\ {disk, work} \subseteq Rows /\ writer \in {None} \union Libs /\ committing \in BOOLEAN
    /\ cache \in [Songs -> Values \union {NotCached}]
    /\ {cacheLock, conn} \subseteq {None} \union Threads
    /\ count \in Nat \union {Unknown} /\ counted \in Nat
    /\ inTrans \in [Libs -> BOOLEAN]
    /\ changed \in [Libs -> Seq(Ids)] /\ left \in [Slaves -> Seq(Ids)]
    /\ call \in [Threads -> Calling]
    /\ raced \subseteq {"signal", "count"}

Covers(ids, s) == \E i \in DOMAIN ids : ids[i] \in {s, All}

(* Somebody has still to tell the master that the song has changed.        *)
Pending(s) ==
    \/ \E t \in Threads : pc(t) \in {"tell", "changed"} /\ call[t].song \in {s, All}
    \/ pc(Gui) = "counted" /\ call[Gui].stmt = "removeall"
    \/ \E l \in Libs : inTrans[l] /\ Covers(changed[l], s)
    \/ \E l \in Slaves : Covers(left[l], s)

(* The cache answers with what the database holds, unless a thread that has *)
(* changed the song has still to say so, at once or at the end of a        *)
(* transaction: no change of any thread is missed for good, however fills  *)
(* of the cache, commits and notifications interleave.                     *)
StaleIsPending ==
    \A s \in Songs : cache[s] \notin {NotCached, Image(Master)[s]} => Pending(s)

(* The cached number of songs is right, unless a background thread has     *)
(* still to signal its end of transaction, or has signalled while the GUI  *)
(* thread held a number it was going to store.                             *)
CountIsRight ==
    \/ count \in {Unknown, CountOf(Image(Master))}
    \/ "count" \in raced
    \/ pc(Gui) = "counted"
    \/ \E l \in Slaves : inTrans[l]

(* A thread that calls the library, or waits in it for a lock, the database *)
(* or the connection, is answered, unless the only signals it could have   *)
(* waited for came after it was told busy and before it waited.  With      *)
(* SlaveReads it fails: the one that would signal waits for the master.    *)
Answered ==
    \A t \in Threads : (pc(t) # "run" ~> pc(t) \in {"run", "dead"}) \/ <>("signal" \in raced)
=============================================================================
