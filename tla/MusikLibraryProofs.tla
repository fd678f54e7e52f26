-------------------------- MODULE MusikLibraryProofs --------------------------
(***************************************************************************)
(* Theorems about MusikLibrary, for every number of songs, threads and     *)
(* background threads, for a list of changed ids of any length, and        *)
(* whether or not background threads change songs outside transactions.    *)
(***************************************************************************)
EXTENDS MusikLibraryMC, FiniteSetTheorems, TLAPS

(* A slave that commits owns the database, one that begins or has ended a  *)
(* transaction does not, and one that owns it is in a transaction.         *)
SlaveWrites ==
    \A l \in Slaves :
        /\ pc(l) \in {"added", "changed", "commit"} => writer = l
        /\ pc(l) \in {"begin", "signal", "unmark", "replay", "dead"} => writer # l
        /\ pc(l) = "begin" \/ (writer = l /\ pc(l) \notin {"added", "changed"}) => inTrans[l]

(* The master is in a transaction from begin to the notification, and owns *)
(* the database in between.                                                *)
GuiWrites ==
    /\ inTrans[Master] <=> call[Gui].stmt = "begin" \/ pc(Gui) = "ended" \/ writer = Master
    /\ writer = Master => call[Gui].stmt # "begin" /\ pc(Gui) # "ended"
    /\ call[Gui].stmt = "begin" => pc(Gui) \in {"exec", "busy", "waiting"}
    /\ pc(Gui) = "run" => call[Gui].stmt = "none"
    /\ call[Gui].stmt = "removeall" => call[Gui].song = All

LeftIsReplayed == \A l \in Slaves : left[l] # <<>> => pc(l) = "replay"

(* What a slave has written but not committed it is going to tell, unless  *)
(* it is a new row.                                                        *)
ToldBy(l, s) ==
    \/ pc(l) \in {"tell", "changed"} /\ call[l].song = s
    \/ inTrans[l] /\ Covers(changed[l], s)
WrittenIsTold ==
    \A l \in Slaves, s \in Songs :
        writer = l /\ work[s] # disk[s] /\ disk[s] # Gone => ToldBy(l, s)

IInv ==
    /\ TypeOK /\ SlaveWrites /\ GuiWrites /\ LeftIsReplayed
    /\ WrittenIsTold /\ StaleIsPending

-----------------------------------------------------------------------------
(* Collect forgets no song.                                                *)
LEMMA CollectCovers ==
    ASSUME NEW ids \in Seq(Ids), NEW id \in Ids
    PROVE  /\ Collect(ids, id) \in Seq(Ids)
           /\ \A s \in Songs : Covers(ids, s) \/ id \in {s, All} => Covers(Collect(ids, id), s)
<1>1. CASE ids # <<>> /\ ids[1] = All
  <2>1. 1 \in DOMAIN ids  BY <1>1
  <2> QED BY <1>1, <2>1 DEF Collect, Covers
<1>2. CASE ~(ids # <<>> /\ ids[1] = All) /\ (id = All \/ Len(ids) > MaxIds)
  <2>1. Collect(ids, id) = <<All>>  BY <1>2 DEF Collect
  <2>2. 1 \in DOMAIN <<All>> /\ <<All>>[1] = All  OBVIOUS
  <2> QED BY <2>1, <2>2 DEF Covers, Ids
<1>3. CASE ~(ids # <<>> /\ ids[1] = All) /\ ~(id = All \/ Len(ids) > MaxIds)
  <2>1. Collect(ids, id) = Append(ids, id)  BY <1>3 DEF Collect
  <2>2. /\ Len(ids) + 1 \in DOMAIN Append(ids, id) /\ Append(ids, id)[Len(ids) + 1] = id
        /\ \A i \in DOMAIN ids : i \in DOMAIN Append(ids, id) /\ Append(ids, id)[i] = ids[i]
    OBVIOUS
  <2> QED BY <2>1, <2>2 DEF Covers
<1> QED BY <1>1, <1>2, <1>3

(* TellMaster forgets no song either: it goes from the cache or into the   *)
(* list of the master's transaction.                                       *)
LEMMA TellMasterTells ==
    ASSUME TypeOK, NEW id \in Ids, TellMaster(id), UNCHANGED inTrans
    PROVE  /\ cache' \in [Songs -> Values \union {NotCached}] /\ changed' \in [Libs -> Seq(Ids)]
           /\ \A l \in Slaves : changed'[l] = changed[l]
           /\ \A s \in Songs :
                 /\ cache'[s] \in {cache[s], NotCached}
                 /\ id \in {s, All} =>
                       (cache'[s] = NotCached \/ (inTrans'[Master] /\ Covers(changed'[Master], s)))
                 /\ inTrans[Master] /\ Covers(changed[Master], s)
                       => inTrans'[Master] /\ Covers(changed'[Master], s)
<1>0. Master \in Libs /\ Master \notin Slaves /\ changed[Master] \in Seq(Ids)
  BY LibraryAssumption DEF TypeOK, Libs
<1>1. CASE inTrans[Master]
  BY <1>0, <1>1, CollectCovers DEF TellMaster, TypeOK, Libs
<1>2. CASE ~inTrans[Master]
  BY <1>0, <1>2 DEF TellMaster, TypeOK, Erased
<1> QED BY <1>1, <1>2

-----------------------------------------------------------------------------
(* What the assumptions say of threads and libraries.                      *)
LEMMA Apart ==
    /\ Gui \in Users /\ Gui \in Threads /\ Gui \notin Slaves
    /\ Users \subseteq Threads /\ Slaves \subseteq Threads
    /\ Master \in Libs /\ Master \notin Slaves /\ Slaves \subseteq Libs
    /\ None \notin Threads /\ None \notin Libs
    /\ \A u \in Users : u \notin Slaves
    /\ All \in Ids /\ All \notin Songs /\ Songs \subseteq Ids
  BY LibraryAssumption DEF Threads, Libs, Ids

(* Only a finite number of songs can be counted.                           *)
LEMMA CountIsNat == ASSUME NEW rows \in Rows PROVE CountOf(rows) \in Nat
  BY LibraryAssumption, FS_Subset, FS_CardinalityType DEF CountOf

(* The master reads rows.                                                  *)
LEMMA ImageIsRows == ASSUME TypeOK PROVE Image(Master) \in Rows
  BY DEF TypeOK, Image

(* What a thread's move does to its call, and that it is the only one.     *)
OnlyCallOf(t) == \A x \in Threads \ {t} : call'[x] = call[x] /\ pc(x)' = pc(x)

(* A thread that goes on keeps its statement and its song.                 *)
LEMMA GoesMoves ==
    ASSUME TypeOK, NEW t \in Threads, NEW place \in At, Goes(t, place)
    PROVE  /\ call' \in [Threads -> Calling] /\ OnlyCallOf(t)
           /\ pc(t)' = place /\ call'[t].song = call[t].song /\ call'[t].stmt = call[t].stmt
  BY DEF TypeOK, Goes, pc, Calling, OnlyCallOf
(* A thread that returns holds no song.                                    *)
LEMMA ReturnsMoves ==
    ASSUME TypeOK, NEW t \in Threads, Returns(t)
    PROVE  /\ call' \in [Threads -> Calling] /\ OnlyCallOf(t)
           /\ pc(t)' = "run" /\ call'[t].song = All /\ call'[t].stmt = "none"
  BY Apart DEF TypeOK, Returns, Idle, pc, Calling, At, Statements, OnlyCallOf
(* A thread that enters a call comes with its statement and its song.      *)
LEMMA EntersMoves ==
    ASSUME TypeOK, NEW t \in Threads, NEW place \in At, NEW s \in Ids, NEW name \in Statements,
           Enters(t, place, name, s)
    PROVE  /\ call' \in [Threads -> Calling] /\ OnlyCallOf(t)
           /\ pc(t)' = place /\ call'[t].song = s /\ call'[t].stmt = name
  BY DEF TypeOK, Enters, pc, Calling, OnlyCallOf

(* A signal wakes waiting threads, and moves no other but its sender.      *)
LEMMA SignalledMoves ==
    ASSUME TypeOK, NEW l \in Slaves, NEW to \in At, Signalled(l, to)
    PROVE  /\ call' \in [Threads -> Calling] /\ pc(l)' = to /\ count' = Unknown
           /\ raced' \subseteq {"signal", "count"}
           /\ \A x \in Threads \ {l} :
                 /\ call'[x].stmt = call[x].stmt /\ call'[x].song = call[x].song
                 /\ \/ call'[x] = call[x] /\ pc(x)' = pc(x)
                    \/ pc(x) = "waiting" /\ pc(x)' = "exec"
<1>1. /\ call'[l] = [Idle EXCEPT !.at = to] /\ call'[l] \in Calling /\ call'[l].at = to
  BY Apart DEF Signalled, Idle, Calling, Statements
<1>2. ASSUME NEW x \in Threads \ {l}
      PROVE  /\ call'[x] \in Calling
             /\ call'[x].stmt = call[x].stmt /\ call'[x].song = call[x].song
             /\ \/ call'[x] = call[x] /\ pc(x)' = pc(x)
                \/ pc(x) = "waiting" /\ pc(x)' = "exec"
  <2>1. call[x] \in Calling  BY DEF TypeOK
  <2>2. call'[x] = IF pc(x) = "waiting" THEN [call[x] EXCEPT !.at = "exec"] ELSE call[x]
    BY DEF Signalled
  <2> QED BY <2>1, <2>2 DEF pc, Calling, At
<1>3. call' \in [Threads -> Calling]
  <2>1. call' = [x \in Threads |-> call'[x]]  BY DEF Signalled
  <2> QED BY <1>1, <1>2, <2>1
<1>4. count' = Unknown /\ raced' \subseteq {"signal", "count"}
  BY DEF TypeOK, Signalled
<1> QED BY <1>1, <1>2, <1>3, <1>4 DEF pc

(* Stale answers stay pending when the cache loses songs, the master sees  *)
(* other rows only of songs that are pending, and no song that stays in    *)
(* the cache ceases to be pending.                                         *)
LEMMA StaleFollows ==
    ASSUME StaleIsPending,
           \A s \in Songs : cache'[s] \in {NotCached, cache[s]},
           \A s \in Songs :
              Image(Master)'[s] = Image(Master)[s] \/ cache'[s] = NotCached \/ Pending(s)',
           \A s \in Songs : Pending(s) => cache'[s] = NotCached \/ Pending(s)'
    PROVE  StaleIsPending'
  BY DEF StaleIsPending

Telling(t) == pc(t) \in {"tell", "changed"} \/ (pc(t) = "counted" /\ call[t].stmt = "removeall")

(* A step that takes no thread away from a song it has still to tell, and  *)
(* leaves the database and the lists alone.                                *)
LEMMA QuietStep ==
    ASSUME IInv, UNCHANGED <<disk, work, writer, inTrans, changed, left>>,
           \A t \in Threads : Telling(t) => call'[t] = call[t]
    PROVE  /\ WrittenIsTold' /\ (cache' = cache => StaleIsPending')
           /\ \A s \in Songs : Pending(s) => Pending(s)'
<1>1. \A t \in Threads : pc(t) \in {"tell", "changed"} =>
          pc(t)' \in {"tell", "changed"} /\ call'[t].song = call[t].song
  BY DEF Telling, pc
<1>2. pc(Gui) = "counted" /\ call[Gui].stmt = "removeall" =>
          pc(Gui)' = "counted" /\ call'[Gui].stmt = "removeall"
  BY Apart DEF Telling, pc
<1>3. WrittenIsTold'
  BY <1>1, Apart DEF IInv, WrittenIsTold, ToldBy, Covers
<1>4. \A s \in Songs : Pending(s) => Pending(s)'
  BY <1>1, <1>2, Apart DEF Pending, Covers
<1>5. cache' = cache => StaleIsPending'
  BY <1>4 DEF IInv, StaleIsPending, Image
<1> QED BY <1>3, <1>4, <1>5

(* What the master writes it sees, and it writes when no slave does.       *)
LEMMA MasterWritesRows ==
    ASSUME TypeOK, NEW rows \in Rows, writer \notin Slaves, MasterWrites(rows)
    PROVE  /\ disk' \in Rows /\ work' \in Rows /\ UNCHANGED <<writer, committing>>
           /\ Image(Master)' = rows /\ WrittenIsTold'
<1>1. /\ disk' \in Rows /\ work' \in Rows /\ UNCHANGED <<writer, committing>>
      /\ Image(Master)' = rows
  BY DEF TypeOK, MasterWrites, Image
<1> QED BY <1>1 DEF WrittenIsTold

-----------------------------------------------------------------------------
(* One lemma for every action: it keeps the invariant.                     *)

(* Calls that begin, wait or only read.                                    *)

(* The song that is asked for is not in the cache.                         *)
LEMMA GetSongFromSongidKeeps ==
    ASSUME IInv, NEW t \in Threads, GetSongFromSongid(t) PROVE IInv'
<1>1. TypeOK'
  BY EntersMoves, Apart DEF IInv, TypeOK, At, Statements, GetSongFromSongid, Calls, dbVars,
     Ids
<1>2. SlaveWrites' /\ GuiWrites' /\ LeftIsReplayed'
  BY EntersMoves, Apart DEF IInv, SlaveWrites, GuiWrites, LeftIsReplayed, OnlyCallOf, At,
     Statements, GetSongFromSongid, Calls, dbVars, Ids
<1>3. WrittenIsTold' /\ StaleIsPending'
  BY EntersMoves, QuietStep, Apart DEF IInv, Telling, OnlyCallOf, At, Statements,
     GetSongFromSongid, Calls, dbVars, Ids
<1> QED BY <1>1, <1>2, <1>3 DEF IInv

(* The GUI asks for the number of songs.                                   *)
LEMMA GetSongCountKeeps ==
    ASSUME IInv, GetSongCount PROVE IInv'
<1>1. TypeOK'
  BY EntersMoves, Apart DEF IInv, TypeOK, At, Statements, GetSongCount, Calls, dbVars,
     libVars, Ids
<1>2. SlaveWrites' /\ GuiWrites' /\ LeftIsReplayed'
  BY EntersMoves, Apart DEF IInv, SlaveWrites, GuiWrites, LeftIsReplayed, OnlyCallOf, At,
     Statements, GetSongCount, Calls, dbVars, libVars, Ids
<1>3. WrittenIsTold' /\ StaleIsPending'
  BY EntersMoves, QuietStep, Apart DEF IInv, Telling, OnlyCallOf, At, Statements,
     GetSongCount, Calls, dbVars, libVars, Ids
<1> QED BY <1>1, <1>2, <1>3 DEF IInv

(* A user's change enters the call.                                        *)
LEMMA ChangesLibraryKeeps ==
    ASSUME IInv, NEW u \in Users, ChangesLibrary(u) PROVE IInv'
<1>1. TypeOK'
  BY EntersMoves, Apart DEF IInv, TypeOK, At, Statements, ChangesLibrary, Calls, dbVars,
     libVars, Ids
<1>2. SlaveWrites' /\ GuiWrites' /\ LeftIsReplayed'
  BY EntersMoves, Apart DEF IInv, SlaveWrites, GuiWrites, LeftIsReplayed, OnlyCallOf, At,
     Statements, ChangesLibrary, Calls, dbVars, libVars, Ids
<1>3. WrittenIsTold' /\ StaleIsPending'
  BY EntersMoves, QuietStep, Apart DEF IInv, Telling, OnlyCallOf, At, Statements,
     ChangesLibrary, Calls, dbVars, libVars, Ids
<1> QED BY <1>1, <1>2, <1>3 DEF IInv

(* A statement finds the database locked.                                  *)
LEMMA IsBusyKeeps ==
    ASSUME IInv, NEW t \in Threads, IsBusy(t) PROVE IInv'
<1>1. TypeOK'
  BY GoesMoves, Apart DEF IInv, TypeOK, At, Statements, IsBusy, dbVars, libVars
<1>2. SlaveWrites' /\ GuiWrites' /\ LeftIsReplayed'
  BY GoesMoves, Apart DEF IInv, SlaveWrites, GuiWrites, LeftIsReplayed, OnlyCallOf, At,
     Statements, IsBusy, dbVars, libVars
<1>3. WrittenIsTold' /\ StaleIsPending'
  BY GoesMoves, QuietStep, Apart DEF IInv, Telling, OnlyCallOf, At, Statements, IsBusy,
     dbVars, libVars
<1> QED BY <1>1, <1>2, <1>3 DEF IInv

(* The busy handler waits.                                                 *)
LEMMA OnBusyKeeps ==
    ASSUME IInv, NEW t \in Threads, OnBusy(t) PROVE IInv'
<1>1. TypeOK'
  BY GoesMoves, Apart DEF IInv, TypeOK, At, Statements, OnBusy, dbVars, libVars
<1>2. SlaveWrites' /\ GuiWrites' /\ LeftIsReplayed'
  BY GoesMoves, Apart DEF IInv, SlaveWrites, GuiWrites, LeftIsReplayed, OnlyCallOf, At,
     Statements, OnBusy, dbVars, libVars
<1>3. WrittenIsTold' /\ StaleIsPending'
  BY GoesMoves, QuietStep, Apart DEF IInv, Telling, OnlyCallOf, At, Statements, OnBusy,
     dbVars, libVars
<1> QED BY <1>1, <1>2, <1>3 DEF IInv

(* The count is read; what has to be told by the GUI thread is not yet.    *)
LEMMA QueryCountKeeps ==
    ASSUME IInv, QueryCount PROVE IInv'
<1>1. TypeOK'
  BY GoesMoves, Apart, CountIsNat, ImageIsRows DEF IInv, TypeOK, At, Statements, QueryCount,
     MayRun, dbVars, libVars
<1>2. SlaveWrites' /\ GuiWrites' /\ LeftIsReplayed'
  BY GoesMoves, Apart DEF IInv, SlaveWrites, GuiWrites, LeftIsReplayed, OnlyCallOf, At,
     Statements, QueryCount, MayRun, dbVars, libVars
<1>3. WrittenIsTold' /\ StaleIsPending'
  BY GoesMoves, QuietStep, Apart DEF IInv, Telling, OnlyCallOf, At, Statements, QueryCount,
     MayRun, dbVars, libVars
<1> QED BY <1>1, <1>2, <1>3 DEF IInv

(* A slave that has nothing to commit does not own the database.           *)
LEMMA EndTransactionKeeps ==
    ASSUME IInv, NEW l \in Slaves, EndTransaction(l) PROVE IInv'
<1>1. TypeOK'
  BY GoesMoves, Apart DEF IInv, TypeOK, At, Statements, EndTransaction, dbVars, libVars
<1>2. SlaveWrites' /\ GuiWrites' /\ LeftIsReplayed'
  BY GoesMoves, Apart DEF IInv, SlaveWrites, GuiWrites, LeftIsReplayed, OnlyCallOf, At,
     Statements, EndTransaction, dbVars, libVars
<1>3. WrittenIsTold' /\ StaleIsPending'
  BY GoesMoves, QuietStep, Apart DEF IInv, Telling, OnlyCallOf, At, Statements,
     EndTransaction, dbVars, libVars
<1> QED BY <1>1, <1>2, <1>3 DEF IInv

(* The signal only wakes.                                                  *)
LEMMA SignalSlaveTransactionEndKeeps ==
    ASSUME IInv, NEW l \in Slaves, SignalSlaveTransactionEnd(l) PROVE IInv'
<1>1. TypeOK'
  BY SignalledMoves, Apart DEF IInv, TypeOK, At, Statements, SignalSlaveTransactionEnd,
     dbVars, libVars
<1>2. SlaveWrites' /\ GuiWrites' /\ LeftIsReplayed'
  BY SignalledMoves, Apart DEF IInv, SlaveWrites, GuiWrites, LeftIsReplayed, OnlyCallOf, At,
     Statements, SignalSlaveTransactionEnd, dbVars, libVars
<1>3. WrittenIsTold' /\ StaleIsPending'
  BY SignalledMoves, QuietStep, Apart DEF IInv, Telling, OnlyCallOf, At, Statements,
     SignalSlaveTransactionEnd, dbVars, libVars
<1> QED BY <1>1, <1>2, <1>3 DEF IInv

(* The list is told to its end.                                            *)
LEMMA AllToldKeeps ==
    ASSUME IInv, NEW l \in Slaves, AllTold(l) PROVE IInv'
<1>1. TypeOK'
  BY ReturnsMoves, Apart DEF IInv, TypeOK, At, Statements, AllTold, dbVars, libVars
<1>2. SlaveWrites' /\ GuiWrites' /\ LeftIsReplayed'
  BY ReturnsMoves, Apart DEF IInv, SlaveWrites, GuiWrites, LeftIsReplayed, OnlyCallOf, At,
     Statements, AllTold, dbVars, libVars
<1>3. WrittenIsTold' /\ StaleIsPending'
  BY ReturnsMoves, QuietStep, Apart DEF IInv, Telling, OnlyCallOf, At, Statements, AllTold,
     dbVars, libVars
<1> QED BY <1>1, <1>2, <1>3 DEF IInv

(* A library that ends has nothing left to tell.                           *)
LEMMA DestroyedKeeps ==
    ASSUME IInv, NEW l \in Slaves, Destroyed(l) PROVE IInv'
<1>1. TypeOK'
  BY SignalledMoves, Apart DEF IInv, TypeOK, At, Statements, Destroyed, dbVars, libVars
<1>2. SlaveWrites' /\ GuiWrites' /\ LeftIsReplayed'
  BY SignalledMoves, Apart DEF IInv, SlaveWrites, GuiWrites, LeftIsReplayed, OnlyCallOf, At,
     Statements, Destroyed, dbVars, libVars
<1>3. WrittenIsTold' /\ StaleIsPending'
  BY SignalledMoves, QuietStep, Apart DEF IInv, Telling, OnlyCallOf, At, Statements,
     Destroyed, dbVars, libVars
<1> QED BY <1>1, <1>2, <1>3 DEF IInv

(* The statements of the master.                                           *)

(* A song comes into the cache with the row the master sees, or not at all. *)
LEMMA QuerySongKeeps ==
    ASSUME IInv, NEW t \in Threads, QuerySong(t) PROVE IInv'
<1>1. TypeOK'
  <2>1. cache' \in [Songs -> Values \union {NotCached}]
    BY ImageIsRows DEF IInv, TypeOK, QuerySong, Rows
  <2> QED BY <2>1, ReturnsMoves, Apart DEF IInv, TypeOK, QuerySong, MayRun, dbVars
<1>2. SlaveWrites' /\ GuiWrites' /\ LeftIsReplayed'
  BY ReturnsMoves, Apart DEF IInv, SlaveWrites, GuiWrites, LeftIsReplayed, OnlyCallOf, At,
     Statements, QuerySong, MayRun, dbVars
<1>3. WrittenIsTold' /\ \A s \in Songs : Pending(s) => Pending(s)'
  BY ReturnsMoves, QuietStep, Apart DEF IInv, QuerySong, MayRun, dbVars, Telling, OnlyCallOf
<1>4. StaleIsPending'
  <2>1. Image(Master)' = Image(Master)
    BY DEF QuerySong, dbVars, Image
  <2>2. \A s \in Songs : \/ cache'[s] = cache[s]
                         \/ cache'[s] \in {NotCached, Image(Master)[s]}
    BY DEF IInv, TypeOK, QuerySong
  <2> QED BY <1>3, <2>1, <2>2 DEF IInv, StaleIsPending
<1> QED BY <1>1, <1>2, <1>3, <1>4 DEF IInv

(* After RemoveAll all songs are still to be told.                         *)
LEMMA CountIsStoredKeeps ==
    ASSUME IInv, CountIsStored PROVE IInv'
<1>1. TypeOK'
  BY GoesMoves, ReturnsMoves, Apart DEF IInv, TypeOK, At, Statements, CountIsStored, dbVars,
     libVars
<1>2. SlaveWrites' /\ GuiWrites' /\ LeftIsReplayed'
  BY GoesMoves, ReturnsMoves, Apart DEF IInv, TypeOK, SlaveWrites, GuiWrites,
     LeftIsReplayed, OnlyCallOf, At, Statements, CountIsStored, dbVars, libVars
<1>3. WrittenIsTold'
  BY GoesMoves, ReturnsMoves, Apart
     DEF IInv, WrittenIsTold, ToldBy, Covers, CountIsStored, dbVars, libVars, OnlyCallOf, At
<1>4. StaleIsPending'
  <2>1. \A s \in Songs : Pending(s) => Pending(s)'
    BY GoesMoves, ReturnsMoves, Apart
       DEF IInv, GuiWrites, Pending, Covers, CountIsStored, OnlyCallOf, At
  <2> QED BY <2>1, StaleFollows DEF IInv, CountIsStored, dbVars, Image
<1> QED BY <1>1, <1>2, <1>3, <1>4 DEF IInv

(* The song that was changed is the one that is told.                      *)
LEMMA UpdateRowKeeps ==
    ASSUME IInv, NEW u \in Users, UpdateRow(u) PROVE IInv'
<1>0. PICK v \in Values :
        /\ disk' \in Rows /\ work' \in Rows /\ UNCHANGED <<writer, committing>>
        /\ Image(Master)' = [Image(Master) EXCEPT ![call[u].song] = IF @ = Gone THEN Gone ELSE v]
        /\ WrittenIsTold'
  <2>1. PICK v \in Values :
          MasterWrites([Image(Master) EXCEPT ![call[u].song] = IF @ = Gone THEN Gone ELSE v])
    BY DEF UpdateRow
  <2>2. [Image(Master) EXCEPT ![call[u].song] = IF @ = Gone THEN Gone ELSE v] \in Rows
    BY ImageIsRows DEF IInv, Rows
  <2>3. writer \notin Slaves
    BY DEF UpdateRow, MayRun, Locked, Reads
  <2> QED BY <2>1, <2>2, <2>3, MasterWritesRows DEF IInv
<1>1. TypeOK'
  BY <1>0, GoesMoves, Apart DEF IInv, TypeOK, At, UpdateRow, MayRun, libVars
<1>2. SlaveWrites' /\ GuiWrites' /\ LeftIsReplayed'
  BY <1>0, GoesMoves, Apart DEF IInv, TypeOK, SlaveWrites, GuiWrites, LeftIsReplayed, OnlyCallOf,
     At, Statements, UpdateRow, MayRun, dbVars, libVars
<1>3. WrittenIsTold'
  BY <1>0
<1>4. StaleIsPending'
  <2>1. \A s \in Songs : Pending(s) => Pending(s)'
    BY <1>0, GoesMoves, Apart DEF IInv, Pending, Covers, UpdateRow, MayRun, libVars,
       OnlyCallOf, At
  <2>2. \A s \in Songs : Image(Master)'[s] = Image(Master)[s] \/ Pending(s)'
    BY <1>0, ImageIsRows, GoesMoves, Apart DEF IInv, GuiWrites, Pending, UpdateRow, MayRun, At,
       Rows
  <2> QED BY <2>1, <2>2, StaleFollows DEF IInv, UpdateRow, libVars
<1> QED BY <1>1, <1>2, <1>3, <1>4 DEF IInv

(* So it is when it was removed.                                           *)
LEMMA RemoveRowKeeps ==
    ASSUME IInv, RemoveRow PROVE IInv'
<1>0. /\ disk' \in Rows /\ work' \in Rows /\ UNCHANGED <<writer, committing>>
      /\ Image(Master)' = [Image(Master) EXCEPT ![call[Gui].song] = Gone]
      /\ WrittenIsTold'
  <2>1. MasterWrites([Image(Master) EXCEPT ![call[Gui].song] = Gone])
    BY DEF RemoveRow
  <2>2. [Image(Master) EXCEPT ![call[Gui].song] = Gone] \in Rows
    BY ImageIsRows DEF IInv, Rows
  <2>3. writer \notin Slaves
    BY DEF RemoveRow, MayRun, Locked, Reads
  <2> QED BY <2>1, <2>2, <2>3, MasterWritesRows DEF IInv
<1>1. TypeOK'
  BY <1>0, GoesMoves, Apart DEF IInv, TypeOK, At, RemoveRow, MayRun, libVars
<1>2. SlaveWrites' /\ GuiWrites' /\ LeftIsReplayed'
  BY <1>0, GoesMoves, Apart DEF IInv, TypeOK, SlaveWrites, GuiWrites, LeftIsReplayed, OnlyCallOf,
     At, Statements, RemoveRow, MayRun, dbVars, libVars
<1>3. WrittenIsTold'
  BY <1>0
<1>4. StaleIsPending'
  <2>1. \A s \in Songs : Pending(s) => Pending(s)'
    BY <1>0, GoesMoves, Apart DEF IInv, Pending, Covers, RemoveRow, MayRun, libVars,
       OnlyCallOf, At
  <2>2. \A s \in Songs : Image(Master)'[s] = Image(Master)[s] \/ Pending(s)'
    BY <1>0, ImageIsRows, GoesMoves, Apart DEF IInv, GuiWrites, Pending, RemoveRow, MayRun, At,
       Rows
  <2> QED BY <2>1, <2>2, StaleFollows DEF IInv, RemoveRow, libVars
<1> QED BY <1>1, <1>2, <1>3, <1>4 DEF IInv

(* All rows go, and all songs are told.                                    *)
LEMMA RemoveAllRowsKeeps ==
    ASSUME IInv, RemoveAllRows PROVE IInv'
<1>0. /\ disk' \in Rows /\ work' \in Rows /\ UNCHANGED <<writer, committing>>
      /\ WrittenIsTold'
  <2>1. MasterWrites([s \in Songs |-> Gone])
    BY DEF RemoveAllRows
  <2>2. [s \in Songs |-> Gone] \in Rows
    BY DEF Rows
  <2>3. writer \notin Slaves
    BY DEF RemoveAllRows, MayRun, Locked, Reads
  <2> QED BY <2>1, <2>2, <2>3, MasterWritesRows DEF IInv
<1>1. TypeOK'
  BY <1>0, GoesMoves, Apart DEF IInv, TypeOK, At, RemoveAllRows, MayRun, libVars
<1>2. SlaveWrites' /\ GuiWrites' /\ LeftIsReplayed'
  BY <1>0, GoesMoves, Apart DEF IInv, TypeOK, SlaveWrites, GuiWrites, LeftIsReplayed, OnlyCallOf,
     At, Statements, RemoveAllRows, MayRun, dbVars, libVars
<1>3. WrittenIsTold'
  BY <1>0
<1>4. StaleIsPending'
  <2>1. \A s \in Songs : Pending(s) => Pending(s)'
    BY <1>0, GoesMoves, Apart DEF IInv, Pending, Covers, RemoveAllRows, MayRun, libVars,
       OnlyCallOf, At
  <2>2. \A s \in Songs : Image(Master)'[s] = Image(Master)[s] \/ Pending(s)'
    BY <1>0, ImageIsRows, GoesMoves, Apart DEF IInv, GuiWrites, Pending, RemoveAllRows, MayRun, At,
       Rows
  <2> QED BY <2>1, <2>2, StaleFollows DEF IInv, RemoveAllRows, libVars
<1> QED BY <1>1, <1>2, <1>3, <1>4 DEF IInv

(* The transaction of the master.                                          *)

(* The list of the master starts empty.                                    *)
LEMMA BeginRatingKeeps ==
    ASSUME IInv, BeginRating PROVE IInv'
<1>1. TypeOK'
  BY EntersMoves, Apart DEF IInv, TypeOK, At, Statements, BeginRating, Calls, dbVars
<1>2. SlaveWrites' /\ GuiWrites' /\ LeftIsReplayed'
  BY EntersMoves, Apart DEF IInv, TypeOK, SlaveWrites, GuiWrites, LeftIsReplayed,
     OnlyCallOf, At, Statements, BeginRating, Calls, dbVars
<1>3. WrittenIsTold'
  BY EntersMoves, Apart DEF IInv, TypeOK, WrittenIsTold, ToldBy, Covers, BeginRating, Calls, dbVars,
     OnlyCallOf, At, Statements
<1>4. StaleIsPending'
  <2>1. \A s \in Songs : Pending(s) => Pending(s)'
    <3>1. \A l \in Libs : inTrans[l] => inTrans'[l] /\ changed'[l] = changed[l]
      BY DEF IInv, TypeOK, BeginRating
    <3> QED BY <3>1, EntersMoves, Apart DEF IInv, Pending, Covers, BeginRating, Calls, OnlyCallOf,
               At, Statements
  <2> QED BY <2>1, StaleFollows DEF IInv, BeginRating, dbVars, Image
<1> QED BY <1>1, <1>2, <1>3, <1>4 DEF IInv

(* The master sees the same rows when its transaction begins ...           *)
LEMMA BeginImmediateKeeps ==
    ASSUME IInv, BeginImmediate PROVE IInv'
<1>1. TypeOK'
  BY ReturnsMoves, Apart DEF IInv, TypeOK, At, Statements, BeginImmediate, MayRun, Locked,
     Reads, libVars
<1>2. SlaveWrites' /\ GuiWrites' /\ LeftIsReplayed'
  BY ReturnsMoves, Apart DEF IInv, TypeOK, SlaveWrites, GuiWrites, LeftIsReplayed,
     OnlyCallOf, At, Statements, BeginImmediate, MayRun, Locked, Reads, libVars
<1>3. WrittenIsTold'
  BY Apart DEF WrittenIsTold, BeginImmediate
<1>4. StaleIsPending'
  <2>1. \A s \in Songs : Pending(s) => Pending(s)'
    BY ReturnsMoves, Apart DEF IInv, Pending, Covers, BeginImmediate, MayRun, libVars, OnlyCallOf
  <2>2. Image(Master)' = Image(Master)
    BY DEF IInv, GuiWrites, BeginImmediate, MayRun, Image
  <2> QED BY <2>1, <2>2, StaleFollows DEF IInv, BeginImmediate, libVars
<1> QED BY <1>1, <1>2, <1>3, <1>4 DEF IInv

(* ... and when it ends.                                                   *)
LEMMA EndRatingKeeps ==
    ASSUME IInv, EndRating PROVE IInv'
<1>1. TypeOK'
  BY GoesMoves, Apart DEF IInv, TypeOK, At, Statements, EndRating, libVars
<1>2. SlaveWrites' /\ GuiWrites' /\ LeftIsReplayed'
  BY GoesMoves, Apart DEF IInv, TypeOK, SlaveWrites, GuiWrites, LeftIsReplayed, OnlyCallOf,
     At, Statements, EndRating, libVars
<1>3. WrittenIsTold'
  BY LibraryAssumption DEF WrittenIsTold, EndRating
<1>4. StaleIsPending'
  <2>1. \A s \in Songs : Pending(s) => Pending(s)'
    BY GoesMoves, Apart DEF IInv, Pending, Covers, EndRating, libVars, OnlyCallOf, At
  <2>2. Image(Master)' = Image(Master)
    BY Apart DEF IInv, GuiWrites, EndRating, Image
  <2> QED BY <2>1, <2>2, StaleFollows DEF IInv, EndRating, libVars
<1> QED BY <1>1, <1>2, <1>3, <1>4 DEF IInv

(* What has been collected leaves the cache.                               *)
LEMMA RatingIsToldKeeps ==
    ASSUME IInv, RatingIsTold PROVE IInv'
<1>1. TypeOK'
  <2>1. cache' \in [Songs -> Values \union {NotCached}]
    BY DEF IInv, TypeOK, RatingIsTold, Erased
  <2> QED BY <2>1, ReturnsMoves, Apart DEF IInv, TypeOK, RatingIsTold, dbVars
<1>2. SlaveWrites' /\ GuiWrites' /\ LeftIsReplayed'
  BY ReturnsMoves, Apart DEF IInv, TypeOK, SlaveWrites, GuiWrites, LeftIsReplayed,
     OnlyCallOf, At, Statements, RatingIsTold, dbVars
<1>3. WrittenIsTold'
  <2>1. /\ Gui \in Threads /\ \A l \in Slaves : l \in Threads \ {Gui} /\ l \in Libs /\ l # Master
        /\ UNCHANGED dbVars /\ Returns(Gui)
    BY Apart DEF RatingIsTold
  <2>2. \A l \in Slaves : call'[l] = call[l] /\ pc(l)' = pc(l)
    BY <2>1, ReturnsMoves DEF IInv, OnlyCallOf
  <2>3. \A l \in Slaves : inTrans'[l] = inTrans[l] /\ changed'[l] = changed[l]
    BY <2>1 DEF IInv, TypeOK, RatingIsTold
  <2> QED BY <2>1, <2>2, <2>3 DEF IInv, WrittenIsTold, ToldBy, Covers, dbVars
<1>4. StaleIsPending'
  <2>1. \A s \in Songs : cache'[s] = IF Covers(changed[Master], s) THEN NotCached ELSE cache[s]
    BY DEF RatingIsTold, Erased, Covers
  <2>2. \A s \in Songs : Pending(s) => Pending(s)' \/ Covers(changed[Master], s)
    <3>1. \A l \in Libs \ {Master} : inTrans'[l] = inTrans[l] /\ changed'[l] = changed[l]
      BY DEF IInv, TypeOK, RatingIsTold
    <3> QED BY <3>1, ReturnsMoves, Apart DEF IInv, Pending, Covers, RatingIsTold, OnlyCallOf
  <2> QED BY <2>1, <2>2, StaleFollows DEF IInv, RatingIsTold, dbVars, Image
<1> QED BY <1>1, <1>2, <1>3, <1>4 DEF IInv

(* The transactions of the slaves.                                         *)

(* So does the list of a slave, which had told all of the last one.        *)
LEMMA BeginTransactionKeeps ==
    ASSUME IInv, NEW l \in Slaves, BeginTransaction(l) PROVE IInv'
<1>1. TypeOK'
  BY GoesMoves, Apart DEF IInv, TypeOK, At, Statements, BeginTransaction, dbVars
<1>2. SlaveWrites' /\ GuiWrites' /\ LeftIsReplayed'
  <2>1. SlaveWrites'
    BY GoesMoves, Apart DEF IInv, TypeOK, SlaveWrites, OnlyCallOf, At, Statements,
       BeginTransaction, dbVars
  <2>2. GuiWrites'
    BY GoesMoves, Apart DEF IInv, TypeOK, GuiWrites, OnlyCallOf, At, Statements,
       BeginTransaction, dbVars
  <2>3. LeftIsReplayed'
    BY GoesMoves, Apart DEF IInv, TypeOK, LeftIsReplayed, OnlyCallOf, At, Statements,
       BeginTransaction, dbVars
  <2> QED BY <2>1, <2>2, <2>3
<1>0. \A m \in Libs : inTrans[m] => inTrans'[m] /\ changed'[m] = changed[m]
  BY DEF IInv, TypeOK, BeginTransaction
<1>3. WrittenIsTold'
  BY <1>0, GoesMoves, Apart DEF IInv, WrittenIsTold, ToldBy, Covers, BeginTransaction, dbVars,
     OnlyCallOf, At
<1>4. StaleIsPending'
  <2>1. \A s \in Songs : Pending(s) => Pending(s)'
    BY <1>0, GoesMoves, Apart DEF IInv, Pending, Covers, BeginTransaction, OnlyCallOf, At
  <2> QED BY <2>1, StaleFollows DEF IInv, BeginTransaction, dbVars, Image
<1> QED BY <1>1, <1>2, <1>3, <1>4 DEF IInv

(* A slave begins with the rows that are committed, or not at all.         *)
LEMMA TransactionBeginsKeeps ==
    ASSUME IInv, NEW l \in Slaves, TransactionBegins(l) PROVE IInv'
<1>1. TypeOK'
  BY ReturnsMoves, Apart DEF IInv, TypeOK, At, Statements, TransactionBegins, libVars
<1>2. SlaveWrites' /\ GuiWrites' /\ LeftIsReplayed'
  <2>1. SlaveWrites'
    BY ReturnsMoves, Apart DEF IInv, TypeOK, SlaveWrites, OnlyCallOf, At, Statements,
       TransactionBegins, libVars
  <2>2. GuiWrites'
    BY ReturnsMoves, Apart DEF IInv, TypeOK, GuiWrites, OnlyCallOf, At, Statements,
       TransactionBegins, libVars
  <2>3. LeftIsReplayed'
    BY ReturnsMoves, Apart DEF IInv, TypeOK, LeftIsReplayed, OnlyCallOf, At, Statements,
       TransactionBegins, libVars
  <2> QED BY <2>1, <2>2, <2>3
<1>3. WrittenIsTold'
  BY ReturnsMoves, Apart DEF IInv, WrittenIsTold, ToldBy, Covers, TransactionBegins, libVars,
     OnlyCallOf
<1>4. StaleIsPending'
  <2>1. \A s \in Songs : Pending(s) => Pending(s)'
    BY ReturnsMoves, Apart DEF IInv, Pending, Covers, TransactionBegins, libVars, OnlyCallOf
  <2>2. Image(Master)' = Image(Master)
    BY Apart DEF TransactionBegins, Image
  <2> QED BY <2>1, <2>2, StaleFollows DEF IInv, TransactionBegins, libVars
<1> QED BY <1>1, <1>2, <1>3, <1>4 DEF IInv

(* The collected songs become the songs that are left to tell.             *)
LEMMA TransactionEndsKeeps ==
    ASSUME IInv, NEW l \in Slaves, TransactionEnds(l) PROVE IInv'
<1>1. TypeOK'
  BY GoesMoves, Apart DEF IInv, TypeOK, At, Statements, TransactionEnds, dbVars
<1>2. SlaveWrites' /\ GuiWrites' /\ LeftIsReplayed'
  BY GoesMoves, Apart DEF IInv, TypeOK, SlaveWrites, GuiWrites, LeftIsReplayed, OnlyCallOf,
     At, Statements, TransactionEnds, dbVars
<1>3. WrittenIsTold'
  BY GoesMoves, Apart DEF IInv, TypeOK, SlaveWrites, WrittenIsTold, ToldBy, Covers, TransactionEnds,
     dbVars, OnlyCallOf, At
<1>4. StaleIsPending'
  <2>1. /\ \A m \in Libs \ {l} : inTrans'[m] = inTrans[m]
        /\ \A m \in Slaves \ {l} : left'[m] = left[m]
        /\ left[l] = <<>> /\ left'[l] = changed[l] /\ changed' = changed
    BY Apart DEF IInv, TypeOK, LeftIsReplayed, TransactionEnds
  <2>2. \A s \in Songs : Pending(s) => Pending(s)'
    BY <2>1, GoesMoves, Apart DEF IInv, Pending, Covers, TransactionEnds, OnlyCallOf, At
  <2> QED BY <2>2, StaleFollows DEF IInv, TransactionEnds, dbVars, Image
<1> QED BY <1>1, <1>2, <1>3, <1>4 DEF IInv

(* The first of them leaves the list for the cache or the master's list.   *)
LEMMA TellNextKeeps ==
    ASSUME IInv, NEW l \in Slaves, TellNext(l) PROVE IInv'
<1>0. /\ left[l] \in Seq(Ids) /\ left[l] # <<>>
      /\ Head(left[l]) \in Ids /\ Tail(left[l]) \in Seq(Ids)
      /\ cache' \in [Songs -> Values \union {NotCached}] /\ changed' \in [Libs -> Seq(Ids)]
      /\ \A m \in Slaves : changed'[m] = changed[m]
      /\ \A s \in Songs :
            /\ cache'[s] \in {cache[s], NotCached}
            /\ Head(left[l]) \in {s, All} =>
                  (cache'[s] = NotCached \/ (inTrans'[Master] /\ Covers(changed'[Master], s)))
            /\ inTrans[Master] /\ Covers(changed[Master], s)
                  => inTrans'[Master] /\ Covers(changed'[Master], s)
  <2>1. /\ left[l] \in Seq(Ids) /\ left[l] # <<>>
        /\ Head(left[l]) \in Ids /\ Tail(left[l]) \in Seq(Ids)
    BY DEF IInv, TypeOK, TellNext
  <2> QED BY <2>1, TellMasterTells DEF IInv, TellNext
<1>1. TypeOK'
  BY <1>0 DEF IInv, TypeOK, TellNext, dbVars
<1>2. SlaveWrites' /\ GuiWrites' /\ LeftIsReplayed'
  BY Apart DEF IInv, TypeOK, SlaveWrites, GuiWrites, LeftIsReplayed, OnlyCallOf, At,
     Statements, TellNext, dbVars, pc
<1>3. WrittenIsTold'
  BY <1>0, Apart DEF IInv, WrittenIsTold, ToldBy, Covers, TellNext, dbVars, pc
<1>4. StaleIsPending'
  <2>1. ASSUME NEW s \in Songs, Covers(left[l], s)
        PROVE  Head(left[l]) \in {s, All} \/ Covers(Tail(left[l]), s)
    <3>1. PICK i \in DOMAIN left[l] : left[l][i] \in {s, All}
      BY <2>1 DEF Covers
    <3>2. CASE i = 1
      BY <1>0, <3>1, <3>2
    <3>3. CASE i # 1
      <4>1. i - 1 \in DOMAIN Tail(left[l]) /\ Tail(left[l])[i - 1] = left[l][i]
        BY <1>0, <3>1, <3>3
      <4> QED BY <3>1, <4>1 DEF Covers
    <3> QED BY <3>2, <3>3
  <2>2. \A m \in Slaves : left'[m] = IF m = l THEN Tail(left[l]) ELSE left[m]
    BY DEF IInv, TypeOK, TellNext
  <2>3. \A s \in Songs : Pending(s) => cache'[s] = NotCached \/ Pending(s)'
    BY <1>0, <2>1, <2>2, Apart DEF IInv, Pending, Covers, TellNext, pc, Libs
  <2> QED BY <1>0, <2>3, StaleFollows DEF IInv, TellNext, dbVars, Image
<1> QED BY <1>1, <1>2, <1>3, <1>4 DEF IInv

(* What a slave writes, commits and tells.                                 *)

(* A slave that changes a row of the database is going to tell.            *)
LEMMA ChangeSongKeeps ==
    ASSUME IInv, NEW l \in Slaves, ChangeSong(l) PROVE IInv'
<1>1. PICK s \in Songs, row \in Values \union {Gone} :
        \/ /\ writer = l
           /\ work' = [work EXCEPT ![s] = row] /\ UNCHANGED <<writer, committing>>
           /\ IF work[s] = Gone THEN UNCHANGED call ELSE Enters(l, "tell", "none", s)
        \/ /\ writer = None
           /\ writer' = l /\ committing' = TRUE
           /\ work' = [disk EXCEPT ![s] = row]
           /\ Enters(l, IF disk[s] = Gone THEN "added" ELSE "changed", "none", s)
        \/ /\ writer \notin {l, None}
           /\ UNCHANGED <<work, writer, committing, call>>
  BY DEF ChangeSong
<1>2. /\ pc(l) = "run" /\ l \in Threads /\ l # Gui /\ l # Master
      /\ \A x \in Slaves : writer = x /\ pc(x) = "run" => inTrans[x]
      /\ UNCHANGED <<disk, libVars, counted, left, conn, calls, begins, raced>>
  BY Apart DEF IInv, SlaveWrites, ChangeSong
<1>3. CASE writer = l /\ work[s] = Gone
  <2>1. work' = [work EXCEPT ![s] = row] /\ UNCHANGED <<writer, committing, call>>
    BY <1>1, <1>3, <1>2, Apart
  <2>2. TypeOK'
    BY <1>2, <2>1 DEF IInv, TypeOK, Rows, libVars
  <2>3. SlaveWrites' /\ GuiWrites' /\ LeftIsReplayed'
    BY <1>2, <2>1 DEF IInv, SlaveWrites, GuiWrites, LeftIsReplayed, libVars, pc
  <2>4. WrittenIsTold'
    BY <1>2, <1>3, <2>1 DEF IInv, TypeOK, Rows, WrittenIsTold, ToldBy, libVars, pc
  <2>5. StaleIsPending'
    BY <1>2, <1>3, <2>1 DEF IInv, StaleIsPending, Pending, Image, libVars, pc
  <2> QED BY <2>2, <2>3, <2>4, <2>5 DEF IInv
<1>4. CASE writer = l /\ work[s] # Gone
  <2>1. work' = [work EXCEPT ![s] = row] /\ UNCHANGED <<writer, committing>>
    BY <1>1, <1>2, <1>4, Apart
  <2>2. /\ call' \in [Threads -> Calling] /\ OnlyCallOf(l)
        /\ pc(l)' = "tell" /\ call'[l].song = s /\ call'[l].stmt = "none"
    BY <1>1, <1>2, <1>4, EntersMoves, Apart DEF IInv, At, Statements
  <2>3. TypeOK'
    BY <1>2, <2>1, <2>2 DEF IInv, TypeOK, Rows, libVars
  <2>4. SlaveWrites' /\ GuiWrites' /\ LeftIsReplayed'
    BY <1>2, <2>1, <2>2, Apart DEF IInv, SlaveWrites, GuiWrites, LeftIsReplayed, libVars, OnlyCallOf
  <2>5. WrittenIsTold'
    BY <1>2, <1>4, <2>1, <2>2 DEF IInv, TypeOK, Rows, WrittenIsTold, ToldBy, libVars
  <2>6. StaleIsPending'
    <3>1. \A x \in Songs : Pending(x) => Pending(x)'
      BY <1>2, <2>2, Apart DEF Pending, Covers, libVars, OnlyCallOf
    <3> QED BY <1>2, <1>4, <2>1, <3>1 DEF IInv, StaleIsPending, Image, libVars
  <2> QED BY <2>3, <2>4, <2>5, <2>6 DEF IInv
<1>5. CASE writer = None
  <2>1. work' = [disk EXCEPT ![s] = row] /\ writer' = l /\ committing' = TRUE
    BY <1>1, <1>2, <1>5, Apart
  <2>2. /\ call' \in [Threads -> Calling] /\ OnlyCallOf(l)
        /\ pc(l)' = (IF disk[s] = Gone THEN "added" ELSE "changed")
        /\ call'[l].song = s /\ call'[l].stmt = "none"
    BY <1>1, <1>2, <1>5, EntersMoves, Apart DEF IInv, At, Statements
  <2>3. TypeOK'
    BY <1>2, <2>1, <2>2, Apart DEF IInv, TypeOK, Rows, libVars
  <2>4. SlaveWrites' /\ GuiWrites' /\ LeftIsReplayed'
    BY <1>2, <1>5, <2>1, <2>2, Apart
       DEF IInv, SlaveWrites, GuiWrites, LeftIsReplayed, libVars, OnlyCallOf
  <2>5. WrittenIsTold'
    BY <1>2, <2>1, <2>2 DEF IInv, TypeOK, Rows, WrittenIsTold, ToldBy, libVars
  <2>6. StaleIsPending'
    <3>1. \A x \in Songs : Pending(x) => Pending(x)'
      BY <1>2, <2>2, Apart DEF Pending, Covers, libVars, OnlyCallOf
    <3> QED BY <1>2, <1>5, <2>1, <3>1, Apart DEF IInv, StaleIsPending, Image, libVars
  <2> QED BY <2>3, <2>4, <2>5, <2>6 DEF IInv
<1>6. CASE writer \notin {l, None}
  <2>1. UNCHANGED <<dbVars, libVars, counted, left, conn, calls, begins, raced, call>>
    BY <1>1, <1>2, <1>6 DEF dbVars
  <2> QED BY <2>1 DEF IInv, TypeOK, SlaveWrites, GuiWrites, LeftIsReplayed, WrittenIsTold, ToldBy,
             StaleIsPending, Pending, Image, dbVars, libVars, pc
<1> QED BY <1>3, <1>4, <1>5, <1>6

(* The master sees what a single statement wrote; the song is still to be told. *)
LEMMA StatementCommitsKeeps ==
    ASSUME IInv, NEW l \in Slaves, StatementCommits(l) PROVE IInv'
<1>1. TypeOK'
  BY GoesMoves, ReturnsMoves, Apart DEF IInv, TypeOK, At, Statements, StatementCommits,
     libVars, SlaveWrites
<1>2. SlaveWrites' /\ GuiWrites' /\ LeftIsReplayed'
  <2>1. OnlyCallOf(l) /\ pc(l)' \in {"run", "tell"} /\ writer = l /\ writer' = None
    BY GoesMoves, ReturnsMoves, Apart DEF IInv, SlaveWrites, StatementCommits, At
  <2>2. l # Gui /\ l # Master /\ UNCHANGED <<inTrans, left>>
    BY Apart DEF StatementCommits, libVars
  <2>3. SlaveWrites'
    BY <2>1, <2>2, Apart DEF IInv, SlaveWrites, OnlyCallOf
  <2>4. GuiWrites' /\ LeftIsReplayed'
    BY <2>1, <2>2, Apart DEF IInv, SlaveWrites, GuiWrites, LeftIsReplayed, OnlyCallOf
  <2> QED BY <2>3, <2>4
<1>3. WrittenIsTold'
  BY LibraryAssumption DEF WrittenIsTold, StatementCommits
<1>4. StaleIsPending'
  <2>1. \A s \in Songs : Pending(s) => Pending(s)'
    BY GoesMoves, ReturnsMoves, Apart DEF IInv, Pending, Covers, StatementCommits, libVars,
       OnlyCallOf, At
  <2>2. writer = l /\ Image(Master) = disk /\ Image(Master)' = work
    BY Apart DEF IInv, SlaveWrites, StatementCommits, Image
  <2>3. ASSUME NEW s \in Songs, disk[s] # Gone, work[s] # disk[s]
        PROVE  Pending(s)'
    <3>1. ToldBy(l, s)
      BY <2>2, <2>3 DEF IInv, WrittenIsTold
    <3> QED BY <3>1, GoesMoves, ReturnsMoves, Apart
            DEF IInv, ToldBy, Pending, Covers, StatementCommits, libVars, OnlyCallOf, At
  <2>4. \A s \in Songs : cache[s] # Gone
    BY LibraryAssumption DEF IInv, TypeOK
  <2> QED BY <2>1, <2>2, <2>3, <2>4 DEF IInv, StaleIsPending, StatementCommits, libVars
<1> QED BY <1>1, <1>2, <1>3, <1>4 DEF IInv

(* The master sees what a transaction wrote; its songs are still to be told. *)
LEMMA TransactionCommitsKeeps ==
    ASSUME IInv, NEW l \in Slaves, TransactionCommits(l) PROVE IInv'
<1>1. TypeOK'
  BY GoesMoves, Apart DEF IInv, TypeOK, At, Statements, TransactionCommits, libVars,
     SlaveWrites
<1>2. SlaveWrites' /\ GuiWrites' /\ LeftIsReplayed'
  <2>1. SlaveWrites'
    BY GoesMoves, Apart DEF IInv, TypeOK, SlaveWrites, OnlyCallOf, At, Statements,
       TransactionCommits, libVars
  <2>2. GuiWrites'
    BY GoesMoves, Apart DEF IInv, TypeOK, GuiWrites, OnlyCallOf, At, Statements,
       TransactionCommits, libVars, SlaveWrites
  <2>3. LeftIsReplayed'
    BY GoesMoves, Apart DEF IInv, TypeOK, LeftIsReplayed, OnlyCallOf, At, Statements,
       TransactionCommits, libVars, SlaveWrites
  <2> QED BY <2>1, <2>2, <2>3
<1>3. WrittenIsTold'
  BY LibraryAssumption DEF WrittenIsTold, TransactionCommits
<1>4. StaleIsPending'
  <2>1. \A s \in Songs : Pending(s) => Pending(s)'
    BY GoesMoves, Apart DEF IInv, Pending, Covers, TransactionCommits, libVars, OnlyCallOf, At
  <2>2. writer = l /\ Image(Master) = disk /\ Image(Master)' = work
    BY Apart DEF IInv, SlaveWrites, TransactionCommits, Image
  <2>3. ASSUME NEW s \in Songs, disk[s] # Gone, work[s] # disk[s]
        PROVE  Pending(s)'
    <3>1. ToldBy(l, s)
      BY <2>2, <2>3 DEF IInv, WrittenIsTold
    <3> QED BY <3>1, GoesMoves, Apart
            DEF IInv, ToldBy, Pending, Covers, TransactionCommits, libVars, OnlyCallOf, At
  <2>4. \A s \in Songs : cache[s] # Gone
    BY LibraryAssumption DEF IInv, TypeOK
  <2> QED BY <2>1, <2>2, <2>3, <2>4 DEF IInv, StaleIsPending, TransactionCommits, libVars
<1> QED BY <1>1, <1>2, <1>3, <1>4 DEF IInv

(* OnSongDataChange.                                                       *)

(* A song that is told is in the list of a transaction or out of the cache. *)
LEMMA OnSongDataChangeKeeps ==
    ASSUME IInv, NEW t \in Threads, OnSongDataChange(t) PROVE IInv'
<1>1. /\ call' \in [Threads -> Calling] /\ OnlyCallOf(t) /\ pc(t) = "tell" /\ call[t].song \in Ids
      /\ pc(t)' = "run" /\ call'[t].song = All /\ call'[t].stmt = "none"
      /\ UNCHANGED <<dbVars, cacheLock, count, inTrans, counted, left, conn, bounds, raced>>
  BY ReturnsMoves DEF IInv, TypeOK, OnSongDataChange, Calling
<1>2. /\ cache' \in [Songs -> Values \union {NotCached}] /\ changed' \in [Libs -> Seq(Ids)]
      /\ \A l \in Libs, s \in Songs : inTrans[l] /\ Covers(changed[l], s) => Covers(changed'[l], s)
      /\ \A s \in Songs : cache'[s] \in {NotCached, cache[s]}
      /\ \A s \in Songs : call[t].song \in {s, All} =>
            cache'[s] = NotCached \/ (\E l \in Libs : inTrans[l] /\ Covers(changed'[l], s))
      /\ \A s \in Songs : t \in Slaves /\ inTrans[t] /\ call[t].song = s => Covers(changed'[t], s)
  <2>1. CASE t \in Slaves /\ inTrans[t]
    <3>1. /\ changed' = [changed EXCEPT ![t] = Collect(@, call[t].song)] /\ cache' = cache
          /\ t \in Libs /\ changed[t] \in Seq(Ids)
      BY <2>1, Apart DEF IInv, TypeOK, OnSongDataChange
    <3>2. /\ Collect(changed[t], call[t].song) \in Seq(Ids)
          /\ \A s \in Songs : Covers(changed[t], s) \/ call[t].song \in {s, All}
                => Covers(Collect(changed[t], call[t].song), s)
      BY <1>1, <3>1, CollectCovers
    <3>3. changed' \in [Libs -> Seq(Ids)] /\ changed'[t] = Collect(changed[t], call[t].song)
          /\ \A l \in Libs \ {t} : changed'[l] = changed[l]
      BY <3>1, <3>2 DEF IInv, TypeOK
    <3> QED BY <2>1, <3>1, <3>2, <3>3 DEF IInv, TypeOK
  <2>2. CASE ~(t \in Slaves /\ inTrans[t])
    <3>1. TellMaster(call[t].song)
      BY <2>2 DEF OnSongDataChange
    <3>2. /\ cache' \in [Songs -> Values \union {NotCached}] /\ changed' \in [Libs -> Seq(Ids)]
          /\ \A l \in Slaves : changed'[l] = changed[l]
          /\ \A s \in Songs :
                /\ cache'[s] \in {cache[s], NotCached}
                /\ call[t].song \in {s, All} =>
                      (cache'[s] = NotCached \/ (inTrans'[Master] /\ Covers(changed'[Master], s)))
                /\ inTrans[Master] /\ Covers(changed[Master], s)
                      => inTrans'[Master] /\ Covers(changed'[Master], s)
      BY <1>1, <3>1, TellMasterTells DEF IInv
    <3>3. \A l \in Libs : l = Master \/ l \in Slaves
      BY DEF Libs
    <3> QED BY <1>1, <2>2, <3>2, <3>3, Apart
  <2> QED BY <2>1, <2>2
<1>3. TypeOK'
  BY <1>1, <1>2 DEF IInv, TypeOK, dbVars
<1>4. SlaveWrites' /\ GuiWrites' /\ LeftIsReplayed'
  <2>1. SlaveWrites'
    BY <1>1, Apart DEF IInv, SlaveWrites, OnlyCallOf, dbVars
  <2>2. GuiWrites' /\ LeftIsReplayed'
    BY <1>1, Apart DEF IInv, GuiWrites, LeftIsReplayed, OnlyCallOf, dbVars
  <2> QED BY <2>1, <2>2
<1>5. WrittenIsTold'
  <2>1. \A l \in Slaves, s \in Songs : writer = l /\ ToldBy(l, s) => ToldBy(l, s)'
    BY <1>1, <1>2, Apart DEF IInv, SlaveWrites, ToldBy, OnlyCallOf
  <2> QED BY <1>1, <2>1 DEF IInv, WrittenIsTold, dbVars
<1>6. StaleIsPending'
  <2>1. \A s \in Songs : Pending(s) => cache'[s] = NotCached \/ Pending(s)'
    BY <1>1, <1>2, Apart DEF Pending, OnlyCallOf
  <2> QED BY <1>1, <1>2, <2>1, StaleFollows DEF IInv, dbVars, Image
<1> QED BY <1>3, <1>4, <1>5, <1>6 DEF IInv

-----------------------------------------------------------------------------
(* Every step keeps the invariant.                                         *)
LEMMA StepKeeps == ASSUME IInv, [Next]_vars PROVE IInv'
<1>1. ASSUME NEW t \in Threads, Step(t) PROVE IInv'
  <2>1. CASE t \in Users /\ UserStep(t)
    BY <2>1, QuerySongKeeps, UpdateRowKeeps, IsBusyKeeps, OnBusyKeeps, OnSongDataChangeKeeps
       DEF UserStep
  <2>2. CASE t = Gui /\ GuiStep
    BY <2>2, QueryCountKeeps, CountIsStoredKeeps, RemoveRowKeeps, RemoveAllRowsKeeps,
       BeginImmediateKeeps, EndRatingKeeps, RatingIsToldKeeps
       DEF GuiStep
  <2>3. CASE t \in Slaves /\ SlaveStep(t)
    <3>1. CASE QuerySong(t) \/ IsBusy(t) \/ OnBusy(t) \/ OnSongDataChange(t)
      BY <3>1, QuerySongKeeps, IsBusyKeeps, OnBusyKeeps, OnSongDataChangeKeeps
    <3>2. CASE \/ TransactionBegins(t) \/ StatementCommits(t)
               \/ EndTransaction(t) \/ TransactionCommits(t)
      BY <2>3, <3>2, TransactionBeginsKeeps, StatementCommitsKeeps, EndTransactionKeeps,
         TransactionCommitsKeeps
    <3>3. CASE \/ SignalSlaveTransactionEnd(t) \/ TransactionEnds(t)
               \/ TellNext(t) \/ AllTold(t) \/ Destroyed(t)
      BY <2>3, <3>3, SignalSlaveTransactionEndKeeps, TransactionEndsKeeps, TellNextKeeps,
         AllToldKeeps, DestroyedKeeps
    <3> QED BY <2>3, <3>1, <3>2, <3>3 DEF SlaveStep
  <2> QED BY <1>1, <2>1, <2>2, <2>3 DEF Step
<1>2. ASSUME NEW t \in Threads, GetSongFromSongid(t) PROVE IInv'
  BY <1>2, GetSongFromSongidKeeps
<1>3. ASSUME NEW u \in Users, ChangesLibrary(u) PROVE IInv'
  BY <1>3, ChangesLibraryKeeps
<1>4. CASE GetSongCount \/ BeginRating
  BY <1>4, GetSongCountKeeps, BeginRatingKeeps
<1>5. ASSUME NEW l \in Slaves, BeginTransaction(l) \/ ChangeSong(l) PROVE IInv'
  BY <1>5, BeginTransactionKeeps, ChangeSongKeeps
<1>6. CASE UNCHANGED vars
  BY <1>6 DEF IInv, TypeOK, SlaveWrites, GuiWrites, LeftIsReplayed, WrittenIsTold, ToldBy,
     StaleIsPending, Pending, Covers, Image, vars, dbVars, libVars, callVars, pc
<1> QED BY <1>1, <1>2, <1>3, <1>4, <1>5, <1>6 DEF Next

(* It holds at the start, with an empty cache.                             *)
LEMMA InitHolds == ASSUME Init PROVE IInv
<1>1. TypeOK
  <2>1. call \in [Threads -> Calling]
    BY Apart DEF Init, Idle, Calling, At, Statements
  <2>2. {disk, work} \subseteq Rows /\ cache \in [Songs -> Values \union {NotCached}]
    BY DEF Init
  <2>3. /\ changed \in [Libs -> Seq(Ids)] /\ left \in [Slaves -> Seq(Ids)]
        /\ inTrans \in [Libs -> BOOLEAN]
    BY DEF Init
  <2> QED BY <2>1, <2>2, <2>3 DEF Init, TypeOK
<1>2. SlaveWrites /\ GuiWrites /\ LeftIsReplayed
  BY Apart DEF Init, SlaveWrites, GuiWrites, LeftIsReplayed, Idle, pc
<1>3. WrittenIsTold /\ StaleIsPending
  BY DEF Init, WrittenIsTold, StaleIsPending
<1> QED BY <1>1, <1>2, <1>3 DEF IInv

(* So it always holds.                                                     *)
LEMMA Inductive == Spec => []IInv
<1>1. Init => IInv
  BY InitHolds
<1>2. IInv /\ [Next]_vars => IInv'
  BY StepKeeps
<1> QED BY <1>1, <1>2, PTL DEF Spec

(* The caches, the lists of changed songs and the places in the calls keep *)
(* their types; a song that is not in the database is not in the cache.    *)
THEOREM TypeCorrect == Spec => []TypeOK
<1>1. IInv => TypeOK
  BY DEF IInv
<1> QED BY <1>1, Inductive, PTL

(* The cache of the master answers with what the database holds, unless a  *)
(* thread that changed the song has still to say so: CMusikLibrary misses  *)
(* no change for good, with any number of slaves and users.                *)
THEOREM CacheIsCoherent == Spec => []StaleIsPending
<1>1. IInv => StaleIsPending
  BY DEF IInv
<1> QED BY <1>1, Inductive, PTL

-----------------------------------------------------------------------------
(* The number of songs.                                                    *)

(* The count may be wrong: a slave has still to signal its end, or a signal *)
(* came while the GUI held a number that it was going to store.            *)
Unsettled == "count" \in raced \/ \E l \in Slaves : inTrans[l] /\ pc(l) # "unmark"

(* What CountIsRight rests on: the number the GUI holds is as good as the  *)
(* one it stores, and a slave outside a transaction adds and removes none. *)
CountInv ==
    /\ count \in {Unknown, CountOf(Image(Master))} \/ pc(Gui) = "counted" \/ Unsettled
    /\ pc(Gui) = "counted" => counted = CountOf(Image(Master)) \/ Unsettled
    /\ \A l \in Slaves : writer = l /\ ~inTrans[l] => CountOf(work) = CountOf(disk)

(* As many songs are there if the same songs are there.                    *)
LEMMA SameSongs ==
    ASSUME NEW r, NEW q, \A s \in Songs : r[s] = Gone <=> q[s] = Gone
    PROVE  CountOf(r) = CountOf(q)
<1>1. {s \in Songs : r[s] # Gone} = {s \in Songs : q[s] # Gone}
  OBVIOUS
<1> QED BY <1>1 DEF CountOf
(* None is there after RemoveAll.                                          *)
LEMMA NoSongs == CountOf([s \in Songs |-> Gone]) = 0
<1>1. {s \in Songs : [x \in Songs |-> Gone][s] # Gone} = {}
  OBVIOUS
<1> QED BY <1>1, FS_EmptySet DEF CountOf

(* A step that leaves the master's view, the count and the slaves' signals *)
(* as they are.                                                            *)
LEMMA CountStays ==
    ASSUME CountInv, CountOf(Image(Master))' = CountOf(Image(Master)),
           UNCHANGED <<count, counted, raced>>,
           pc(Gui)' = "counted" <=> pc(Gui) = "counted",
           \A l \in Slaves : inTrans[l] /\ pc(l) # "unmark" => inTrans'[l] /\ pc(l)' # "unmark",
           \A l \in Slaves : writer' = l /\ ~inTrans'[l] => CountOf(work') = CountOf(disk')
    PROVE  CountInv'
<1>1. Unsettled => Unsettled'
  BY DEF Unsettled
<1>2. CountOf(Image(Master)') = CountOf(Image(Master))
  BY DEF CountOf
<1>3. (\A l \in Slaves : writer = l /\ ~inTrans[l] => CountOf(work) = CountOf(disk))'
  BY DEF CountOf
<1> QED BY <1>1, <1>2, <1>3 DEF CountInv

(* A thread that moves, but neither takes nor leaves a count nor a signal. *)
LEMMA CountStaysWith ==
    ASSUME IInv, CountInv, NEW t \in Threads, OnlyCallOf(t),
           pc(t) \notin {"counted", "unmark"}, pc(t)' \notin {"counted", "unmark"},
           UNCHANGED <<disk, work, writer, count, counted, raced>>,
           \A l \in Slaves : inTrans[l] => inTrans'[l]
    PROVE  CountInv'
<1>1. CountOf(Image(Master))' = CountOf(Image(Master))
  BY DEF Image, CountOf
<1>2. pc(Gui)' = "counted" <=> pc(Gui) = "counted"
  BY Apart DEF OnlyCallOf
<1>3. \A l \in Slaves : inTrans[l] /\ pc(l) # "unmark" => inTrans'[l] /\ pc(l)' # "unmark"
  BY Apart DEF OnlyCallOf
<1>4. \A l \in Slaves : writer' = l /\ ~inTrans'[l] => CountOf(work') = CountOf(disk')
  BY DEF CountInv
<1> QED BY <1>1, <1>2, <1>3, <1>4, CountStays

(* While a slave has a transaction to end nothing is said of the count.    *)
LEMMA CountExcused ==
    ASSUME Unsettled',
           \A l \in Slaves : writer' = l /\ ~inTrans'[l] => CountOf(work') = CountOf(disk')
    PROVE  CountInv'
<1>1. (\A l \in Slaves : writer = l /\ ~inTrans[l] => CountOf(work) = CountOf(disk))'
  BY DEF CountOf
<1> QED BY <1>1 DEF CountInv

(* A user's call: begun, busy, answered from a row, told.                  *)
LEMMA UserCounts ==
    ASSUME IInv, CountInv, NEW u \in Threads,
           QuerySong(u) \/ IsBusy(u) \/ OnBusy(u) \/ OnSongDataChange(u) \/ GetSongFromSongid(u)
    PROVE  CountInv'
<1>0. TypeOK  BY DEF IInv
<1>1. CASE QuerySong(u)
  <2>1. OnlyCallOf(u) /\ pc(u)' = "run"
    BY <1>0, <1>1, ReturnsMoves DEF QuerySong
  <2> QED BY <1>1, <2>1, CountStaysWith DEF QuerySong, MayRun, dbVars, bounds
<1>2. CASE IsBusy(u)
  <2>1. OnlyCallOf(u) /\ pc(u)' = "busy"
    BY <1>0, <1>2, GoesMoves DEF IsBusy, At
  <2> QED BY <1>2, <2>1, CountStaysWith DEF IsBusy, dbVars, libVars, bounds
<1>3. CASE OnBusy(u)
  <2>1. OnlyCallOf(u) /\ pc(u)' = "waiting"
    BY <1>0, <1>3, GoesMoves DEF OnBusy, At
  <2> QED BY <1>3, <2>1, CountStaysWith DEF OnBusy, dbVars, libVars, bounds
<1>4. CASE OnSongDataChange(u)
  <2>1. OnlyCallOf(u) /\ pc(u)' = "run"
    BY <1>0, <1>4, ReturnsMoves DEF OnSongDataChange
  <2> QED BY <1>4, <2>1, CountStaysWith DEF OnSongDataChange, dbVars, bounds
<1>5. CASE GetSongFromSongid(u)
  <2>1. OnlyCallOf(u) /\ pc(u)' = "exec" /\ pc(u) = "run"
    BY <1>0, <1>5, EntersMoves, Apart DEF GetSongFromSongid, Calls, At, Statements
  <2> QED BY <1>5, <2>1, CountStaysWith DEF GetSongFromSongid, dbVars
<1> QED BY <1>1, <1>2, <1>3, <1>4, <1>5

(* A change of a user begins; a row that is changed is there as before.    *)
LEMMA ChangeCounts ==
    ASSUME IInv, CountInv, NEW u \in Users, ChangesLibrary(u) \/ UpdateRow(u)
    PROVE  CountInv'
<1>0. TypeOK /\ u \in Threads  BY Apart DEF IInv
<1>1. CASE ChangesLibrary(u)
  <2>1. OnlyCallOf(u) /\ pc(u)' = "exec" /\ pc(u) = "run"
    BY <1>0, <1>1, EntersMoves, Apart DEF ChangesLibrary, Calls, At, Statements
  <2> QED BY <1>0, <1>1, <2>1, CountStaysWith DEF ChangesLibrary, dbVars, libVars
<1>2. CASE UpdateRow(u)
  <2>1. OnlyCallOf(u) /\ pc(u)' = "tell" /\ pc(u) = "exec"
    BY <1>0, <1>2, GoesMoves DEF UpdateRow, MayRun, At
  <2>2. PICK v \in Values :
           MasterWrites([Image(Master) EXCEPT ![call[u].song] = IF @ = Gone THEN Gone ELSE v])
    BY <1>2 DEF UpdateRow
  <2> DEFINE rows == [Image(Master) EXCEPT ![call[u].song] = IF @ = Gone THEN Gone ELSE v]
  <2>3. Image(Master) \in Rows
    BY <1>0, ImageIsRows
  <2>4. rows \in Rows /\ \A s \in Songs : rows[s] = Gone <=> Image(Master)[s] = Gone
    BY <2>3, LibraryAssumption DEF Rows
  <2>5. writer \notin Slaves
    BY <1>2 DEF UpdateRow, MayRun, Locked, Reads
  <2>6. Image(Master)' = rows /\ writer' = writer
    <3> HIDE DEF rows
    <3>1. MasterWrites(rows)
      BY <2>2 DEF rows
    <3> QED BY <1>0, <2>4, <2>5, <3>1, MasterWritesRows
  <2>7. CountOf(rows) = CountOf(Image(Master))
    <3> HIDE DEF rows
    <3> QED BY <2>4, SameSongs
  <2>8. CountOf(Image(Master))' = CountOf(Image(Master))
    BY <2>6, <2>7 DEF CountOf
  <2>9. /\ UNCHANGED <<count, counted, raced, inTrans>>
        /\ pc(Gui)' = "counted" <=> pc(Gui) = "counted"
        /\ \A l \in Slaves : inTrans[l] /\ pc(l) # "unmark" => inTrans'[l] /\ pc(l)' # "unmark"
    BY <1>2, <2>1, Apart DEF UpdateRow, libVars, OnlyCallOf
  <2> QED BY <2>5, <2>6, <2>8, <2>9, CountStays
<1> QED BY <1>1, <1>2

(* The GUI's own count: read, stored, forgotten with a row, or zero.       *)
LEMMA GuiCounts ==
    ASSUME IInv, CountInv,
           GetSongCount \/ QueryCount \/ CountIsStored \/ RemoveRow \/ RemoveAllRows
    PROVE  CountInv'
<1>0. TypeOK /\ Gui \in Threads  BY Apart DEF IInv
<1>1. CASE GetSongCount
  <2>1. OnlyCallOf(Gui) /\ pc(Gui)' = "exec" /\ pc(Gui) = "run"
    BY <1>0, <1>1, EntersMoves, Apart DEF GetSongCount, Calls, At, Statements
  <2> QED BY <1>0, <1>1, <2>1, CountStaysWith DEF GetSongCount, dbVars, libVars
<1>2. CASE QueryCount
  <2>1. OnlyCallOf(Gui) /\ pc(Gui)' = "counted"
    BY <1>0, <1>2, GoesMoves DEF QueryCount, At
  <2>2. /\ UNCHANGED <<disk, work, writer, inTrans, raced>> /\ counted' = CountOf(Image(Master))
        /\ Image(Master)' = Image(Master)
    BY <1>2 DEF QueryCount, dbVars, libVars, Image
  <2>3. counted' = CountOf(Image(Master)')
    BY <2>2
  <2>4. \A l \in Slaves : writer' = l /\ ~inTrans'[l] => CountOf(work') = CountOf(disk')
    BY <2>2 DEF CountInv
  <2> QED BY <2>1, <2>3, <2>4 DEF CountInv, CountOf
<1>3. CASE CountIsStored
  <2>1. OnlyCallOf(Gui) /\ pc(Gui)' # "counted" /\ pc(Gui) = "counted"
    BY <1>0, <1>3, GoesMoves, ReturnsMoves DEF CountIsStored, At
  <2>2. UNCHANGED <<disk, work, writer, inTrans, raced>> /\ count' = counted
    BY <1>3 DEF CountIsStored, dbVars
  <2>3. Unsettled => Unsettled'
    BY <2>1, <2>2, Apart DEF Unsettled, OnlyCallOf
  <2>4. CountOf(Image(Master)') = CountOf(Image(Master))
    BY <2>2 DEF Image
  <2>5. \A l \in Slaves : writer' = l /\ ~inTrans'[l] => CountOf(work') = CountOf(disk')
    BY <2>2 DEF CountInv
  <2> QED BY <2>1, <2>2, <2>3, <2>4, <2>5 DEF CountInv, CountOf
<1>4. CASE RemoveRow
  <2>1. OnlyCallOf(Gui) /\ pc(Gui)' = "tell" /\ count' = Unknown
    BY <1>0, <1>4, GoesMoves DEF RemoveRow, At
  <2>2. writer \notin Slaves /\ writer' = writer
    BY <1>4 DEF RemoveRow, MayRun, Locked, Reads, MasterWrites
  <2> QED BY <2>1, <2>2 DEF CountInv
<1>5. CASE RemoveAllRows
  <2>1. OnlyCallOf(Gui) /\ pc(Gui)' = "counted" /\ counted' = 0
    BY <1>0, <1>5, GoesMoves DEF RemoveAllRows, At
  <2>2. writer \notin Slaves /\ MasterWrites([s \in Songs |-> Gone])
    BY <1>5 DEF RemoveAllRows, MayRun, Locked, Reads
  <2>3. [s \in Songs |-> Gone] \in Rows
    BY DEF Rows
  <2>4. Image(Master)' = [s \in Songs |-> Gone] /\ writer' = writer
    BY <1>0, <2>2, <2>3, MasterWritesRows
  <2>5. CountOf(Image(Master)') = 0
    BY <2>4, NoSongs
  <2> QED BY <2>1, <2>2, <2>4, <2>5 DEF CountInv, CountOf
<1> QED BY <1>1, <1>2, <1>3, <1>4, <1>5

(* The GUI's transaction: the master sees the same rows in it and after.   *)
LEMMA RatingCounts ==
    ASSUME IInv, CountInv, BeginRating \/ BeginImmediate \/ EndRating \/ RatingIsTold
    PROVE  CountInv'
<1>0. TypeOK /\ Gui \in Threads  BY Apart DEF IInv
<1>1. CASE BeginRating
  <2>1. OnlyCallOf(Gui) /\ pc(Gui)' = "exec" /\ pc(Gui) = "run"
    BY <1>0, <1>1, EntersMoves, Apart DEF BeginRating, Calls, At, Statements
  <2>2. \A l \in Slaves : inTrans'[l] = inTrans[l]
    BY <1>0, <1>1, Apart DEF BeginRating, TypeOK
  <2> QED BY <1>0, <1>1, <2>1, <2>2, CountStaysWith DEF BeginRating, dbVars, bounds
<1>2. CASE BeginImmediate
  <2>1. OnlyCallOf(Gui) /\ pc(Gui)' = "run" /\ pc(Gui) = "exec"
    BY <1>0, <1>2, ReturnsMoves DEF BeginImmediate, MayRun
  <2>2. writer' = Master /\ Master \notin Slaves /\ Image(Master) = disk /\ Image(Master)' = disk
    BY <1>2, Apart DEF IInv, GuiWrites, BeginImmediate, MayRun, Image
  <2>3. CountOf(Image(Master))' = CountOf(Image(Master))
    BY <2>2 DEF CountOf
  <2>4. /\ UNCHANGED <<count, counted, raced, inTrans>>
        /\ pc(Gui)' = "counted" <=> pc(Gui) = "counted"
        /\ \A l \in Slaves : inTrans[l] /\ pc(l) # "unmark" => inTrans'[l] /\ pc(l)' # "unmark"
    BY <1>2, <2>1, Apart DEF BeginImmediate, libVars, bounds, OnlyCallOf
  <2> QED BY <2>2, <2>3, <2>4, CountStays
<1>3. CASE EndRating
  <2>1. OnlyCallOf(Gui) /\ pc(Gui)' = "ended" /\ pc(Gui) = "run"
    BY <1>0, <1>3, GoesMoves DEF EndRating, At
  <2>2. writer = Master /\ writer' = None /\ Image(Master) = work /\ Image(Master)' = work
    BY <1>3, Apart DEF IInv, GuiWrites, EndRating, Image
  <2>3. CountOf(Image(Master))' = CountOf(Image(Master))
    BY <2>2 DEF CountOf
  <2>4. /\ UNCHANGED <<count, counted, raced, inTrans>>
        /\ pc(Gui)' = "counted" <=> pc(Gui) = "counted"
        /\ \A l \in Slaves : inTrans[l] /\ pc(l) # "unmark" => inTrans'[l] /\ pc(l)' # "unmark"
    BY <1>3, <2>1, Apart DEF EndRating, libVars, bounds, OnlyCallOf
  <2>5. None \notin Slaves
    BY Apart
  <2> QED BY <2>2, <2>3, <2>4, <2>5, CountStays
<1>4. CASE RatingIsTold
  <2>1. OnlyCallOf(Gui) /\ pc(Gui)' = "run" /\ pc(Gui) = "ended"
    BY <1>0, <1>4, ReturnsMoves DEF RatingIsTold
  <2>2. \A l \in Slaves : inTrans'[l] = inTrans[l]
    BY <1>0, <1>4, Apart DEF RatingIsTold, TypeOK
  <2> QED BY <1>0, <1>4, <2>1, <2>2, CountStaysWith DEF RatingIsTold, dbVars, bounds
<1> QED BY <1>1, <1>2, <1>3, <1>4

(* A transaction of a slave, until it is committed.                        *)
LEMMA TransactionCounts ==
    ASSUME IInv, CountInv, NEW l \in Slaves,
           BeginTransaction(l) \/ TransactionBegins(l) \/ EndTransaction(l) \/ TransactionCommits(l)
    PROVE  CountInv'
<1>0. TypeOK /\ l \in Threads /\ l \in Libs  BY Apart DEF IInv
<1>1. CASE BeginTransaction(l)
  <2>1. pc(l)' = "begin" /\ inTrans'[l]
    BY <1>0, <1>1, GoesMoves DEF BeginTransaction, At, TypeOK
  <2>2. \A x \in Slaves : inTrans[x] => inTrans'[x]
    BY <1>0, <1>1 DEF BeginTransaction, TypeOK
  <2>3. UNCHANGED <<disk, work, writer>>
    BY <1>1 DEF BeginTransaction, dbVars
  <2> QED BY <2>1, <2>2, <2>3, CountExcused DEF CountInv, Unsettled
<1>2. CASE TransactionBegins(l)
  <2>1. pc(l)' = "run" /\ inTrans'[l] /\ inTrans' = inTrans
    BY <1>0, <1>2, ReturnsMoves DEF IInv, SlaveWrites, TransactionBegins, libVars
  <2>2. \/ writer' = l
        \/ UNCHANGED <<disk, work, writer>>
    BY <1>2 DEF TransactionBegins
  <2>3. \A x \in Slaves : writer' = x /\ ~inTrans'[x] => CountOf(work') = CountOf(disk')
    BY <2>1, <2>2 DEF CountInv
  <2> QED BY <2>1, <2>3, CountExcused DEF Unsettled
<1>3. CASE EndTransaction(l)
  <2>1. pc(l)' \in {"commit", "signal"} /\ inTrans'[l] /\ inTrans' = inTrans
    BY <1>0, <1>3, GoesMoves DEF EndTransaction, libVars, At
  <2>2. UNCHANGED <<disk, work, writer>>
    BY <1>3 DEF EndTransaction
  <2>3. \A x \in Slaves : writer' = x /\ ~inTrans'[x] => CountOf(work') = CountOf(disk')
    BY <2>1, <2>2 DEF CountInv
  <2> QED BY <2>1, <2>3, CountExcused DEF Unsettled
<1>4. CASE TransactionCommits(l)
  <2>1. pc(l)' = "signal" /\ inTrans'[l]
    BY <1>0, <1>4, GoesMoves DEF IInv, SlaveWrites, TransactionCommits, libVars, At
  <2>2. writer' = None /\ None \notin Slaves
    BY <1>4, Apart DEF TransactionCommits
  <2> QED BY <2>1, <2>2, CountExcused DEF Unsettled
<1> QED BY <1>1, <1>2, <1>3, <1>4

(* A slave changes a song: in a transaction, whose end it will signal, or  *)
(* on its own, and then the song stays where it was.                       *)
LEMMA ChangeSongCounts ==
    ASSUME IInv, CountInv, NEW l \in Slaves, ChangeSong(l)
    PROVE  CountInv'
<1>0. TypeOK /\ l \in Threads /\ l # Master /\ l # Gui /\ l # None
  BY Apart DEF IInv
<1>1. PICK s \in Songs, row \in Values \union {Gone} :
      /\ ~inTrans[l] => (row = Gone <=> disk[s] = Gone)
      /\ \/ /\ writer = l
            /\ work' = [work EXCEPT ![s] = row] /\ UNCHANGED <<writer, committing>>
            /\ IF work[s] = Gone THEN UNCHANGED call ELSE Enters(l, "tell", "none", s)
         \/ /\ writer = None
            /\ writer' = l /\ committing' = TRUE
            /\ work' = [disk EXCEPT ![s] = row]
            /\ Enters(l, IF disk[s] = Gone THEN "added" ELSE "changed", "none", s)
         \/ /\ writer \notin {l, None}
            /\ UNCHANGED <<work, writer, committing, call>>
  BY DEF ChangeSong
<1>2. /\ pc(l) = "run" /\ UNCHANGED <<disk, count, counted, inTrans, raced>>
      /\ writer = l => inTrans[l]
  BY DEF IInv, SlaveWrites, ChangeSong, libVars
<1>3. OnlyCallOf(l) /\ pc(l)' \in {"run", "tell", "added", "changed"}
  <2>1. CASE UNCHANGED call
    BY <1>2, <2>1 DEF OnlyCallOf, pc
  <2>2. CASE Enters(l, "tell", "none", s)
    BY <1>0, <2>2, EntersMoves, Apart DEF At, Statements
  <2>3. CASE Enters(l, IF disk[s] = Gone THEN "added" ELSE "changed", "none", s)
    BY <1>0, <2>3, EntersMoves, Apart DEF At, Statements
  <2> QED BY <1>1, <2>1, <2>2, <2>3
<1>4. /\ pc(Gui)' = "counted" <=> pc(Gui) = "counted"
      /\ \A x \in Slaves : inTrans[x] /\ pc(x) # "unmark" => inTrans'[x] /\ pc(x)' # "unmark"
  BY <1>0, <1>2, <1>3, Apart DEF OnlyCallOf
<1>5. Image(Master)' = Image(Master)
  <2>1. l # Master /\ None # Master /\ disk' = disk
    BY <1>0, <1>2, Apart
  <2>2. writer' = writer \/ (writer = None /\ writer' = l)
    BY <1>1
  <2>3. writer = Master => work' = work
    BY <1>1, <2>1
  <2> QED BY <2>1, <2>2, <2>3 DEF Image
<1>6. CountOf(Image(Master))' = CountOf(Image(Master))
  BY <1>5 DEF CountOf
<1>7. ~inTrans[l] /\ writer = None => CountOf(work') = CountOf(disk)
  <2>1. SUFFICES ASSUME ~inTrans[l], writer = None PROVE CountOf(work') = CountOf(disk)
    OBVIOUS
  <2>2. \A x \in Songs : work'[x] = Gone <=> disk[x] = Gone
    BY <1>0, <1>1, <2>1 DEF TypeOK, Rows
  <2> QED BY <2>2, SameSongs
<1>8. \A x \in Slaves : writer' = x /\ ~inTrans'[x] => CountOf(work') = CountOf(disk')
  <2>1. CASE writer = l
    BY <1>1, <1>2, <2>1, <1>0
  <2>2. CASE writer = None
    BY <1>1, <1>2, <1>7, <2>2, <1>0
  <2>3. CASE writer \notin {l, None}
    BY <1>1, <1>2, <2>3 DEF CountInv
  <2> QED BY <2>1, <2>2, <2>3
<1> QED BY <1>2, <1>4, <1>6, <1>8, CountStays

(* What a slave changes on its own is committed: no song came or went.     *)
LEMMA StatementCounts ==
    ASSUME IInv, CountInv, NEW l \in Slaves, StatementCommits(l)
    PROVE  CountInv'
<1>0. TypeOK /\ l \in Threads /\ l # Master /\ l # Gui /\ None \notin Slaves /\ None # Master
  BY Apart DEF IInv
<1>1. /\ pc(l) \in {"added", "changed"} /\ writer = l /\ writer' = None /\ disk' = work
      /\ UNCHANGED <<work, count, counted, inTrans, raced>>
  BY DEF IInv, SlaveWrites, StatementCommits, libVars
<1>2. OnlyCallOf(l) /\ pc(l)' \in {"run", "tell"}
  BY <1>0, GoesMoves, ReturnsMoves DEF StatementCommits, At
<1>3. CASE inTrans[l]
  BY <1>0, <1>1, <1>2, <1>3, CountExcused DEF Unsettled
<1>4. CASE ~inTrans[l]
  <2>1. Image(Master) = disk /\ Image(Master)' = work /\ CountOf(work) = CountOf(disk)
    BY <1>0, <1>1, <1>4 DEF Image, CountInv
  <2>2. CountOf(Image(Master))' = CountOf(Image(Master))
    BY <2>1 DEF CountOf
  <2>3. /\ pc(Gui)' = "counted" <=> pc(Gui) = "counted"
        /\ \A x \in Slaves : inTrans[x] /\ pc(x) # "unmark" => inTrans'[x] /\ pc(x)' # "unmark"
    BY <1>0, <1>1, <1>2, Apart DEF OnlyCallOf
  <2> QED BY <1>0, <1>1, <2>2, <2>3, CountStays
<1> QED BY <1>3, <1>4

(* A signal forgets the count, and what the GUI was going to store counts  *)
(* as raced; after it the transaction may end.                             *)
LEMMA SignalCounts ==
    ASSUME IInv, CountInv, NEW l \in Slaves,
           SignalSlaveTransactionEnd(l) \/ Destroyed(l)
              \/ TransactionEnds(l) \/ TellNext(l) \/ AllTold(l)
    PROVE  CountInv'
<1>0. TypeOK /\ l \in Threads /\ l \in Libs /\ Gui \in Threads \ {l} /\ l # Gui
  BY Apart DEF IInv
<1>1. CASE SignalSlaveTransactionEnd(l) \/ Destroyed(l)
  <2>1. PICK to \in {"unmark", "dead"} : Signalled(l, to)
    BY <1>1 DEF SignalSlaveTransactionEnd, Destroyed
  <2>2. UNCHANGED <<disk, work, writer, inTrans>>
    BY <1>1 DEF SignalSlaveTransactionEnd, Destroyed, dbVars
  <2>3. to \in At
    BY DEF At
  <2>4. /\ count' = Unknown
        /\ pc(Gui)' = pc(Gui) \/ pc(Gui)' = "exec"
    BY <1>0, <2>1, <2>3, SignalledMoves
  <2>5. pc(Gui)' = "counted" => Unsettled'
    BY <2>1, <2>4 DEF Signalled, Unsettled
  <2>6. \A x \in Slaves : writer' = x /\ ~inTrans'[x] => CountOf(work') = CountOf(disk')
    BY <2>2 DEF CountInv
  <2> QED BY <2>4, <2>5, <2>6 DEF CountInv, CountOf
<1>2. CASE TransactionEnds(l)
  <2>1. OnlyCallOf(l) /\ pc(l) = "unmark" /\ pc(l)' = "replay"
    BY <1>0, <1>2, GoesMoves DEF TransactionEnds, At
  <2>2. writer # l /\ \A x \in Slaves \ {l} : inTrans'[x] = inTrans[x]
    BY <1>0, <1>2, <2>1 DEF IInv, TypeOK, SlaveWrites, TransactionEnds
  <2>3. UNCHANGED <<disk, work, writer, count, counted, raced>>
    BY <1>2 DEF TransactionEnds, dbVars
  <2>4. CountOf(Image(Master))' = CountOf(Image(Master))
    BY <2>3 DEF CountOf, Image
  <2>5. /\ pc(Gui)' = "counted" <=> pc(Gui) = "counted"
        /\ \A x \in Slaves : inTrans[x] /\ pc(x) # "unmark" => inTrans'[x] /\ pc(x)' # "unmark"
    BY <1>0, <2>1, <2>2, Apart DEF OnlyCallOf
  <2>6. \A x \in Slaves : writer' = x /\ ~inTrans'[x] => CountOf(work') = CountOf(disk')
    BY <2>2, <2>3 DEF CountInv
  <2> QED BY <2>3, <2>4, <2>5, <2>6, CountStays
<1>3. CASE TellNext(l)
  <2>1. OnlyCallOf(l) /\ pc(l) = "replay" /\ pc(l)' = "replay"
    BY <1>3 DEF TellNext, OnlyCallOf, pc
  <2> QED BY <1>0, <1>3, <2>1, CountStaysWith DEF TellNext, dbVars
<1>4. CASE AllTold(l)
  <2>1. OnlyCallOf(l) /\ pc(l) = "replay" /\ pc(l)' = "run"
    BY <1>0, <1>4, ReturnsMoves DEF AllTold
  <2> QED BY <1>0, <1>4, <2>1, CountStaysWith DEF AllTold, dbVars, libVars
<1> QED BY <1>1, <1>2, <1>3, <1>4

(* Every step keeps what the count rests on.                               *)
LEMMA StepCounts == ASSUME IInv, CountInv, [Next]_vars PROVE CountInv'
<1>1. ASSUME NEW t \in Threads, Step(t) PROVE CountInv'
  <2>1. CASE t \in Users /\ UserStep(t)
    BY <2>1, UserCounts, ChangeCounts DEF UserStep
  <2>2. CASE t = Gui /\ GuiStep
    BY <2>2, GuiCounts, RatingCounts DEF GuiStep
  <2>3. CASE t \in Slaves /\ SlaveStep(t)
    <3>1. CASE QuerySong(t) \/ IsBusy(t) \/ OnBusy(t) \/ OnSongDataChange(t)
      BY <3>1, UserCounts
    <3>2. CASE TransactionBegins(t) \/ EndTransaction(t) \/ TransactionCommits(t)
      BY <2>3, <3>2, TransactionCounts
    <3>3. CASE StatementCommits(t)
      BY <2>3, <3>3, StatementCounts
    <3>4. CASE \/ SignalSlaveTransactionEnd(t) \/ TransactionEnds(t)
               \/ TellNext(t) \/ AllTold(t) \/ Destroyed(t)
      BY <2>3, <3>4, SignalCounts
    <3> QED BY <2>3, <3>1, <3>2, <3>3, <3>4 DEF SlaveStep
  <2> QED BY <1>1, <2>1, <2>2, <2>3 DEF Step
<1>2. ASSUME NEW t \in Threads, GetSongFromSongid(t) PROVE CountInv'
  BY <1>2, UserCounts
<1>3. ASSUME NEW u \in Users, ChangesLibrary(u) PROVE CountInv'
  BY <1>3, ChangeCounts
<1>4. CASE GetSongCount \/ BeginRating
  BY <1>4, GuiCounts, RatingCounts
<1>5. ASSUME NEW l \in Slaves, BeginTransaction(l) \/ ChangeSong(l) PROVE CountInv'
  BY <1>5, TransactionCounts, ChangeSongCounts
<1>6. CASE UNCHANGED vars
  BY <1>6 DEF CountInv, Unsettled, Image, vars, dbVars, libVars, callVars, pc
<1> QED BY <1>1, <1>2, <1>3, <1>4, <1>5, <1>6 DEF Next

(* The number of songs the master has cached is right, unless a slave has  *)
(* still to signal the end of its transaction, or has signalled while the  *)
(* GUI held a number: m_nCachedSongCount is stored over no other change,   *)
(* and MusikPlaylistRenameThread, which changes songs with no transaction, *)
(* cannot make it wrong.                                                   *)
THEOREM CountIsKept == Spec => []CountIsRight
<1>1. Init => CountInv
  BY Apart DEF Init, CountInv, Idle, pc
<1>2. IInv /\ CountInv /\ [Next]_vars => CountInv'
  BY StepCounts
<1>3. CountInv => CountIsRight
  BY DEF CountInv, Unsettled, CountIsRight
<1> QED BY <1>1, <1>2, <1>3, Inductive, PTL DEF Spec
=============================================================================
