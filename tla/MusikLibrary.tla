----------------------------- MODULE MusikLibrary -----------------------------
(***************************************************************************)
(* CMusikLibrary: the master library of the GUI and web server threads,    *)
(* with a cache of songs, and the slave libraries the background threads   *)
(* change the database through, each on a connection of its own.  A slave  *)
(* tells its master which songs have changed, at once or, in a             *)
(* transaction, after it has ended; the master waits for a locked          *)
(* database in its busy handler, until a slave signals.                    *)
(*                                                                         *)
(* Of SQLite: one connection writes at a time (`writer', from begin        *)
(* immediate to the end, or for one statement); others read what was       *)
(* committed, but not while it commits.  A statement that only reads, and  *)
(* a commit of the master, is a step.  A connection serves one thread at a *)
(* time, and keeps it while its busy handler waits.                        *)
(***************************************************************************)
EXTENDS Naturals, Sequences, FiniteSets

CONSTANTS
    Songs, Values,      \* song ids, and what a row can hold
    Users, Gui, Slaves, \* threads on the master; of them the GUI; background threads
    Master,             \* the master library, and its connection
    All, Gone, NotCached, None, Unknown,
                        \* songid -1; no such row; not in the map; nobody; count -1
    MaxIds,             \* 100, after which one id stands for all
    Autocommits,        \* may a background thread change songs outside a transaction?
                        \* MusikPlaylistRenameThread does
    SlaveReads,         \* may one read songs from the master in a transaction?
    MaxEdits, MaxCalls, MaxBegins       \* bounds: of all changes, of the calls of a
                                        \* thread that read, of transactions of a slave

Threads == Users \union Slaves
Libs    == {Master} \union Slaves
Rows    == [Songs -> Values \union {Gone}]

ASSUME LibraryAssumption ==
    /\ Gui \in Users /\ Users \intersect Slaves = {} /\ Master \notin Slaves
    /\ None \notin Threads \union Libs /\ All \notin Songs
    /\ Gone \notin Values /\ NotCached \notin Values \union {Gone}
    /\ Unknown \notin Nat /\ IsFiniteSet(Songs)
    /\ {MaxIds, MaxEdits, MaxCalls, MaxBegins} \subseteq Nat
    /\ {Autocommits, SlaveReads} \subseteq BOOLEAN

VARIABLES
    disk, work,     \* the committed rows; what `writer', if any, makes of them
    writer,         \* the connection that may write
    committing,     \* does it keep the readers out?
    cache,          \* m_mapSongCache of the master
    cacheLock,      \* m_csCacheAccess of the master; a slave's is not contended
    conn,           \* the thread that waits with the master's connection
    count,          \* m_nCachedSongCount of the master
    inTrans,        \* m_bTansactionInProgress
    changed,        \* m_arrTransactionIdsChanged
    call,           \* the call a thread is in: where, what statement, what song
    counted,        \* the count GetSongCount has read
    left            \* ids InternalEndTransaction has still to tell
VARIABLES           \* not in the code
    edits, calls, begins,
    raced           \* signals that came too early: for a thread that was going
                    \* to wait, for a count that was going to be stored
dbVars   == <<disk, work, writer, committing>>
libVars  == <<cache, cacheLock, count, inTrans, changed>>
callVars == <<call, counted, left>>
bounds   == <<edits, calls, begins>>
vars     == <<dbVars, libVars, callVars, conn, bounds, raced>>

Lib(t) == IF t \in Slaves THEN t ELSE Master

(* What a connection reads.                                                *)
Image(c) == IF writer = c THEN work ELSE disk
CountOf(rows) == Cardinality({s \in Songs : rows[s] # Gone})

Idle == [at |-> "run", stmt |-> "none", song |-> All]
Enters(t, place, name, s) == call' = [call EXCEPT ![t] = [at |-> place, stmt |-> name, song |-> s]]
Goes(t, place) == call' = [call EXCEPT ![t].at = place]
Returns(t)     == call' = [call EXCEPT ![t] = Idle]
pc(t) == call[t].at

Init ==
    /\ disk \in Rows /\ work = disk /\ writer = None /\ committing = FALSE
    /\ cache = [s \in Songs |-> NotCached] /\ cacheLock = None /\ conn = None
    /\ count = Unknown
    /\ inTrans = [l \in Libs |-> FALSE] /\ changed = [l \in Libs |-> <<>>]
    /\ call = [t \in Threads |-> Idle] /\ counted = 0
    /\ left = [l \in Slaves |-> <<>>]
    /\ edits = 0 /\ calls = [t \in Threads |-> 0] /\ begins = [l \in Slaves |-> 0]
    /\ raced = {}

-----------------------------------------------------------------------------
(* The master is told of a change.                                         *)

(* Mutant: the list is cut without a trace.                                *)
CollectForgetful(ids, id) == IF Len(ids) > MaxIds THEN <<>> ELSE Append(ids, id)

Collect(ids, id) ==
    IF ids # <<>> /\ ids[1] = All THEN ids
    ELSE IF id = All \/ Len(ids) > MaxIds THEN <<All>>
    ELSE Append(ids, id)

Erased(ids) == [s \in Songs |-> IF s \in ids \/ All \in ids THEN NotCached ELSE cache[s]]

(* OnSongDataChange of the master.                                         *)
TellMaster(id) ==
    /\ cacheLock = None
    /\ IF inTrans[Master]
       THEN changed' = [changed EXCEPT ![Master] = Collect(@, id)] /\ UNCHANGED cache
       ELSE cache' = Erased({id}) /\ UNCHANGED changed

(* ... and of the library the thread has changed the database with.        *)
OnSongDataChange(t) ==
    /\ pc(t) = "tell"
    /\ IF t \in Slaves /\ inTrans[t]
       THEN changed' = [changed EXCEPT ![t] = Collect(@, call[t].song)] /\ UNCHANGED cache
       ELSE TellMaster(call[t].song)
    /\ Returns(t)
    /\ UNCHANGED <<dbVars, cacheLock, count, inTrans, counted, left, conn, bounds, raced>>

-----------------------------------------------------------------------------
(* Statements on the connection of the master.                             *)
Reads(t) == call[t].stmt \in {"get", "count"}
Locked(t) == writer \in Slaves /\ (Reads(t) => committing)

Calls(t, name, s) ==
    pc(t) = "run" /\ Enters(t, "exec", name, s)

(* The song is not in the cache: the lock is kept until it is.             *)
GetSongFromSongid(t) ==
    /\ calls[t] < MaxCalls
    /\ t = Gui => ~inTrans[Master]
    /\ t \in Slaves => (inTrans[t] => SlaveReads)
    /\ cacheLock = None
    /\ \E s \in {x \in Songs : cache[x] = NotCached} : Calls(t, "get", s)
    /\ cacheLock' = t
    /\ calls' = [calls EXCEPT ![t] = @ + 1]
    /\ UNCHANGED <<dbVars, cache, count, inTrans, changed, counted, left, conn, edits, begins, raced>>

GetSongCount ==
    /\ count = Unknown /\ ~inTrans[Master] /\ calls[Gui] < MaxCalls
    /\ Calls(Gui, "count", All)
    /\ calls' = [calls EXCEPT ![Gui] = @ + 1]
    /\ UNCHANGED <<dbVars, libVars, counted, left, conn, edits, begins, raced>>

(* SetRating, UpdateItemLastPlayed; RemoveSong; RemoveAll.                 *)
ChangesLibrary(u) ==
    /\ edits < MaxEdits
    /\ \/ \E s \in Songs : Calls(u, "update", s)
       \/ u = Gui /\ ~inTrans[Master] /\ \E s \in Songs : Calls(u, "remove", s)
       \/ u = Gui /\ ~inTrans[Master] /\ Calls(u, "removeall", All)
    /\ edits' = edits + 1
    /\ UNCHANGED <<dbVars, libVars, counted, left, conn, calls, begins, raced>>

(* The busy handler is called, with the connection in hand.                *)
IsBusy(t) ==
    /\ pc(t) = "exec" /\ conn \in {None, t} /\ Locked(t)
    /\ Goes(t, "busy") /\ conn' = t
    /\ UNCHANGED <<dbVars, libVars, counted, left, bounds, raced>>
OnBusy(t) ==
    /\ pc(t) = "busy" /\ Goes(t, "waiting")
    /\ UNCHANGED <<dbVars, libVars, counted, left, conn, bounds, raced>>

MayRun(t, name) ==
    /\ pc(t) = "exec" /\ call[t].stmt = name /\ conn \in {None, t} /\ ~Locked(t)
    /\ conn' = None

(* Mutant: a song that is not found goes into the cache.                   *)
QuerySongAnyway(t) ==
    /\ MayRun(t, "get")
    /\ cache' = [cache EXCEPT ![call[t].song] = Image(Master)[call[t].song]]
    /\ cacheLock' = None /\ Returns(t)
    /\ UNCHANGED <<dbVars, count, inTrans, changed, counted, left, bounds, raced>>

QuerySong(t) ==
    /\ MayRun(t, "get")
    /\ LET row == Image(Master)[call[t].song]
       IN  cache' = [cache EXCEPT ![call[t].song] = IF row = Gone THEN NotCached ELSE row]
    /\ cacheLock' = None /\ Returns(t)
    /\ UNCHANGED <<dbVars, count, inTrans, changed, counted, left, bounds, raced>>

QueryCount ==
    /\ MayRun(Gui, "count")
    /\ counted' = CountOf(Image(Master)) /\ Goes(Gui, "counted")
    /\ UNCHANGED <<dbVars, libVars, left, bounds, raced>>
CountIsStored ==
    /\ pc(Gui) = "counted"
    /\ count' = counted /\ counted' = 0
    /\ IF call[Gui].stmt = "count" THEN Returns(Gui) ELSE Goes(Gui, "tell")
    /\ UNCHANGED <<dbVars, cache, cacheLock, inTrans, changed, left, conn, bounds, raced>>

MasterWrites(rows) ==
    IF writer = Master THEN work' = rows /\ UNCHANGED <<disk, writer, committing>>
    ELSE disk' = rows /\ work' = rows /\ UNCHANGED <<writer, committing>>

(* A row that is gone is not changed, and all the same the master is told. *)
UpdateRow(u) ==
    /\ MayRun(u, "update")
    /\ \E v \in Values :
          MasterWrites([Image(Master) EXCEPT ![call[u].song] = IF @ = Gone THEN Gone ELSE v])
    /\ Goes(u, "tell")
    /\ UNCHANGED <<libVars, counted, left, bounds, raced>>
RemoveRow ==
    /\ MayRun(Gui, "remove")
    /\ MasterWrites([Image(Master) EXCEPT ![call[Gui].song] = Gone])
    /\ count' = Unknown /\ Goes(Gui, "tell")
    /\ UNCHANGED <<cache, cacheLock, inTrans, changed, counted, left, bounds, raced>>
RemoveAllRows ==
    /\ MayRun(Gui, "removeall")
    /\ MasterWrites([s \in Songs |-> Gone])
    /\ counted' = 0 /\ Goes(Gui, "counted")
    /\ UNCHANGED <<libVars, left, bounds, raced>>

-----------------------------------------------------------------------------
(* The transaction in which the GUI thread rates the selected songs.       *)
BeginRating ==
    /\ ~inTrans[Master] /\ cacheLock = None /\ edits < MaxEdits
    /\ Calls(Gui, "begin", All)
    /\ changed' = [changed EXCEPT ![Master] = <<>>]
    /\ inTrans' = [inTrans EXCEPT ![Master] = TRUE]
    /\ UNCHANGED <<dbVars, cache, cacheLock, count, counted, left, conn, bounds, raced>>
BeginImmediate ==
    /\ MayRun(Gui, "begin")
    /\ writer' = Master /\ work' = disk /\ Returns(Gui)
    /\ UNCHANGED <<disk, committing, libVars, counted, left, bounds, raced>>
EndRating ==
    /\ pc(Gui) = "run" /\ inTrans[Master] /\ conn = None
    /\ disk' = work /\ writer' = None /\ Goes(Gui, "ended")
    /\ UNCHANGED <<work, committing, libVars, counted, left, conn, bounds, raced>>

RatingIsTold ==
    /\ pc(Gui) = "ended" /\ cacheLock = None
    /\ inTrans' = [inTrans EXCEPT ![Master] = FALSE]
    /\ cache' = Erased({changed[Master][i] : i \in DOMAIN changed[Master]})
    /\ Returns(Gui)
    /\ UNCHANGED <<dbVars, cacheLock, count, changed, counted, left, conn, bounds, raced>>

-----------------------------------------------------------------------------
(* The background threads.                                                 *)
BeginTransaction(l) ==
    /\ pc(l) = "run" /\ ~inTrans[l] /\ begins[l] < MaxBegins
    /\ changed' = [changed EXCEPT ![l] = <<>>]
    /\ inTrans' = [inTrans EXCEPT ![l] = TRUE]
    /\ begins' = [begins EXCEPT ![l] = @ + 1]
    /\ Goes(l, "begin")
    /\ UNCHANGED <<dbVars, cache, cacheLock, count, counted, left, conn, edits, calls, raced>>

(* It waits for at most 20 seconds.                                        *)
TransactionBegins(l) ==
    /\ pc(l) = "begin" /\ Returns(l)
    /\ \/ writer = None /\ writer' = l /\ work' = disk
       \/ writer # None /\ UNCHANGED <<writer, work>>
    /\ UNCHANGED <<disk, committing, libVars, counted, left, conn, bounds, raced>>

(* UpdateItem, UpdateItemResetDirty, RenameFile, RemoveSong change a row   *)
(* that is there; AddSongDataFromFile adds one, and tells nobody.  Without *)
(* a transaction the statement is one of its own, or finds no chance to be *)
(* within 20 seconds; only RenameFile is called without.                   *)
ChangeSong(l) ==
    /\ pc(l) = "run" /\ edits < MaxEdits /\ (inTrans[l] \/ Autocommits)
    /\ \E s \in Songs, row \in Values \union {Gone} :
       /\ ~inTrans[l] => (row = Gone <=> disk[s] = Gone)
       /\ \/ /\ writer = l
             /\ work' = [work EXCEPT ![s] = row] /\ UNCHANGED <<writer, committing>>
             /\ IF work[s] = Gone THEN UNCHANGED call ELSE Enters(l, "tell", "none", s)
          \/ /\ writer = None
             /\ writer' = l /\ committing' = TRUE
             /\ work' = [disk EXCEPT ![s] = row]
             /\ Enters(l, IF disk[s] = Gone THEN "added" ELSE "changed", "none", s)
          \/ /\ writer \notin {l, None}
             /\ UNCHANGED <<work, writer, committing, call>>
    /\ edits' = edits + 1
    /\ UNCHANGED <<disk, libVars, counted, left, conn, calls, begins, raced>>
StatementCommits(l) ==
    /\ pc(l) \in {"added", "changed"}
    /\ disk' = work /\ writer' = None /\ committing' = FALSE
    /\ IF pc(l) = "added" THEN Returns(l) ELSE Goes(l, "tell")
    /\ UNCHANGED <<work, libVars, counted, left, conn, bounds, raced>>

(* InternalEndTransaction: the database first, then the master is woken,   *)
(* then told.                                                              *)
EndTransaction(l) ==
    /\ pc(l) = "run" /\ inTrans[l]
    /\ IF writer = l THEN committing' = TRUE /\ Goes(l, "commit")
       ELSE UNCHANGED committing /\ Goes(l, "signal")
    /\ UNCHANGED <<disk, work, writer, libVars, counted, left, conn, bounds, raced>>
TransactionCommits(l) ==
    /\ pc(l) = "commit"
    /\ disk' = work /\ writer' = None /\ committing' = FALSE /\ Goes(l, "signal")
    /\ UNCHANGED <<work, libVars, counted, left, conn, bounds, raced>>

(* Mutants: the count is kept; nobody is woken.                            *)
SignalledKeepsCount(l, to) ==
    /\ UNCHANGED count
    /\ call' = [t \in Threads |->
                   IF t = l THEN [Idle EXCEPT !.at = to]
                   ELSE IF pc(t) = "waiting" THEN [call[t] EXCEPT !.at = "exec"] ELSE call[t]]
    /\ raced' = raced \union (IF pc(Gui) = "counted" THEN {"count"} ELSE {})
SignalledToNobody(l, to) ==
    /\ count' = Unknown /\ call' = [call EXCEPT ![l] = [Idle EXCEPT !.at = to]]
    /\ UNCHANGED raced

(* SignalSlaveTransactionEnd: a signal that nobody waits for is lost.      *)
Signalled(l, to) ==
    /\ count' = Unknown
    /\ call' = [t \in Threads |->
                   IF t = l THEN [Idle EXCEPT !.at = to]
                   ELSE IF pc(t) = "waiting" THEN [call[t] EXCEPT !.at = "exec"] ELSE call[t]]
    /\ raced' = raced \union (IF \E t \in Threads : pc(t) = "busy" THEN {"signal"} ELSE {})
                      \union (IF pc(Gui) = "counted" THEN {"count"} ELSE {})
SignalSlaveTransactionEnd(l) ==
    /\ pc(l) = "signal" /\ Signalled(l, "unmark")
    /\ UNCHANGED <<dbVars, cache, cacheLock, inTrans, changed, counted, left, conn, bounds>>

TransactionEnds(l) ==
    /\ pc(l) = "unmark"
    /\ inTrans' = [inTrans EXCEPT ![l] = FALSE]
    /\ left' = [left EXCEPT ![l] = changed[l]] /\ Goes(l, "replay")
    /\ UNCHANGED <<dbVars, cache, cacheLock, count, changed, counted, conn, bounds, raced>>
TellNext(l) ==
    /\ pc(l) = "replay" /\ left[l] # <<>>
    /\ TellMaster(Head(left[l]))
    /\ left' = [left EXCEPT ![l] = Tail(@)]
    /\ UNCHANGED <<dbVars, cacheLock, count, inTrans, call, counted, conn, bounds, raced>>
AllTold(l) ==
    /\ pc(l) = "replay" /\ left[l] = <<>> /\ Returns(l)
    /\ UNCHANGED <<dbVars, libVars, counted, left, conn, bounds, raced>>

(* The thread ends and its library is destroyed; a transaction it has not  *)
(* ended is ended by EndTransaction first.                                 *)
Destroyed(l) ==
    /\ pc(l) = "run" /\ ~inTrans[l] /\ Signalled(l, "dead")
    /\ UNCHANGED <<dbVars, cache, cacheLock, inTrans, changed, counted, left, conn, bounds>>

-----------------------------------------------------------------------------
(* A call that was begun, and a transaction of a background thread.        *)
UserStep(u) ==
    \/ QuerySong(u) \/ UpdateRow(u) \/ IsBusy(u) \/ OnBusy(u) \/ OnSongDataChange(u)
GuiStep ==
    \/ QueryCount \/ CountIsStored \/ RemoveRow \/ RemoveAllRows
    \/ BeginImmediate \/ EndRating \/ RatingIsTold
SlaveStep(l) ==
    \/ QuerySong(l) \/ IsBusy(l) \/ OnBusy(l) \/ OnSongDataChange(l)
    \/ TransactionBegins(l) \/ StatementCommits(l)
    \/ EndTransaction(l) \/ TransactionCommits(l) \/ SignalSlaveTransactionEnd(l)
    \/ TransactionEnds(l) \/ TellNext(l) \/ AllTold(l) \/ Destroyed(l)
Step(t) ==
    \/ t \in Users /\ UserStep(t)
    \/ t = Gui /\ GuiStep
    \/ t \in Slaves /\ SlaveStep(t)

Next ==
    \/ \E t \in Threads : Step(t) \/ GetSongFromSongid(t)
    \/ \E u \in Users : ChangesLibrary(u)
    \/ GetSongCount \/ BeginRating
    \/ \E l \in Slaves : BeginTransaction(l) \/ ChangeSong(l)

Spec == Init /\ [][Next]_vars

(* Threads run, and a background thread comes to its end.                  *)
Fairness == \A t \in Threads : WF_vars(Step(t))
FairSpec == Spec /\ Fairness
=============================================================================
