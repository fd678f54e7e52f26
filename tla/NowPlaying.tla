------------------------------ MODULE NowPlaying ------------------------------
(***************************************************************************)
(* The Now Playing list: the class MusikSongIdArray with its current       *)
(* index, which the array adjusts whenever entries come and go, and the    *)
(* handlers of CMusikPlayer and CPlaylistCtrl that change the list or move *)
(* through it.  One handler of the GUI thread is one action; what the      *)
(* fader threads do meanwhile is the subject of MusikPlayer, and reaches   *)
(* this module as the end of a stop fade.                                  *)
(*                                                                         *)
(* A handler calls others and each of them changes several members, so the *)
(* members are the fields of one record np, and a method is an operator    *)
(* from the record before it to the record after it.  Pause and resume do  *)
(* not fade here, Auto DJ and net radio are left out.                      *)
(***************************************************************************)
EXTENDS Integers, Sequences, SequencesExt, FiniteSetsExt, Functions

CONSTANTS
    Playmodes,          \* the play modes the user chooses from
    StopFade,           \* bGlobalFadeEnable && bFadeExitEnable
    StopOnClear,        \* bStopSongOnNowPlayingClear
    Edits,              \* what the user does to the list in this instance
    Files,              \* what Play meets on the disk in this instance
    MaxShuffleHistory,  \* nMaxShuffleHistory
    Word,               \* 2^w for the w bits of size_t
    MaxEntries,         \* bound: entries of the list
    MaxCursor,          \* bound: m_nCurIndex, when it runs off an empty list
    MaxHistory          \* bound: entries of m_arrHistory

ASSUME PlaymodesAssumption ==
    /\ Playmodes \subseteq {"normal", "repeatSong", "repeatList", "shuffle"}
    /\ {StopFade, StopOnClear} \subseteq BOOLEAN
    /\ Edits \subseteq {"enqueue", "insert", "replace", "clear", "drag", "delete"}
    /\ Files \subseteq {"plays", "missing", "unreadable"} /\ "plays" \in Files
ASSUME SizesAssumption ==
    /\ {MaxShuffleHistory, MaxEntries} \subseteq Nat \ {0}
    /\ {MaxCursor, MaxHistory, Word} \subseteq Nat
    /\ MaxEntries <= MaxCursor /\ MaxCursor < Word

VARIABLE np         \* the members of CMusikPlayer, see Init
vars == <<np>>

Ids    == 1..(MaxEntries + 1)
NoSong == 0

Entry(id, forced) == [id |-> id, forced |-> forced]     \* bForcePlay
IdsOf(list)       == {list[i].id : i \in DOMAIN list}

(* The ids of the k entries a handler creates: not those of the list, nor  *)
(* of the song that is playing on after it was taken off the list.         *)
NewIds(p, k) == CHOOSE ids \in Injection(1..k, Ids \ (IdsOf(p.list) \union {p.song})) : TRUE
Room(p, k)   == Len(p.list) + k <= MaxEntries

-----------------------------------------------------------------------------
(* MusikSongIdArray.  Positions count from 0, as in the source.            *)
Count(p)    == Len(p.list)
Minus(a, b) == (a - b) % Word       \* size_t does not go below zero

CurrentIndex(p)       == IF p.list = <<>> THEN 0 ELSE p.cur
SetCurrentIndex(p, n) == [p EXCEPT !.cur = IF p.list = <<>> THEN 0 ELSE Min({n, Count(p) - 1})]
IncrCurrentIndex(p)   == IF p.cur < Minus(Count(p), 1) THEN [p EXCEPT !.cur = @ + 1] ELSE p
(* Mutant: no check before the decrement.                                  *)
DecrUnguarded(p) == [p EXCEPT !.cur = Minus(@, 1)]
DecrCurrentIndex(p)   == IF p.cur > 0 THEN [p EXCEPT !.cur = @ - 1] ELSE p

(* An index behind the end is refused by the array, after the current      *)
(* index was adjusted.                                                     *)
Insert(p, e, i) ==
    LET q == IF i <= p.cur THEN IncrCurrentIndex(p) ELSE p
    IN  IF i <= Count(p) THEN [q EXCEPT !.list = InsertAt(@, i + 1, e)] ELSE q
Detach(p, i) ==
    LET q == IF i < p.cur THEN DecrCurrentIndex(p) ELSE p
    IN  [q EXCEPT !.list = RemoveAt(@, i + 1)]

(* Mutant: the index stays when an entry before it is removed.             *)
RemoveKeepsIndex(p, i) == [p EXCEPT !.list = RemoveAt(@, i + 1)]
RemoveEntry(p, i) == Detach(p, i)       \* RemoveAt(i, 1)

MoveOne(p, from, to) ==
    LET q == Insert(Detach(p, from), p.list[from + 1], to)
    IN  IF CurrentIndex(p) = from THEN SetCurrentIndex(q, to) ELSE q

(* Mutant: entries taken from behind the target do not shift the others.   *)
MoveForgetsShift(p, to, sel) ==
    LET right == Cardinality({i \in DOMAIN sel : sel[i] >= to})
    IN  FoldLeft(LAMBDA q, m : MoveOne(q, sel[Len(sel) - m + 1],
                                       IF m <= right THEN to ELSE to - (m - right)),
                 p, [m \in DOMAIN sel |-> m])

(* First the selected entries right of the target, the last one first, then *)
(* those left of it.                                                        *)
MoveEntrys(p, to, sel) ==
    LET left  == Cardinality({i \in DOMAIN sel : sel[i] < to})
        right == Len(sel) - left
        From(m) == sel[Len(sel) - m + 1] + IF m <= right THEN m - 1 ELSE 0
        To(m)   == IF m <= right THEN to ELSE to - (m - right)
        moved[m \in 0..Len(sel)] ==
            IF m = 0 THEN p ELSE MoveOne(moved[m - 1], From(m), To(m))
    IN  moved[Len(sel)]

-----------------------------------------------------------------------------
(* CMusikPlayer: starting and stopping.                                    *)
FinalizeStop(p) ==
    SetCurrentIndex([p EXCEPT !.song = NoSong, !.playing = FALSE, !.paused = FALSE,
                              !.stopping = FALSE], 0)

Stop(p, fade) ==
    CASE p.stopping          -> p
      [] ~p.stopping /\ fade /\ StopFade ->
             [p EXCEPT !.stopping = TRUE, !.fadeOut = IF p.playing THEN "runs" ELSE @]
      [] OTHER               -> FinalizeStop(p)

(* The fade type of a stop fade is replaced: unless the fader has already  *)
(* caught it, no FinalizeStop will come of it.                             *)
SetCrossfadeType(p) == [p EXCEPT !.fadeOut = IF @ = "runs" THEN "overtaken" ELSE @]

StartsSong(p, n) ==
    SetCrossfadeType(SetCurrentIndex([p EXCEPT !.stopping = FALSE, !.song = p.list[n + 1].id], n))

Play(p, n, file) ==
    CASE n >= Count(p) -> [p EXCEPT !.playing = FALSE]
      [] n < Count(p) /\ file = "missing"    -> Stop(p, TRUE)
      [] n < Count(p) /\ file = "unreadable" -> Stop(StartsSong(p, n), FALSE)
      [] OTHER -> [StartsSong(p, n) EXCEPT !.playing = TRUE, !.paused = FALSE]

PlayCurrent(p, file) == Play(p, CurrentIndex(p), file)

PostPlayRestart(p) ==
    IF p.restart THEN p
    ELSE [(IF p.playing THEN Stop(p, FALSE) ELSE p) EXCEPT !.restart = TRUE]

(* Mutant: nobody tells the player.                                        *)
RemovingIsIgnored(p, i) == p

OnPlaylistEntryRemoving(p, i) ==
    IF CurrentIndex(p) # i THEN p
    ELSE IF p.playing /\ ~p.paused THEN PostPlayRestart(p) ELSE Stop(p, TRUE)

-----------------------------------------------------------------------------
(* CMusikPlayer: the next and the previous song.                           *)

(* A full history is cut by a loop that counts up to half of a length that  *)
(* shrinks as it runs.                                                      *)
CutHistory(hist) ==
    LET k == Min({k \in 0..Len(hist) : k >= (Len(hist) - k) \div 2})
    IN  SubSeq(hist, k + 1, Len(hist))

(* r is the song drawn.  It may be one of the history, and one whose file  *)
(* is missing: after thirty draws the loop takes what comes.               *)
Shuffled(p, r) ==
    LET cut     == IF Len(p.hist) = Count(p) THEN CutHistory(p.hist) ELSE p.hist
        rotated == IF Len(cut) >= MaxShuffleHistory THEN Tail(cut) ELSE cut
    IN  [p EXCEPT !.hist = Append(rotated, r)]

NextIsForced(p) ==
    CurrentIndex(p) < Count(p) - 1 /\ p.list[CurrentIndex(p) + 2].forced

PlayForced(p, file) ==
    LET q == IncrCurrentIndex([p EXCEPT !.list[CurrentIndex(p) + 2].forced = FALSE])
    IN  PlayCurrent([q EXCEPT !.hist = Append(@, CurrentIndex(q))], file)

NextSong(p, r, file) ==
    CASE p.playmode = "normal" ->
            IF CurrentIndex(p) >= Minus(Count(p), 1) THEN Stop(p, TRUE)
            ELSE Play(p, CurrentIndex(p) + 1, file)
      [] p.playmode = "repeatSong" -> PlayCurrent(p, file)
      [] p.playmode = "repeatList" ->
            PlayCurrent(IF CurrentIndex(p) = Minus(Count(p), 1) THEN SetCurrentIndex(p, 0)
                        ELSE IncrCurrentIndex(p), file)
      [] p.playmode = "shuffle" ->
            CASE p.list = <<>>    -> p
              [] p.list # <<>> /\ NextIsForced(p) -> PlayForced(p, file)
              [] OTHER            -> Play(Shuffled(p, r), r, file)

PrevSong(p, started, file) ==
    CASE started \/ p.playmode = "repeatSong" -> PlayCurrent(p, file)
      [] ~started /\ p.playmode = "normal" -> PlayCurrent(DecrCurrentIndex(p), file)
      [] ~started /\ p.playmode = "repeatList" ->
            PlayCurrent(IF CurrentIndex(p) <= 0 THEN SetCurrentIndex(p, Minus(Count(p), 1))
                        ELSE DecrCurrentIndex(p), file)
      [] ~started /\ p.playmode = "shuffle" ->
            IF Len(p.hist) < 2 THEN p
            ELSE PlayCurrent(SetCurrentIndex(p, p.hist[Len(p.hist) - 1]), file)

-----------------------------------------------------------------------------
(* CMusikPlayer: changing the list.                                        *)
Entries(ids, forced) == [i \in DOMAIN ids |-> Entry(ids[i], forced)]

(* Mutant: the current index of the old list stays.                        *)
SetPlaylistKeepsIndex(p, list) == [p EXCEPT !.list = list, !.hist = <<>>]
SetPlaylist(p, list) == [p EXCEPT !.list = list, !.cur = 0, !.hist = <<>>]

AddToPlaylist(p, entries, play, file) ==
    LET q == [p EXCEPT !.list = @ \o entries]
    IN  IF play THEN PlayCurrent(SetCurrentIndex(q, Count(p)), file) ELSE q

(* Mutant: inserts before the current entry.                               *)
InsertsBefore(p, entries, play, file) ==
    LET at == CurrentIndex(p)
        q  == FoldLeft(LAMBDA s, i : Insert(s, entries[i], at + i - 1), p,
                       [i \in DOMAIN entries |-> i])
    IN  IF p.list = <<>> \/ ~p.playing THEN AddToPlaylist(p, entries, play, file)
        ELSE IF play THEN PlayCurrent(SetCurrentIndex(q, at), file) ELSE q

InsertToPlaylist(p, entries, play, file) ==
    LET at == CurrentIndex(p)
        inserted[i \in 0..Len(entries)] ==
            IF i = 0 THEN p ELSE Insert(inserted[i - 1], entries[i], at + i)
        q  == inserted[Len(entries)]
    IN  CASE p.list = <<>> \/ ~p.playing -> AddToPlaylist(p, entries, play, file)
          [] p.list # <<>> /\ p.playing /\ play -> PlayCurrent(SetCurrentIndex(q, at + 1), file)
          [] OTHER -> q

(* One deleted entry of a selection: the player is told before it goes.    *)
DeleteEntry(p, i) == RemoveEntry(OnPlaylistEntryRemoving(p, i), i)
DeleteEntries(p, sel) ==
    LET deleted[i \in 0..Len(sel)] ==
            IF i = 0 THEN p ELSE DeleteEntry(deleted[i - 1], sel[i] - (i - 1))
    IN  deleted[Len(sel)]

-----------------------------------------------------------------------------
(* The list is what the last session saved, and its current index too.     *)
Init ==
    \E k \in 0..MaxEntries, cur \in 0..(MaxEntries - 1), mode \in Playmodes :
        np = SetCurrentIndex(
               [list |-> [i \in 1..k |-> Entry(i, FALSE)], cur |-> 0, hist |-> <<>>,
                song |-> NoSong, playing |-> FALSE, paused |-> FALSE,
                stopping |-> FALSE, fadeOut |-> "none", restart |-> FALSE, playmode |-> mode],
               cur)

(* Both grow in the code: the index is increased although the list is empty, *)
(* by the next song and by a drag of the only entry, which is detached first. *)
CursorBounded == np.cur < MaxCursor
Bounded == /\ CursorBounded
           /\ np.playmode = "shuffle" /\ NextIsForced(np) => Len(np.hist) < MaxHistory

(* The selection of the list control, in ascending order.                  *)
Selections == {sel \in UNION {[1..k -> 0..(Count(np) - 1)] : k \in 1..Count(np)} :
                   \A i, j \in DOMAIN sel : i < j => sel[i] < sel[j]}

(* Where it may be dropped: not on its last entry; nowhere is the end.     *)
Targets(sel) == ((0..Count(np)) \ {Last(sel), Last(sel) + 1}) \union {Count(np)}

ChooseMode == \E mode \in Playmodes : np' = [np EXCEPT !.playmode = mode]
StopSong   == np' = Stop(np, TRUE)

PlayPause ==
    \/ np.playing /\ ~np.paused /\ np' = SetCrossfadeType([np EXCEPT !.paused = TRUE])
    \/ np.playing /\ np.paused /\ np' = SetCrossfadeType([np EXCEPT !.paused = FALSE])
    \/ /\ ~np.playing /\ np.playmode # "shuffle"
       /\ \E file \in Files : np' = PlayCurrent(np, file)

(* The user, the end of a song, or play in shuffle mode.                   *)
GoNext == /\ Bounded
          /\ \E r \in 0..Max({0, Count(np) - 1}), file \in Files : np' = NextSong(np, r, file)
GoPrev == \E started \in BOOLEAN, file \in Files :
            (started => np.song # NoSong) /\ np' = PrevSong(np, started, file)

Enqueue ==
    /\ "enqueue" \in Edits
    /\ \E k \in 1..2, play \in BOOLEAN, file \in Files :
          /\ Room(np, k)
          /\ np' = AddToPlaylist(np, Entries(NewIds(np, k), FALSE), play, file)
PlayAsNext ==
    /\ "insert" \in Edits
    /\ \E k \in 1..2, play \in BOOLEAN, file \in Files :
          /\ Room(np, k)
          /\ np' = InsertToPlaylist(np, Entries(NewIds(np, k), TRUE), play, file)
PlayReplaceList ==
    /\ "replace" \in Edits
    /\ \E k \in 1..MaxEntries, n \in 0..(MaxEntries - 1), file \in Files :
          /\ n < k
          /\ LET new == SetPlaylist(np, <<>>)
             IN  np' = Play(SetPlaylist(np, Entries(NewIds(new, k), FALSE)), n, file)
ClearPlaylist ==
    /\ "clear" \in Edits
    /\ np' = SetPlaylist(IF StopOnClear THEN Stop(np, TRUE) ELSE np, <<>>)
Drag ==
    /\ "drag" \in Edits
    /\ CursorBounded
    /\ \E sel \in Selections : \E to \in Targets(sel) : np' = MoveEntrys(np, to, sel)
DelSelSongs ==
    /\ "delete" \in Edits
    /\ \E sel \in Selections : np' = DeleteEntries(np, sel)

OnPlayRestart == /\ np.restart
                 /\ \E file \in Files : np' = PlayCurrent([np EXCEPT !.restart = FALSE], file)
StopFadeEnds  == /\ np.fadeOut # "none"
                 /\ np' = FinalizeStop([np EXCEPT !.fadeOut = "none"])
StopFadeIsLost == np.fadeOut = "overtaken" /\ np' = [np EXCEPT !.fadeOut = "none"]

Next == \/ ChooseMode \/ StopSong \/ PlayPause \/ GoNext \/ GoPrev
        \/ Enqueue \/ PlayAsNext \/ PlayReplaceList \/ ClearPlaylist \/ Drag \/ DelSelSongs
        \/ OnPlayRestart \/ StopFadeEnds \/ StopFadeIsLost

Spec == Init /\ [][Next]_vars
=============================================================================
