---------------------------- MODULE NowPlayingMC ----------------------------
(***************************************************************************)
(* What NowPlaying is checked for.                                         *)
(***************************************************************************)
EXTENDS NowPlaying

Normal  == {"normal"}
Ordered == {"normal", "repeatSong", "repeatList"}
Shuffle == {"shuffle"}

Additions == {"enqueue", "insert", "replace", "clear"}
NoDrags   == Additions \union {"delete"}
AllEdits  == NoDrags \union {"drag"}
DragAndDelete == {"drag", "delete"}
AdditionsOnly == {"insert", "delete"}

AnyFile   == {"plays", "missing", "unreadable"}
GoodFiles == {"plays"}
NoneUnreadable == {"plays", "missing"}

(* The members have their types and no entry is in the list twice; the     *)
(* unsigned index never wraps below zero.                                  *)
TypeOK ==
    /\ np \in [list : Seq([id : Ids, forced : BOOLEAN]), cur : 0..MaxCursor,
               hist : Seq(0..(MaxEntries - 1)), song : Ids \union {NoSong},
               playing : BOOLEAN, paused : BOOLEAN,
               stopping : BOOLEAN, fadeOut : {"none", "runs", "overtaken"},
               restart : BOOLEAN, playmode : Playmodes]
    /\ Cardinality(IdsOf(np.list)) = Len(np.list)

(* The current index stays on the song that plays, whatever is added,      *)
(* inserted, deleted or played, as long as that song is in the list and no *)
(* stop is under way.                                                      *)
CursorFollowsSong ==
    np.playing /\ ~np.stopping /\ np.song \in IdsOf(np.list) =>
        np.cur < Len(np.list) /\ np.list[np.cur + 1].id = np.song

(* While a song plays and neither a stop nor a restart is under way, the   *)
(* current index is one of the list, also when the song itself is no       *)
(* longer in it: Item(CurrentIndex()) is read without a check.             *)
CursorInRange ==
    np.playing /\ ~np.stopping /\ ~np.restart /\ np.list # <<>> => np.cur < Len(np.list)

(* A drag moves the selection as one block to the place it was dropped on, *)
(* and leaves both the block and the rest in their order: Place says where *)
(* each entry of the list goes, and no two go to one place.                *)
Before(sel, x) == Cardinality({m \in DOMAIN sel : sel[m] < x})
Place(sel, to, i) ==
    IF i \in ToSet(sel) THEN to - Before(sel, to) + Before(sel, i)
    ELSE i - Before(sel, i) + IF i < to THEN 0 ELSE Len(sel)
Rearranged(old, new, sel, to) ==
    /\ Len(new) = Len(old)
    /\ \A i \in 0..(Len(old) - 1) : new[Place(sel, to, i) + 1] = old[i + 1]
DragKeepsOrder ==
    \A sel \in Selections : \A to \in Targets(sel) :
        Rearranged(np.list, MoveEntrys(np, to, sel).list, sel, to)
=============================================================================
