-------------------------- MODULE PlayerStreamProofs --------------------------
(***************************************************************************)
(* Proofs about the streams of MusikPlayer: the player implements          *)
(* StreamLife.                                                             *)
(***************************************************************************)
EXTENDS MusikPlayerProofs

-----------------------------------------------------------------------------
(* What Play has opened is one stream at a time, on its way into           *)
(* m_ActiveStreams; every other stream is in the array, once, or deleted.  *)
OpeningIsNext == opening # NoStream => todo # <<>> /\ Head(todo) \in Tries \union {"addStream"}
NoneTwice     == \A i, j \in DOMAIN active : active[i] = active[j] => i = j
NoneLost      == \A n \in Streams :
                    n <= opened <=> n \in ToSet(active) \/ n \in deleted \/ n = opening
OnePlace      == /\ ToSet(active) \intersect deleted = {}
                 /\ opening \notin ToSet(active) /\ opening \notin deleted
StreamsInv    == OpeningIsNext /\ NoneTwice /\ NoneLost /\ OnePlace

-----------------------------------------------------------------------------
(* What a step may do to the streams: nothing, open one, add the open one  *)
(* to the array, delete it, or delete some of the array.                   *)
Opens   == /\ todo # <<>> /\ Head(todo) \in {"play", "playSeek"}
           /\ opened < MaxStreams /\ opened' = opened + 1 /\ opening' = opened + 1
           /\ UNCHANGED <<active, deleted>>
Adds    == /\ todo # <<>> /\ Head(todo) = "addStream"
           /\ active' = Append(active, opening) /\ opening' = NoStream
           /\ UNCHANGED <<opened, deleted>>
GivesUp == /\ todo # <<>> /\ Head(todo) = "deleteNew"
           /\ deleted' = deleted \union {opening} /\ opening' = NoStream
           /\ UNCHANGED <<active, opened>>
Keeps(kept) ==
    /\ kept \in Seq(Streams) /\ ToSet(kept) \subseteq ToSet(active)
    /\ NoneTwice => \A i, j \in DOMAIN kept : kept[i] = kept[j] => i = j
    /\ active' = kept /\ deleted' = deleted \union (ToSet(active) \ ToSet(kept))
    /\ UNCHANGED <<opening, opened>>
SameStreams == UNCHANGED <<active, opening, opened, deleted>>

(* The three choices of what is kept: nothing, the last, all but the first. *)
LEMMA KeptStreams ==
    ASSUME StreamsOK, NEW kept,
           \/ kept = <<>>
           \/ active # <<>> /\ kept = <<Last(active)>>
           \/ active # <<>> /\ kept = Tail(active)
    PROVE  /\ kept \in Seq(Streams) /\ ToSet(kept) \subseteq ToSet(active)
           /\ NoneTwice => \A i, j \in DOMAIN kept : kept[i] = kept[j] => i = j
<1>1. active \in Seq(Streams) /\ Len(active) \in Nat /\ DOMAIN active = 1..Len(active)
  BY LenProperties DEF StreamsOK
<1>2. CASE kept = <<>>
  <2>1. DOMAIN <<>> = {}
    OBVIOUS
  <2> QED
    BY <1>2, <2>1, EmptySeq DEF ToSet
<1>3. CASE active # <<>> /\ kept = <<Last(active)>>
  <2>1. Len(active) \in DOMAIN active /\ Last(active) = active[Len(active)] /\ Last(active) \in Streams
    BY <1>1, <1>3, PrimaryTyped DEF Last
  <2> HIDE DEF Last
  <2>2. DOMAIN kept = {1} /\ kept[1] = Last(active) /\ kept \in Seq(Streams)
    BY <1>3, <2>1
  <2> QED
    BY <2>1, <2>2 DEF ToSet
<1>4. CASE active # <<>> /\ kept = Tail(active)
  <2>1. /\ kept \in Seq(Streams) /\ Len(kept) = Len(active) - 1 /\ DOMAIN kept = 1..Len(kept)
        /\ \A i \in 1..Len(kept) : kept[i] = active[i + 1]
    BY <1>1, <1>4, HeadTailProperties, LenProperties
  <2>2. \A i \in DOMAIN kept : i + 1 \in DOMAIN active /\ kept[i] = active[i + 1]
    BY <1>1, <2>1
  <2>3. \A i, j \in DOMAIN kept : i \in Nat /\ j \in Nat /\ (i + 1 = j + 1 => i = j)
    BY <1>1, <2>1
  <2> QED
    BY <2>1, <2>2, <2>3 DEF ToSet, NoneTwice
<1> QED
  BY <1>2, <1>3, <1>4

(* Every step of the player and its threads does one of these.             *)
LEMMA StreamEffect ==
    ASSUME TypeInv, [Next]_vars
    PROVE  SameStreams \/ Opens \/ Adds \/ GivesUp \/ \E kept : Keeps(kept)
<1> USE DEF OthersUnchanged, faderVars, streamVars, SameStreams
<1>1. CASE Stop \/ SetFadeStart \/ FinalizeStop \/ ClearOldStreams \/ PlayInvalid \/ PlayFindsNoFile
           \/ SetPlaying \/ Pause \/ FinalizePause \/ Resume \/ NextSong \/ NextSongDone \/ UnsetFading
  BY <1>1 DEF Stop, StopIgnored, StopStarts, SetFadeStart, FinalizeStop, ClearOldStreams, PlayInvalid,
              PlayFindsNoFile, SetPlaying, Pause, FinalizePause, Resume, NextSong, NextSongDone, UnsetFading
<1>2. CASE PlaySucceeds \/ FullVolume \/ PostRestart \/ KillFader \/ JoinFader \/ Destroy
           \/ AbortStep \/ CancelStep
  BY <1>2 DEF PlaySucceeds, FullVolume, PostRestart, KillFader, JoinFader, Destroy, AbortStep, CancelStep
<1>3. CASE PlayOpens
  BY <1>3 DEF PlayOpens, Opens, At
<1>4. CASE PlayGivesUp
  BY <1>4 DEF PlayGivesUp, GivesUp, At
<1>5. CASE AddStream
  BY <1>5 DEF AddStream, Adds, At
<1>6. CASE DeleteAll \/ DeleteOld \/ PlayFails
  <2>1. PICK kept : /\ kept = <<>> \/ (active # <<>> /\ (kept = <<Last(active)>> \/ kept = Tail(active)))
                    /\ DeleteStreams(kept) /\ UNCHANGED <<opening, opened>>
    BY <1>6 DEF DeleteAll, DeleteOld, PlayFails
  <2>2. Keeps(kept)
    BY <2>1, KeptStreams DEF Keeps, DeleteStreams, TypeInv, TypeOK
  <2> QED
    BY <2>2
<1>7. CASE OnPlayerEvent \/ OnExitFadeDone \/ \E c \in Commands : Command(c)
  BY <1>7 DEF OnPlayerEvent, OnExitFadeDone, Command
<1>8. CASE Fader
  BY <1>8 DEF Fader, FaderLoop, FaderFindsActive, FaderCatches, FaderAborts, FaderStops, FaderSpawns,
              FaderAttaches, FaderChecks, FaderReads, FaderPostsNext, FaderHasTimeLeft
<1>9. CASE \E s \in Slots : Crossfader(s)
  BY <1>9 DEF Crossfader, XfReturnsEarly, XfEnters, XfFades, XfReturns, XfExits
<1>10. CASE UNCHANGED vars
  BY <1>10 DEF vars
<1> QED
  BY <1>1, <1>2, <1>3, <1>4, <1>5, <1>6, <1>7, <1>8, <1>9, <1>10 DEF Next, Main, Handler, Wait

-----------------------------------------------------------------------------
(* Where Play opens a stream, an attempt to play it is the next step.      *)
LEMMA OpensTries ==
    ASSUME TypeInv, PlayOpens, opened' # opened
    PROVE  todo' # <<>> /\ Head(todo') = "tryPlay"
<1> DEFINE branch == IF FadeEnable THEN <<"beginFade", "setFading">> ELSE <<"fullVolume", "clearOld">>
           play   == <<"tryPlay", "addStream", "setPlaying", "abort", "cancel">>
<1>1. todo' = (play \o branch) \o Tail(todo)
  BY DEF PlayOpens, Become
<1>2. Tail(todo) \in Seq(Steps)
  BY HeadTailProperties DEF PlayOpens, At, TypeInv, TypeOK, MainOK
<1>3. play \in Seq(Steps) /\ play # <<>> /\ Head(play) = "tryPlay" /\ branch \in Seq(Steps)
  <2>1. <<"beginFade", "setFading">> \in Seq(Steps) /\ <<"fullVolume", "clearOld">> \in Seq(Steps)
    BY DEF Steps
  <2>2. branch \in Seq(Steps)
    BY <2>1, Zenon
  <2>3. play \in Seq(Steps) /\ play # <<>> /\ Head(play) = "tryPlay"
    BY DEF Steps
  <2> QED
    BY <2>2, <2>3
<1> HIDE DEF branch, play
<1>4. play \o branch \in Seq(Steps) /\ play \o branch # <<>> /\ Head(play \o branch) = "tryPlay"
  BY <1>3, HeadTailConcat
<1> QED
  BY <1>1, <1>2, <1>4, HeadTailConcat

(* The stream that is open is the business of the steps that come next.    *)
LEMMA OpeningStaysNext ==
    ASSUME TypeInv, OpeningIsNext, [Next]_vars
    PROVE  OpeningIsNext'
<1> SUFFICES ASSUME opening' # NoStream
             PROVE  todo' # <<>> /\ Head(todo') \in Tries \union {"addStream"}
  BY DEF OpeningIsNext
<1>1. CASE opening' # opening
  <2>1. Opens
    BY <1>1, StreamEffect DEF SameStreams, Adds, GivesUp, Keeps
  <2>2. opened' # opened
    BY <2>1 DEF Opens, TypeInv, TypeOK, StreamsOK
  <2>3. PlayOpens
    <3> USE DEF OthersUnchanged, faderVars, streamVars
    <3>1. CASE Handler
      BY <2>2, <3>1 DEF Handler, Stop, StopIgnored, StopStarts, SetFadeStart, FinalizeStop,
             ClearOldStreams, PlayInvalid, PlayFindsNoFile, SetPlaying, Pause, FinalizePause, Resume,
             NextSong, NextSongDone, UnsetFading, PlaySucceeds, FullVolume, PostRestart, KillFader,
             JoinFader, Destroy, AbortStep, CancelStep, DeleteAll, DeleteOld, PlayFails, PlayGivesUp,
             AddStream
    <3>2. CASE OnPlayerEvent \/ OnExitFadeDone \/ \E c \in Commands : Command(c)
      BY <2>2, <3>2 DEF OnPlayerEvent, OnExitFadeDone, Command
    <3>3. CASE Fader \/ (\E s \in Slots : Crossfader(s)) \/ UNCHANGED vars
      BY <2>2, <3>3 DEF Fader, FaderLoop, FaderFindsActive, FaderCatches, FaderAborts, FaderStops,
             FaderSpawns, FaderAttaches, FaderChecks, FaderReads, FaderPostsNext, FaderHasTimeLeft,
             Crossfader, XfReturnsEarly, XfEnters, XfFades, XfReturns, XfExits, vars
    <3> QED
      BY <3>1, <3>2, <3>3 DEF Next, Main, Wait
  <2> QED
    BY <2>2, <2>3, OpensTries DEF Tries
<1>2. CASE opening' = opening
  <2>1. todo # <<>> /\ Head(todo) \in Tries \union {"addStream"} /\ opening # NoStream
    BY <1>2 DEF OpeningIsNext
  <2>2. CASE todo' = todo
    BY <2>1, <2>2
  <2>3. CASE PlaySucceeds
    <3>1. Head(todo) \in Tries /\ todo' = Tail(todo)
      BY <2>3 DEF PlaySucceeds, At, Proceed, Tries
    <3> QED
      BY <2>1, <3>1, TryNext
  <2>4. CASE PlayFails
    <3>1. PICK step \in {"tryAgain", "deleteNew"} : todo' = <<step>> \o Tail(todo)
      BY <2>4 DEF PlayFails, Become
    <3>2. Tail(todo) \in Seq(Steps)
      BY <2>1, HeadTailProperties DEF TypeInv, TypeOK, MainOK
    <3>3. <<step>> \in Seq(Steps) /\ <<step>> # <<>> /\ Head(<<step>>) = step
      BY DEF Steps
    <3> QED
      BY <3>1, <3>2, <3>3, HeadTailConcat DEF Tries
  <2>5. CASE Handler /\ ~PlaySucceeds /\ ~PlayFails
    <3>1. ~PlayGivesUp /\ ~AddStream
      BY <1>2, <2>1 DEF PlayGivesUp, AddStream
    <3> QED
      BY <2>1, <2>5, <3>1 DEF Handler, At, Tries, Stop, StopIgnored, StopStarts, SetFadeStart, FinalizeStop,
             ClearOldStreams, PlayInvalid, PlayFindsNoFile, PlayOpens, SetPlaying, Pause, FinalizePause,
             Resume, NextSong, NextSongDone, UnsetFading, FullVolume, PostRestart, KillFader,
             JoinFader, Destroy, AbortStep, CancelStep, DeleteAll, DeleteOld
  <2>6. CASE OnPlayerEvent \/ OnExitFadeDone \/ \E c \in Commands : Command(c)
    BY <2>1, <2>6 DEF OnPlayerEvent, OnExitFadeDone, Command, Idle
  <2>7. CASE Fader \/ (\E s \in Slots : Crossfader(s)) \/ UNCHANGED vars
    <3>1. todo' = todo
      BY <2>7 DEF Fader, FaderLoop, FaderFindsActive, FaderCatches, FaderAborts, FaderStops,
             FaderSpawns, FaderAttaches, FaderChecks, FaderReads, FaderPostsNext, FaderHasTimeLeft,
             Crossfader, XfReturnsEarly, XfEnters, XfFades, XfReturns, XfExits, vars, mainVars
    <3> QED
      BY <2>2, <3>1
  <2> QED
    BY <2>2, <2>3, <2>4, <2>5, <2>6, <2>7 DEF Next, Main, Wait
<1> QED
  BY <1>1, <1>2

(* The stream that Play adds or gives up is one that was opened.           *)
LEMMA OpeningIsStream ==
    ASSUME TypeInv, todo # <<>>, Head(todo) \in Tries \union {"addStream"}
    PROVE  opening \in Streams
<1>1. todo \notin Seq(Calm)
  BY HeadTailProperties DEF Calm
<1> QED
  BY <1>1 DEF TypeInv, OpeningOK

(* The array after a stream was appended.                                  *)
LEMMA AppendedStreams ==
    ASSUME StreamsOK, NEW x \in Streams
    PROVE  /\ ToSet(Append(active, x)) = ToSet(active) \union {x}
           /\ NoneTwice /\ x \notin ToSet(active) =>
                \A i, j \in DOMAIN Append(active, x) : Append(active, x)[i] = Append(active, x)[j] => i = j
<1>1. /\ active \in Seq(Streams) /\ Len(active) \in Nat /\ DOMAIN active = 1..Len(active)
  BY LenProperties DEF StreamsOK
<1>2. /\ Append(active, x) \in Seq(Streams) /\ Len(Append(active, x)) = Len(active) + 1
      /\ \A i \in 1..Len(active) : Append(active, x)[i] = active[i]
      /\ Append(active, x)[Len(active) + 1] = x
  BY <1>1, AppendProperties
<1>3. DOMAIN Append(active, x) = (1..Len(active)) \union {Len(active) + 1}
  BY <1>1, <1>2, LenProperties
<1> QED
  BY <1>1, <1>2, <1>3 DEF ToSet, NoneTwice

(* Every step keeps every stream in its one place.                         *)
LEMMA NextKeepsStreams ==
    ASSUME TypeInv, TypeInv', StreamsInv, [Next]_vars
    PROVE  StreamsInv'
<1>1. OpeningIsNext'
  BY OpeningStaysNext DEF StreamsInv
<1>2. /\ ToSet(active) \subseteq Streams /\ deleted \subseteq Streams
      /\ opened \in Nat /\ NoStream \notin Streams
  BY BoundsAssumption DEF TypeInv, TypeOK, StreamsOK, ToSet, Streams, NoStream
<1> USE DEF StreamsInv
<1>3. CASE SameStreams
  BY <1>1, <1>3 DEF SameStreams, NoneTwice, NoneLost, OnePlace
<1>4. CASE Opens
  <2>1. opening = NoStream
    BY <1>4 DEF Opens, OpeningIsNext, Tries
  <2>2. opened + 1 \in Streams /\ \A n \in Streams : n <= opened + 1 <=> n <= opened \/ n = opened + 1
    BY <1>2, <1>4 DEF Opens, Streams, TypeInv, TypeOK, StreamsOK
  <2>3. ~(opened + 1 <= opened)
    BY <1>2
  <2>4. NoneLost' /\ OnePlace'
    BY <1>2, <1>4, <2>1, <2>2, <2>3 DEF Opens, NoneLost, OnePlace
  <2> QED
    BY <1>1, <1>4, <2>4 DEF Opens, NoneTwice
<1>5. CASE Adds
  <2>1. opening \in Streams
    BY <1>5, OpeningIsStream DEF Adds
  <2>2. ToSet(active') = ToSet(active) \union {opening}
    BY <1>5, <2>1, AppendedStreams DEF Adds, TypeInv, TypeOK
  <2>3. NoneTwice'
    BY <1>5, <2>1, AppendedStreams DEF Adds, TypeInv, TypeOK, NoneTwice, OnePlace
  <2>4. NoneLost' /\ OnePlace'
    BY <1>2, <1>5, <2>1, <2>2 DEF Adds, NoneLost, OnePlace
  <2> QED
    BY <1>1, <2>3, <2>4
<1>6. CASE GivesUp
  <2>1. opening \in Streams
    BY <1>6, OpeningIsStream DEF GivesUp, Tries
  <2> QED
    BY <1>1, <1>2, <1>6, <2>1 DEF GivesUp, NoneTwice, NoneLost, OnePlace
<1>7. CASE \E kept : Keeps(kept)
  BY <1>1, <1>2, <1>7 DEF Keeps, NoneTwice, NoneLost, OnePlace
<1> QED
  BY <1>3, <1>4, <1>5, <1>6, <1>7, StreamEffect

(* So it always holds.                                                     *)
LEMMA StreamsInvariant == Spec => []StreamsInv
<1>1. Init => StreamsInv
  BY BoundsAssumption DEF Init, StreamsInv, OpeningIsNext, NoneTwice, NoneLost, OnePlace, ToSet, Streams, NoStream
<1>2. TypeInv /\ TypeInv' /\ StreamsInv /\ [Next]_vars => StreamsInv'
  BY NextKeepsStreams
<1> QED
  BY <1>1, <1>2, TypeInvariant, PTL DEF Spec

-----------------------------------------------------------------------------
(* Where a stream is decides its stage.                                    *)
Place(n) == IF n \in deleted THEN "deleted" ELSE IF n \in ToSet(active) THEN "active"
            ELSE IF n = opening THEN "opening" ELSE "unopened"

(* No stream is lost.                                                      *)
LEMMA StageIsPlace == StreamsInv /\ opened \in Nat => Stage = [n \in Streams |-> Place(n)]
  BY DEF Stage, Place, StreamsInv, NoneLost, OnePlace, Streams

(* Every step of the player is one of StreamLife, or leaves the stages.    *)
LEMMA NextIsLife ==
    ASSUME TypeInv, StreamsInv, StreamsInv', Stage = [n \in Streams |-> Place(n)],
           Stage' = [n \in Streams |-> Place(n)'], [Next]_vars
    PROVE  [Life!Next]_Stage
<1>1. /\ ToSet(active) \subseteq Streams /\ deleted \subseteq Streams
      /\ opened \in Nat /\ NoStream \notin Streams
  BY BoundsAssumption DEF TypeInv, TypeOK, StreamsOK, ToSet, Streams, NoStream
<1>2. \A n \in Streams : Stage[n] = Place(n) /\ Stage'[n] = Place(n)'
  OBVIOUS
<1> USE DEF StreamsInv
<1>3. CASE SameStreams
  BY <1>3 DEF SameStreams, Place
<1>4. CASE Opens
  <2>1. opening = NoStream
    BY <1>4 DEF Opens, OpeningIsNext, Tries
  <2>2. opened + 1 \in Streams /\ ~(opened + 1 <= opened)
    BY <1>1, <1>4, BoundsAssumption DEF Opens, Streams
  <2>3. opened + 1 \notin deleted /\ opened + 1 \notin ToSet(active)
    BY <2>2 DEF NoneLost
  <2>4. Stage[opened + 1] = "unopened" /\ \A m \in Streams : Stage[m] # "opening"
    BY <1>1, <1>2, <2>1, <2>2, <2>3 DEF Place
  <2>5. Stage' = [Stage EXCEPT ![opened + 1] = "opening"]
    BY <1>1, <1>4, <2>1, <2>2, <2>3 DEF Opens, Place
  <2> QED
    BY <2>2, <2>4, <2>5 DEF Life!Next, Life!Open
<1>5. CASE Adds
  <2>1. opening \in Streams
    BY <1>5, OpeningIsStream DEF Adds
  <2>2. ToSet(active') = ToSet(active) \union {opening}
    BY <1>5, <2>1, AppendedStreams DEF Adds, TypeInv, TypeOK
  <2>3. Stage[opening] = "opening"
    BY <1>2, <2>1 DEF Place, OnePlace
  <2>4. Stage' = [Stage EXCEPT ![opening] = "active"]
    BY <1>1, <1>5, <2>1, <2>2 DEF Adds, Place, OnePlace
  <2> QED
    BY <2>1, <2>3, <2>4 DEF Life!Next, Life!Activate
<1>6. CASE GivesUp
  <2>1. opening \in Streams
    BY <1>6, OpeningIsStream DEF GivesUp, Tries
  <2>2. Stage[opening] = "opening"
    BY <1>2, <2>1 DEF Place, OnePlace
  <2>3. Stage' = [n \in Streams |-> IF n \in {opening} THEN "deleted" ELSE Stage[n]]
    BY <1>1, <1>6, <2>1 DEF GivesUp, Place, OnePlace
  <2>4. Life!Delete({opening})
    BY <2>2, <2>3 DEF Life!Delete
  <2> QED
    BY <2>1, <2>4 DEF Life!Next
<1>7. ASSUME NEW kept, Keeps(kept) PROVE [Life!Next]_Stage
  <2> DEFINE gone == ToSet(active) \ ToSet(kept)
  <2>1. gone \in SUBSET Streams /\ \A n \in gone : Stage[n] = "active"
    BY <1>1, <1>2 DEF Place, OnePlace
  <2>2. Stage' = [n \in Streams |-> IF n \in gone THEN "deleted" ELSE Stage[n]]
    BY <1>1, <1>7, <2>1 DEF Keeps, Place
  <2>3. Life!Delete(gone)
    BY <2>1, <2>2 DEF Life!Delete
  <2> QED
    BY <2>1, <2>3 DEF Life!Next
<1> QED
  BY <1>3, <1>4, <1>5, <1>6, <1>7, StreamEffect

(* Every stream that Play opens is deleted once, after it left             *)
(* m_ActiveStreams, whichever handler, fade or failure deletes it; none is *)
(* lost and none comes back: the player implements StreamLife.             *)
THEOREM StreamsHaveOneLife == Spec => StreamsAreDeletedOnce
<1>1. Init => Life!Init
  <2> SUFFICES ASSUME Init PROVE Stage = [n \in Streams |-> "unopened"]
    BY DEF Life!Init
  <2>1. \A n \in Streams : n > 0 /\ n # NoStream
    BY BoundsAssumption DEF Streams, NoStream
  <2> QED
    BY <2>1 DEF Init, Stage, ToSet
<1>2. TypeInv /\ TypeInv' /\ StreamsInv /\ StreamsInv' /\ [Next]_vars => [Life!Next]_Stage
  <2> SUFFICES ASSUME TypeInv, TypeInv', StreamsInv, StreamsInv', [Next]_vars
               PROVE  [Life!Next]_Stage
    OBVIOUS
  <2>1. opened \in Nat /\ opened' \in Nat
    BY DEF TypeInv, TypeOK, StreamsOK
  <2>2. Stage = [n \in Streams |-> Place(n)]
    BY <2>1, StageIsPlace
  <2>3. Stage' = [n \in Streams |-> Place(n)']
    BY <2>1 DEF Stage, Place, StreamsInv, NoneLost, OnePlace, Streams
  <2> QED
    BY <2>2, <2>3, NextIsLife
<1> QED
  BY <1>1, <1>2, TypeInvariant, StreamsInvariant, PTL DEF Spec, StreamsAreDeletedOnce, Life!Spec
=============================================================================
