--------------------------- MODULE PlayerEventProofs ---------------------------
(***************************************************************************)
(* Proofs about what the threads of MusikPlayer tell the GUI thread: one   *)
(* NEXT_SONG at a time, volumes that a fade leaves where it should, and    *)
(* old streams that are gone once everything has settled.                  *)
(***************************************************************************)
EXTENDS PlayerStreamProofs

-----------------------------------------------------------------------------
(* What a handler still has to do.  The end of NextSong, "nextDone", comes *)
(* from the event alone and stays the last step; with fades enabled Play   *)
(* never sets a volume itself.                                             *)
Fresh == {step \in Steps : step # "nextDone" /\ (FadeEnable => step # "fullVolume")}

Orderly(q) ==
    \A i \in 1..Len(q) : /\ FadeEnable => q[i] # "fullVolume"
                         /\ q[i] = "nextDone" => i = Len(q)
InWork(q) == \E i \in 1..Len(q) : q[i] = "nextDone"

(* Fresh steps are orderly.                                                *)
LEMMA FreshIsOrderly == ASSUME NEW s \in Seq(Fresh) PROVE Orderly(s) /\ ~InWork(s) /\ s \in Seq(Steps)
<1>1. \A i \in 1..Len(s) : s[i] \in Fresh
  BY ElementOfSeq
<1>2. s \in Seq(Steps)
  BY SeqMonotonic DEF Fresh
<1> QED
  BY <1>1, <1>2 DEF Orderly, InWork, Fresh

(* So are fresh steps before orderly ones.                                 *)
LEMMA FreshBefore ==
    ASSUME NEW s \in Seq(Fresh), NEW q \in Seq(Steps), Orderly(q)
    PROVE  Orderly(s \o q) /\ (InWork(s \o q) => InWork(q))
<1>1. s \in Seq(Steps) /\ \A i \in 1..Len(s) : s[i] \in Fresh
  BY FreshIsOrderly, ElementOfSeq
<1>2. /\ Len(s) \in Nat /\ Len(q) \in Nat /\ Len(s \o q) = Len(s) + Len(q)
      /\ \A i \in 1 .. Len(s) + Len(q) : (s \o q)[i] = IF i <= Len(s) THEN s[i] ELSE q[i - Len(s)]
  BY <1>1, ConcatProperties, LenProperties
<1>3. ASSUME NEW i \in 1..Len(s \o q), i > Len(s)
      PROVE  i - Len(s) \in 1..Len(q) /\ (s \o q)[i] = q[i - Len(s)]
             /\ (i - Len(s) = Len(q) => i = Len(s \o q))
  BY <1>2, <1>3
<1>4. ASSUME NEW i \in 1..Len(s \o q), ~(i > Len(s)) PROVE (s \o q)[i] \in Fresh
  BY <1>1, <1>2, <1>4
<1> QED
  BY <1>3, <1>4 DEF Orderly, InWork, Fresh

(* A suffix of orderly steps is orderly.                                   *)
LEMMA OrderlySuffix ==
    ASSUME NEW q \in Seq(Steps), q # <<>>, Orderly(q)
    PROVE  /\ Tail(q) \in Seq(Steps) /\ Orderly(Tail(q)) /\ (InWork(Tail(q)) => InWork(q))
           /\ Head(q) = "nextDone" => ~InWork(Tail(q))
           /\ SubSeq(q, 8, Len(q)) \in Seq(Steps) /\ Orderly(SubSeq(q, 8, Len(q)))
           /\ InWork(SubSeq(q, 8, Len(q))) => InWork(q)
<1>1. /\ Tail(q) \in Seq(Steps) /\ Len(q) \in Nat /\ Len(Tail(q)) = Len(q) - 1
      /\ Head(q) = q[1] /\ \A i \in 1..Len(Tail(q)) : Tail(q)[i] = q[i + 1]
  BY HeadTailProperties, LenProperties
<1>2. \A i \in 1..Len(Tail(q)) : i + 1 \in 1..Len(q) /\ (i + 1 = Len(q) => i = Len(Tail(q))) /\ i + 1 # 1
  <2> DEFINE m == Len(Tail(q))
  <2>1. m = Len(q) - 1 /\ Len(q) \in Nat
    BY <1>1
  <2> HIDE DEF m
  <2>2. \A i \in 1..m : i + 1 \in 1..Len(q) /\ (i + 1 = Len(q) => i = m) /\ i + 1 # 1
    BY <2>1
  <2> QED
    BY <2>2 DEF m
<1>3. Orderly(Tail(q)) /\ (InWork(Tail(q)) => InWork(q))
  BY <1>1, <1>2 DEF Orderly, InWork
<1>4. ASSUME Head(q) = "nextDone" PROVE ~InWork(Tail(q))
  <2>1. Len(q) > 0
    BY <1>1, EmptySeq
  <2>2. Len(q) = 1
    <3>1. 1 \in 1..Len(q) /\ q[1] = "nextDone"
      BY <1>1, <1>4, <2>1
    <3> QED
      BY <3>1 DEF Orderly
  <2> QED
    BY <1>1, <2>2 DEF InWork
<1> DEFINE r == SubSeq(q, 8, Len(q))
           n == IF 8 <= Len(q) THEN Len(q) - 7 ELSE 0
<1>5. \A i \in 8..Len(q) : q[i] \in Steps
  BY <1>1, ElementOfSeq
<1>6. r \in Seq(Steps) /\ Len(r) = n /\ \A i \in 1..n : r[i] = q[7 + i]
  <2>1. /\ r \in Seq(Steps) /\ Len(r) = IF 8 <= Len(q) THEN Len(q) - 8 + 1 ELSE 0
        /\ \A i \in 1 .. Len(q) - 8 + 1 : r[i] = q[8 + i - 1]
    BY <1>1, <1>5, SubSeqProperties
  <2> QED
    BY <1>1, <2>1
<1>7. n = 0 \/ n = Len(q) - 7
  OBVIOUS
<1> HIDE DEF r, n
<1>8. Orderly(r) /\ (InWork(r) => InWork(q))
  <2>1. \A i \in 1..n : 7 + i \in 1..Len(q) /\ (7 + i = Len(q) => i = n)
    <3>1. Len(q) \in Nat
      BY <1>1
    <3>2. CASE n = 0
      BY <3>2
    <3>3. CASE n = Len(q) - 7
      BY <3>1, <3>3
    <3> QED
      BY <1>7, <3>2, <3>3
  <2> QED
    BY <1>6, <2>1 DEF Orderly, InWork
<1> QED
  BY <1>1, <1>3, <1>4, <1>6, <1>8 DEF r

(* Fresh steps before a suffix of what a handler has to do.                *)
LEMMA FreshThenRest ==
    ASSUME NEW q \in Seq(Steps), q # <<>>, Orderly(q), NEW s \in Seq(Fresh),
           NEW rest \in {Tail(q), SubSeq(q, 8, Len(q))}
    PROVE  Orderly(s \o rest) /\ (InWork(s \o rest) => InWork(q))
<1>1. /\ Tail(q) \in Seq(Steps) /\ Orderly(Tail(q))
      /\ SubSeq(q, 8, Len(q)) \in Seq(Steps) /\ Orderly(SubSeq(q, 8, Len(q)))
      /\ InWork(Tail(q)) \/ InWork(SubSeq(q, 8, Len(q))) => InWork(q)
  BY OrderlySuffix
<1>2. rest \in Seq(Steps) /\ Orderly(rest) /\ (InWork(rest) => InWork(q))
  <2>1. CASE rest = Tail(q)
    BY <1>1, <2>1
  <2>2. CASE rest = SubSeq(q, 8, Len(q))
    BY <1>1, <2>2
  <2> QED
    BY <2>1, <2>2
<1> QED
  BY <1>2, FreshBefore

-----------------------------------------------------------------------------
(* What handlers start with is fresh, but for the NEXT_SONG event.         *)
LEMMA FadeCompleteFresh == ASSUME NEW e \in Events PROVE FadeCompleteSteps(e) \in Seq(Fresh)
<1> DEFINE final == CASE e.type \in {"stop", "exit"} -> <<"finalizeStop", "deleteAll">>
                      [] e.type = "pause"            -> <<"finalizePause">>
                      [] OTHER                       -> <<>>
           clear == IF e.aborted THEN <<>> ELSE <<"clearOld">>
<1>1. /\ <<"finalizeStop", "deleteAll">> \in Seq(Fresh) /\ <<"finalizePause">> \in Seq(Fresh)
      /\ <<>> \in Seq(Fresh) /\ <<"unsetFading">> \in Seq(Fresh) /\ <<"clearOld">> \in Seq(Fresh)
  BY DEF Fresh, Steps
<1>2. final \in Seq(Fresh)
  BY <1>1
<1>3. clear \in Seq(Fresh)
  BY <1>1
<1>4. FadeCompleteSteps(e) = (final \o <<"unsetFading">>) \o clear
  BY DEF FadeCompleteSteps
<1> HIDE DEF final, clear
<1> QED
  BY <1>1, <1>2, <1>3, <1>4, ConcatProperties

(* OnClose and the commands.                                               *)
LEMMA CommandFresh ==
    /\ CloseSteps \in Seq(Fresh)
    /\ \A c \in RemoteCommands \union WindowCommands : CommandSteps(c) \in Seq(Fresh)
<1>1. CloseSteps \in Seq(Fresh)
  <2>1. <<"stopExit">> \in Seq(Fresh) /\ <<"killFader", "joinFader", "stopExit", "destroy">> \in Seq(Fresh)
    BY DEF Fresh, Steps
  <2> QED
    BY <2>1 DEF CloseSteps, Shutdown
<1>2. ASSUME NEW c \in RemoteCommands \union WindowCommands PROVE CommandSteps(c) \in Seq(Fresh)
  <2>1. /\ <<>> \in Seq(Fresh) /\ <<"play">> \in Seq(Fresh) /\ <<"playSeek">> \in Seq(Fresh)
        /\ <<"resume">> \in Seq(Fresh) /\ <<"pause">> \in Seq(Fresh) /\ <<"next">> \in Seq(Fresh)
        /\ <<"stop">> \in Seq(Fresh) /\ <<"cancel">> \in Seq(Fresh)
        /\ <<"clearOld", "play">> \in Seq(Fresh) /\ <<"stopNow", "postRestart">> \in Seq(Fresh)
    BY DEF Fresh, Steps
  <2>2. CASE c \in {"playItem", "addAndPlay", "nextSong", "pauseWeb", "resumeWeb", "stopSong",
                    "setVolume", "addSongs", "close"}
    BY <1>1, <2>1, <2>2 DEF CommandSteps
  <2>3. CASE c \in {"playPause", "replaceList", "seek", "clearList", "removeCurrent"}
    BY <2>1, <2>3 DEF CommandSteps
  <2> QED
    BY <2>2, <2>3 DEF RemoteCommands, WindowCommands
<1> QED
  BY <1>1, <1>2

(* What any step leaves to do: the same, the rest, fresh steps before the  *)
(* rest or before what follows Play, or what an idle player takes up.      *)
TakesUpNext == /\ todo = <<>> /\ todo' = <<"next", "nextDone">>
               /\ events # <<>> /\ Head(events).name = "nextSong"
               /\ events' = Tail(events)

LEMMA WhatIsLeft ==
    ASSUME TypeInv, [Next]_vars
    PROVE  \/ todo' = todo
           \/ todo = <<>> /\ todo' \in Seq(Fresh)
           \/ TakesUpNext
           \/ todo # <<>> /\ todo' = Tail(todo)
           \/ todo # <<>> /\ \E s \in Seq(Fresh) :
                                todo' = s \o Tail(todo) \/ todo' = s \o SubSeq(todo, 8, Len(todo))
<1>1. /\ <<>> \in Seq(Fresh) /\ <<"finalizeStop", "deleteAll">> \in Seq(Fresh)
      /\ <<"beginFade", "setFading">> \in Seq(Fresh) /\ <<"abort", "cancel", "deleteOld">> \in Seq(Fresh)
      /\ <<"stop">> \in Seq(Fresh) /\ <<"stopNow">> \in Seq(Fresh) /\ <<"play">> \in Seq(Fresh)
      /\ <<"finalizePause">> \in Seq(Fresh) /\ <<"tryAgain">> \in Seq(Fresh) /\ <<"deleteNew">> \in Seq(Fresh)
  BY DEF Fresh, Steps
<1>2. CASE Stop
  BY <1>2, <1>1 DEF Stop, StopIgnored, StopStarts, At, Proceed, Become
<1>3. CASE SetFadeStart \/ FinalizeStop \/ PlayInvalid \/ SetPlaying \/ FinalizePause
           \/ NextSongDone \/ UnsetFading \/ PlaySucceeds
  BY <1>3 DEF SetFadeStart, FinalizeStop, PlayInvalid, SetPlaying, FinalizePause, NextSongDone,
              UnsetFading, PlaySucceeds, At, Proceed
<1>4. CASE DeleteAll \/ DeleteOld \/ FullVolume \/ AbortStep \/ CancelStep \/ AddStream
           \/ PostRestart \/ KillFader \/ JoinFader \/ Destroy
  BY <1>4 DEF DeleteAll, DeleteOld, FullVolume, AbortStep, CancelStep, AddStream, PostRestart,
              KillFader, JoinFader, Destroy, At, Proceed
<1>5. CASE ClearOldStreams \/ PlayFindsNoFile \/ Pause \/ Resume
  BY <1>5, <1>1 DEF ClearOldStreams, PlayFindsNoFile, Pause, Resume, At, Become
<1>6. CASE NextSong \/ PlayFails
  BY <1>6, <1>1 DEF NextSong, PlayFails, At, Proceed, Become
<1>7. CASE PlayGivesUp
  <2>1. StepsAfterPlay + 2 = 8
    BY DEF StepsAfterPlay
  <2>2. todo # <<>> /\ todo' = <<"stopNow">> \o SubSeq(todo, 8, Len(todo))
    BY <1>7, <2>1 DEF PlayGivesUp, At
  <2> QED
    BY <1>1, <2>2
<1>8. CASE PlayOpens
  <2> DEFINE branch == IF FadeEnable THEN <<"beginFade", "setFading">> ELSE <<"fullVolume", "clearOld">>
             play   == <<"tryPlay", "addStream", "setPlaying", "abort", "cancel">>
  <2>1. todo # <<>> /\ (todo' = <<"stopNow">> \o Tail(todo) \/ todo' = (play \o branch) \o Tail(todo))
    BY <1>8 DEF PlayOpens, At, Become
  <2>2. branch \in Seq(Fresh)
    <3>1. CASE FadeEnable
      BY <3>1 DEF Fresh, Steps
    <3>2. CASE ~FadeEnable
      BY <3>2 DEF Fresh, Steps
    <3> QED
      BY <3>1, <3>2
  <2>3. play \in Seq(Fresh)
    BY DEF Fresh, Steps
  <2>4. play \o branch \in Seq(Fresh)
    <3> HIDE DEF play, branch
    <3> QED
      BY <2>2, <2>3, ConcatProperties
  <2> HIDE DEF play, branch
  <2> QED
    BY <1>1, <2>1, <2>4
<1>9. CASE OnPlayerEvent
  <2>1. events # <<>> /\ Head(events) \in Events
    BY <1>9 DEF OnPlayerEvent, TypeInv, TypeOK, EventsOK
  <2>2. FadeCompleteSteps(Head(events)) \in Seq(Fresh)
    BY <2>1, FadeCompleteFresh
  <2> QED
    BY <1>1, <1>9, <2>1, <2>2 DEF OnPlayerEvent, Idle, Events, TakesUpNext
<1>10. CASE OnExitFadeDone
  BY <1>10, CommandFresh DEF OnExitFadeDone, Idle
<1>11. CASE \E c \in Commands : Command(c)
  BY <1>11, CommandFresh, CommandsAssumption DEF Command, Idle
<1>12. CASE Fader
  BY <1>12 DEF Fader, FaderLoop, FaderFindsActive, FaderCatches, FaderAborts, FaderStops, FaderSpawns,
               FaderAttaches, FaderChecks, FaderReads, FaderPostsNext, FaderHasTimeLeft, mainVars
<1>13. CASE \E s \in Slots : Crossfader(s)
  BY <1>13 DEF Crossfader, XfReturnsEarly, XfEnters, XfFades, XfReturns, XfExits, mainVars
<1>14. CASE UNCHANGED vars
  BY <1>14 DEF vars, mainVars
<1> QED
  BY <1>2, <1>3, <1>4, <1>5, <1>6, <1>7, <1>8, <1>9, <1>10, <1>11, <1>12, <1>13, <1>14
     DEF Next, Main, Handler, Wait

(* So the steps of the GUI thread are always orderly.                      *)
LEMMA OrderlyInvariant == Spec => []Orderly(todo)
<1>1. Init => Orderly(todo)
  BY DEF Init, Orderly
<1>2. TypeInv /\ Orderly(todo) /\ [Next]_vars => Orderly(todo)'
  <2> SUFFICES ASSUME TypeInv, Orderly(todo), [Next]_vars PROVE Orderly(todo')
    BY DEF Orderly
  <2>1. todo \in Seq(Steps)
    BY DEF TypeInv, TypeOK, MainOK
  <2>2. CASE todo' = todo
    BY <2>2
  <2>3. CASE todo' \in Seq(Fresh)
    BY <2>3, FreshIsOrderly
  <2>4. CASE TakesUpNext
    <3>1. Len(todo') = 2 /\ todo'[1] = "next" /\ todo'[2] = "nextDone"
      BY <2>4 DEF TakesUpNext
    <3>2. 1..2 = {1, 2}
      OBVIOUS
    <3> QED
      BY <3>1, <3>2 DEF Orderly
  <2>5. CASE todo # <<>> /\ todo' = Tail(todo)
    BY <2>1, <2>5, OrderlySuffix
  <2>6. CASE /\ todo # <<>>
             /\ \E s \in Seq(Fresh) : todo' = s \o Tail(todo) \/ todo' = s \o SubSeq(todo, 8, Len(todo))
    <3>1. PICK s \in Seq(Fresh), rest \in {Tail(todo), SubSeq(todo, 8, Len(todo))} : todo' = s \o rest
      BY <2>6
    <3> QED
      BY <2>1, <2>6, <3>1, FreshThenRest
  <2> QED
    BY <2>2, <2>3, <2>4, <2>5, <2>6, WhatIsLeft
<1> QED
  BY <1>1, <1>2, TypeInvariant, PTL DEF Spec

-----------------------------------------------------------------------------
(* One NEXT_SONG at a time: m_StartingNext is set as long as one is        *)
(* pending or in work, and the fader asks for the time left only while it  *)
(* is not.  Nobody but the fader sets the flag, so it cannot be set        *)
(* between the check and the question.                                     *)
Pending(i) == i \in DOMAIN events /\ events[i].name = "nextSong"

NextInv ==
    /\ \A i, j \in DOMAIN events : Pending(i) /\ Pending(j) => i = j
    /\ InWork(todo) => \A i \in DOMAIN events : ~Pending(i)
    /\ InWork(todo) \/ (\E i \in DOMAIN events : Pending(i)) => startingNext
    /\ faderPc \in {"read", "ask"} => ~startingNext

(* Who may change m_StartingNext and the pending events, and how.          *)
PostsOther == \/ events' = Append(events, Event("restart"))
              \/ \E s \in Slots : events' = Append(events, FadeComplete(xf[s].type, xf[s].aborted))
FaderStep  == \/ faderPc' = faderPc \/ faderPc' \notin {"read", "ask"}
              \/ faderPc' = "read" /\ ~startingNext
              \/ faderPc' = "ask" /\ faderPc = "read"

(* A step that posts something else leaves the pending ones alone.         *)
LEMMA OtherEvents ==
    ASSUME EventsOK, PostsOther
    PROVE  \A i \in DOMAIN events' : Pending(i)' => i \in DOMAIN events /\ Pending(i)
<1>1. PICK e : e.name # "nextSong" /\ events' = Append(events, e)
  BY DEF PostsOther, Event, FadeComplete
<1>2. /\ Len(events) \in Nat /\ DOMAIN events = 1..Len(events)
      /\ DOMAIN Append(events, e) = 1..(Len(events) + 1)
      /\ \A i \in 1..Len(events) : Append(events, e)[i] = events[i]
      /\ Append(events, e)[Len(events) + 1] = e
  BY LenProperties DEF EventsOK
<1> QED
  BY <1>1, <1>2 DEF Pending

(* The first event is taken, the others move up.                           *)
LEMMA EventTaken ==
    ASSUME EventsOK, events # <<>>, events' = Tail(events)
    PROVE  /\ \A i \in DOMAIN events' : i \in Nat /\ i + 1 \in DOMAIN events /\ i + 1 # 1
                                        /\ (Pending(i)' <=> Pending(i + 1))
           /\ 1 \in DOMAIN events /\ Head(events) = events[1]
<1>1. /\ Len(events) \in Nat /\ Len(events) > 0 /\ DOMAIN events = 1..Len(events)
      /\ Len(events') = Len(events) - 1 /\ DOMAIN events' = 1..Len(events')
      /\ \A i \in 1..Len(events') : events'[i] = events[i + 1]
      /\ Head(events) = events[1]
  BY HeadTailProperties, LenProperties, EmptySeq DEF EventsOK
<1>2. \A i \in DOMAIN events' : i \in Nat /\ i + 1 \in DOMAIN events /\ i + 1 # 1
  BY <1>1
<1> QED
  BY <1>1, <1>2 DEF Pending

(* Every step does one of these.                                           *)
LEMMA EventEffect ==
    ASSUME [Next]_vars
    PROVE  \/ FaderPostsNext
           \/ NextSongDone /\ UNCHANGED <<events, faderPc>>
           \/ OnPlayerEvent /\ UNCHANGED <<startingNext, faderPc>>
           \/ startingNext' = startingNext /\ FaderStep /\ (events' = events \/ PostsOther)
<1> USE DEF OthersUnchanged, flagVars, eventVars, faderVars, FaderStep
<1>1. CASE Stop \/ SetFadeStart \/ FinalizeStop \/ ClearOldStreams \/ PlayInvalid \/ PlayFindsNoFile
           \/ SetPlaying \/ Pause \/ FinalizePause \/ Resume \/ NextSong \/ NextSongDone \/ UnsetFading
  BY <1>1 DEF Stop, StopIgnored, StopStarts, SetFadeStart, FinalizeStop, ClearOldStreams, PlayInvalid,
              PlayFindsNoFile, SetPlaying, Pause, FinalizePause, Resume, NextSong, NextSongDone, UnsetFading
<1>2. CASE PlayOpens \/ PlaySucceeds \/ PlayFails \/ PlayGivesUp \/ AddStream \/ FullVolume
           \/ KillFader \/ JoinFader \/ Destroy \/ DeleteAll \/ DeleteOld \/ AbortStep \/ CancelStep
  BY <1>2 DEF PlayOpens, PlaySucceeds, PlayFails, PlayGivesUp, AddStream, FullVolume, KillFader,
              JoinFader, Destroy, DeleteAll, DeleteOld, AbortStep, CancelStep
<1>3. CASE PostRestart
  BY <1>3 DEF PostRestart, PostsOther
<1>4. CASE OnPlayerEvent \/ OnExitFadeDone \/ \E c \in Commands : Command(c)
  BY <1>4 DEF OnPlayerEvent, OnExitFadeDone, Command
<1>5. CASE Fader
  BY <1>5 DEF Fader, FaderLoop, FaderFindsActive, FaderCatches, FaderAborts, FaderStops,
              FaderSpawns, FaderAttaches, FaderChecks, FaderReads, FaderHasTimeLeft
<1>6. CASE \E s \in Slots : Crossfader(s)
  BY <1>6 DEF PostsOther, Crossfader, XfReturnsEarly, XfEnters, XfFades, XfReturns, XfExits
<1>7. CASE UNCHANGED vars
  BY <1>7 DEF vars
<1> QED
  BY <1>1, <1>2, <1>3, <1>4, <1>5, <1>6, <1>7 DEF Next, Main, Handler, Wait

(* NextInv is inductive, given that "nextDone" ends a handler.             *)
LEMMA NextKeepsNext ==
    ASSUME TypeInv, Orderly(todo), NextInv, [Next]_vars
    PROVE  NextInv'
<1>1. EventsOK /\ FlagsOK /\ todo \in Seq(Steps)
  BY DEF TypeInv, TypeOK, MainOK
<1>2. ~TakesUpNext /\ InWork(todo') => InWork(todo)
  <2>1. CASE todo' = todo
    BY <2>1
  <2>2. CASE todo' \in Seq(Fresh)
    BY <2>2, FreshIsOrderly
  <2>3. CASE todo # <<>> /\ todo' = Tail(todo)
    BY <1>1, <2>3, OrderlySuffix
  <2>4. CASE /\ todo # <<>>
             /\ \E s \in Seq(Fresh) : todo' = s \o Tail(todo) \/ todo' = s \o SubSeq(todo, 8, Len(todo))
    <3>1. PICK s \in Seq(Fresh), rest \in {Tail(todo), SubSeq(todo, 8, Len(todo))} : todo' = s \o rest
      BY <2>4
    <3> QED
      BY <1>1, <2>4, <3>1, FreshThenRest
  <2> QED
    BY <2>1, <2>2, <2>3, <2>4, WhatIsLeft
<1>3. CASE FaderPostsNext
  <2>1. /\ ~startingNext /\ startingNext' = TRUE /\ todo' = todo /\ faderPc' = "loop"
        /\ events' = Append(events, Event("nextSong"))
    BY <1>3 DEF FaderPostsNext, NextInv
  <2>2. ~InWork(todo) /\ \A i \in DOMAIN events : ~Pending(i)
    BY <2>1 DEF NextInv
  <2>3. /\ Len(events) \in Nat /\ DOMAIN events = 1..Len(events)
        /\ DOMAIN events' = 1..(Len(events) + 1)
        /\ \A i \in 1..Len(events) : events'[i] = events[i]
    BY <1>1, <2>1, LenProperties DEF EventsOK
  <2>4. \A i \in DOMAIN events' : Pending(i)' => i = Len(events) + 1
    BY <2>2, <2>3 DEF Pending
  <2> QED
    BY <2>1, <2>2, <2>4 DEF NextInv
<1>4. CASE NextSongDone /\ UNCHANGED <<events, faderPc>>
  <2>1. /\ todo # <<>> /\ Head(todo) = "nextDone" /\ todo' = Tail(todo) /\ startingNext' = FALSE
    BY <1>4 DEF NextSongDone, At, Proceed
  <2>2. InWork(todo) /\ ~InWork(todo')
    <3>1. Len(todo) \in Nat /\ Len(todo) > 0 /\ todo[1] = "nextDone"
      BY <1>1, <2>1, EmptySeq, LenProperties
    <3>2. InWork(todo)
      BY <3>1 DEF InWork
    <3> QED
      BY <1>1, <2>1, <3>2, OrderlySuffix
  <2>3. \A i \in DOMAIN events : ~Pending(i)
    BY <2>2 DEF NextInv
  <2> QED
    BY <1>4, <2>1, <2>2, <2>3 DEF NextInv, Pending
<1>5. CASE OnPlayerEvent /\ UNCHANGED <<startingNext, faderPc>>
  <2>1. events # <<>> /\ events' = Tail(events) /\ todo = <<>>
    BY <1>5 DEF OnPlayerEvent, Idle
  <2>2. /\ \A i \in DOMAIN events' : i \in Nat /\ i + 1 \in DOMAIN events /\ i + 1 # 1
                                     /\ (Pending(i)' <=> Pending(i + 1))
        /\ 1 \in DOMAIN events /\ Head(events) = events[1]
    BY <1>1, <2>1, EventTaken
  <2>3. ASSUME NEW i \in DOMAIN events', NEW j \in DOMAIN events', Pending(i)', Pending(j)' PROVE i = j
    <3>1. i + 1 = j + 1
      BY <2>2, <2>3 DEF NextInv
    <3> QED
      BY <2>2, <3>1
  <2>4. ~InWork(todo)
    BY <2>1 DEF InWork
  <2>5. InWork(todo') => Pending(1) /\ \A i \in DOMAIN events' : ~Pending(i)'
    <3>1. InWork(todo') => Pending(1)
      BY <1>2, <2>2, <2>4 DEF TakesUpNext, Pending
    <3> QED
      BY <2>2, <3>1 DEF NextInv
  <2>6. InWork(todo') \/ (\E i \in DOMAIN events' : Pending(i)') => startingNext
    BY <2>2, <2>5 DEF NextInv
  <2> QED
    BY <1>5, <2>3, <2>5, <2>6 DEF NextInv
<1>6. CASE startingNext' = startingNext /\ FaderStep /\ (events' = events \/ PostsOther)
  <2>1. ~TakesUpNext
    <3>1. CASE events' = events
      BY <1>1, <3>1, HeadTailProperties, LenProperties, EmptySeq DEF TakesUpNext, EventsOK
    <3>2. CASE PostsOther
      BY <1>1, <3>2, HeadTailProperties, AppendProperties, EmptySeq, LenProperties DEF TakesUpNext, EventsOK, PostsOther
    <3> QED
      BY <1>6, <3>1, <3>2
  <2>2. InWork(todo') => InWork(todo)
    BY <1>2, <2>1
  <2>3. \A i \in DOMAIN events' : Pending(i)' => i \in DOMAIN events /\ Pending(i)
    BY <1>1, <1>6, OtherEvents DEF Pending
  <2>4. faderPc' \in {"read", "ask"} => ~startingNext
    BY <1>6 DEF FaderStep, NextInv
  <2> QED
    BY <1>6, <2>2, <2>3, <2>4 DEF NextInv
<1> QED
  BY <1>3, <1>4, <1>5, <1>6, EventEffect

(* The end of a song never skips two songs: at most one NEXT_SONG is       *)
(* pending or in work, whenever the fader looks and whatever the GUI       *)
(* thread does meanwhile.                                                  *)
THEOREM NoSongIsSkipped == Spec => []NextSongOnce
<1>1. Init => NextInv
  BY DEF Init, NextInv, InWork, Pending
<1>2. TypeInv /\ Orderly(todo) /\ NextInv /\ [Next]_vars => NextInv'
  BY NextKeepsNext
<1>3. NextInv => NextSongOnce
  BY DEF NextInv, NextSongOnce, InWork, Contains, Pending
<1> QED
  BY <1>1, <1>2, <1>3, TypeInvariant, OrderlyInvariant, PTL DEF Spec

-----------------------------------------------------------------------------
(* A fade goes by the counts it computed at its start, of an array that    *)
(* the lock keeps as it was; nobody else sets a volume then, because Play  *)
(* does not with fades enabled.                                            *)
Ended(s) ==
    /\ xf[s].type \in {"pause", "stop", "exit"} => \A i \in DOMAIN active : volume[active[i]] = "silent"
    /\ xf[s].type \in {"normal", "seek"} =>
          \A i \in DOMAIN active : volume[active[i]] = IF i = Len(active) THEN "full" ELSE "silent"
    /\ xf[s].type = "resume" => volume[active[1]] = "full"

FadeInv ==
    \A s \in Slots :
        /\ xf[s].pc # "fade" => xf[s].step = 0
        /\ xf[s].pc = "fade" => /\ active # <<>>
                                /\ xf[s].out = FadeOutCount(xf[s].type)
                                /\ xf[s].in = FadeInIndex(xf[s].type)
        /\ xf[s].pc = "fade" /\ xf[s].step = FadeSteps => Ended(s)

(* A fade that goes on as it was, or is over, or has not begun.            *)
FadeKept(s) ==
    \/ xf'[s].pc # "fade" /\ xf'[s].step = 0
    \/ /\ xf[s].pc = "fade" /\ xf'[s].pc = "fade" /\ xf'[s].type = xf[s].type
       /\ xf'[s].step = xf[s].step /\ xf'[s].out = xf[s].out /\ xf'[s].in = xf[s].in

(* What the types of fade do to the array.                                 *)
LEMMA FadeCounts ==
    ASSUME NEW type \in FadeTypes
    PROVE  /\ type \in {"pause", "stop", "exit"} => FadeOutCount(type) = Len(active) /\ FadeInIndex(type) = 0
           /\ type = "resume" => FadeOutCount(type) = 0 /\ FadeInIndex(type) = 1
           /\ type \in {"normal", "seek"} => FadeOutCount(type) = Len(active) - 1
                                             /\ FadeInIndex(type) = Len(active)
  BY DEF FadeOutCount, FadeInIndex, FadeTypes

(* Who may touch volumes, the array and the crossfader.                    *)
Controls == \/ AbortCrossfader \/ FaderSpawns \/ FaderAttaches
            \/ \E t \in Threads : StopFindsNone(t) \/ StopTakes(t) \/ StopJoins(t)

LEMMA VolumeEffect ==
    ASSUME [Next]_vars
    PROVE  \/ FullVolume
           \/ UNCHANGED xfVars /\ (UNCHANGED <<active, volume>> \/ ~Locked)
           \/ UNCHANGED <<active, volume>> /\ Controls
           \/ \E s \in Slots : Crossfader(s)
<1> USE DEF OthersUnchanged, streamVars
<1>1. CASE Stop \/ SetFadeStart \/ FinalizeStop \/ ClearOldStreams \/ PlayInvalid \/ PlayFindsNoFile
           \/ SetPlaying \/ Pause \/ FinalizePause \/ Resume \/ NextSong \/ NextSongDone \/ UnsetFading
  BY <1>1 DEF Stop, StopIgnored, StopStarts, SetFadeStart, FinalizeStop, ClearOldStreams, PlayInvalid,
              PlayFindsNoFile, SetPlaying, Pause, FinalizePause, Resume, NextSong, NextSongDone, UnsetFading
<1>2. CASE PlayOpens \/ PlaySucceeds \/ PlayGivesUp \/ FullVolume \/ PostRestart \/ KillFader
           \/ JoinFader \/ Destroy
  BY <1>2 DEF PlayOpens, PlaySucceeds, PlayGivesUp, PostRestart, KillFader, JoinFader, Destroy
<1>3. CASE DeleteAll \/ DeleteOld \/ PlayFails \/ AddStream
  BY <1>3 DEF DeleteAll, DeleteOld, PlayFails, AddStream, DeleteStreams
<1>4. CASE AbortStep \/ CancelStep
  <2>1. "main" \in Threads
    BY DEF Threads
  <2> QED
    BY <1>4, <2>1 DEF AbortStep, CancelStep, Controls
<1>5. CASE OnPlayerEvent \/ OnExitFadeDone \/ \E c \in Commands : Command(c)
  BY <1>5 DEF OnPlayerEvent, OnExitFadeDone, Command
<1>6. CASE Fader
  <2>1. "fader" \in Threads
    BY DEF Threads
  <2>2. UNCHANGED streamVars
    BY <1>6 DEF Fader, FaderLoop, FaderFindsActive, FaderCatches, FaderAborts, FaderStops, FaderSpawns,
                FaderAttaches, FaderChecks, FaderReads, FaderPostsNext, FaderHasTimeLeft
  <2> QED
    BY <1>6, <2>1, <2>2, FaderEffect DEF Controls
<1>7. CASE UNCHANGED vars
  BY <1>7 DEF vars
<1> QED
  BY <1>1, <1>2, <1>3, <1>4, <1>5, <1>6, <1>7 DEF Next, Main, Handler, Wait

(* Controlling the crossfader leaves its fade as it is.                    *)
LEMMA ControlKeepsFade ==
    ASSUME XfOK, FadeInv, Controls
    PROVE  \A s \in Slots : FadeKept(s)
<1> USE DEF XfOK, XfObjects, FadeInv, FadeKept
<1>1. CASE AbortCrossfader
  <2>1. CASE CrossfaderActive
    BY <1>1, <2>1 DEF AbortCrossfader
  <2>2. CASE ~CrossfaderActive
    BY <1>1, <2>2 DEF AbortCrossfader
  <2> QED
    BY <2>1, <2>2
<1>2. CASE FaderSpawns
  BY <1>2 DEF FaderSpawns, FreeSlots, NoXf
<1>3. CASE FaderAttaches
  BY <1>3 DEF FaderAttaches, NoXf
<1>4. ASSUME NEW t \in Threads, StopFindsNone(t) \/ StopTakes(t) \/ StopJoins(t)
      PROVE  \A s \in Slots : FadeKept(s)
  <2>1. CASE StopFindsNone(t)
    BY <2>1 DEF StopFindsNone, xfVars
  <2>2. CASE StopTakes(t)
    BY <2>2 DEF StopTakes
  <2>3. CASE StopJoins(t)
    BY <2>3 DEF StopJoins, NoXf
  <2> QED
    BY <1>4, <2>1, <2>2, <2>3
<1> QED
  BY <1>1, <1>2, <1>3, <1>4 DEF Controls

(* The last round of a fade brings every stream where the type says.       *)
LEMMA LastRound ==
    ASSUME TypeInv, NoneTwice, FadeInv, NEW s \in Slots, XfFades(s), xf[s].step + 1 = FadeSteps
    PROVE  Ended(s)'
<1>1. /\ xf[s].pc = "fade" /\ active' = active /\ active # <<>>
      /\ xf'[s].type = xf[s].type /\ xf[s].type \in FadeTypes
  BY DEF XfFades, FadeInv, TypeInv, TypeOK, XfOK, XfObjects
<1>2. /\ active \in Seq(Streams) /\ Len(active) \in Nat \ {0} /\ DOMAIN active = 1..Len(active)
      /\ \A i \in DOMAIN active : active[i] \in Streams
  BY <1>1, PrimaryTyped, LenProperties, ElementOfSeq DEF TypeInv, TypeOK, StreamsOK
<1>3. \A i \in DOMAIN active : volume'[active[i]] = FadedVolume(s, i)
  <2> SUFFICES ASSUME NEW i \in DOMAIN active PROVE volume'[active[i]] = FadedVolume(s, i)
    OBVIOUS
  <2>1. (CHOOSE j \in DOMAIN active : active[j] = active[i]) = i
    BY DEF NoneTwice
  <2> QED
    BY <1>2, <2>1 DEF XfFades
<1>4. \A i \in DOMAIN active : FadedVolume(s, i) = IF i = xf[s].in THEN "full"
                                                   ELSE IF i <= xf[s].out THEN "silent" ELSE volume[active[i]]
  BY DEF FadedVolume
<1>5. xf[s].out = FadeOutCount(xf[s].type) /\ xf[s].in = FadeInIndex(xf[s].type)
  BY <1>1 DEF FadeInv
<1>6. CASE xf[s].type \in {"pause", "stop", "exit"}
  <2>1. xf[s].out = Len(active) /\ xf[s].in = 0
    BY <1>1, <1>5, <1>6, FadeCounts
  <2>2. \A i \in DOMAIN active : i # 0 /\ i <= Len(active)
    BY <1>2
  <2> QED
    BY <1>1, <1>3, <1>4, <1>6, <2>1, <2>2 DEF Ended
<1>7. CASE xf[s].type \in {"normal", "seek"}
  <2>1. xf[s].out = Len(active) - 1 /\ xf[s].in = Len(active)
    BY <1>1, <1>5, <1>7, FadeCounts
  <2>2. \A i \in DOMAIN active : i = Len(active) \/ i <= Len(active) - 1
    BY <1>2
  <2>3. \A i \in DOMAIN active : volume'[active[i]] = IF i = Len(active) THEN "full" ELSE "silent"
    BY <1>3, <1>4, <2>1, <2>2
  <2> QED
    BY <1>1, <1>7, <2>3 DEF Ended
<1>8. CASE xf[s].type = "resume"
  <2>1. xf[s].in = 1 /\ 1 \in DOMAIN active
    BY <1>1, <1>2, <1>5, <1>8, FadeCounts
  <2> QED
    BY <1>1, <1>3, <1>4, <1>8, <2>1 DEF Ended
<1> QED
  BY <1>1, <1>6, <1>7, <1>8 DEF FadeTypes

(* The steps of a crossfader keep FadeInv: it is alone with its lock.      *)
LEMMA CrossfaderKeepsFade ==
    ASSUME TypeInv, LockInv, NoneTwice, FadeInv, NEW s \in Slots, Crossfader(s)
    PROVE  FadeInv'
<1>1. /\ xf \in [Slots -> XfObjects] /\ \A t \in Slots : t # NoSlot
  BY DEF TypeInv, TypeOK, XfOK, Slots, NoSlot
<1>2. ASSUME streamsLock = NoSlot PROVE \A t \in Slots : xf[t].pc # "fade"
  BY <1>1, <1>2 DEF LockInv
<1>3. CASE XfReturnsEarly(s)
  <2>1. \A t \in Slots : xf'[t].pc # "fade" /\ xf'[t].step = 0
    BY <1>1, <1>2, <1>3 DEF XfReturnsEarly, FadeInv, XfObjects
  <2> QED
    BY <2>1 DEF FadeInv
<1>4. CASE XfEnters(s)
  <2>1. /\ \A t \in Slots : t # s => xf'[t].pc # "fade" /\ xf'[t].step = 0
        /\ xf'[s].step = 0 /\ xf'[s].type = xf[s].type
        /\ xf'[s].out = FadeOutCount(xf[s].type) /\ xf'[s].in = FadeInIndex(xf[s].type)
    BY <1>1, <1>2, <1>4 DEF XfEnters, FadeInv, XfObjects
  <2>2. active' = active /\ active # <<>> /\ FadeSteps # 0
    BY <1>4, BoundsAssumption DEF XfEnters, streamVars
  <2> QED
    BY <2>1, <2>2 DEF FadeInv, FadeOutCount, FadeInIndex
<1>5. CASE XfFades(s)
  <2>1. streamsLock = s /\ active' = active
    BY <1>5 DEF XfFades, LockInv
  <2>2. \A t \in Slots : t # s => xf'[t].pc # "fade" /\ xf'[t].step = 0
    BY <1>1, <1>5, <2>1 DEF XfFades, LockInv, FadeInv, XfObjects
  <2>3. /\ xf'[s].pc = "fade" /\ xf'[s].type = xf[s].type /\ xf'[s].step = xf[s].step + 1
        /\ xf'[s].out = xf[s].out /\ xf'[s].in = xf[s].in
    BY <1>1, <1>5 DEF XfFades, XfObjects
  <2>4. xf'[s].step = FadeSteps => Ended(s)'
    BY <1>5, <2>3, LastRound
  <2>5. /\ active' # <<>> /\ xf'[s].out = FadeOutCount(xf[s].type) /\ xf'[s].in = FadeInIndex(xf[s].type)
    BY <1>5, <2>1, <2>3 DEF XfFades, FadeInv
  <2> QED
    BY <2>1, <2>2, <2>3, <2>4, <2>5 DEF FadeInv, FadeOutCount, FadeInIndex
<1>6. CASE XfReturns(s) \/ XfExits(s)
  <2>1. \A t \in Slots : FadeKept(t)
    <3>1. CASE XfReturns(s)
      BY <1>1, <3>1 DEF XfReturns, FadeInv, FadeKept, XfObjects
    <3>2. CASE XfExits(s)
      BY <1>1, <3>2 DEF XfExits, NoXf, FadeInv, FadeKept, XfObjects
    <3> QED
      BY <1>6, <3>1, <3>2
  <2>2. UNCHANGED <<active, volume>>
    BY <1>6 DEF XfReturns, XfExits, streamVars
  <2> QED
    BY <2>1, <2>2 DEF FadeKept, FadeInv, Ended, FadeOutCount, FadeInIndex
<1> QED
  BY <1>3, <1>4, <1>5, <1>6 DEF Crossfader

(* With fades enabled no step spoils a fade.                               *)
LEMMA NextKeepsFade ==
    ASSUME FadeEnable, TypeInv, LockInv, NoneTwice, Orderly(todo), FadeInv, [Next]_vars
    PROVE  FadeInv'
<1>1. ~FullVolume
  <2> SUFFICES ASSUME FullVolume PROVE FALSE
    OBVIOUS
  <2>1. todo \in Seq(Steps) /\ todo # <<>> /\ Head(todo) = "fullVolume"
    BY DEF TypeInv, TypeOK, MainOK, FullVolume, At
  <2>2. 1 \in 1..Len(todo) /\ todo[1] = "fullVolume"
    BY <2>1, EmptySeq, LenProperties
  <2> QED
    BY <2>2 DEF Orderly
<1>2. ASSUME UNCHANGED <<active, volume>>, \A s \in Slots : FadeKept(s) PROVE FadeInv'
  BY <1>2 DEF FadeKept, FadeInv, Ended, FadeOutCount, FadeInIndex
<1>3. ASSUME UNCHANGED xfVars, UNCHANGED <<active, volume>> PROVE FadeInv'
  BY <1>3 DEF xfVars, FadeInv, Ended, FadeOutCount, FadeInIndex
<1>4. ASSUME UNCHANGED xfVars, ~Locked PROVE FadeInv'
  <2>1. \A s \in Slots : xf[s].pc # "fade"
    BY <1>4 DEF LockInv, Locked, Slots, NoSlot
  <2> QED
    BY <1>4, <2>1 DEF xfVars, FadeInv
<1>5. ASSUME UNCHANGED <<active, volume>>, Controls PROVE FadeInv'
  BY <1>2, <1>5, ControlKeepsFade DEF TypeInv, TypeOK
<1> QED
  BY <1>1, <1>3, <1>4, <1>5, VolumeEffect, CrossfaderKeepsFade

(* A fade that took all its steps has brought the streams where its type   *)
(* says, whatever the GUI thread does meanwhile, as long as songs are      *)
(* crossfaded.  Without that preference Play sets the full volume without  *)
(* the lock, perhaps after the end of a fade that stops or pauses.         *)
THEOREM FadesEndRight == FadeEnable => (Spec => []FadesReachTheirEnd)
<1> SUFFICES ASSUME FadeEnable PROVE Spec => []FadesReachTheirEnd
  OBVIOUS
<1>1. Init => FadeInv
  BY DEF Init, FadeInv, NoXf
<1>2. TypeInv /\ LockInv /\ StreamsInv /\ Orderly(todo) /\ FadeInv /\ [Next]_vars => FadeInv'
  BY NextKeepsFade DEF StreamsInv
<1>3. TypeInv /\ FadeInv => FadesReachTheirEnd
  <2> SUFFICES ASSUME TypeInv, FadeInv, NEW s \in Slots, xf[s].pc = "fade", xf[s].step = FadeSteps
               PROVE  LET heard == {i \in DOMAIN active : volume[active[i]] # "silent"}
                      IN  CASE xf[s].type \in {"pause", "stop", "exit"} -> heard = {}
                            [] xf[s].type \in {"normal", "seek"} -> heard = {Len(active)} /\ volume[Primary] = "full"
                            [] xf[s].type = "resume"             -> volume[active[1]] = "full"
    BY DEF FadesReachTheirEnd
  <2> DEFINE heard == {i \in DOMAIN active : volume[active[i]] # "silent"}
  <2>1. Ended(s) /\ active # <<>> /\ xf[s].type \in FadeTypes
    BY DEF FadeInv, TypeInv, TypeOK, XfOK, XfObjects
  <2>2. Len(active) \in DOMAIN active /\ Primary = active[Len(active)]
    BY <2>1, PrimaryTyped, LenProperties DEF Primary, Last, TypeInv, TypeOK, StreamsOK
  <2>3. CASE xf[s].type \in {"pause", "stop", "exit"}
    BY <2>1, <2>3 DEF Ended
  <2>4. CASE xf[s].type \in {"normal", "seek"}
    <3>1. \A i \in DOMAIN active : volume[active[i]] = IF i = Len(active) THEN "full" ELSE "silent"
      BY <2>1, <2>4 DEF Ended
    <3>2. heard = {Len(active)} /\ volume[Primary] = "full"
      BY <2>2, <3>1
    <3> QED
      BY <2>4, <3>2
  <2>5. CASE xf[s].type = "resume"
    BY <2>1, <2>5 DEF Ended
  <2> QED
    BY <2>1, <2>3, <2>4, <2>5 DEF FadeTypes
<1> QED
  BY <1>1, <1>2, <1>3, TypeInvariant, LockInvariant, StreamsInvariant, OrderlyInvariant, PTL DEF Spec

-----------------------------------------------------------------------------
(* Old streams do not stay: whoever leaves more than one in the array      *)
(* leaves something behind that will delete them.                          *)

(* The steps that clear old streams, or see to it that a fade will.        *)
Clearing == {"beginFade", "clearOld", "deleteOld", "deleteAll"}
Later(q) == \E i \in 1..Len(q) : q[i] \in Clearing

(* What the steps of a handler follow: a stream is added before some step  *)
(* that clears the others, the GUI thread cancels right after it aborts    *)
(* and clears in the end, and the two halves of FinalizeStop and of Play's *)
(* success are next to each other.                                         *)
Firsts == Tries \union {"finalizeStop"}
LinkedAt(q, i) ==
    /\ q[i] \in {"abort", "addStream"} => \E j \in 1..Len(q) : j > i /\ q[j] \in Clearing
    /\ q[i] = "abort"      => i + 1 \in 1..Len(q) /\ q[i + 1] = "cancel"
    /\ q[i] \in Firsts     => i = 1
    /\ q[i] = "setPlaying" => i = 1 \/ q[i - 1] = "addStream"
    /\ q[i] = "deleteAll"  => i = 1 \/ q[i - 1] = "finalizeStop"
Linked(q) == \A i \in 1..Len(q) : LinkedAt(q, i)

(* Steps that may follow any others.                                       *)
Loose(q) == \A i \in 1..Len(q) : /\ q[i] \notin Firsts
                                 /\ i = 1 => q[i] \notin {"setPlaying", "deleteAll"}

(* Linked steps before loose ones.                                         *)
LEMMA LinkedConcat ==
    ASSUME NEW s \in Seq(Steps), NEW r \in Seq(Steps), Linked(s), Linked(r), Loose(r)
    PROVE  Linked(s \o r) /\ (Later(s) \/ Later(r) => Later(s \o r)) /\ s \o r \in Seq(Steps)
<1> DEFINE q == s \o r
           m == Len(s)
           n == Len(r)
<1>1. /\ q \in Seq(Steps) /\ m \in Nat /\ n \in Nat /\ Len(q) = m + n
      /\ \A i \in 1 .. m + n : q[i] = IF i <= m THEN s[i] ELSE r[i - m]
  BY ConcatProperties, LenProperties
<1> HIDE DEF q
<1>2. \A i \in 1..m : q[i] = s[i] /\ i \in 1..Len(q)
  BY <1>1
<1>3. \A i \in 1..n : q[m + i] = r[i] /\ m + i \in 1..Len(q)
  BY <1>1
<1> HIDE DEF m, n
<1>4. Later(s) \/ Later(r) => Later(q)
  BY <1>2, <1>3 DEF Later, m, n
<1>5. ASSUME NEW i \in 1..m PROVE LinkedAt(q, i)
  <2>1. /\ s[i] \in {"abort", "addStream"} => \E j \in 1..m : j > i /\ s[j] \in Clearing
        /\ s[i] = "abort"      => i + 1 \in 1..m /\ s[i + 1] = "cancel"
        /\ s[i] \in Firsts     => i = 1
        /\ s[i] = "setPlaying" => i = 1 \/ s[i - 1] = "addStream"
        /\ s[i] = "deleteAll"  => i = 1 \/ s[i - 1] = "finalizeStop"
    BY DEF Linked, LinkedAt, m
  <2>2. i # 1 => i - 1 \in 1..m
    BY <1>1
  <2> QED
    BY <1>2, <2>1, <2>2 DEF LinkedAt
<1>6. ASSUME NEW k \in 1..n PROVE LinkedAt(q, m + k)
  <2>1. /\ r[k] \in {"abort", "addStream"} => \E j \in 1..n : j > k /\ r[j] \in Clearing
        /\ r[k] = "abort"      => k + 1 \in 1..n /\ r[k + 1] = "cancel"
        /\ r[k] \notin Firsts
        /\ r[k] = "setPlaying" => k # 1 /\ r[k - 1] = "addStream"
        /\ r[k] = "deleteAll"  => k # 1 /\ r[k - 1] = "finalizeStop"
    BY DEF Linked, LinkedAt, Loose, n
  <2>2. /\ k # 1 => k - 1 \in 1..n /\ m + (k - 1) = m + k - 1
        /\ m + (k + 1) = m + k + 1
        /\ \A j \in 1..n : j > k => m + j > m + k
    BY <1>1
  <2>3. k # 1 => q[m + k - 1] = r[k - 1]
    BY <1>3, <2>2
  <2>4. k + 1 \in 1..n => q[m + k + 1] = r[k + 1] /\ m + k + 1 \in 1..Len(q)
    BY <1>3, <2>2
  <2>5. q[m + k] = r[k]
    BY <1>3
  <2>6. ASSUME NEW j \in 1..n, j > k, r[j] \in Clearing
        PROVE  \E h \in 1..Len(q) : h > m + k /\ q[h] \in Clearing
    BY <1>3, <2>2, <2>6
  <2>7. m \in Nat /\ k \in Nat
    BY <1>1
  <2> QED
    BY <2>1, <2>3, <2>4, <2>5, <2>6, <2>7 DEF LinkedAt
<1>7. \A i \in 1..Len(q) : i \in 1..m \/ \E k \in 1..n : i = m + k
  <2> SUFFICES ASSUME NEW i \in 1..Len(q), i \notin 1..m PROVE \E k \in 1..n : i = m + k
    OBVIOUS
  <2>1. i - m \in 1..n /\ i = m + (i - m)
    BY <1>1
  <2> QED
    BY <2>1
<1>8. Linked(q)
  BY <1>2, <1>5, <1>6, <1>7 DEF Linked
<1> QED
  BY <1>1, <1>4, <1>8 DEF q

(* What is left after some steps of a linked sequence.                     *)
LEMMA LinkedSuffix ==
    ASSUME NEW q \in Seq(Steps), Linked(q), NEW k \in Nat \ {0}, NEW r \in Seq(Steps),
           r # <<>> => Len(q) = k + Len(r), \A i \in 1..Len(r) : r[i] = q[k + i]
    PROVE  Linked(r) /\ \A i \in 1..Len(r) : r[i] \notin Firsts
<1> DEFINE n == Len(r)
<1>1. n \in Nat /\ Len(q) \in Nat
  BY LenProperties
<1>2. r # <<>> \/ n = 0
  BY EmptySeq
<1> HIDE DEF n
<1>3. ASSUME NEW i \in 1..n
      PROVE  /\ k + i \in 1..Len(q) /\ k + i # 1 /\ r[i] = q[k + i] /\ Len(q) = k + n
             /\ i + 1 \in 1..n <=> k + i + 1 \in 1..Len(q)
             /\ i # 1 => i - 1 \in 1..n /\ k + (i - 1) = k + i - 1
             /\ k + (i + 1) = k + i + 1
             /\ \A j \in 1..Len(q) : j > k + i => j - k \in 1..n /\ j - k > i /\ k + (j - k) = j
  <2>1. Len(q) = k + n /\ r[i] = q[k + i]
    BY <1>1, <1>2 DEF n
  <2> QED
    BY <1>1, <2>1
<1>4. ASSUME NEW i \in 1..n
      PROVE  /\ r[i] \in {"abort", "addStream"} => \E j \in 1..n : j > i /\ r[j] \in Clearing
             /\ r[i] = "abort"      => i + 1 \in 1..n /\ r[i + 1] = "cancel"
             /\ r[i] \notin Firsts
             /\ r[i] = "setPlaying" => i = 1 \/ r[i - 1] = "addStream"
             /\ r[i] = "deleteAll"  => i = 1 \/ r[i - 1] = "finalizeStop"
  <2>1. /\ q[k + i] \in {"abort", "addStream"} => \E j \in 1..Len(q) : j > k + i /\ q[j] \in Clearing
        /\ q[k + i] = "abort"      => k + i + 1 \in 1..Len(q) /\ q[k + i + 1] = "cancel"
        /\ q[k + i] \notin Firsts
        /\ q[k + i] = "setPlaying" => q[k + i - 1] = "addStream"
        /\ q[k + i] = "deleteAll"  => q[k + i - 1] = "finalizeStop"
    BY <1>3 DEF Linked, LinkedAt
  <2>2. /\ i # 1 => r[i - 1] = q[k + i - 1]
        /\ i + 1 \in 1..n => r[i + 1] = q[k + i + 1]
        /\ r[i] = q[k + i]
    <3>1. \A j \in 1..n : r[j] = q[k + j]
      BY DEF n
    <3> QED
      BY <1>3, <3>1
  <2>3. ASSUME NEW j \in 1..Len(q), j > k + i, q[j] \in Clearing
        PROVE  \E h \in 1..n : h > i /\ r[h] \in Clearing
    <3>1. j - k \in 1..n /\ j - k > i /\ k + (j - k) = j
      BY <1>3, <2>3
    <3>2. r[j - k] = q[j]
      BY <3>1 DEF n
    <3> QED
      BY <2>3, <3>1, <3>2
  <2> QED
    BY <1>3, <2>1, <2>2, <2>3
<1> QED
  BY <1>4 DEF Linked, LinkedAt, n

(* What is left when the next step has been taken.                         *)
LEMMA TailLinked ==
    ASSUME NEW q \in Seq(Steps), q # <<>>, Linked(q), NEW r, r = Tail(q)
    PROVE  /\ r \in Seq(Steps) /\ Linked(r)
           /\ r # <<>> => /\ Head(r) \notin Firsts
                          /\ Head(r) = "setPlaying" => Head(q) = "addStream"
                          /\ Head(r) = "deleteAll"  => Head(q) = "finalizeStop"
           /\ Head(q) \notin {"addStream", "finalizeStop"} => Loose(r)
           /\ Later(q) /\ Head(q) \notin Clearing => Later(r)
           /\ Head(q) \in {"abort", "addStream"} => Later(r)
           /\ Head(q) = "abort" => r # <<>> /\ Head(r) = "cancel"
<1>1. /\ r \in Seq(Steps) /\ Len(q) \in Nat /\ Len(r) = Len(q) - 1 /\ Len(q) > 0
      /\ Head(q) = q[1] /\ \A i \in 1..Len(r) : r[i] = q[i + 1]
  BY HeadTailProperties, LenProperties, EmptySeq
<1>2. r # <<>> => Len(r) > 0 /\ Head(r) = r[1]
  BY <1>1, EmptySeq
<1>3. Linked(r) /\ \A i \in 1..Len(r) : r[i] \notin Firsts
  <2>1. Len(q) = 1 + Len(r) /\ 1 \in Nat \ {0}
    BY <1>1
  <2>2. \A i \in 1..Len(r) : r[i] = q[1 + i]
    BY <1>1
  <2> QED
    BY <1>1, <2>1, <2>2, LinkedSuffix
<1>4. 1 \in 1..Len(q) /\ LinkedAt(q, 1)
  BY <1>1 DEF Linked
<1>5. Len(r) > 0 => LinkedAt(q, 2) /\ r[1] = q[2] /\ 1 \in 1..Len(r)
  BY <1>1 DEF Linked
<1>6. /\ Len(r) > 0 /\ r[1] = "setPlaying" => q[1] = "addStream"
      /\ Len(r) > 0 /\ r[1] = "deleteAll"  => q[1] = "finalizeStop"
  BY <1>5 DEF LinkedAt
<1>7. ASSUME NEW j \in 1..Len(q), j # 1, q[j] \in Clearing PROVE Later(r)
  <2>1. j - 1 \in 1..Len(r) /\ (j - 1) + 1 = j
    BY <1>1, <1>7
  <2>2. r[j - 1] = q[j]
    BY <1>1, <2>1
  <2> QED
    BY <1>7, <2>1, <2>2 DEF Later
<1>8. Later(q) /\ Head(q) \notin Clearing => Later(r)
  BY <1>1, <1>7 DEF Later
<1>9. Head(q) \in {"abort", "addStream"} => Later(r)
  BY <1>1, <1>4, <1>7 DEF LinkedAt
<1>10. Head(q) = "abort" => r # <<>> /\ Head(r) = "cancel"
  <2> SUFFICES ASSUME Head(q) = "abort" PROVE r # <<>> /\ Head(r) = "cancel"
    OBVIOUS
  <2>1. 2 \in 1..Len(q) /\ q[2] = "cancel"
    BY <1>1, <1>4 DEF LinkedAt
  <2> QED
    BY <1>1, <1>2, <1>5, <2>1, EmptySeq
<1>11. Head(q) \notin {"addStream", "finalizeStop"} => Loose(r)
  BY <1>1, <1>3, <1>5, <1>6 DEF Loose
<1>12. r # <<>> => /\ Head(r) \notin Firsts
                   /\ Head(r) = "setPlaying" => Head(q) = "addStream"
                   /\ Head(r) = "deleteAll"  => Head(q) = "finalizeStop"
  BY <1>1, <1>2, <1>3, <1>5, <1>6
<1>13. r \in Seq(Steps)
  BY <1>1
<1>14. Linked(r) /\ r \in Seq(Steps)
  BY <1>1, <1>3
<1>15. /\ Head(q) \notin {"addStream", "finalizeStop"} => Loose(r)
       /\ Later(q) /\ Head(q) \notin Clearing => Later(r)
  BY <1>8, <1>11
<1>16. /\ Head(q) \in {"abort", "addStream"} => Later(r)
       /\ Head(q) = "abort" => r # <<>> /\ Head(r) = "cancel"
  BY <1>9, <1>10
<1> QED
  BY <1>12, <1>14, <1>15, <1>16

(* What follows a Play that was given up.                                  *)
LEMMA GivenUpLinked ==
    ASSUME TypeInv, todo # <<>>, Head(todo) = "deleteNew", Linked(todo)
    PROVE  LET r == SubSeq(todo, 8, Len(todo)) IN r \in Seq(Steps) /\ Linked(r) /\ Loose(r)
<1> DEFINE r == SubSeq(todo, 8, Len(todo))
           n == IF 8 <= Len(todo) THEN Len(todo) - 7 ELSE 0
<1>1. todo \in Seq(Steps) /\ Len(todo) \in Nat
  BY LenProperties DEF TypeInv, TypeOK, MainOK
<1>2. r \in Seq(Steps) /\ Len(r) = n /\ \A i \in 1..n : r[i] = todo[7 + i]
  <2>1. \A i \in 8..Len(todo) : todo[i] \in Steps
    BY <1>1, ElementOfSeq
  <2>2. /\ r \in Seq(Steps) /\ Len(r) = IF 8 <= Len(todo) THEN Len(todo) - 8 + 1 ELSE 0
        /\ \A i \in 1 .. Len(todo) - 8 + 1 : r[i] = todo[8 + i - 1]
    BY <1>1, <2>1, SubSeqProperties
  <2> QED
    BY <1>1, <2>2
<1> HIDE DEF r
<1>3. r # <<>> => Len(todo) = 7 + Len(r)
  <2>1. r # <<>> => n # 0
    BY <1>2, EmptySeq
  <2> QED
    BY <1>1, <1>2, <2>1
<1>4. Linked(r) /\ \A i \in 1..Len(r) : r[i] \notin Firsts
  <2>1. 7 \in Nat \ {0} /\ \A i \in 1..Len(r) : r[i] = todo[7 + i]
    BY <1>2
  <2> QED
    BY <1>1, <1>2, <1>3, <2>1, LinkedSuffix
<1>5. Len(todo) >= 7 => todo[7] \in Calm
  <2>1. /\ Tail(todo) \in Seq(Steps) /\ Tail(todo) # <<>> /\ Tail(Tail(todo)) \in Seq(Calm)
    BY TryNext DEF Tries
  <2>2. /\ Len(Tail(todo)) = Len(todo) - 1 /\ \A i \in 1..Len(Tail(todo)) : Tail(todo)[i] = todo[i + 1]
    BY <1>1, HeadTailProperties
  <2>3. /\ Len(Tail(Tail(todo))) = Len(Tail(todo)) - 1
        /\ \A i \in 1..Len(Tail(Tail(todo))) : Tail(Tail(todo))[i] = Tail(todo)[i + 1]
    BY <2>1, HeadTailProperties
  <2>4. Len(todo) >= 7 => 5 \in 1..Len(Tail(Tail(todo))) /\ todo[7] = Tail(Tail(todo))[5]
    BY <1>1, <2>2, <2>3
  <2> QED
    BY <2>1, <2>4, ElementOfSeq
<1>6. Len(r) > 0 => /\ 8 \in 1..Len(todo) /\ 7 \in 1..Len(todo) /\ r[1] = todo[8]
                   /\ LinkedAt(todo, 8) /\ LinkedAt(todo, 7)
  BY <1>1, <1>2 DEF Linked
<1>7. Len(r) > 0 => todo[7] \notin {"addStream", "finalizeStop"}
  <2>1. Len(r) > 0 => todo[7] # "finalizeStop"
    BY <1>6 DEF LinkedAt, Firsts
  <2>2. Len(r) > 0 => todo[7] # "addStream"
    BY <1>1, <1>5, <1>6 DEF Calm
  <2> QED
    BY <2>1, <2>2
<1>8. Len(r) > 0 => r[1] \notin {"setPlaying", "deleteAll"}
  BY <1>6, <1>7 DEF LinkedAt
<1> QED
  BY <1>2, <1>4, <1>8 DEF Loose, r

(* Steps that keep no order among themselves.                              *)
Plain == Steps \ (Firsts \union {"abort", "addStream", "setPlaying", "deleteAll"})

LEMMA PlainLinked ==
    ASSUME NEW s \in Seq(Plain)
    PROVE  s \in Seq(Steps) /\ Linked(s) /\ Loose(s) /\ (s # <<>> => Head(s) \in Plain)
<1>1. \A i \in 1..Len(s) : s[i] \in Plain
  BY ElementOfSeq
<1>2. s \in Seq(Steps) /\ (s # <<>> => Head(s) \in Plain)
  BY SeqMonotonic, HeadTailProperties DEF Plain
<1>3. Linked(s) /\ Loose(s)
  BY <1>1 DEF Linked, LinkedAt, Loose, Plain
<1> QED
  BY <1>2, <1>3

(* What the methods are replaced by; in the middle of Play also a retry.   *)
Bodies  == {<<>>, <<"finalizeStop", "deleteAll">>, <<"beginFade", "setFading">>,
            <<"abort", "cancel", "deleteOld">>, <<"stop">>, <<"play">>, <<"stopNow">>, <<"finalizePause">>}
PlayBody == <<"tryPlay", "addStream", "setPlaying", "abort", "cancel">> \o
            (IF FadeEnable THEN <<"beginFade", "setFading">> ELSE <<"fullVolume", "clearOld">>)
Retries == {<<"tryAgain">>, <<"deleteNew">>, PlayBody}

LEMMA BodiesLinked ==
    ASSUME NEW s \in Bodies
    PROVE  /\ s \in Seq(Steps) /\ Linked(s)
           /\ s # <<>> => Head(s) \notin Tries \union {"setPlaying", "deleteAll"}
<1> USE DEF Linked, LinkedAt, Firsts, Tries, Clearing, Steps
<1>1. CASE s = <<"finalizeStop", "deleteAll">>
  BY <1>1
<1>2. CASE s = <<"abort", "cancel", "deleteOld">>
  BY <1>2
<1>3. CASE s \in Seq(Plain)
  BY <1>3, PlainLinked DEF Plain
<1>4. /\ <<>> \in Seq(Plain) /\ <<"beginFade", "setFading">> \in Seq(Plain) /\ <<"stop">> \in Seq(Plain)
      /\ <<"play">> \in Seq(Plain) /\ <<"stopNow">> \in Seq(Plain) /\ <<"finalizePause">> \in Seq(Plain)
  BY DEF Plain
<1> QED
  BY <1>1, <1>2, <1>3, <1>4 DEF Bodies

(* All of Play.                                                            *)
LEMMA RetriesLinked ==
    ASSUME NEW s \in Retries
    PROVE  s \in Seq(Steps) /\ Linked(s) /\ s # <<>> /\ Head(s) \in Tries
<1> USE DEF Linked, LinkedAt, Firsts, Tries, Clearing
<1>1. ASSUME NEW step \in {"tryAgain", "deleteNew"}, s = <<step>>
      PROVE  s \in Seq(Steps) /\ Linked(s) /\ s # <<>> /\ Head(s) \in Tries
  <2>1. Len(s) = 1 /\ s[1] = step /\ Head(s) = step /\ s \in Seq(Steps) /\ s # <<>>
    BY <1>1 DEF Steps
  <2>2. \A i \in 1..Len(s) : i = 1
    BY <2>1
  <2> QED
    BY <2>1, <2>2
<1>2. CASE s = PlayBody
  <2> DEFINE play   == <<"tryPlay", "addStream", "setPlaying", "abort", "cancel">>
             branch == IF FadeEnable THEN <<"beginFade", "setFading">> ELSE <<"fullVolume", "clearOld">>
  <2>1. /\ play \in Seq(Steps) /\ Len(play) = 5 /\ play[1] = "tryPlay" /\ play[2] = "addStream"
        /\ play[3] = "setPlaying" /\ play[4] = "abort" /\ play[5] = "cancel"
    BY DEF Steps
  <2>2. /\ branch \in Seq(Steps) /\ Len(branch) = 2
        /\ branch[1] \in {"beginFade", "fullVolume"} /\ branch[2] \in {"setFading", "clearOld"}
        /\ branch[1] \in Clearing \/ branch[2] \in Clearing
    <3>1. CASE FadeEnable
      BY <3>1 DEF Steps
    <3>2. CASE ~FadeEnable
      BY <3>2 DEF Steps
    <3> QED
      BY <3>1, <3>2
  <2>3. s = play \o branch
    BY <1>2 DEF PlayBody
  <2> HIDE DEF play, branch
  <2>4. /\ s \in Seq(Steps) /\ Len(s) = 7
        /\ \A i \in 1..7 : s[i] = IF i <= 5 THEN play[i] ELSE branch[i - 5]
    <3>1. /\ s \in Seq(Steps) /\ Len(s) = Len(play) + Len(branch)
          /\ \A i \in 1 .. Len(play) + Len(branch) :
                s[i] = IF i <= Len(play) THEN play[i] ELSE branch[i - Len(play)]
      BY <2>1, <2>2, <2>3, ConcatProperties
    <3>2. Len(play) = 5 /\ Len(branch) = 2 /\ Len(play) + Len(branch) = 7
      BY <2>1, <2>2
    <3> QED
      BY <3>1, <3>2
  <2>5. /\ s[1] = "tryPlay" /\ s[2] = "addStream" /\ s[3] = "setPlaying" /\ s[4] = "abort" /\ s[5] = "cancel"
        /\ s[6] = branch[1] /\ s[7] = branch[2]
    <3>1. s[1] = play[1] /\ s[2] = play[2] /\ s[3] = play[3] /\ s[4] = play[4] /\ s[5] = play[5]
      BY <2>4
    <3>2. s[6] = branch[1] /\ s[7] = branch[2]
      BY <2>4
    <3> QED
      BY <2>1, <3>1, <3>2
  <2>6. s # <<>> /\ Head(s) = "tryPlay"
    <3>1. s \in Seq(Steps) /\ Len(s) = 7
      BY <2>4
    <3>2. s # <<>>
      BY <3>1, EmptySeq
    <3> QED
      BY <2>5, <3>1, <3>2, HeadTailProperties
  <2>7. Linked(s)
    <3>1. \A i \in 1..Len(s) : i \in {1, 2, 3, 4, 5, 6, 7}
      BY <2>4
    <3>2. LinkedAt(s, 1) /\ LinkedAt(s, 3) /\ LinkedAt(s, 5) /\ LinkedAt(s, 6) /\ LinkedAt(s, 7)
      BY <2>2, <2>5
    <3>3. \E j \in 1..Len(s) : j > 4 /\ s[j] \in Clearing
      BY <2>2, <2>4, <2>5
    <3>4. LinkedAt(s, 2) /\ LinkedAt(s, 4)
      BY <2>4, <2>5, <3>3
    <3> QED
      BY <3>1, <3>2, <3>4
  <2> QED
    BY <2>4, <2>6, <2>7
<1> QED
  BY <1>1, <1>2 DEF Retries

(* A method that is replaced by its body.                                  *)
LEMMA BecomeLinked ==
    ASSUME todo \in Seq(Steps), todo # <<>>, Linked(todo), Head(todo) \notin {"addStream", "finalizeStop"},
           NEW s \in Seq(Steps), Linked(s), Become(s)
    PROVE  /\ Linked(todo')
           /\ s # <<>> => todo' # <<>> /\ Head(todo') = Head(s)
           /\ s = <<>> => todo' = Tail(todo) /\ (todo' # <<>> => Head(todo') \notin Tries \union {"setPlaying", "deleteAll"})
           /\ Later(s) \/ (Later(todo) /\ Head(todo) \notin Clearing) => Later(todo')
<1>1. /\ Tail(todo) \in Seq(Steps) /\ Linked(Tail(todo)) /\ Loose(Tail(todo))
      /\ Later(todo) /\ Head(todo) \notin Clearing => Later(Tail(todo))
      /\ Tail(todo) # <<>> => Head(Tail(todo)) \notin Tries \union {"setPlaying", "deleteAll"}
  BY TailLinked DEF Firsts
<1>2. todo' = s \o Tail(todo)
  BY DEF Become
<1>3. Linked(todo') /\ (Later(s) \/ Later(Tail(todo)) => Later(todo'))
  BY <1>1, <1>2, LinkedConcat
<1>4. s # <<>> => todo' # <<>> /\ Head(todo') = Head(s)
  BY <1>1, <1>2, HeadTailConcat
<1>5. s = <<>> => todo' = Tail(todo)
  BY <1>1, <1>2, ConcatEmptySeq
<1> QED
  BY <1>1, <1>3, <1>4, <1>5

(* What a handler starts with.                                             *)
Started(q) == /\ q \in Seq(Steps) /\ Linked(q)
              /\ q # <<>> => Head(q) \notin Tries \union {"addStream", "setPlaying", "deleteAll"}

LEMMA PlainStarted == ASSUME NEW s \in Seq(Plain) PROVE Started(s)
  BY PlainLinked DEF Started, Plain, Firsts

(* A finished fade, which clears old streams unless it was aborted.        *)
LEMMA FadeCompleteStarted ==
    ASSUME NEW e \in Events
    PROVE  /\ Started(FadeCompleteSteps(e))
           /\ ~e.aborted => Later(FadeCompleteSteps(e))
<1> DEFINE final == CASE e.type \in {"stop", "exit"} -> <<"finalizeStop", "deleteAll">>
                      [] e.type = "pause"            -> <<"finalizePause">>
                      [] OTHER                       -> <<>>
           clear == IF e.aborted THEN <<>> ELSE <<"clearOld">>
           rest  == <<"unsetFading">> \o clear
<1>1. /\ <<"unsetFading">> \in Seq(Plain) /\ <<"clearOld">> \in Seq(Plain) /\ <<>> \in Seq(Plain)
  BY DEF Plain, Steps, Firsts, Tries
<1>2. clear \in Seq(Plain)
  BY <1>1
<1>3. final \in Bodies
  BY DEF Bodies
<1>4. FadeCompleteSteps(e) = (final \o <<"unsetFading">>) \o clear
  BY DEF FadeCompleteSteps
<1>5. final \in Seq(Steps) /\ Linked(final)
      /\ (final # <<>> => Head(final) \notin Tries \union {"addStream", "setPlaying", "deleteAll"})
  BY <1>3, BodiesLinked DEF Bodies
<1>6. ~e.aborted => Later(clear)
  <2> SUFFICES ASSUME ~e.aborted PROVE Later(clear)
    OBVIOUS
  <2>1. clear = <<"clearOld">>
    OBVIOUS
  <2>2. 1 \in 1..Len(<<"clearOld">>) /\ <<"clearOld">>[1] \in Clearing
    BY DEF Clearing
  <2> QED
    BY <2>1, <2>2 DEF Later
<1> HIDE DEF final, clear
<1>7. /\ rest \in Seq(Plain) /\ rest # <<>> /\ (~e.aborted => Later(rest))
  <2>1. clear \in Seq(Steps) /\ Linked(clear) /\ Loose(clear)
    BY <1>2, PlainLinked
  <2>2. <<"unsetFading">> \in Seq(Steps) /\ Linked(<<"unsetFading">>) /\ <<"unsetFading">> # <<>>
    BY <1>1, PlainLinked
  <2>3. Later(clear) => Later(rest)
    BY <2>1, <2>2, LinkedConcat
  <2>4. rest # <<>>
    BY <2>1, <2>2, HeadTailConcat
  <2> QED
    BY <1>1, <1>2, <1>6, <2>3, <2>4, ConcatProperties
<1>8. FadeCompleteSteps(e) = final \o rest
  BY <1>1, <1>2, <1>4, <1>5, PlainLinked, ConcatAssociative
<1> HIDE DEF rest
<1>9. rest \in Seq(Steps) /\ Linked(rest) /\ Loose(rest) /\ Head(rest) \in Plain
  BY <1>7, PlainLinked
<1>10. final \o rest \in Seq(Steps) /\ Linked(final \o rest) /\ (Later(rest) => Later(final \o rest))
  BY <1>5, <1>9, LinkedConcat
<1>11. Head(final \o rest) \notin Tries \union {"addStream", "setPlaying", "deleteAll"}
  <2>1. CASE final = <<>>
    <3>1. final \o rest = rest
      BY <1>9, <2>1, ConcatEmptySeq
    <3> QED
      BY <1>9, <3>1 DEF Plain, Firsts
  <2>2. CASE final # <<>>
    BY <1>5, <1>9, <2>2, HeadTailConcat
  <2> QED
    BY <2>1, <2>2
<1> QED
  BY <1>7, <1>8, <1>10, <1>11 DEF Started

(* OnClose and the commands.                                               *)
LEMMA CommandStarted ==
    /\ Started(CloseSteps)
    /\ \A c \in RemoteCommands \union WindowCommands : Started(CommandSteps(c))
<1>1. Started(CloseSteps)
  <2>1. <<"stopExit">> \in Seq(Plain) /\ <<"killFader", "joinFader", "stopExit", "destroy">> \in Seq(Plain)
    BY DEF Plain, Steps, Firsts, Tries
  <2> QED
    BY <2>1, PlainStarted DEF CloseSteps, Shutdown
<1>2. ASSUME NEW c \in RemoteCommands \union WindowCommands PROVE Started(CommandSteps(c))
  <2>1. /\ <<>> \in Seq(Plain) /\ <<"play">> \in Seq(Plain) /\ <<"playSeek">> \in Seq(Plain)
        /\ <<"resume">> \in Seq(Plain) /\ <<"pause">> \in Seq(Plain) /\ <<"next">> \in Seq(Plain)
        /\ <<"stop">> \in Seq(Plain) /\ <<"cancel">> \in Seq(Plain)
        /\ <<"clearOld", "play">> \in Seq(Plain) /\ <<"stopNow", "postRestart">> \in Seq(Plain)
    BY DEF Plain, Steps, Firsts, Tries
  <2>2. CASE c = "close"
    BY <1>1, <2>2 DEF CommandSteps
  <2>3. CASE c \in {"playItem", "addAndPlay", "nextSong", "pauseWeb", "resumeWeb", "stopSong",
                    "setVolume", "addSongs"}
    BY <2>1, <2>3, PlainStarted DEF CommandSteps
  <2>4. CASE c \in {"playPause", "replaceList", "seek", "clearList", "removeCurrent"}
    BY <2>1, <2>4, PlainStarted DEF CommandSteps
  <2> QED
    BY <2>2, <2>3, <2>4 DEF RemoteCommands, WindowCommands
<1> QED
  BY <1>1, <1>2

(* What any step leaves to do.                                             *)
LEMMA WhatComes ==
    ASSUME TypeInv, [Next]_vars
    PROVE  \/ todo' = todo
           \/ todo = <<>> /\ Started(todo')
           \/ todo # <<>> /\ Proceed
           \/ /\ todo # <<>> /\ Head(todo) \notin {"addStream", "finalizeStop"}
              /\ \/ \E s \in Bodies : Become(s)
                 \/ (PlayOpens \/ PlayFails) /\ \E s \in Retries : Become(s)
           \/ todo # <<>> /\ Head(todo) = "deleteNew" /\ todo' = <<"stopNow">> \o SubSeq(todo, 8, Len(todo))
<1> USE DEF Bodies, Retries, PlayBody
<1>2. CASE Stop
  BY <1>2 DEF Stop, StopIgnored, StopStarts, At, Proceed, Become
<1>3. CASE SetFadeStart \/ FinalizeStop \/ PlayInvalid \/ SetPlaying \/ FinalizePause
           \/ NextSongDone \/ UnsetFading \/ PlaySucceeds
  BY <1>3 DEF SetFadeStart, FinalizeStop, PlayInvalid, SetPlaying, FinalizePause, NextSongDone,
              UnsetFading, PlaySucceeds, At, Proceed
<1>4. CASE DeleteAll \/ DeleteOld \/ FullVolume \/ AbortStep \/ CancelStep \/ AddStream
           \/ PostRestart \/ KillFader \/ JoinFader \/ Destroy
  BY <1>4 DEF DeleteAll, DeleteOld, FullVolume, AbortStep, CancelStep, AddStream, PostRestart,
              KillFader, JoinFader, Destroy, At, Proceed
<1>5. CASE ClearOldStreams \/ PlayFindsNoFile \/ Pause \/ Resume
  BY <1>5 DEF ClearOldStreams, PlayFindsNoFile, Pause, Resume, At, Become
<1>6. CASE NextSong
  BY <1>6 DEF NextSong, At, Proceed, Become
<1>7. CASE PlayGivesUp
  <2>1. StepsAfterPlay + 2 = 8
    BY DEF StepsAfterPlay
  <2> QED
    BY <1>7, <2>1 DEF PlayGivesUp, At
<1>8. CASE PlayOpens
  <2>1. todo # <<>> /\ Head(todo) \in {"play", "playSeek"} /\ (Become(<<"stopNow">>) \/ Become(PlayBody))
    BY <1>8 DEF PlayOpens, At
  <2> QED
    BY <1>8, <2>1
<1>9. CASE PlayFails
  BY <1>9 DEF PlayFails, At
<1>10. CASE OnPlayerEvent
  <2>1. events # <<>> /\ Head(events) \in Events
    BY <1>10 DEF OnPlayerEvent, TypeInv, TypeOK, EventsOK
  <2>2. Started(FadeCompleteSteps(Head(events)))
    BY <2>1, FadeCompleteStarted
  <2>3. Started(<<"next", "nextDone">>) /\ Started(<<"play">>)
    <3>1. <<"next", "nextDone">> \in Seq(Plain) /\ <<"play">> \in Seq(Plain)
      BY DEF Plain, Steps, Firsts, Tries
    <3> QED
      BY <3>1, PlainStarted
  <2> QED
    BY <1>10, <2>1, <2>2, <2>3 DEF OnPlayerEvent, Idle, Events
<1>11. CASE OnExitFadeDone
  BY <1>11, CommandStarted DEF OnExitFadeDone, Idle
<1>12. CASE \E c \in Commands : Command(c)
  BY <1>12, CommandStarted, CommandsAssumption DEF Command, Idle
<1>13. CASE Fader
  BY <1>13 DEF Fader, FaderLoop, FaderFindsActive, FaderCatches, FaderAborts, FaderStops, FaderSpawns,
               FaderAttaches, FaderChecks, FaderReads, FaderPostsNext, FaderHasTimeLeft, mainVars
<1>14. CASE \E s \in Slots : Crossfader(s)
  BY <1>14 DEF Crossfader, XfReturnsEarly, XfEnters, XfFades, XfReturns, XfExits, mainVars
<1>15. CASE UNCHANGED vars
  BY <1>15 DEF vars, mainVars
<1> QED
  BY <1>2, <1>3, <1>4, <1>5, <1>6, <1>7, <1>8, <1>9, <1>10, <1>11, <1>12, <1>13, <1>14, <1>15
     DEF Next, Main, Handler, Wait

(* What the next step of the GUI thread may be.                            *)
LEMMA HeadsAndLinks ==
    ASSUME TypeInv, Linked(todo), [Next]_vars
    PROVE  /\ Linked(todo')
           /\ todo' = todo \/ todo' = <<>>
              \/ /\ Head(todo') \in Tries        => PlayOpens \/ PlayFails
                 /\ Head(todo') = "setPlaying" => At("addStream") /\ Proceed
                 /\ Head(todo') = "deleteAll"  => At("finalizeStop") /\ Proceed
<1>1. todo \in Seq(Steps)
  BY DEF TypeInv, TypeOK, MainOK
<1>2. CASE todo' = todo
  BY <1>2
<1>3. CASE todo = <<>> /\ Started(todo')
  BY <1>3 DEF Started
<1>4. CASE todo # <<>> /\ Proceed
  BY <1>1, <1>4, TailLinked DEF Proceed, At, Firsts
<1>5. CASE todo # <<>> /\ Head(todo) \notin {"addStream", "finalizeStop"} /\ \E s \in Bodies : Become(s)
  <2>1. PICK s \in Bodies : Become(s)
    BY <1>5
  <2>2. s \in Seq(Steps) /\ Linked(s) /\ (s # <<>> => Head(s) \notin Tries \union {"setPlaying", "deleteAll"})
    BY BodiesLinked
  <2>3. /\ Linked(todo')
        /\ s # <<>> => todo' # <<>> /\ Head(todo') = Head(s)
        /\ s = <<>> /\ todo' # <<>> => Head(todo') \notin Tries \union {"setPlaying", "deleteAll"}
    BY <1>1, <1>5, <2>1, <2>2, BecomeLinked
  <2> QED
    BY <2>2, <2>3
<1>6. CASE /\ todo # <<>> /\ Head(todo) \notin {"addStream", "finalizeStop"}
           /\ PlayOpens \/ PlayFails
           /\ \E s \in Retries : Become(s)
  <2>1. PICK s \in Retries : Become(s)
    BY <1>6
  <2>2. s \in Seq(Steps) /\ Linked(s) /\ s # <<>> /\ Head(s) \in Tries
    BY RetriesLinked
  <2>3. Linked(todo') /\ todo' # <<>> /\ Head(todo') = Head(s)
    BY <1>1, <1>6, <2>1, <2>2, BecomeLinked
  <2> QED
    BY <1>6, <2>2, <2>3 DEF Tries
<1>7. CASE todo # <<>> /\ Head(todo) = "deleteNew" /\ todo' = <<"stopNow">> \o SubSeq(todo, 8, Len(todo))
  <2> DEFINE r == SubSeq(todo, 8, Len(todo))
  <2>1. r \in Seq(Steps) /\ Linked(r) /\ Loose(r)
    BY <1>7, GivenUpLinked
  <2>2. <<"stopNow">> \in Seq(Steps) /\ Linked(<<"stopNow">>) /\ <<"stopNow">> # <<>> /\ Head(<<"stopNow">>) = "stopNow"
    BY BodiesLinked DEF Bodies
  <2>3. todo' = <<"stopNow">> \o r
    BY <1>7
  <2> HIDE DEF r
  <2>4. Linked(todo')
    BY <2>1, <2>2, <2>3, LinkedConcat
  <2>5. Head(todo') = "stopNow"
    BY <2>1, <2>2, <2>3, HeadTailConcat
  <2> QED
    BY <2>4, <2>5 DEF Tries
<1> QED
  BY <1>2, <1>3, <1>4, <1>5, <1>6, <1>7, WhatComes

(* What is left to do is always linked.                                    *)
LEMMA LinkedInvariant == Spec => []Linked(todo)
<1>1. Init => Linked(todo)
  BY DEF Init, Linked
<1>2. TypeInv /\ Linked(todo) /\ [Next]_vars => Linked(todo)'
  BY HeadsAndLinks
<1> QED
  BY <1>1, <1>2, TypeInvariant, PTL DEF Spec

-----------------------------------------------------------------------------
(* While the player plays there is a stream, or a handler is about to add  *)
(* one or to stop the player.                                              *)
Refilled == \/ active # <<>>
            \/ todo # <<>> /\ Head(todo) \in Tries \union {"addStream", "finalizeStop"}
            \/ At("stopNow") /\ ~stopping

FilledInv == /\ todo # <<>> /\ Head(todo) \in Tries => ~stopping
             /\ At("setPlaying") => active # <<>>
             /\ At("deleteAll") => ~playing
             /\ playing => Refilled

(* Who may change what FilledInv is about.                                 *)
Neutral == UNCHANGED <<playing, stopping, active>>
           /\ (todo' = todo \/ todo = <<>> \/ Head(todo) \notin Tries \union {"addStream", "finalizeStop", "stopNow"})

LEMMA FilledEffect ==
    ASSUME [Next]_vars
    PROVE  \/ Neutral
           \/ Stop \/ FinalizeStop \/ PlayInvalid \/ SetPlaying \/ DeleteAll \/ DeleteOld
           \/ PlayOpens \/ PlaySucceeds \/ PlayFails \/ PlayGivesUp \/ AddStream
<1> USE DEF Neutral, Tries, At, flagVars, streamVars, mainVars
<1>1. CASE SetFadeStart \/ ClearOldStreams \/ PlayFindsNoFile \/ Pause \/ FinalizePause \/ Resume
           \/ NextSong \/ NextSongDone \/ UnsetFading
  BY <1>1 DEF SetFadeStart, ClearOldStreams, PlayFindsNoFile, Pause, FinalizePause, Resume,
              NextSong, NextSongDone, UnsetFading
<1>2. CASE FullVolume \/ AbortStep \/ CancelStep \/ PostRestart \/ KillFader \/ JoinFader \/ Destroy
  BY <1>2 DEF FullVolume, AbortStep, CancelStep, PostRestart, KillFader, JoinFader, Destroy
<1>3. CASE OnPlayerEvent \/ OnExitFadeDone \/ \E c \in Commands : Command(c)
  BY <1>3 DEF OnPlayerEvent, OnExitFadeDone, Command, Idle
<1>4. CASE Fader
  BY <1>4 DEF Fader, FaderLoop, FaderFindsActive, FaderCatches, FaderAborts, FaderStops, FaderSpawns,
              FaderAttaches, FaderChecks, FaderReads, FaderPostsNext, FaderHasTimeLeft
<1>5. CASE \E s \in Slots : Crossfader(s)
  BY <1>5 DEF Crossfader, XfReturnsEarly, XfEnters, XfFades, XfReturns, XfExits
<1>6. CASE UNCHANGED vars
  BY <1>6 DEF vars
<1> QED
  BY <1>1, <1>2, <1>3, <1>4, <1>5, <1>6 DEF Next, Main, Handler, Wait

(* FilledInv is inductive, given the links.                                *)
LEMMA NextKeepsFilled ==
    ASSUME TypeInv, Linked(todo), FilledInv, [Next]_vars
    PROVE  FilledInv'
<1>1. \/ todo' = todo \/ todo' = <<>>
      \/ /\ Head(todo') \in Tries        => PlayOpens \/ PlayFails
         /\ Head(todo') = "setPlaying" => At("addStream") /\ Proceed
         /\ Head(todo') = "deleteAll"  => At("finalizeStop") /\ Proceed
  BY HeadsAndLinks
<1>2. todo \in Seq(Steps) /\ active \in Seq(Streams) /\ playing \in BOOLEAN /\ stopping \in BOOLEAN
  BY DEF TypeInv, TypeOK, MainOK, StreamsOK, FlagsOK
<1>3. PlayOpens => ~stopping'
  BY DEF PlayOpens
<1>4. PlayFails => At("tryPlay") \/ At("tryAgain")
  BY DEF PlayFails
<1> USE DEF FilledInv, Refilled, At, Tries, flagVars, streamVars, OthersUnchanged, Proceed
<1>5. CASE Neutral
  BY <1>1, <1>3, <1>4, <1>5 DEF Neutral
<1>6. CASE Stop
  <2>1. PICK call \in {"stop", "stopNow", "stopExit"} : StopIgnored(call) \/ StopStarts(call)
    BY <1>6 DEF Stop
  <2>2. todo # <<>> /\ Head(todo) = call /\ UNCHANGED <<playing, active>>
    BY <2>1 DEF StopIgnored, StopStarts
  <2>3. todo' # <<>> => Head(todo') \notin Tries \union {"setPlaying", "deleteAll"}
    BY <1>1, <1>6, <2>2 DEF PlayOpens, PlayFails
  <2>4. playing' => Refilled'
    <3>1. CASE active # <<>>
      BY <2>2, <3>1
    <3>2. CASE active = <<>> /\ playing
      <4>1. call = "stopNow" /\ ~stopping
        BY <2>2, <3>2
      <4>2. todo' = <<"finalizeStop", "deleteAll">> \o Tail(todo)
        BY <2>1, <4>1 DEF StopIgnored, StopStarts, StopFades, Become
      <4>3. Tail(todo) \in Seq(Steps) /\ <<"finalizeStop", "deleteAll">> \in Seq(Steps)
        BY <1>2, <2>2, HeadTailProperties DEF Steps
      <4>4. todo' # <<>> /\ Head(todo') = "finalizeStop"
        BY <4>2, <4>3, HeadTailConcat
      <4> QED
        BY <4>4
    <3> QED
      BY <2>2, <3>1, <3>2
  <2> QED
    BY <2>2, <2>3, <2>4
<1>7. CASE FinalizeStop \/ PlayInvalid \/ SetPlaying
  BY <1>1, <1>3, <1>4, <1>7 DEF FinalizeStop, PlayInvalid, SetPlaying
<1>8. CASE DeleteAll
  BY <1>1, <1>3, <1>4, <1>8 DEF DeleteAll
<1>9. CASE DeleteOld
  <2>1. /\ todo # <<>> /\ Head(todo) = "deleteOld" /\ UNCHANGED <<playing, stopping>>
        /\ active' = IF active = <<>> THEN <<>> ELSE <<Last(active)>>
    BY <1>9 DEF DeleteOld, DeleteStreams
  <2>2. active # <<>> => active' # <<>>
    BY <2>1
  <2> QED
    BY <1>1, <1>3, <1>4, <2>1, <2>2
<1>10. CASE PlayOpens
  <2>1. /\ todo # <<>> /\ Head(todo) \in {"play", "playSeek"} /\ UNCHANGED <<playing, active>>
    BY <1>10 DEF PlayOpens
  <2> QED
    BY <1>1, <1>3, <1>10, <2>1
<1>11. CASE PlaySucceeds
  <2>1. todo # <<>> /\ Head(todo) \in Tries /\ UNCHANGED <<playing, stopping, active>> /\ todo' = Tail(todo)
    BY <1>11 DEF PlaySucceeds
  <2>2. todo' # <<>> /\ Head(todo') = "addStream"
    BY <2>1, TryNext
  <2> QED
    BY <2>1, <2>2
<1>12. CASE PlayFails
  <2>1. PICK step \in {"tryAgain", "deleteNew"} : todo' = <<step>> \o Tail(todo)
    BY <1>12 DEF PlayFails, Become
  <2>2. todo # <<>> /\ Head(todo) \in Tries /\ UNCHANGED <<playing, stopping>>
    BY <1>12 DEF PlayFails
  <2>3. Tail(todo) \in Seq(Steps) /\ <<step>> \in Seq(Steps) /\ <<step>> # <<>> /\ Head(<<step>>) = step
    BY <1>2, <2>2, HeadTailProperties DEF Steps
  <2>4. todo' # <<>> /\ Head(todo') = step
    BY <2>1, <2>3, HeadTailConcat
  <2> QED
    BY <2>2, <2>4
<1>13. CASE PlayGivesUp
  <2>1. /\ todo # <<>> /\ Head(todo) = "deleteNew" /\ UNCHANGED <<playing, stopping, active>>
        /\ todo' = <<"stopNow">> \o SubSeq(todo, 8, Len(todo))
    BY <1>13 DEF PlayGivesUp, StepsAfterPlay
  <2>2. <<"stopNow">> \in Seq(Steps) /\ SubSeq(todo, 8, Len(todo)) \in Seq(Steps)
    BY <2>1, GivenUpLinked DEF Steps
  <2>3. todo' # <<>> /\ Head(todo') = "stopNow"
    BY <2>1, <2>2, HeadTailConcat
  <2> QED
    BY <2>1, <2>3
<1>14. CASE AddStream
  <2>1. /\ todo # <<>> /\ Head(todo) = "addStream" /\ UNCHANGED <<playing, stopping>>
        /\ active' = Append(active, opening)
    BY <1>14 DEF AddStream
  <2>2. active' # <<>>
    <3>1. Append(active, opening) # <<>>
      <4>1. opening \in Streams \union {NoStream} /\ active \in Seq(Streams \union {NoStream})
        BY <1>2, SeqMonotonic DEF TypeInv, TypeOK, StreamsOK
      <4> QED
        BY <4>1, AppendProperties
    <3> QED
      BY <2>1, <3>1
  <2>3. todo' # <<>> => Head(todo') \notin Tries \union {"deleteAll"}
    BY <1>1, <1>4, <2>1 DEF PlayOpens
  <2> QED
    BY <2>1, <2>2, <2>3
<1> QED
  BY <1>5, <1>6, <1>7, <1>8, <1>9, <1>10, <1>11, <1>12, <1>13, <1>14, FilledEffect

(* A player that plays is never left without a stream for good.            *)
LEMMA FilledInvariant == Spec => []FilledInv
<1>1. Init => FilledInv
  BY DEF Init, FilledInv, At
<1>2. TypeInv /\ Linked(todo) /\ FilledInv /\ [Next]_vars => FilledInv'
  BY NextKeepsFilled
<1> QED
  BY <1>1, <1>2, TypeInvariant, LinkedInvariant, PTL DEF Spec

-----------------------------------------------------------------------------
(* A crossfader is aborted for the sake of another fade, or by the GUI     *)
(* thread, which cancels it next.                                          *)
AbortInv == /\ faderPc \in {"begin", "abort"} => beginFade
            /\ \A s \in Slots : xf[s].pc = "new" => ~xf[s].aborted
            /\ CrossfaderActive /\ xf[ctl].aborted => beginFade \/ At("cancel")

(* Who may change what AbortInv is about.                                  *)
LEMMA AbortEffect ==
    ASSUME [Next]_vars
    PROVE  \/ UNCHANGED <<faderPc, xfVars>> /\ (beginFade => beginFade') /\ (todo' = todo \/ ~At("cancel"))
           \/ (AbortStep \/ CancelStep) /\ UNCHANGED <<faderPc, beginFade>>
           \/ Fader /\ UNCHANGED todo
           \/ \E s \in Slots : Crossfader(s)
<1> USE DEF OthersUnchanged, flagVars, faderVars, At
<1>1. CASE Stop \/ SetFadeStart \/ FinalizeStop \/ ClearOldStreams \/ PlayInvalid \/ PlayFindsNoFile
           \/ SetPlaying \/ Pause \/ FinalizePause \/ Resume \/ NextSong \/ NextSongDone \/ UnsetFading
  BY <1>1 DEF Stop, StopIgnored, StopStarts, SetFadeStart, FinalizeStop, ClearOldStreams, PlayInvalid,
              PlayFindsNoFile, SetPlaying, Pause, FinalizePause, Resume, NextSong, NextSongDone, UnsetFading
<1>2. CASE PlayOpens \/ PlaySucceeds \/ PlayFails \/ PlayGivesUp \/ AddStream \/ FullVolume
           \/ PostRestart \/ KillFader \/ JoinFader \/ Destroy \/ DeleteAll \/ DeleteOld
  BY <1>2 DEF PlayOpens, PlaySucceeds, PlayFails, PlayGivesUp, AddStream, FullVolume, PostRestart,
              KillFader, JoinFader, Destroy, DeleteAll, DeleteOld
<1>3. CASE AbortStep \/ CancelStep
  BY <1>3 DEF AbortStep, CancelStep
<1>4. CASE OnPlayerEvent \/ OnExitFadeDone \/ \E c \in Commands : Command(c)
  BY <1>4 DEF OnPlayerEvent, OnExitFadeDone, Command, Idle
<1>5. CASE Fader
  BY <1>5 DEF Fader, FaderLoop, FaderFindsActive, FaderCatches, FaderAborts, FaderStops,
              FaderSpawns, FaderAttaches, FaderChecks, FaderReads, FaderPostsNext, FaderHasTimeLeft, mainVars
<1>6. CASE UNCHANGED vars
  BY <1>6 DEF vars, mainVars
<1> QED
  BY <1>1, <1>2, <1>3, <1>4, <1>5, <1>6 DEF Next, Main, Handler, Wait

(* Aborting and cancelling: nobody else's crossfader is meant.             *)
LEMMA StopKeepsAborts ==
    ASSUME TypeInv, ControlInv, NEW t \in Threads, StopFindsNone(t) \/ StopTakes(t) \/ StopJoins(t)
    PROVE  /\ \A s \in Slots : xf'[s].pc = "new" => xf[s].pc = "new" /\ xf'[s].aborted = xf[s].aborted
           /\ ~CrossfaderActive'
<1> USE DEF TypeInv, TypeOK, XfOK, XfObjects
<1>1. CASE StopFindsNone(t)
  BY <1>1 DEF StopFindsNone, xfVars, CrossfaderActive, Alive
<1>2. CASE StopTakes(t)
  BY <1>2 DEF StopTakes, CrossfaderActive, Alive
<1>3. CASE StopJoins(t)
  BY <1>3 DEF StopJoins, ControlInv, CrossfaderActive, Alive, NoXf
<1> QED
  BY <1>1, <1>2, <1>3

(* An abort leaves the places of the threads alone.                        *)
LEMMA AbortMarks ==
    ASSUME TypeInv, AbortCrossfader
    PROVE  \A s \in Slots : xf'[s].pc = xf[s].pc /\ (xf[s].pc = "new" => xf'[s].aborted = xf[s].aborted)
<1>1. CASE CrossfaderActive
  BY <1>1 DEF AbortCrossfader, CrossfaderActive, Alive, TypeInv, TypeOK, XfOK, XfObjects
<1>2. CASE ~CrossfaderActive
  BY <1>2 DEF AbortCrossfader
<1> QED
  BY <1>1, <1>2

(* AbortInv is inductive.                                                  *)
LEMMA NextKeepsAbort ==
    ASSUME TypeInv, ControlInv, Linked(todo), AbortInv, [Next]_vars
    PROVE  AbortInv'
<1>1. /\ todo \in Seq(Steps) /\ ctl \in Slots \union {NoSlot} /\ xf \in [Slots -> XfObjects]
  BY DEF TypeInv, TypeOK, MainOK, XfOK
<1>2. CASE UNCHANGED <<faderPc, xfVars>> /\ (beginFade => beginFade') /\ (todo' = todo \/ ~At("cancel"))
  BY <1>2 DEF AbortInv, CrossfaderActive, Alive, xfVars, At
<1>3. CASE AbortStep /\ UNCHANGED <<faderPc, beginFade>>
  <2>1. todo # <<>> /\ Head(todo) = "abort" /\ todo' = Tail(todo) /\ AbortCrossfader
    BY <1>3 DEF AbortStep, At, Proceed
  <2>2. At("cancel")'
    BY <1>1, <2>1, TailLinked DEF At
  <2>3. \A s \in Slots : xf'[s].pc = xf[s].pc /\ (xf[s].pc = "new" => xf'[s].aborted = xf[s].aborted)
    BY <2>1, AbortMarks
  <2> QED
    BY <1>3, <2>2, <2>3 DEF AbortInv
<1>4. CASE CancelStep /\ UNCHANGED <<faderPc, beginFade>>
  <2>1. "main" \in Threads /\ (StopFindsNone("main") \/ StopTakes("main") \/ StopJoins("main"))
    BY <1>4 DEF CancelStep, Threads
  <2>2. /\ \A s \in Slots : xf'[s].pc = "new" => xf[s].pc = "new" /\ xf'[s].aborted = xf[s].aborted
        /\ ~CrossfaderActive'
    BY <2>1, StopKeepsAborts
  <2> QED
    BY <1>4, <2>2 DEF AbortInv
<1>5. CASE Fader /\ UNCHANGED todo
  <2>1. CASE FaderLoop \/ FaderFindsActive \/ FaderChecks \/ FaderReads \/ FaderPostsNext \/ FaderHasTimeLeft
    BY <1>5, <2>1 DEF FaderLoop, FaderFindsActive, FaderChecks, FaderReads, FaderPostsNext, FaderHasTimeLeft,
                      AbortInv, CrossfaderActive, Alive, xfVars, flagVars, At
  <2>2. CASE FaderCatches
    BY <2>2 DEF FaderCatches, AbortInv, CrossfaderActive, Alive, xfVars
  <2>3. CASE FaderAborts
    <3>1. \A s \in Slots : xf'[s].pc = xf[s].pc /\ (xf[s].pc = "new" => xf'[s].aborted = xf[s].aborted)
      BY <2>3, AbortMarks DEF FaderAborts
    <3> QED
      BY <2>3, <3>1 DEF FaderAborts, AbortInv, flagVars
  <2>4. CASE FaderStops
    <3>1. "fader" \in Threads /\ (StopFindsNone("fader") \/ StopTakes("fader") \/ StopJoins("fader"))
      BY <2>4 DEF FaderStops, Threads
    <3>2. /\ \A s \in Slots : xf'[s].pc = "new" => xf[s].pc = "new" /\ xf'[s].aborted = xf[s].aborted
          /\ ~CrossfaderActive'
      BY <3>1, StopKeepsAborts
    <3>3. faderPc' \notin {"begin", "abort"}
      BY <2>4 DEF FaderStops
    <3> QED
      BY <3>2, <3>3 DEF AbortInv
  <2>5. CASE FaderSpawns
    <3>1. PICK s \in FreeSlots : xf' = [xf EXCEPT ![s] = [NoXf EXCEPT !.pc = "new", !.type = fadeType]]
      BY <2>5 DEF FaderSpawns
    <3>2. /\ s \in Slots /\ xf[s].pc = "free" /\ ctl' = ctl /\ faderPc' = "attach" /\ beginFade' = beginFade
          /\ xf'[s].pc = "new" /\ ~xf'[s].aborted /\ \A t \in Slots \ {s} : xf'[t] = xf[t]
      BY <1>1, <2>5, <3>1 DEF FaderSpawns, FreeSlots, NoXf, flagVars
    <3> QED
      BY <1>1, <1>5, <3>2 DEF AbortInv, CrossfaderActive, Alive, At
  <2>6. CASE FaderAttaches
    <3>1. PICK s \in Slots :
            /\ xf[s].pc = "new" /\ ctl' = s
            /\ xf' = [t \in Slots |-> IF t = s THEN [xf[s] EXCEPT !.pc = "start"]
                                      ELSE IF t = ctl THEN NoXf ELSE xf[t]]
      BY <2>6 DEF FaderAttaches
    <3>2. xf'[s].aborted = xf[s].aborted /\ xf'[s].pc = "start"
      BY <1>1, <3>1 DEF XfObjects
    <3>3. \A t \in Slots : xf'[t].pc = "new" => xf'[t] = xf[t]
      BY <1>1, <3>1, <3>2 DEF NoXf
    <3>4. faderPc' = "check"
      BY <2>6 DEF FaderAttaches
    <3> QED
      BY <3>1, <3>2, <3>3, <3>4 DEF AbortInv
  <2> QED
    BY <1>5, <2>1, <2>2, <2>3, <2>4, <2>5, <2>6 DEF Fader
<1>6. ASSUME NEW s \in Slots, Crossfader(s) PROVE AbortInv'
  <2>1. UNCHANGED <<faderPc, beginFade, todo, ctl>>
    BY <1>6 DEF Crossfader, XfReturnsEarly, XfEnters, XfFades, XfReturns, XfExits, flagVars, faderVars, mainVars
  <2>2. \A t \in Slots :
           \/ xf'[t] = xf[t]
           \/ xf'[t].pc \notin {"new", "start", "fade"}
           \/ xf'[t].pc = "fade" /\ xf[t].pc \in {"start", "fade"} /\ xf'[t].aborted = xf[t].aborted
    <3> USE <1>1 DEF XfObjects
    <3>1. \A t \in Slots \ {s} : xf'[t] = xf[t]
      BY <1>6 DEF Crossfader, XfReturnsEarly, XfEnters, XfFades, XfReturns, XfExits
    <3>2. CASE XfReturnsEarly(s) \/ XfReturns(s) \/ XfExits(s)
      <4>1. XfReturnsEarly(s) => xf'[s].pc = "exit"
        BY DEF XfReturnsEarly
      <4>2. XfReturns(s) => xf'[s].pc = "exit"
        BY DEF XfReturns
      <4>3. XfExits(s) => xf'[s].pc = "dead"
        BY DEF XfExits, NoXf
      <4>4. xf'[s].pc \in {"exit", "dead"}
        BY <3>2, <4>1, <4>2, <4>3
      <4> QED
        BY <3>1, <4>4
    <3>3. CASE XfEnters(s)
      BY <3>1, <3>3 DEF XfEnters
    <3>4. CASE XfFades(s)
      BY <3>1, <3>4 DEF XfFades
    <3> QED
      BY <1>6, <3>2, <3>3, <3>4 DEF Crossfader
  <2> QED
    BY <1>1, <2>1, <2>2 DEF AbortInv, CrossfaderActive, Alive, At
<1> QED
  BY <1>2, <1>3, <1>4, <1>5, <1>6, AbortEffect

(* Whoever aborts a crossfader sees to it that another fade follows.       *)
LEMMA AbortInvariant == Spec => []AbortInv
<1>1. Init => AbortInv
  BY DEF Init, AbortInv, NoXf, CrossfaderActive, Alive, NoSlot
<1>2. TypeInv /\ ControlInv /\ Linked(todo) /\ AbortInv /\ [Next]_vars => AbortInv'
  BY NextKeepsAbort
<1> QED
  BY <1>1, <1>2, TypeInvariant, ControlInvariant, LinkedInvariant, PTL DEF Spec

-----------------------------------------------------------------------------
(* While there is more than one stream something will clear the old ones:  *)
(* a step of the handler that runs, a fade that was asked for, a           *)
(* crossfader that is not aborted, or what it posted when it ended.        *)
WillClear(s) == xf[s].pc \in {"start", "fade", "exit"} /\ ~xf[s].aborted
Clears(e)    == e.name = "fadeComplete" /\ ~e.aborted
Elsewhere    == \/ beginFade
                \/ faderPc \in {"stopOld", "spawn", "attach"}
                \/ \E s \in Slots : WillClear(s)
                \/ \E i \in DOMAIN events : Clears(events[i])
Debt         == Later(todo) \/ (At("stopNow") /\ ~stopping) \/ Elsewhere
DebtInv      == Len(active) > 1 => Debt

(* What pays: the steps of the GUI thread that end a debt.                 *)
LEMMA DebtSteps ==
    ASSUME [Next]_vars, todo # <<>>, todo' # todo
    PROVE  /\ Head(todo) = "beginFade" => beginFade'
           /\ Head(todo) \in {"deleteAll", "deleteOld"} => active' = <<>> \/ active' = <<Last(active)>>
           /\ Head(todo) = "clearOld"  => ClearOldStreams
           /\ Head(todo) = "deleteNew" => UNCHANGED stopping
           /\ Head(todo) = "stopNow"   => Stop
<1> USE DEF At, mainVars, OthersUnchanged, flagVars
<1>1. CASE SetFadeStart
  BY <1>1 DEF SetFadeStart
<1>2. CASE FinalizeStop \/ PlayInvalid \/ PlayFindsNoFile \/ SetPlaying \/ Pause \/ FinalizePause
           \/ Resume \/ NextSong \/ NextSongDone \/ UnsetFading
  BY <1>2 DEF FinalizeStop, PlayInvalid, PlayFindsNoFile, SetPlaying, Pause, FinalizePause,
              Resume, NextSong, NextSongDone, UnsetFading
<1>3. CASE PlayOpens \/ PlaySucceeds \/ PlayFails \/ PlayGivesUp \/ AddStream \/ FullVolume
           \/ PostRestart \/ KillFader \/ JoinFader \/ Destroy
  BY <1>3 DEF PlayOpens, PlaySucceeds, PlayFails, PlayGivesUp, AddStream, FullVolume, PostRestart,
              KillFader, JoinFader, Destroy
<1>4. CASE DeleteAll \/ DeleteOld
  BY <1>4 DEF DeleteAll, DeleteOld, DeleteStreams
<1>5. CASE AbortStep \/ CancelStep \/ ClearOldStreams
  BY <1>5 DEF AbortStep, CancelStep, ClearOldStreams
<1>6. CASE Stop
  BY <1>6 DEF Stop, StopIgnored, StopStarts
<1>7. CASE OnPlayerEvent \/ OnExitFadeDone \/ \E c \in Commands : Command(c)
  BY <1>7 DEF OnPlayerEvent, OnExitFadeDone, Command, Idle
<1>8. CASE Fader
  BY <1>8 DEF Fader, FaderLoop, FaderFindsActive, FaderCatches, FaderAborts, FaderStops, FaderSpawns,
              FaderAttaches, FaderChecks, FaderReads, FaderPostsNext, FaderHasTimeLeft
<1>9. CASE \E s \in Slots : Crossfader(s)
  BY <1>9 DEF Crossfader, XfReturnsEarly, XfEnters, XfFades, XfReturns, XfExits
<1>10. CASE UNCHANGED vars
  BY <1>10 DEF vars
<1> QED
  BY <1>1, <1>2, <1>3, <1>4, <1>5, <1>6, <1>7, <1>8, <1>9, <1>10 DEF Next, Main, Handler, Wait

(* A pending event stays until it is taken, and a taken one clears.        *)
LEMMA ClearingEventStays ==
    ASSUME TypeInv, [Next]_vars, NEW i \in DOMAIN events, Clears(events[i])
    PROVE  (\E j \in DOMAIN events' : Clears(events'[j])) \/ Later(todo')
<1>1. /\ events \in Seq(Events) /\ EventsOK
      /\ Len(events) \in Nat /\ DOMAIN events = 1..Len(events)
  BY LenProperties DEF TypeInv, TypeOK, EventsOK
<1>2. ASSUME NEW e, events' = Append(events, e)
      PROVE  \E j \in DOMAIN events' : Clears(events'[j])
  <2>1. DOMAIN events' = 1..(Len(events) + 1) /\ \A k \in 1..Len(events) : events'[k] = events[k]
    BY <1>1, <1>2
  <2>2. i \in DOMAIN events' /\ events'[i] = events[i]
    BY <1>1, <2>1
  <2> QED
    BY <2>2
<1>3. CASE OnPlayerEvent
  <2>1. /\ events # <<>> /\ events' = Tail(events)
        /\ Head(events).name = "fadeComplete" => todo' = FadeCompleteSteps(Head(events))
    BY <1>3 DEF OnPlayerEvent
  <2>2. CASE i = 1
    <3>1. Head(events) = events[1] /\ events[1] \in Events
      BY <1>1, <2>1, <2>2, ElementOfSeq
    <3> QED
      BY <2>1, <2>2, <3>1, FadeCompleteStarted DEF Clears
  <2>3. CASE i # 1
    <3>1. /\ Len(events') = Len(events) - 1 /\ \A k \in 1..Len(events') : events'[k] = events[k + 1]
          /\ DOMAIN events' = 1..Len(events')
      BY <1>1, <2>1, HeadTailProperties
    <3>2. i - 1 \in DOMAIN events' /\ (i - 1) + 1 = i
      BY <1>1, <2>3, <3>1
    <3>3. events'[i - 1] = events[i]
      BY <3>1, <3>2
    <3> QED
      BY <3>2, <3>3
  <2> QED
    BY <2>2, <2>3
<1>4. CASE events' = events
  BY <1>4
<1>5. FaderPostsNext \/ PostsOther => \E e : events' = Append(events, e)
  BY DEF FaderPostsNext, PostsOther
<1> QED
  BY <1>2, <1>3, <1>4, <1>5, EventEffect

(* Stopping a crossfader does not abort it.                                *)
LEMMA StopKeepsClearing ==
    ASSUME TypeInv, NEW t \in Threads, StopFindsNone(t) \/ StopTakes(t) \/ StopJoins(t),
           NEW s \in Slots, WillClear(s)
    PROVE  WillClear(s)'
<1> USE DEF TypeInv, TypeOK, XfOK, XfObjects, WillClear
<1>1. CASE StopFindsNone(t)
  BY <1>1 DEF StopFindsNone, xfVars
<1>2. CASE StopTakes(t)
  BY <1>2 DEF StopTakes
<1>3. CASE StopJoins(t)
  BY <1>3 DEF StopJoins
<1> QED
  BY <1>1, <1>2, <1>3

(* A crossfader that is not aborted runs on until it posts its event.      *)
LEMMA CrossfaderClears ==
    ASSUME TypeInv, NEW r \in Slots, Crossfader(r), NEW s \in Slots, WillClear(s)
    PROVE  WillClear(s)' \/ \E i \in DOMAIN events' : Clears(events'[i])
<1>1. xf \in [Slots -> XfObjects] /\ xf[s] \in XfObjects
  BY DEF TypeInv, TypeOK, XfOK
<1>2. CASE XfExits(r) /\ s = r
  <2>1. events \in Seq(Events) /\ Len(events) \in Nat
    BY LenProperties DEF TypeInv, TypeOK, EventsOK
  <2>2. events' = Append(events, FadeComplete(xf[s].type, xf[s].aborted)) /\ ~xf[s].aborted
    BY <1>2 DEF XfExits, WillClear
  <2>3. /\ Len(events) + 1 \in DOMAIN events'
        /\ events'[Len(events) + 1] = FadeComplete(xf[s].type, xf[s].aborted)
    BY <2>1, <2>2
  <2> QED
    BY <2>2, <2>3 DEF Clears, FadeComplete
<1> USE <1>1 DEF WillClear, XfObjects
<1>3. CASE s # r
  BY <1>3 DEF Crossfader, XfReturnsEarly, XfEnters, XfFades, XfReturns, XfExits
<1>4. CASE s = r /\ (XfReturnsEarly(r) \/ XfFades(r))
  BY <1>4 DEF XfReturnsEarly, XfFades
<1>5. CASE s = r /\ XfEnters(r)
  BY <1>5 DEF XfEnters
<1>6. CASE s = r /\ XfReturns(r)
  BY <1>6 DEF XfReturns
<1> QED
  BY <1>2, <1>3, <1>4, <1>5, <1>6 DEF Crossfader

(* What the fader took on it passes on.                                    *)
LEMMA FaderKeepsElsewhere ==
    ASSUME TypeInv, AbortInv, Fader,
           beginFade \/ faderPc \in {"stopOld", "spawn", "attach"} \/ \E s \in Slots : WillClear(s)
    PROVE  Elsewhere'
<1>1. ctl \in Slots \union {NoSlot} /\ xf \in [Slots -> XfObjects] /\ "fader" \in Threads
  BY DEF TypeInv, TypeOK, XfOK, Threads
<1> USE DEF Elsewhere
<1>2. CASE FaderLoop \/ FaderFindsActive \/ FaderChecks \/ FaderReads \/ FaderPostsNext \/ FaderHasTimeLeft
  BY <1>2 DEF FaderLoop, FaderFindsActive, FaderChecks, FaderReads, FaderPostsNext, FaderHasTimeLeft,
              WillClear, xfVars, flagVars
<1>3. CASE FaderCatches
  BY <1>3 DEF FaderCatches
<1>4. CASE FaderAborts
  BY <1>4 DEF FaderAborts, AbortInv, flagVars
<1>5. CASE FaderStops
  <2>1. beginFade' = beginFade /\ (faderPc = "stopOld" => faderPc' \in {"stopOld", "spawn"})
        /\ faderPc \notin {"spawn", "attach"}
    BY <1>5 DEF FaderStops, flagVars
  <2>2. StopFindsNone("fader") \/ StopTakes("fader") \/ StopJoins("fader")
    BY <1>5 DEF FaderStops
  <2> QED
    BY <1>1, <2>1, <2>2, StopKeepsClearing
<1>6. CASE FaderSpawns
  BY <1>6 DEF FaderSpawns
<1>7. CASE FaderAttaches
  <2>1. PICK s \in Slots :
          /\ xf[s].pc = "new"
          /\ xf' = [t \in Slots |-> IF t = s THEN [xf[s] EXCEPT !.pc = "start"]
                                    ELSE IF t = ctl THEN NoXf ELSE xf[t]]
    BY <1>7 DEF FaderAttaches
  <2>2. xf'[s].aborted = xf[s].aborted /\ xf'[s].pc = "start"
    BY <1>1, <2>1 DEF XfObjects
  <2> QED
    BY <2>1, <2>2 DEF AbortInv, WillClear
<1> QED
  BY <1>2, <1>3, <1>4, <1>5, <1>6, <1>7 DEF Fader

(* Only the GUI thread may take a debt from elsewhere on itself.           *)
LEMMA ElsewhereStays ==
    ASSUME TypeInv, Linked(todo), AbortInv, Elsewhere, [Next]_vars
    PROVE  Elsewhere' \/ Later(todo')
<1>1. CASE \E i \in DOMAIN events : Clears(events[i])
  BY <1>1, ClearingEventStays DEF Elsewhere
<1>2. CASE beginFade \/ faderPc \in {"stopOld", "spawn", "attach"} \/ \E s \in Slots : WillClear(s)
  <2>1. CASE UNCHANGED <<faderPc, xfVars>> /\ (beginFade => beginFade')
    BY <1>2, <2>1 DEF Elsewhere, WillClear, xfVars
  <2>2. CASE AbortStep
    <3>1. todo # <<>> /\ Head(todo) = "abort" /\ todo' = Tail(todo)
      BY <2>2 DEF AbortStep, At, Proceed
    <3>2. todo \in Seq(Steps)
      BY DEF TypeInv, TypeOK, MainOK
    <3> QED
      BY <3>1, <3>2, TailLinked
  <2>3. CASE CancelStep /\ UNCHANGED <<faderPc, beginFade>>
    <3>1. "main" \in Threads /\ (StopFindsNone("main") \/ StopTakes("main") \/ StopJoins("main"))
      BY <2>3 DEF CancelStep, Threads
    <3> QED
      BY <1>2, <2>3, <3>1, StopKeepsClearing DEF Elsewhere
  <2>4. CASE Fader
    BY <1>2, <2>4, FaderKeepsElsewhere
  <2>5. ASSUME NEW r \in Slots, Crossfader(r) PROVE Elsewhere'
    <3>1. UNCHANGED <<beginFade, faderPc>>
      BY <2>5 DEF Crossfader, XfReturnsEarly, XfEnters, XfFades, XfReturns, XfExits, flagVars, faderVars
    <3> QED
      BY <1>2, <2>5, <3>1, CrossfaderClears DEF Elsewhere
  <2> QED
    BY <2>1, <2>2, <2>3, <2>4, <2>5, AbortEffect
<1> QED
  BY <1>1, <1>2 DEF Elsewhere

(* A handler that will clear old streams does so, passes the debt on to    *)
(* the fader, or finds a crossfader that will.                             *)
LEMMA LaterStays ==
    ASSUME TypeInv, Linked(todo), FilledInv, AbortInv, Later(todo), [Next]_vars
    PROVE  Debt' \/ ~(Len(active') > 1)
<1>1. todo \in Seq(Steps) /\ ctl \in Slots \union {NoSlot} /\ active \in Seq(Streams)
  BY DEF TypeInv, TypeOK, MainOK, XfOK, StreamsOK
<1>2. todo # <<>>
  <2>1. Len(todo) # 0
    BY <1>1, LenProperties DEF Later
  <2> QED
    BY <2>1
<1> USE DEF Debt
<1>3. CASE todo' = todo
  BY <1>3
<1>4. CASE todo' # todo /\ Head(todo) = "beginFade"
  BY <1>2, <1>4, DebtSteps DEF Elsewhere
<1>5. CASE todo' # todo /\ Head(todo) \in {"deleteAll", "deleteOld"}
  <2>1. active' = <<>> \/ active' = <<Last(active)>>
    BY <1>2, <1>5, DebtSteps
  <2> QED
    BY <2>1
<1>6. CASE todo' # todo /\ Head(todo) = "clearOld"
  <2>1. ClearOldStreams
    BY <1>2, <1>6, DebtSteps
  <2>2. CASE CrossfaderActive
    <3>1. ctl \in Slots /\ xf[ctl].pc \in {"start", "fade"}
      BY <1>1, <2>2 DEF CrossfaderActive, Alive
    <3>2. UNCHANGED <<beginFade, xf>>
      BY <2>1 DEF ClearOldStreams, flagVars, xfVars
    <3>3. xf[ctl].aborted => beginFade
      BY <1>6, <2>2 DEF AbortInv, At
    <3> QED
      BY <3>1, <3>2, <3>3 DEF Elsewhere, WillClear
  <2>3. CASE ~CrossfaderActive
    <3> DEFINE s == <<"abort", "cancel", "deleteOld">>
    <3>1. Become(s)
      BY <2>1, <2>3 DEF ClearOldStreams
    <3>2. s \in Seq(Steps) /\ Linked(s)
      BY BodiesLinked DEF Bodies
    <3>3. Later(s)
      <4>1. 3 \in 1..Len(s) /\ s[3] = "deleteOld"
        OBVIOUS
      <4> QED
        BY <4>1 DEF Later, Clearing
    <3> HIDE DEF s
    <3>4. Later(todo')
      BY <1>1, <1>2, <1>6, <3>1, <3>2, <3>3, BecomeLinked
    <3> QED
      BY <3>4
  <2> QED
    BY <2>2, <2>3
<1>7. CASE todo' # todo /\ Head(todo) \notin Clearing
  <2>1. CASE Proceed
    BY <1>1, <1>2, <1>7, <2>1, TailLinked DEF Proceed
  <2>2. CASE Head(todo) \notin {"addStream", "finalizeStop"} /\ \E s \in Bodies \union Retries : Become(s)
    <3>1. PICK s \in Bodies \union Retries : Become(s)
      BY <2>2
    <3>2. s \in Seq(Steps) /\ Linked(s)
      BY BodiesLinked, RetriesLinked
    <3>3. Later(todo')
      BY <1>1, <1>2, <1>7, <2>2, <3>1, <3>2, BecomeLinked
    <3> QED
      BY <3>3
  <2>3. CASE Head(todo) = "deleteNew" /\ todo' = <<"stopNow">> \o SubSeq(todo, 8, Len(todo))
    <3>1. SubSeq(todo, 8, Len(todo)) \in Seq(Steps) /\ <<"stopNow">> \in Seq(Steps)
      BY <1>2, <2>3, GivenUpLinked DEF Steps
    <3>2. todo' # <<>> /\ Head(todo') = "stopNow"
      BY <2>3, <3>1, HeadTailConcat
    <3>3. ~stopping'
      BY <1>2, <1>7, <2>3, DebtSteps DEF FilledInv, Tries
    <3> QED
      BY <3>2, <3>3 DEF At
  <2> QED
    BY <1>2, <1>7, <2>1, <2>2, <2>3, WhatComes
<1> QED
  BY <1>3, <1>4, <1>5, <1>6, <1>7 DEF Clearing

(* A player that is not yet stopping is stopped at once.                   *)
LEMMA StopNowStays ==
    ASSUME TypeInv, Linked(todo), At("stopNow"), ~stopping, [Next]_vars
    PROVE  Debt'
<1>1. todo \in Seq(Steps) /\ todo # <<>> /\ Head(todo) = "stopNow"
  BY DEF TypeInv, TypeOK, MainOK, At
<1>2. CASE Neutral
  BY <1>1, <1>2 DEF Neutral, Debt, At
<1>3. CASE Stop
  <2> DEFINE s == <<"finalizeStop", "deleteAll">>
  <2>2. Become(s)
    BY <1>1, <1>3 DEF Stop, StopIgnored, StopStarts, StopFades, At
  <2>3. s \in Seq(Steps) /\ Linked(s)
    BY BodiesLinked DEF Bodies
  <2>4. Later(s)
    <3>1. 2 \in 1..Len(s) /\ s[2] = "deleteAll"
      OBVIOUS
    <3> QED
      BY <3>1 DEF Later, Clearing
  <2> HIDE DEF s
  <2>5. Later(todo')
    BY <1>1, <2>2, <2>3, <2>4, BecomeLinked
  <2> QED
    BY <2>5 DEF Debt
<1>4. Neutral \/ Stop
  BY <1>1, FilledEffect DEF FinalizeStop, PlayInvalid, SetPlaying, DeleteAll, DeleteOld, PlayOpens,
                            PlaySucceeds, PlayFails, PlayGivesUp, AddStream, At
<1> QED
  BY <1>2, <1>3, <1>4

(* Streams are added by AddStream alone.                                   *)
LEMMA MoreStreams ==
    ASSUME TypeInv, [Next]_vars, Len(active') > 1
    PROVE  AddStream \/ Len(active) > 1
<1>1. active \in Seq(Streams) /\ Len(active) \in Nat
  BY LenProperties DEF TypeInv, TypeOK, StreamsOK
<1>3. CASE PlayFails
  <2>1. active' = IF active = <<>> THEN <<>> ELSE Tail(active)
    BY <1>3 DEF PlayFails, DeleteStreams
  <2>2. active # <<>> => Len(Tail(active)) = Len(active) - 1
    BY <1>1, HeadTailProperties
  <2> QED
    BY <1>1, <2>1, <2>2
<1>4. CASE DeleteAll \/ DeleteOld
  <2>1. active' = <<>> \/ active' = <<Last(active)>>
    BY <1>4 DEF DeleteAll, DeleteOld, DeleteStreams
  <2>2. Len(active') = 0 \/ Len(active') = 1
    BY <2>1
  <2>3. ~(0 > 1) /\ ~(1 > 1)
    OBVIOUS
  <2> QED
    BY <2>2, <2>3, Zenon
<1>5. CASE Neutral \/ Stop \/ FinalizeStop \/ PlayInvalid \/ SetPlaying \/ PlayOpens \/ PlaySucceeds \/ PlayGivesUp
  <2>1. active' = active
    BY <1>5 DEF Neutral, Stop, StopIgnored, StopStarts, FinalizeStop, PlayInvalid, SetPlaying, PlayOpens,
                PlaySucceeds, PlayGivesUp, streamVars
  <2> QED
    BY <2>1
<1> QED
  BY <1>3, <1>4, <1>5, FilledEffect

(* DebtInv is inductive, given the other invariants.                       *)
LEMMA NextKeepsDebt ==
    ASSUME TypeInv, Linked(todo), FilledInv, AbortInv, DebtInv, [Next]_vars
    PROVE  DebtInv'
<1> SUFFICES ASSUME Len(active') > 1 PROVE Debt'
  BY DEF DebtInv
<1>2. CASE AddStream
  <2>1. todo # <<>> /\ Head(todo) = "addStream" /\ todo' = Tail(todo)
    BY <1>2 DEF AddStream, At, Proceed
  <2>2. todo \in Seq(Steps)
    BY DEF TypeInv, TypeOK, MainOK
  <2>3. Later(todo')
    BY <2>1, <2>2, TailLinked
  <2> QED
    BY <2>3 DEF Debt
<1>3. CASE Len(active) > 1
  <2>1. CASE Later(todo)
    BY <2>1, LaterStays
  <2>2. CASE At("stopNow") /\ ~stopping
    BY <2>2, StopNowStays
  <2>3. CASE Elsewhere
    BY <2>3, ElsewhereStays DEF Debt
  <2> QED
    BY <1>3, <2>1, <2>2, <2>3 DEF DebtInv, Debt
<1> QED
  BY <1>2, <1>3, MoreStreams

(* When nothing is under way and the player plays, there is one stream     *)
(* (OneStreamWhenQuiet).                                                   *)
THEOREM OldStreamsGo == Spec => []OneStreamWhenQuiet
<1>1. Init => DebtInv
  BY DEF Init, DebtInv
<1>2. TypeInv /\ Linked(todo) /\ FilledInv /\ AbortInv /\ DebtInv /\ [Next]_vars => DebtInv'
  BY NextKeepsDebt
<1>3. TypeInv /\ FilledInv /\ DebtInv => OneStreamWhenQuiet
  <2> SUFFICES ASSUME TypeInv, FilledInv, DebtInv, Quiet, playing PROVE Len(active) = 1
    BY DEF OneStreamWhenQuiet
  <2>1. active \in Seq(Streams) /\ Len(active) \in Nat /\ xf \in [Slots -> XfObjects]
    BY LenProperties DEF TypeInv, TypeOK, StreamsOK, XfOK
  <2>2. todo = <<>> /\ events = <<>> /\ ~At("stopNow") /\ ~Later(todo)
    BY DEF Quiet, At, Later
  <2>3. active # <<>>
    BY <2>2 DEF FilledInv, Refilled
  <2>4. Len(active) # 0
    BY <2>1, <2>3, EmptySeq
  <2>5. ~Elsewhere
    BY <2>2 DEF Quiet, Elsewhere, WillClear
  <2>6. ~(Len(active) > 1)
    BY <2>2, <2>5 DEF DebtInv, Debt
  <2>7. \A n \in Nat : n # 0 /\ ~(n > 1) => n = 1
    OBVIOUS
  <2>8. Len(active) \in Nat
    BY <2>1
  <2> QED
    BY <2>4, <2>6, <2>7, <2>8, Zenon
<1> QED
  BY <1>1, <1>2, <1>3, TypeInvariant, LinkedInvariant, FilledInvariant, AbortInvariant, PTL DEF Spec
=============================================================================
