----------------------------- MODULE MusikThreads ----------------------------
(***************************************************************************)
(* The two threads of Threads/MusikThreads.cpp.  The fader always runs: it *)
(* starts the crossfader when the player asks for a fade and posts         *)
(* NEXT_SONG when the song is about to end.  A crossfader changes volumes  *)
(* while it holds m_protectingStreamArrays, then posts FADE_COMPLETE.      *)
(***************************************************************************)
EXTENDS PlayerState

-----------------------------------------------------------------------------
(* The controller of the crossfader, used by the GUI thread and the fader. *)

(* Mutant: the region of CrossfaderAbort spans its call of CrossfaderStop. *)
AbortKeepsCrit ==
    /\ crit = "none" /\ crit' = "main"
    /\ xf' = IF CrossfaderActive THEN [xf EXCEPT ![ctl].aborted = TRUE] ELSE xf
    /\ UNCHANGED <<ctl, joining, streamsLock>>

(* First region of CrossfaderAbort: a live crossfader is told to abort.    *)
AbortCrossfader ==
    /\ crit = "none"
    /\ xf' = IF CrossfaderActive THEN [xf EXCEPT ![ctl].aborted = TRUE] ELSE xf
    /\ UNCHANGED <<ctl, crit, joining, streamsLock>>

(* CrossfaderStop, with Cancel() and Empty(): the pointer is cleared, then *)
(* Delete() waits for the thread to end inside the critical section.       *)
StopFindsNone(t) ==
    /\ crit = "none" /\ joining[t] = NoSlot /\ ~CrossfaderActive
    /\ UNCHANGED xfVars

(* Mutant: Delete() is called after the critical section was left.         *)
StopTakesAndLeaves(t) ==
    /\ crit = "none" /\ joining[t] = NoSlot /\ CrossfaderActive
    /\ joining' = [joining EXCEPT ![t] = ctl]
    /\ ctl' = NoSlot
    /\ xf' = [xf EXCEPT ![ctl].kill = TRUE]
    /\ UNCHANGED <<crit, streamsLock>>

StopTakes(t) ==
    /\ crit = "none" /\ joining[t] = NoSlot /\ CrossfaderActive
    /\ crit' = t
    /\ joining' = [joining EXCEPT ![t] = ctl]
    /\ ctl' = NoSlot
    /\ xf' = [xf EXCEPT ![ctl].kill = TRUE]
    /\ UNCHANGED streamsLock

StopJoins(t) ==
    /\ joining[t] # NoSlot
    /\ xf[joining[t]].pc = "dead"
    /\ xf' = [xf EXCEPT ![joining[t]] = NoXf]
    /\ joining' = [joining EXCEPT ![t] = NoSlot]
    /\ crit' = "none"
    /\ UNCHANGED <<ctl, streamsLock>>

-----------------------------------------------------------------------------
(* MusikFaderThread                                                        *)

(* Top of the loop: TestDestroy(), IsPlaying() and BeginFade().            *)
FaderLoop ==
    /\ faderPc = "loop"
    /\ \/ faderKill /\ faderPc' = "onExit"
       \/ ~faderKill /\ playing /\ faderPc' = IF beginFade THEN "begin" ELSE "check"
    /\ UNCHANGED <<flagVars, streamVars, eventVars, mainVars, faderKill, saw, xfVars>>

(* A crossfader is still active: get rid of it and come back later.        *)
FaderFindsActive ==
    /\ faderPc = "begin" /\ CrossfaderActive
    /\ faderPc' = "abort"
    /\ UNCHANGED <<flagVars, streamVars, eventVars, mainVars, faderKill, saw, xfVars>>

(* None is active: CaughtBeginFade(), then StartNew().                     *)
FaderCatches ==
    /\ faderPc = "begin" /\ ~CrossfaderActive
    /\ beginFade' = FALSE
    /\ faderPc' = "stopOld"
    /\ UNCHANGED <<playing, paused, fading, startingNext, stopping, fadeType,
                   streamVars, eventVars, mainVars, faderKill, saw, xfVars>>

FaderAborts ==
    /\ faderPc = "abort"
    /\ AbortCrossfader
    /\ faderPc' = "cancel"
    /\ UNCHANGED <<flagVars, streamVars, eventVars, mainVars, faderKill, saw>>

(* CrossfaderStop: called after the abort, by StartNew and by OnExit.  The *)
(* second call that follows an abort finds no crossfader and is left out.  *)
FaderStops ==
    /\ faderPc \in {"cancel", "stopOld", "onExit"}
    /\ LET next == CASE faderPc = "cancel"  -> "check"
                     [] faderPc = "stopOld" -> "spawn"
                     [] faderPc = "onExit"  -> "gone"
       IN \/ StopFindsNone("fader") /\ faderPc' = next
          \/ StopTakes("fader")     /\ UNCHANGED faderPc
          \/ StopJoins("fader")     /\ faderPc' = next
    /\ UNCHANGED <<flagVars, streamVars, eventVars, mainVars, faderKill, saw>>

(* new MusikCrossfaderThread: the constructor reads the type of the fade.  *)
(* Which storage the object gets makes no difference: the lowest is taken. *)
FreeSlots == {s \in Slots : xf[s].pc = "free" /\ \A t \in Slots : t < s => xf[t].pc # "free"}

FaderSpawns ==
    /\ faderPc = "spawn"
    /\ \E s \in FreeSlots :
        xf' = [xf EXCEPT ![s] = [NoXf EXCEPT !.pc = "new", !.type = fadeType]]
    /\ faderPc' = "attach"
    /\ UNCHANGED <<flagVars, streamVars, eventVars, mainVars, faderKill, saw,
                   ctl, crit, joining, streamsLock>>

(* AttachAndRun: Attach() joins and deletes the thread that ended before.  *)
FaderAttaches ==
    /\ faderPc = "attach"
    /\ ctl # NoSlot => xf[ctl].pc = "dead"
    /\ \E s \in Slots :
        /\ xf[s].pc = "new"
        /\ xf' = [t \in Slots |-> IF t = s THEN [xf[s] EXCEPT !.pc = "start"]
                                  ELSE IF t = ctl THEN NoXf ELSE xf[t]]
        /\ ctl' = s
    /\ faderPc' = "check"
    /\ UNCHANGED <<flagVars, streamVars, eventVars, mainVars, faderKill, saw,
                   crit, joining, streamsLock>>

(* Mutant: IsStartingNext() is not asked.                                  *)
FaderChecksFadingOnly ==
    /\ faderPc = "check"
    /\ faderPc' = IF ~fading THEN "read" ELSE "loop"
    /\ UNCHANGED <<flagVars, streamVars, eventVars, mainVars, faderKill, saw, xfVars>>

FaderChecks ==
    /\ faderPc = "check"
    /\ faderPc' = IF ~startingNext /\ ~fading THEN "read" ELSE "loop"
    /\ UNCHANGED <<flagVars, streamVars, eventVars, mainVars, faderKill, saw, xfVars>>

(* GetTimeLeft reads m_ActiveStreams without a lock ...                    *)
FaderReads ==
    /\ faderPc = "read"
    /\ saw' = Primary
    /\ faderPc' = "ask"
    /\ UNCHANGED <<flagVars, streamVars, eventVars, mainVars, faderKill, xfVars>>

(* ... and asks the stream it found for its time.  No stream counts as one *)
(* with no time left.  Without fades IsPlaying() is asked once more.       *)
FaderPostsNext ==
    /\ faderPc = "ask"
    /\ ends < MaxEnds
    /\ FadeEnable \/ playing
    /\ startingNext' = TRUE
    /\ events' = Append(events, Event("nextSong"))
    /\ ends' = ends + 1
    /\ faderPc' = "loop" /\ saw' = NoStream
    /\ UNCHANGED <<playing, paused, beginFade, fading, stopping, fadeType, streamVars,
                   exitDone, restartPosted, todo, frame, empty, ops, faderKill, xfVars>>

FaderHasTimeLeft ==
    /\ faderPc = "ask"
    /\ saw = NoStream => (~FadeEnable /\ ~playing) \/ ends = MaxEnds
    /\ faderPc' = "loop" /\ saw' = NoStream
    /\ UNCHANGED <<flagVars, streamVars, eventVars, mainVars, faderKill, xfVars>>

Fader == \/ FaderLoop \/ FaderFindsActive \/ FaderCatches \/ FaderAborts \/ FaderStops
         \/ FaderSpawns \/ FaderAttaches \/ FaderChecks \/ FaderReads
         \/ FaderPostsNext \/ FaderHasTimeLeft

-----------------------------------------------------------------------------
(* MusikCrossfaderThread                                                   *)

(* Mutant: the regular fade spares one stream too many.                    *)
FadeOutCountSkipsTwo(type) == CASE type \in {"pause", "stop", "exit"} -> Len(active)
                                [] type = "resume"                    -> 0
                                [] OTHER                              -> Len(active) - 2

(* How many streams fade out, and which one (counted from 1) fades in.     *)
FadeOutCount(type) == CASE type \in {"pause", "stop", "exit"} -> Len(active)
                        [] type = "resume"                    -> 0
                        [] OTHER                              -> Len(active) - 1
(* Mutant: the stream before the last one fades in.                        *)
FadeInIndexCountsFromZero(type) == CASE type \in {"pause", "stop", "exit"} -> 0
                                     [] type = "resume"                    -> 1
                                     [] OTHER                              -> Len(active) - 1
FadeInIndex(type)  == CASE type \in {"pause", "stop", "exit"} -> 0
                        [] type = "resume"                    -> 1
                        [] OTHER                              -> Len(active)

(* Entry takes the lock.  Without streams, or with a song too short for    *)
(* two fades, which only gets its full volume, it returns at once.         *)
XfReturnsEarly(s) ==
    /\ xf[s].pc = "start" /\ streamsLock = NoSlot
    /\ \/ active = <<>> /\ UNCHANGED volume
       \/ active # <<>> /\ ShortSongs /\ volume' = [volume EXCEPT ![Primary] = "full"]
    /\ xf' = [xf EXCEPT ![s].pc = "exit"]
    /\ UNCHANGED <<flagVars, active, opening, opened, deleted, eventVars, mainVars,
                   faderVars, ctl, crit, joining, streamsLock>>

XfEnters(s) ==
    /\ xf[s].pc = "start" /\ streamsLock = NoSlot
    /\ active # <<>>
    /\ streamsLock' = s
    /\ xf' = [xf EXCEPT ![s] = [@ EXCEPT !.pc = "fade",
                                         !.out = FadeOutCount(xf[s].type),
                                         !.in = FadeInIndex(xf[s].type)]]
    /\ UNCHANGED <<flagVars, streamVars, eventVars, mainVars, faderVars, ctl, crit, joining>>

(* One round of the fade loop; the last one ends at silence and full.      *)
FadedVolume(s, i) ==
    LET v    == volume[active[i]]
        last == xf[s].step + 1 = FadeSteps
    IN  IF i = xf[s].in THEN IF last THEN "full" ELSE "some"
        ELSE IF i <= xf[s].out THEN IF last \/ v = "silent" THEN "silent" ELSE "some"
        ELSE v

XfFades(s) ==
    /\ xf[s].pc = "fade" /\ xf[s].step < FadeSteps
    /\ ~xf[s].kill /\ ~xf[s].aborted
    /\ volume' = [n \in Streams |-> IF \E i \in DOMAIN active : active[i] = n
                                    THEN FadedVolume(s, CHOOSE i \in DOMAIN active : active[i] = n)
                                    ELSE volume[n]]
    /\ xf' = [xf EXCEPT ![s].step = @ + 1]
    /\ UNCHANGED <<flagVars, active, opening, opened, deleted, eventVars, mainVars,
                   faderVars, ctl, crit, joining, streamsLock>>

XfReturns(s) ==
    /\ xf[s].pc = "fade"
    /\ xf[s].step = FadeSteps \/ xf[s].kill \/ xf[s].aborted
    /\ xf' = [xf EXCEPT ![s] = [@ EXCEPT !.pc = "exit", !.step = 0, !.out = 0, !.in = 0]]
    /\ streamsLock' = NoSlot
    /\ UNCHANGED <<flagVars, streamVars, eventVars, mainVars, faderVars, ctl, crit, joining>>

(* OnExit posts to the player, and for an exit fade to the main window.    *)
XfExits(s) ==
    /\ xf[s].pc = "exit"
    /\ events' = Append(events, FadeComplete(xf[s].type, xf[s].aborted))
    /\ exitDone' = IF xf[s].type = "exit" THEN exitDone + 1 ELSE exitDone
    /\ xf' = [xf EXCEPT ![s] = [NoXf EXCEPT !.pc = "dead"]]
    /\ UNCHANGED <<flagVars, streamVars, restartPosted, mainVars, faderVars,
                   ctl, crit, joining, streamsLock>>

Crossfader(s) == \/ XfReturnsEarly(s) \/ XfEnters(s) \/ XfFades(s) \/ XfReturns(s) \/ XfExits(s)
=============================================================================
