----------------------------- MODULE MusikPlayer -----------------------------
(***************************************************************************)
(* CMusikPlayer, which lives in the GUI thread, and its composition with   *)
(* the fader and the crossfader.  The GUI thread runs one handler at a     *)
(* time; todo holds the steps the handler still has to take.  A step ends  *)
(* where the thread may wait (a critical section, the end of a thread) or  *)
(* where another thread may read a half-written state; a step that names   *)
(* a method is replaced by the steps of the method's body.                 *)
(***************************************************************************)
EXTENDS MusikThreads

Steps == {
    "play", "playSeek", "next", "nextDone", "stop", "stopNow", "stopExit",
    "pause", "resume",                                      \* methods
    "tryPlay", "tryAgain", "deleteNew", "addStream", "setPlaying", "fullVolume",
    "beginFade", "setFading", "unsetFading",
    "finalizeStop", "deleteAll", "finalizePause", "clearOld", "deleteOld",
    "abort", "cancel", "postRestart", "killFader", "joinFader", "destroy" }

Init ==
    /\ playing = FALSE /\ paused = FALSE /\ beginFade = FALSE /\ fading = FALSE
    /\ startingNext = FALSE /\ stopping = FALSE /\ fadeType = "normal"
    /\ active = <<>> /\ opening = NoStream /\ opened = 0 /\ deleted = {}
    /\ volume = [n \in Streams |-> "silent"]
    /\ events = <<>> /\ exitDone = 0 /\ restartPosted = FALSE
    /\ todo = <<>> /\ frame = "shown" /\ empty \in BOOLEAN /\ ops = 0 /\ ends = 0
    /\ faderPc = "loop" /\ faderKill = FALSE /\ saw = NoStream
    /\ ctl = NoSlot /\ xf = [s \in Slots |-> NoXf] /\ crit = "none"
    /\ joining = [t \in Threads |-> NoSlot] /\ streamsLock = NoSlot

-----------------------------------------------------------------------------
At(step)      == todo # <<>> /\ Head(todo) = step
Become(steps) == todo' = steps \o Tail(todo)
Proceed       == todo' = Tail(todo)
Locked        == streamsLock # NoSlot       \* m_protectingStreamArrays is taken
OthersUnchanged == UNCHANGED <<frame, empty, ops, ends, faderVars>>

-----------------------------------------------------------------------------
(* Stop(bCheckFade, bExit): Stop() is "stop", Stop(false) is "stopNow" and *)
(* Stop(true, true) is "stopExit".  With fades enabled the player is only  *)
(* told to fade; OnFadeCompleteEvt stops it.                               *)
StopFades(call) == call # "stopNow" /\ StopFade

StopIgnored(call) ==
    /\ At(call) /\ stopping
    /\ Proceed
    /\ UNCHANGED <<flagVars, streamVars, eventVars, xfVars>> /\ OthersUnchanged

StopStarts(call) ==
    /\ At(call) /\ ~stopping
    /\ stopping' = TRUE
    /\ fadeType' = IF call = "stopExit" THEN "exit" ELSE "stop"
    /\ Become(IF ~StopFades(call) THEN <<"finalizeStop", "deleteAll">>
              ELSE IF playing THEN <<"beginFade", "setFading">> ELSE <<>>)
    /\ UNCHANGED <<playing, paused, beginFade, fading, startingNext,
                   streamVars, eventVars, xfVars>> /\ OthersUnchanged

Stop == \E call \in {"stop", "stopNow", "stopExit"} : StopIgnored(call) \/ StopStarts(call)

(* SetFadeStart: two plain stores that the fader may see one by one.       *)
SetFadeStart ==
    /\ \/ At("beginFade") /\ beginFade' = TRUE /\ UNCHANGED fading
       \/ At("setFading") /\ fading' = TRUE /\ UNCHANGED beginFade
    /\ Proceed
    /\ UNCHANGED <<playing, paused, startingNext, stopping, fadeType,
                   streamVars, eventVars, xfVars>> /\ OthersUnchanged

(* FinalizeStop: the flags first, then all streams under the lock.         *)
FinalizeStop ==
    /\ At("finalizeStop")
    /\ playing' = FALSE /\ paused' = FALSE /\ stopping' = FALSE
    /\ Proceed
    /\ UNCHANGED <<beginFade, fading, startingNext, fadeType,
                   streamVars, eventVars, xfVars>> /\ OthersUnchanged

(* Mutants: streams are deleted without the lock, or only dropped from the *)
(* array.                                                                  *)
DeleteStreamsUnlocked(kept) ==
    /\ active' = kept
    /\ deleted' = deleted \union (ToSet(active) \ ToSet(kept))
    /\ volume' = [n \in Streams |-> IF n \in ToSet(kept) THEN volume[n] ELSE "silent"]

DropStreams(kept) ==
    /\ ~Locked
    /\ active' = kept
    /\ UNCHANGED <<deleted, volume>>

DeleteStreams(kept) ==
    /\ ~Locked
    /\ active' = kept
    /\ deleted' = deleted \union (ToSet(active) \ ToSet(kept))
    /\ volume' = [n \in Streams |-> IF n \in ToSet(kept) THEN volume[n] ELSE "silent"]

DeleteAll ==
    /\ At("deleteAll")
    /\ DeleteStreams(<<>>)
    /\ Proceed
    /\ UNCHANGED <<flagVars, opening, opened, eventVars, xfVars>> /\ OthersUnchanged

(* ClearOldStreams(): leaves everything to a crossfader that is active,    *)
(* else deletes all streams but the primary one.                           *)
ClearOldStreams ==
    /\ At("clearOld")
    /\ Become(IF CrossfaderActive THEN <<>> ELSE <<"abort", "cancel", "deleteOld">>)
    /\ UNCHANGED <<flagVars, streamVars, eventVars, xfVars>> /\ OthersUnchanged

DeleteOld ==
    /\ At("deleteOld")
    /\ DeleteStreams(IF active = <<>> THEN <<>> ELSE <<Last(active)>>)
    /\ Proceed
    /\ UNCHANGED <<flagVars, opening, opened, eventVars, xfVars>> /\ OthersUnchanged

(* CrossfaderAbort and CrossfaderStop, called by the GUI thread.           *)
AbortStep ==
    /\ At("abort")
    /\ AbortCrossfader
    /\ Proceed
    /\ UNCHANGED <<flagVars, streamVars, eventVars>> /\ OthersUnchanged

CancelStep ==
    /\ At("cancel")
    /\ \/ StopFindsNone("main") /\ Proceed
       \/ StopTakes("main")     /\ UNCHANGED todo
       \/ StopJoins("main")     /\ Proceed
    /\ UNCHANGED <<flagVars, streamVars, eventVars>> /\ OthersUnchanged
-----------------------------------------------------------------------------
(* Play(nItem, nStartPos, nFadeType).  An empty playlist makes every nItem *)
(* invalid: the player then only forgets that it is playing.               *)
PlayInvalid ==
    /\ At("play") \/ At("playSeek")
    /\ empty
    /\ playing' = FALSE
    /\ Proceed
    /\ UNCHANGED <<paused, beginFade, fading, startingNext, stopping, fadeType,
                   streamVars, eventVars, xfVars>> /\ OthersUnchanged

PlayFindsNoFile ==
    /\ At("play") \/ At("playSeek")
    /\ ~empty /\ PlayMayFail
    /\ Become(<<"stop">>)
    /\ UNCHANGED <<flagVars, streamVars, eventVars, xfVars>> /\ OthersUnchanged

PlayOpens ==
    /\ At("play") \/ At("playSeek")
    /\ ~empty
    /\ stopping' = FALSE
    /\ fadeType' = IF At("play") THEN "normal" ELSE "seek"
    /\ \/ /\ opened < MaxStreams
          /\ opened' = opened + 1 /\ opening' = opened + 1
          /\ Become(<<"tryPlay", "addStream", "setPlaying", "abort", "cancel">> \o
                    IF FadeEnable THEN <<"beginFade", "setFading">>
                                  ELSE <<"fullVolume", "clearOld">>)
       \/ /\ PlayMayFail                        \* OpenMedia returns NULL
          /\ Become(<<"stopNow">>)
          /\ UNCHANGED <<opened, opening>>
    /\ UNCHANGED <<playing, paused, beginFade, fading, startingNext,
                   active, deleted, volume, eventVars, xfVars>> /\ OthersUnchanged

PlaySucceeds ==
    /\ At("tryPlay") \/ At("tryAgain")
    /\ Proceed
    /\ UNCHANGED <<flagVars, streamVars, eventVars, xfVars>> /\ OthersUnchanged

(* A failed Play() deletes the oldest stream, under the lock; after the    *)
(* second failure the new stream goes too and the rest of Play is dropped. *)
StepsAfterPlay == 4 + 2     \* addStream .. cancel and the two branch steps

PlayFails ==
    /\ PlayMayFail
    /\ DeleteStreams(IF active = <<>> THEN <<>> ELSE Tail(active))
    /\ \/ At("tryPlay") /\ Become(<<"tryAgain">>)
       \/ At("tryAgain") /\ Become(<<"deleteNew">>)
    /\ UNCHANGED <<flagVars, opening, opened, eventVars, xfVars>> /\ OthersUnchanged

PlayGivesUp ==
    /\ At("deleteNew")
    /\ deleted' = deleted \union {opening} /\ opening' = NoStream
    /\ todo' = <<"stopNow">> \o SubSeq(todo, StepsAfterPlay + 2, Len(todo))
    /\ UNCHANGED <<flagVars, active, opened, volume, eventVars, xfVars>> /\ OthersUnchanged

AddStream ==
    /\ At("addStream")
    /\ ~Locked
    /\ active' = Append(active, opening) /\ opening' = NoStream
    /\ Proceed
    /\ UNCHANGED <<flagVars, opened, deleted, volume, eventVars, xfVars>> /\ OthersUnchanged

SetPlaying ==
    /\ At("setPlaying")
    /\ playing' = TRUE /\ paused' = FALSE
    /\ Proceed
    /\ UNCHANGED <<beginFade, fading, startingNext, stopping, fadeType,
                   streamVars, eventVars, xfVars>> /\ OthersUnchanged

FullVolume ==
    /\ At("fullVolume")
    /\ volume' = [volume EXCEPT ![Last(active)] = "full"]
    /\ Proceed
    /\ UNCHANGED <<flagVars, active, opening, opened, deleted, eventVars, xfVars>>
    /\ OthersUnchanged

-----------------------------------------------------------------------------
(* Pause and Resume.  The fade of a pause comes first, that of a resume    *)
(* after the player has resumed.                                           *)
Pause ==
    /\ At("pause")
    /\ fadeType' = "pause"
    /\ Become(IF PauseFade THEN <<"beginFade", "setFading">> ELSE <<"finalizePause">>)
    /\ UNCHANGED <<playing, paused, beginFade, fading, startingNext, stopping,
                   streamVars, eventVars, xfVars>> /\ OthersUnchanged

FinalizePause ==
    /\ At("finalizePause")
    /\ paused' = TRUE
    /\ Proceed
    /\ UNCHANGED <<playing, beginFade, fading, startingNext, stopping, fadeType,
                   streamVars, eventVars, xfVars>> /\ OthersUnchanged

Resume ==
    /\ At("resume")
    /\ fadeType' = "resume" /\ paused' = FALSE
    /\ Become(IF PauseFade THEN <<"beginFade", "setFading">> ELSE <<>>)
    /\ UNCHANGED <<playing, beginFade, fading, startingNext, stopping,
                   streamVars, eventVars, xfVars>> /\ OthersUnchanged

-----------------------------------------------------------------------------
(* NextSong in the modes normal, repeat and shuffle: the end of the list   *)
(* stops, else a song is played.  With an empty list the unsigned          *)
(* GetCount() - 1 makes the normal mode play item 1, which is invalid, and *)
(* the shuffle mode does nothing.                                          *)
NextSong ==
    /\ At("next")
    /\ \/ Become(<<"play">>)
       \/ ~empty /\ Become(<<"stop">>)
       \/ empty  /\ Proceed
    /\ UNCHANGED <<flagVars, streamVars, eventVars, xfVars>> /\ OthersUnchanged

NextSongDone ==
    /\ At("nextDone")
    /\ startingNext' = FALSE
    /\ Proceed
    /\ UNCHANGED <<playing, paused, beginFade, fading, stopping, fadeType,
                   streamVars, eventVars, xfVars>> /\ OthersUnchanged

UnsetFading ==
    /\ At("unsetFading")
    /\ fading' = FALSE
    /\ Proceed
    /\ UNCHANGED <<playing, paused, beginFade, startingNext, stopping, fadeType,
                   streamVars, eventVars, xfVars>> /\ OthersUnchanged

(* _PostPlayRestart posts once Stop(false) has returned.                   *)
PostRestart ==
    /\ At("postRestart")
    /\ restartPosted' = TRUE
    /\ events' = Append(events, Event("restart"))
    /\ Proceed
    /\ UNCHANGED <<flagVars, streamVars, exitDone, xfVars>> /\ OthersUnchanged

(* Shutdown: the fader is deleted and joined, then the player is stopped.  *)
KillFader ==
    /\ At("killFader")
    /\ faderKill' = TRUE
    /\ Proceed
    /\ UNCHANGED <<flagVars, streamVars, eventVars, frame, empty, ops, ends,
                   faderPc, saw, xfVars>>

JoinFader ==
    /\ At("joinFader") /\ faderPc = "gone"
    /\ Proceed
    /\ UNCHANGED <<flagVars, streamVars, eventVars, xfVars>> /\ OthersUnchanged

Destroy ==
    /\ At("destroy")
    /\ frame' = "destroyed"
    /\ Proceed
    /\ UNCHANGED <<flagVars, streamVars, eventVars, empty, ops, ends, faderVars, xfVars>>

(* Mutant: the window is left for an exit fade to close.                   *)
ShutdownLeavesWindow == <<"killFader", "joinFader", "stopExit">>

Shutdown == <<"killFader", "joinFader", "stopExit", "destroy">>

-----------------------------------------------------------------------------
(* The GUI thread takes the next event or a command when it is idle.       *)
Idle == todo = <<>> /\ frame # "destroyed"

(* Mutants: old streams are not cleared after a fade; a stop fade does not *)
(* stop the player.                                                        *)
FadeCompleteKeepsOld(e) ==
    (CASE e.type \in {"stop", "exit"} -> <<"finalizeStop", "deleteAll">>
       [] e.type = "pause"            -> <<"finalizePause">>
       [] OTHER                       -> <<>>) \o <<"unsetFading">>

FadeCompleteForgetsStop(e) ==
    (CASE e.type = "exit"  -> <<"finalizeStop", "deleteAll">>
       [] e.type = "pause" -> <<"finalizePause">>
       [] OTHER            -> <<>>)
    \o <<"unsetFading">> \o (IF e.aborted THEN <<>> ELSE <<"clearOld">>)

(* OnFadeCompleteEvt                                                       *)
FadeCompleteSteps(e) ==
    (CASE e.type \in {"stop", "exit"} -> <<"finalizeStop", "deleteAll">>
       [] e.type = "pause"            -> <<"finalizePause">>
       [] OTHER                       -> <<>>)
    \o <<"unsetFading">> \o (IF e.aborted THEN <<>> ELSE <<"clearOld">>)

OnPlayerEvent ==
    /\ Idle /\ events # <<>>
    /\ LET e == Head(events) IN
        /\ todo' = CASE e.name = "fadeComplete" -> FadeCompleteSteps(e)
                     [] e.name = "nextSong"     -> <<"next", "nextDone">>
                     [] e.name = "restart"      -> <<"play">>
        /\ restartPosted' = IF e.name = "restart" THEN FALSE ELSE restartPosted
    /\ events' = Tail(events)
    /\ UNCHANGED <<flagVars, streamVars, exitDone, frame, empty, ops, ends,
                   faderVars, xfVars>>

(* MusikFrame::OnClose: a fade that will close later, or shut down now.    *)
CloseSteps == IF StopFade /\ playing /\ ~paused THEN <<"stopExit">> ELSE Shutdown

OnExitFadeDone ==
    /\ Idle /\ exitDone > 0
    /\ exitDone' = exitDone - 1
    /\ todo' = CloseSteps
    /\ frame' = "hidden"
    /\ UNCHANGED <<flagVars, streamVars, events, restartPosted, empty, ops, ends,
                   faderVars, xfVars>>

(* Commands of the web server, the media keys or the tray icon, which work *)
(* while the window is hidden, and those of the window.                    *)
RemoteCommands == {"playPause", "playItem", "nextSong", "pauseWeb", "resumeWeb",
                   "stopSong", "setVolume"}
WindowCommands == {"replaceList", "seek", "clearList", "addSongs", "addAndPlay",
                   "removeCurrent", "close"}

ASSUME CommandsAssumption == Commands \subseteq RemoteCommands \union WindowCommands

CommandSteps(c) ==
    CASE c \in {"playItem", "addAndPlay"} -> <<"play">>
      [] c = "playPause"     -> IF ~playing THEN <<"play">>
                                ELSE IF paused THEN <<"resume">> ELSE <<"pause">>
      [] c = "nextSong"      -> <<"next">>
      [] c = "pauseWeb"      -> <<"pause">>
      [] c = "resumeWeb"     -> <<"resume">>
      [] c = "stopSong"      -> <<"stop">>
      [] c = "setVolume"     -> <<"cancel">>
      [] c = "replaceList"   -> IF paused THEN <<"clearOld", "play">> ELSE <<"play">>
      [] c = "seek"          -> IF SeekFade /\ ~paused THEN <<"playSeek">> ELSE <<>>
      [] c = "clearList"     -> IF StopOnClear THEN <<"stop">> ELSE <<>>
      [] c = "addSongs"      -> <<>>
      [] c = "removeCurrent" -> IF ~playing \/ paused THEN <<"stop">>
                                ELSE IF restartPosted THEN <<>> ELSE <<"stopNow", "postRestart">>
      [] c = "close"         -> CloseSteps

Command(c) ==
    /\ Idle /\ ops < MaxOps
    /\ c \in WindowCommands => frame = "shown"
    /\ c = "seek" => playing
    /\ c = "setVolume" => CrossfaderActive
    /\ c = "removeCurrent" => ~empty
    /\ todo' = CommandSteps(c)
    /\ empty' \in CASE c = "clearList" -> {TRUE}
                    [] c \in {"addSongs", "addAndPlay", "replaceList"} -> {FALSE}
                    [] c = "removeCurrent" -> BOOLEAN
                    [] OTHER -> {empty}
    /\ frame' = IF c = "close" THEN "hidden" ELSE frame
    /\ ops' = ops + 1
    /\ UNCHANGED <<flagVars, streamVars, eventVars, ends, faderVars, xfVars>>

(* With nothing to do the event loop waits.                                *)
Wait == todo = <<>> /\ UNCHANGED vars

Handler ==
    \/ Stop \/ SetFadeStart \/ FinalizeStop \/ DeleteAll \/ ClearOldStreams \/ DeleteOld
    \/ AbortStep \/ CancelStep
    \/ PlayInvalid \/ PlayFindsNoFile \/ PlayOpens \/ PlaySucceeds \/ PlayFails \/ PlayGivesUp
    \/ AddStream \/ SetPlaying \/ FullVolume
    \/ Pause \/ FinalizePause \/ Resume
    \/ NextSong \/ NextSongDone \/ UnsetFading \/ PostRestart
    \/ KillFader \/ JoinFader \/ Destroy

Main == Handler \/ OnPlayerEvent \/ OnExitFadeDone

Next ==
    \/ Main
    \/ \E c \in Commands : Command(c)
    \/ Fader
    \/ \E s \in Slots : Crossfader(s)
    \/ Wait

(* Every thread that can take a step is scheduled in the end; the user     *)
(* need not do anything.                                                   *)
Fairness == /\ WF_vars(Main) /\ WF_vars(Fader)
            /\ \A s \in Slots : WF_vars(Crossfader(s))

Spec     == Init /\ [][Next]_vars
FairSpec == Spec /\ Fairness
=============================================================================
