--------------------------- MODULE PlayerProperties ---------------------------
(***************************************************************************)
(* What MusikPlayer is checked for, and two claims of the repository that  *)
(* it does not live up to.                                                 *)
(***************************************************************************)
EXTENDS MusikPlayer

Events == [name : {"fadeComplete", "nextSong", "restart"}, type : FadeTypes, aborted : BOOLEAN]
XfObjects == [pc : XfPcs, type : FadeTypes, aborted : BOOLEAN, kill : BOOLEAN,
              step : 0..FadeSteps, out : Nat, in : Nat]
FaderPcs == {"loop", "begin", "abort", "cancel", "stopOld", "spawn", "attach",
             "check", "read", "ask", "onExit", "gone"}

FlagsOK  == /\ playing \in BOOLEAN /\ paused \in BOOLEAN /\ beginFade \in BOOLEAN
            /\ fading \in BOOLEAN /\ startingNext \in BOOLEAN /\ stopping \in BOOLEAN
            /\ fadeType \in FadeTypes
StreamsOK == /\ active \in Seq(Streams)
             /\ opening \in Streams \union {NoStream} /\ opened \in 0..MaxStreams
             /\ deleted \subseteq Streams
             /\ volume \in [Streams -> Volumes]
EventsOK == events \in Seq(Events) /\ exitDone \in Nat /\ restartPosted \in BOOLEAN
MainOK   == /\ todo \in Seq(Steps) /\ frame \in {"shown", "hidden", "destroyed"}
            /\ empty \in BOOLEAN /\ ops \in Nat /\ ends \in Nat
FaderOK  == /\ faderPc \in FaderPcs /\ faderKill \in BOOLEAN
            /\ saw \in Streams \union {NoStream}
XfOK     == /\ ctl \in Slots \union {NoSlot} /\ xf \in [Slots -> XfObjects]
            /\ crit \in Threads \union {"none"}
            /\ joining \in [Threads -> Slots \union {NoSlot}]
            /\ streamsLock \in Slots \union {NoSlot}

(* Every variable has its type; the unsigned counts of a fade do not wrap. *)
TypeOK == FlagsOK /\ StreamsOK /\ EventsOK /\ MainOK /\ FaderOK /\ XfOK

-----------------------------------------------------------------------------
(* The crossfader computes the indices of the streams it fades once, when  *)
(* it starts; they stay inside m_ActiveStreams until the fade is over,     *)
(* whatever the GUI thread does to the array meanwhile.                    *)
FadeIndicesValid ==
    \A s \in Slots : xf[s].pc = "fade" => xf[s].out <= Len(active) /\ xf[s].in <= Len(active)

(* A fade that has taken all its steps has brought the streams where its   *)
(* type says, although the GUI thread deletes and seeks and plays at full  *)
(* volume meanwhile: silence for a pause, a stop and an exit, the current  *)
(* song alone for a new song, the first stream at full volume to resume.   *)
FadesReachTheirEnd ==
    \A s \in Slots : xf[s].pc = "fade" /\ xf[s].step = FadeSteps =>
        LET heard == {i \in DOMAIN active : volume[active[i]] # "silent"}
        IN  CASE xf[s].type \in {"pause", "stop", "exit"} -> heard = {}
              [] xf[s].type \in {"normal", "seek"} -> heard = {Len(active)} /\ volume[Primary] = "full"
              [] xf[s].type = "resume"             -> volume[active[1]] = "full"

(* At most one crossfader is alive, and when StartNew creates one there is *)
(* none left, not even one that the GUI thread is still waiting for: the   *)
(* wxASSERT of StartNew, for all threads and not only the controller's.    *)
OneCrossfader ==
    /\ \A s, t \in Slots : Alive(s) /\ Alive(t) => s = t
    /\ faderPc \in {"spawn", "attach"} => \A s \in Slots : ~Alive(s)

(* At most one NEXT_SONG is pending or in work, so that the end of a song  *)
(* never skips two songs.                                                  *)
NextSongOnce ==
    LET pending == {i \in DOMAIN events : events[i].name = "nextSong"}
    IN  /\ \A i, j \in pending : i = j
        /\ Contains(todo, "nextDone") => pending = {}

(* Nothing is under way: no handler, no event, no fade.                    *)
Quiet == /\ todo = <<>> /\ events = <<>> /\ ~beginFade
         /\ \A s \in Slots : xf[s].pc \in {"free", "dead"}
         /\ faderPc \in {"loop", "check", "read", "ask"}

(* When everything has settled and the player plays, the orphans of old    *)
(* crossfades are gone: exactly the stream of the current song is left.    *)
OneStreamWhenQuiet == Quiet /\ playing => Len(active) = 1

(* The detailed streams implement StreamLife.  A stream that is deleted    *)
(* and still in m_ActiveStreams, or in neither, is lost.                   *)
Stage == [n \in Streams |->
            IF n \in deleted THEN IF n \in ToSet(active) THEN "lost" ELSE "deleted"
            ELSE IF n \in ToSet(active) THEN "active"
            ELSE IF n = opening          THEN "opening"
            ELSE IF n > opened           THEN "unopened" ELSE "lost"]
Life == INSTANCE StreamLife WITH Stream <- Streams, stage <- Stage

(* Every stream the player opens is deleted exactly once, and only after   *)
(* it left m_ActiveStreams.                                                *)
StreamsAreDeletedOnce == Life!Spec

(* Every handler of the GUI thread returns: it never waits for ever for a  *)
(* critical section or for the end of a thread.                            *)
HandlersReturn == (todo # <<>>) ~> (todo = <<>>)

(* Shutdown joins the fader, and with it the crossfader, and closes.       *)
ShutdownCompletes == Contains(todo, "joinFader") ~> (frame = "destroyed")

(* A stop that fades ends, whatever else is done but a pause or a resume:  *)
(* the player stops or plays another song.                                 *)
StopCompletes == (stopping /\ playing) ~> (~stopping \/ ~playing)

-----------------------------------------------------------------------------
(* Claims of the sources that do not hold.                                 *)

(* OnClose hides the frame and promises that an event will be posted back  *)
(* when the exit fade is done.                                             *)
CloseCompletes == (frame = "hidden") ~> (frame = "destroyed")
=============================================================================
