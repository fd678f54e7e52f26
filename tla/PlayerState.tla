----------------------------- MODULE PlayerState -----------------------------
(***************************************************************************)
(* What the GUI thread, the MusikFaderThread and the MusikCrossfaderThread *)
(* of wxMusik share: the flags of CMusikPlayer, its array of open streams, *)
(* the event queue of the player, the CThreadController that owns the      *)
(* crossfader and the two critical sections.                               *)
(*                                                                         *)
(* Only songs on disk are played here; net radio has a connect loop of its *)
(* own in Play and is not part of this module.                             *)
(***************************************************************************)
EXTENDS Naturals, Sequences, SequencesExt

CONSTANTS
    FadeEnable,     \* bGlobalFadeEnable && bFadeEnable
    PauseFade,      \* bGlobalFadeEnable && bFadePauseResumeEnable
    StopFade,       \* bGlobalFadeEnable && bFadeExitEnable: stop and exit
    SeekFade,       \* bGlobalFadeEnable && bFadeSeekEnable
    StopOnClear,    \* bStopSongOnNowPlayingClear
    ShortSongs,     \* may a song be shorter than two fades?
    PlayMayFail,    \* may files be missing, unreadable, or Play() fail?
    FadeSteps,      \* nFadeCount, the volume steps of one fade
    Commands,       \* the commands the environment issues in this instance
    MaxOps,         \* bound: commands issued
    MaxEnds,        \* bound: songs that come to their end
    MaxStreams      \* bound: streams opened

ASSUME PrefsAssumption ==
    /\ {FadeEnable, PauseFade, StopFade, SeekFade, StopOnClear} \subseteq BOOLEAN
    /\ {ShortSongs, PlayMayFail} \subseteq BOOLEAN
ASSUME BoundsAssumption ==
    /\ FadeSteps \in Nat \ {0}
    /\ MaxOps \in Nat /\ MaxEnds \in Nat /\ MaxStreams \in Nat

(* Every command opens at most one stream, and so does every song that     *)
(* ends, so that the bound on streams never stops Play.                    *)
ASSUME StreamsAssumption == MaxOps + MaxEnds <= MaxStreams

VARIABLES
    playing, paused,        \* m_Playing, m_Paused
    beginFade, fading,      \* m_BeginFade, m_Fading
    startingNext, stopping, \* m_StartingNext, m_Stopping
    fadeType                \* m_CrossfadeType
flagVars == <<playing, paused, beginFade, fading, startingNext, stopping, fadeType>>

VARIABLES
    active,     \* m_ActiveStreams, the song now playing last
    opening,    \* pNewStream, from OpenMedia until it joins m_ActiveStreams
    opened,     \* number of streams opened so far; stream n is the n-th
    deleted,    \* streams that were deleted
    volume      \* volume of every stream
streamVars == <<active, opening, opened, deleted, volume>>

VARIABLES
    events,         \* pending events of the player, in order
    exitDone,       \* pending MUSIK_FRAME_EXIT_FADE_DONE events of the frame
    restartPosted   \* m_bPostPlayRestartInProgress
eventVars == <<events, exitDone, restartPosted>>

VARIABLES
    todo,       \* what the GUI thread still has to do of the handler it runs
    frame,      \* the main window: "shown", "hidden" or "destroyed"
    empty,      \* has m_Playlist no song?
    ops, ends   \* commands issued and songs ended so far
mainVars == <<todo, frame, empty, ops, ends>>

VARIABLES
    faderPc,    \* where MusikFaderThread::Entry is
    faderKill,  \* Delete() was called on the fader
    saw         \* stream the fader read from m_ActiveStreams in GetTimeLeft
faderVars == <<faderPc, faderKill, saw>>

VARIABLES
    ctl,            \* m_CrossfaderController's m_pThread
    xf,             \* the MusikCrossfaderThread objects
    crit,           \* who is in m_critCrossfader
    joining,        \* thread object that Empty() took and waits for
    streamsLock     \* crossfader in m_protectingStreamArrays
xfVars == <<ctl, xf, crit, joining, streamsLock>>

vars == <<flagVars, streamVars, eventVars, mainVars, faderVars, xfVars>>
-----------------------------------------------------------------------------
FadeTypes == {"normal", "seek", "pause", "resume", "stop", "exit"}
Streams   == 1..MaxStreams
NoStream  == 0
Volumes   == {"silent", "some", "full"}

Slots     == 1..2       \* storage for crossfader objects
NoSlot    == 0
Threads   == {"main", "fader"}

FadeComplete(type, aborted) ==
    [name |-> "fadeComplete", type |-> type, aborted |-> aborted]
Event(name) == [name |-> name, type |-> "normal", aborted |-> FALSE]

(* An object of MusikCrossfaderThread.  pc is "free" for storage that holds *)
(* no object, "new" before Run(), "start" and "fade" inside Entry(), "exit" *)
(* inside OnExit() and "dead" once the thread has ended.                    *)
XfPcs == {"free", "new", "start", "fade", "exit", "dead"}
NoXf  == [pc |-> "free", type |-> "normal", aborted |-> FALSE, kill |-> FALSE,
          step |-> 0, out |-> 0, in |-> 0]

(* wxThread::IsAlive() is false as soon as Entry() has returned.            *)
Alive(s)          == s # NoSlot /\ xf[s].pc \in {"start", "fade"}
CrossfaderActive  == Alive(ctl)
Primary           == IF active = <<>> THEN NoStream ELSE Last(active)
=============================================================================
