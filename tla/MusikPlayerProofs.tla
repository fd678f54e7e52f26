-------------------------- MODULE MusikPlayerProofs --------------------------
(***************************************************************************)
(* Proofs about MusikPlayer, for every number of streams, songs, commands  *)
(* and fade steps and for every choice of the preferences.                 *)
(***************************************************************************)
EXTENDS PlayerProperties, SequenceTheorems, TLAPS

-----------------------------------------------------------------------------
(* A stream that is being opened joins m_ActiveStreams by exactly one step *)
(* "addStream", which comes first or right after an attempt to play.  All  *)
(* other steps leave m_ActiveStreams and the new stream apart: these are   *)
(* the calm ones.                                                          *)
Tries == {"tryPlay", "tryAgain", "deleteNew"}
Calm  == Steps \ (Tries \union {"addStream"})

OpeningOK ==
    \/ todo \in Seq(Calm)
    \/ /\ opening \in Streams
       /\ todo # <<>>
       /\ \/ Head(todo) = "addStream" /\ Tail(todo) \in Seq(Calm)
          \/ /\ Head(todo) \in Tries
             /\ Tail(todo) # <<>> /\ Head(Tail(todo)) = "addStream"
             /\ Tail(Tail(todo)) \in Seq(Calm)

(* Type correctness is inductive together with OpeningOK.                  *)
TypeInv == TypeOK /\ OpeningOK

(* Calm steps followed by calm steps are calm.                             *)
LEMMA CalmConcat == ASSUME NEW s \in Seq(Calm), NEW t \in Seq(Calm) PROVE s \o t \in Seq(Calm)
  BY ConcatProperties

(* A sequence of calm steps is one of steps.                               *)
LEMMA CalmIsStep == ASSUME NEW s \in Seq(Calm) PROVE s \in Seq(Steps)
  BY SeqMonotonic DEF Calm

(* What comes before a non-empty sequence stays before it.                 *)
LEMMA HeadTailConcat ==
    ASSUME NEW s \in Seq(Steps), NEW t \in Seq(Steps), s # <<>>
    PROVE  /\ s \o t \in Seq(Steps) /\ s \o t # <<>>
           /\ Head(s \o t) = Head(s) /\ Tail(s \o t) = Tail(s) \o t
<1>1. /\ s \o t \in Seq(Steps) /\ Len(s \o t) = Len(s) + Len(t)
      /\ \A i \in 1 .. Len(s) + Len(t) : (s \o t)[i] = IF i <= Len(s) THEN s[i] ELSE t[i - Len(s)]
  BY ConcatProperties
<1>2. Len(s) \in Nat /\ Len(t) \in Nat /\ Len(s) > 0
  BY EmptySeq, LenProperties
<1>3. s \o t # <<>>
  BY <1>1, <1>2, EmptySeq
<1>4. Head(s \o t) = Head(s)
  BY <1>1, <1>2, <1>3
<1>5. /\ Tail(s) \in Seq(Steps) /\ Len(Tail(s)) = Len(s) - 1
      /\ \A i \in 1 .. Len(Tail(s)) : Tail(s)[i] = s[i + 1]
  BY HeadTailProperties
<1>6. /\ Tail(s \o t) \in Seq(Steps) /\ Len(Tail(s \o t)) = Len(s) + Len(t) - 1
      /\ \A i \in 1 .. Len(Tail(s \o t)) : Tail(s \o t)[i] = (s \o t)[i + 1]
  BY HeadTailProperties, <1>1, <1>3
<1>7. /\ Tail(s) \o t \in Seq(Steps) /\ Len(Tail(s) \o t) = Len(Tail(s)) + Len(t)
      /\ \A i \in 1 .. Len(Tail(s)) + Len(t) :
            (Tail(s) \o t)[i] = IF i <= Len(Tail(s)) THEN Tail(s)[i] ELSE t[i - Len(Tail(s))]
  BY <1>5, ConcatProperties
<1>8. \A i \in 1 .. Len(s) - 1 + Len(t) : Tail(s \o t)[i] = (Tail(s) \o t)[i]
  BY <1>1, <1>2, <1>5, <1>6, <1>7
<1>9. Tail(s \o t) = Tail(s) \o t
  BY <1>2, <1>5, <1>6, <1>7, <1>8, SeqEqual
<1> QED
  BY <1>1, <1>3, <1>4, <1>9

(* A handler whose next step is calm has only calm steps left.             *)
LEMMA CalmRest ==
    ASSUME OpeningOK, todo # <<>>, Head(todo) \in Calm
    PROVE  todo \in Seq(Calm) /\ Tail(todo) \in Seq(Calm)
<1>1. todo \in Seq(Calm)
  BY DEF OpeningOK, Calm
<1> QED
  BY <1>1, HeadTailProperties

(* A calm step that is replaced by calm steps leaves OpeningOK true.       *)
LEMMA CalmBecome ==
    ASSUME OpeningOK, todo # <<>>, Head(todo) \in Calm, NEW s \in Seq(Calm), Become(s)
    PROVE  todo' \in Seq(Calm) /\ todo' \in Seq(Steps) /\ OpeningOK'
  BY CalmRest, CalmConcat, CalmIsStep DEF Become, OpeningOK

(* So does a calm step that is taken.                                      *)
LEMMA CalmProceed ==
    ASSUME OpeningOK, todo # <<>>, Head(todo) \in Calm, Proceed
    PROVE  todo' \in Seq(Calm) /\ todo' \in Seq(Steps) /\ OpeningOK'
  BY CalmRest, CalmIsStep DEF Proceed, OpeningOK

-----------------------------------------------------------------------------
(* Type correctness of what the threads share.                             *)
LEMMA NoXfTyped == NoXf \in XfObjects
  BY BoundsAssumption DEF NoXf, XfObjects, XfPcs, FadeTypes

(* CrossfaderAbort keeps the threads' variables typed.                     *)
LEMMA AbortTyped == ASSUME XfOK, AbortCrossfader PROVE XfOK'
<1>1. CASE CrossfaderActive
  <2>1. ctl \in Slots
    BY <1>1 DEF XfOK, CrossfaderActive, Alive
  <2>2. xf' = [xf EXCEPT ![ctl].aborted = TRUE]
    BY <1>1 DEF AbortCrossfader
  <2>3. xf' \in [Slots -> XfObjects]
    BY <2>1, <2>2 DEF XfOK, XfObjects
  <2> QED
    BY <2>3 DEF XfOK, AbortCrossfader
<1>2. CASE ~CrossfaderActive
  BY <1>2 DEF XfOK, AbortCrossfader
<1> QED
  BY <1>1, <1>2

(* CrossfaderStop keeps them typed, for the GUI thread and the fader.      *)
LEMMA StopTyped ==
    ASSUME NEW t \in Threads, XfOK, StopFindsNone(t) \/ StopTakes(t) \/ StopJoins(t)
    PROVE  XfOK'
<1>1. CASE StopFindsNone(t)
  BY <1>1 DEF XfOK, StopFindsNone, xfVars
<1>2. CASE StopTakes(t)
  <2>1. ctl \in Slots
    BY <1>2 DEF XfOK, CrossfaderActive, Alive, StopTakes
  <2>2. xf' \in [Slots -> XfObjects]
    BY <1>2, <2>1 DEF XfOK, XfObjects, StopTakes
  <2>3. joining' \in [Threads -> Slots \union {NoSlot}]
    BY <1>2, <2>1 DEF XfOK, StopTakes
  <2> QED
    BY <1>2, <2>1, <2>2, <2>3 DEF XfOK, StopTakes
<1>3. CASE StopJoins(t)
  BY <1>3, NoXfTyped DEF XfOK, StopJoins, Slots, NoSlot, Threads
<1> QED
  BY <1>1, <1>2, <1>3

(* Deleting streams keeps the stream variables typed.                      *)
LEMMA DeleteTyped ==
    ASSUME StreamsOK, NEW kept \in Seq(Streams), DeleteStreams(kept)
    PROVE  active' \in Seq(Streams) /\ deleted' \subseteq Streams /\ volume' \in [Streams -> Volumes]
<1>1. ToSet(active) \subseteq Streams
  BY DEF StreamsOK, ToSet
<1> QED
  BY <1>1 DEF DeleteStreams, StreamsOK, Volumes

(* The last stream of a non-empty array is a stream.                       *)
LEMMA PrimaryTyped ==
    ASSUME StreamsOK, active # <<>>
    PROVE  Len(active) \in Nat \ {0} /\ Last(active) \in Streams /\ Primary \in Streams
<1>1. Len(active) \in Nat \ {0}
  BY EmptySeq DEF StreamsOK
<1>2. Last(active) \in Streams
  BY <1>1 DEF StreamsOK, Last
<1> QED
  BY <1>1, <1>2 DEF Primary

-----------------------------------------------------------------------------
(* Steps of a crossfader.                                                  *)
LEMMA CrossfaderTyped ==
    ASSUME TypeInv, NEW s \in Slots, Crossfader(s)
    PROVE  TypeInv'
<1> USE DEF TypeInv, TypeOK
<1>1. CASE XfReturnsEarly(s)
  <2>1. StreamsOK'
    BY <1>1, PrimaryTyped DEF XfReturnsEarly, StreamsOK, Volumes
  <2>2. XfOK'
    BY <1>1 DEF XfReturnsEarly, XfOK, XfObjects, XfPcs
  <2> QED
    BY <1>1, <2>1, <2>2 DEF XfReturnsEarly, FlagsOK, EventsOK, MainOK, FaderOK, OpeningOK,
                            flagVars, eventVars, mainVars, faderVars
<1>2. CASE XfEnters(s)
  <2>1. FadeOutCount(xf[s].type) \in Nat /\ FadeInIndex(xf[s].type) \in Nat
    BY <1>2, PrimaryTyped DEF XfEnters, FadeOutCount, FadeInIndex
  <2>2. [xf[s] EXCEPT !.pc = "fade", !.out = FadeOutCount(xf[s].type),
                      !.in = FadeInIndex(xf[s].type)] \in XfObjects
    BY <2>1 DEF XfOK, XfObjects, XfPcs
  <2>3. XfOK'
    BY <1>2, <2>2 DEF XfEnters, XfOK
  <2> QED
    BY <1>2, <2>3 DEF XfEnters, FlagsOK, StreamsOK, EventsOK, MainOK, FaderOK, OpeningOK,
                      flagVars, streamVars, eventVars, mainVars, faderVars
<1>3. CASE XfFades(s)
  <2>1. StreamsOK'
    <3>1. \A i \in DOMAIN active : FadedVolume(s, i) \in Volumes
      BY DEF FadedVolume, Volumes, StreamsOK
    <3>2. \A n \in Streams : (\E i \in DOMAIN active : active[i] = n)
             => (CHOOSE i \in DOMAIN active : active[i] = n) \in DOMAIN active
      OBVIOUS
    <3> QED
      BY <1>3, <3>1, <3>2 DEF XfFades, StreamsOK
  <2>2. XfOK'
    BY <1>3, BoundsAssumption DEF XfFades, XfOK, XfObjects, XfPcs
  <2> QED
    BY <1>3, <2>1, <2>2 DEF XfFades, FlagsOK, EventsOK, MainOK, FaderOK, OpeningOK,
                            flagVars, eventVars, mainVars, faderVars
<1>4. CASE XfReturns(s)
  <2>1. 0 \in 0..FadeSteps
    BY BoundsAssumption
  <2>2. [xf[s] EXCEPT !.pc = "exit", !.step = 0, !.out = 0, !.in = 0] \in XfObjects
    BY <2>1 DEF XfOK, XfObjects, XfPcs
  <2>3. XfOK'
    BY <1>4, <2>2 DEF XfReturns, XfOK
  <2> QED
    BY <1>4, <2>3 DEF XfReturns, FlagsOK, StreamsOK, EventsOK, MainOK, FaderOK, OpeningOK,
                      flagVars, streamVars, eventVars, mainVars, faderVars
<1>5. CASE XfExits(s)
  <2>1. FadeComplete(xf[s].type, xf[s].aborted) \in Events
    BY DEF XfOK, XfObjects, Events, FadeComplete
  <2>2. EventsOK'
    BY <1>5, <2>1 DEF XfExits, EventsOK
  <2>3. XfOK'
    BY <1>5, NoXfTyped DEF XfExits, XfOK, XfObjects, XfPcs
  <2> QED
    BY <1>5, <2>2, <2>3 DEF XfExits, FlagsOK, StreamsOK, MainOK, FaderOK, OpeningOK,
                            flagVars, streamVars, mainVars, faderVars
<1> QED
  BY <1>1, <1>2, <1>3, <1>4, <1>5 DEF Crossfader

-----------------------------------------------------------------------------
(* Steps of the fader.                                                     *)
LEMMA SpawnTyped == ASSUME TypeInv, FaderSpawns PROVE XfOK'
<1>1. PICK s \in FreeSlots : xf' = [xf EXCEPT ![s] = [NoXf EXCEPT !.pc = "new", !.type = fadeType]]
  BY DEF FaderSpawns
<1>2. [NoXf EXCEPT !.pc = "new", !.type = fadeType] \in XfObjects
  BY NoXfTyped DEF TypeInv, TypeOK, FlagsOK, XfObjects, XfPcs
<1>3. xf' \in [Slots -> XfObjects]
  BY <1>1, <1>2 DEF TypeInv, TypeOK, XfOK, FreeSlots
<1> QED
  BY <1>3 DEF FaderSpawns, TypeInv, TypeOK, XfOK

(* AttachAndRun keeps the thread objects typed.                            *)
LEMMA AttachTyped == ASSUME TypeInv, FaderAttaches PROVE XfOK'
<1>1. PICK s \in Slots :
        /\ xf' = [t \in Slots |-> IF t = s THEN [xf[s] EXCEPT !.pc = "start"]
                                  ELSE IF t = ctl THEN NoXf ELSE xf[t]]
        /\ ctl' = s
  BY DEF FaderAttaches
<1>2. [xf[s] EXCEPT !.pc = "start"] \in XfObjects
  BY DEF TypeInv, TypeOK, XfOK, XfObjects, XfPcs
<1>3. xf' \in [Slots -> XfObjects]
  BY <1>1, <1>2, NoXfTyped DEF TypeInv, TypeOK, XfOK
<1> QED
  BY <1>1, <1>3 DEF FaderAttaches, TypeInv, TypeOK, XfOK

(* Asking for the next song posts a proper event.                          *)
LEMMA PostTyped == ASSUME TypeInv, FaderPostsNext PROVE EventsOK'
<1>1. Event("nextSong") \in Events
  BY DEF Event, Events, FadeTypes
<1> QED
  BY <1>1 DEF FaderPostsNext, TypeInv, TypeOK, EventsOK

(* Every step of the fader keeps the type invariant.                       *)
LEMMA FaderTyped == ASSUME TypeInv, Fader PROVE TypeInv'
<1> USE DEF TypeInv, TypeOK, flagVars, streamVars, eventVars, mainVars
<1>1. CASE FaderLoop
  <2>1. FaderOK'
    BY <1>1 DEF FaderLoop, FaderOK, FaderPcs
  <2> QED
    BY <1>1, <2>1 DEF FaderLoop, FlagsOK, StreamsOK, EventsOK, MainOK, XfOK, OpeningOK, xfVars
<1>2. CASE FaderFindsActive
  BY <1>2 DEF FaderFindsActive, FlagsOK, StreamsOK, EventsOK, MainOK, FaderOK, FaderPcs, XfOK,
              OpeningOK, xfVars
<1>3. CASE FaderCatches
  <2>1. FlagsOK' /\ FaderOK'
    BY <1>3 DEF FaderCatches, FlagsOK, FaderOK, FaderPcs
  <2> QED
    BY <1>3, <2>1 DEF FaderCatches, StreamsOK, EventsOK, MainOK, XfOK, OpeningOK, xfVars
<1>4. CASE FaderAborts
  <2>1. XfOK'
    BY <1>4, AbortTyped DEF FaderAborts
  <2> QED
    BY <1>4, <2>1 DEF FaderAborts, FlagsOK, StreamsOK, EventsOK, MainOK, FaderOK, FaderPcs, OpeningOK
<1>5. CASE FaderStops
  <2>1. XfOK'
    BY <1>5, StopTyped DEF FaderStops, Threads
  <2>2. FaderOK'
    BY <1>5 DEF FaderStops, FaderOK, FaderPcs
  <2> QED
    BY <1>5, <2>1, <2>2 DEF FaderStops, FlagsOK, StreamsOK, EventsOK, MainOK, OpeningOK
<1>6. CASE FaderSpawns
  <2>1. XfOK'
    BY <1>6, SpawnTyped
  <2>2. FaderOK'
    BY <1>6 DEF FaderSpawns, FaderOK, FaderPcs
  <2> QED
    BY <1>6, <2>1, <2>2 DEF FaderSpawns, FlagsOK, StreamsOK, EventsOK, MainOK, OpeningOK
<1>7. CASE FaderAttaches
  BY <1>7, AttachTyped DEF FaderAttaches, FlagsOK, StreamsOK, EventsOK, MainOK, FaderOK, FaderPcs,
                           OpeningOK
<1>8. CASE FaderChecks
  BY <1>8 DEF FaderChecks, FlagsOK, StreamsOK, EventsOK, MainOK, FaderOK, FaderPcs, XfOK, OpeningOK, xfVars
<1>9. CASE FaderReads
  <2>1. saw' \in Streams \union {NoStream}
    BY <1>9, PrimaryTyped DEF FaderReads, Primary
  <2> QED
    BY <1>9, <2>1 DEF FaderReads, FlagsOK, StreamsOK, EventsOK, MainOK, FaderOK, FaderPcs, XfOK,
                      OpeningOK, xfVars
<1>10. CASE FaderPostsNext
  BY <1>10, PostTyped DEF FaderPostsNext, FlagsOK, StreamsOK, MainOK, FaderOK, FaderPcs, XfOK,
                          OpeningOK, xfVars
<1>11. CASE FaderHasTimeLeft
  BY <1>11 DEF FaderHasTimeLeft, FlagsOK, StreamsOK, EventsOK, MainOK, FaderOK, FaderPcs, XfOK,
               OpeningOK, xfVars
<1> QED
  BY <1>1, <1>2, <1>3, <1>4, <1>5, <1>6, <1>7, <1>8, <1>9, <1>10, <1>11 DEF Fader

-----------------------------------------------------------------------------
(* Steps of the GUI thread that change only flags.                         *)
LEMMA FlagStepsTyped ==
    ASSUME TypeInv,
           \/ Stop \/ SetFadeStart \/ FinalizeStop \/ ClearOldStreams
           \/ PlayInvalid \/ PlayFindsNoFile \/ SetPlaying
           \/ Pause \/ FinalizePause \/ Resume \/ NextSong \/ NextSongDone \/ UnsetFading
    PROVE  TypeInv'
<1>1. ASSUME todo # <<>>, Head(todo) \in Calm, Proceed \/ \E s \in Seq(Calm) : Become(s)
      PROVE  todo' \in Seq(Steps) /\ OpeningOK'
  BY <1>1, CalmProceed, CalmBecome DEF TypeInv
<1>2. /\ <<>> \in Seq(Calm) /\ <<"finalizeStop", "deleteAll">> \in Seq(Calm)
      /\ <<"beginFade", "setFading">> \in Seq(Calm) /\ <<"abort", "cancel", "deleteOld">> \in Seq(Calm)
      /\ <<"stop">> \in Seq(Calm) /\ <<"play">> \in Seq(Calm) /\ <<"finalizePause">> \in Seq(Calm)
  BY DEF Calm, Tries, Steps
<1>3. todo # <<>> /\ Head(todo) \in Calm /\ (Proceed \/ \E s \in Seq(Calm) : Become(s))
  <2>1. CASE Stop
    BY <2>1, <1>2 DEF Stop, StopIgnored, StopStarts, At, Calm, Tries, Steps
  <2>2. CASE SetFadeStart \/ FinalizeStop \/ PlayInvalid \/ SetPlaying \/ FinalizePause
             \/ NextSongDone \/ UnsetFading
    BY <2>2 DEF SetFadeStart, FinalizeStop, PlayInvalid, SetPlaying, FinalizePause, NextSongDone,
                UnsetFading, At, Calm, Tries, Steps
  <2>3. CASE ClearOldStreams
    BY <2>3, <1>2 DEF ClearOldStreams, At, Calm, Tries, Steps
  <2>4. CASE PlayFindsNoFile
    BY <2>4, <1>2 DEF PlayFindsNoFile, At, Calm, Tries, Steps
  <2>5. CASE Pause \/ Resume
    BY <2>5, <1>2 DEF Pause, Resume, At, Calm, Tries, Steps
  <2>6. CASE NextSong
    BY <2>6, <1>2 DEF NextSong, At, Calm, Tries, Steps
  <2> QED
    BY <2>1, <2>2, <2>3, <2>4, <2>5, <2>6
<1>4. todo' \in Seq(Steps) /\ OpeningOK'
  BY <1>1, <1>3
<1>5. FlagsOK'
  BY DEF TypeInv, TypeOK, FlagsOK, FadeTypes, Stop, StopIgnored, StopStarts, SetFadeStart, FinalizeStop,
         ClearOldStreams, PlayInvalid, PlayFindsNoFile, SetPlaying, Pause, FinalizePause, Resume,
         NextSong, NextSongDone, UnsetFading, flagVars
<1>6. UNCHANGED <<streamVars, eventVars, xfVars>> /\ OthersUnchanged
  BY DEF Stop, StopIgnored, StopStarts, SetFadeStart, FinalizeStop, ClearOldStreams, PlayInvalid,
         PlayFindsNoFile, SetPlaying, Pause, FinalizePause, Resume, NextSong, NextSongDone, UnsetFading
<1> QED
  BY <1>4, <1>5, <1>6 DEF TypeInv, TypeOK, StreamsOK, EventsOK, MainOK, FaderOK, XfOK,
                          OthersUnchanged, streamVars, eventVars, faderVars, xfVars

-----------------------------------------------------------------------------
(* Steps of the GUI thread that open, add and delete streams.              *)
LEMMA PlayOpensTyped == ASSUME TypeInv, PlayOpens PROVE TypeInv'
<1>1. todo # <<>> /\ Head(todo) \in Calm
  BY DEF PlayOpens, At, Calm, Tries, Steps
<1>2. Tail(todo) \in Seq(Calm) /\ Tail(todo) \in Seq(Steps)
  BY <1>1, CalmRest, CalmIsStep DEF TypeInv
<1>3. FlagsOK'
  BY DEF PlayOpens, TypeInv, TypeOK, FlagsOK, FadeTypes
<1>4. CASE opened' = opened
  <2>1. Become(<<"stopNow">>) /\ UNCHANGED <<opened, opening>>
    BY <1>4 DEF PlayOpens, TypeInv, TypeOK, StreamsOK
  <2>2. <<"stopNow">> \in Seq(Calm)
    BY DEF Calm, Tries, Steps
  <2>3. todo' \in Seq(Steps) /\ OpeningOK'
    BY <1>1, <2>1, <2>2, CalmBecome DEF TypeInv
  <2> QED
    BY <1>3, <2>1, <2>3 DEF PlayOpens, TypeInv, TypeOK, StreamsOK, EventsOK, MainOK, FaderOK, XfOK,
                            OthersUnchanged, eventVars, faderVars, xfVars
<1>5. CASE opened' # opened
  <2> DEFINE branch == IF FadeEnable THEN <<"beginFade", "setFading">> ELSE <<"fullVolume", "clearOld">>
             play   == <<"tryPlay", "addStream", "setPlaying", "abort", "cancel">>
             add    == <<"addStream", "setPlaying", "abort", "cancel">>
             after  == <<"setPlaying", "abort", "cancel">>
  <2>1. /\ opened < MaxStreams /\ opened' = opened + 1 /\ opening' = opened + 1
        /\ todo' = (play \o branch) \o Tail(todo)
    BY <1>5 DEF PlayOpens, Become
  <2>2. opening' \in Streams /\ opened' \in 0..MaxStreams
    BY <2>1, BoundsAssumption DEF TypeInv, TypeOK, StreamsOK, Streams
  <2>3. branch \in Seq(Calm) /\ after \in Seq(Calm) /\ play \in Seq(Steps) /\ add \in Seq(Steps)
    <3>1. <<"beginFade", "setFading">> \in Seq(Calm) /\ <<"fullVolume", "clearOld">> \in Seq(Calm)
      BY DEF Calm, Tries, Steps
    <3>2. branch \in Seq(Calm)
      BY <3>1, Zenon
    <3>3. after \in Seq(Calm)
      BY DEF Calm, Tries, Steps
    <3>4. play \in Seq(Steps) /\ add \in Seq(Steps)
      BY DEF Steps
    <3> QED
      BY <3>2, <3>3, <3>4
  <2>4. branch \in Seq(Steps)
    BY <2>3, CalmIsStep
  <2>5. Head(play) = "tryPlay" /\ Tail(play) = add /\ Head(add) = "addStream" /\ Tail(add) = after
        /\ play # <<>> /\ add # <<>>
    OBVIOUS
  <2> HIDE DEF branch, play, add, after
  <2> DEFINE afters == after \o branch
             adds == add \o branch
             plays == play \o branch
  <2>6. /\ adds \in Seq(Steps) /\ adds # <<>>
        /\ Head(adds) = "addStream" /\ Tail(adds) = afters
    BY <2>3, <2>4, <2>5, HeadTailConcat
  <2>7. /\ plays \in Seq(Steps) /\ plays # <<>>
        /\ Head(plays) = "tryPlay" /\ Tail(plays) = adds
    BY <2>3, <2>4, <2>5, HeadTailConcat
  <2>8. todo' = plays \o Tail(todo)
    BY <2>1
  <2> HIDE DEF afters, adds, plays
  <2>9. /\ plays \o Tail(todo) \in Seq(Steps) /\ plays \o Tail(todo) # <<>>
        /\ Head(plays \o Tail(todo)) = "tryPlay"
        /\ Tail(plays \o Tail(todo)) = adds \o Tail(todo)
    BY <1>2, <2>7, HeadTailConcat
  <2>10. /\ adds \o Tail(todo) # <<>> /\ Head(adds \o Tail(todo)) = "addStream"
        /\ Tail(adds \o Tail(todo)) = afters \o Tail(todo)
    BY <1>2, <2>6, HeadTailConcat
  <2>11. afters \o Tail(todo) \in Seq(Calm)
    BY <1>2, <2>3, CalmConcat DEF afters
  <2>12. todo' \in Seq(Steps) /\ OpeningOK'
    BY <2>2, <2>9, <2>10, <2>11, <2>8 DEF OpeningOK, Tries
  <2> QED
    BY <1>3, <2>2, <2>12
       DEF PlayOpens, TypeInv, TypeOK, StreamsOK, EventsOK, MainOK, FaderOK, XfOK,
           OthersUnchanged, eventVars, faderVars, xfVars
<1> QED
  BY <1>4, <1>5

(* Where a try is next, "addStream" follows it and the rest is calm.       *)
LEMMA TryNext ==
    ASSUME TypeInv, todo # <<>>, Head(todo) \in Tries
    PROVE  /\ opening \in Streams /\ Tail(todo) \in Seq(Steps) /\ Tail(todo) # <<>>
           /\ Head(Tail(todo)) = "addStream" /\ Tail(Tail(todo)) \in Seq(Calm)
<1>1. todo \notin Seq(Calm)
  BY HeadTailProperties DEF Calm
<1>2. Tail(todo) \in Seq(Steps)
  BY HeadTailProperties DEF TypeInv, TypeOK, MainOK
<1> QED
  BY <1>1, <1>2 DEF TypeInv, OpeningOK, Tries

(* A stream that plays is added next.                                      *)
LEMMA PlaySucceedsTyped == ASSUME TypeInv, PlaySucceeds PROVE TypeInv'
<1>1. todo # <<>> /\ Head(todo) \in Tries /\ todo' = Tail(todo)
  BY DEF PlaySucceeds, At, Tries, Proceed
<1>2. todo' \in Seq(Steps) /\ OpeningOK'
  BY <1>1, TryNext DEF OpeningOK, PlaySucceeds, streamVars
<1> QED
  BY <1>2 DEF PlaySucceeds, TypeInv, TypeOK, FlagsOK, StreamsOK, EventsOK, MainOK, FaderOK, XfOK,
              OthersUnchanged, flagVars, streamVars, eventVars, faderVars, xfVars

(* A stream that does not play is tried again, then deleted.               *)
LEMMA PlayFailsTyped == ASSUME TypeInv, PlayFails PROVE TypeInv'
<1>1. PICK step \in {"tryAgain", "deleteNew"} : todo' = <<step>> \o Tail(todo)
  BY DEF PlayFails, Become
<1>2. todo # <<>> /\ Head(todo) \in Tries
  BY DEF PlayFails, At, Tries
<1>3. /\ opening \in Streams /\ Tail(todo) \in Seq(Steps) /\ Tail(todo) # <<>>
      /\ Head(Tail(todo)) = "addStream" /\ Tail(Tail(todo)) \in Seq(Calm)
  BY <1>2, TryNext
<1>4. <<step>> \in Seq(Steps) /\ <<step>> # <<>> /\ Head(<<step>>) = step /\ Tail(<<step>>) = <<>>
  BY DEF Steps
<1>5. /\ <<step>> \o Tail(todo) \in Seq(Steps) /\ <<step>> \o Tail(todo) # <<>>
      /\ Head(<<step>> \o Tail(todo)) = step /\ Tail(<<step>> \o Tail(todo)) = <<>> \o Tail(todo)
  BY <1>3, <1>4, HeadTailConcat
<1>6. <<>> \o Tail(todo) = Tail(todo)
  BY <1>3, ConcatEmptySeq
<1>7. opening' = opening /\ UNCHANGED <<flagVars, opened, eventVars, xfVars>> /\ OthersUnchanged
  BY DEF PlayFails
<1>8. todo' \in Seq(Steps) /\ OpeningOK'
  BY <1>1, <1>3, <1>5, <1>6, <1>7 DEF OpeningOK, Tries
<1>9. (IF active = <<>> THEN <<>> ELSE Tail(active)) \in Seq(Streams)
  BY HeadTailProperties DEF TypeInv, TypeOK, StreamsOK
<1>10. active' \in Seq(Streams) /\ deleted' \subseteq Streams /\ volume' \in [Streams -> Volumes]
  BY <1>9, DeleteTyped DEF PlayFails, TypeInv, TypeOK
<1> QED
  BY <1>7, <1>8, <1>10 DEF TypeInv, TypeOK, FlagsOK, StreamsOK, EventsOK, MainOK, FaderOK, XfOK,
                           OthersUnchanged, flagVars, eventVars, faderVars, xfVars

(* A stream that was given up is deleted and never added.                  *)
LEMMA PlayGivesUpTyped == ASSUME TypeInv, PlayGivesUp PROVE TypeInv'
<1>1. todo # <<>> /\ Head(todo) \in Tries
  BY DEF PlayGivesUp, At, Tries
<1>2. /\ opening \in Streams /\ Tail(todo) \in Seq(Steps) /\ Tail(todo) # <<>>
      /\ Tail(Tail(todo)) \in Seq(Calm)
  BY <1>1, TryNext
<1>3. \A i \in 8..Len(todo) : todo[i] \in Calm
  <2>1. todo \in Seq(Steps)
    BY DEF TypeInv, TypeOK, MainOK
  <2>2. /\ Len(todo) \in Nat /\ Len(Tail(todo)) = Len(todo) - 1
        /\ \A i \in 1 .. Len(Tail(todo)) : Tail(todo)[i] = todo[i + 1]
    BY <1>1, <2>1, HeadTailProperties, LenProperties
  <2>3. /\ Len(Tail(Tail(todo))) = Len(todo) - 2
        /\ \A i \in 1 .. Len(Tail(Tail(todo))) : Tail(Tail(todo))[i] = Tail(todo)[i + 1]
    BY <1>2, <2>2, HeadTailProperties
  <2>4. \A i \in 8..Len(todo) : todo[i] = Tail(Tail(todo))[i - 2] /\ i - 2 \in 1..Len(Tail(Tail(todo)))
    BY <2>2, <2>3
  <2> QED
    BY <1>2, <2>4, ElementOfSeq
<1>4. SubSeq(todo, StepsAfterPlay + 2, Len(todo)) \in Seq(Calm)
  <2>1. Len(todo) \in Int
    BY LenProperties DEF TypeInv, TypeOK, MainOK
  <2>2. SubSeq(todo, 8, Len(todo)) \in Seq(Calm)
    BY <1>3, <2>1, SubSeqProperties
  <2> QED
    BY <2>2 DEF StepsAfterPlay
<1>5. todo' \in Seq(Calm) /\ todo' \in Seq(Steps)
  <2>1. <<"stopNow">> \in Seq(Calm)
    BY DEF Calm, Tries, Steps
  <2> QED
    BY <1>4, <2>1, CalmConcat, CalmIsStep DEF PlayGivesUp
<1> QED
  BY <1>2, <1>5 DEF PlayGivesUp, TypeInv, TypeOK, FlagsOK, StreamsOK, EventsOK, MainOK, FaderOK, XfOK,
                    OpeningOK, OthersUnchanged, flagVars, eventVars, faderVars, xfVars

(* The stream that joins m_ActiveStreams is the one just opened.           *)
LEMMA AddStreamTyped == ASSUME TypeInv, AddStream PROVE TypeInv'
<1>1. todo # <<>> /\ Head(todo) = "addStream" /\ todo' = Tail(todo)
  BY DEF AddStream, At, Proceed
<1>2. todo \notin Seq(Calm)
  BY <1>1, HeadTailProperties DEF Calm
<1>3. opening \in Streams /\ todo' \in Seq(Calm)
  BY <1>1, <1>2 DEF TypeInv, OpeningOK, Tries
<1>4. todo' \in Seq(Steps) /\ OpeningOK'
  BY <1>3, CalmIsStep DEF OpeningOK
<1>5. active' \in Seq(Streams)
  BY <1>3, AppendProperties DEF AddStream, TypeInv, TypeOK, StreamsOK
<1> QED
  BY <1>4, <1>5 DEF AddStream, TypeInv, TypeOK, FlagsOK, StreamsOK, EventsOK, MainOK, FaderOK, XfOK,
                    OthersUnchanged, flagVars, eventVars, faderVars, xfVars

(* The calm steps that touch something else than flags.                    *)
LEMMA OtherStepsTyped ==
    ASSUME TypeInv,
           \/ DeleteAll \/ DeleteOld \/ FullVolume \/ AbortStep \/ CancelStep
           \/ PostRestart \/ KillFader \/ JoinFader \/ Destroy
    PROVE  TypeInv'
<1>1. todo # <<>> /\ Head(todo) \in Calm
  BY DEF DeleteAll, DeleteOld, FullVolume, AbortStep, CancelStep, PostRestart, KillFader, JoinFader,
         Destroy, At, Calm, Tries, Steps
<1>2. todo \in Seq(Calm) /\ Tail(todo) \in Seq(Calm)
  BY <1>1, CalmRest DEF TypeInv
<1>3. todo' = todo \/ todo' = Tail(todo)
  BY DEF DeleteAll, DeleteOld, FullVolume, AbortStep, CancelStep, PostRestart, KillFader, JoinFader,
         Destroy, Proceed
<1>4. todo' \in Seq(Steps) /\ OpeningOK'
  BY <1>2, <1>3, CalmIsStep DEF OpeningOK
<1> USE DEF TypeInv, TypeOK, OthersUnchanged, flagVars, streamVars, eventVars, faderVars, xfVars
<1>5. CASE DeleteAll
  <2>1. active' \in Seq(Streams) /\ deleted' \subseteq Streams /\ volume' \in [Streams -> Volumes]
    BY <1>5, EmptySeq, DeleteTyped DEF DeleteAll
  <2> QED
    BY <1>4, <1>5, <2>1 DEF DeleteAll, FlagsOK, StreamsOK, EventsOK, MainOK, FaderOK, XfOK
<1>6. CASE DeleteOld
  <2>1. (IF active = <<>> THEN <<>> ELSE <<Last(active)>>) \in Seq(Streams)
    BY PrimaryTyped
  <2>2. active' \in Seq(Streams) /\ deleted' \subseteq Streams /\ volume' \in [Streams -> Volumes]
    BY <1>6, <2>1, DeleteTyped DEF DeleteOld
  <2> QED
    BY <1>4, <1>6, <2>2 DEF DeleteOld, FlagsOK, StreamsOK, EventsOK, MainOK, FaderOK, XfOK
<1>7. CASE FullVolume
  <2>1. volume' \in [Streams -> Volumes]
    BY <1>7 DEF FullVolume, StreamsOK, Volumes
  <2> QED
    BY <1>4, <1>7, <2>1 DEF FullVolume, FlagsOK, StreamsOK, EventsOK, MainOK, FaderOK, XfOK
<1>8. CASE AbortStep
  <2>1. XfOK'
    BY <1>8, AbortTyped DEF AbortStep
  <2> QED
    BY <1>4, <1>8, <2>1 DEF AbortStep, FlagsOK, StreamsOK, EventsOK, MainOK, FaderOK
<1>9. CASE CancelStep
  <2>1. XfOK'
    BY <1>9, StopTyped DEF CancelStep, Threads
  <2> QED
    BY <1>4, <1>9, <2>1 DEF CancelStep, FlagsOK, StreamsOK, EventsOK, MainOK, FaderOK
<1>10. CASE PostRestart
  <2>1. Event("restart") \in Events
    BY DEF Event, Events, FadeTypes
  <2>2. EventsOK'
    BY <1>10, <2>1 DEF PostRestart, EventsOK
  <2> QED
    BY <1>4, <1>10, <2>2 DEF PostRestart, FlagsOK, StreamsOK, MainOK, FaderOK, XfOK
<1>11. CASE KillFader
  BY <1>4, <1>11 DEF KillFader, FlagsOK, StreamsOK, EventsOK, MainOK, FaderOK, XfOK
<1>12. CASE JoinFader
  BY <1>4, <1>12 DEF JoinFader, FlagsOK, StreamsOK, EventsOK, MainOK, FaderOK, XfOK
<1>13. CASE Destroy
  BY <1>4, <1>13 DEF Destroy, FlagsOK, StreamsOK, EventsOK, MainOK, FaderOK, XfOK
<1> QED
  BY <1>5, <1>6, <1>7, <1>8, <1>9, <1>10, <1>11, <1>12, <1>13

-----------------------------------------------------------------------------
(* A handler starts with a body of calm steps.                             *)
LEMMA FadeCompleteCalm == ASSUME NEW e \in Events PROVE FadeCompleteSteps(e) \in Seq(Calm)
<1> DEFINE final == CASE e.type \in {"stop", "exit"} -> <<"finalizeStop", "deleteAll">>
                      [] e.type = "pause"            -> <<"finalizePause">>
                      [] OTHER                       -> <<>>
           clear == IF e.aborted THEN <<>> ELSE <<"clearOld">>
<1>1. /\ <<"finalizeStop", "deleteAll">> \in Seq(Calm) /\ <<"finalizePause">> \in Seq(Calm)
      /\ <<>> \in Seq(Calm) /\ <<"unsetFading">> \in Seq(Calm) /\ <<"clearOld">> \in Seq(Calm)
  BY DEF Calm, Tries, Steps
<1>2. final \in Seq(Calm)
  BY <1>1
<1>3. clear \in Seq(Calm)
  BY <1>1
<1>4. FadeCompleteSteps(e) = (final \o <<"unsetFading">>) \o clear
  BY DEF FadeCompleteSteps
<1> HIDE DEF final, clear
<1> QED
  BY <1>1, <1>2, <1>3, <1>4, CalmConcat

(* OnClose opens no stream.                                                *)
LEMMA CloseCalm == CloseSteps \in Seq(Calm)
<1>1. <<"stopExit">> \in Seq(Calm) /\ <<"killFader", "joinFader", "stopExit", "destroy">> \in Seq(Calm)
  BY DEF Calm, Tries, Steps
<1> QED
  BY <1>1 DEF CloseSteps, Shutdown

(* No command starts in the middle of Play.                                *)
LEMMA CommandCalm ==
    ASSUME NEW c \in RemoteCommands \union WindowCommands PROVE CommandSteps(c) \in Seq(Calm)
<1>1. /\ <<>> \in Seq(Calm) /\ <<"play">> \in Seq(Calm) /\ <<"playSeek">> \in Seq(Calm)
      /\ <<"resume">> \in Seq(Calm) /\ <<"pause">> \in Seq(Calm) /\ <<"next">> \in Seq(Calm)
      /\ <<"stop">> \in Seq(Calm) /\ <<"cancel">> \in Seq(Calm)
      /\ <<"clearOld", "play">> \in Seq(Calm) /\ <<"stopNow", "postRestart">> \in Seq(Calm)
  BY DEF Calm, Tries, Steps
<1>2. CASE c \in {"playItem", "addAndPlay", "nextSong", "pauseWeb", "resumeWeb", "stopSong", "setVolume",
                  "addSongs", "close"}
  BY <1>1, <1>2, CloseCalm DEF CommandSteps
<1>3. CASE c \in {"playPause", "replaceList", "seek", "clearList", "removeCurrent"}
  BY <1>1, <1>3 DEF CommandSteps
<1> QED
  BY <1>2, <1>3 DEF RemoteCommands, WindowCommands

(* Taking an event or a command keeps the type invariant.                  *)
LEMMA DispatchTyped ==
    ASSUME TypeInv, OnPlayerEvent \/ OnExitFadeDone \/ \E c \in Commands : Command(c)
    PROVE  TypeInv'
<1> USE DEF TypeInv, TypeOK, flagVars, streamVars, eventVars, faderVars, xfVars
<1>1. CASE OnPlayerEvent
  <2>1. events # <<>> /\ events \in Seq(Events)
    BY <1>1 DEF OnPlayerEvent, EventsOK
  <2>2. Head(events) \in Events /\ Tail(events) \in Seq(Events)
    BY <2>1, HeadTailProperties
  <2>3. <<"next", "nextDone">> \in Seq(Calm) /\ <<"play">> \in Seq(Calm)
    BY DEF Calm, Tries, Steps
  <2>4. todo' \in Seq(Calm)
    BY <1>1, <2>2, <2>3, FadeCompleteCalm DEF OnPlayerEvent, Events
  <2>5. EventsOK'
    BY <1>1, <2>2 DEF OnPlayerEvent, EventsOK
  <2>6. todo' \in Seq(Steps) /\ OpeningOK'
    BY <2>4, CalmIsStep DEF OpeningOK
  <2>7. UNCHANGED <<flagVars, streamVars, frame, empty, ops, ends, faderVars, xfVars>>
    BY <1>1 DEF OnPlayerEvent
  <2> QED
    BY <2>5, <2>6, <2>7 DEF FlagsOK, StreamsOK, MainOK, FaderOK, XfOK
<1>2. CASE OnExitFadeDone
  BY <1>2, CloseCalm, CalmIsStep
     DEF OnExitFadeDone, FlagsOK, StreamsOK, EventsOK, MainOK, FaderOK, XfOK, OpeningOK
<1>3. ASSUME NEW c \in Commands, Command(c) PROVE TypeInv'
  <2>1. todo' \in Seq(Calm)
    BY <1>3, CommandCalm, CommandsAssumption DEF Command
  <2>2. empty' \in BOOLEAN
    BY <1>3 DEF Command, MainOK
  <2> QED
    BY <1>3, <2>1, <2>2, CalmIsStep
       DEF Command, FlagsOK, StreamsOK, EventsOK, MainOK, FaderOK, XfOK, OpeningOK
<1> QED
  BY <1>1, <1>2, <1>3

-----------------------------------------------------------------------------
(* The type invariant holds at first ...                                   *)
LEMMA InitTyped == Init => TypeInv
<1> SUFFICES ASSUME Init PROVE TypeInv
  OBVIOUS
<1>1. FlagsOK /\ FaderOK
  BY DEF Init, FlagsOK, FaderOK, FaderPcs, FadeTypes
<1>2. EventsOK /\ MainOK /\ OpeningOK
  BY EmptySeq DEF Init, EventsOK, MainOK, OpeningOK
<1>3. StreamsOK
  BY BoundsAssumption, EmptySeq DEF Init, StreamsOK, Volumes
<1>4. XfOK
  BY NoXfTyped DEF Init, XfOK
<1> QED
  BY <1>1, <1>2, <1>3, <1>4 DEF TypeInv, TypeOK

(* ... and every step of every thread keeps it.                            *)
LEMMA NextTyped == TypeInv /\ [Next]_vars => TypeInv'
<1> SUFFICES ASSUME TypeInv, [Next]_vars PROVE TypeInv'
  OBVIOUS
<1>1. CASE Handler
  BY <1>1, FlagStepsTyped, OtherStepsTyped, PlayOpensTyped, PlaySucceedsTyped, PlayFailsTyped,
     PlayGivesUpTyped, AddStreamTyped DEF Handler
<1>2. CASE OnPlayerEvent \/ OnExitFadeDone \/ \E c \in Commands : Command(c)
  BY <1>2, DispatchTyped
<1>3. CASE Fader
  BY <1>3, FaderTyped
<1>4. CASE \E s \in Slots : Crossfader(s)
  BY <1>4, CrossfaderTyped
<1>5. CASE UNCHANGED vars
  BY <1>5 DEF TypeInv, TypeOK, FlagsOK, StreamsOK, EventsOK, MainOK, FaderOK, XfOK, OpeningOK,
              vars, flagVars, streamVars, eventVars, mainVars, faderVars, xfVars
<1> QED
  BY <1>1, <1>2, <1>3, <1>4, <1>5 DEF Next, Main, Wait

(* So it always holds.                                                     *)
LEMMA TypeInvariant == Spec => []TypeInv
  BY InitTyped, NextTyped, PTL DEF Spec

(* No step of any thread leaves the types: in particular the stream that   *)
(* Play appends to m_ActiveStreams is always one that was opened, and the  *)
(* counts of a fade never wrap below zero.                                 *)
THEOREM TypeCorrect == Spec => []TypeOK
<1>1. TypeInv => TypeOK
  BY DEF TypeInv
<1> QED
  BY <1>1, TypeInvariant, PTL

-----------------------------------------------------------------------------
(* What the GUI thread does to the crossfader and to m_ActiveStreams: it   *)
(* aborts or stops the crossfader, or changes the array while nobody holds *)
(* the lock.                                                               *)
LEMMA MainEffect ==
    ASSUME Main \/ \E c \in Commands : Command(c)
    PROVE  /\ faderPc' = faderPc
           /\ \/ UNCHANGED xfVars /\ (active' = active \/ ~Locked)
              \/ UNCHANGED active /\ (AbortCrossfader \/ StopFindsNone("main")
                                      \/ StopTakes("main") \/ StopJoins("main"))
<1> USE DEF OthersUnchanged, faderVars, streamVars
<1>1. CASE Stop \/ SetFadeStart \/ FinalizeStop \/ ClearOldStreams \/ PlayInvalid \/ PlayFindsNoFile
           \/ SetPlaying \/ Pause \/ FinalizePause \/ Resume \/ NextSong \/ NextSongDone \/ UnsetFading
  BY <1>1 DEF Stop, StopIgnored, StopStarts, SetFadeStart, FinalizeStop, ClearOldStreams, PlayInvalid,
              PlayFindsNoFile, SetPlaying, Pause, FinalizePause, Resume, NextSong, NextSongDone, UnsetFading
<1>2. CASE PlayOpens \/ PlaySucceeds \/ PlayGivesUp \/ FullVolume \/ PostRestart \/ KillFader
           \/ JoinFader \/ Destroy
  BY <1>2 DEF PlayOpens, PlaySucceeds, PlayGivesUp, FullVolume, PostRestart, KillFader, JoinFader, Destroy
<1>3. CASE DeleteAll \/ DeleteOld \/ PlayFails \/ AddStream
  BY <1>3 DEF DeleteAll, DeleteOld, PlayFails, AddStream, DeleteStreams
<1>4. CASE AbortStep \/ CancelStep
  BY <1>4 DEF AbortStep, CancelStep
<1>5. CASE OnPlayerEvent \/ OnExitFadeDone \/ \E c \in Commands : Command(c)
  BY <1>5 DEF OnPlayerEvent, OnExitFadeDone, Command
<1> QED
  BY <1>1, <1>2, <1>3, <1>4, <1>5 DEF Main, Handler

(* The fader leaves m_ActiveStreams alone.                                 *)
LEMMA FaderEffect ==
    ASSUME Fader
    PROVE  /\ active' = active
           /\ \/ UNCHANGED xfVars
              \/ AbortCrossfader
              \/ StopFindsNone("fader") \/ StopTakes("fader") \/ StopJoins("fader")
              \/ FaderSpawns \/ FaderAttaches
  BY DEF Fader, FaderLoop, FaderFindsActive, FaderCatches, FaderAborts, FaderStops, FaderSpawns,
         FaderAttaches, FaderChecks, FaderReads, FaderPostsNext, FaderHasTimeLeft, streamVars

-----------------------------------------------------------------------------
(* A crossfader is inside its fade exactly as long as it holds             *)
(* m_protectingStreamArrays, and its indices fit m_ActiveStreams.  The     *)
(* bounds alone are not inductive: that the array stays as it is follows   *)
(* from the lock.                                                          *)
LockInv ==
    \A s \in Slots :
        /\ xf[s].pc = "fade" <=> streamsLock = s
        /\ xf[s].pc = "fade" => xf[s].out <= Len(active) /\ xf[s].in <= Len(active)

(* A fade goes on as it was.                                               *)
SameFade(s) ==
    /\ xf'[s].pc = "fade" <=> xf[s].pc = "fade"
    /\ xf[s].pc = "fade" => xf'[s].out = xf[s].out /\ xf'[s].in = xf[s].in

(* Aborting and cancelling neither starts a fade nor touches its indices.  *)
LEMMA ControlKeepsFades ==
    ASSUME XfOK, NEW t \in Threads,
           AbortCrossfader \/ StopFindsNone(t) \/ StopTakes(t) \/ StopJoins(t)
    PROVE  streamsLock' = streamsLock /\ \A s \in Slots : SameFade(s)
<1>1. CASE AbortCrossfader
  <2>1. CASE CrossfaderActive
    BY <1>1, <2>1 DEF AbortCrossfader, XfOK, XfObjects, SameFade
  <2>2. CASE ~CrossfaderActive
    BY <1>1, <2>2 DEF AbortCrossfader, SameFade
  <2> QED
    BY <2>1, <2>2
<1>2. CASE StopFindsNone(t)
  BY <1>2 DEF StopFindsNone, xfVars, SameFade
<1>3. CASE StopTakes(t)
  BY <1>3 DEF StopTakes, XfOK, XfObjects, SameFade
<1>4. CASE StopJoins(t)
  BY <1>4 DEF StopJoins, NoXf, XfOK, XfObjects, SameFade
<1> QED
  BY <1>1, <1>2, <1>3, <1>4

(* Neither does a new crossfader, which has not entered yet.               *)
LEMMA SpawnKeepsFades ==
    ASSUME XfOK, FaderSpawns \/ FaderAttaches
    PROVE  streamsLock' = streamsLock /\ \A s \in Slots : SameFade(s)
<1>1. CASE FaderSpawns
  BY <1>1 DEF FaderSpawns, FreeSlots, NoXf, XfOK, XfObjects, SameFade
<1>2. CASE FaderAttaches
  BY <1>2 DEF FaderAttaches, NoXf, NoSlot, Slots, XfOK, XfObjects, SameFade
<1> QED
  BY <1>1, <1>2

(* A crossfader that fades holds the lock, with indices inside the array.  *)
LEMMA CrossfaderKeepsLock ==
    ASSUME TypeInv, LockInv, NEW s \in Slots, Crossfader(s)
    PROVE  LockInv'
<1>1. /\ xf \in [Slots -> XfObjects] /\ streamsLock \in Slots \union {NoSlot}
      /\ \A t \in Slots : t # NoSlot
  BY DEF TypeInv, TypeOK, XfOK, Slots, NoSlot
<1>2. CASE XfReturnsEarly(s)
  BY <1>1, <1>2 DEF XfReturnsEarly, LockInv, XfObjects
<1>3. CASE XfEnters(s)
  <2>1. Len(active) \in Nat \ {0} /\ active' = active
    BY <1>3, PrimaryTyped DEF XfEnters, TypeInv, TypeOK, streamVars
  <2>2. FadeOutCount(xf[s].type) <= Len(active) /\ FadeInIndex(xf[s].type) <= Len(active)
    BY <2>1 DEF FadeOutCount, FadeInIndex
  <2> QED
    BY <1>1, <1>3, <2>1, <2>2 DEF XfEnters, LockInv, XfObjects
<1>4. CASE XfFades(s)
  BY <1>1, <1>4 DEF XfFades, LockInv, XfObjects
<1>5. CASE XfReturns(s)
  BY <1>1, <1>5 DEF XfReturns, LockInv, XfObjects, streamVars
<1>6. CASE XfExits(s)
  BY <1>1, <1>6 DEF XfExits, LockInv, NoXf, XfObjects, streamVars
<1> QED
  BY <1>2, <1>3, <1>4, <1>5, <1>6 DEF Crossfader

(* Every step of every thread keeps LockInv.                               *)
LEMMA NextKeepsLock == TypeInv /\ LockInv /\ [Next]_vars => LockInv'
<1> SUFFICES ASSUME TypeInv, LockInv, [Next]_vars PROVE LockInv'
  OBVIOUS
<1>1. XfOK /\ "main" \in Threads /\ "fader" \in Threads
  BY DEF TypeInv, TypeOK, Threads
<1>2. ASSUME active' = active, streamsLock' = streamsLock, \A s \in Slots : SameFade(s)
      PROVE  LockInv'
  BY <1>2 DEF LockInv, SameFade
<1>3. ASSUME UNCHANGED xfVars, active' = active PROVE LockInv'
  BY <1>3 DEF LockInv, xfVars
<1>4. ASSUME UNCHANGED xfVars, ~Locked PROVE LockInv'
  BY <1>4 DEF LockInv, Locked, Slots, NoSlot, xfVars
<1>5. CASE Main \/ \E c \in Commands : Command(c)
  BY <1>1, <1>2, <1>3, <1>4, <1>5, MainEffect, ControlKeepsFades
<1>6. CASE Fader
  BY <1>1, <1>2, <1>3, <1>6, FaderEffect, ControlKeepsFades, SpawnKeepsFades
<1>7. CASE \E s \in Slots : Crossfader(s)
  BY <1>7, CrossfaderKeepsLock
<1>8. CASE UNCHANGED vars
  BY <1>3, <1>8 DEF vars, streamVars
<1> QED
  BY <1>5, <1>6, <1>7, <1>8 DEF Next, Wait

(* So it always holds.                                                     *)
LEMMA LockInvariant == Spec => []LockInv
<1>1. Init => LockInv
  BY DEF Init, LockInv, NoXf, Slots, NoSlot
<1> QED
  BY <1>1, NextKeepsLock, TypeInvariant, PTL DEF Spec

(* The indices a crossfader computed when it started stay inside           *)
(* m_ActiveStreams until its fade is over, whatever the GUI thread does.   *)
THEOREM FadesStayInBounds == Spec => []FadeIndicesValid
<1>1. LockInv => FadeIndicesValid
  BY DEF LockInv, FadeIndicesValid
<1> QED
  BY <1>1, LockInvariant, PTL

-----------------------------------------------------------------------------
(* Who may know a live crossfader: the controller, or the thread that took *)
(* it out of the controller and waits for its end inside m_critCrossfader. *)
(* Where the fader creates a new one nobody is in there and none is alive. *)
ControlInv ==
    /\ \A t \in Threads : joining[t] # NoSlot => crit = t /\ ctl = NoSlot
    /\ \A s \in Slots : Alive(s) => s = ctl \/ \E t \in Threads : joining[t] = s
    /\ faderPc \in {"spawn", "attach"} => crit = "none" /\ \A s \in Slots : ~Alive(s)

(* When the critical section is free nobody joins a crossfader, and the    *)
(* only one alive is the controller's.                                      *)
LEMMA NobodyInside ==
    ASSUME TypeInv, ControlInv, crit = "none"
    PROVE  /\ \A t \in Threads : joining[t] = NoSlot
           /\ \A s \in Slots : Alive(s) => s = ctl /\ CrossfaderActive
  BY DEF ControlInv, CrossfaderActive, Alive, NoSlot, Slots, Threads

(* CrossfaderAbort keeps ControlInv.                                       *)
LEMMA AbortKeepsControl ==
    ASSUME TypeInv, ControlInv, AbortCrossfader
    PROVE  /\ UNCHANGED <<ctl, crit, joining>>
           /\ \A s \in Slots : Alive(s)' <=> Alive(s)
<1>1. CASE CrossfaderActive
  BY <1>1 DEF AbortCrossfader, TypeInv, TypeOK, XfOK, XfObjects, Alive
<1>2. CASE ~CrossfaderActive
  BY <1>2 DEF AbortCrossfader, Alive
<1> QED
  BY <1>1, <1>2

(* CrossfaderStop keeps it, for both threads that call it.                 *)
LEMMA StopKeepsControl ==
    ASSUME TypeInv, ControlInv, NEW t \in Threads, StopFindsNone(t) \/ StopTakes(t) \/ StopJoins(t)
    PROVE  /\ \A u \in Threads : joining'[u] # NoSlot => crit' = u /\ ctl' = NoSlot
           /\ \A s \in Slots : Alive(s)' => s = ctl' \/ \E u \in Threads : joining'[u] = s
           /\ \A s \in Slots : Alive(s)' => Alive(s)
           /\ ~StopTakes(t) => crit' = "none" /\ \A s \in Slots : ~Alive(s)'
<1> USE DEF TypeInv, TypeOK, XfOK
<1>1. CASE StopFindsNone(t)
  <2>1. \A s \in Slots : ~Alive(s)
    BY <1>1, NobodyInside DEF StopFindsNone
  <2> QED
    BY <1>1, <2>1 DEF StopFindsNone, ControlInv, Alive, xfVars
<1>2. CASE StopTakes(t)
  <2>1. \A u \in Threads : joining[u] = NoSlot
    BY <1>2, NobodyInside DEF StopTakes
  <2>2. \A s \in Slots : Alive(s)' <=> Alive(s)
    BY <1>2 DEF StopTakes, XfObjects, Alive
  <2>3. \A s \in Slots : Alive(s) => s = ctl
    BY <1>2, NobodyInside DEF StopTakes
  <2>4. ~StopFindsNone(t) /\ ~StopJoins(t)
    BY <1>2 DEF StopTakes, StopFindsNone, StopJoins
  <2> QED
    BY <1>2, <2>1, <2>2, <2>3, <2>4 DEF StopTakes
<1>3. CASE StopJoins(t)
  <2>1. crit = t /\ ctl = NoSlot /\ joining[t] \in Slots
    BY <1>3 DEF StopJoins, ControlInv
  <2>2. \A u \in Threads : u # t => joining[u] = NoSlot
    BY <2>1 DEF ControlInv
  <2>3. \A s \in Slots : Alive(s) => s = joining[t]
    BY <2>1, <2>2 DEF ControlInv, NoSlot, Slots
  <2>4. ~Alive(joining[t])
    BY <1>3 DEF StopJoins, Alive
  <2>5. \A s \in Slots : ~Alive(s)'
    BY <1>3, <2>3, <2>4 DEF StopJoins, NoXf, Alive
  <2>6. \A u \in Threads : joining'[u] = NoSlot
    BY <1>3, <2>2 DEF StopJoins
  <2> QED
    BY <1>3, <2>5, <2>6 DEF StopJoins
<1> QED
  BY <1>1, <1>2, <1>3

(* The steps of the GUI thread keep it.                                    *)
LEMMA MainKeepsControl ==
    ASSUME TypeInv, ControlInv, Main \/ \E c \in Commands : Command(c)
    PROVE  ControlInv'
<1>1. faderPc' = faderPc
  BY MainEffect
<1>2. CASE UNCHANGED xfVars
  BY <1>1, <1>2 DEF ControlInv, Alive, xfVars
<1>3. CASE AbortCrossfader
  BY <1>1, <1>3, AbortKeepsControl DEF ControlInv
<1>4. CASE StopFindsNone("main") \/ StopTakes("main") \/ StopJoins("main")
  <2>1. "main" \in Threads
    BY DEF Threads
  <2>2. StopTakes("main") => faderPc \notin {"spawn", "attach"}
    BY DEF StopTakes, CrossfaderActive, Alive, ControlInv, TypeInv, TypeOK, XfOK
  <2> QED
    BY <1>1, <1>4, <2>1, <2>2, StopKeepsControl DEF ControlInv
<1> QED
  BY <1>2, <1>3, <1>4, MainEffect

(* The steps of the fader keep it.                                         *)
LEMMA FaderKeepsControl == ASSUME TypeInv, ControlInv, Fader PROVE ControlInv'
<1>1. CASE FaderLoop \/ FaderFindsActive \/ FaderCatches \/ FaderChecks \/ FaderReads
           \/ FaderPostsNext \/ FaderHasTimeLeft
  <2>1. UNCHANGED xfVars /\ faderPc' \notin {"spawn", "attach"}
    BY <1>1 DEF FaderLoop, FaderFindsActive, FaderCatches, FaderChecks, FaderReads, FaderPostsNext,
                FaderHasTimeLeft
  <2> QED
    BY <2>1 DEF ControlInv, Alive, xfVars
<1>2. CASE FaderAborts
  BY <1>2, AbortKeepsControl DEF FaderAborts, ControlInv
<1>3. CASE FaderStops
  <2>1. "fader" \in Threads
    BY DEF Threads
  <2>2. StopFindsNone("fader") \/ StopTakes("fader") \/ StopJoins("fader")
    BY <1>3 DEF FaderStops
  <2>3. faderPc' \in {"spawn", "attach"} => ~StopTakes("fader")
    BY <1>3 DEF FaderStops, StopFindsNone, StopTakes, StopJoins, NoSlot
  <2> QED
    BY <2>1, <2>2, <2>3, StopKeepsControl DEF ControlInv
<1>4. CASE FaderSpawns
  <2>1. UNCHANGED <<ctl, crit, joining>> /\ faderPc = "spawn"
    BY <1>4 DEF FaderSpawns
  <2>2. \A s \in Slots : ~Alive(s)
    BY <2>1 DEF ControlInv
  <2>3. \A s \in Slots : ~Alive(s)'
    BY <1>4, <2>2 DEF FaderSpawns, FreeSlots, NoXf, Alive, TypeInv, TypeOK, XfOK
  <2> QED
    BY <2>1, <2>3 DEF ControlInv
<1>5. CASE FaderAttaches
  <2>1. crit = "none" /\ (\A s \in Slots : ~Alive(s)) /\ faderPc' = "check" /\ UNCHANGED <<crit, joining>>
    BY <1>5 DEF FaderAttaches, ControlInv
  <2>2. \A t \in Threads : joining'[t] = NoSlot
    BY <2>1, NobodyInside
  <2>3. \A t \in Slots : Alive(t)' => t = ctl'
    BY <1>5, <2>1 DEF FaderAttaches, NoXf, Alive, TypeInv, TypeOK, XfOK
  <2> QED
    BY <2>1, <2>2, <2>3 DEF ControlInv
<1> QED
  BY <1>1, <1>2, <1>3, <1>4, <1>5 DEF Fader

(* The steps of a crossfader keep it.                                      *)
LEMMA CrossfaderKeepsControl ==
    ASSUME TypeInv, ControlInv, NEW s \in Slots, Crossfader(s)
    PROVE  ControlInv'
<1>1. UNCHANGED <<ctl, crit, joining>>
  BY DEF Crossfader, XfReturnsEarly, XfEnters, XfFades, XfReturns, XfExits
<1>2. faderPc' = faderPc
  BY DEF Crossfader, XfReturnsEarly, XfEnters, XfFades, XfReturns, XfExits, faderVars
<1>3. \A t \in Slots : Alive(t)' => Alive(t)
  <2> USE DEF TypeInv, TypeOK, XfOK, XfObjects, Alive
  <2>1. CASE XfReturnsEarly(s)
    BY <2>1 DEF XfReturnsEarly
  <2>2. CASE XfEnters(s)
    BY <2>2 DEF XfEnters
  <2>3. CASE XfFades(s)
    BY <2>3 DEF XfFades
  <2>4. CASE XfReturns(s)
    BY <2>4 DEF XfReturns
  <2>5. CASE XfExits(s)
    BY <2>5 DEF XfExits, NoXf
  <2> QED
    BY <2>1, <2>2, <2>3, <2>4, <2>5 DEF Crossfader
<1> QED
  BY <1>1, <1>2, <1>3 DEF ControlInv

(* So it always holds.                                                     *)
LEMMA ControlInvariant == Spec => []ControlInv
<1>1. Init => ControlInv
  BY DEF Init, ControlInv, Alive, NoXf, Threads
<1>2. TypeInv /\ ControlInv /\ [Next]_vars => ControlInv'
  <2> SUFFICES ASSUME TypeInv, ControlInv, [Next]_vars PROVE ControlInv'
    OBVIOUS
  <2>1. CASE UNCHANGED vars
    BY <2>1 DEF ControlInv, Alive, vars, faderVars, xfVars
  <2> QED
    BY <2>1, MainKeepsControl, FaderKeepsControl, CrossfaderKeepsControl DEF Next, Wait
<1> QED
  BY <1>1, <1>2, TypeInvariant, PTL DEF Spec

(* Two crossfaders are never alive at the same time, and StartNew always   *)
(* finds none, not even one that another thread is still waiting for.      *)
THEOREM SingleCrossfader == Spec => []OneCrossfader
<1>1. TypeInv /\ ControlInv => OneCrossfader
  <2> SUFFICES ASSUME TypeInv, ControlInv PROVE OneCrossfader
    OBVIOUS
  <2>1. ASSUME NEW s \in Slots, NEW t \in Slots, Alive(s), Alive(t) PROVE s = t
    <3>1. CASE ctl # NoSlot
      BY <2>1, <3>1 DEF ControlInv, NoSlot, Slots
    <3>2. CASE ctl = NoSlot
      BY <2>1, <3>2 DEF ControlInv, NoSlot, Slots
    <3> QED
      BY <3>1, <3>2
  <2> QED
    BY <2>1 DEF OneCrossfader, ControlInv
<1> QED
  BY <1>1, TypeInvariant, ControlInvariant, PTL
=============================================================================
