-------------------------------- MODULE Decoder --------------------------------
(***************************************************************************)
(* MUSIKDecoder: the sound library's thread asks for the samples of a      *)
(* stream, and DoFillBuffer hands them out of a buffer that DecodeBlocks   *)
(* refills, while the GUI thread asks for another position with            *)
(* SetSamplePos and reads the position with GetSamplePos.  m_seek_needed   *)
(* is all they share, and nothing protects it.                             *)
(*                                                                         *)
(* A sample is its position in the song; a byte of the code is a sample.   *)
(***************************************************************************)
EXTENDS Integers, Sequences

CONSTANTS
    SampleCount,    \* m_Info.SampleCount
    BlockSize,      \* the most samples one DecodeBlocks returns
    Lengths,        \* lengths of the buffers the sound library hands in
    SeekMayFail,    \* may DoSeek fail?
    MaxSeeks        \* bound: calls of SetSamplePos

ASSUME SongAssumption ==
    /\ {SampleCount, BlockSize} \subseteq Nat \ {0} /\ Lengths \subseteq Nat \ {0}
    /\ SeekMayFail \in BOOLEAN /\ MaxSeeks \in Nat

VARIABLES
    seekNeeded,     \* m_seek_needed
    decodePos,      \* m_decode_pos
    at,             \* the next sample the decoder library will decode
    buffer,         \* the filled part of m_sample_buffer
    out, len,       \* the buffer of the callback so far, samples still missing
    pc, looping     \* where DoFillBuffer is; has it passed its first check?
codeVars == <<seekNeeded, decodePos, at, buffer, out, len, pc, looping>>

VARIABLES           \* not in the code, for the properties
    due,            \* the sample that has to be heard next
    wanted,         \* the last position asked for, until a seek to it; not
                    \* when it was asked for while another seek was in work
    failed,         \* has the last seek failed?
    seeks           \* calls of SetSamplePos so far
ghostVars == <<due, wanted, failed, seeks>>
vars == <<codeVars, ghostVars>>

NoSeek  == -1
Silence == -2
Garbage == -3       \* memory the callback has not written
Samples == 0..(SampleCount - 1)
Positions == 0..SampleCount

Run(from, n) == [i \in 1..n |-> from + i - 1]
Fill(x, n)   == [i \in 1..n |-> x]
-----------------------------------------------------------------------------
(* The position GetSamplePos returns, unless m_seek_needed is cleared      *)
(* between its two reads of it.                                            *)
SamplePos == IF seekNeeded # NoSeek THEN seekNeeded ELSE decodePos

Init ==
    /\ seekNeeded = NoSeek /\ decodePos = 0 /\ at = 0 /\ buffer = <<>>
    /\ out = <<>> /\ len = 0 /\ pc = "new" /\ looping = FALSE
    /\ due = 0 /\ wanted = NoSeek /\ failed = FALSE /\ seeks = 0

(* Mutant: the last block is not cut off at the end of the song.           *)
FullBlocks == IF at >= SampleCount THEN {<<>>} ELSE {Run(at, n) : n \in 1..BlockSize}

(* DecodeBlocks returns some of the samples that follow, none at the end.  *)
Blocks == IF at = SampleCount THEN {<<>>}
          ELSE {Run(at, n) : n \in {k \in 1..BlockSize : at + k <= SampleCount}}

-----------------------------------------------------------------------------
(* The GUI thread.                                                         *)

(* A stream is opened; Play calls Start again when the sound library       *)
(* refused the stream the first time.                                      *)
Start ==
    /\ pc = "new"
    /\ \E rewound \in IF decodePos > 0 /\ SeekMayFail THEN BOOLEAN ELSE {TRUE}, created \in BOOLEAN :
          IF ~rewound THEN UNCHANGED <<decodePos, at, buffer, pc>>
          ELSE \E n \in {k \in 1..BlockSize : k <= SampleCount} :
                  /\ buffer' = Run(0, n) /\ at' = n /\ decodePos' = n
                  /\ pc' = IF created THEN "idle" ELSE "new"
    /\ UNCHANGED <<seekNeeded, out, len, looping, ghostVars>>

SetSamplePos ==
    /\ seeks < MaxSeeks
    /\ \E pos \in Positions \ {SamplePos} :
          /\ seekNeeded' = pos
          /\ wanted' = IF pc = "clear" THEN NoSeek ELSE pos
    /\ seeks' = seeks + 1
    /\ UNCHANGED <<decodePos, at, buffer, out, len, pc, looping, due, failed>>

-----------------------------------------------------------------------------
(* The thread of the sound library.                                        *)
Hears(samples) == due' = IF samples = <<>> THEN due ELSE samples[Len(samples)] + 1
(* FMOD 3 stops a stream whose callback returns false, FMOD Ex asks on.    *)
Returns(ok)    == pc' \in {"idle"} \union (IF ok THEN {} ELSE {"stopped"})

(* Mutant: a request that was not yet looked at is dropped.                *)
FillBufferAnew ==
    /\ pc = "idle"
    /\ \E n \in Lengths : len' = n
    /\ out' = <<>> /\ looping' = FALSE /\ pc' = "test" /\ seekNeeded' = NoSeek
    /\ UNCHANGED <<decodePos, at, buffer, ghostVars>>

FillBuffer ==
    /\ pc = "idle"
    /\ \E n \in Lengths : len' = n
    /\ out' = <<>> /\ looping' = FALSE /\ pc' = "test"
    /\ UNCHANGED <<seekNeeded, decodePos, at, buffer, ghostVars>>

SeekTested ==
    /\ pc = "test"
    /\ pc' = IF seekNeeded # NoSeek THEN "seek" ELSE IF looping THEN "refill" ELSE "loop"
    /\ UNCHANGED <<seekNeeded, decodePos, at, buffer, out, len, looping, ghostVars>>

(* DoSeek reads m_seek_needed a second time.                               *)
DoSeek ==
    /\ pc = "seek"
    /\ \/ at' = seekNeeded /\ decodePos' = seekNeeded /\ due' = seekNeeded /\ failed' = FALSE
       \/ SeekMayFail /\ failed' = TRUE /\ UNCHANGED <<at, decodePos, due>>
    /\ wanted' = IF wanted = seekNeeded THEN NoSeek ELSE wanted
    /\ pc' = "clear"
    /\ UNCHANGED <<seekNeeded, buffer, out, len, looping, seeks>>

(* Mutants: the buffer is not reset; the request stays.                    *)
SeekKeepsBuffer ==
    /\ pc = "clear" /\ ~failed
    /\ seekNeeded' = NoSeek
    /\ pc' = IF looping THEN "refill" ELSE "loop"
    /\ UNCHANGED <<decodePos, at, buffer, out, len, looping, ghostVars>>
SeekStays ==
    /\ pc = "clear" /\ ~failed
    /\ buffer' = <<>>
    /\ pc' = IF looping THEN "refill" ELSE "loop"
    /\ UNCHANGED <<seekNeeded, decodePos, at, out, len, looping, ghostVars>>

SeekSucceeded ==
    /\ pc = "clear" /\ ~failed
    /\ seekNeeded' = NoSeek /\ buffer' = <<>>
    /\ pc' = IF looping THEN "refill" ELSE "loop"
    /\ UNCHANGED <<decodePos, at, out, len, looping, ghostVars>>

(* The silence is written from the start of the buffer.  A library that    *)
(* asks on hears the song from where it was, and the position runs past    *)
(* the end of it.                                                          *)
SeekFailed ==
    /\ pc = "clear" /\ failed
    /\ seekNeeded' = NoSeek /\ decodePos' = SampleCount
    /\ out' = [i \in 1..(Len(out) + len) |-> IF i <= len THEN Silence
                                             ELSE IF i <= Len(out) THEN out[i] ELSE Garbage]
    /\ Returns(FALSE)
    /\ UNCHANGED <<at, buffer, len, looping, ghostVars>>

Loops ==
    /\ pc = "loop" /\ len >= Len(buffer)
    /\ looping' = TRUE /\ pc' = "test"
    /\ UNCHANGED <<seekNeeded, decodePos, at, buffer, out, len, ghostVars>>

(* At the end of the song silence fills the rest of the buffer.            *)
RestUntouched(missing) == Fill(Garbage, missing)    \* mutant
Rest(missing)          == Fill(Silence, missing)

Refill ==
    /\ pc = "refill"
    /\ Hears(buffer)
    /\ \E block \in Blocks :
          LET missing == len - Len(buffer)
          IN  /\ buffer' = block /\ at' = at + Len(block) /\ len' = missing
              /\ IF block = <<>>
                 THEN /\ out' = out \o buffer \o Rest(missing)
                      /\ decodePos' = SampleCount /\ Returns(FALSE)
                 ELSE /\ out' = out \o buffer
                      /\ decodePos' = decodePos + Len(block) /\ pc' = "loop"
    /\ UNCHANGED <<seekNeeded, looping, wanted, failed, seeks>>

FillsRest ==
    /\ pc = "loop" /\ len < Len(buffer)
    /\ LET rest == SubSeq(buffer, 1, len)
       IN  out' = out \o rest /\ Hears(rest)
    /\ buffer' = SubSeq(buffer, len + 1, Len(buffer))
    /\ Returns(TRUE)
    /\ UNCHANGED <<seekNeeded, decodePos, at, len, looping, wanted, failed, seeks>>

DoFillBuffer == \/ SeekTested \/ DoSeek \/ SeekSucceeded \/ SeekFailed
                \/ Loops \/ Refill \/ FillsRest

Next == Start \/ SetSamplePos \/ FillBuffer \/ DoFillBuffer

Spec == Init /\ [][Next]_vars

(* A stream that was opened is started, and then the sound library keeps   *)
(* asking for samples; its thread runs to the end of the callback.         *)
Fairness == SF_vars(Start /\ pc' = "idle") /\ WF_vars(FillBuffer) /\ WF_vars(DoFillBuffer)
FairSpec == Spec /\ Fairness
=============================================================================
