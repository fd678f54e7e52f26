------------------------------- MODULE DecoderMC -------------------------------
(***************************************************************************)
(* What Decoder is checked for.                                            *)
(***************************************************************************)
EXTENDS Decoder

ShortAndLong == {1, 4}

Cells == Samples \union {Silence, Garbage}
TypeOK ==
    /\ seekNeeded \in Positions \union {NoSeek} /\ decodePos \in Nat /\ at \in Positions
    /\ buffer \in Seq(Samples) /\ out \in Seq(Cells) /\ len \in Nat
    /\ pc \in {"new", "idle", "test", "seek", "clear", "loop", "refill", "stopped"}
    /\ looping \in BOOLEAN /\ due \in Positions /\ wanted \in Positions \union {NoSeek}
    /\ failed \in BOOLEAN /\ seeks \in 0..MaxSeeks

(* Between two seeks no sample is lost, repeated or out of order, and after *)
(* a seek the first sample heard is the one sought, however the song is cut *)
(* into blocks and buffers: what is buffered is what has to be heard next,  *)
(* up to where the decoder is.                                              *)
SamplesInOrder ==
    pc # "clear" => due + Len(buffer) = at /\ buffer = Run(due, Len(buffer))

(* When the callback returns every sample of its buffer is written, unless  *)
(* the last seek failed: then the silence goes to the wrong end of it.      *)
BufferIsFilled ==
    pc \in {"idle", "stopped"} /\ ~failed => \A i \in DOMAIN out : out[i] # Garbage

(* A position the GUI thread asks for at any moment, but while another seek *)
(* is in work, is sought or still stands in m_seek_needed.                  *)
SeekIsNotLost == pc = "idle" => wanted \in {NoSeek, seekNeeded}

(* The position comes to the end of the song and stays there, so that the   *)
(* player sees that no time is left and plays the next song.                *)
EndIsReported == <>[](decodePos = SampleCount)
=============================================================================
