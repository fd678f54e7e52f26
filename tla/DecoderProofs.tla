---------------------------- MODULE DecoderProofs ----------------------------
(***************************************************************************)
(* Proofs about Decoder, for songs, blocks and buffers of every length and *)
(* every number of seeks.                                                  *)
(***************************************************************************)
EXTENDS DecoderMC, SequenceTheorems, TLAPS

-----------------------------------------------------------------------------
(* The types alone are not inductive: a seek takes its position from       *)
(* m_seek_needed a second time, and a refill hands out the whole buffer,   *)
(* which was compared with the rest of the callback's buffer before the    *)
(* test for a seek.                                                        *)
SeekStands  == pc \in {"seek", "clear"} => seekNeeded # NoSeek
BufferFits  == (looping /\ pc \in {"test", "seek", "clear"}) \/ pc = "refill" => Len(buffer) <= len
TypeInv     == TypeOK /\ SeekStands /\ BufferFits

(* n samples from one on are samples of the song if they do not run past   *)
(* its end.                                                                *)
LEMMA RunTyped ==
    ASSUME NEW from \in Nat, NEW n \in Nat, from + n <= SampleCount
    PROVE  /\ Run(from, n) \in Seq(Samples) /\ Len(Run(from, n)) = n
           /\ \A i \in 1..n : Run(from, n)[i] = from + i - 1
<1>1. SampleCount \in Nat \ {0}
  BY SongAssumption
<1>2. \A i \in 1..n : from + i - 1 \in Samples
  BY <1>1 DEF Samples
<1> QED
  BY <1>2 DEF Run

(* Equal cells are a sequence of cells.                                    *)
LEMMA FillTyped ==
    ASSUME NEW x \in Cells, NEW n \in Nat
    PROVE  /\ Fill(x, n) \in Seq(Cells) /\ Len(Fill(x, n)) = n
           /\ \A i \in 1..n : Fill(x, n)[i] = x
  BY DEF Fill

(* Samples are cells that have been written.                               *)
LEMMA SamplesAreCells ==
    ASSUME NEW s \in Seq(Samples)
    PROVE  s \in Seq(Cells) /\ \A i \in DOMAIN s : s[i] \in Samples
  BY SeqMonotonic, LenProperties DEF Cells

(* A block is the run of samples that follows, and it ends inside the song. *)
LEMMA BlockIsRun ==
    ASSUME at \in Positions, NEW block \in Blocks
    PROVE  /\ block \in Seq(Samples) /\ Len(block) \in Nat
           /\ block = Run(at, Len(block)) /\ at + Len(block) \in Positions
<1>1. /\ SampleCount \in Nat \ {0} /\ BlockSize \in Nat \ {0} /\ at \in Nat /\ at <= SampleCount
  BY SongAssumption DEF Positions
<1>2. CASE at = SampleCount
  <2>1. block = <<>>
    BY <1>2 DEF Blocks
  <2>2. Run(at, 0) = <<>>
    BY DEF Run
  <2> QED
    BY <1>1, <2>1, <2>2, EmptySeq DEF Positions
<1>3. CASE at # SampleCount
  <2>1. PICK n \in 1..BlockSize : at + n <= SampleCount /\ block = Run(at, n)
    BY <1>3 DEF Blocks
  <2>2. n \in Nat
    BY <1>1, <2>1
  <2> QED
    BY <1>1, <2>1, <2>2, RunTyped DEF Positions
<1> QED
  BY <1>2, <1>3

(* What is heard ends before the position that is heard next.              *)
LEMMA HearsTyped ==
    ASSUME NEW s \in Seq(Samples), due \in Positions, Hears(s)
    PROVE  due' \in Positions
<1>1. CASE s = <<>>
  BY <1>1 DEF Hears
<1>2. CASE s # <<>>
  <2>1. Len(s) \in 1..Len(s)
    BY <1>2, EmptySeq
  <2>2. s[Len(s)] \in Samples
    BY <2>1, ElementOfSeq
  <2> QED
    BY <1>2, <2>2, SongAssumption DEF Hears, Samples, Positions
<1> QED
  BY <1>1, <1>2

-----------------------------------------------------------------------------
(* Opening a stream, a seek of the GUI thread and the start of a callback. *)
LEMMA OutsideTyped ==
    ASSUME TypeInv, Start \/ SetSamplePos \/ FillBuffer
    PROVE  TypeInv'
<1> USE DEF TypeInv, TypeOK, SeekStands, BufferFits
<1>1. CASE Start
  <2>1. buffer' \in Seq(Samples) /\ at' \in Positions /\ decodePos' \in Nat /\ pc' \in {"new", "idle"}
    <3>1. CASE UNCHANGED <<decodePos, at, buffer, pc>>
      BY <1>1, <3>1 DEF Start
    <3>2. CASE ~UNCHANGED <<decodePos, at, buffer, pc>>
      <4>1. PICK n \in 1..BlockSize : /\ n <= SampleCount /\ buffer' = Run(0, n)
                                      /\ at' = n /\ decodePos' = n /\ pc' \in {"new", "idle"}
        BY <1>1, <3>2 DEF Start
      <4>2. n \in Nat /\ SampleCount \in Nat /\ 0 + n <= SampleCount
        BY <4>1, SongAssumption
      <4> QED
        BY <4>1, <4>2, RunTyped DEF Positions
    <3> QED
      BY <3>1, <3>2
  <2> QED
    BY <1>1, <2>1 DEF Start, ghostVars
<1>2. CASE SetSamplePos
  <2>1. PICK pos \in Positions : seekNeeded' = pos /\ wanted' = IF pc = "clear" THEN NoSeek ELSE pos
    BY <1>2 DEF SetSamplePos
  <2>2. seekNeeded' \in Positions /\ seekNeeded' # NoSeek /\ wanted' \in Positions \union {NoSeek}
    BY <2>1, SongAssumption DEF Positions, NoSeek
  <2>3. seeks' \in 0..MaxSeeks
    BY <1>2, SongAssumption DEF SetSamplePos
  <2> QED
    BY <1>2, <2>2, <2>3 DEF SetSamplePos
<1>3. CASE FillBuffer
  <2>1. len' \in Nat
    BY <1>3, SongAssumption DEF FillBuffer
  <2>2. out' \in Seq(Cells)
    BY <1>3, EmptySeq DEF FillBuffer
  <2>3. TypeOK'
    BY <1>3, <2>1, <2>2 DEF FillBuffer, ghostVars
  <2>4. pc' = "test" /\ looping' = FALSE
    BY <1>3 DEF FillBuffer
  <2> QED
    BY <2>3, <2>4
<1> QED
  BY <1>1, <1>2, <1>3

(* The test for a seek and the seek itself.                                *)
LEMMA SeekStepsTyped ==
    ASSUME TypeInv, SeekTested \/ DoSeek \/ SeekSucceeded \/ SeekFailed \/ Loops
    PROVE  TypeInv'
<1> USE DEF TypeInv, TypeOK, SeekStands, BufferFits
<1>1. CASE SeekTested
  <2>1. /\ pc' \in {"seek", "loop", "refill"} /\ (pc' = "seek" => seekNeeded # NoSeek)
        /\ (pc' = "refill" => looping)
    BY <1>1 DEF SeekTested
  <2> QED
    BY <1>1, <2>1 DEF SeekTested, ghostVars
<1>2. CASE DoSeek
  <2>1. seekNeeded \in Positions /\ Positions \subseteq Nat
    BY <1>2, SongAssumption DEF DoSeek, Positions
  <2> QED
    BY <1>2, <2>1 DEF DoSeek
<1>3. CASE SeekSucceeded
  BY <1>3, EmptySeq DEF SeekSucceeded, ghostVars
<1>4. CASE SeekFailed
  <2>1. Len(out) \in Nat /\ Len(out) + len \in Nat /\ \A i \in 1..Len(out) : out[i] \in Cells
    BY LenProperties, ElementOfSeq
  <2>2. out' \in [1..(Len(out) + len) -> Cells]
    BY <1>4, <2>1 DEF SeekFailed, Cells
  <2>3. out' \in Seq(Cells)
    BY <2>1, <2>2
  <2>4. SampleCount \in Nat
    BY SongAssumption
  <2> QED
    BY <1>4, <2>3, <2>4 DEF SeekFailed, Returns, ghostVars
<1>5. CASE Loops
  BY <1>5 DEF Loops, ghostVars
<1> QED
  BY <1>1, <1>2, <1>3, <1>4, <1>5

(* Handing out the buffer.                                                 *)
LEMMA HandOutTyped ==
    ASSUME TypeInv, Refill \/ FillsRest
    PROVE  TypeInv'
<1> USE DEF TypeInv, TypeOK, SeekStands, BufferFits
<1>1. Len(buffer) \in Nat /\ buffer \in Seq(Cells) /\ SampleCount \in Nat /\ Silence \in Cells
  BY LenProperties, SamplesAreCells, SongAssumption DEF Cells
<1>2. CASE Refill
  <2>1. PICK block \in Blocks :
          LET missing == len - Len(buffer)
          IN  /\ buffer' = block /\ at' = at + Len(block) /\ len' = missing
              /\ IF block = <<>>
                 THEN /\ out' = out \o buffer \o Rest(missing)
                      /\ decodePos' = SampleCount /\ Returns(FALSE)
                 ELSE /\ out' = out \o buffer
                      /\ decodePos' = decodePos + Len(block) /\ pc' = "loop"
    BY <1>2 DEF Refill
  <2>2. len' \in Nat /\ len' = len - Len(buffer)
    BY <1>1, <1>2, <2>1 DEF Refill
  <2>3. out \o buffer \in Seq(Cells) /\ Rest(len') \in Seq(Cells)
    BY <1>1, <2>2, ConcatProperties, FillTyped DEF Rest
  <2>4. out' \in Seq(Cells)
    <3>1. out' = out \o buffer \o Rest(len') \/ out' = out \o buffer
      BY <2>1
    <3>2. (out \o buffer) \o Rest(len') \in Seq(Cells)
      BY <2>3, ConcatProperties
    <3> QED
      BY <2>3, <3>1, <3>2
  <2>5. buffer' \in Seq(Samples) /\ at' \in Positions /\ Len(block) \in Nat
    BY <2>1, BlockIsRun
  <2>6. decodePos' \in Nat /\ pc' \in {"idle", "stopped", "loop"}
    BY <1>1, <2>1, <2>5 DEF Returns
  <2>7. due' \in Positions
    BY <1>2, HearsTyped DEF Refill
  <2>8. UNCHANGED <<seekNeeded, looping, wanted, failed, seeks>>
    BY <1>2 DEF Refill
  <2>9. TypeOK'
    BY <2>2, <2>4, <2>5, <2>6, <2>7, <2>8 DEF TypeOK
  <2>10. pc' \notin {"seek", "clear", "test", "refill"}
    BY <2>6
  <2> QED
    BY <2>9, <2>10 DEF TypeInv, SeekStands, BufferFits
<1>3. CASE FillsRest
  <2>1. len <= Len(buffer)
    BY <1>1, <1>3 DEF FillsRest
  <2>2. \A i \in 1..Len(buffer) : buffer[i] \in Samples
    BY ElementOfSeq
  <2>3. SubSeq(buffer, 1, len) \in Seq(Samples) /\ SubSeq(buffer, len + 1, Len(buffer)) \in Seq(Samples)
    BY <1>1, <2>1, <2>2, SubSeqProperties
  <2>4. out' \in Seq(Cells)
    BY <1>3, <2>3, SamplesAreCells, ConcatProperties DEF FillsRest
  <2>5. due' \in Positions
    BY <1>3, <2>3, HearsTyped DEF FillsRest
  <2> QED
    BY <1>3, <2>3, <2>4, <2>5 DEF FillsRest, Returns
<1> QED
  BY <1>2, <1>3

(* Every step keeps the types.                                             *)
LEMMA TypeInvariant == Spec => []TypeInv
<1>1. Init => TypeInv
  <2>1. 0 \in Positions /\ 0 \in 0..MaxSeeks /\ <<>> \in Seq(Samples) /\ <<>> \in Seq(Cells)
    BY SongAssumption, EmptySeq DEF Positions
  <2> SUFFICES ASSUME Init PROVE TypeInv
    OBVIOUS
  <2>2. TypeOK
    BY <2>1 DEF Init, TypeOK
  <2>3. SeekStands /\ BufferFits
    BY DEF Init, SeekStands, BufferFits
  <2> QED
    BY <2>2, <2>3 DEF TypeInv
<1>2. TypeInv /\ [Next]_vars => TypeInv'
  <2> SUFFICES ASSUME TypeInv, [Next]_vars PROVE TypeInv'
    OBVIOUS
  <2>1. CASE UNCHANGED vars
    BY <2>1 DEF TypeInv, TypeOK, SeekStands, BufferFits, vars, codeVars, ghostVars
  <2> QED
    BY <2>1, OutsideTyped, SeekStepsTyped, HandOutTyped DEF Next, DoFillBuffer
<1> QED
  BY <1>1, <1>2, PTL DEF Spec

(* Every variable of the decoder and of the callback keeps its type: no    *)
(* callback hands out more than it was asked for, and no seek takes its    *)
(* position from a request that is not there.                              *)
THEOREM TypeCorrect == Spec => []TypeOK
<1>1. TypeInv => TypeOK
  BY DEF TypeInv
<1> QED
  BY <1>1, TypeInvariant, PTL

-----------------------------------------------------------------------------
(* The buffer holds the samples between the one that is due and the one    *)
(* the decoder library decodes next.  This fails only between a seek that  *)
(* succeeded and the reset of the buffer.                                  *)
InOrder  == due + Len(buffer) = at /\ buffer = Run(due, Len(buffer))
OrderInv == /\ pc = "new" => due = 0
            /\ pc # "clear" \/ failed => InOrder
            /\ pc = "clear" /\ ~failed => at = due

(* The first n samples of a run are the run of n samples.                  *)
LEMMA RunPrefix ==
    ASSUME NEW from \in Nat, NEW k \in Nat, NEW n \in 0..k, from + k <= SampleCount
    PROVE  SubSeq(Run(from, k), 1, n) = Run(from, n)
<1>1. /\ Run(from, k) \in Seq(Samples) /\ Len(Run(from, k)) = k
      /\ \A i \in 1..k : Run(from, k)[i] = from + i - 1
  BY RunTyped
<1>2. n \in Nat /\ from + n <= SampleCount /\ \A i \in 1..n : Run(from, k)[i] \in Samples
  BY <1>1, ElementOfSeq, SongAssumption
<1>3. /\ SubSeq(Run(from, k), 1, n) \in Seq(Samples) /\ Len(SubSeq(Run(from, k), 1, n)) = n
      /\ \A i \in 1..n : SubSeq(Run(from, k), 1, n)[i] = Run(from, k)[i]
  BY <1>2, SubSeqProperties
<1>4. /\ Run(from, n) \in Seq(Samples) /\ Len(Run(from, n)) = n
      /\ \A i \in 1..n : Run(from, n)[i] = from + i - 1
  BY <1>2, RunTyped
<1> QED
  BY <1>1, <1>2, <1>3, <1>4, SeqEqual

(* Handing out the first n samples of a run leaves the run of the rest.    *)
LEMMA RunSuffix ==
    ASSUME NEW from \in Nat, NEW k \in Nat, NEW n \in 0..k, from + k <= SampleCount
    PROVE  SubSeq(Run(from, k), n + 1, k) = Run(from + n, k - n)
<1>1. /\ Run(from, k) \in Seq(Samples) /\ Len(Run(from, k)) = k
      /\ \A i \in 1..k : Run(from, k)[i] = from + i - 1
  BY RunTyped
<1>2. \A i \in (n + 1)..k : Run(from, k)[i] \in Samples
  BY <1>1, ElementOfSeq
<1>3. /\ SubSeq(Run(from, k), n + 1, k) \in Seq(Samples)
      /\ Len(SubSeq(Run(from, k), n + 1, k)) = k - n
      /\ \A i \in 1..(k - n) : SubSeq(Run(from, k), n + 1, k)[i] = Run(from, k)[n + i]
  <2>1. n + 1 \in Int /\ k \in Int
    OBVIOUS
  <2> QED
    BY <1>2, <2>1, SubSeqProperties
<1>4. /\ Run(from + n, k - n) \in Seq(Samples) /\ Len(Run(from + n, k - n)) = k - n
      /\ \A i \in 1..(k - n) : Run(from + n, k - n)[i] = from + n + i - 1
  <2>1. from + n \in Nat /\ k - n \in Nat /\ (from + n) + (k - n) <= SampleCount
    BY SongAssumption
  <2> QED
    BY <2>1, RunTyped
<1>5. \A i \in 1..(k - n) : SubSeq(Run(from, k), n + 1, k)[i] = Run(from + n, k - n)[i]
  BY <1>1, <1>3, <1>4
<1> QED
  BY <1>3, <1>4, <1>5, SeqEqual

(* Opening, seeking and waiting keep the samples in order.                 *)
LEMMA OthersKeepOrder ==
    ASSUME TypeInv, OrderInv,
           \/ Start \/ SetSamplePos \/ FillBuffer
           \/ SeekTested \/ DoSeek \/ SeekSucceeded \/ SeekFailed \/ Loops
    PROVE  OrderInv'
<1> USE DEF TypeInv, TypeOK, OrderInv, InOrder
<1>1. CASE Start
  <2>1. CASE UNCHANGED <<decodePos, at, buffer, pc>>
    BY <1>1, <2>1 DEF Start, ghostVars
  <2>2. CASE ~UNCHANGED <<decodePos, at, buffer, pc>>
    <3>1. PICK n \in 1..BlockSize : /\ n <= SampleCount /\ buffer' = Run(0, n)
                                    /\ at' = n /\ pc' \in {"new", "idle"}
      BY <1>1, <2>2 DEF Start
    <3>2. n \in Nat /\ SampleCount \in Nat /\ 0 + n <= SampleCount
      BY <3>1, SongAssumption
    <3>3. Len(buffer') = n
      BY <3>1, <3>2, RunTyped
    <3>4. due' = 0
      BY <1>1 DEF Start, ghostVars
    <3> QED
      BY <3>1, <3>2, <3>3, <3>4
  <2> QED
    BY <2>1, <2>2
<1>2. CASE SetSamplePos
  BY <1>2 DEF SetSamplePos
<1>3. CASE FillBuffer
  BY <1>3 DEF FillBuffer, ghostVars
<1>4. CASE SeekTested
  <2>1. pc = "test" /\ pc' \notin {"new", "clear"}
    BY <1>4 DEF SeekTested
  <2> QED
    BY <1>4, <2>1 DEF SeekTested, ghostVars
<1>5. CASE DoSeek
  BY <1>5 DEF DoSeek
<1>6. CASE SeekSucceeded
  <2>1. due \in Nat /\ Run(due, 0) = <<>> /\ Len(<<>>) = 0
    BY SongAssumption, EmptySeq DEF Run, Positions
  <2>2. due' = due /\ at' = at /\ buffer' = <<>> /\ at = due /\ pc' \in {"refill", "loop"}
    BY <1>6 DEF SeekSucceeded, ghostVars
  <2> QED
    BY <2>1, <2>2
<1>7. CASE SeekFailed
  BY <1>7 DEF SeekFailed, Returns, ghostVars
<1>8. CASE Loops
  BY <1>8 DEF Loops, ghostVars
<1> QED
  BY <1>1, <1>2, <1>3, <1>4, <1>5, <1>6, <1>7, <1>8

(* Handing out keeps them in order.                                        *)
LEMMA HandOutKeepsOrder ==
    ASSUME TypeInv, OrderInv, Refill \/ FillsRest
    PROVE  OrderInv'
<1> DEFINE k == Len(buffer)
<1>1. /\ k \in Nat /\ due \in Nat /\ at \in Nat /\ due + k = at /\ due + k <= SampleCount
      /\ buffer = Run(due, k) /\ buffer \in Seq(Samples)
  <2>1. pc # "clear"
    BY DEF Refill, FillsRest
  <2>2. InOrder
    BY <2>1 DEF OrderInv
  <2>3. due \in Nat /\ at \in Nat /\ at <= SampleCount /\ k \in Nat /\ buffer \in Seq(Samples)
    BY LenProperties, SongAssumption DEF Positions, TypeInv, TypeOK
  <2> QED
    BY <2>2, <2>3 DEF InOrder
<1> HIDE DEF k
<1>2. ASSUME NEW n \in 0..k, Hears(Run(due, n))
      PROVE  due' = due + n
  <2>1. n \in Nat /\ due + n <= SampleCount
    BY <1>1, SongAssumption
  <2>2. /\ Run(due, n) \in Seq(Samples) /\ Len(Run(due, n)) = n
        /\ \A i \in 1..n : Run(due, n)[i] = due + i - 1
    BY <1>1, <2>1, RunTyped
  <2>3. CASE n = 0
    <3>1. Run(due, n) = <<>>
      BY <2>2, <2>3, EmptySeq
    <3> QED
      BY <1>1, <1>2, <2>3, <3>1 DEF Hears
  <2>4. CASE n # 0
    <3>1. Run(due, n) # <<>>
      BY <2>2, <2>4, EmptySeq
    <3>2. Run(due, n)[n] = due + n - 1
      BY <2>1, <2>2, <2>4
    <3> QED
      BY <1>1, <1>2, <2>1, <2>2, <3>1, <3>2 DEF Hears
  <2> QED
    BY <2>3, <2>4
<1>3. CASE Refill
  <2>1. PICK block \in Blocks : /\ buffer' = block /\ at' = at + Len(block)
                                /\ pc' \in {"idle", "stopped", "loop"}
    BY <1>3 DEF Refill, Returns
  <2>2. Len(block) \in Nat /\ block = Run(at, Len(block))
    BY <2>1, BlockIsRun DEF TypeInv, TypeOK
  <2>3. due' = at
    <3>1. Hears(Run(due, k)) /\ k \in 0..k
      BY <1>1, <1>3 DEF Refill
    <3> QED
      BY <1>1, <1>2, <3>1
  <2> QED
    BY <2>1, <2>2, <2>3 DEF OrderInv, InOrder
<1>4. CASE FillsRest
  <2>1. len \in 0..k /\ len \in Nat
    BY <1>1, <1>4 DEF FillsRest, TypeInv, TypeOK, k
  <2>2. SubSeq(buffer, len + 1, Len(buffer)) = Run(due + len, k - len)
    BY <1>1, <2>1, RunSuffix DEF k
  <2>3. due + len \in Nat /\ k - len \in Nat /\ (due + len) + (k - len) = at
    BY <1>1, <2>1
  <2>4. Len(Run(due + len, k - len)) = k - len
    BY <1>1, <2>3, RunTyped
  <2>5. SubSeq(buffer, 1, len) = Run(due, len)
    BY <1>1, <2>1, RunPrefix
  <2>6. due' = due + len
    BY <1>2, <1>4, <2>1, <2>5 DEF FillsRest
  <2>7. buffer' = Run(due + len, k - len) /\ at' = at /\ pc' \in {"idle", "stopped"}
    BY <1>4, <2>2 DEF FillsRest, Returns
  <2> QED
    BY <2>3, <2>4, <2>6, <2>7 DEF OrderInv, InOrder
<1> QED
  BY <1>3, <1>4

(* Between two seeks no sample is lost, repeated or out of order, for      *)
(* songs, blocks and buffers of every length.                              *)
THEOREM SamplesStayInOrder == Spec => []SamplesInOrder
<1>1. Init => OrderInv
  BY EmptySeq DEF Init, OrderInv, InOrder, Run
<1>2. TypeInv /\ OrderInv /\ [Next]_vars => OrderInv'
  <2> SUFFICES ASSUME TypeInv, OrderInv, [Next]_vars PROVE OrderInv'
    OBVIOUS
  <2>1. CASE UNCHANGED vars
    BY <2>1 DEF OrderInv, InOrder, vars, codeVars, ghostVars
  <2> QED
    BY <2>1, OthersKeepOrder, HandOutKeepsOrder DEF Next, DoFillBuffer
<1>3. OrderInv => SamplesInOrder
  BY DEF OrderInv, InOrder, SamplesInOrder
<1> QED
  BY <1>1, <1>2, <1>3, TypeInvariant, PTL DEF Spec

-----------------------------------------------------------------------------
(* Only a seek that failed leaves memory unwritten, and it says so until   *)
(* the next callback starts.                                               *)
Written   == \A i \in DOMAIN out : out[i] # Garbage
FilledInv == (pc \in {"idle", "stopped"} /\ failed) \/ Written

(* A sample is not what memory holds before it is written.                 *)
LEMMA SampleIsNoGarbage == ASSUME NEW x \in Samples PROVE x # Garbage
  BY SongAssumption DEF Samples, Garbage

(* When a callback returns, all of its buffer is written, unless the last  *)
(* seek failed.                                                            *)
THEOREM BuffersAreFilled == Spec => []BufferIsFilled
<1>1. Init => FilledInv
  BY DEF Init, FilledInv, Written
<1>2. TypeInv /\ FilledInv /\ [Next]_vars => FilledInv'
  <2> SUFFICES ASSUME TypeInv, FilledInv, [Next]_vars PROVE FilledInv'
    OBVIOUS
  <2> USE DEF FilledInv, Written, ghostVars
  <2>1. CASE Start \/ SetSamplePos \/ SeekTested \/ DoSeek \/ SeekSucceeded \/ Loops \/ UNCHANGED vars
    BY <2>1 DEF Start, SetSamplePos, SeekTested, DoSeek, SeekSucceeded, Loops, vars, codeVars
  <2>2. CASE FillBuffer
    BY <2>2 DEF FillBuffer
  <2>3. CASE SeekFailed
    BY <2>3 DEF SeekFailed, Returns
  <2>4. CASE Refill \/ FillsRest
    <3>1. /\ out \in Seq(Cells) /\ buffer \in Seq(Cells) /\ Written /\ Silence \in Cells /\ Silence # Garbage
          /\ \A i \in DOMAIN buffer : buffer[i] # Garbage
      <4>1. buffer \in Seq(Cells) /\ \A i \in DOMAIN buffer : buffer[i] # Garbage
        BY SamplesAreCells, SampleIsNoGarbage DEF TypeInv, TypeOK
      <4>2. pc \notin {"idle", "stopped"}
        BY <2>4 DEF Refill, FillsRest
      <4> QED
        BY <4>1, <4>2 DEF TypeInv, TypeOK, Cells, Silence, Garbage
    <3>2. ASSUME NEW s \in Seq(Cells), NEW t \in Seq(Cells),
                 \A i \in DOMAIN s : s[i] # Garbage, \A i \in DOMAIN t : t[i] # Garbage
          PROVE  s \o t \in Seq(Cells) /\ \A i \in DOMAIN (s \o t) : (s \o t)[i] # Garbage
      <4>1. /\ s \o t \in Seq(Cells) /\ Len(s \o t) = Len(s) + Len(t)
            /\ \A i \in 1..(Len(s) + Len(t)) : (s \o t)[i] = IF i <= Len(s) THEN s[i] ELSE t[i - Len(s)]
        BY ConcatProperties
      <4>2. /\ DOMAIN s = 1..Len(s) /\ DOMAIN t = 1..Len(t) /\ DOMAIN (s \o t) = 1..Len(s \o t)
            /\ Len(s) \in Nat /\ Len(t) \in Nat
        BY <4>1, LenProperties
      <4> QED
        BY <3>2, <4>1, <4>2
    <3>3. CASE Refill
      <4>1. len - Len(buffer) \in Nat
        BY <3>3, LenProperties DEF Refill, TypeInv, TypeOK, BufferFits
      <4>2. /\ Rest(len - Len(buffer)) \in Seq(Cells)
            /\ \A i \in DOMAIN Rest(len - Len(buffer)) : Rest(len - Len(buffer))[i] # Garbage
        BY <3>1, <4>1, FillTyped, LenProperties DEF Rest
      <4>3. out' = out \o buffer \o Rest(len - Len(buffer)) \/ out' = out \o buffer
        BY <3>3 DEF Refill
      <4> QED
        BY <3>1, <3>2, <4>2, <4>3
    <3>4. CASE FillsRest
      <4>1. /\ SubSeq(buffer, 1, len) \in Seq(Samples)
        <5>1. len \in Nat /\ Len(buffer) \in Nat /\ len <= Len(buffer)
          BY <3>4, LenProperties DEF FillsRest, TypeInv, TypeOK
        <5>2. \A i \in 1..len : buffer[i] \in Samples
          BY <5>1, ElementOfSeq DEF TypeInv, TypeOK
        <5> QED
          BY <5>1, <5>2, SubSeqProperties
      <4>2. SubSeq(buffer, 1, len) \in Seq(Cells)
            /\ \A i \in DOMAIN SubSeq(buffer, 1, len) : SubSeq(buffer, 1, len)[i] # Garbage
        BY <4>1, SamplesAreCells, SampleIsNoGarbage
      <4>3. out' = out \o SubSeq(buffer, 1, len)
        BY <3>4 DEF FillsRest
      <4> QED
        BY <3>1, <3>2, <4>2, <4>3
    <3> QED
      BY <2>4, <3>3, <3>4
  <2> QED
    BY <2>1, <2>2, <2>3, <2>4 DEF Next, DoFillBuffer
<1>3. FilledInv => BufferIsFilled
  BY DEF FilledInv, Written, BufferIsFilled
<1> QED
  BY <1>1, <1>2, <1>3, TypeInvariant, PTL DEF Spec

-----------------------------------------------------------------------------
(* A request stands in m_seek_needed until a seek to it is in work.        *)
RequestInv == wanted \in IF pc = "clear" THEN {NoSeek} ELSE {NoSeek, seekNeeded}

(* No position the GUI thread asks for is lost, unless it asks while       *)
(* another seek is in work.                                                *)
THEOREM SeeksAreNotLost == Spec => []SeekIsNotLost
<1>1. Init => RequestInv
  BY DEF Init, RequestInv
<1>2. TypeInv /\ RequestInv /\ [Next]_vars => RequestInv'
  <2> SUFFICES ASSUME TypeInv, RequestInv, [Next]_vars PROVE RequestInv'
    OBVIOUS
  <2> USE DEF RequestInv, ghostVars
  <2>1. CASE Start \/ FillBuffer \/ Loops \/ UNCHANGED vars
    BY <2>1 DEF Start, FillBuffer, Loops, vars, codeVars
  <2>2. CASE SetSamplePos
    BY <2>2 DEF SetSamplePos
  <2>3. CASE SeekTested
    BY <2>3 DEF SeekTested
  <2>4. CASE DoSeek
    BY <2>4 DEF DoSeek
  <2>5. CASE SeekSucceeded \/ SeekFailed
    BY <2>5 DEF SeekSucceeded, SeekFailed, Returns
  <2>6. CASE Refill \/ FillsRest
    BY <2>6 DEF Refill, FillsRest, Returns
  <2> QED
    BY <2>1, <2>2, <2>3, <2>4, <2>5, <2>6 DEF Next, DoFillBuffer
<1>3. RequestInv => SeekIsNotLost
  BY DEF RequestInv, SeekIsNotLost
<1> QED
  BY <1>1, <1>2, <1>3, TypeInvariant, PTL DEF Spec
=============================================================================
