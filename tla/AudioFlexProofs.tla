---------------------------- MODULE AudioFlexProofs ----------------------------
(***************************************************************************)
(* Proofs about AudioFlex, for recordings and files of any length.  Each   *)
(* part has an interrupt handler that goes on at any time; what keeps its  *)
(* data from the main loop's is that the two agree on which half, or which *)
(* buffer, is whose, as long as neither has been late.  No step of one     *)
(* part disturbs the other's invariant but by moving the main loop.        *)
(***************************************************************************)
EXTENDS AudioFlex, TLAPS

-----------------------------------------------------------------------------
(* The inductive invariant.                                                  *)

\* A half that was reported and not yet filtered is whole, is the half worker() gets,
\* and is not the one the channel writes to.
MicInv ==
  /\ micOn => acquired <= MaxHalves
  /\ micOn /\ ~displaced => DADDR = Recording_Buff_A
  /\ pc \in {"work", "clear"} => mems_dma_rdy_
  /\ pc = "work" /\ ~late => buf = mems_cur_buf_
  /\ ~late /\ mems_dma_rdy_ => acquired > 0
  /\ mems_dma_rdy_ /\ pc # "clear" /\ ~late /\ ~displaced =>
       /\ PDMRxData[mems_cur_buf_] = acquired
       /\ micOn => DADDR # mems_cur_buf_

\* The channel plays the buffer the handler says, or silence.
AimInv == SADDR # "S" => SADDR = IF Playing_Buff_A THEN "A" ELSE "B"

\* A buffer is refilled in the middle of a playback only.
RefillInv == pc = "refill" => playing_ /\ ~stop_ /\ wav_hlr_

\* The buffer that is not played is to be refilled.
Due == event_dma_rdy_ \/ pc \in {"pingpong", "refill"}
Other == IF Playing_Buff_A THEN "B" ELSE "A"

\* What has been read of the file, in blocks; and the block before the nth, or silence.
Count == IF stop_ THEN pos + 1 ELSE pos
Before(n) == IF n = 0 THEN 0 ELSE n - 1

\* A file is being played: of the blocks that were read, one is in the buffer that
\* was refilled last, one in the buffer before, and the others have been played.
Ongoing ==
  /\ SADDR = "S" => Count <= 1 /\ (Due => Count = 0)
  /\ Due => /\ SADDR # "S" => Audio_Source_Blk[SADDR] = Count
            /\ Len(played) = Before(Count)
  /\ ~Due => /\ SADDR # "S" => Audio_Source_Blk[SADDR] = Before(Count)
             /\ Audio_Source_Blk[Other] = Count
             /\ Len(played) = Before(Before(Count))

\* The playback has ended by itself: the channel is off.
Ended == ~ERQ /\ ~Due /\ Len(played) >= Blocks

PlayInv ==
  fresh /\ ~missed =>
    /\ playing_
    /\ \A i \in 1..Len(played) : played[i] = i
    /\ ~(event_dma_rdy_ /\ pc \in {"pingpong", "refill"})
    /\ pc = "refill" => p_buf = Other
    /\ stop_ => pos = Blocks
    /\ IF wav_hlr_ THEN Ongoing ELSE Ended

IInv ==
  /\ TypeOK
  /\ MicInv /\ RecordedInOrder
  /\ AimInv /\ RefillInv /\ PlayInv

-----------------------------------------------------------------------------
(* The recording.                                                            *)

\* What a step of the playback leaves alone.
LEMMA MicTypesKept ==
  ASSUME Recorder!MicTypes, UNCHANGED micVars,
         pc' = pc \/ pc' \in {"process", "pingpong", "refill", "apps"}
  PROVE  Recorder!MicTypes'
BY DEF Recorder!MicTypes, Recorder!Halves, micVars

\* The recorder's invariant looks at three points of the main loop only.
LEMMA MicKept ==
  ASSUME MicInv, RecordedInOrder, UNCHANGED micVars,
         pc' = pc \/ (pc \notin {"work", "clear"} /\ pc' \notin {"work", "clear"})
  PROVE  MicInv' /\ RecordedInOrder'
BY DEF MicInv, RecordedInOrder, Recorder!RecordedInOrder, Recorder!Pending, micVars

\* The handler leaves the channel aimed at the other half, or stops it.
LEMMA HandlerAims ==
  ASSUME Recorder!MicTypes, Recorder!MEMS_Handler
  PROVE  /\ DADDR' \in 0..2 /\ Recording_Buff_A' \in {0, 1} /\ mems_cur_buf_' \in {0, 1}
         /\ DADDR = Recording_Buff_A => PDMRxData'[DADDR] = acquired + 1
         /\ acquired <= MaxHalves => PDMRxData' \in [Recorder!Halves -> -1..(MaxHalves + 1)]
<1> USE AudioAssumption DEF Recorder!MicTypes, Recorder!Halves
<1>1. CASE should_stop_
  <2>1. /\ DADDR' = IF DADDR = 0 THEN 1 ELSE 2
        /\ Recording_Buff_A' = Recording_Buff_A /\ mems_cur_buf_' = Recording_Buff_A
        /\ PDMRxData' = [h \in {0, 1} |-> IF h = 2 THEN -1 ELSE
                                        IF h = DADDR THEN acquired + 1 ELSE PDMRxData[h]]
    BY <1>1 DEF Recorder!MEMS_Handler, Recorder!Filled, Recorder!Torn
  <2>2. DADDR \in {0, 1} => PDMRxData'[DADDR] = acquired + 1
    BY <2>1
  <2>3. acquired <= MaxHalves => PDMRxData' \in [{0, 1} -> -1..(MaxHalves + 1)]
    BY <2>1
  <2> QED BY <2>1, <2>2, <2>3
<1>2. CASE ~should_stop_
  <2>1. /\ DADDR' = 1 - Recording_Buff_A
        /\ Recording_Buff_A' = 1 - Recording_Buff_A /\ mems_cur_buf_' = Recording_Buff_A
        /\ PDMRxData' = [h \in {0, 1} |-> IF h = 1 - Recording_Buff_A THEN -1 ELSE
                                        IF h = DADDR THEN acquired + 1 ELSE PDMRxData[h]]
    BY <1>2 DEF Recorder!MEMS_Handler, Recorder!Filled, Recorder!Torn
  <2>2. DADDR = Recording_Buff_A => PDMRxData'[DADDR] = acquired + 1
    BY <2>1
  <2>3. acquired <= MaxHalves => PDMRxData' \in [{0, 1} -> -1..(MaxHalves + 1)]
    BY <2>1
  <2> QED BY <2>1, <2>2, <2>3
<1> QED BY <1>1, <1>2

\* The steps of the recording keep its types.
LEMMA MicTypesStep ==
  ASSUME Recorder!MicTypes, MicInv, Recorder!HalfDone \/ Recorder!Main \/ Recorder!Calls
  PROVE  Recorder!MicTypes'
<1> USE AudioAssumption
    DEF Recorder!MicTypes, Recorder!Halves, Recorder!Torn, Recorder!channelVars,
        Recorder!sharedVars, Recorder!fileVars, Recorder!callVars
<1>1. CASE Recorder!HalfDone
  <2>1. acquired \in 0..MaxHalves
    BY <1>1 DEF Recorder!HalfDone, MicInv
  <2>2. PDMRxData' \in [Recorder!Halves -> -1..(MaxHalves + 1)]
    BY <1>1, <2>1, HandlerAims DEF Recorder!HalfDone
  <2>3. late' \in BOOLEAN /\ stopped_' \in BOOLEAN /\ micOn' \in BOOLEAN
    BY Zenon, <1>1 DEF Recorder!HalfDone, Recorder!MEMS_Handler
  <2>4. /\ mems_dma_rdy_' \in BOOLEAN /\ should_stop_' \in BOOLEAN
        /\ record2file_' \in BOOLEAN /\ displaced' \in BOOLEAN
    BY Zenon, <1>1 DEF Recorder!HalfDone, Recorder!MEMS_Handler
  <2>5. acquired' \in 0..(MaxHalves + 1)
    BY <1>1, <2>1 DEF Recorder!HalfDone
  <2>6. /\ DADDR' \in 0..2 /\ Recording_Buff_A' \in {0, 1}
        /\ mems_cur_buf_' \in {0, 1} /\ buf' \in {0, 1}
    BY <1>1, HandlerAims DEF Recorder!HalfDone
  <2>7. /\ written' \in Seq(-1..(MaxHalves + 1)) /\ recordings' \in 0..MaxRecordings
        /\ pc' = pc
    BY <1>1 DEF Recorder!HalfDone
  <2> QED
    BY <2>2, <2>3, <2>4, <2>5, <2>6, <2>7
<1>2. CASE Recorder!Process
  BY <1>2 DEF Recorder!Process
<1>3. CASE Recorder!Work
  <2>1. written' \in Seq(-1..(MaxHalves + 1))
    <3>1. PDMRxData[buf] \in -1..(MaxHalves + 1)
      <4>1. buf \in {0, 1} /\ PDMRxData \in [{0, 1} -> -1..(MaxHalves + 1)]
        OBVIOUS
      <4> QED BY <4>1
    <3>2. Append(written, PDMRxData[buf]) \in Seq(-1..(MaxHalves + 1))
      BY <3>1
    <3>3. written' = Append(written, PDMRxData[buf]) \/ written' = written
      BY <1>3 DEF Recorder!Work
    <3> QED BY <3>2, <3>3
  <2> QED
    BY <1>3, <2>1 DEF Recorder!Work
<1>4. CASE Recorder!ClearReady
  BY <1>4 DEF Recorder!ClearReady
<1>5. CASE Recorder!TestStopped
  BY <1>5 DEF Recorder!TestStopped
<1>6. CASE Recorder!Record
  <2>1. late' \in BOOLEAN /\ displaced' \in BOOLEAN /\ record2file_' \in BOOLEAN
    BY Zenon, <1>6 DEF Recorder!Record
  <2>2. /\ micOn' \in BOOLEAN /\ mems_dma_rdy_' \in BOOLEAN
        /\ should_stop_' \in BOOLEAN /\ stopped_' \in BOOLEAN
    BY Zenon, <1>6 DEF Recorder!Record
  <2>3. PDMRxData' \in [Recorder!Halves -> -1..(MaxHalves + 1)]
    BY <1>6 DEF Recorder!Record
  <2> QED
    BY <1>6, <2>1, <2>2, <2>3 DEF Recorder!Record
<1>7. CASE Recorder!StopMic
  BY <1>7 DEF Recorder!StopMic
<1> QED
  BY <1>1, <1>2, <1>3, <1>4, <1>5, <1>6, <1>7 DEF Recorder!Main, Recorder!Calls

\* The handler and the main loop keep to different halves, and the halves get to the
\* file in the order in which the channel filled them.
LEMMA MicStep ==
  ASSUME Recorder!MicTypes, MicInv, RecordedInOrder,
         Recorder!HalfDone \/ Recorder!Main \/ Recorder!Calls
  PROVE  MicInv' /\ RecordedInOrder'
<1> USE AudioAssumption
    DEF Recorder!MicTypes, Recorder!Halves, Recorder!channelVars,
        Recorder!sharedVars, Recorder!fileVars, Recorder!callVars,
        MicInv, RecordedInOrder, Recorder!RecordedInOrder, Recorder!Pending
<1>1. CASE Recorder!HalfDone
  <2>1. acquired \in 0..MaxHalves
    BY <1>1 DEF Recorder!HalfDone
  <2>2. MicInv'
    <3>1. pc' = pc /\ buf' = buf /\ mems_dma_rdy_' /\ displaced' = displaced
      BY <1>1 DEF Recorder!HalfDone, Recorder!MEMS_Handler
    <3>2. acquired' = acquired + 1 /\ mems_cur_buf_' = Recording_Buff_A
      BY <1>1 DEF Recorder!HalfDone, Recorder!MEMS_Handler
    <3>3. micOn' => ~should_stop_ /\ DADDR' = 1 - Recording_Buff_A
                    /\ Recording_Buff_A' = 1 - Recording_Buff_A
      BY <1>1 DEF Recorder!HalfDone, Recorder!MEMS_Handler
    <3>4. micOn' => acquired' <= MaxHalves
      BY <1>1, <2>1, <3>2, <3>3 DEF Recorder!HalfDone
    <3>5. pc = "work" => late'
      BY <1>1 DEF Recorder!HalfDone
    <3>6. ~displaced => PDMRxData'[Recording_Buff_A] = acquired + 1
      BY <1>1, HandlerAims DEF Recorder!HalfDone
    <3>7. ~displaced' => /\ PDMRxData'[mems_cur_buf_'] = acquired'
                         /\ micOn' => DADDR' # mems_cur_buf_'
      BY <3>1, <3>2, <3>3, <3>6
    <3>8. micOn' => DADDR' = Recording_Buff_A'
      BY <3>3
    <3>9. acquired' > 0
      BY <2>1, <3>2
    <3> QED
      BY Zenon, <3>1, <3>4, <3>5, <3>7, <3>8, <3>9
  <2>3. RecordedInOrder'
    <3>1. /\ acquired' = acquired + 1 /\ mems_dma_rdy_' /\ (~late' => ~mems_dma_rdy_)
          /\ UNCHANGED <<written, record2file_, displaced, pc>>
      BY <1>1 DEF Recorder!HalfDone, Recorder!MEMS_Handler
    <3>2. ~late' => pc # "clear" /\ ~late
      BY <1>1, <3>1 DEF Recorder!HalfDone
    <3> QED BY <2>1, <3>1, <3>2
  <2> QED BY <2>2, <2>3
<1>2. CASE Recorder!Process
  BY <1>2 DEF Recorder!Process
<1>3. CASE Recorder!Work
  <2>1. MicInv'
    BY <1>3 DEF Recorder!Work
  <2>2. RecordedInOrder'
    BY <1>3 DEF Recorder!Work
  <2> QED BY <2>1, <2>2
<1>4. CASE Recorder!ClearReady
  BY <1>4 DEF Recorder!ClearReady
<1>5. CASE Recorder!TestStopped
  BY <1>5 DEF Recorder!TestStopped
<1>6. CASE Recorder!Record
  <2>1. written' = <<>> /\ acquired' = 0 /\ pc' = "process"
    BY <1>6 DEF Recorder!Record
  <2>2. mems_dma_rdy_' => late'
    BY <1>6 DEF Recorder!Record
  <2>3. RecordedInOrder'
    BY <2>1, <2>2
  <2>4. ~displaced' => DADDR' = Recording_Buff_A'
    BY <1>6 DEF Recorder!Record
  <2> QED
    BY <2>1, <2>2, <2>3, <2>4
<1>7. CASE Recorder!StopMic
  BY <1>7 DEF Recorder!StopMic
<1> QED
  BY <1>1, <1>2, <1>3, <1>4, <1>5, <1>6, <1>7 DEF Recorder!Main, Recorder!Calls

-----------------------------------------------------------------------------
(* The playback.                                                             *)

PlayerInv == AimInv /\ RefillInv /\ PlayInv

\* What a step of the recording leaves alone.
LEMMA PlayerTypesKept ==
  ASSUME Playback!PlayerTypes, UNCHANGED playerVars
  PROVE  Playback!PlayerTypes'
BY DEF Playback!PlayerTypes, Playback!Buffers, Playback!Rest, playerVars

\* The playback's invariant looks at two points of the main loop only.
LEMMA PlayerKept ==
  ASSUME PlayerInv, UNCHANGED playerVars,
         pc' = pc \/ (pc \notin {"pingpong", "refill"} /\ pc' \notin {"pingpong", "refill"})
  PROVE  PlayerInv'
BY DEF PlayerInv, AimInv, RefillInv, PlayInv, Due, Other, Count, Ongoing, Ended, playerVars

\* The steps of the playback keep its types.
LEMMA PlayerTypesStep ==
  ASSUME Playback!PlayerTypes, PlayerInv,
         Playback!BufferDone \/ Playback!Main \/ Playback!Play
  PROVE  Playback!PlayerTypes'
<1> USE AudioAssumption
    DEF Playback!PlayerTypes, Playback!Buffers, Playback!Rest, Playback!Cleared,
        Playback!dmaVars, Playback!historyVars
<1>1. CASE Playback!BufferDone
  <2>1. played' \in Seq(1..(Blocks + 1))
    <3>1. CASE SADDR \in {"A", "B"} /\ Audio_Source_Blk[SADDR] # 0
      <4>1. Audio_Source_Blk[SADDR] \in 1..(Blocks + 1)
        BY <3>1
      <4>2. Append(played, Audio_Source_Blk[SADDR]) \in Seq(1..(Blocks + 1))
        BY <4>1
      <4>3. played' = Append(played, Audio_Source_Blk[SADDR]) \/ played' = played
        BY <1>1 DEF Playback!BufferDone, Playback!Played
      <4> QED BY <4>2, <4>3
    <3>2. CASE ~(SADDR \in {"A", "B"} /\ Audio_Source_Blk[SADDR] # 0)
      <4>1. played' = played
        BY <1>1, <3>2 DEF Playback!BufferDone, Playback!Played
      <4> QED BY <4>1
    <3> QED BY <3>1, <3>2
  <2>2. missed' \in BOOLEAN /\ Playing_Buff_A' \in BOOLEAN /\ event_dma_rdy_' \in BOOLEAN
    BY Zenon, <1>1 DEF Playback!BufferDone, Playback!Audio_Handler
  <2> QED
    BY <1>1, <2>1, <2>2 DEF Playback!BufferDone, Playback!Audio_Handler
<1>2. CASE Playback!Player
  BY <1>2 DEF Playback!Player
<1>3. CASE Playback!Idle
  BY <1>3 DEF Playback!Idle, Playback!playerVars
<1>4. CASE Playback!StopAtEnd
  <2>1. Audio_Source_Blk' = [b \in {"A", "B"} |-> 0] /\ ERQ' = FALSE /\ SADDR' = "S"
    BY <1>4 DEF Playback!StopAtEnd, Playback!Stop_Audio
  <2>2. stop_' \in BOOLEAN /\ wav_hlr_' \in BOOLEAN /\ ERQ' \in BOOLEAN
    BY Zenon, <1>4 DEF Playback!StopAtEnd, Playback!Stop_Audio
  <2> QED
    BY <1>4, <2>1, <2>2 DEF Playback!StopAtEnd, Playback!Stop_Audio
<1>5. CASE Playback!StopClosed
  <2>1. Audio_Source_Blk' = [b \in {"A", "B"} |-> 0] /\ ERQ' = FALSE /\ SADDR' = "S"
    BY <1>5 DEF Playback!StopClosed, Playback!Stop_Audio
  <2>2. stop_' \in BOOLEAN /\ wav_hlr_' \in BOOLEAN /\ ERQ' \in BOOLEAN
    BY Zenon, <1>5 DEF Playback!StopClosed, Playback!Stop_Audio
  <2> QED
    BY <1>5, <2>1, <2>2 DEF Playback!StopClosed, Playback!Stop_Audio
<1>6. CASE Playback!Choose
  BY <1>6 DEF Playback!Choose
<1>7. CASE Playback!Refill
  <2>1. stop_' \in BOOLEAN
    BY Zenon, <1>7 DEF Playback!Refill
  <2> QED
    BY <1>7, <2>1 DEF Playback!Refill
<1>8. CASE Playback!Play
  <2>1. fresh' \in BOOLEAN /\ wav_hlr_' \in BOOLEAN /\ playing_' \in BOOLEAN /\ ERQ' \in BOOLEAN
    BY Zenon, <1>8 DEF Playback!Play
  <2>2. Audio_Source_Blk' = [b \in {"A", "B"} |-> 0] \/ UNCHANGED Audio_Source_Blk
    BY <1>8 DEF Playback!Play
  <2>3. plays' \in 0..MaxPlays /\ pos' \in 0..Blocks /\ played' \in Seq(1..(Blocks + 1))
    BY <1>8 DEF Playback!Play
  <2>4. missed' \in BOOLEAN /\ Playing_Buff_A' \in BOOLEAN
        /\ event_dma_rdy_' \in BOOLEAN /\ stop_' \in BOOLEAN
    BY Zenon, <1>8 DEF Playback!Play
  <2>5. SADDR' = SADDR /\ p_buf' = p_buf
    BY <1>8 DEF Playback!Play
  <2>6. Audio_Source_Blk' \in [{"A", "B"} -> 0..(Blocks + 1)]
    BY <2>2
  <2> QED
    BY <2>1, <2>3, <2>4, <2>5, <2>6
<1> QED
  BY <1>1, <1>2, <1>3, <1>4, <1>5, <1>6, <1>7, <1>8 DEF Playback!Main

\* The handler and the main loop agree on the buffer that is played, and each block
\* is played before the buffer it is in is filled again.
LEMMA PlayerStep ==
  ASSUME Playback!PlayerTypes, PlayerInv,
         Playback!BufferDone \/ Playback!Main \/ Playback!Play
  PROVE  PlayerInv'
<1> USE AudioAssumption
    DEF Playback!PlayerTypes, Playback!Buffers, Playback!Rest, Playback!Cleared,
        Playback!dmaVars, Playback!historyVars,
        PlayerInv, AimInv, RefillInv, PlayInv, Due, Other, Count, Before, Ongoing, Ended
<1>1. CASE Playback!BufferDone
  <2>1. AimInv' /\ RefillInv'
    BY <1>1 DEF Playback!BufferDone, Playback!Audio_Handler
  <2>2. ASSUME fresh', ~missed' PROVE PlayInv'
    <3>1. /\ ERQ /\ fresh /\ ~missed
          /\ ~event_dma_rdy_ /\ pc \notin {"pingpong", "refill"}
      BY <1>1, <2>2 DEF Playback!BufferDone
    <3>2. /\ event_dma_rdy_' /\ SADDR' = Other /\ played' = Playback!Played
          /\ UNCHANGED <<Audio_Source_Blk, pc, wav_hlr_, pos, stop_, playing_>>
      BY <1>1, <3>1 DEF Playback!BufferDone, Playback!Audio_Handler
    <3>3. /\ wav_hlr_ /\ playing_ /\ (stop_ => pos = Blocks)
          /\ \A i \in 1..Len(played) : played[i] = i
      BY <3>1
    <3>4. /\ Audio_Source_Blk[Other] = Count /\ Len(played) = Before(Before(Count))
          /\ SADDR = "S" => Count <= 1
          /\ SADDR # "S" => Audio_Source_Blk[SADDR] = Before(Count)
      BY <3>1, <3>3
    <3>5. Count \in Nat /\ Count' = Count
      BY <3>2
    <3>6. Len(played') = Before(Count) /\ \A i \in 1..Len(played') : played'[i] = i
      <4>1. CASE Count <= 1
        <5>1. played' = played
          BY <3>2, <3>4, <3>5, <4>1 DEF Playback!Played
        <5> QED BY <3>3, <3>4, <3>5, <4>1, <5>1
      <4>2. CASE Count > 1
        <5>1. played' = Append(played, Count - 1) /\ Len(played) = Count - 2
          BY <3>1, <3>2, <3>4, <3>5, <4>2 DEF Playback!Played
        <5> QED BY <3>3, <3>5, <4>2, <5>1
      <4> QED BY <3>5, <4>1, <4>2
    <3>7. Ongoing'
      <4>1. Due' /\ SADDR' # "S"
        BY <3>2
      <4>2. Audio_Source_Blk'[SADDR'] = Count'
        BY <3>2, <3>4, <3>5
      <4>3. Len(played') = Before(Count')
        BY <3>5, <3>6
      <4> QED BY Zenon, <4>1, <4>2, <4>3
    <3> QED BY <2>2, <3>1, <3>2, <3>3, <3>6, <3>7
  <2>3. PlayInv'
    BY <2>2
  <2> QED BY <2>1, <2>3
<1>2. CASE Playback!Player
  BY <1>2 DEF Playback!Player
<1>3. CASE Playback!Idle
  BY <1>3 DEF Playback!Idle, Playback!playerVars
<1>4. CASE Playback!StopAtEnd
  BY <1>4 DEF Playback!StopAtEnd, Playback!Stop_Audio
<1>5. CASE Playback!StopClosed
  BY <1>5 DEF Playback!StopClosed, Playback!Stop_Audio
<1>6. CASE Playback!Choose
  BY <1>6 DEF Playback!Choose
<1>7. CASE Playback!Refill
  BY <1>7 DEF Playback!Refill
<1>8. CASE Playback!Play
  <2>1. pc' = "process" /\ pos' = 0 /\ played' = <<>> /\ missed' = FALSE
    BY <1>8 DEF Playback!Play
  <2>2. UNCHANGED <<SADDR, Playing_Buff_A, event_dma_rdy_, p_buf, stop_>>
    BY <1>8 DEF Playback!Play
  <2>3. fresh' => /\ wav_hlr_' /\ playing_' /\ ~stop_
                  /\ Audio_Source_Blk' = [b \in {"A", "B"} |-> 0]
    BY <1>8 DEF Playback!Play
  <2>4. AimInv' /\ RefillInv'
    BY <2>1, <2>2
  <2>5. fresh' => Count' = 0 /\ Ongoing'
    BY <2>1, <2>2, <2>3
  <2>6. PlayInv'
    BY <2>1, <2>2, <2>3, <2>5
  <2> QED BY <2>4, <2>6
<1> QED
  BY <1>1, <1>2, <1>3, <1>4, <1>5, <1>6, <1>7, <1>8 DEF Playback!Main

-----------------------------------------------------------------------------
(* The composition.                                                          *)

LEMMA TypeParts == TypeOK <=> Recorder!MicTypes /\ Playback!PlayerTypes
BY DEF TypeOK

LEMMA InitIInv == Init => IInv
<1> SUFFICES ASSUME Init PROVE IInv
  OBVIOUS
<1> USE AudioAssumption DEF Init
<1>1. Recorder!MicTypes
  <2>1. micOn \in BOOLEAN /\ mems_dma_rdy_ \in BOOLEAN /\ should_stop_ \in BOOLEAN
        /\ stopped_ \in BOOLEAN /\ record2file_ \in BOOLEAN /\ late \in BOOLEAN
        /\ displaced \in BOOLEAN
    BY Zenon DEF Recorder!Init
  <2> QED
    BY <2>1 DEF Recorder!Init, Recorder!MicTypes, Recorder!Halves, Recorder!Torn
<1>2. Playback!PlayerTypes
  <2>1. ERQ \in BOOLEAN /\ Playing_Buff_A \in BOOLEAN /\ event_dma_rdy_ \in BOOLEAN
        /\ wav_hlr_ \in BOOLEAN /\ stop_ \in BOOLEAN /\ playing_ \in BOOLEAN
        /\ missed \in BOOLEAN /\ fresh \in BOOLEAN
    BY Zenon DEF Playback!Init
  <2> QED
    BY <2>1 DEF Playback!Init, Playback!PlayerTypes, Playback!Buffers, Playback!Cleared,
                Playback!Rest
<1>3. MicInv /\ RecordedInOrder
  BY DEF Recorder!Init, MicInv, RecordedInOrder, Recorder!RecordedInOrder
<1>4. AimInv /\ RefillInv /\ PlayInv
  BY DEF Playback!Init, AimInv, RefillInv, PlayInv
<1> QED
  BY <1>1, <1>2, <1>3, <1>4, TypeParts DEF IInv

\* Every step of one part keeps the invariant of the other.
LEMMA StepIInv == IInv /\ [Next]_vars => IInv'
<1> SUFFICES ASSUME IInv, [Next]_vars PROVE IInv'
  OBVIOUS
<1>0. /\ Recorder!MicTypes /\ MicInv /\ RecordedInOrder
      /\ Playback!PlayerTypes /\ PlayerInv
  BY TypeParts DEF IInv, PlayerInv
<1>1. CASE Microphone \/ RecorderPart \/ (Recorder!Calls /\ UNCHANGED playerVars)
  <2>1. (Recorder!HalfDone \/ Recorder!Main \/ Recorder!Calls) /\ UNCHANGED playerVars
    BY <1>1 DEF Microphone, RecorderPart
  <2>2. Recorder!MicTypes' /\ MicInv' /\ RecordedInOrder'
    BY <1>0, <2>1, MicTypesStep, MicStep
  <2>3. Recorder!HalfDone => pc' = pc
    BY DEF Recorder!HalfDone
  <2>4. Recorder!Main \/ Recorder!Calls
          => pc \notin {"pingpong", "refill"} /\ pc' \notin {"pingpong", "refill"}
    BY DEF Recorder!Main, Recorder!Calls, Recorder!Process, Recorder!Work,
           Recorder!ClearReady, Recorder!TestStopped, Recorder!Record, Recorder!StopMic
  <2>5. Playback!PlayerTypes' /\ PlayerInv'
    BY <1>0, <2>1, <2>3, <2>4, PlayerTypesKept, PlayerKept
  <2> QED BY <2>2, <2>5
    DEF IInv, TypeOK, PlayerInv
<1>2. CASE Dac \/ PlaybackPart \/ (Playback!Play /\ UNCHANGED micVars)
  <2>1. (Playback!BufferDone \/ Playback!Main \/ Playback!Play) /\ UNCHANGED micVars
    BY <1>2 DEF Dac, PlaybackPart
  <2>2. Playback!PlayerTypes' /\ PlayerInv'
    BY <1>0, <2>1, PlayerTypesStep, PlayerStep
  <2>3. Playback!BufferDone => pc' = pc
    BY DEF Playback!BufferDone
  <2>4. Playback!Main \/ Playback!Play
          => /\ pc \notin {"work", "clear"}
             /\ pc' \in {"process", "pingpong", "refill", "apps"}
    BY DEF Playback!Main, Playback!Player, Playback!Idle, Playback!StopAtEnd,
           Playback!StopClosed, Playback!Choose, Playback!Refill, Playback!Play
  <2>5. Recorder!MicTypes' /\ MicInv' /\ RecordedInOrder'
    BY <1>0, <2>1, <2>3, <2>4, MicTypesKept, MicKept
  <2> QED BY <2>2, <2>5
    DEF IInv, TypeOK, PlayerInv
<1>3. CASE NoCall
  <2>1. pc = "apps" /\ pc' = "process" /\ UNCHANGED micVars /\ UNCHANGED playerVars
    BY <1>3 DEF NoCall
  <2>2. Recorder!MicTypes' /\ MicInv' /\ RecordedInOrder'
    BY <1>0, <2>1, MicTypesKept, MicKept
  <2>3. Playback!PlayerTypes' /\ PlayerInv'
    BY <1>0, <2>1, PlayerTypesKept, PlayerKept
  <2> QED BY <2>2, <2>3
    DEF IInv, TypeOK, PlayerInv
<1>4. CASE UNCHANGED vars
  BY <1>4 DEF vars, micVars, playerVars, IInv, TypeOK, Recorder!MicTypes,
    Playback!PlayerTypes, MicInv, RecordedInOrder, Recorder!RecordedInOrder,
    Recorder!Pending, AimInv, RefillInv, PlayInv, Due, Other, Count, Ongoing, Ended
<1> QED
  BY <1>1, <1>2, <1>3, <1>4 DEF Next, MainLoop, Calls

\* The inductive invariant holds in every state of every behavior.
THEOREM Invariance == Spec => []IInv
BY InitIInv, StepIInv, PTL DEF Spec

\* The addresses, flags and counts of both parts stay in their ranges, for recordings
\* and files of any length.
THEOREM TypeCorrect == Spec => []TypeOK
<1>1. IInv => TypeOK BY DEF IInv
<1> QED BY Invariance, <1>1, PTL

\* What is recorded is whole and in order, whenever the channel goes on and whatever
\* is played meanwhile, as long as no half was late.
THEOREM RecordsInOrder == Spec => []RecordedInOrder
<1>1. IInv => RecordedInOrder BY DEF IInv
<1> QED BY Invariance, <1>1, PTL

\* What is played is the file from its first block on, in order.
THEOREM PlaysInOrder == Spec => []PlayedInOrder
<1>1. IInv => PlayedInOrder
  BY DEF IInv, PlayInv, PlayedInOrder, Playback!PlayedInOrder
<1> QED BY Invariance, <1>1, PTL

\* A playback that has ended by itself has played every whole block.
THEOREM PlaysAll == Spec => []PlayedAll
<1>1. IInv => PlayedAll
  BY DEF IInv, PlayInv, Ended, PlayedAll, Playback!PlayedAll
<1> QED BY Invariance, <1>1, PTL

=============================================================================
