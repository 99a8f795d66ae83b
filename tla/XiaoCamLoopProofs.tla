------------------------- MODULE XiaoCamLoopProofs -------------------------
(***************************************************************************)
(* Safety of the stream loop of xiao-esp32s3-sensor-link, for any number   *)
(* of clients and calls: the buffers, and the promises of SensorStream.    *)
(***************************************************************************)
EXTENDS MCXiaoCamLoop, SequenceTheorems, TLAPS

LEMMA AwaitStartStep == ASSUME IInv, AwaitStart PROVE IInv'
<1>1. TypeOK'
  BY ConstantsAssumption DEF IInv, TypeOK, Bits, AwaitStart, targetVars, bufferVars, controlVars, callVars
<1>2. OwnerInv'
  BY ConstantsAssumption DEF IInv, TypeOK, OwnerInv, AwaitStart, targetVars, bufferVars, controlVars, callVars
<1>3. BufferInv'
  BY ConstantsAssumption DEF IInv, TypeOK, OwnerInv, BufferInv, IsAudio, AwaitStart, targetVars, bufferVars, controlVars, callVars
<1>4. SlotInv'
  BY ConstantsAssumption DEF IInv, TypeOK, OwnerInv, BufferInv, SlotInv, IsAudio, AwaitStart, targetVars, bufferVars, controlVars, callVars
<1>5. OpenInv'
  BY ConstantsAssumption DEF IInv, TypeOK, OwnerInv, OpenInv, Streaming, AwaitStart, targetVars, bufferVars, controlVars, callVars
<1>6. StopInv'
  BY ConstantsAssumption DEF IInv, TypeOK, OwnerInv, StopInv, Owner, AwaitStart, targetVars, bufferVars, controlVars, callVars
<1>7. QED
  BY <1>1, <1>2, <1>3, <1>4, <1>5, <1>6 DEF IInv

LEMMA ClaimStep == ASSUME IInv, Claim PROVE IInv'
<1>1. TypeOK'
  BY ConstantsAssumption DEF IInv, TypeOK, Bits, Claim, targetVars, bufferVars, controlVars, callVars
<1>2. OwnerInv'
  BY ConstantsAssumption DEF IInv, TypeOK, OwnerInv, Claim, targetVars, bufferVars, controlVars, callVars
<1>3. BufferInv'
  BY ConstantsAssumption DEF IInv, TypeOK, OwnerInv, BufferInv, IsAudio, Claim, targetVars, bufferVars, controlVars, callVars
<1>4. SlotInv'
  BY ConstantsAssumption DEF IInv, TypeOK, OwnerInv, BufferInv, SlotInv, IsAudio, Claim, targetVars, bufferVars, controlVars, callVars
<1>5. OpenInv'
  BY ConstantsAssumption DEF IInv, TypeOK, OwnerInv, OpenInv, Streaming, Claim, targetVars, bufferVars, controlVars, callVars
<1>6. StopInv'
  BY ConstantsAssumption DEF IInv, TypeOK, OwnerInv, StopInv, Owner, Claim, targetVars, bufferVars, controlVars, callVars
<1>7. QED
  BY <1>1, <1>2, <1>3, <1>4, <1>5, <1>6 DEF IInv

LEMMA MicStartStep == ASSUME IInv, MicStart PROVE IInv'
<1>1. TypeOK'
  <2>1. CASE mic' = TRUE /\ pc' = "begin"
    BY <2>1 DEF IInv, TypeOK, MicStart, targetVars, bufferVars, controlVars, callVars
  <2>2. CASE mic' = mic /\ pc' = "finish"
    BY <2>2 DEF IInv, TypeOK, MicStart, targetVars, bufferVars, controlVars, callVars
  <2>3. QED
    BY <2>1, <2>2 DEF MicStart
<1>2. OwnerInv'
  BY ConstantsAssumption DEF IInv, TypeOK, OwnerInv, MicStart, targetVars, bufferVars, controlVars, callVars
<1>3. BufferInv'
  BY ConstantsAssumption DEF IInv, TypeOK, OwnerInv, BufferInv, IsAudio, MicStart, targetVars, bufferVars, controlVars, callVars
<1>4. SlotInv'
  BY ConstantsAssumption DEF IInv, TypeOK, OwnerInv, BufferInv, SlotInv, IsAudio, MicStart, targetVars, bufferVars, controlVars, callVars
<1>5. OpenInv'
  BY ConstantsAssumption DEF IInv, TypeOK, OwnerInv, OpenInv, Streaming, MicStart, targetVars, bufferVars, controlVars, callVars
<1>6. StopInv'
  BY ConstantsAssumption DEF IInv, TypeOK, OwnerInv, StopInv, Owner, MicStart, targetVars, bufferVars, controlVars, callVars
<1>7. QED
  BY <1>1, <1>2, <1>3, <1>4, <1>5, <1>6 DEF IInv

LEMMA BeginStep == ASSUME IInv, Begin PROVE IInv'
<1>1. TypeOK'
  BY ConstantsAssumption DEF IInv, TypeOK, Bits, Begin, Submit, targetVars, bufferVars, controlVars, callVars
<1>2. OwnerInv'
  BY ConstantsAssumption DEF IInv, TypeOK, OwnerInv, Begin, Submit, targetVars, bufferVars, controlVars, callVars
<1>3. BufferInv'
  BY ConstantsAssumption DEF IInv, TypeOK, OwnerInv, BufferInv, IsAudio, Begin, Submit, targetVars, bufferVars, controlVars, callVars
<1>4. SlotInv'
  BY ConstantsAssumption DEF IInv, TypeOK, OwnerInv, BufferInv, SlotInv, IsAudio, Begin, Submit, targetVars, bufferVars, controlVars, callVars
<1>5. OpenInv'
  BY ConstantsAssumption DEF IInv, TypeOK, OwnerInv, OpenInv, Streaming, Begin, Submit, targetVars, bufferVars, controlVars, callVars
<1>6. StopInv'
  BY ConstantsAssumption DEF IInv, TypeOK, OwnerInv, StopInv, Owner, Begin, Submit, targetVars, bufferVars, controlVars, callVars
<1>7. QED
  BY <1>1, <1>2, <1>3, <1>4, <1>5, <1>6 DEF IInv

LEMMA AwaitBeginStep == ASSUME IInv, AwaitBegin PROVE IInv'
<1>1. TypeOK'
  BY ConstantsAssumption DEF IInv, TypeOK, Bits, AwaitBegin, targetVars, bufferVars, controlVars, callVars
<1>2. OwnerInv'
  BY ConstantsAssumption DEF IInv, TypeOK, OwnerInv, AwaitBegin, targetVars, bufferVars, controlVars, callVars
<1>3. BufferInv'
  BY ConstantsAssumption DEF IInv, TypeOK, OwnerInv, BufferInv, IsAudio, AwaitBegin, targetVars, bufferVars, controlVars, callVars
<1>4. SlotInv'
  BY ConstantsAssumption DEF IInv, TypeOK, OwnerInv, BufferInv, SlotInv, IsAudio, AwaitBegin, targetVars, bufferVars, controlVars, callVars
<1>5. OpenInv'
  BY ConstantsAssumption DEF IInv, TypeOK, OwnerInv, OpenInv, Streaming, AwaitBegin, targetVars, bufferVars, controlVars, callVars
<1>6. StopInv'
  BY ConstantsAssumption DEF IInv, TypeOK, OwnerInv, StopInv, Owner, AwaitBegin, targetVars, bufferVars, controlVars, callVars
<1>7. QED
  BY <1>1, <1>2, <1>3, <1>4, <1>5, <1>6 DEF IInv

LEMMA CheckStopStep == ASSUME IInv, CheckStop PROVE IInv'
<1>1. TypeOK'
  BY ConstantsAssumption DEF IInv, TypeOK, Bits, CheckStop, targetVars, bufferVars, controlVars, callVars
<1>2. OwnerInv'
  BY ConstantsAssumption DEF IInv, TypeOK, OwnerInv, CheckStop, targetVars, bufferVars, controlVars, callVars
<1>3. BufferInv'
  BY ConstantsAssumption DEF IInv, TypeOK, OwnerInv, BufferInv, IsAudio, CheckStop, targetVars, bufferVars, controlVars, callVars
<1>4. SlotInv'
  BY ConstantsAssumption DEF IInv, TypeOK, OwnerInv, BufferInv, SlotInv, IsAudio, CheckStop, targetVars, bufferVars, controlVars, callVars
<1>5. OpenInv'
  BY ConstantsAssumption DEF IInv, TypeOK, OwnerInv, OpenInv, Streaming, CheckStop, targetVars, bufferVars, controlVars, callVars
<1>6. StopInv'
  BY ConstantsAssumption DEF IInv, TypeOK, OwnerInv, StopInv, Owner, CheckStop, targetVars, bufferVars, controlVars, callVars
<1>7. QED
  BY <1>1, <1>2, <1>3, <1>4, <1>5, <1>6 DEF IInv

LEMMA AwaitAudioStep == ASSUME IInv, AwaitAudio PROVE IInv'
<1>1. TypeOK'
  BY ConstantsAssumption DEF IInv, TypeOK, Bits, AwaitAudio, targetVars, bufferVars, controlVars, callVars
<1>2. OwnerInv'
  BY ConstantsAssumption DEF IInv, TypeOK, OwnerInv, AwaitAudio, targetVars, bufferVars, controlVars, callVars
<1>3. BufferInv'
  BY ConstantsAssumption DEF IInv, TypeOK, OwnerInv, BufferInv, IsAudio, AwaitAudio, targetVars, bufferVars, controlVars, callVars
<1>4. SlotInv'
  BY ConstantsAssumption DEF IInv, TypeOK, OwnerInv, BufferInv, SlotInv, IsAudio, AwaitAudio, targetVars, bufferVars, controlVars, callVars
<1>5. OpenInv'
  BY ConstantsAssumption DEF IInv, TypeOK, OwnerInv, OpenInv, Streaming, AwaitAudio, targetVars, bufferVars, controlVars, callVars
<1>6. StopInv'
  BY ConstantsAssumption DEF IInv, TypeOK, OwnerInv, StopInv, Owner, AwaitAudio, targetVars, bufferVars, controlVars, callVars
<1>7. QED
  BY <1>1, <1>2, <1>3, <1>4, <1>5, <1>6 DEF IInv

LEMMA ReadNothingStep == ASSUME IInv, ReadNothing PROVE IInv'
<1>1. TypeOK'
  BY ConstantsAssumption DEF IInv, TypeOK, Bits, ReadNothing, targetVars, bufferVars, controlVars, callVars
<1>2. OwnerInv'
  BY ConstantsAssumption DEF IInv, TypeOK, OwnerInv, ReadNothing, targetVars, bufferVars, controlVars, callVars
<1>3. BufferInv'
  BY ConstantsAssumption DEF IInv, TypeOK, OwnerInv, BufferInv, IsAudio, ReadNothing, targetVars, bufferVars, controlVars, callVars
<1>4. SlotInv'
  BY ConstantsAssumption DEF IInv, TypeOK, OwnerInv, BufferInv, SlotInv, IsAudio, ReadNothing, targetVars, bufferVars, controlVars, callVars
<1>5. OpenInv'
  BY ConstantsAssumption DEF IInv, TypeOK, OwnerInv, OpenInv, Streaming, ReadNothing, targetVars, bufferVars, controlVars, callVars
<1>6. StopInv'
  BY ConstantsAssumption DEF IInv, TypeOK, OwnerInv, StopInv, Owner, ReadNothing, targetVars, bufferVars, controlVars, callVars
<1>7. QED
  BY <1>1, <1>2, <1>3, <1>4, <1>5, <1>6 DEF IInv

LEMMA ReadStep == ASSUME IInv, Read PROVE IInv'
<1>1. TypeOK'
  BY ConstantsAssumption DEF IInv, TypeOK, Bits, Read, targetVars, bufferVars, controlVars, callVars
<1>2. OwnerInv'
  BY ConstantsAssumption DEF IInv, TypeOK, OwnerInv, Read, targetVars, bufferVars, controlVars, callVars
<1>3. BufferInv'
  BY ConstantsAssumption DEF IInv, TypeOK, OwnerInv, BufferInv, IsAudio, Read, targetVars, bufferVars, controlVars, callVars
<1>4. SlotInv'
  BY ConstantsAssumption DEF IInv, TypeOK, OwnerInv, BufferInv, SlotInv, IsAudio, Read, targetVars, bufferVars, controlVars, callVars
<1>5. OpenInv'
  BY ConstantsAssumption DEF IInv, TypeOK, OwnerInv, OpenInv, Streaming, Read, targetVars, bufferVars, controlVars, callVars
<1>6. StopInv'
  BY ConstantsAssumption DEF IInv, TypeOK, OwnerInv, StopInv, Owner, Read, targetVars, bufferVars, controlVars, callVars
<1>7. QED
  BY <1>1, <1>2, <1>3, <1>4, <1>5, <1>6 DEF IInv

LEMMA AwaitFrameStep == ASSUME IInv, AwaitFrame PROVE IInv'
<1>1. TypeOK'
  <2>1. out = 1
    BY DEF IInv, BufferInv, SlotInv, AwaitFrame
  <2>2. CASE "STOP" \in bits
    BY <2>2 DEF IInv, TypeOK, AwaitFrame, targetVars, bufferVars, controlVars, callVars
  <2>3. CASE "STOP" \notin bits
    <3>1. out' = 0 /\ pc' = "capture"
      BY <2>1, <2>3 DEF AwaitFrame
    <3>2. held' \in BOOLEAN
      BY <2>3 DEF AwaitFrame
    <3>3. UNCHANGED <<bits, targetVars, audio, mic, controlVars, open, sending, callVars>>
      BY DEF AwaitFrame
    <3>4. QED
      BY <3>1, <3>2, <3>3, ConstantsAssumption
      DEF IInv, TypeOK, targetVars, controlVars, callVars
  <2>4. QED
    BY <2>2, <2>3
<1>2. OwnerInv'
  BY ConstantsAssumption DEF IInv, TypeOK, OwnerInv, AwaitFrame, targetVars, bufferVars, controlVars, callVars
<1>3. BufferInv'
  BY ConstantsAssumption DEF IInv, TypeOK, OwnerInv, BufferInv, IsAudio, AwaitFrame, targetVars, bufferVars, controlVars, callVars
<1>4. SlotInv'
  <2>1. held /\ out = 1
    BY DEF IInv, BufferInv, SlotInv, AwaitFrame
  <2>2. CASE "STOP" \in bits
    BY <2>1, <2>2 DEF SlotInv, AwaitFrame
  <2>3. CASE "STOP" \notin bits
    <3>1. out' = 0 /\ held' = FALSE /\ pc' = "capture"
      BY <2>1, <2>3 DEF AwaitFrame
    <3>2. QED
      BY <3>1 DEF SlotInv
  <2>4. QED
    BY <2>2, <2>3
<1>5. OpenInv'
  BY ConstantsAssumption DEF IInv, TypeOK, OwnerInv, OpenInv, Streaming, AwaitFrame, targetVars, bufferVars, controlVars, callVars
<1>6. StopInv'
  BY ConstantsAssumption DEF IInv, TypeOK, OwnerInv, StopInv, Owner, AwaitFrame, targetVars, bufferVars, controlVars, callVars
<1>7. QED
  BY <1>1, <1>2, <1>3, <1>4, <1>5, <1>6 DEF IInv

LEMMA RetrieveStep == ASSUME IInv, Retrieve PROVE IInv'
<1>1. TypeOK'
  BY ConstantsAssumption DEF IInv, TypeOK, Bits, Retrieve, targetVars, bufferVars, controlVars, callVars
<1>2. OwnerInv'
  BY ConstantsAssumption DEF IInv, TypeOK, OwnerInv, Retrieve, targetVars, bufferVars, controlVars, callVars
<1>3. BufferInv'
  BY ConstantsAssumption DEF IInv, TypeOK, OwnerInv, BufferInv, IsAudio, Retrieve, targetVars, bufferVars, controlVars, callVars
<1>4. SlotInv'
  BY ConstantsAssumption DEF IInv, TypeOK, OwnerInv, BufferInv, SlotInv, IsAudio, Retrieve, targetVars, bufferVars, controlVars, callVars
<1>5. OpenInv'
  BY ConstantsAssumption DEF IInv, TypeOK, OwnerInv, OpenInv, Streaming, Retrieve, targetVars, bufferVars, controlVars, callVars
<1>6. StopInv'
  BY ConstantsAssumption DEF IInv, TypeOK, OwnerInv, StopInv, Owner, Retrieve, targetVars, bufferVars, controlVars, callVars
<1>7. QED
  BY <1>1, <1>2, <1>3, <1>4, <1>5, <1>6 DEF IInv

LEMMA RetrieveFailsStep == ASSUME IInv, RetrieveFails PROVE IInv'
<1>1. TypeOK'
  BY ConstantsAssumption DEF IInv, TypeOK, Bits, RetrieveFails, targetVars, bufferVars, controlVars, callVars
<1>2. OwnerInv'
  BY ConstantsAssumption DEF IInv, TypeOK, OwnerInv, RetrieveFails, targetVars, bufferVars, controlVars, callVars
<1>3. BufferInv'
  BY ConstantsAssumption DEF IInv, TypeOK, OwnerInv, BufferInv, IsAudio, RetrieveFails, targetVars, bufferVars, controlVars, callVars
<1>4. SlotInv'
  BY ConstantsAssumption DEF IInv, TypeOK, OwnerInv, BufferInv, SlotInv, IsAudio, RetrieveFails, targetVars, bufferVars, controlVars, callVars
<1>5. OpenInv'
  BY ConstantsAssumption DEF IInv, TypeOK, OwnerInv, OpenInv, Streaming, RetrieveFails, targetVars, bufferVars, controlVars, callVars
<1>6. StopInv'
  BY ConstantsAssumption DEF IInv, TypeOK, OwnerInv, StopInv, Owner, RetrieveFails, targetVars, bufferVars, controlVars, callVars
<1>7. QED
  BY <1>1, <1>2, <1>3, <1>4, <1>5, <1>6 DEF IInv

LEMMA CapturedStep == ASSUME IInv, Captured PROVE IInv'
<1>1. TypeOK'
  <2>1. out = 1
    BY DEF IInv, SlotInv, Captured
  <2>2. out' \in 0 .. MaxInflight /\ pc' \in {"drain", "cleardone"}
    BY <2>1, ConstantsAssumption DEF Captured
  <2>3. QED
    BY <2>2 DEF IInv, TypeOK, Captured, targetVars, bufferVars, controlVars, callVars
<1>2. OwnerInv'
  BY ConstantsAssumption DEF IInv, TypeOK, OwnerInv, Captured, targetVars, bufferVars, controlVars, callVars
<1>3. BufferInv'
  BY ConstantsAssumption DEF IInv, TypeOK, OwnerInv, BufferInv, IsAudio, Captured, targetVars, bufferVars, controlVars, callVars
<1>4. SlotInv'
  BY ConstantsAssumption DEF IInv, TypeOK, OwnerInv, BufferInv, SlotInv, IsAudio, Captured, targetVars, bufferVars, controlVars, callVars
<1>5. OpenInv'
  BY ConstantsAssumption DEF IInv, TypeOK, OwnerInv, OpenInv, Streaming, Captured, targetVars, bufferVars, controlVars, callVars
<1>6. StopInv'
  BY ConstantsAssumption DEF IInv, TypeOK, OwnerInv, StopInv, Owner, Captured, targetVars, bufferVars, controlVars, callVars
<1>7. QED
  BY <1>1, <1>2, <1>3, <1>4, <1>5, <1>6 DEF IInv

LEMMA ClearDoneStep == ASSUME IInv, ClearDone PROVE IInv'
<1>1. TypeOK'
  BY ConstantsAssumption DEF IInv, TypeOK, Bits, ClearDone, targetVars, bufferVars, controlVars, callVars
<1>2. OwnerInv'
  BY ConstantsAssumption DEF IInv, TypeOK, OwnerInv, ClearDone, targetVars, bufferVars, controlVars, callVars
<1>3. BufferInv'
  BY ConstantsAssumption DEF IInv, TypeOK, OwnerInv, BufferInv, IsAudio, ClearDone, targetVars, bufferVars, controlVars, callVars
<1>4. SlotInv'
  BY ConstantsAssumption DEF IInv, TypeOK, OwnerInv, BufferInv, SlotInv, IsAudio, ClearDone, targetVars, bufferVars, controlVars, callVars
<1>5. OpenInv'
  BY ConstantsAssumption DEF IInv, TypeOK, OwnerInv, OpenInv, Streaming, ClearDone, targetVars, bufferVars, controlVars, callVars
<1>6. StopInv'
  BY ConstantsAssumption DEF IInv, TypeOK, OwnerInv, StopInv, Owner, ClearDone, targetVars, bufferVars, controlVars, callVars
<1>7. QED
  BY <1>1, <1>2, <1>3, <1>4, <1>5, <1>6 DEF IInv

LEMMA PushStep == ASSUME IInv, Push PROVE IInv'
<1>1. TypeOK'
  <2>1. sending' \in 0 .. 1 /\ pc' = "check"
    BY DEF IInv, BufferInv, Push
  <2>2. QED
    BY <2>1 DEF IInv, TypeOK, Push, targetVars, bufferVars, controlVars, callVars
<1>2. OwnerInv'
  BY ConstantsAssumption DEF IInv, TypeOK, OwnerInv, Push, targetVars, bufferVars, controlVars, callVars
<1>3. BufferInv'
  <2>1. sending' = 1 /\ "FRAME_DONE" \notin bits /\ pc' = "check"
    BY DEF IInv, BufferInv, Push
  <2>2. held \/ audio
    BY DEF IInv, BufferInv, Push
  <2>3. QED
    BY <2>1, <2>2 DEF IInv, BufferInv, IsAudio, Push, targetVars, bufferVars
<1>4. SlotInv'
  BY ConstantsAssumption DEF IInv, TypeOK, OwnerInv, BufferInv, SlotInv, IsAudio, Push, targetVars, bufferVars, controlVars, callVars
<1>5. OpenInv'
  BY ConstantsAssumption DEF IInv, TypeOK, OwnerInv, OpenInv, Streaming, Push, targetVars, bufferVars, controlVars, callVars
<1>6. StopInv'
  BY ConstantsAssumption DEF IInv, TypeOK, OwnerInv, StopInv, Owner, Push, targetVars, bufferVars, controlVars, callVars
<1>7. QED
  BY <1>1, <1>2, <1>3, <1>4, <1>5, <1>6 DEF IInv

LEMMA DrainStep == ASSUME IInv, Drain PROVE IInv'
<1>1. TypeOK'
  <2>1. held => out = 1
    BY DEF IInv, SlotInv, Drain
  <2>2. out' \in 0 .. MaxInflight /\ bits' \subseteq Bits
    BY <2>1, ConstantsAssumption DEF IInv, TypeOK, Drain
  <2>3. held' \in BOOLEAN /\ audio' \in BOOLEAN /\ pc' = "end"
    BY DEF Drain
  <2>4. QED
    BY <2>2, <2>3 DEF IInv, TypeOK, Drain, targetVars, bufferVars, controlVars, callVars
<1>2. OwnerInv'
  BY ConstantsAssumption DEF IInv, TypeOK, OwnerInv, Drain, targetVars, bufferVars, controlVars, callVars
<1>3. BufferInv'
  BY ConstantsAssumption DEF IInv, TypeOK, OwnerInv, BufferInv, IsAudio, Drain, targetVars, bufferVars, controlVars, callVars
<1>4. SlotInv'
  BY ConstantsAssumption DEF IInv, TypeOK, OwnerInv, BufferInv, SlotInv, IsAudio, Drain, targetVars, bufferVars, controlVars, callVars
<1>5. OpenInv'
  BY ConstantsAssumption DEF IInv, TypeOK, OwnerInv, OpenInv, Streaming, Drain, targetVars, bufferVars, controlVars, callVars
<1>6. StopInv'
  BY ConstantsAssumption DEF IInv, TypeOK, OwnerInv, StopInv, Owner, Drain, targetVars, bufferVars, controlVars, callVars
<1>7. QED
  BY <1>1, <1>2, <1>3, <1>4, <1>5, <1>6 DEF IInv

LEMMA EndStep == ASSUME IInv, End PROVE IInv'
<1>1. TypeOK'
  BY ConstantsAssumption DEF IInv, TypeOK, Bits, End, Submit, targetVars, bufferVars, controlVars, callVars
<1>2. OwnerInv'
  BY ConstantsAssumption DEF IInv, TypeOK, OwnerInv, End, Submit, targetVars, bufferVars, controlVars, callVars
<1>3. BufferInv'
  BY ConstantsAssumption DEF IInv, TypeOK, OwnerInv, BufferInv, IsAudio, End, Submit, targetVars, bufferVars, controlVars, callVars
<1>4. SlotInv'
  BY ConstantsAssumption DEF IInv, TypeOK, OwnerInv, BufferInv, SlotInv, IsAudio, End, Submit, targetVars, bufferVars, controlVars, callVars
<1>5. OpenInv'
  BY ConstantsAssumption DEF IInv, TypeOK, OwnerInv, OpenInv, Streaming, End, Submit, targetVars, bufferVars, controlVars, callVars
<1>6. StopInv'
  BY ConstantsAssumption DEF IInv, TypeOK, OwnerInv, StopInv, Owner, End, Submit, targetVars, bufferVars, controlVars, callVars
<1>7. QED
  BY <1>1, <1>2, <1>3, <1>4, <1>5, <1>6 DEF IInv

LEMMA AwaitEndStep == ASSUME IInv, AwaitEnd PROVE IInv'
<1>1. TypeOK'
  BY ConstantsAssumption DEF IInv, TypeOK, Bits, AwaitEnd, targetVars, bufferVars, controlVars, callVars
<1>2. OwnerInv'
  BY ConstantsAssumption DEF IInv, TypeOK, OwnerInv, AwaitEnd, targetVars, bufferVars, controlVars, callVars
<1>3. BufferInv'
  BY ConstantsAssumption DEF IInv, TypeOK, OwnerInv, BufferInv, IsAudio, AwaitEnd, targetVars, bufferVars, controlVars, callVars
<1>4. SlotInv'
  BY ConstantsAssumption DEF IInv, TypeOK, OwnerInv, BufferInv, SlotInv, IsAudio, AwaitEnd, targetVars, bufferVars, controlVars, callVars
<1>5. OpenInv'
  BY ConstantsAssumption DEF IInv, TypeOK, OwnerInv, OpenInv, Streaming, AwaitEnd, targetVars, bufferVars, controlVars, callVars
<1>6. StopInv'
  BY ConstantsAssumption DEF IInv, TypeOK, OwnerInv, StopInv, Owner, AwaitEnd, targetVars, bufferVars, controlVars, callVars
<1>7. QED
  BY <1>1, <1>2, <1>3, <1>4, <1>5, <1>6 DEF IInv

LEMMA FinishStep == ASSUME IInv, Finish PROVE IInv'
<1>1. TypeOK'
  BY ConstantsAssumption DEF IInv, TypeOK, Bits, Finish, targetVars, bufferVars, controlVars, callVars
<1>2. OwnerInv'
  BY ConstantsAssumption DEF IInv, TypeOK, OwnerInv, Finish, targetVars, bufferVars, controlVars, callVars
<1>3. BufferInv'
  BY ConstantsAssumption DEF IInv, TypeOK, OwnerInv, BufferInv, IsAudio, Finish, targetVars, bufferVars, controlVars, callVars
<1>4. SlotInv'
  BY ConstantsAssumption DEF IInv, TypeOK, OwnerInv, BufferInv, SlotInv, IsAudio, Finish, targetVars, bufferVars, controlVars, callVars
<1>5. OpenInv'
  BY ConstantsAssumption DEF IInv, TypeOK, OwnerInv, OpenInv, Streaming, Finish, targetVars, bufferVars, controlVars, callVars
<1>6. StopInv'
  BY ConstantsAssumption DEF IInv, TypeOK, OwnerInv, StopInv, Owner, Finish, targetVars, bufferVars, controlVars, callVars
<1>7. QED
  BY <1>1, <1>2, <1>3, <1>4, <1>5, <1>6 DEF IInv

LEMMA StartStep == ASSUME IInv, NEW t \in Targets, Start(t) PROVE IInv'
<1>1. TypeOK'
  <2>1. CASE pending # None \/ active # None
    <3>1. calls' \in 0 .. MaxCalls
      BY ConstantsAssumption DEF IInv, TypeOK, Start
    <3>2. UNCHANGED <<bits, stopping, pending, raise>>
      BY <2>1 DEF Start
    <3>3. UNCHANGED <<pc, active, bufferVars, mic, controlVars, open, sending, todo>>
      BY DEF Start
    <3>4. QED
      BY <3>1, <3>2, <3>3 DEF IInv, TypeOK, bufferVars, controlVars
  <2>2. CASE ~(pending # None \/ active # None)
    <3>1. /\ bits' \subseteq Bits /\ pending' \in Targets \cup {None}
          /\ raise' \in {None, "START", "STOP"}
      BY <2>2 DEF IInv, TypeOK, Start
    <3>2. stopping' \in BOOLEAN
      BY <2>2 DEF Start
    <3>3. calls' \in 0 .. MaxCalls
      BY ConstantsAssumption DEF IInv, TypeOK, Start
    <3>4. UNCHANGED <<pc, active, bufferVars, mic, controlVars, open, sending, todo>>
      BY DEF Start
    <3>5. QED
      BY <3>1, <3>2, <3>3, <3>4 DEF IInv, TypeOK, bufferVars, controlVars
  <2>3. QED
    BY <2>1, <2>2
<1>2. OwnerInv'
  BY ConstantsAssumption DEF IInv, TypeOK, OwnerInv, Start, targetVars, bufferVars, controlVars, callVars
<1>3. BufferInv'
  BY ConstantsAssumption DEF IInv, TypeOK, OwnerInv, BufferInv, IsAudio, Start, targetVars, bufferVars, controlVars, callVars
<1>4. SlotInv'
  BY ConstantsAssumption DEF IInv, TypeOK, OwnerInv, BufferInv, SlotInv, IsAudio, Start, targetVars, bufferVars, controlVars, callVars
<1>5. OpenInv'
  BY ConstantsAssumption DEF IInv, TypeOK, OwnerInv, OpenInv, Streaming, Start, targetVars, bufferVars, controlVars, callVars
<1>6. StopInv'
  BY ConstantsAssumption DEF IInv, TypeOK, OwnerInv, StopInv, Owner, Start, targetVars, bufferVars, controlVars, callVars
<1>7. QED
  BY <1>1, <1>2, <1>3, <1>4, <1>5, <1>6 DEF IInv

LEMMA CallStopStep == ASSUME IInv, NEW c \in Clients, CallStop(c) PROVE IInv'
<1>1. TypeOK'
  <2>1. <<c, Camera>> \in Targets /\ <<c, Microphone>> \in Targets
    BY DEF Targets
  <2>2. todo' \in Seq(Targets) /\ Len(todo') <= 2
    <3>1. CASE todo' = << <<c, Camera>> >>
      BY <2>1, <3>1
    <3>2. CASE todo' = << <<c, Microphone>> >>
      BY <2>1, <3>2
    <3>3. CASE todo' = << <<c, Camera>>, <<c, Microphone>> >>
      BY <2>1, <3>3
    <3>4. QED
      BY <3>1, <3>2, <3>3 DEF CallStop, Stops
  <2>3. calls' \in 0 .. MaxCalls
    BY ConstantsAssumption DEF IInv, TypeOK, CallStop
  <2>4. QED
    BY <2>2, <2>3 DEF IInv, TypeOK, CallStop, targetVars, bufferVars, controlVars, callVars
<1>2. OwnerInv'
  BY ConstantsAssumption DEF IInv, TypeOK, OwnerInv, CallStop, targetVars, bufferVars, controlVars, callVars
<1>3. BufferInv'
  BY ConstantsAssumption DEF IInv, TypeOK, OwnerInv, BufferInv, IsAudio, CallStop, targetVars, bufferVars, controlVars, callVars
<1>4. SlotInv'
  BY ConstantsAssumption DEF IInv, TypeOK, OwnerInv, BufferInv, SlotInv, IsAudio, CallStop, targetVars, bufferVars, controlVars, callVars
<1>5. OpenInv'
  BY ConstantsAssumption DEF IInv, TypeOK, OwnerInv, OpenInv, Streaming, CallStop, targetVars, bufferVars, controlVars, callVars
<1>6. StopInv'
  BY ConstantsAssumption DEF IInv, TypeOK, OwnerInv, StopInv, Owner, CallStop, targetVars, bufferVars, controlVars, callVars
<1>7. QED
  BY <1>1, <1>2, <1>3, <1>4, <1>5, <1>6 DEF IInv

LEMMA StopStep == ASSUME IInv, Stop PROVE IInv'
<1>1. TypeOK'
  <2>1. todo' \in Seq(Targets) /\ Len(todo') <= 2 /\ Head(todo) \in Targets
    BY HeadTailProperties, LenProperties DEF IInv, TypeOK, Stop
  <2>2. pending' \in Targets \cup {None} /\ raise' \in {None, "START", "STOP"}
    BY DEF IInv, TypeOK, Stop
  <2>3. stopping' \in BOOLEAN
    <3>1. CASE active = Head(todo)
      BY <3>1 DEF Stop
    <3>2. CASE active # Head(todo)
      BY <3>2 DEF IInv, TypeOK, Stop
    <3>3. QED
      BY <3>1, <3>2
  <2>4. UNCHANGED <<pc, bits, active, bufferVars, mic, controlVars, open, sending, calls>>
    BY DEF Stop
  <2>5. QED
    BY <2>1, <2>2, <2>3, <2>4 DEF IInv, TypeOK, bufferVars, controlVars
<1>2. OwnerInv'
  BY ConstantsAssumption DEF IInv, TypeOK, OwnerInv, Stop, targetVars, bufferVars, controlVars, callVars
<1>3. BufferInv'
  BY ConstantsAssumption DEF IInv, TypeOK, OwnerInv, BufferInv, IsAudio, Stop, targetVars, bufferVars, controlVars, callVars
<1>4. SlotInv'
  BY ConstantsAssumption DEF IInv, TypeOK, OwnerInv, BufferInv, SlotInv, IsAudio, Stop, targetVars, bufferVars, controlVars, callVars
<1>5. OpenInv'
  BY ConstantsAssumption DEF IInv, TypeOK, OwnerInv, OpenInv, Streaming, Stop, targetVars, bufferVars, controlVars, callVars
<1>6. StopInv'
  BY ConstantsAssumption DEF IInv, TypeOK, OwnerInv, StopInv, Owner, Stop, targetVars, bufferVars, controlVars, callVars
<1>7. QED
  BY <1>1, <1>2, <1>3, <1>4, <1>5, <1>6 DEF IInv

LEMMA SetBitStep == ASSUME IInv, SetBit PROVE IInv'
<1>1. TypeOK'
  <2>1. bits' \subseteq Bits /\ raise' = None
    BY DEF IInv, TypeOK, SetBit, Bits
  <2>2. UNCHANGED <<pc, targetVars, bufferVars, mic, controlVars, open, sending, todo, calls>>
    BY DEF SetBit
  <2>3. QED
    BY <2>1, <2>2 DEF IInv, TypeOK, targetVars, bufferVars, controlVars, callVars
<1>2. OwnerInv'
  BY ConstantsAssumption DEF IInv, TypeOK, OwnerInv, SetBit, targetVars, bufferVars, controlVars, callVars
<1>3. BufferInv'
  BY ConstantsAssumption DEF IInv, TypeOK, OwnerInv, BufferInv, IsAudio, SetBit, targetVars, bufferVars, controlVars, callVars
<1>4. SlotInv'
  BY ConstantsAssumption DEF IInv, TypeOK, OwnerInv, BufferInv, SlotInv, IsAudio, SetBit, targetVars, bufferVars, controlVars, callVars
<1>5. OpenInv'
  BY ConstantsAssumption DEF IInv, TypeOK, OwnerInv, OpenInv, Streaming, SetBit, targetVars, bufferVars, controlVars, callVars
<1>6. StopInv'
  BY ConstantsAssumption DEF IInv, TypeOK, OwnerInv, StopInv, Owner, SetBit, targetVars, bufferVars, controlVars, callVars
<1>7. QED
  BY <1>1, <1>2, <1>3, <1>4, <1>5, <1>6 DEF IInv

LEMMA StreamControlExecStep == ASSUME IInv, StreamControlExec PROVE IInv'
<1>1. TypeOK'
  <2>1. bits' \subseteq Bits /\ op' = None
    BY DEF IInv, TypeOK, StreamControlExec, Bits
  <2>2. ok' \in BOOLEAN
    BY DEF StreamControlExec
  <2>3. open' \in Targets \cup {None}
    BY DEF IInv, TypeOK, StreamControlExec
  <2>4. UNCHANGED <<pc, targetVars, bufferVars, mic, sending, callVars>>
    BY DEF StreamControlExec
  <2>5. QED
    BY <2>1, <2>2, <2>3, <2>4 DEF IInv, TypeOK, targetVars, bufferVars, controlVars, callVars
<1>2. OwnerInv'
  BY ConstantsAssumption DEF IInv, TypeOK, OwnerInv, StreamControlExec, targetVars, bufferVars, controlVars, callVars
<1>3. BufferInv'
  BY ConstantsAssumption DEF IInv, TypeOK, OwnerInv, BufferInv, IsAudio, StreamControlExec, targetVars, bufferVars, controlVars, callVars
<1>4. SlotInv'
  BY ConstantsAssumption DEF IInv, TypeOK, OwnerInv, BufferInv, SlotInv, IsAudio, StreamControlExec, targetVars, bufferVars, controlVars, callVars
<1>5. OpenInv'
  BY ConstantsAssumption DEF IInv, TypeOK, OwnerInv, OpenInv, Streaming, StreamControlExec, targetVars, bufferVars, controlVars, callVars
<1>6. StopInv'
  BY ConstantsAssumption DEF IInv, TypeOK, OwnerInv, StopInv, Owner, StreamControlExec, targetVars, bufferVars, controlVars, callVars
<1>7. QED
  BY <1>1, <1>2, <1>3, <1>4, <1>5, <1>6 DEF IInv

LEMMA FrameDoneCbStep == ASSUME IInv, FrameDoneCb PROVE IInv'
<1>1. TypeOK'
  BY ConstantsAssumption DEF IInv, TypeOK, Bits, FrameDoneCb, targetVars, bufferVars, controlVars, callVars
<1>2. OwnerInv'
  BY ConstantsAssumption DEF IInv, TypeOK, OwnerInv, FrameDoneCb, targetVars, bufferVars, controlVars, callVars
<1>3. BufferInv'
  BY ConstantsAssumption DEF IInv, TypeOK, OwnerInv, BufferInv, IsAudio, FrameDoneCb, targetVars, bufferVars, controlVars, callVars
<1>4. SlotInv'
  BY ConstantsAssumption DEF IInv, TypeOK, OwnerInv, BufferInv, SlotInv, IsAudio, FrameDoneCb, targetVars, bufferVars, controlVars, callVars
<1>5. OpenInv'
  BY ConstantsAssumption DEF IInv, TypeOK, OwnerInv, OpenInv, Streaming, FrameDoneCb, targetVars, bufferVars, controlVars, callVars
<1>6. StopInv'
  BY ConstantsAssumption DEF IInv, TypeOK, OwnerInv, StopInv, Owner, FrameDoneCb, targetVars, bufferVars, controlVars, callVars
<1>7. QED
  BY <1>1, <1>2, <1>3, <1>4, <1>5, <1>6 DEF IInv

LEMMA InitInv == Init => IInv
<1>1. SUFFICES ASSUME Init PROVE IInv
  OBVIOUS
<1>2. TypeOK
  <2>1. todo \in Seq(Targets) /\ Len(todo) <= 2
    BY <1>1 DEF Init
  <2>2. stopping \in BOOLEAN /\ held \in BOOLEAN /\ audio \in BOOLEAN
    BY <1>1 DEF Init
  <2>3. mic \in BOOLEAN /\ ok \in BOOLEAN
    BY <1>1 DEF Init
  <2>4. out \in 0 .. MaxInflight /\ sending \in 0 .. 1 /\ calls \in 0 .. MaxCalls
    BY <1>1, ConstantsAssumption DEF Init
  <2>5. bits \subseteq Bits
    BY <1>1 DEF Init
  <2>6. QED
    BY <1>1, <2>1, <2>2, <2>3, <2>4, <2>5 DEF Init, TypeOK
<1>3. OwnerInv /\ BufferInv /\ SlotInv
  BY <1>1 DEF Init, OwnerInv, BufferInv, SlotInv
<1>4. OpenInv /\ StopInv
  BY <1>1, ConstantsAssumption DEF Init, OpenInv, StopInv, Owner, Streaming
<1>5. QED
  BY <1>2, <1>3, <1>4 DEF IInv

LEMMA TaskInv == ASSUME IInv, Task PROVE IInv'
BY AwaitStartStep, ClaimStep, MicStartStep, BeginStep, AwaitBeginStep, CheckStopStep,
   AwaitAudioStep, ReadNothingStep, ReadStep, AwaitFrameStep, RetrieveStep,
   RetrieveFailsStep, CapturedStep, ClearDoneStep, PushStep, DrainStep, EndStep,
   AwaitEndStep, FinishStep DEF Task

LEMMA StutterInv == ASSUME IInv, UNCHANGED vars PROVE IInv'
<1>1. TypeOK'
  BY DEF IInv, TypeOK, vars
<1>2. (OwnerInv /\ BufferInv /\ SlotInv)'
  BY DEF IInv, OwnerInv, BufferInv, SlotInv, IsAudio, vars
<1>3. (OpenInv /\ StopInv)'
  BY DEF IInv, OpenInv, StopInv, Owner, vars
<1>4. QED
  BY <1>1, <1>2, <1>3 DEF IInv

LEMMA NextInv == ASSUME IInv, [Next]_vars PROVE IInv'
<1>1. CASE Task
  BY <1>1, TaskInv
<1>2. CASE Calls
  BY <1>2, StartStep, CallStopStep DEF Calls
<1>3. CASE Stop \/ SetBit \/ StreamControlExec \/ FrameDoneCb
  BY <1>3, StopStep, SetBitStep, StreamControlExecStep, FrameDoneCbStep
<1>4. CASE UNCHANGED vars
  BY <1>4, StutterInv
<1>5. QED
  BY <1>1, <1>2, <1>3, <1>4 DEF Next

\* Every reachable state satisfies the inductive invariant.
THEOREM Inductive == Spec => []IInv
<1>1. IInv /\ [Next]_vars => IInv'
  BY NextInv
<1>2. QED
  BY InitInv, <1>1, PTL DEF Spec

\* The variables keep their types: above all, never a second push with the SDK and
\* never more frames out than s_inflight has slots.
THEOREM TypeCorrect == Spec => []TypeOK
<1>1. IInv => TypeOK
  BY DEF IInv
<1>2. QED
  BY <1>1, Inductive, PTL

\* A buffer being sent is neither returned nor overwritten, whatever the order of
\* the callbacks, the stops and the frames.
THEOREM BuffersStayHeld == Spec => []BufferHeldUntilSent
<1>1. IInv => BufferHeldUntilSent
  BY DEF IInv, BufferInv, BufferHeldUntilSent
<1>2. QED
  BY <1>1, Inductive, PTL

\* No path out of a stream, stopped, failed or refused, loses a frame.
THEOREM NoFrameLeaks == Spec => []FramesReturned
<1>1. IInv => FramesReturned
  BY DEF IInv, BufferInv, SlotInv, FramesReturned
<1>2. QED
  BY <1>1, Inductive, PTL
-----------------------------------------------------------------------------
(* Every step of the loop is one of SensorStream's, or leaves the stream alone.*)

\* What decides the step of SensorStream.
StreamSame == UNCHANGED <<Owner, Phase, stopping>>

LEMMA SameIsStutter == StreamSame => UNCHANGED Stream!vars
BY DEF StreamSame, Stream!vars

LEMMA QuietSteps ==
    ASSUME IInv, AwaitStart \/ Claim \/ Begin \/ CheckStop
    PROVE  StreamSame
<1>1. CASE AwaitStart
  BY <1>1 DEF IInv, OpenInv, AwaitStart, StreamSame, Owner, Phase, targetVars
<1>2. CASE Claim
  BY <1>2 DEF IInv, OwnerInv, OpenInv, Claim, StreamSame, Owner, Phase
<1>3. CASE Begin
  BY <1>3 DEF IInv, OpenInv, Begin, StreamSame, Owner, Phase, targetVars
<1>4. CASE CheckStop
  BY <1>4 DEF IInv, OpenInv, CheckStop, StreamSame, Owner, Phase, targetVars
<1>5. QED
  BY <1>1, <1>2, <1>3, <1>4

LEMMA StreamingSteps ==
    ASSUME IInv, AwaitAudio \/ ReadNothing \/ Read \/ AwaitFrame \/ Retrieve
                 \/ RetrieveFails \/ Captured \/ ClearDone \/ Push \/ Drain \/ End
    PROVE  StreamSame
<1>1. /\ pc \in Streaming
      /\ UNCHANGED <<pending, active, stopping, open>>
  BY DEF AwaitAudio, ReadNothing, Read, AwaitFrame, Retrieve, RetrieveFails, Captured,
     ClearDone, Push, Drain, End, Streaming, targetVars
<1>2. open = active /\ active # None /\ pending = None
  BY <1>1 DEF IInv, OpenInv, OwnerInv, Streaming
<1>3. QED
  BY <1>1, <1>2 DEF StreamSame, Owner, Phase

LEMMA SideSteps ==
    ASSUME IInv, \/ \E c \in Clients : CallStop(c)
                 \/ SetBit \/ FrameDoneCb \/ UNCHANGED vars
    PROVE  StreamSame
<1>1. UNCHANGED <<pc, pending, active, stopping, open>>
  BY DEF CallStop, SetBit, FrameDoneCb, vars, targetVars
<1>2. QED
  BY <1>1 DEF StreamSame, Owner, Phase

LEMMA MicStartMaps == ASSUME IInv, MicStart PROVE StreamSame \/ Stream!Fail
<1>1. active # None /\ pending = None /\ open = None
  BY DEF IInv, OwnerInv, OpenInv, MicStart
<1>2. pc' \in {"begin", "finish"} /\ UNCHANGED <<pending, active, stopping, open>>
  BY DEF MicStart, targetVars
<1>3. Phase = "reserved"
  BY <1>1 DEF Phase, Owner, MicStart
<1>4. CASE pc' = "begin"
  BY <1>1, <1>2, <1>3, <1>4 DEF StreamSame, Owner, Phase
<1>5. CASE pc' = "finish"
  BY <1>1, <1>2, <1>3, <1>5 DEF Stream!Fail, Owner, Phase
<1>6. QED
  BY <1>2, <1>4, <1>5

LEMMA AwaitBeginMaps == ASSUME IInv, AwaitBegin PROVE StreamSame \/ Stream!Fail
<1>1. active # None /\ pending = None /\ op = None
  BY DEF IInv, TypeOK, OwnerInv, OpenInv, AwaitBegin
<1>2. UNCHANGED <<pending, active, stopping, open>>
  BY DEF AwaitBegin, targetVars
<1>3. CASE ok
  <2>1. open = active /\ pc' = "check"
    BY <1>1, <1>3 DEF IInv, OpenInv, AwaitBegin
  <2>2. QED
    BY <1>1, <1>2, <2>1 DEF StreamSame, Owner, Phase
<1>4. CASE ~ok
  <2>1. open = None /\ pc' = "finish" /\ pc = "beginning"
    BY <1>1, <1>4 DEF IInv, OpenInv, AwaitBegin
  <2>2. Phase = "reserved" /\ Phase' = "closed"
    BY <1>1, <1>2, <2>1 DEF Owner, Phase
  <2>3. QED
    BY <1>2, <2>2 DEF Stream!Fail, Owner
<1>5. QED
  BY <1>3, <1>4

LEMMA AwaitEndMaps == ASSUME IInv, AwaitEnd PROVE StreamSame
<1>1. active # None /\ pending = None /\ open = None
  BY DEF IInv, TypeOK, OwnerInv, OpenInv, AwaitEnd
<1>2. UNCHANGED <<pending, active, stopping, open>> /\ pc = "ending" /\ pc' = "finish"
  BY DEF AwaitEnd, targetVars
<1>3. QED
  BY <1>1, <1>2 DEF StreamSame, Owner, Phase

LEMMA FinishMaps == ASSUME IInv, Finish PROVE Stream!Release
<1>1. active # None /\ pending = None /\ open = None /\ pc = "finish"
  BY DEF IInv, OwnerInv, OpenInv, Finish
<1>2. active' = None /\ UNCHANGED <<pending, stopping>>
  BY DEF Finish
<1>3. Phase = "closed" /\ Phase' = "free" /\ Owner' = None
  BY <1>1, <1>2 DEF Owner, Phase
<1>4. QED
  BY <1>2, <1>3 DEF Stream!Release

LEMMA StartMaps ==
    ASSUME IInv, NEW t \in Targets, Start(t)
    PROVE  StreamSame \/ Stream!Reserve(t)
<1>1. CASE pending # None \/ active # None
  BY <1>1 DEF Start, StreamSame, Owner, Phase
<1>2. CASE pending = None /\ active = None
  <2>1. pending' = t /\ stopping' = FALSE /\ UNCHANGED <<pc, active, open>>
    BY <1>2 DEF Start
  <2>2. pc \in {"idle", "claim"} /\ open = None /\ t # None
    BY <1>2, ConstantsAssumption DEF IInv, OwnerInv, OpenInv
  <2>3. Phase = "free" /\ Phase' = "reserved" /\ Owner' = t
    BY <1>2, <2>1, <2>2 DEF Owner, Phase
  <2>4. QED
    BY <2>1, <2>3 DEF Stream!Reserve
<1>3. QED
  BY <1>1, <1>2

LEMMA StopMaps ==
    ASSUME IInv, Stop
    PROVE  StreamSame \/ Stream!Cancel \/ Stream!Leave
<1>1. UNCHANGED <<pc, active, open>>
  BY DEF Stop
<1>2. Head(todo) \in Targets /\ Head(todo) # None
  BY HeadTailProperties, ConstantsAssumption DEF IInv, TypeOK, Stop
<1>3. CASE pending = Head(todo)
  <2>1. pending # None /\ active = None /\ pc \in {"idle", "claim"} /\ open = None
    BY <1>2, <1>3 DEF IInv, OwnerInv, OpenInv
  <2>2. pending' = None /\ stopping' = stopping
    BY <1>2, <1>3, <2>1 DEF Stop
  <2>3. Phase = "reserved" /\ Phase' = "free" /\ Owner' = None
    BY <1>1, <2>1, <2>2 DEF Owner, Phase
  <2>4. QED
    BY <2>2, <2>3 DEF Stream!Cancel
<1>4. CASE active = Head(todo)
  <2>1. active # None /\ pending = None
    BY <1>2, <1>4 DEF IInv, OwnerInv
  <2>2. pending' = None /\ stopping' = TRUE
    BY <1>2, <1>4, <2>1 DEF Stop
  <2>3. Phase # "free" /\ UNCHANGED <<Owner, Phase>>
    BY <1>1, <2>1, <2>2 DEF Owner, Phase
  <2>4. QED
    BY <2>2, <2>3 DEF Stream!Leave
<1>5. CASE pending # Head(todo) /\ active # Head(todo)
  <2>1. UNCHANGED <<pending, stopping>>
    BY <1>5 DEF Stop
  <2>2. QED
    BY <1>1, <2>1 DEF StreamSame, Owner, Phase
<1>6. QED
  BY <1>3, <1>4, <1>5

LEMMA StreamControlExecMaps ==
    ASSUME IInv, StreamControlExec
    PROVE  StreamSame \/ Stream!Open \/ Stream!Close
<1>1. UNCHANGED <<pc, pending, active, stopping>>
  BY DEF StreamControlExec, targetVars
<1>2. op \in {"begin", "end"} /\ pc \in {"beginning", "ending"}
  BY DEF IInv, TypeOK, OpenInv, StreamControlExec
<1>3. active # None /\ pending = None
  BY <1>2 DEF IInv, OwnerInv
<1>4. CASE op = "begin"
  <2>1. pc = "beginning" /\ open = None /\ Phase = "reserved"
    BY <1>3, <1>4 DEF IInv, OpenInv, Owner, Phase
  <2>2. open' \in {active, None}
    BY <1>4, <2>1 DEF StreamControlExec
  <2>3. CASE open' = active
    <3>1. Phase' = "open"
      BY <1>1, <1>3, <2>3 DEF Owner, Phase
    <3>2. QED
      BY <1>1, <2>1, <3>1 DEF Stream!Open, Owner
  <2>4. CASE open' = None
    BY <1>1, <2>1, <2>4 DEF StreamSame, Owner, Phase
  <2>5. QED
    BY <2>2, <2>3, <2>4
<1>5. CASE op = "end"
  <2>1. pc = "ending" /\ open = active /\ stopping
    BY <1>5 DEF IInv, OpenInv, StopInv
  <2>2. open' = None
    BY <1>5 DEF StreamControlExec
  <2>3. Phase = "open" /\ Phase' = "closed"
    BY <1>1, <1>3, <2>1, <2>2 DEF Owner, Phase
  <2>4. QED
    BY <1>1, <2>1, <2>3 DEF Stream!Close, Owner
<1>6. QED
  BY <1>2, <1>4, <1>5

LEMMA StepMaps ==
    ASSUME IInv, [Next]_vars
    PROVE  [Stream!Next]_(Stream!vars)
<1>1. CASE Task
  BY <1>1, QuietSteps, StreamingSteps, MicStartMaps, AwaitBeginMaps, AwaitEndMaps,
     FinishMaps, SameIsStutter DEF Task, Stream!Next
<1>2. CASE Calls
  BY <1>2, StartMaps, SideSteps, SameIsStutter DEF Calls, Stream!Next
<1>3. CASE Stop \/ SetBit \/ StreamControlExec \/ FrameDoneCb
  BY <1>3, StopMaps, StreamControlExecMaps, SideSteps, SameIsStutter DEF Stream!Next
<1>4. CASE UNCHANGED vars
  BY <1>4, SideSteps, SameIsStutter
<1>5. QED
  BY <1>1, <1>2, <1>3, <1>4 DEF Next

LEMMA InitMaps == Init => Stream!Init
BY DEF Init, Stream!Init, Owner, Phase

\* One owner at a time, a stream opened once and closed only when its owner asked:
\* the loop implements SensorStream.
THEOREM Refinement == Spec => ImplementsSensorStream
<1>1. IInv /\ [Next]_vars => [Stream!Next]_(Stream!vars)
  BY StepMaps
<1>2. QED
  BY InitMaps, <1>1, Inductive, PTL DEF Spec, ImplementsSensorStream, Stream!Spec

-----------------------------------------------------------------------------
(* What is owed: every bit the task waits for is set or about to be.       *)

\* The SDK answers what it was given; a start waits for the task with its bit, or
\* with a callback about to set it; a stop is on its way until the task has seen it.
OwedInv ==
    /\ (held \/ audio) /\ pc # "push" => sending > 0 \/ "FRAME_DONE" \in bits
    /\ pc \in {"beginning", "ending"} => op # None \/ "CONTROL_DONE" \in bits
    /\ pending # None => "START" \in bits \/ raise = "START" \/ pc = "claim"
    /\ pending # None => ~stopping
    /\ active # None /\ stopping =>
           \/ "STOP" \in bits \/ raise = "STOP"
           \/ pc \in {"drain", "end", "ending", "finish"}

LoopInv == IInv /\ OwedInv

LEMMA OwedTask == ASSUME LoopInv, Task PROVE OwedInv'
<1> USE ConstantsAssumption
        DEF LoopInv, IInv, TypeOK, OwnerInv, BufferInv, OwedInv, IsAudio, targetVars,
            bufferVars, controlVars, callVars
<1>1. CASE AwaitStart
  BY <1>1 DEF AwaitStart
<1>2. CASE Claim
  BY <1>2 DEF Claim
<1>3. CASE MicStart
  BY <1>3 DEF MicStart
<1>4. CASE Begin
  BY <1>4 DEF Begin, Submit
<1>5. CASE AwaitBegin
  BY <1>5 DEF AwaitBegin
<1>6. CASE CheckStop
  BY <1>6 DEF CheckStop
<1>7. CASE AwaitAudio
  BY <1>7 DEF AwaitAudio
<1>8. CASE ReadNothing
  BY <1>8 DEF ReadNothing
<1>9. CASE Read
  BY <1>9 DEF Read
<1>10. CASE AwaitFrame
  BY <1>10 DEF AwaitFrame
<1>11. CASE Retrieve
  BY <1>11 DEF Retrieve
<1>12. CASE RetrieveFails
  BY <1>12 DEF RetrieveFails
<1>13. CASE Captured
  BY <1>13 DEF Captured
<1>14. CASE ClearDone
  BY <1>14 DEF ClearDone
<1>15. CASE Push
  BY <1>15 DEF Push
<1>16. CASE Drain
  BY <1>16 DEF Drain
<1>17. CASE End
  BY <1>17 DEF End, Submit
<1>18. CASE AwaitEnd
  BY <1>18 DEF AwaitEnd
<1>19. CASE Finish
  BY <1>19 DEF Finish
<1> QED
  BY <1>1, <1>2, <1>3, <1>4, <1>5, <1>6, <1>7, <1>8, <1>9, <1>10, <1>11, <1>12, <1>13, <1>14, <1>15, <1>16, <1>17, <1>18, <1>19
  DEF Task

LEMMA OwedOthers == ASSUME LoopInv, [Next]_vars, ~Task PROVE OwedInv'
<1> USE ConstantsAssumption
        DEF LoopInv, IInv, TypeOK, OwnerInv, BufferInv, OpenInv, OwedInv, targetVars,
            bufferVars, controlVars, callVars
<1>1. ASSUME NEW t \in Targets, Start(t) PROVE OwedInv'
  BY <1>1 DEF Start
<1>2. ASSUME NEW c \in Clients, CallStop(c) PROVE OwedInv'
  BY <1>2 DEF CallStop
<1>3. CASE Stop
  BY <1>3 DEF Stop
<1>4. CASE SetBit
  BY <1>4 DEF SetBit
<1>5. CASE StreamControlExec
  BY <1>5 DEF StreamControlExec
<1>6. CASE FrameDoneCb
  BY <1>6 DEF FrameDoneCb
<1>7. CASE UNCHANGED vars
  BY <1>7 DEF vars
<1> QED
  BY <1>1, <1>2, <1>3, <1>4, <1>5, <1>6, <1>7 DEF Next, Calls

LEMMA LoopStep == LoopInv /\ [Next]_vars => LoopInv'
<1>1. LoopInv /\ [Next]_vars => IInv'
  BY NextInv DEF LoopInv
<1> QED
  BY <1>1, OwedTask, OwedOthers DEF LoopInv

LEMMA LoopAlways == Spec => []LoopInv
<1>1. Init => LoopInv
  BY InitInv DEF LoopInv, OwedInv, Init
<1> QED
  BY <1>1, LoopStep, PTL DEF Spec

-----------------------------------------------------------------------------
(* Streams end, and subscriptions settle.                                  *)

\* Whoever else steps, the task stays where it is, loses no bit in a stream, and a
\* stop stays asked for.
LEMMA OthersKeep ==
    ASSUME LoopInv, [Next]_vars, ~Task
    PROVE  /\ LoopInv' /\ pc' = pc /\ active' = active /\ held' = held /\ audio' = audio
           /\ active # None => bits \subseteq bits' /\ (stopping => stopping')
           /\ bits \ {"STOP"} \subseteq bits'
<1> USE ConstantsAssumption DEF targetVars, bufferVars, controlVars, callVars
<1>1. LoopInv'
  BY LoopStep
<1>2. ASSUME NEW t \in Targets, Start(t)
      PROVE  /\ pc' = pc /\ active' = active /\ held' = held /\ audio' = audio
             /\ active # None => bits \subseteq bits' /\ (stopping => stopping')
             /\ bits \ {"STOP"} \subseteq bits'
  BY <1>2 DEF Start
<1>3. ASSUME NEW c \in Clients, CallStop(c)
      PROVE  UNCHANGED <<pc, active, held, audio, bits, stopping>>
  BY <1>3 DEF CallStop
<1>4. CASE Stop
  BY <1>1, <1>4 DEF Stop
<1>5. CASE SetBit
  BY <1>1, <1>5 DEF SetBit
<1>6. CASE StreamControlExec
  BY <1>1, <1>6 DEF StreamControlExec
<1>7. CASE FrameDoneCb
  BY <1>1, <1>7 DEF FrameDoneCb
<1>8. CASE UNCHANGED vars
  BY <1>1, <1>8 DEF vars
<1> QED
  BY <1>1, <1>2, <1>3, <1>4, <1>5, <1>6, <1>7, <1>8 DEF Next, Calls

\* While it waits the task takes no step; out of the wait, only its own step takes it
\* to another.  In a stream what is waited for is owed by the SDK.
LEMMA WaitSteps ==
    ASSUME LoopInv, [Next]_vars
    PROVE  /\ ~Task /\ ~TaskWaits => ~TaskWaits'
           /\ TaskWaits => ~Task
           /\ TaskWaits /\ pc \in {"beginning", "ending"} =>
                  op # None /\ (StreamControlExec => ~TaskWaits')
           /\ TaskWaits /\ pc \in {"awaitaudio", "awaitframe", "drain"} =>
                  sending > 0 /\ (FrameDoneCb => ~TaskWaits')
<1>1. ASSUME ~Task, ~TaskWaits PROVE ~TaskWaits'
  BY <1>1, OthersKeep DEF TaskWaits, LoopInv, IInv, OwnerInv
<1>2. ASSUME TaskWaits, Task PROVE FALSE
  BY <1>2 DEF TaskWaits, Task, AwaitStart, Claim, MicStart, Begin, AwaitBegin, CheckStop,
     AwaitAudio, ReadNothing, Read, AwaitFrame, Retrieve, RetrieveFails, Captured,
     ClearDone, Push, Drain, End, AwaitEnd, Finish
<1>3. ASSUME TaskWaits, pc \in {"beginning", "ending"}
      PROVE  op # None /\ (StreamControlExec => ~TaskWaits')
  BY <1>3 DEF TaskWaits, LoopInv, OwedInv, StreamControlExec
<1>4. ASSUME TaskWaits, pc \in {"awaitaudio", "awaitframe", "drain"}
      PROVE  sending > 0 /\ (FrameDoneCb => ~TaskWaits')
  BY <1>4 DEF TaskWaits, LoopInv, OwedInv, IInv, BufferInv, FrameDoneCb
<1> QED
  BY <1>1, <1>2, <1>3, <1>4

\* Where the task waits in a stream.
Waiting(P) == LoopInv /\ TaskWaits /\ pc \in P

\* Every wait in a stream comes to an end.
LEMMA WaitsEnd ==
    FairSpec /\ []OnlyBitsAwaited => ((TaskWaits /\ pc # "idle") ~> ~TaskWaits)
<1> DEFINE Control == Waiting({"beginning", "ending"})
           Sent == Waiting({"awaitaudio", "awaitframe", "drain"})
           W == TaskWaits
           Busy == TaskWaits /\ pc # "idle"
           CanExec == ENABLED <<StreamControlExec>>_vars
           CanCall == ENABLED <<FrameDoneCb>>_vars
           Running == op # None
           Sending == sending > 0
<1>1. Control /\ [Next]_vars => (Control' \/ ~W') /\ (StreamControlExec => ~W')
  BY WaitSteps, OthersKeep DEF Waiting
<1>2. Sent /\ [Next]_vars => (Sent' \/ ~W') /\ (FrameDoneCb => ~W')
  BY WaitSteps, OthersKeep DEF Waiting
<1>3. (Control => Running) /\ (Sent => Sending)
  BY DEF Waiting, TaskWaits, LoopInv, OwedInv, IInv, BufferInv
<1>4. LoopInv /\ Busy => Control \/ Sent
  BY DEF Waiting, TaskWaits
<1>5. OnlyBitsAwaited => (Running => CanExec) /\ (Sending => CanCall)
  BY DEF OnlyBitsAwaited
<1> HIDE DEF Control, Sent, Busy, Running, Sending
<1>6. FairSpec /\ []OnlyBitsAwaited => (Control ~> ~W) /\ (Sent ~> ~W)
  BY <1>1, <1>2, <1>3, <1>5, PTL DEF FairSpec, Spec
<1> QED
  BY <1>4, <1>6, LoopAlways, PTL DEF FairSpec, Busy

\* The steps the task is from the end of its stream once a stop is set.
ToGo ==
    CASE pc = "finish" -> 1
      [] pc = "ending" -> 2
      [] pc = "end" -> 3
      [] pc = "drain" -> 4
      [] pc \in {"check", "awaitaudio", "awaitframe", "captured"} -> 5
      [] pc \in {"read", "capture", "push"} -> 6
      [] pc \in {"beginning", "cleardone"} -> 7
      [] pc = "begin" -> 8
      [] pc = "micstart" -> 9
      [] OTHER -> 0

\* The stop is set, or has been seen.
StopSeen == "STOP" \in bits \/ pc \in {"drain", "end", "ending", "finish"}

\* A stream that is stopped, at most n steps of the task from its end.
Leaving(n) == LoopInv /\ active # None /\ stopping /\ StopSeen /\ ToGo <= n

\* With a stop set every step of the task brings the end of the stream nearer.
LEMMA LeavingTask ==
    ASSUME LoopInv, active # None, stopping, StopSeen, Task
    PROVE  /\ active' = None \/ (active' = active /\ stopping' /\ StopSeen')
           /\ ToGo' < ToGo
<1> USE DEF StopSeen, ToGo, targetVars
<1>0. pc \notin {"idle", "claim"}
  BY DEF LoopInv, IInv, OwnerInv
<1>1. CASE AwaitStart
  BY <1>0, <1>1 DEF AwaitStart
<1>2. CASE Claim
  BY <1>0, <1>2 DEF Claim
<1>3. CASE MicStart
  BY <1>0, <1>3 DEF MicStart
<1>4. CASE Begin
  BY <1>0, <1>4 DEF Begin, Submit
<1>5. CASE AwaitBegin
  BY <1>0, <1>5 DEF AwaitBegin
<1>6. CASE CheckStop
  BY <1>0, <1>6 DEF CheckStop
<1>7. CASE AwaitAudio
  BY <1>0, <1>7 DEF AwaitAudio
<1>8. CASE ReadNothing
  BY <1>0, <1>8 DEF ReadNothing
<1>9. CASE Read
  BY <1>0, <1>9 DEF Read
<1>10. CASE AwaitFrame
  BY <1>0, <1>10 DEF AwaitFrame
<1>11. CASE Retrieve
  BY <1>0, <1>11 DEF Retrieve
<1>12. CASE RetrieveFails
  BY <1>0, <1>12 DEF RetrieveFails
<1>13. CASE Captured
  BY <1>0, <1>13 DEF Captured
<1>14. CASE ClearDone
  BY <1>0, <1>14 DEF ClearDone
<1>15. CASE Push
  BY <1>0, <1>15 DEF Push
<1>16. CASE Drain
  BY <1>0, <1>16 DEF Drain
<1>17. CASE End
  BY <1>0, <1>17 DEF End, Submit
<1>18. CASE AwaitEnd
  BY <1>0, <1>18 DEF AwaitEnd
<1>19. CASE Finish
  BY <1>0, <1>19 DEF Finish
<1> QED
  BY <1>1, <1>2, <1>3, <1>4, <1>5, <1>6, <1>7, <1>8, <1>9,
     <1>10, <1>11, <1>12, <1>13, <1>14, <1>15, <1>16, <1>17, <1>18, <1>19
  DEF Task

\* No other step takes it back.
LEMMA LeavingStep ==
    ASSUME NEW n \in Nat, Leaving(n + 1), [Next]_vars
    PROVE  /\ ~Task => Leaving(n + 1)'
           /\ Task => active' = None \/ Leaving(n)'
           /\ pc # "idle"
<1>1. LoopInv /\ active # None /\ stopping /\ StopSeen /\ ToGo <= n + 1
  BY DEF Leaving
<1>2. LoopInv' /\ ToGo \in Nat /\ ToGo' \in Nat
  BY <1>1, LoopStep DEF ToGo
<1>3. ASSUME ~Task PROVE Leaving(n + 1)'
  BY <1>1, <1>2, <1>3, OthersKeep DEF Leaving, StopSeen, ToGo
<1>4. ASSUME Task, active' # None PROVE Leaving(n)'
  BY <1>1, <1>2, <1>4, LeavingTask DEF Leaving
<1>5. pc # "idle"
  BY <1>1 DEF LoopInv, IInv, OwnerInv
<1> QED
  BY <1>3, <1>4, <1>5

\* Once its stop is set, a stream ends: each of those steps is taken.
LEMMA StopSeenEnds ==
    FairSpec /\ []OnlyBitsAwaited => (Leaving(9) ~> active = None)
<1> DEFINE Fair == FairSpec /\ []OnlyBitsAwaited
           Gone == active = None
           Away == pc # "idle"
           CanTask == ENABLED <<Task>>_vars
           L(n) == Leaving(n)
<1>1. \A n \in 0 .. 8 : L(n + 1) /\ [Next]_vars => (~Task /\ L(n + 1)') \/ L(n)' \/ Gone'
  BY LeavingStep
<1>2. /\ L(9) /\ [Next]_vars => (~Task /\ L(9)') \/ L(8)' \/ Gone'
      /\ L(8) /\ [Next]_vars => (~Task /\ L(8)') \/ L(7)' \/ Gone'
      /\ L(7) /\ [Next]_vars => (~Task /\ L(7)') \/ L(6)' \/ Gone'
      /\ L(6) /\ [Next]_vars => (~Task /\ L(6)') \/ L(5)' \/ Gone'
      /\ L(5) /\ [Next]_vars => (~Task /\ L(5)') \/ L(4)' \/ Gone'
      /\ L(4) /\ [Next]_vars => (~Task /\ L(4)') \/ L(3)' \/ Gone'
      /\ L(3) /\ [Next]_vars => (~Task /\ L(3)') \/ L(2)' \/ Gone'
      /\ L(2) /\ [Next]_vars => (~Task /\ L(2)') \/ L(1)' \/ Gone'
      /\ L(1) /\ [Next]_vars => (~Task /\ L(1)') \/ L(0)' \/ Gone'
  BY <1>1
<1>3. \A n \in 0 .. 9 : L(n) => LoopInv /\ Away
  BY DEF Leaving, LoopInv, IInv, OwnerInv
<1>4. /\ L(9) \/ L(8) \/ L(7) \/ L(6) \/ L(5) => LoopInv /\ Away
      /\ L(4) \/ L(3) \/ L(2) \/ L(1) \/ L(0) => LoopInv /\ Away
  BY <1>3
<1>5. LoopInv /\ [Next]_vars =>
        (~Task /\ ~TaskWaits => ~TaskWaits') /\ (TaskWaits => ~Task)
  BY WaitSteps
<1>6. OnlyBitsAwaited => (~TaskWaits => CanTask)
  BY DEF OnlyBitsAwaited
<1>7. Fair => ((TaskWaits /\ Away) ~> ~TaskWaits)
  BY WaitsEnd
<1>8. ~L(0)
  BY DEF Leaving, ToGo, LoopInv, IInv, TypeOK, OwnerInv
<1> HIDE DEF Gone, Away, L
<1>9. Fair => (L(9) ~> (L(8) \/ Gone)) /\ (L(8) ~> (L(7) \/ Gone))
  BY <1>2, <1>4, <1>5, <1>6, <1>7, PTL DEF FairSpec, Spec
<1>10. Fair => (L(7) ~> (L(6) \/ Gone)) /\ (L(6) ~> (L(5) \/ Gone))
  BY <1>2, <1>4, <1>5, <1>6, <1>7, PTL DEF FairSpec, Spec
<1>11. Fair => (L(5) ~> (L(4) \/ Gone)) /\ (L(4) ~> (L(3) \/ Gone))
  BY <1>2, <1>4, <1>5, <1>6, <1>7, PTL DEF FairSpec, Spec
<1>12. Fair => (L(3) ~> (L(2) \/ Gone)) /\ (L(2) ~> (L(1) \/ Gone))
  BY <1>2, <1>4, <1>5, <1>6, <1>7, PTL DEF FairSpec, Spec
<1>13. Fair => (L(1) ~> Gone)
  BY <1>2, <1>4, <1>5, <1>6, <1>7, <1>8, PTL DEF FairSpec, Spec
<1> HIDE DEF Fair
<1>14. Fair => (L(9) ~> Gone)
  BY <1>9, <1>10, <1>11, <1>12, <1>13, PTL
<1> QED
  BY <1>14 DEF Fair, Gone, L

\* A stop that is still to be set.
Coming == LoopInv /\ active # None /\ stopping /\ ~StopSeen

\* Its callback sets it, unless the stream is over first.
LEMMA ComingStep ==
    ASSUME Coming, [Next]_vars
    PROVE  /\ Coming' \/ Leaving(9)' \/ active' = None
           /\ Stop \/ SetBit => Leaving(9)' \/ active' = None
           /\ raise # None
<1>1. raise = "STOP" /\ raise # None
  BY ConstantsAssumption DEF Coming, StopSeen, LoopInv, OwedInv
<1>2. active' # None => active' = active /\ stopping'
  <2>1. CASE Task
    BY <2>1 DEF Coming, LoopInv, IInv, OwnerInv, Task, AwaitStart, Claim, MicStart, Begin,
       AwaitBegin, CheckStop, AwaitAudio, ReadNothing, Read, AwaitFrame, Retrieve,
       RetrieveFails, Captured, ClearDone, Push, Drain, End, AwaitEnd, Finish, targetVars
  <2>2. CASE ~Task
    BY <2>2, OthersKeep DEF Coming
  <2> QED BY <2>1, <2>2
<1>3. LoopInv' /\ ToGo' <= 9
  BY LoopStep DEF Coming, ToGo
<1>4. Stop \/ SetBit => StopSeen'
  BY <1>1 DEF Stop, SetBit, StopSeen
<1> QED
  BY <1>1, <1>2, <1>3, <1>4 DEF Coming, Leaving

\* Every stop takes effect: from the moment it is asked for, whatever the task is
\* doing or waiting for, the stream ends (cam_loop.h:18).
THEOREM StopsTakeEffect == FairSpec /\ []OnlyBitsAwaited => StopTakesEffect
<1> DEFINE Fair == FairSpec /\ []OnlyBitsAwaited
           C == Coming
           L == Leaving(9)
           Gone == active = None
           Stopped == active # None /\ stopping
           Raised == raise # None
           CanSet == ENABLED <<Stop \/ SetBit>>_vars
<1>1. C /\ [Next]_vars =>
        (C' \/ L' \/ Gone') /\ (Stop \/ SetBit => L' \/ Gone')
  BY ComingStep
<1>2. C => Raised
  BY ConstantsAssumption DEF Coming, StopSeen, LoopInv, OwedInv
<1>3. OnlyBitsAwaited => (Raised => CanSet)
  BY DEF OnlyBitsAwaited
<1>4. LoopInv /\ Stopped => C \/ L
  BY DEF Coming, Leaving, ToGo
<1>5. Fair => (L ~> Gone)
  BY StopSeenEnds
<1> HIDE DEF C, L, Gone, Stopped, Raised
<1>6. Fair => (C ~> (L \/ Gone))
  BY <1>1, <1>2, <1>3, PTL DEF FairSpec, Spec
<1>7. Fair => (Stopped ~> Gone)
  BY <1>4, <1>5, <1>6, LoopAlways, PTL DEF FairSpec
<1> QED
  BY <1>7 DEF StopTakesEffect, Stopped, Gone

\* A subscription is settled: it has its stream, or there is none any more.
Settled == open # None \/ (pending = None /\ active = None)

\* A stream picked up that is not open, at most n steps of the task from giving up.
Closed(n) == LoopInv /\ active # None /\ open = None /\ ToGo <= n

\* Every step of the task brings it nearer to the end, unless the SDK opens it.
LEMMA ClosedStep ==
    ASSUME NEW n \in Nat, Closed(n + 1), [Next]_vars
    PROVE  /\ ~Task => Closed(n + 1)' \/ Settled'
           /\ Task => Closed(n)' \/ Settled'
<1>1. LoopInv /\ active # None /\ open = None /\ ToGo <= n + 1
  BY DEF Closed
<1>2. LoopInv' /\ ToGo \in Nat /\ ToGo' \in Nat
  BY <1>1, LoopStep DEF ToGo
<1>3. pc \in {"micstart", "begin", "beginning", "ending", "finish"}
  BY <1>1 DEF LoopInv, IInv, TypeOK, OwnerInv, OpenInv, Streaming
<1>4. ASSUME ~Task PROVE Closed(n + 1)' \/ Settled'
  BY <1>1, <1>2, <1>4, OthersKeep DEF Closed, Settled, ToGo
<1>5. ASSUME Task PROVE Closed(n)' \/ Settled'
  <2>1. \/ active' = None /\ pending' = None
        \/ active' = active /\ open' = open /\ pc' \notin Streaming /\ ToGo' < ToGo
    <3> USE DEF ToGo, Streaming, targetVars
    <3>1. CASE MicStart
      BY <3>1 DEF MicStart
    <3>2. CASE Begin
      BY <3>2 DEF Begin
    <3>3. CASE AwaitBegin
      BY <1>1, <3>3 DEF AwaitBegin, LoopInv, IInv, TypeOK, OpenInv
    <3>4. CASE AwaitEnd
      BY <3>4 DEF AwaitEnd
    <3>5. CASE Finish
      BY <1>1, <3>5 DEF Finish, LoopInv, IInv, OwnerInv
    <3> QED
      BY <1>3, <1>5, <3>1, <3>2, <3>3, <3>4, <3>5 DEF Task, AwaitStart, Claim, MicStart, Begin,
     AwaitBegin, CheckStop, AwaitAudio, ReadNothing, Read, AwaitFrame, Retrieve,
     RetrieveFails, Captured, ClearDone, Push, Drain, End, AwaitEnd, Finish
  <2>2. LoopInv' /\ active' # None /\ open' = None /\ ToGo' <= n => Closed(n)'
    BY DEF Closed
  <2>3. active' = None /\ pending' = None => Settled'
    BY DEF Settled
  <2> QED BY <1>1, <1>2, <2>1, <2>2, <2>3
<1> QED
  BY <1>4, <1>5

\* A stream picked up is opened, or given up.
LEMMA ClosedSettles == FairSpec /\ []OnlyBitsAwaited => (Closed(9) ~> Settled)
<1> DEFINE Fair == FairSpec /\ []OnlyBitsAwaited
           Done == Settled
           Away == pc # "idle"
           CanTask == ENABLED <<Task>>_vars
           H(n) == Closed(n)
<1>1. \A n \in 0 .. 8 : H(n + 1) /\ [Next]_vars => (~Task /\ H(n + 1)') \/ H(n)' \/ Done'
  BY ClosedStep
<1>2. /\ H(9) /\ [Next]_vars => (~Task /\ H(9)') \/ H(8)' \/ Done'
      /\ H(8) /\ [Next]_vars => (~Task /\ H(8)') \/ H(7)' \/ Done'
      /\ H(7) /\ [Next]_vars => (~Task /\ H(7)') \/ H(6)' \/ Done'
      /\ H(6) /\ [Next]_vars => (~Task /\ H(6)') \/ H(5)' \/ Done'
      /\ H(5) /\ [Next]_vars => (~Task /\ H(5)') \/ H(4)' \/ Done'
      /\ H(4) /\ [Next]_vars => (~Task /\ H(4)') \/ H(3)' \/ Done'
      /\ H(3) /\ [Next]_vars => (~Task /\ H(3)') \/ H(2)' \/ Done'
      /\ H(2) /\ [Next]_vars => (~Task /\ H(2)') \/ H(1)' \/ Done'
      /\ H(1) /\ [Next]_vars => (~Task /\ H(1)') \/ H(0)' \/ Done'
  BY <1>1
<1>3. \A n \in 0 .. 9 : H(n) => LoopInv /\ Away
  BY DEF Closed, LoopInv, IInv, OwnerInv
<1>4. /\ H(9) \/ H(8) \/ H(7) \/ H(6) \/ H(5) => LoopInv /\ Away
      /\ H(4) \/ H(3) \/ H(2) \/ H(1) \/ H(0) => LoopInv /\ Away
  BY <1>3
<1>5. LoopInv /\ [Next]_vars =>
        (~Task /\ ~TaskWaits => ~TaskWaits') /\ (TaskWaits => ~Task)
  BY WaitSteps
<1>6. OnlyBitsAwaited => (~TaskWaits => CanTask)
  BY DEF OnlyBitsAwaited
<1>7. Fair => ((TaskWaits /\ Away) ~> ~TaskWaits)
  BY WaitsEnd
<1>8. ~H(0)
  BY DEF Closed, ToGo, LoopInv, IInv, TypeOK, OwnerInv
<1> HIDE DEF Done, Away, H
<1>9. Fair => (H(9) ~> (H(8) \/ Done)) /\ (H(8) ~> (H(7) \/ Done))
  BY <1>2, <1>4, <1>5, <1>6, <1>7, PTL DEF FairSpec, Spec
<1>10. Fair => (H(7) ~> (H(6) \/ Done)) /\ (H(6) ~> (H(5) \/ Done))
  BY <1>2, <1>4, <1>5, <1>6, <1>7, PTL DEF FairSpec, Spec
<1>11. Fair => (H(5) ~> (H(4) \/ Done)) /\ (H(4) ~> (H(3) \/ Done))
  BY <1>2, <1>4, <1>5, <1>6, <1>7, PTL DEF FairSpec, Spec
<1>12. Fair => (H(3) ~> (H(2) \/ Done)) /\ (H(2) ~> (H(1) \/ Done))
  BY <1>2, <1>4, <1>5, <1>6, <1>7, PTL DEF FairSpec, Spec
<1>13. Fair => (H(1) ~> Done)
  BY <1>2, <1>4, <1>5, <1>6, <1>7, <1>8, PTL DEF FairSpec, Spec
<1> HIDE DEF Fair
<1>14. Fair => (H(9) ~> Done)
  BY <1>9, <1>10, <1>11, <1>12, <1>13, PTL
<1> QED
  BY <1>14 DEF Fair, Done, H

\* A subscription not yet picked up: its bit is to be set, set, or taken.
Unset   == LoopInv /\ pending # None /\ pc = "idle" /\ "START" \notin bits
Latched == LoopInv /\ pending # None /\ pc = "idle" /\ "START" \in bits
Taken   == LoopInv /\ pending # None /\ pc = "claim"

\* The callback sets the bit, the task takes it, and then the stream; until then
\* only an unsubscription makes it forget.
LEMMA LatchSteps ==
    ASSUME [Next]_vars
    PROVE  /\ Unset => raise # None /\ ((~(Stop \/ SetBit) /\ Unset') \/ Latched')
           /\ Latched => (~Task /\ Latched') \/ Taken' \/ Settled'
           /\ Taken => (~Task /\ Taken') \/ Closed(9)' \/ Settled'
<1> USE ConstantsAssumption
<1>1. LoopInv => LoopInv'
  BY LoopStep
<1>2. ASSUME Task, LoopInv, pending # None
      PROVE  /\ pc = "idle" => "START" \in bits /\ pc' = "claim" /\ pending' = pending
             /\ pc = "claim" => active' # None /\ open' = open /\ open = None
  BY <1>2 DEF LoopInv, IInv, OpenInv, targetVars, Task, AwaitStart, Claim, MicStart, Begin,
     AwaitBegin, CheckStop, AwaitAudio, ReadNothing, Read, AwaitFrame, Retrieve,
     RetrieveFails, Captured, ClearDone, Push, Drain, End, AwaitEnd, Finish
<1>3. ASSUME Task
      PROVE  ~Unset /\ (Latched => Taken') /\ (Taken => Closed(9)')
  <2>1. ~Unset /\ (Latched => Taken')
    BY <1>1, <1>2, <1>3 DEF Unset, Latched, Taken
  <2>2. ToGo' <= 9
    BY DEF ToGo
  <2>3. Taken => Closed(9)'
    BY <1>1, <1>2, <1>3, <2>2 DEF Taken, Closed
  <2> QED BY <2>1, <2>3
<1>4. ASSUME ~Task, LoopInv, pending # None
      PROVE  /\ pc' = pc /\ ("START" \in bits => "START" \in bits')
             /\ Settled' \/ pending' # None
  <2>1. active' = active /\ active = None /\ pc' = pc /\ bits \ {"STOP"} \subseteq bits'
    BY <1>4, OthersKeep DEF LoopInv, IInv, OwnerInv
  <2> QED BY <2>1 DEF Settled
<1>5. ASSUME Unset, ~Task
      PROVE  raise = "START" /\ ((~(Stop \/ SetBit) /\ Unset') \/ Latched')
  <2>1. raise = "START"
    BY <1>5 DEF Unset, LoopInv, OwedInv
  <2>2. pc' = pc /\ LoopInv'
    BY <1>5, OthersKeep DEF Unset
  <2>3. pending' = pending
    <3>1. ~Calls /\ ~Stop
      BY <2>1 DEF Calls, Start, CallStop, Returned, Stop
    <3> QED
      BY <1>5, <3>1 DEF Next, SetBit, StreamControlExec, FrameDoneCb, targetVars, vars
  <2>4. (SetBit => "START" \in bits') /\ ~Stop
    BY <2>1 DEF SetBit, Stop
  <2> QED BY <1>5, <2>1, <2>2, <2>3, <2>4 DEF Unset, Latched
<1>6. ASSUME Latched \/ Taken, ~Task
      PROVE  /\ Latched => Latched' \/ Settled'
             /\ Taken => Taken' \/ Settled'
  BY <1>1, <1>4, <1>6 DEF Latched, Taken
<1> QED
  BY <1>3, <1>5, <1>6

\* Every subscription that is granted settles: no bit that is lost leaves the single
\* stream reserved for ever, whoever stops, fails or refuses meanwhile
\* (cam_loop.h:15-16).
THEOREM SubscriptionsSettle == FairSpec /\ []OnlyBitsAwaited => SubscriptionSettles
<1> DEFINE Fair == FairSpec /\ []OnlyBitsAwaited
           U == Unset
           L == Latched
           T == Taken
           C == Closed(9)
           S == Settled
           Open == (pending # None \/ active # None) /\ open = None
           Raised == raise # None
           CanSet == ENABLED <<Stop \/ SetBit>>_vars
           CanTask == ENABLED <<Task>>_vars
<1>1. [Next]_vars =>
        /\ U => Raised /\ ((~(Stop \/ SetBit) /\ U') \/ L')
        /\ L => (~Task /\ L') \/ T' \/ S'
        /\ T => (~Task /\ T') \/ C' \/ S'
  BY LatchSteps
<1>2. L \/ T => ~TaskWaits
  BY DEF Latched, Taken, TaskWaits
<1>3. OnlyBitsAwaited => (~TaskWaits => CanTask) /\ (Raised => CanSet)
  BY DEF OnlyBitsAwaited
<1>4. LoopInv /\ Open => U \/ L \/ T \/ C
  <2>1. ToGo <= 9
    BY DEF ToGo
  <2> QED BY <2>1 DEF LoopInv, IInv, OwnerInv, Unset, Latched, Taken, Closed
<1>5. Fair => (C ~> S)
  BY ClosedSettles
<1> HIDE DEF U, L, T, C, S, Open, Raised
<1>6. Fair => (U ~> L) /\ (L ~> (T \/ S)) /\ (T ~> (C \/ S))
  BY <1>1, <1>2, <1>3, PTL DEF FairSpec, Spec
<1>7. Fair => (Open ~> S)
  BY <1>4, <1>5, <1>6, LoopAlways, PTL DEF FairSpec
<1> QED
  BY <1>7 DEF SubscriptionSettles, Settled, Open, S

-----------------------------------------------------------------------------
(* The same without fairness: what a wait is for, and how far a stop is from its   *)
(* stream's end.                                                           *)

\* Every bit the task waits for is owed by somebody, except that of the next start.
WaitIsOwed ==
    /\ TaskWaits /\ pc \in {"beginning", "ending"} => op # None
    /\ TaskWaits /\ pc \in {"awaitaudio", "awaitframe", "drain"} => sending > 0
    /\ TaskWaits /\ pc = "idle" /\ pending # None => raise = "START"

\* The task is never left waiting: not for a buffer the SDK does not have, not for an
\* answer it was not asked for, and not with a subscription latched whose bit was
\* taken (cam_loop.c:66, 78, 126, 158-159, 190, 195).
THEOREM WaitsAreOwed == Spec => []WaitIsOwed
<1>1. LoopInv => WaitIsOwed
  BY DEF LoopInv, IInv, BufferInv, OwedInv, TaskWaits, WaitIsOwed
<1> QED
  BY <1>1, LoopAlways, PTL

\* Every step of the task brings a stopped stream nearer to its end, and nobody
\* takes it back.
NearerToEnd ==
    active # None /\ stopping /\ StopSeen =>
        \/ ~Task /\ active' = active /\ stopping' /\ StopSeen' /\ ToGo' = ToGo
        \/ ToGo' < ToGo /\ (active' = None \/ (stopping' /\ StopSeen'))

\* From anywhere in a stream, a stop that is set ends it in nine steps of the task at
\* most, whether its device was opened yet or not, and nothing that comes between
\* gives it one more (cam_loop.c:102-206).
THEOREM NineStepsToEnd == Spec => [][NearerToEnd]_vars
<1>1. ASSUME LoopInv, [Next]_vars PROVE NearerToEnd
  <2>1. CASE Task
    BY <1>1, <2>1, LeavingTask DEF NearerToEnd
  <2>2. CASE ~Task
    BY <1>1, <2>2, OthersKeep DEF NearerToEnd, StopSeen, ToGo
  <2> QED BY <2>1, <2>2
<1> QED
  BY <1>1, LoopAlways, PTL DEF Spec
=============================================================================
