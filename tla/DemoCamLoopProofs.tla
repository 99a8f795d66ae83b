------------------------- MODULE DemoCamLoopProofs -------------------------
(***************************************************************************)
(* Safety of the demo's stream loop, for any number of clients and calls.  *)
(* A frame is lent to the SDK and taken back through FRAME_DONE, a stream  *)
(* closed through STREAM_ENDED; the invariant says, for every place of     *)
(* cam_loop_task, how far each of the two exchanges is.                    *)
(***************************************************************************)
EXTENDS DemoCamLoop, TLAPS

\* The frame in pending_jpeg is with the SDK, or the SDK has said it is done; when
\* the slot is taken again its bit has been cleared first.
FrameInv ==
    /\ held => pc \in {"check", "capture", "wait", "push", "drain"}
    /\ ~ held => sending = 0
    /\ pc = "push" => held /\ sending = 0 /\ "FRAME_DONE" \notin bits
    /\ held /\ pc # "push" =>
           \/ sending = 1 /\ "FRAME_DONE" \notin bits
           \/ sending = 0 /\ "FRAME_DONE" \in bits

\* The SDK has the active client's stream or none; it closes it while the task
\* waits for STREAM_ENDED, whose bit was clear when the end was asked for.
EndInv ==
    /\ open \in {None, active}
    /\ ending => pc = "ended" /\ "STREAM_ENDED" \notin bits
    /\ pc = "end" => "STREAM_ENDED" \notin bits
    /\ pc = "ended" /\ ~ ending => open = None /\ "STREAM_ENDED" \in bits
    /\ pc \in {"idle", "claim", "clearstop", "begin", "finish"} => open = None

\* The task has a stream or looks for one; a latched stream has its bit set, about
\* to be set, or just taken.
LatchInv ==
    /\ active = None <=> pc \in {"idle", "claim"}
    /\ pending # None => "START" \in bits \/ raise = "START" \/ pc = "claim"

DemoInv == TypeOK /\ FrameInv /\ EndInv /\ LatchInv

-----------------------------------------------------------------------------
(* Every step keeps the four parts. *)

LEMMA TypeStep ==
    ASSUME TypeOK, FrameInv, Next
    PROVE  TypeOK'
<1> USE DemoAssumption DEF TypeOK, FrameInv, InStream, Bits, streamVars, frameVars, sdkVars, linkVars
<1>1. CASE AwaitStart
  BY <1>1 DEF AwaitStart
<1>2. CASE Claim
  BY <1>2 DEF Claim
<1>3. CASE ClearStop
  BY <1>3 DEF ClearStop
<1>4. CASE Begin
  BY <1>4 DEF Begin
<1>5. CASE CheckStop
  BY <1>5 DEF CheckStop
<1>6. CASE Retrieve
  BY <1>6 DEF Retrieve
<1>7. CASE RetrieveFails
  BY <1>7 DEF RetrieveFails
<1>8. CASE AwaitFrame
  BY <1>8 DEF AwaitFrame
<1>9. CASE ClearDone
  BY <1>9 DEF ClearDone
<1>10. CASE Push
  BY <1>10 DEF Push
<1>11. CASE Drain
  BY <1>11 DEF Drain
<1>12. CASE ClearEnded
  BY <1>12 DEF ClearEnded
<1>13. CASE End
  BY <1>13 DEF End
<1>14. CASE AwaitEnd
  BY <1>14 DEF AwaitEnd
<1>15. CASE Finish
  BY <1>15 DEF Finish
<1>16. ASSUME NEW c \in Clients, Start(c) PROVE TypeOK'
  BY <1>16 DEF Start
<1>17. ASSUME NEW c \in Clients, Stop(c) PROVE TypeOK'
  <2>1. UNCHANGED <<pc, bits, active, frameVars, linkVars>>
    BY <1>17 DEF Stop
  <2>2. pending' \in Clients \cup {None} /\ calls' \in 0 .. MaxCalls
    BY <1>17 DEF Stop
  <2>3. raise' \in {None, "START", "STOP"}
    BY <1>17 DEF Stop
  <2>4. asked' \in BOOLEAN
    BY <1>17 DEF Stop
  <2> QED BY <2>1, <2>2, <2>3, <2>4
<1>18. CASE SetBit
  BY <1>18 DEF SetBit
<1>19. CASE StreamPushCb
  BY <1>19 DEF StreamPushCb
<1>20. CASE StreamEndCb
  BY <1>20 DEF StreamEndCb
<1> QED
  BY <1>1, <1>2, <1>3, <1>4, <1>5, <1>6, <1>7, <1>8, <1>9, <1>10, <1>11, <1>12, <1>13,
     <1>14, <1>15, <1>16, <1>17, <1>18, <1>19, <1>20
     DEF Next, Task, Callbacks

LEMMA FrameStep ==
    ASSUME TypeOK, FrameInv, Next
    PROVE  FrameInv'
<1> USE DemoAssumption DEF TypeOK, FrameInv, InStream, streamVars, frameVars, sdkVars, linkVars
<1>1. CASE AwaitStart
  BY <1>1 DEF AwaitStart
<1>2. CASE Claim
  BY <1>2 DEF Claim
<1>3. CASE ClearStop
  BY <1>3 DEF ClearStop
<1>4. CASE Begin
  BY <1>4 DEF Begin
<1>5. CASE CheckStop
  BY <1>5 DEF CheckStop
<1>6. CASE Retrieve
  BY <1>6 DEF Retrieve
<1>7. CASE RetrieveFails
  BY <1>7 DEF RetrieveFails
<1>8. CASE AwaitFrame
  BY <1>8 DEF AwaitFrame
<1>9. CASE ClearDone
  BY <1>9 DEF ClearDone
<1>10. CASE Push
  <2>1. sending = 0 /\ sending' = 1 /\ pc' = "check" /\ UNCHANGED <<bits, held>>
    BY <1>10 DEF Push
  <2>2. held' /\ "FRAME_DONE" \notin bits'
    BY <1>10, <2>1 DEF Push
  <2> QED BY <2>1, <2>2
<1>11. CASE Drain
  BY <1>11 DEF Drain
<1>12. CASE ClearEnded
  BY <1>12 DEF ClearEnded
<1>13. CASE End
  BY <1>13 DEF End
<1>14. CASE AwaitEnd
  BY <1>14 DEF AwaitEnd
<1>15. CASE Finish
  BY <1>15 DEF Finish
<1>16. ASSUME NEW c \in Clients, Start(c) PROVE FrameInv'
  BY <1>16 DEF Start
<1>17. ASSUME NEW c \in Clients, Stop(c) PROVE FrameInv'
  BY <1>17 DEF Stop
<1>18. CASE SetBit
  BY <1>18 DEF SetBit
<1>19. CASE StreamPushCb
  BY <1>19 DEF StreamPushCb
<1>20. CASE StreamEndCb
  BY <1>20 DEF StreamEndCb
<1> QED
  BY <1>1, <1>2, <1>3, <1>4, <1>5, <1>6, <1>7, <1>8, <1>9, <1>10, <1>11, <1>12, <1>13,
     <1>14, <1>15, <1>16, <1>17, <1>18, <1>19, <1>20
     DEF Next, Task, Callbacks

LEMMA EndStep ==
    ASSUME TypeOK, EndInv, Next
    PROVE  EndInv'
<1> USE DemoAssumption DEF TypeOK, EndInv, InStream, streamVars, frameVars, sdkVars, linkVars
<1>1. CASE AwaitStart
  BY <1>1 DEF AwaitStart
<1>2. CASE Claim
  BY <1>2 DEF Claim
<1>3. CASE ClearStop
  BY <1>3 DEF ClearStop
<1>4. CASE Begin
  BY <1>4 DEF Begin
<1>5. CASE CheckStop
  BY <1>5 DEF CheckStop
<1>6. CASE Retrieve
  BY <1>6 DEF Retrieve
<1>7. CASE RetrieveFails
  BY <1>7 DEF RetrieveFails
<1>8. CASE AwaitFrame
  BY <1>8 DEF AwaitFrame
<1>9. CASE ClearDone
  BY <1>9 DEF ClearDone
<1>10. CASE Push
  BY <1>10 DEF Push
<1>11. CASE Drain
  BY <1>11 DEF Drain
<1>12. CASE ClearEnded
  BY <1>12 DEF ClearEnded
<1>13. CASE End
  BY <1>13 DEF End
<1>14. CASE AwaitEnd
  BY <1>14 DEF AwaitEnd
<1>15. CASE Finish
  BY <1>15 DEF Finish
<1>16. ASSUME NEW c \in Clients, Start(c) PROVE EndInv'
  BY <1>16 DEF Start
<1>17. ASSUME NEW c \in Clients, Stop(c) PROVE EndInv'
  BY <1>17 DEF Stop
<1>18. CASE SetBit
  BY <1>18 DEF SetBit
<1>19. CASE StreamPushCb
  BY <1>19 DEF StreamPushCb
<1>20. CASE StreamEndCb
  BY <1>20 DEF StreamEndCb
<1> QED
  BY <1>1, <1>2, <1>3, <1>4, <1>5, <1>6, <1>7, <1>8, <1>9, <1>10, <1>11, <1>12, <1>13,
     <1>14, <1>15, <1>16, <1>17, <1>18, <1>19, <1>20
     DEF Next, Task, Callbacks

LEMMA LatchStep ==
    ASSUME TypeOK, LatchInv, Next
    PROVE  LatchInv'
<1> USE DemoAssumption DEF TypeOK, LatchInv, InStream, streamVars, frameVars, sdkVars, linkVars
<1>1. CASE AwaitStart
  BY <1>1 DEF AwaitStart
<1>2. CASE Claim
  BY <1>2 DEF Claim
<1>3. CASE ClearStop
  BY <1>3 DEF ClearStop
<1>4. CASE Begin
  BY <1>4 DEF Begin
<1>5. CASE CheckStop
  BY <1>5 DEF CheckStop
<1>6. CASE Retrieve
  BY <1>6 DEF Retrieve
<1>7. CASE RetrieveFails
  BY <1>7 DEF RetrieveFails
<1>8. CASE AwaitFrame
  BY <1>8 DEF AwaitFrame
<1>9. CASE ClearDone
  BY <1>9 DEF ClearDone
<1>10. CASE Push
  BY <1>10 DEF Push
<1>11. CASE Drain
  BY <1>11 DEF Drain
<1>12. CASE ClearEnded
  BY <1>12 DEF ClearEnded
<1>13. CASE End
  BY <1>13 DEF End
<1>14. CASE AwaitEnd
  BY <1>14 DEF AwaitEnd
<1>15. CASE Finish
  BY <1>15 DEF Finish
<1>16. ASSUME NEW c \in Clients, Start(c) PROVE LatchInv'
  BY <1>16 DEF Start
<1>17. ASSUME NEW c \in Clients, Stop(c) PROVE LatchInv'
  BY <1>17 DEF Stop
<1>18. CASE SetBit
  BY <1>18 DEF SetBit
<1>19. CASE StreamPushCb
  BY <1>19 DEF StreamPushCb
<1>20. CASE StreamEndCb
  BY <1>20 DEF StreamEndCb
<1> QED
  BY <1>1, <1>2, <1>3, <1>4, <1>5, <1>6, <1>7, <1>8, <1>9, <1>10, <1>11, <1>12, <1>13,
     <1>14, <1>15, <1>16, <1>17, <1>18, <1>19, <1>20
     DEF Next, Task, Callbacks

LEMMA DemoStep == DemoInv /\ [Next]_vars => DemoInv'
<1>1. ASSUME DemoInv, Next PROVE DemoInv'
  BY <1>1, TypeStep, FrameStep, EndStep, LatchStep DEF DemoInv
<1>2. ASSUME DemoInv, UNCHANGED vars PROVE DemoInv'
  <2>1. TypeOK'
    BY <1>2 DEF DemoInv, TypeOK, vars
  <2>2. FrameInv' /\ EndInv' /\ LatchInv'
    BY <1>2 DEF DemoInv, FrameInv, EndInv, LatchInv, vars
  <2> QED BY <2>1, <2>2 DEF DemoInv
<1> QED
  BY <1>1, <1>2

LEMMA DemoInit == Init => DemoInv
<1>1. Init => TypeOK
  <2> SUFFICES ASSUME Init PROVE TypeOK
    OBVIOUS
  <2>1. /\ pc \in InStream \cup {"idle", "claim", "clearstop", "drain", "clearended",
                                 "end", "ended", "finish"}
        /\ bits \subseteq Bits
        /\ pending \in Clients \cup {None} /\ active \in Clients \cup {None}
        /\ open \in Clients \cup {None} /\ raise \in {None, "START", "STOP"}
    BY DEF Init
  <2>2. held \in BOOLEAN /\ got \in BOOLEAN /\ ending \in BOOLEAN /\ asked \in BOOLEAN
    BY DEF Init
  <2>3. sending \in 0 .. 1 /\ calls \in 0 .. MaxCalls
    BY DemoAssumption DEF Init
  <2> QED BY <2>1, <2>2, <2>3 DEF TypeOK
<1>2. Init => FrameInv /\ EndInv /\ LatchInv
  BY DEF Init, FrameInv, EndInv, LatchInv
<1> QED
  BY <1>1, <1>2 DEF DemoInv

-----------------------------------------------------------------------------
(* The theorems. *)

\* Type correctness: the SDK is never given a second frame before it has reported
\* the first (cam_loop.c:91-92).
THEOREM DemoTypes == Spec => []TypeOK
<1>1. DemoInv => TypeOK
  BY DEF DemoInv
<1> QED
  BY <1>1, DemoInit, DemoStep, PTL DEF Spec

\* A frame the SDK is still sending has not been handed back to the capture
\* (cam_loop.c:115-116).
THEOREM FrameSafe == Spec => []FrameHeldUntilSent
<1>1. DemoInv => FrameHeldUntilSent
  BY DEF DemoInv, TypeOK, FrameInv, FrameHeldUntilSent
<1> QED
  BY <1>1, DemoInit, DemoStep, PTL DEF Spec

\* Every begin finds the stream before it closed, however late the SDK's end came
\* (cam_loop.c:121-122).
THEOREM BeginsSafe == Spec => []BeginNeverDropped
<1>1. DemoInv => BeginNeverDropped
  BY DEF DemoInv, EndInv, BeginNeverDropped
<1> QED
  BY <1>1, DemoInit, DemoStep, PTL DEF Spec

\* The stream that is open is the one the task works on: the frames it pushes reach
\* no other client (cam_loop.c:70-75, 121-128).
THEOREM OpenIsActive == Spec => [](open # None => open = active)
<1>1. DemoInv => (open # None => open = active)
  BY DEF DemoInv, EndInv
<1> QED
  BY <1>1, DemoInit, DemoStep, PTL DEF Spec

-----------------------------------------------------------------------------
(* Streams end, and latched streams start. *)

\* Whoever else steps, the task stays where it is and loses no bit.
LEMMA OthersKeep ==
    ASSUME DemoInv, [Next]_vars, ~Task
    PROVE  /\ DemoInv' /\ pc' = pc /\ held' = held /\ active' = active
           /\ bits \subseteq bits'
<1> USE DEF streamVars, frameVars, sdkVars, linkVars
<1>1. DemoInv'
  BY DemoStep
<1>2. CASE Callbacks
  BY <1>1, <1>2 DEF Callbacks, Start, Stop
<1>3. CASE SetBit
  BY <1>1, <1>3 DEF SetBit
<1>4. CASE StreamPushCb
  BY <1>1, <1>4 DEF StreamPushCb
<1>5. CASE StreamEndCb
  BY <1>1, <1>5 DEF StreamEndCb
<1>6. CASE UNCHANGED vars
  BY <1>1, <1>6 DEF vars
<1> QED
  BY <1>2, <1>3, <1>4, <1>5, <1>6 DEF Next

\* The task with a stop at one of the places P of a stream.
StopAt(P) == DemoInv /\ pc \in P /\ "STOP" \in bits

\* The task at the place p of the end of a stream.
At(p) == DemoInv /\ pc = p

\* With a stop set, each step of the task is nearer to the end of the stream; the
\* steps of others leave the stop set.
LEMMA StopSteps ==
    ASSUME [Next]_vars
    PROVE  /\ StopAt({"cleardone"}) =>
                  \/ ~Task /\ StopAt({"cleardone"})'
                  \/ StopAt({"begin", "capture", "push"})'
           /\ StopAt({"begin", "capture", "push"}) =>
                  \/ ~Task /\ StopAt({"begin", "capture", "push"})'
                  \/ StopAt({"check", "wait"})'
           /\ StopAt({"check", "wait"}) =>
                  \/ ~Task /\ StopAt({"check", "wait"})'
                  \/ At("drain")'
<1>1. ASSUME ~Task, NEW P, StopAt(P) PROVE StopAt(P)'
  BY <1>1, OthersKeep DEF StopAt
<1>2. DemoInv => DemoInv'
  BY DemoStep
<1>3. ASSUME Task, StopAt({"cleardone"})
      PROVE  StopAt({"begin", "capture", "push"})'
  BY <1>2, <1>3 DEF StopAt, Task, AwaitStart, Claim, ClearStop, Begin, CheckStop, Retrieve,
     RetrieveFails, AwaitFrame, ClearDone, Push, Drain, ClearEnded, End, AwaitEnd, Finish
<1>4. ASSUME Task, StopAt({"begin", "capture", "push"})
      PROVE  StopAt({"check", "wait"})'
  BY <1>2, <1>4 DEF StopAt, Task, AwaitStart, Claim, ClearStop, Begin, CheckStop, Retrieve,
     RetrieveFails, AwaitFrame, ClearDone, Push, Drain, ClearEnded, End, AwaitEnd, Finish
<1>5. ASSUME Task, StopAt({"check", "wait"})
      PROVE  At("drain")'
  BY <1>2, <1>5 DEF StopAt, At, Task, AwaitStart, Claim, ClearStop, Begin, CheckStop, Retrieve,
     RetrieveFails, AwaitFrame, ClearDone, Push, Drain, ClearEnded, End, AwaitEnd, Finish
<1> QED
  BY <1>1, <1>3, <1>4, <1>5

\* From the drain on the task goes one way: it waits for the frame that is with the
\* SDK, and for the end it has asked of it.
LEMMA EndingSteps ==
    ASSUME [Next]_vars
    PROVE  /\ At("drain") => (~Task /\ At("drain")') \/ At("clearended")'
           /\ At("clearended") => (~Task /\ At("clearended")') \/ At("end")'
           /\ At("end") => (~Task /\ At("end")') \/ At("ended")'
           /\ At("ended") => (~Task /\ At("ended")') \/ At("finish")'
           /\ At("finish") => (~Task /\ At("finish")') \/ At("idle")'
<1>1. ASSUME ~Task, NEW p, At(p) PROVE At(p)'
  BY <1>1, OthersKeep DEF At
<1>2. DemoInv => DemoInv'
  BY DemoStep
<1>3. ASSUME Task, At("drain") PROVE At("clearended")'
  BY <1>2, <1>3 DEF At, Task, AwaitStart, Claim, ClearStop, Begin, CheckStop, Retrieve,
     RetrieveFails, AwaitFrame, ClearDone, Push, Drain, ClearEnded, End, AwaitEnd, Finish
<1>4. ASSUME Task, At("clearended") PROVE At("end")'
  BY <1>2, <1>4 DEF At, Task, AwaitStart, Claim, ClearStop, Begin, CheckStop, Retrieve,
     RetrieveFails, AwaitFrame, ClearDone, Push, Drain, ClearEnded, End, AwaitEnd, Finish
<1>5. ASSUME Task, At("end") PROVE At("ended")'
  BY <1>2, <1>5 DEF At, Task, AwaitStart, Claim, ClearStop, Begin, CheckStop, Retrieve,
     RetrieveFails, AwaitFrame, ClearDone, Push, Drain, ClearEnded, End, AwaitEnd, Finish
<1>6. ASSUME Task, At("ended") PROVE At("finish")'
  BY <1>2, <1>6 DEF At, Task, AwaitStart, Claim, ClearStop, Begin, CheckStop, Retrieve,
     RetrieveFails, AwaitFrame, ClearDone, Push, Drain, ClearEnded, End, AwaitEnd, Finish
<1>7. ASSUME Task, At("finish") PROVE At("idle")'
  BY <1>2, <1>7 DEF At, Task, AwaitStart, Claim, ClearStop, Begin, CheckStop, Retrieve,
     RetrieveFails, AwaitFrame, ClearDone, Push, Drain, ClearEnded, End, AwaitEnd, Finish
<1> QED
  BY <1>1, <1>3, <1>4, <1>5, <1>6, <1>7

\* Out of a wait, only the task goes back into one; in one of the two waits of an
\* end, the SDK owes the bit that is waited for.
LEMMA WaitSteps ==
    ASSUME [Next]_vars, DemoInv
    PROVE  /\ ~Task /\ ~TaskWaits => ~TaskWaits'
           /\ pc = "drain" /\ TaskWaits =>
                  sending > 0 /\ (StreamPushCb => ~TaskWaits')
           /\ pc = "ended" /\ TaskWaits =>
                  ending /\ (StreamEndCb => ~TaskWaits')
<1>1. ASSUME ~Task, ~TaskWaits PROVE ~TaskWaits'
  BY <1>1, OthersKeep DEF TaskWaits
<1>2. ASSUME pc = "drain", TaskWaits
      PROVE  sending > 0 /\ (StreamPushCb => ~TaskWaits')
  BY <1>2 DEF TaskWaits, DemoInv, FrameInv, TypeOK, StreamPushCb
<1>3. ASSUME pc = "ended", TaskWaits
      PROVE  ending /\ (StreamEndCb => ~TaskWaits')
  BY <1>3 DEF TaskWaits, DemoInv, EndInv, TypeOK, StreamEndCb
<1> QED
  BY <1>1, <1>2, <1>3

LEMMA SafeAlways == Spec => []DemoInv
  BY DemoInit, DemoStep, PTL DEF Spec

\* Once it drains, the task comes back to where it waits for a start.
LEMMA DrainEnds ==
    FairSpec /\ []OnlyBitsAwaited => (At("drain") ~> At("idle"))
<1> DEFINE D == At("drain")
           C == At("clearended")
           E == At("end")
           W == At("ended")
           F == At("finish")
           I == At("idle")
           Owed == sending > 0
           CanTask == ENABLED <<Task>>_vars
           CanPush == ENABLED <<StreamPushCb>>_vars
           CanEnd == ENABLED <<StreamEndCb>>_vars
<1>1. [Next]_vars =>
        /\ D => (~Task /\ D') \/ C'
        /\ C => (~Task /\ C') \/ E'
        /\ E => (~Task /\ E') \/ W'
        /\ W => (~Task /\ W') \/ F'
        /\ F => (~Task /\ F') \/ I'
  BY EndingSteps
<1>2. DemoInv /\ [Next]_vars /\ ~Task /\ ~TaskWaits => ~TaskWaits'
  BY WaitSteps
<1>3. D /\ TaskWaits /\ [Next]_vars => Owed /\ (StreamPushCb => ~TaskWaits')
  BY WaitSteps DEF At
<1>4. W /\ TaskWaits /\ [Next]_vars => ending /\ (StreamEndCb => ~TaskWaits')
  BY WaitSteps DEF At
<1>5. C \/ E \/ F => ~TaskWaits
  BY DEF At, TaskWaits
<1>6. OnlyBitsAwaited => (~TaskWaits => CanTask) /\ (Owed => CanPush) /\ (ending => CanEnd)
  BY DEF OnlyBitsAwaited
<1>7. D \/ W => DemoInv
  BY DEF At
<1> HIDE DEF D, C, E, W, F, I, Owed
<1>8. FairSpec /\ []OnlyBitsAwaited => (D ~> C)
  BY <1>1, <1>2, <1>3, <1>6, <1>7, PTL DEF FairSpec, Spec
<1>9. FairSpec /\ []OnlyBitsAwaited => (C ~> E) /\ (E ~> W)
  BY <1>1, <1>5, <1>6, PTL DEF FairSpec, Spec
<1>10. FairSpec /\ []OnlyBitsAwaited => (W ~> F)
  BY <1>1, <1>2, <1>4, <1>6, <1>7, PTL DEF FairSpec, Spec
<1>11. FairSpec /\ []OnlyBitsAwaited => (F ~> I)
  BY <1>1, <1>5, <1>6, PTL DEF FairSpec, Spec
<1> QED
  BY <1>8, <1>9, <1>10, <1>11, PTL DEF D, I

\* A stop that is set in a stream ends it, wherever the task is when it is set and
\* whatever it waits for (cam_loop.c:68-129).
THEOREM StopEnds == FairSpec /\ []OnlyBitsAwaited => StopRaisedEndsStream
<1> DEFINE Three == StopAt({"cleardone"})
           Two == StopAt({"begin", "capture", "push"})
           One == StopAt({"check", "wait"})
           D == At("drain")
           I == At("idle")
           CanTask == ENABLED <<Task>>_vars
           Stopping == pc \in InStream /\ "STOP" \in bits
           Idle == pc = "idle"
<1>1. [Next]_vars =>
        /\ Three => (~Task /\ Three') \/ Two'
        /\ Two => (~Task /\ Two') \/ One'
        /\ One => (~Task /\ One') \/ D'
  BY StopSteps
<1>2. Three \/ Two \/ One => ~TaskWaits
  BY DEF StopAt, TaskWaits
<1>3. OnlyBitsAwaited => (~TaskWaits => CanTask)
  BY DEF OnlyBitsAwaited
<1>4. DemoInv /\ Stopping => Three \/ Two \/ One
  BY DEF InStream, StopAt
<1>5. I => Idle
  BY DEF At
<1>6. FairSpec /\ []OnlyBitsAwaited => (D ~> I)
  BY DrainEnds
<1> HIDE DEF Three, Two, One, D, I, Stopping, Idle
<1>7. FairSpec /\ []OnlyBitsAwaited => (Three ~> Two) /\ (Two ~> One) /\ (One ~> D)
  BY <1>1, <1>2, <1>3, PTL DEF FairSpec, Spec
<1>8. FairSpec /\ []OnlyBitsAwaited => (Stopping ~> Idle)
  BY <1>4, <1>5, <1>6, <1>7, SafeAlways, PTL DEF FairSpec
<1> QED
  BY <1>8 DEF StopRaisedEndsStream, Stopping, Idle

\* A latched stream with none running: its bit is about to be set, set, or taken.
Unset   == DemoInv /\ pending # None /\ pc = "idle" /\ "START" \notin bits
Latched == DemoInv /\ pending # None /\ pc = "idle" /\ "START" \in bits
Taken   == DemoInv /\ pending # None /\ pc = "claim"
Served  == pending = None \/ active # None

\* The callback sets the bit, the task takes it, and then the stream; until then
\* only a stop makes it forget.
LEMMA LatchSteps ==
    ASSUME [Next]_vars
    PROVE  /\ Unset => raise # None /\ ((~SetBit /\ Unset') \/ Latched')
           /\ Latched => \/ ~Task /\ Latched'
                        \/ Taken' \/ Served'
           /\ Taken => (~Task /\ Taken') \/ Served'
<1> USE DemoAssumption
<1>1. DemoInv => DemoInv'
  BY DemoStep
<1>2. ASSUME Task
      PROVE  /\ ~Unset
             /\ Latched => Taken'
             /\ Taken => Served'
  BY <1>1, <1>2 DEF streamVars, Unset, Latched, Taken, Served, Task, AwaitStart, Claim,
     ClearStop, Begin, CheckStop, Retrieve, RetrieveFails, AwaitFrame, ClearDone, Push,
     Drain, ClearEnded, End, AwaitEnd, Finish
<1>3. ASSUME ~Task, DemoInv, pending # None
      PROVE  Served' \/ (pending' # None /\ pc' = pc /\ bits \subseteq bits')
  BY <1>3, OthersKeep DEF Served
<1>4. ASSUME Unset, ~Task PROVE raise = "START" /\ ((~SetBit /\ Unset') \/ Latched')
  <2>1. raise = "START"
    BY <1>4 DEF Unset, DemoInv, LatchInv
  <2>2. pc' = pc /\ DemoInv'
    BY <1>4, OthersKeep DEF Unset
  <2>3. pending' = pending
    <3>1. ~Callbacks
      BY <2>1 DEF Callbacks, Start, Stop
    <3> QED BY <1>4, <3>1 DEF Next, SetBit, StreamPushCb, StreamEndCb, streamVars, vars
  <2>4. SetBit => "START" \in bits'
    BY <2>1 DEF SetBit
  <2> QED BY <1>4, <2>1, <2>2, <2>3, <2>4 DEF Unset, Latched
<1>5. ASSUME Latched \/ Taken, ~Task
      PROVE  /\ Latched => Latched' \/ Served'
             /\ Taken => Taken' \/ Served'
  BY <1>1, <1>3, <1>5 DEF Latched, Taken
<1> QED
  BY <1>2, <1>4, <1>5

\* A stream latched while none runs is picked up, unless it is cancelled first: its
\* bit is not lost to the stream before it (cam_loop.h:15-17).
THEOREM LatchedRuns == FairSpec /\ []OnlyBitsAwaited => LatchedStreamRuns
<1> DEFINE U == Unset
           L == Latched
           T == Taken
           S == Served
           CanTask == ENABLED <<Task>>_vars
           CanSet == ENABLED <<SetBit>>_vars
           Raised == raise # None
           Waiting == pending # None /\ active = None
<1>1. [Next]_vars =>
        /\ U => Raised /\ ((~SetBit /\ U') \/ L')
        /\ L => (~Task /\ L') \/ T' \/ S'
        /\ T => (~Task /\ T') \/ S'
  BY LatchSteps
<1>2. L \/ T => ~TaskWaits
  BY DEF Latched, Taken, TaskWaits
<1>3. OnlyBitsAwaited => (~TaskWaits => CanTask) /\ (Raised => CanSet)
  BY DEF OnlyBitsAwaited
<1>4. DemoInv /\ Waiting => U \/ L \/ T
  BY DEF DemoInv, LatchInv, Unset, Latched, Taken
<1>5. S <=> pending = None \/ active # None
  BY DEF Served
<1> HIDE DEF U, L, T, Raised
<1>6. FairSpec /\ []OnlyBitsAwaited => (U ~> L) /\ (L ~> (T \/ S)) /\ (T ~> S)
  BY <1>1, <1>2, <1>3, PTL DEF FairSpec, Spec
<1>7. FairSpec /\ []OnlyBitsAwaited => (Waiting ~> S)
  BY <1>4, <1>6, SafeAlways, PTL DEF FairSpec
<1> QED
  BY <1>7 DEF LatchedStreamRuns, Served

-----------------------------------------------------------------------------
(* The same without fairness: what a wait is for, and how far a stop is from its   *)
(* stream's end.                                                           *)

\* Every bit the task waits for is owed by somebody, except that of the next start.
WaitIsOwed ==
    /\ TaskWaits /\ pc \in {"wait", "drain"} => sending = 1
    /\ TaskWaits /\ pc = "ended" => ending
    /\ TaskWaits /\ pc = "idle" /\ pending # None => raise = "START"

\* The task is never left waiting: not for a frame the SDK does not have, not for an
\* end it was not asked for, and not with a stream latched whose bit was taken
\* (cam_loop.c:49, 94-95, 117, 125, 160-166).
THEOREM WaitsAreOwed == Spec => []WaitIsOwed
<1>1. DemoInv => WaitIsOwed
  BY DEF DemoInv, FrameInv, EndInv, LatchInv, TaskWaits, WaitIsOwed
<1> QED
  BY <1>1, SafeAlways, PTL

\* The steps the task is from its next wait for a start once a stop is set.
ToGo ==
    CASE pc = "cleardone" -> 8
      [] pc \in {"begin", "capture", "push"} -> 7
      [] pc \in {"check", "wait"} -> 6
      [] pc = "drain" -> 5
      [] pc = "clearended" -> 4
      [] pc = "end" -> 3
      [] pc = "ended" -> 2
      [] pc = "finish" -> 1
      [] OTHER -> 0

\* A stop that is set in a stream, or was.
StopSeen ==
    \/ pc \in {"cleardone", "begin", "capture", "push", "check", "wait"} /\ "STOP" \in bits
    \/ pc \in {"drain", "clearended", "end", "ended", "finish"}

\* Every step of the task brings a stopped stream nearer to its end, and nobody
\* takes it back.
NearerToEnd ==
    StopSeen => \/ ~Task /\ StopSeen' /\ ToGo' = ToGo
                \/ ToGo' < ToGo /\ (StopSeen' \/ pc' = "idle")

\* From anywhere in a stream, a stop that is set ends it in eight steps of the task
\* at most: none starts another frame, and no start, stop or callback that comes
\* between gives it one more (cam_loop.c:68-129).
THEOREM EightStepsToEnd == Spec => [][NearerToEnd]_vars
<1>1. ASSUME DemoInv, [Next]_vars PROVE NearerToEnd
  <2>1. CASE StopAt({"cleardone"})
    BY <1>1, <2>1, StopSteps, OthersKeep DEF StopAt, NearerToEnd, StopSeen, ToGo
  <2>2. CASE StopAt({"begin", "capture", "push"})
    BY <1>1, <2>2, StopSteps, OthersKeep DEF StopAt, NearerToEnd, StopSeen, ToGo
  <2>3. CASE StopAt({"check", "wait"})
    BY <1>1, <2>3, StopSteps, OthersKeep DEF StopAt, At, NearerToEnd, StopSeen, ToGo
  <2>4. CASE At("drain") \/ At("clearended") \/ At("end") \/ At("ended") \/ At("finish")
    BY <1>1, <2>4, EndingSteps DEF At, NearerToEnd, StopSeen, ToGo
  <2> QED
    BY <1>1, <2>1, <2>2, <2>3, <2>4 DEF StopSeen, StopAt, At, NearerToEnd
<1> QED
  BY <1>1, SafeAlways, PTL DEF Spec
=============================================================================
