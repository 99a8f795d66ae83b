---------------------------- MODULE XiaoCamLoop ----------------------------
(***************************************************************************)
(* The stream loop of xiao-esp32s3-sensor-link (main/cam_loop.c, with the  *)
(* frames of main/cam_capture.c and the microphone of main/mic.c, driven   *)
(* by main.c): one stream, of the camera or of the microphone, reserved by *)
(* a subscription; begin and end are operations run by the SDK's thread    *)
(* and waited for.                                                         *)
(*                                                                         *)
(* pc is the place of cam_loop_task between two calls another thread can   *)
(* see; todo and raise are what an SDK callback has left to do: streams to *)
(* stop, and the bit to set once it is out of its critical section.        *)
(***************************************************************************)
EXTENDS Integers, Sequences

CONSTANTS
    Clients,    \* client ids
    None,       \* no target: a "valid" flag that is false
    MaxInflight,\* CAM_CAPTURE_MAX_INFLIGHT
    MaxCalls    \* bound: subscriptions, unsubscriptions and disconnections

Camera     == 0
Microphone == 1
Targets    == Clients \X {Camera, Microphone}

ASSUME ConstantsAssumption ==
    /\ None \notin Targets \cup {"START", "STOP", "begin", "end"}
    /\ MaxInflight \in Nat \ {0}
    /\ MaxCalls \in Nat

VARIABLES
    pc,         \* place of cam_loop_task
    bits,       \* s_events
    pending,    \* s_pending_*
    active,     \* s_active_*, also client_id and channel_id of the task
    stopping,   \* s_stopping
    out,        \* frames in s_inflight
    held,       \* pending_jpeg # NULL
    audio,      \* audio_pending: pcm is with the SDK
    mic,        \* the I2S channel is enabled
    op, ok,     \* s_control: the operation submitted, or None; its result
    open,       \* the stream the SDK has open
    sending,    \* pushes the SDK has not reported done
    todo, raise,\* the SDK callback being run
    calls       \* what MaxCalls bounds

vars == <<pc, bits, pending, active, stopping, out, held, audio, mic, op, ok,
          open, sending, todo, raise, calls>>
targetVars  == <<pending, active, stopping>>
bufferVars  == <<out, held, audio>>
controlVars == <<op, ok>>
callVars    == <<todo, raise, calls>>

Bits == {"START", "STOP", "FRAME_DONE", "CONTROL_DONE"}

IsAudio == active[2] = Microphone

\* Who has the stream: latched, or picked up.
Owner == IF pending # None THEN pending ELSE active

-----------------------------------------------------------------------------
(* cam_loop_task: picking a stream up. *)

AwaitStart ==
    /\ pc = "idle" /\ "START" \in bits
    /\ bits' = bits \ {"START"}
    /\ pc' = "claim"
    /\ UNCHANGED <<targetVars, bufferVars, mic, controlVars, open, sending, callVars>>

\* Mutant: the task clears STOP once it has picked the stream up, as in
\* sensor-link-demo, where the stop may be for this very stream.
BeginClearsStop ==
    /\ pc = "begin"
    /\ op' = "begin"
    /\ bits' = bits \ {"CONTROL_DONE", "STOP"}
    /\ pc' = "beginning"
    /\ UNCHANGED <<targetVars, bufferVars, mic, ok, open, sending, callVars>>

\* A latched start may have been cancelled by cam_loop_stop.
Claim ==
    /\ pc = "claim"
    /\ IF pending = None
       THEN pc' = "idle" /\ UNCHANGED <<pending, active>>
       ELSE /\ pc' = IF pending[2] = Microphone THEN "micstart" ELSE "begin"
            /\ active' = pending
            /\ pending' = None
    /\ UNCHANGED <<bits, stopping, bufferVars, mic, controlVars, open, sending, callVars>>

\* Mutant: a microphone that does not start leaves the stream reserved.
MicStartKeepsActive ==
    /\ pc = "micstart"
    /\ \/ mic' = TRUE /\ pc' = "begin"
       \/ mic' = mic /\ pc' = "idle"
    /\ UNCHANGED <<bits, targetVars, bufferVars, controlVars, open, sending, callVars>>

MicStart ==
    /\ pc = "micstart"
    /\ \/ mic' = TRUE /\ pc' = "begin"
       \/ mic' = mic /\ pc' = "finish"
    /\ UNCHANGED <<bits, targetVars, bufferVars, controlVars, open, sending, callVars>>

\* stream_control, up to its wait.
Submit(what) ==
    /\ op' = what
    /\ bits' = bits \ {"CONTROL_DONE"}
    /\ UNCHANGED ok

Begin ==
    /\ pc = "begin"
    /\ Submit("begin")
    /\ pc' = "beginning"
    /\ UNCHANGED <<targetVars, bufferVars, mic, open, sending, callVars>>

\* A begin that failed leaves the microphone as it was found.
AwaitBegin ==
    /\ pc = "beginning" /\ "CONTROL_DONE" \in bits
    /\ bits' = bits \ {"CONTROL_DONE"}
    /\ mic' = (mic /\ ok)
    /\ pc' = IF ok THEN "check" ELSE "finish"
    /\ UNCHANGED <<targetVars, bufferVars, controlVars, open, sending, callVars>>

-----------------------------------------------------------------------------
(* cam_loop_task: the stream. *)

CheckStop ==
    /\ pc = "check"
    /\ pc' = IF "STOP" \in bits THEN "drain"
             ELSE IF audio THEN "awaitaudio"
             ELSE IF IsAudio THEN "read"
             ELSE IF held THEN "awaitframe"
             ELSE "capture"
    /\ UNCHANGED <<bits, targetVars, bufferVars, mic, controlVars, open, sending,
                   callVars>>

\* Mutant: pcm is filled again without waiting for the SDK to be done with it.
AwaitAudioNot ==
    /\ pc = "awaitaudio"
    /\ audio' = FALSE
    /\ pc' = IF "STOP" \in bits THEN "drain" ELSE "read"
    /\ UNCHANGED <<bits, targetVars, out, held, mic, controlVars, open, sending,
                   callVars>>

AwaitAudio ==
    /\ pc = "awaitaudio" /\ "FRAME_DONE" \in bits
    /\ bits' = bits \ {"FRAME_DONE"}
    /\ audio' = FALSE
    /\ pc' = IF "STOP" \in bits THEN "drain" ELSE "read"
    /\ UNCHANGED <<targetVars, out, held, mic, controlVars, open, sending, callVars>>

\* mic_read times out, fails, or fills pcm; a stop may arrive meanwhile.
ReadNothing ==
    /\ pc = "read"
    /\ pc' = "check"
    /\ UNCHANGED <<bits, targetVars, bufferVars, mic, controlVars, open, sending,
                   callVars>>

Read ==
    /\ pc = "read"
    /\ pc' = IF "STOP" \in bits THEN "drain" ELSE "cleardone"
    /\ UNCHANGED <<bits, targetVars, bufferVars, mic, controlVars, open, sending,
                   callVars>>

\* The frame sent is returned before the next is asked for.
AwaitFrame ==
    /\ pc = "awaitframe" /\ bits \cap {"FRAME_DONE", "STOP"} # {}
    /\ IF "STOP" \in bits
       THEN pc' = "drain" /\ UNCHANGED <<out, held>>
       ELSE pc' = "capture" /\ held' = FALSE /\ out' = out - 1
    /\ UNCHANGED <<bits, targetVars, audio, mic, controlVars, open, sending, callVars>>

\* cam_capture_retrieve_jpeg_frame: a free slot is needed, and the driver may fail.
Retrieve ==
    /\ pc = "capture" /\ out < MaxInflight
    /\ out' = out + 1
    /\ pc' = "captured"
    /\ UNCHANGED <<bits, targetVars, held, audio, mic, controlVars, open, sending,
                   callVars>>

RetrieveFails ==
    /\ pc = "capture"
    /\ pc' = "check"
    /\ UNCHANGED <<bits, targetVars, bufferVars, mic, controlVars, open, sending,
                   callVars>>

\* Mutant: a stop that arrives during the capture leaks the frame.
CapturedLeaks ==
    /\ pc = "captured"
    /\ pc' = IF "STOP" \in bits THEN "drain" ELSE "cleardone"
    /\ UNCHANGED <<bits, targetVars, bufferVars, mic, controlVars, open, sending,
                   callVars>>

Captured ==
    /\ pc = "captured"
    /\ IF "STOP" \in bits
       THEN out' = out - 1 /\ pc' = "drain"
       ELSE out' = out /\ pc' = "cleardone"
    /\ UNCHANGED <<bits, targetVars, held, audio, mic, controlVars, open, sending,
                   callVars>>

ClearDone ==
    /\ pc = "cleardone"
    /\ bits' = bits \ {"FRAME_DONE"}
    /\ IF IsAudio THEN audio' = TRUE /\ UNCHANGED held
                  ELSE held' = TRUE /\ UNCHANGED audio
    /\ pc' = "push"
    /\ UNCHANGED <<targetVars, out, mic, controlVars, open, sending, callVars>>

Push ==
    /\ pc = "push"
    /\ sending' = sending + 1
    /\ pc' = "check"
    /\ UNCHANGED <<bits, targetVars, bufferVars, mic, controlVars, open, callVars>>

-----------------------------------------------------------------------------
(* cam_loop_task: the end of the stream. *)

\* Mutant: what is still with the SDK is not waited for.
DrainNot ==
    /\ pc = "drain"
    /\ out' = IF held THEN out - 1 ELSE out
    /\ held' = FALSE /\ audio' = FALSE
    /\ pc' = "end"
    /\ UNCHANGED <<bits, targetVars, mic, controlVars, open, sending, callVars>>

\* The last frame or the last samples may still be with the SDK.
Drain ==
    /\ pc = "drain"
    /\ held \/ audio => "FRAME_DONE" \in bits
    /\ bits' = IF held \/ audio THEN bits \ {"FRAME_DONE"} ELSE bits
    /\ out' = IF held THEN out - 1 ELSE out
    /\ held' = FALSE /\ audio' = FALSE
    /\ pc' = "end"
    /\ UNCHANGED <<targetVars, mic, controlVars, open, sending, callVars>>

\* mic_stop comes before the end.
End ==
    /\ pc = "end"
    /\ mic' = FALSE
    /\ Submit("end")
    /\ pc' = "ending"
    /\ UNCHANGED <<targetVars, bufferVars, open, sending, callVars>>

AwaitEnd ==
    /\ pc = "ending" /\ "CONTROL_DONE" \in bits
    /\ bits' = bits \ {"CONTROL_DONE"}
    /\ pc' = "finish"
    /\ UNCHANGED <<targetVars, bufferVars, mic, controlVars, open, sending, callVars>>

Finish ==
    /\ pc = "finish"
    /\ active' = None
    /\ pc' = "idle"
    /\ UNCHANGED <<bits, pending, stopping, bufferVars, mic, controlVars, open, sending,
                   callVars>>

-----------------------------------------------------------------------------
(* The delegate's callbacks: one at a time, each a critical section or two   *)
(* and the bit to set after each.                                            *)

Returned == todo = <<>> /\ raise = None

\* Mutant: the latest subscription is latched, as in sensor-link-demo.
StartLatches(t) ==
    /\ Returned /\ calls < MaxCalls
    /\ calls' = calls + 1
    /\ bits' = bits \ {"STOP"}
    /\ stopping' = FALSE
    /\ pending' = t
    /\ raise' = "START"
    /\ UNCHANGED <<pc, active, bufferVars, mic, controlVars, open, sending, todo>>

\* cam_loop_start: refused, or granted already, while a stream is reserved.
Start(t) ==
    /\ Returned /\ calls < MaxCalls
    /\ calls' = calls + 1
    /\ IF pending # None \/ active # None
       THEN UNCHANGED <<bits, stopping, pending, raise>>
       ELSE /\ bits' = bits \ {"STOP"}
            /\ stopping' = FALSE
            /\ pending' = t
            /\ raise' = "START"
    /\ UNCHANGED <<pc, active, bufferVars, mic, controlVars, open, sending, todo>>

\* sensor_link_unsubscribe: one stop.  sensor_link_disconnected: one for each
\* channel of the client.
Stops(c) == {<< <<c, Camera>> >>, << <<c, Microphone>> >>,
             << <<c, Camera>>, <<c, Microphone>> >>}

CallStop(c) ==
    /\ Returned /\ calls < MaxCalls
    /\ calls' = calls + 1
    /\ todo' \in Stops(c)
    /\ UNCHANGED <<pc, bits, targetVars, bufferVars, mic, controlVars, open, sending,
                   raise>>

\* cam_loop_stop.
Stop ==
    /\ todo # <<>> /\ raise = None
    /\ todo' = Tail(todo)
    /\ pending' = IF pending = Head(todo) THEN None ELSE pending
    /\ IF active = Head(todo)
       THEN stopping' = TRUE /\ raise' = "STOP"
       ELSE UNCHANGED <<stopping, raise>>
    /\ UNCHANGED <<pc, bits, active, bufferVars, mic, controlVars, open, sending, calls>>

SetBit ==
    /\ raise # None
    /\ bits' = bits \cup {raise}
    /\ raise' = None
    /\ UNCHANGED <<pc, targetVars, bufferVars, mic, controlVars, open, sending, todo,
                   calls>>

-----------------------------------------------------------------------------
(* What the SDK does on its own thread. *)

\* stream_control_exec; the SDK may refuse a begin.
StreamControlExec ==
    /\ op # None
    /\ op' = None
    /\ bits' = bits \cup {"CONTROL_DONE"}
    /\ \/ ok' = TRUE /\ open' = IF op = "begin" THEN active ELSE None
       \/ op = "begin" /\ ok' = FALSE /\ open' = open
    /\ UNCHANGED <<pc, targetVars, bufferVars, mic, sending, callVars>>

FrameDoneCb ==
    /\ sending > 0
    /\ sending' = sending - 1
    /\ bits' = bits \cup {"FRAME_DONE"}
    /\ UNCHANGED <<pc, targetVars, bufferVars, mic, controlVars, open, callVars>>

-----------------------------------------------------------------------------
Init ==
    /\ pc = "idle" /\ bits = {}
    /\ pending = None /\ active = None /\ stopping = FALSE
    /\ out = 0 /\ held = FALSE /\ audio = FALSE /\ mic = FALSE
    /\ op = None /\ ok = TRUE
    /\ open = None /\ sending = 0
    /\ todo = <<>> /\ raise = None /\ calls = 0

Task ==
    \/ AwaitStart \/ Claim \/ MicStart \/ Begin \/ AwaitBegin
    \/ CheckStop \/ AwaitAudio \/ ReadNothing \/ Read \/ AwaitFrame
    \/ Retrieve \/ RetrieveFails \/ Captured \/ ClearDone \/ Push
    \/ Drain \/ End \/ AwaitEnd \/ Finish

Calls == (\E t \in Targets : Start(t)) \/ (\E c \in Clients : CallStop(c))

Next == Task \/ Calls \/ Stop \/ SetBit \/ StreamControlExec \/ FrameDoneCb

Spec == Init /\ [][Next]_vars

\* The task and the SDK's thread are scheduled, a callback runs to its end, and
\* the SDK runs every operation and answers every push.
FairSpec ==
    Spec /\ WF_vars(Task) /\ WF_vars(Stop \/ SetBit) /\ WF_vars(StreamControlExec)
         /\ WF_vars(FrameDoneCb)

-----------------------------------------------------------------------------
(* Properties. *)

\* At most one push is with the SDK, so that its one callback bit tells whose it
\* is, and the slots of s_inflight are never exceeded.
TypeOK ==
    /\ pc \in {"idle", "claim", "micstart", "begin", "beginning", "check",
               "awaitaudio", "read", "awaitframe", "capture", "captured",
               "cleardone", "push", "drain", "end", "ending", "finish"}
    /\ bits \subseteq Bits
    /\ pending \in Targets \cup {None} /\ active \in Targets \cup {None}
    /\ stopping \in BOOLEAN
    /\ out \in 0 .. MaxInflight
    /\ held \in BOOLEAN /\ audio \in BOOLEAN /\ mic \in BOOLEAN
    /\ op \in {None, "begin", "end"} /\ ok \in BOOLEAN
    /\ open \in Targets \cup {None}
    /\ sending \in 0 .. 1
    /\ todo \in Seq(Targets) /\ Len(todo) <= 2
    /\ raise \in {None, "START", "STOP"}
    /\ calls \in 0 .. MaxCalls

\* What the SDK is sending is neither returned to the driver nor overwritten
\* (cam_loop.c:187-196).
BufferHeldUntilSent == sending > 0 => held \/ audio

\* The driver has all its buffers whenever a frame is asked of it, and gets every
\* one back (cam_loop.c:154-156, cam_capture.c:29-32).
FramesReturned == pc \in {"idle", "capture"} => out = 0

\* cam_loop.h:18: "Stops the stream matching (client_id, channel_id) as soon as
\* possible".
StopTakesEffect == (active # None /\ stopping) ~> active = None

\* A subscription that was granted gets its stream, is cancelled or fails: no lost
\* bit leaves the single stream reserved for ever.
SubscriptionSettles ==
    ((pending # None \/ active # None) /\ open = None)
        ~> (open # None \/ (pending = None /\ active = None))

-----------------------------------------------------------------------------
(* The inductive invariant behind the safety properties (XiaoCamLoopProofs). *)

Opening   == {"micstart", "begin", "beginning"}
Streaming == {"check", "awaitaudio", "read", "awaitframe", "capture", "captured",
              "cleardone", "push", "drain", "end"}

\* A stream is reserved by one target, latched or picked up.
OwnerInv ==
    /\ active = None <=> pc \in {"idle", "claim"}
    /\ pending # None => active = None

\* What is with the SDK, and whose callback the one bit is.
BufferInv ==
    /\ sending > 0 => (held \/ audio) /\ "FRAME_DONE" \notin bits
    /\ held => ~audio /\ active # None /\ ~IsAudio
    /\ audio => active # None /\ IsAudio
    /\ pc \in {"check", "awaitaudio", "awaitframe", "push", "drain"} \/ (~held /\ ~audio)
    /\ pc = "push" => (held \/ audio) /\ sending = 0 /\ "FRAME_DONE" \notin bits
    /\ pc = "awaitaudio" => audio
    /\ pc = "awaitframe" => held
    /\ pc = "read" => IsAudio
    /\ pc \in {"capture", "captured"} => ~IsAudio

\* Every frame of s_inflight is in the hands of the task.
SlotInv ==
    out = IF held \/ pc = "captured" \/ (pc = "cleardone" /\ ~IsAudio) THEN 1 ELSE 0

\* The SDK has open what the task thinks it has.
OpenInv ==
    /\ op = "begin" => pc = "beginning" /\ open = None
    /\ op = "end" => pc = "ending" /\ open = active
    /\ op # None => "CONTROL_DONE" \notin bits
    /\ pc \in Streaming => open = active
    /\ pc \in {"idle", "claim", "micstart", "begin", "finish"} => open = None
    /\ pc = "beginning" /\ op = None => open = IF ok THEN active ELSE None
    /\ pc = "ending" /\ op = None => open = None

\* Nobody stops a stream but its owner.
StopInv ==
    /\ Owner # None /\ ("STOP" \in bits \/ raise = "STOP") => stopping
    /\ pc \in {"drain", "end", "ending"} => stopping

IInv == TypeOK /\ OwnerInv /\ BufferInv /\ SlotInv /\ OpenInv /\ StopInv

-----------------------------------------------------------------------------
(* What the liveness proofs take from the guards (XiaoCamLoopProofs): state      *)
(* predicates, which TLC can evaluate on the run.                          *)

\* Where cam_loop_task waits for a bit that is not set: xEventGroupWaitBits.
TaskWaits ==
    \/ pc = "idle" /\ "START" \notin bits
    \/ pc \in {"beginning", "ending"} /\ "CONTROL_DONE" \notin bits
    \/ pc = "awaitaudio" /\ "FRAME_DONE" \notin bits
    \/ pc = "awaitframe" /\ bits \cap {"FRAME_DONE", "STOP"} = {}
    \/ pc = "drain" /\ (held \/ audio) /\ "FRAME_DONE" \notin bits

\* Nothing else holds a step up: what the guards of the actions say, each of which
\* changes pc, todo, raise or a bit.
OnlyBitsAwaited ==
    /\ ~TaskWaits => ENABLED <<Task>>_vars
    /\ todo # <<>> \/ raise # None => ENABLED <<Stop \/ SetBit>>_vars
    /\ op # None => ENABLED <<StreamControlExec>>_vars
    /\ sending > 0 => ENABLED <<FrameDoneCb>>_vars
=============================================================================
