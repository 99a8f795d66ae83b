---------------------------- MODULE DemoCamLoop ----------------------------
(***************************************************************************)
(* The stream loop of sensor-link-demo (main/cam_loop.c, driven by main.c):*)
(* the SDK's callbacks latch a stream or ask for its end; cam_loop_task    *)
(* runs one stream at a time, sends one frame at a time and waits for the  *)
(* SDK's callbacks on an event group.                                      *)
(*                                                                         *)
(* pc is the place of cam_loop_task between two calls another thread can   *)
(* see; raise is what an SDK callback has still to set once it has left    *)
(* its critical section.  The one channel of the demo is left out: a       *)
(* stream is named by its client.                                          *)
(***************************************************************************)
EXTENDS Integers

CONSTANTS
    Clients,    \* client ids
    None,       \* no client: a "valid" flag that is false
    MaxCalls    \* bound: subscriptions and unsubscriptions

ASSUME DemoAssumption == None \notin Clients \cup {"START", "STOP"} /\ MaxCalls \in Nat

VARIABLES
    pc,         \* place of cam_loop_task
    bits,       \* s_events
    pending,    \* s_pending_*
    active,     \* s_active_*, also client_id of the task
    held,       \* pending_jpeg # NULL
    got,        \* jpeg: a frame retrieved and not yet pushed or released
    sending,    \* pushes the SDK has not reported done
    open,       \* the stream the SDK has open
    ending,     \* an end was asked of the SDK and is not done
    raise,      \* bit the running callback is about to set, or None
    asked,      \* history: the active stream was asked to stop
    calls       \* what MaxCalls bounds

vars == <<pc, bits, pending, active, held, got, sending, open, ending, raise,
          asked, calls>>
streamVars == <<pending, active, asked>>
frameVars  == <<held, got>>
sdkVars    == <<raise, calls>>
linkVars   == <<sending, open, ending>>

Bits == {"START", "STOP", "FRAME_DONE", "STREAM_ENDED"}

-----------------------------------------------------------------------------
(* cam_loop_task. *)

AwaitStart ==
    /\ pc = "idle" /\ "START" \in bits
    /\ bits' = bits \ {"START"}
    /\ pc' = "claim"
    /\ UNCHANGED <<streamVars, frameVars, sdkVars, linkVars>>

\* A latched start may have been cancelled by cam_loop_stop.
Claim ==
    /\ pc = "claim"
    /\ IF pending = None
       THEN pc' = "idle" /\ UNCHANGED <<pending, active>>
       ELSE pc' = "clearstop" /\ active' = pending /\ pending' = None
    /\ UNCHANGED <<bits, asked, frameVars, sdkVars, linkVars>>

ClearStop ==
    /\ pc = "clearstop"
    /\ bits' = bits \ {"STOP"}
    /\ pc' = "begin"
    /\ UNCHANGED <<streamVars, frameVars, sdkVars, linkVars>>

\* A begin that reaches the SDK before an end took effect is dropped.
Begin ==
    /\ pc = "begin"
    /\ open' = IF ending THEN open ELSE active
    /\ pc' = "check"
    /\ UNCHANGED <<bits, streamVars, frameVars, sdkVars, sending, ending>>

CheckStop ==
    /\ pc = "check"
    /\ pc' = IF "STOP" \in bits THEN "drain" ELSE "capture"
    /\ UNCHANGED <<bits, streamVars, frameVars, sdkVars, linkVars>>

Retrieve ==
    /\ pc = "capture"
    /\ got' = TRUE
    /\ pc' = "wait"
    /\ UNCHANGED <<bits, streamVars, held, sdkVars, linkVars>>

RetrieveFails ==
    /\ pc = "capture"
    /\ pc' = "check"
    /\ UNCHANGED <<bits, streamVars, frameVars, sdkVars, linkVars>>

\* Mutant: a frame in flight is not waited for.
AwaitFrameNot ==
    /\ pc = "wait"
    /\ IF "STOP" \in bits
       THEN got' = FALSE /\ pc' = "drain" /\ UNCHANGED held
       ELSE held' = FALSE /\ pc' = "cleardone" /\ UNCHANGED got
    /\ UNCHANGED <<bits, streamVars, sdkVars, linkVars>>

\* Mutant: the wait clears the bits it returns on.
AwaitFrameClears ==
    /\ pc = "wait"
    /\ held => bits \cap {"FRAME_DONE", "STOP"} # {}
    /\ bits' = bits \ {"FRAME_DONE", "STOP"}
    /\ IF "STOP" \in bits
       THEN got' = FALSE /\ pc' = "drain" /\ UNCHANGED held
       ELSE held' = FALSE /\ pc' = "cleardone" /\ UNCHANGED got
    /\ UNCHANGED <<streamVars, sdkVars, linkVars>>

\* With a frame in flight its callback is waited for, or a stop; without one a
\* stop may still have arrived meanwhile.
AwaitFrame ==
    /\ pc = "wait"
    /\ held => bits \cap {"FRAME_DONE", "STOP"} # {}
    /\ IF "STOP" \in bits
       THEN got' = FALSE /\ pc' = "drain" /\ UNCHANGED held
       ELSE held' = FALSE /\ pc' = "cleardone" /\ UNCHANGED got
    /\ UNCHANGED <<bits, streamVars, sdkVars, linkVars>>

ClearDone ==
    /\ pc = "cleardone"
    /\ held' = TRUE /\ got' = FALSE
    /\ bits' = bits \ {"FRAME_DONE"}
    /\ pc' = "push"
    /\ UNCHANGED <<streamVars, sdkVars, linkVars>>

Push ==
    /\ pc = "push"
    /\ sending' = sending + 1
    /\ pc' = "check"
    /\ UNCHANGED <<bits, streamVars, frameVars, sdkVars, open, ending>>

\* Mutant: the last frame is handed back without waiting for its callback.
DrainNot ==
    /\ pc = "drain"
    /\ held' = FALSE
    /\ pc' = "clearended"
    /\ UNCHANGED <<bits, streamVars, got, sdkVars, linkVars>>

\* The last frame may still be in flight.
Drain ==
    /\ pc = "drain"
    /\ held => "FRAME_DONE" \in bits
    /\ bits' = IF held THEN bits \ {"FRAME_DONE"} ELSE bits
    /\ held' = FALSE
    /\ pc' = "clearended"
    /\ UNCHANGED <<streamVars, got, sdkVars, linkVars>>

ClearEnded ==
    /\ pc = "clearended"
    /\ bits' = bits \ {"STREAM_ENDED"}
    /\ pc' = "end"
    /\ UNCHANGED <<streamVars, frameVars, sdkVars, linkVars>>

End ==
    /\ pc = "end"
    /\ ending' = TRUE
    /\ pc' = "ended"
    /\ UNCHANGED <<bits, streamVars, frameVars, sdkVars, sending, open>>

\* Mutant: the end is taken to be immediate.
AwaitEndNot ==
    /\ pc = "ended"
    /\ pc' = "finish"
    /\ UNCHANGED <<bits, streamVars, frameVars, sdkVars, linkVars>>

AwaitEnd ==
    /\ pc = "ended" /\ "STREAM_ENDED" \in bits
    /\ bits' = bits \ {"STREAM_ENDED"}
    /\ pc' = "finish"
    /\ UNCHANGED <<streamVars, frameVars, sdkVars, linkVars>>

\* Mutant: a start latched during the stream loses its bit.
FinishClearsStart ==
    /\ pc = "finish"
    /\ active' = None
    /\ asked' = FALSE
    /\ bits' = bits \ {"START"}
    /\ pc' = "idle"
    /\ UNCHANGED <<pending, frameVars, sdkVars, linkVars>>

Finish ==
    /\ pc = "finish"
    /\ active' = None
    /\ asked' = FALSE
    /\ pc' = "idle"
    /\ UNCHANGED <<bits, pending, frameVars, sdkVars, linkVars>>

-----------------------------------------------------------------------------
(* The delegate's callbacks: one at a time, each a critical section and then *)
(* a bit to set.                                                             *)

\* cam_loop_start: only the latest request is kept.
Start(c) ==
    /\ raise = None /\ calls < MaxCalls
    /\ calls' = calls + 1
    /\ pending' = c
    /\ raise' = "START"
    /\ UNCHANGED <<pc, bits, active, asked, frameVars, linkVars>>

\* cam_loop_stop, for an unsubscription or for a client that is gone.
Stop(c) ==
    /\ raise = None /\ calls < MaxCalls
    /\ calls' = calls + 1
    /\ pending' = IF pending = c THEN None ELSE pending
    /\ IF active = c
       THEN raise' = "STOP" /\ asked' = TRUE
       ELSE UNCHANGED <<raise, asked>>
    /\ UNCHANGED <<pc, bits, active, frameVars, linkVars>>

SetBit ==
    /\ raise # None
    /\ bits' = bits \cup {raise}
    /\ raise' = None
    /\ UNCHANGED <<pc, streamVars, frameVars, linkVars, calls>>

-----------------------------------------------------------------------------
(* What the SDK reports. *)

StreamPushCb ==
    /\ sending > 0
    /\ sending' = sending - 1
    /\ bits' = bits \cup {"FRAME_DONE"}
    /\ UNCHANGED <<pc, streamVars, frameVars, sdkVars, open, ending>>

StreamEndCb ==
    /\ ending
    /\ ending' = FALSE
    /\ open' = None
    /\ bits' = bits \cup {"STREAM_ENDED"}
    /\ UNCHANGED <<pc, streamVars, frameVars, sdkVars, sending>>

-----------------------------------------------------------------------------
Init ==
    /\ pc = "idle" /\ bits = {}
    /\ pending = None /\ active = None /\ asked = FALSE
    /\ held = FALSE /\ got = FALSE
    /\ sending = 0 /\ open = None /\ ending = FALSE
    /\ raise = None /\ calls = 0

Task ==
    \/ AwaitStart \/ Claim \/ ClearStop \/ Begin
    \/ CheckStop \/ Retrieve \/ RetrieveFails \/ AwaitFrame \/ ClearDone \/ Push
    \/ Drain \/ ClearEnded \/ End \/ AwaitEnd \/ Finish

Callbacks == \E c \in Clients : Start(c) \/ Stop(c)

Next == Task \/ Callbacks \/ SetBit \/ StreamPushCb \/ StreamEndCb

Spec == Init /\ [][Next]_vars

\* The task and the SDK's thread are scheduled, and the SDK answers every push
\* and every end.
FairSpec ==
    Spec /\ WF_vars(Task) /\ WF_vars(SetBit) /\ WF_vars(StreamPushCb)
         /\ WF_vars(StreamEndCb)

-----------------------------------------------------------------------------
(* Properties. *)

InStream == {"begin", "check", "capture", "wait", "cleardone", "push"}

\* At most one frame is with the SDK (cam_loop.c:91-92: its callback is waited
\* for before the slot is reused).
TypeOK ==
    /\ pc \in InStream \cup {"idle", "claim", "clearstop", "drain", "clearended",
                             "end", "ended", "finish"}
    /\ bits \subseteq Bits
    /\ pending \in Clients \cup {None} /\ active \in Clients \cup {None}
    /\ held \in BOOLEAN /\ got \in BOOLEAN
    /\ sending \in 0 .. 1
    /\ open \in Clients \cup {None} /\ ending \in BOOLEAN
    /\ raise \in {None, "START", "STOP"}
    /\ asked \in BOOLEAN /\ calls \in 0 .. MaxCalls

\* A frame the SDK is still sending has not been handed back to the capture
\* (cam_loop.c:115-116).
FrameHeldUntilSent == sending > 0 => held

\* No begin is ever dropped by the SDK because the end before it is under way
\* (cam_loop.c:121-122).
BeginNeverDropped == pc = "begin" => ~ending /\ open = None

\* A stop that reaches the loop ends the stream, whatever is being captured or
\* sent when it does.
StopRaisedEndsStream == (pc \in InStream /\ "STOP" \in bits) ~> pc = "idle"

\* A stream that is latched with none running is picked up or cancelled: no
\* START bit is lost to an earlier stream (cam_loop.h:15-17).
LatchedStreamRuns == (pending # None /\ active = None) ~> (pending = None \/ active # None)

\* cam_loop.h:20: "Stops the stream matching (client_id, channel_id) as soon as
\* possible".
StopTakesEffect == asked ~> ~asked

-----------------------------------------------------------------------------
(* What the liveness proofs take from the guards (DemoCamLoopProofs): state      *)
(* predicates, which TLC can evaluate on the run.                          *)

\* Where cam_loop_task waits for a bit that is not set: xEventGroupWaitBits.
TaskWaits ==
    \/ pc = "idle" /\ "START" \notin bits
    \/ pc = "wait" /\ held /\ bits \cap {"FRAME_DONE", "STOP"} = {}
    \/ pc = "drain" /\ held /\ "FRAME_DONE" \notin bits
    \/ pc = "ended" /\ "STREAM_ENDED" \notin bits

\* Nothing else holds a step up: what the guards of the actions say, each of which
\* changes pc, bits or a flag.
OnlyBitsAwaited ==
    /\ ~TaskWaits => ENABLED <<Task>>_vars
    /\ raise # None => ENABLED <<SetBit>>_vars
    /\ sending > 0 => ENABLED <<StreamPushCb>>_vars
    /\ ending => ENABLED <<StreamEndCb>>_vars
=============================================================================
