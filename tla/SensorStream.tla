---------------------------- MODULE SensorStream ----------------------------
(***************************************************************************)
(* What xiao-esp32s3-sensor-link promises about the SDK's single stream    *)
(* (main/cam_loop.h): a subscription reserves it, nobody else gets it or   *)
(* disturbs it, it is opened once, it is only closed once its owner asked, *)
(* and only a closed stream is given to the next.                          *)
(***************************************************************************)
CONSTANTS
    Targets,    \* streams: a client and a channel
    None

VARIABLES
    owner,      \* who has reserved the stream
    phase,      \* "free", "reserved", "open" or "closed"
    leaving     \* the owner asked for the end of a stream already picked up

vars == <<owner, phase, leaving>>

Init == owner = None /\ phase = "free" /\ leaving = FALSE

Reserve(t) ==
    /\ phase = "free"
    /\ owner' = t
    /\ phase' = "reserved"
    /\ leaving' = FALSE

\* Unsubscribed before it was picked up.
Cancel ==
    /\ phase = "reserved"
    /\ owner' = None
    /\ phase' = "free"
    /\ UNCHANGED leaving

Open ==
    /\ phase = "reserved"
    /\ phase' = "open"
    /\ UNCHANGED <<owner, leaving>>

\* The capture could not start, or the SDK refused the stream.
Fail ==
    /\ phase = "reserved"
    /\ phase' = "closed"
    /\ UNCHANGED <<owner, leaving>>

Leave ==
    /\ phase # "free"
    /\ leaving' = TRUE
    /\ UNCHANGED <<owner, phase>>

Close ==
    /\ phase = "open" /\ leaving
    /\ phase' = "closed"
    /\ UNCHANGED <<owner, leaving>>

Release ==
    /\ phase = "closed"
    /\ owner' = None
    /\ phase' = "free"
    /\ UNCHANGED leaving

Next ==
    \/ \E t \in Targets : Reserve(t)
    \/ Cancel \/ Open \/ Fail \/ Leave \/ Close \/ Release

Spec == Init /\ [][Next]_vars
=============================================================================
