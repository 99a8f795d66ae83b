------------------------------ MODULE StampFly ------------------------------
(***************************************************************************)
(* The M5 StampFly as it is built: the turns of FlightMode on one core and *)
(* the console's task of cockpit.c on the other, which runs _loop of       *)
(* ctrl.c in each cycle.  The radio is disabled (rc.cpp:34), so the sticks *)
(* are what ctrl.c makes of them: pulses on the arming stick, begun by the *)
(* take-off and landing sequence or by the user's `on`, and cut short by   *)
(* the escape key.                                                         *)
(*                                                                         *)
(* Time is counted in turns.  A cycle of the console takes between         *)
(* CycleTurns, its vTaskDelay(10), and MaxPace turns; only during the      *)
(* console's `wait` are cycles shorter, and no key is read.                *)
(***************************************************************************)
EXTENDS FlightMode

CONSTANTS
    PulseLen,       \* cycles an arming pulse is counted for (100)
    TakeOffDelay,   \* turns from the start of the sequence to take-off (2400)
    LandDelay,      \* turns from take-off to landing (1600)
    CycleTurns,     \* least turns in a cycle (4)
    MaxPace,        \* most turns in a cycle
    FlipStick,      \* values of Stick[BUTTON_FLIP]
    Steps,          \* what the user sets the register `seq` to
    MaxCmds         \* bound on what the user types

ASSUME ConsoleAssumption ==
    /\ PulseLen \in Nat \ {0}
    /\ TakeOffDelay \in Nat /\ LandDelay \in Nat
    /\ CycleTurns \in Nat /\ MaxPace \in Nat
    /\ FlipStick \subseteq BOOLEAN
    /\ Steps \subseteq 0 .. 5
    /\ MaxCmds \in Nat

VARIABLES
    ctl,        \* the statics of ctrl.c and its two sticks
    clock,      \* turns since seq_time, as far as any delay reaches
    pace,       \* turns since the last cycle
    waiting,    \* the console is in app_wait
    cmds,       \* what the user has typed so far
    hist        \* history: presses and toggles of the arming button, what the
                \* last pulse is for, whether something came in between

consoleVars == <<ctl, clock, pace, waiting, cmds, hist>>
flyVars == <<vars, consoleVars>>

Purposes == {"none", "on", "take-off", "landing"}

Longest == IF TakeOffDelay > LandDelay THEN TakeOffDelay ELSE LandDelay

FlyInit ==
    /\ Init
    /\ ctl = [stop |-> FALSE, onCount |-> 0, seq |-> 1, arm |-> FALSE, auto |-> FALSE]
    /\ clock = 0 /\ pace = CycleTurns /\ waiting = FALSE /\ cmds = 0
    /\ hist = [presses |-> 0, toggles |-> 0, purpose |-> "none", disturbed |-> FALSE]

-----------------------------------------------------------------------------
(* One call of _loop: the pulse, the link, the sequence. *)

\* The stick goes down when the count reaches 0; a count zeroed by the escape key
\* leaves it as it is.
CountPulse(c) ==
    IF c.onCount > 0 THEN [c EXCEPT !.onCount = @ - 1, !.arm = c.onCount > 1] ELSE c

\* Mutant: the landing does not wait.
SequenceLandsAtOnce(c) ==
    CASE c.stop -> [c EXCEPT !.seq = 0]
      [] ~c.stop /\ c.seq = 1 -> [c EXCEPT !.seq = 2]
      [] ~c.stop /\ c.seq = 2 /\ clock >= TakeOffDelay ->
            [c EXCEPT !.seq = 4, !.auto = TRUE, !.onCount = PulseLen]
      [] ~c.stop /\ c.seq = 4 -> [c EXCEPT !.seq = 0, !.onCount = PulseLen]
      [] OTHER -> c

\* Steps 3 and 5 are passed through within a call, or set by the user.
Sequence(c) ==
    CASE c.stop -> [c EXCEPT !.seq = 0]
      [] ~c.stop /\ c.seq = 1 -> [c EXCEPT !.seq = 2]
      [] ~c.stop /\ (c.seq = 3 \/ (c.seq = 2 /\ clock >= TakeOffDelay)) ->
            [c EXCEPT !.seq = 4, !.auto = TRUE, !.onCount = PulseLen]
      [] ~c.stop /\ (c.seq = 5 \/ (c.seq = 4 /\ clock >= LandDelay)) ->
            [c EXCEPT !.seq = 0, !.onCount = PulseLen]
      [] OTHER -> c

\* seq_time is taken at the start of the sequence and at take-off.
Timed(before, after) ==
    before.seq # after.seq /\ after.seq \in {2, 4}

PurposeOf(before, after) ==
    CASE after.seq = 4 /\ before.seq \in {2, 3} -> "take-off"
      [] before.seq \in {4, 5} /\ after.seq = 0 /\ ~before.stop -> "landing"
      [] OTHER -> hist.purpose

\* Mutant: the link is kept alive whatever the escape key said.
KeepAliveAlways(c) == link' \in {0, link}

\* Connect_flag = 0, lost if it falls between the load and the store of the other
\* core's increment.
KeepAlive(c) == IF c.stop THEN UNCHANGED link ELSE link' \in {0, link}

Loop ==
    /\ waiting \/ pace >= CycleTurns
    /\ ctl' = Sequence(CountPulse(ctl))
    /\ KeepAlive(ctl)
    /\ clock' = IF Timed(ctl, ctl') THEN 0 ELSE clock
    /\ pace' = 0
    /\ hist' = [hist EXCEPT !.presses = IF ctl'.arm /\ ~ctl.arm THEN @ + 1 ELSE @,
                            !.purpose = PurposeOf(ctl, ctl')]
    /\ UNCHANGED <<fc, waiting, cmds>>

-----------------------------------------------------------------------------
(* What the user types, read between two calls of _loop. *)

Typed ==
    /\ ~waiting
    /\ cmds < MaxCmds
    /\ cmds' = cmds + 1
    /\ UNCHANGED <<fc, link, clock, pace>>

\* _on
On ==
    /\ Typed
    /\ ctl' = [ctl EXCEPT !.stop = FALSE, !.onCount = PulseLen]
    /\ hist' = [hist EXCEPT !.purpose = "on", !.disturbed = TRUE]
    /\ UNCHANGED waiting

\* The escape key: con_getc fires _esc_handler.
Escape ==
    /\ Typed
    /\ ctl' = [ctl EXCEPT !.stop = TRUE, !.onCount = 0]
    /\ hist' = [hist EXCEPT !.disturbed = TRUE]
    /\ UNCHANGED waiting

\* `seq=1` starts the sequence over, `seq=3` takes off at once.
SetSeq ==
    /\ Typed
    /\ \E q \in Steps : ctl' = [ctl EXCEPT !.seq = q]
    /\ hist' = [hist EXCEPT !.disturbed = TRUE]
    /\ UNCHANGED waiting

\* `stop=1` is the escape key without its end of the pulse, `stop=0` undoes either.
SetStop ==
    /\ Typed
    /\ ctl' = [ctl EXCEPT !.stop = ~@]
    /\ hist' = [hist EXCEPT !.disturbed = TRUE]
    /\ UNCHANGED waiting

\* `arm`, the stick itself, which _loop sets only while a pulse lasts.
SetArm ==
    /\ Typed
    /\ ctl' = [ctl EXCEPT !.arm = ~@]
    /\ hist' = [hist EXCEPT !.presses = IF ctl.arm THEN @ ELSE @ + 1,
                            !.disturbed = TRUE]
    /\ UNCHANGED waiting

\* `wait`: app_loop runs without the delay until the time is over.
Wait ==
    /\ Typed
    /\ waiting' = TRUE
    /\ hist' = [hist EXCEPT !.disturbed = TRUE]
    /\ UNCHANGED ctl

WaitEnds ==
    /\ waiting
    /\ waiting' = FALSE
    /\ UNCHANGED <<fc, link, ctl, clock, pace, cmds, hist>>

Console == Loop \/ On \/ Escape \/ SetSeq \/ SetStop \/ SetArm \/ Wait \/ WaitEnds

-----------------------------------------------------------------------------
\* A turn of the other core, with the sticks as they are then.
Sticks ==
    {in \in Inputs : /\ in.arm = ctl.arm
                     /\ in.throttle = IF ctl.auto THEN "auto" ELSE "manual"
                     /\ in.flip \in FlipStick}

FlyTurn ==
    /\ pace < MaxPace
    /\ \E in \in Sticks : TurnOn(in)
    /\ clock' = IF clock < Longest THEN clock + 1 ELSE clock
    /\ pace' = pace + 1
    /\ hist' = [hist EXCEPT !.toggles   = IF Judged(fc, fc') THEN @ + 1 ELSE @,
                            !.disturbed = @ \/ fc'.overG \/ LinkDown']
    /\ UNCHANGED <<ctl, waiting, cmds>>

FlyNext == FlyTurn \/ Console

FlySpec == FlyInit /\ [][FlyNext]_flyVars

\* Both tasks run; a `wait` is over some day.
FlyFairSpec ==
    FlySpec /\ WF_flyVars(FlyTurn) /\ WF_flyVars(Loop) /\ WF_flyVars(WaitEnds)

-----------------------------------------------------------------------------
(* Properties. *)

\* One press of the arming stick is one change of mode, however the pulses of
\* ctrl.c overlap, are cut short or are lost in the debouncing
\* (flight_control.cpp:531-550, 1044-1061).
PressTogglesOnce == hist.toggles <= hist.presses

\* ctrl.c:104-109, the emergency stop: once the escape key was read and nothing
\* switched on again, the vehicle leaves flight, whatever the console was at.
StopEndsFlight ==
    (fc.mode \in Flying /\ ctl.stop) ~> (fc.mode \notin Flying \/ ~ctl.stop)

\* ctrl.c:69, 83: left alone by the user, and with no over-G and no lost link, the
\* sequence's take-off pulse finds the vehicle parked and its landing pulse finds it
\* in flight.  Disturbed, the same landing pulse arms a parked vehicle.
UndisturbedSequenceLands ==
    [][ Judged(fc, fc') /\ ~hist'.disturbed
        => \/ hist.purpose = "take-off" /\ fc.mode = "PARKING"
           \/ hist.purpose = "landing" /\ fc.mode = "FLIGHT" ]_<<fc, hist>>
=============================================================================
