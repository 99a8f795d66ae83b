----------------------------- MODULE FlightMode -----------------------------
(***************************************************************************)
(* The flight modes of the M5 StampFly (m5-stamp-fly/main): one turn of    *)
(* loop_400Hz is one step.  A turn reads the sensors, decides the mode     *)
(* several times over, a later decision overwriting an earlier one, and    *)
(* drives the motors; the functions it calls one after the other are       *)
(* operators from the controller's state to its next.  The console task on *)
(* the other core keeps the link alive and moves the sticks between turns. *)
(*                                                                         *)
(* Attitudes, rates and altitudes are left out.  Of the thrust only what   *)
(* the control flow reads is kept: whether Thrust_command is below         *)
(* Motor_on_duty_threshold.  The 0.02 that Range0flag takes off the        *)
(* automatic thrust is left out: it moves RampLow by 20 turns.             *)
(***************************************************************************)
EXTENDS Integers

CONSTANTS
    AverageNum,     \* AVERAGENUM
    ArmDebounce,    \* turns that debounce the arming button (10)
    ReleaseTurns,   \* turns the button must be seen released (40)
    FlipDebounce,   \* turns that debounce the flip button (10)
    LinkLimit,      \* Connect_flag at which the link is lost (40)
    RiseLen,        \* flip_delay (180)
    QuarterLen,     \* flip_step / 4 (40)
    RecoverLen,     \* turns of levelling after the rotation (10)
    SettleLen,      \* turns from the end of the rotation to that of the flip (200)
    RampLow,        \* turns in which the automatic take-off's thrust is low (100)
    ThrottleModes   \* Stick[ALTCONTROLMODE]: "auto", "manual"

ASSUME ConstantsAssumption ==
    /\ AverageNum \in Nat /\ ArmDebounce \in Nat
    /\ ReleaseTurns \in Nat \ {0}
    /\ FlipDebounce \in Nat /\ LinkLimit \in Nat \ {0}
    /\ RiseLen \in Nat \ {0} /\ QuarterLen \in Nat \ {0}
    /\ RecoverLen \in Nat \ {0} /\ SettleLen \in Nat
    /\ RecoverLen < SettleLen
    /\ RampLow \in Nat
    /\ ThrottleModes \subseteq {"auto", "manual"}

VARIABLES
    fc,     \* the globals and statics of the controller, see TypeOK
    link    \* Connect_flag, shared with the other core

vars == <<fc, link>>

Modes == {"INIT", "AVERAGE", "FLIGHT", "PARKING", "AUTO_LANDING", "FLIP"}

\* What a turn finds on the sticks and the sensors, and what a computation of the
\* thrust can come to.
Inputs ==
    [arm      : BOOLEAN,        \* Stick[BUTTON_ARM] = 1
     flip     : BOOLEAN,        \* Stick[BUTTON_FLIP] = 1
     throttle : ThrottleModes,
     overG    : BOOLEAN,        \* Acc_norm > 2.0
     ground   : BOOLEAN,        \* Altitude2 < 0.1
     low      : BOOLEAN]        \* a thrust computed this turn is below the threshold

RotateEnd  == RiseLen + 4 * QuarterLen
RecoverEnd == RotateEnd + RecoverLen
FlipEnd    == RotateEnd + SettleLen

-----------------------------------------------------------------------------
(* The buttons. *)

\* get_arming_button: a counter between its two bounds, the state changes beyond
\* either.
GetArmingButton(f, in) ==
    LET c == IF in.arm THEN f.armChatta + 1 ELSE f.armChatta - 1
    IN  CASE c > ArmDebounce  -> [f EXCEPT !.armed = TRUE]
          [] c < -ArmDebounce -> [f EXCEPT !.armed = FALSE]
          [] OTHER            -> [f EXCEPT !.armChatta = c]

\* Mutant: the release is waited for without a press.
JudgeModeChangeNoPress(f, in) ==
    LET b == GetArmingButton(f, in)
    IN  CASE b.chatter = 0 -> [b EXCEPT !.chatter = 1]
          [] b.chatter # 0 /\ ~b.armed -> [b EXCEPT !.chatter = IF @ = ReleaseTurns THEN 0 ELSE @ + 1]
          [] OTHER                     -> b

\* judge_mode_change: a press, then a release seen long enough, is one change.
JudgeModeChange(f, in) ==
    LET b == GetArmingButton(f, in)
    IN  CASE b.chatter = 0 /\ b.armed  -> [b EXCEPT !.chatter = 1]
          [] b.chatter # 0 /\ ~b.armed -> [b EXCEPT !.chatter = IF @ = ReleaseTurns THEN 0 ELSE @ + 1]
          [] OTHER                     -> b

Judged(before, after) == before.chatter # 0 /\ after.chatter = 0

FlipPressed(f, in) == in.flip /\ f.flipChatta = FlipDebounce

\* Mutant: the counter of the flip button is not reset once it has fired.
GetFlipButtonCountsOn(f, in) ==
    [f EXCEPT !.flipChatta = IF in.flip THEN @ + 1 ELSE 0]

\* get_flip_button: fires once, and again after as many turns if held.
GetFlipButton(f, in) ==
    [f EXCEPT !.flipChatta = IF in.flip /\ @ < FlipDebounce THEN @ + 1 ELSE 0]

-----------------------------------------------------------------------------
(* What a turn is made of. *)

\* The flag outlives its cause: only the parking turn clears it.
SensorRead(f, in) ==
    [f EXCEPT !.overG = @ \/ (in.overG /\ f.mode \notin {"INIT", "AVERAGE"})]

\* rc_isconnected: only the console (ctrl.c) or the radio reset the counter.
CountLink == link' = IF link < LinkLimit THEN link + 1 ELSE link

LinkDown == link = LinkLimit

\* Mutant: the link is not looked at.
LeaveFlightNoLink(f, in, lost) ==
    LET j == JudgeModeChange(f, in)
    IN  [j EXCEPT !.mode =
            CASE j.overG -> "PARKING"
              [] ~j.overG /\ Judged(f, j) -> "AUTO_LANDING"
              [] OTHER -> @]

\* The three decisions at the top of a flight or flip turn, the last one winning.
LeaveFlight(f, in, lost) ==
    LET j == JudgeModeChange(f, in)
    IN  [j EXCEPT !.mode =
            CASE j.overG -> "PARKING"
              [] ~j.overG /\ (Judged(f, j) \/ lost) -> "AUTO_LANDING"
              [] OTHER -> @]

\* get_command: the thrust, and the start of a flip whatever the mode was.
GetCommand(f, in) ==
    LET auto == in.throttle = "auto"
        t == [f EXCEPT !.low     = IF auto THEN f.takeoff < RampLow ELSE in.low,
                       !.takeoff = IF auto /\ @ < RampLow THEN @ + 1 ELSE @,
                       !.alt     = @ \/ auto]
        b == GetFlipButton(t, in)
    IN  CASE t.flipFlag # 0 -> t
          [] t.flipFlag = 0 /\ FlipPressed(t, in) ->
                [b EXCEPT !.flipFlag = 1, !.mode = "FLIP"]
          [] OTHER -> b

\* angle_control: below the threshold reset_angle_control forgets the flip.
AngleControl(f) ==
    IF f.low THEN [f EXCEPT !.flipFlag = 0, !.flipCounter = 0] ELSE f

\* Mutant: the motors are not stopped on over-G.
RateControlNoOverG(f, in) ==
    IF f.low /\ f.flipFlag = 0
    THEN [f EXCEPT !.flipCounter = 0, !.motors = FALSE]
    ELSE [f EXCEPT !.motors = TRUE]

\* rate_control: stops the motors on a low thrust outside a flip and on over-G,
\* drives them otherwise; altitude control and landing compute a thrust of their
\* own.
RateControl(f, in) ==
    IF f.low /\ f.flipFlag = 0
    THEN [f EXCEPT !.flipCounter = 0, !.motors = FALSE]
    ELSE LET ownThrust == (f.alt /\ f.flipFlag = 0) \/ f.mode = "AUTO_LANDING"
         IN  [f EXCEPT !.low    = IF ownThrust THEN in.low ELSE @,
                       !.motors = ~f.overG,
                       !.mode   = IF f.overG THEN "PARKING" ELSE @]

Controlled(f, in) == RateControl(AngleControl(f), in)

-----------------------------------------------------------------------------
(* One turn in each mode. *)

InitTurn(f, in) == [f EXCEPT !.motors = FALSE, !.mode = "AVERAGE"]

AverageTurn(f, in) ==
    IF f.offset < AverageNum
    THEN [f EXCEPT !.motors = FALSE, !.offset = @ + 1]
    ELSE [f EXCEPT !.motors = FALSE, !.mode = "PARKING"]

FlightTurn(f, in, lost) ==
    Controlled(GetCommand(LeaveFlight(f, in, lost), in), in)

\* Flip_flag in each stage of the rotation, from the turns done.
Quarter(k) == RiseLen + (k - 1) * QuarterLen .. RiseLen + k * QuarterLen - 1

Stage(n) ==
    CASE n < RiseLen -> 1
      [] n \in Quarter(1) -> 2
      [] n \in Quarter(2) -> 3
      [] n \in Quarter(3) -> 4
      [] n \in Quarter(4) -> 5
      [] OTHER -> 6

Step(f) == [f EXCEPT !.flipCounter = @ + 1]

\* Rise, rotation and levelling: the thrust is the flip's own, which may be below
\* the threshold in the two middle quarters.
Rotate(f, in) ==
    LET stage == Stage(f.flipCounter)
        g == [f EXCEPT !.flipFlag  = stage,
                       !.low       = stage \in {3, 4} /\ in.low,
                       !.ahrsReset = @ \/ stage = 6]
    IN  Step(RateControl(g, in))

\* The last stage is flown by hand and is to keep flips apart.
Settle(f, in) == Step(Controlled(GetCommand([f EXCEPT !.flipFlag = 0], in), in))

EndFlip(f) ==
    [f EXCEPT !.flipFlag = 0, !.ahrsReset = FALSE, !.flipCounter = 0, !.mode = "FLIGHT"]

FlipTurn(f, in, lost) ==
    LET m == LeaveFlight(f, in, lost)
    IN  CASE m.flipCounter < RecoverEnd -> Rotate(m, in)
          [] m.flipCounter >= RecoverEnd /\ m.flipCounter < FlipEnd -> Settle(m, in)
          [] OTHER -> EndFlip(m)

\* Mutant: a flip abandoned for a landing is not forgotten.
ParkingTurnKeepsFlip(f, in) ==
    LET j == JudgeModeChange(f, in)
    IN  [j EXCEPT !.mode = IF Judged(f, j) THEN "FLIGHT" ELSE @,
                  !.motors = FALSE, !.overG = FALSE, !.alt = FALSE, !.takeoff = 0]

ParkingTurn(f, in) ==
    LET j == JudgeModeChange(f, in)
    IN  [j EXCEPT !.mode = IF Judged(f, j) THEN "FLIGHT" ELSE @,
                  !.motors = FALSE, !.overG = FALSE, !.alt = FALSE, !.takeoff = 0,
                  !.flipFlag = 0, !.flipCounter = 0, !.ahrsReset = FALSE]

\* auto_landing: the descent's thrust replaces altitude control.
AutoLanding(f) == [f EXCEPT !.alt = FALSE]

LandingTurn(f, in) ==
    LET j == JudgeModeChange(AutoLanding(f), in)
    IN  Controlled([j EXCEPT !.mode = IF in.ground \/ Judged(f, j)
                                      THEN "PARKING" ELSE @], in)

-----------------------------------------------------------------------------
Init ==
    /\ fc = [mode |-> "INIT", offset |-> 0, motors |-> FALSE, low |-> TRUE,
             alt |-> FALSE, takeoff |-> 0, overG |-> FALSE,
             armChatta |-> 0, armed |-> FALSE, chatter |-> 0, flipChatta |-> 0,
             flipFlag |-> 0, flipCounter |-> 0, ahrsReset |-> FALSE]
    /\ link = 0

InitMode(in) ==
    /\ fc.mode = "INIT"
    /\ fc' = InitTurn(SensorRead(fc, in), in)
    /\ UNCHANGED link

AverageMode(in) ==
    /\ fc.mode = "AVERAGE"
    /\ fc' = AverageTurn(SensorRead(fc, in), in)
    /\ UNCHANGED link

\* A turn in flight counts the link, and asks for it.
Flight(in) ==
    /\ fc.mode = "FLIGHT"
    /\ CountLink
    /\ fc' = FlightTurn(SensorRead(fc, in), in, LinkDown')

Flip(in) ==
    /\ fc.mode = "FLIP"
    /\ CountLink
    /\ fc' = FlipTurn(SensorRead(fc, in), in, LinkDown')

Parking(in) ==
    /\ fc.mode = "PARKING"
    /\ fc' = ParkingTurn(SensorRead(fc, in), in)
    /\ UNCHANGED link

Landing(in) ==
    /\ fc.mode = "AUTO_LANDING"
    /\ fc' = LandingTurn(SensorRead(fc, in), in)
    /\ UNCHANGED link

\* A turn that finds in.
TurnOn(in) ==
    \/ InitMode(in) \/ AverageMode(in) \/ Flight(in)
    \/ Flip(in) \/ Parking(in) \/ Landing(in)

Turn == \E in \in Inputs : TurnOn(in)

\* ctrl.c's _loop, until the escape key, or a packet from the radio.  Falling
\* between the load and the store of an increment, the reset is lost: no step.
LinkAlive ==
    /\ link' = 0
    /\ UNCHANGED fc

Next == Turn \/ LinkAlive

Spec == Init /\ [][Next]_vars

\* The timer starts a turn every 2.5 ms.
FairSpec == Spec /\ WF_vars(Turn)

-----------------------------------------------------------------------------
(* Properties. *)

Flying == {"FLIGHT", "FLIP"}

Controllers ==
    [mode : Modes, offset : 0 .. AverageNum, motors : BOOLEAN, low : BOOLEAN,
     alt : BOOLEAN, takeoff : 0 .. RampLow, overG : BOOLEAN,
     armChatta : -ArmDebounce .. ArmDebounce, armed : BOOLEAN,
     chatter : 0 .. ReleaseTurns, flipChatta : 0 .. FlipDebounce,
     flipFlag : 0 .. 6, flipCounter : 0 .. FlipEnd, ahrsReset : BOOLEAN]

\* The counters stay within the limits their debouncing and stages are built on.
TypeOK == fc \in Controllers /\ link \in 0 .. LinkLimit

\* Whatever an earlier flip was abandoned for, normal flight starts with nothing
\* left of it: the next flip begins at its first stage and levels at its end
\* (flight_control.cpp:377-381, 524-526).
FlightStartsClean ==
    fc.mode = "FLIGHT" => fc.flipFlag = 0 /\ fc.flipCounter = 0 /\ ~fc.ahrsReset

\* sensor.cpp:341 "Accel fail safe": a turn that has seen over-G leaves the motors
\* stopped, whatever mode the same turn decided for.  Only the turn that ends a
\* flip drives no motor and stops none; the next one does.
FlipEnds == fc.mode = "FLIP" /\ fc.flipCounter = FlipEnd

OverGCutsMotors ==
    [][fc'.overG /\ fc'.motors => FlipEnds]_fc

\* A landing asked for with the arming button, a lost link or over-G ends flight
\* in that turn, unless a flip starts or ends in it
\* (flight_control.cpp:340-347, 424-426, 527, 694).
FlightEndsWhenTold ==
    [][ fc.mode \in Flying /\ (fc'.overG \/ Judged(fc, fc') \/ LinkDown')
        => \/ fc'.mode \in {"AUTO_LANDING", "PARKING"}
           \/ fc'.mode = "FLIP" /\ fc.flipChatta = FlipDebounce
           \/ FlipEnds ]_fc

\* A link that stays down ends flight, flip or not, whatever the flip button does.
LinkLossEndsFlight ==
    (fc.mode \in Flying /\ LinkDown) ~> (fc.mode \notin Flying \/ ~LinkDown)

\* flight_control.cpp:512, the comment on the last stage ("suppression of
\* consecutive flips"): it never turns into the first stage of another flip.
ConsecutiveFlipsSuppressed ==
    [][ /\ fc.mode = "FLIP" /\ fc.flipCounter >= RecoverEnd
        /\ fc'.mode = "FLIP"
        => fc'.flipCounter > fc.flipCounter ]_fc

\* What the proof of LinkLossEndsFlight takes from the guards (FlightModeProofs), a
\* state predicate TLC can evaluate: in flight without the link a turn can be taken
\* and changes something, for there is one that lands, ends the flip or counts it.
TurnEnabled == fc.mode \in Flying /\ LinkDown => ENABLED <<Turn>>_vars
=============================================================================
