--------------------------- MODULE StampFlyProofs ---------------------------
(***************************************************************************)
(* Proofs about StampFly, for every length of pulse, delay and debouncing. *)
(* The composition implements FlightMode, whose invariants it inherits;    *)
(* and a change of mode answers a press of its own, because no function of *)
(* a turn touches the arming button but judge_mode_change.                 *)
(***************************************************************************)
EXTENDS StampFly, FlightModeProofs

-----------------------------------------------------------------------------
(* The arming button in a turn. *)

SameButton(f, g) ==
    g.armed = f.armed /\ g.chatter = f.chatter /\ g.armChatta = f.armChatta

\* What a turn with the stick at arm makes of the button.
ButtonStep(f, g, arm) ==
    /\ g.armed /\ ~f.armed => arm
    /\ f.armed /\ ~g.armed => ~arm
    /\ g.armed => g.chatter # 0
    /\ f.chatter = 0 /\ g.chatter # 0 => g.armed

\* What the turns rely on: a button seen pressed is waited for.
Awaited(f) == f.armed => f.chatter # 0

\* The button changes its state as the stick says.
LEMMA ArmingFollowsStick ==
    ASSUME NEW f \in Controllers, NEW in \in Inputs
    PROVE  LET b == GetArmingButton(f, in) IN
           /\ b.armed /\ ~f.armed => in.arm
           /\ f.armed /\ ~b.armed => ~in.arm
<1> DEFINE c == IF in.arm THEN f.armChatta + 1 ELSE f.armChatta - 1
           b == GetArmingButton(f, in)
<1>0. ArmDebounce \in Nat /\ f.armChatta \in -ArmDebounce .. ArmDebounce /\ in.arm \in BOOLEAN
  BY ConstantsAssumption DEF Controllers, Inputs
<1>1. (c > ArmDebounce => in.arm) /\ (c < -ArmDebounce => ~in.arm) /\ c \in Int
  BY <1>0
<1> HIDE DEF c
<1>2. CASE c > ArmDebounce
  <2>1. b = [f EXCEPT !.armed = TRUE]
    BY <1>0, <1>2 DEF GetArmingButton, c
  <2> QED BY <1>1, <1>2, <2>1 DEF Controllers
<1>3. CASE c < -ArmDebounce
  <2>1. b = [f EXCEPT !.armed = FALSE]
    BY <1>0, <1>1, <1>3 DEF GetArmingButton, c
  <2> QED BY <1>1, <1>3, <2>1 DEF Controllers
<1>4. CASE ~(c > ArmDebounce) /\ ~(c < -ArmDebounce)
  <2>1. b = [f EXCEPT !.armChatta = c]
    BY <1>4 DEF GetArmingButton, c
  <2> QED BY <2>1 DEF Controllers
<1> QED
  BY <1>2, <1>3, <1>4

\* judge_mode_change is a step of the button.
LEMMA JudgeStepsButton ==
    ASSUME NEW f \in Controllers, NEW in \in Inputs, Awaited(f)
    PROVE  ButtonStep(f, JudgeModeChange(f, in), in.arm)
<1> DEFINE b == GetArmingButton(f, in)
           j == JudgeModeChange(f, in)
<1>1. /\ b \in Controllers /\ b.chatter = f.chatter
      /\ b.armed /\ ~f.armed => in.arm
      /\ f.armed /\ ~b.armed => ~in.arm
  BY ArmingFacts, ArmingFollowsStick
<1> HIDE DEF b
<1>2. CASE b.chatter = 0 /\ b.armed
  <2>1. j = [b EXCEPT !.chatter = 1]
    BY <1>2 DEF JudgeModeChange, b
  <2>2. j.armed = b.armed /\ j.chatter = 1
    BY <1>1, <2>1 DEF Controllers
  <2> QED BY <1>1, <1>2, <2>2 DEF ButtonStep
<1>3. CASE b.chatter # 0 /\ ~b.armed
  <2>1. j = [b EXCEPT !.chatter = IF @ = ReleaseTurns THEN 0 ELSE @ + 1]
    BY <1>3 DEF JudgeModeChange, b
  <2>2. j.armed = b.armed
    BY <1>1, <2>1 DEF Controllers
  <2> QED BY <1>1, <1>3, <2>2 DEF ButtonStep
<1>4. CASE ~(b.chatter = 0 /\ b.armed) /\ ~(b.chatter # 0 /\ ~b.armed)
  <2>1. j = b
    BY <1>4 DEF JudgeModeChange, b
  <2> QED BY <1>1, <1>4, <2>1 DEF ButtonStep
<1> QED
  BY <1>2, <1>3, <1>4

\* What follows judge_mode_change in a turn does not undo its step.
LEMMA StepThenSame ==
    ASSUME NEW f, NEW g, NEW h, NEW k, NEW arm,
           SameButton(f, g), ButtonStep(g, h, arm), SameButton(h, k)
    PROVE  ButtonStep(f, k, arm)
  BY DEF SameButton, ButtonStep

\* Reading the sensors does not touch the button.
LEMMA SensorKeepsButton ==
    ASSUME NEW f \in Controllers, NEW in \in Inputs
    PROVE  SameButton(f, SensorRead(f, in))
  BY DEF SensorRead, Controllers, SameButton

\* Nor does what the sticks command.
LEMMA GetCommandKeepsButton ==
    ASSUME NEW f \in Controllers, NEW in \in Inputs
    PROVE  SameButton(f, GetCommand(f, in))
<1> DEFINE t == [f EXCEPT !.low     = IF in.throttle = "auto" THEN f.takeoff < RampLow ELSE in.low,
                          !.takeoff = IF in.throttle = "auto" /\ @ < RampLow THEN @ + 1 ELSE @,
                          !.alt     = @ \/ in.throttle = "auto"]
           b == GetFlipButton(t, in)
           g == GetCommand(f, in)
<1>1. DOMAIN t = DOMAIN f /\ SameButton(f, t)
  BY DEF Controllers, SameButton
<1>2. t = [x \in DOMAIN f |-> t[x]]
  BY DEF Controllers
<1>3. DOMAIN f = {"mode", "offset", "motors", "low", "alt", "takeoff", "overG", "armChatta",
                  "armed", "chatter", "flipChatta", "flipFlag", "flipCounter", "ahrsReset"}
  BY DEF Controllers
<1>4. g \in {t, b, [b EXCEPT !.flipFlag = 1, !.mode = "FLIP"]}
  BY Zenon DEF GetCommand
<1> HIDE DEF t
<1>5. DOMAIN b = DOMAIN f /\ SameButton(t, b)
  BY <1>1, <1>2, <1>3 DEF GetFlipButton, SameButton
<1> HIDE DEF b, g
<1>6. SameButton(b, [b EXCEPT !.flipFlag = 1, !.mode = "FLIP"])
  BY <1>3, <1>5 DEF SameButton
<1>7. g = GetCommand(f, in)
  BY DEF g
<1> QED
  BY <1>1, <1>4, <1>5, <1>6, <1>7 DEF SameButton

\* Nor does the control of the attitude and the rates.
LEMMA ControlledKeepsButton ==
    ASSUME NEW f \in Controllers, NEW in \in Inputs
    PROVE  SameButton(f, RateControl(f, in)) /\ SameButton(f, Controlled(f, in))
<1>1. ASSUME NEW h \in Controllers
      PROVE  SameButton(h, RateControl(h, in))
  BY DEF RateControl, Controllers, SameButton
<1>2. SameButton(f, AngleControl(f))
  BY DEF AngleControl, Controllers, SameButton
<1>3. AngleControl(f) \in Controllers
  BY AngleFacts
<1>4. Controlled(f, in) = RateControl(AngleControl(f), in)
  BY DEF Controlled
<1>5. SameButton(AngleControl(f), RateControl(AngleControl(f), in))
  BY <1>1, <1>3
<1> QED
  BY <1>1, <1>2, <1>4, <1>5 DEF SameButton

\* Nor do the stages of a flip.
LEMMA FlipStagesKeepButton ==
    ASSUME NEW f \in Controllers, NEW in \in Inputs
    PROVE  /\ f.flipCounter < RecoverEnd => SameButton(f, Rotate(f, in))
           /\ f.flipCounter < FlipEnd => SameButton(f, Settle(f, in))
           /\ SameButton(f, EndFlip(f))
<1>0. RecoverEnd \in Nat /\ FlipEnd \in Nat /\ RecoverEnd < FlipEnd /\ f.flipCounter \in Nat
  BY ConstantsAssumption DEF FlipEnd, RecoverEnd, RotateEnd, Controllers
<1>s. ASSUME NEW r \in Controllers
      PROVE  SameButton(r, Step(r))
  BY DEF Step, Controllers, SameButton
<1>1. ASSUME f.flipCounter < RecoverEnd
      PROVE  SameButton(f, Rotate(f, in))
  <2> DEFINE stage == Stage(f.flipCounter)
             g == [f EXCEPT !.flipFlag  = stage,
                            !.low       = stage \in {3, 4} /\ in.low,
                            !.ahrsReset = @ \/ stage = 6]
  <2>1. stage \in 0 .. 6
    BY DEF Stage
  <2>2. Rotate(f, in) = Step(RateControl(g, in))
    BY DEF Rotate
  <2> HIDE DEF stage
  <2>3. g \in Controllers /\ SameButton(f, g)
    BY <2>1 DEF Controllers, SameButton
  <2> HIDE DEF g
  <2>4. RateControl(g, in) \in Controllers /\ SameButton(g, RateControl(g, in))
    BY <2>3, RateFacts, ControlledKeepsButton
  <2> QED BY <1>s, <2>2, <2>3, <2>4 DEF SameButton
<1>2. ASSUME f.flipCounter < FlipEnd
      PROVE  SameButton(f, Settle(f, in))
  <2> DEFINE a == [f EXCEPT !.flipFlag = 0]
             t == GetCommand(a, in)
  <2>1. Settle(f, in) = Step(Controlled(t, in))
    BY DEF Settle
  <2>2. a \in Controllers /\ SameButton(f, a)
    BY DEF Controllers, SameButton
  <2> HIDE DEF a
  <2>3. t \in Controllers /\ SameButton(a, t)
    BY <2>2, GetCommandFacts, GetCommandKeepsButton
  <2> HIDE DEF t
  <2>4. Controlled(t, in) \in Controllers /\ SameButton(t, Controlled(t, in))
    BY <2>3, ControlledFacts, ControlledKeepsButton
  <2> QED BY <1>s, <2>1, <2>2, <2>3, <2>4 DEF SameButton
<1>3. SameButton(f, EndFlip(f))
  BY DEF EndFlip, Controllers, SameButton
<1> QED
  BY <1>1, <1>2, <1>3

\* The decisions at the top of a turn are one step of the button.
LEMMA LeaveFlightStepsButton ==
    ASSUME NEW f \in Controllers, NEW in \in Inputs, NEW lost \in BOOLEAN, Awaited(f)
    PROVE  ButtonStep(f, LeaveFlight(f, in, lost), in.arm)
<1> DEFINE j == JudgeModeChange(f, in)
<1>1. j \in Controllers /\ ButtonStep(f, j, in.arm)
  BY JudgeFacts, JudgeStepsButton
<1>2. \E m : LeaveFlight(f, in, lost) = [j EXCEPT !.mode = m]
  BY Zenon DEF LeaveFlight
<1> HIDE DEF j
<1>3. SameButton(j, LeaveFlight(f, in, lost))
  BY <1>1, <1>2 DEF Controllers, SameButton
<1> QED
  BY <1>1, <1>3 DEF SameButton, ButtonStep

\* Whichever mode a turn starts in, it is one step of the button, and before
\* PARKING none.
LEMMA TurnStepsButton ==
    ASSUME fc \in Controllers, Awaited(fc), NEW in \in Inputs, TurnOn(in)
    PROVE  ButtonStep(fc, fc', in.arm)
<1> DEFINE f == SensorRead(fc, in)
<1>1. f \in Controllers /\ f.mode = fc.mode /\ f.flipCounter = fc.flipCounter /\ SameButton(fc, f)
  BY SensorFacts, SensorKeepsButton
<1>2. Awaited(f)
  BY <1>1 DEF Awaited, SameButton
<1> HIDE DEF f
<1>3. ASSUME NEW k, SameButton(f, k)
      PROVE  ButtonStep(fc, k, in.arm)
  BY <1>1, <1>2, <1>3 DEF SameButton, ButtonStep, Awaited
<1>4. ASSUME NEW h, NEW k, ButtonStep(f, h, in.arm), SameButton(h, k)
      PROVE  ButtonStep(fc, k, in.arm)
  BY <1>1, <1>4, StepThenSame
<1>5. CASE InitMode(in)
  <2>1. fc' = [f EXCEPT !.motors = FALSE, !.mode = "AVERAGE"]
    BY <1>5 DEF InitMode, InitTurn, f
  <2>2. SameButton(f, fc')
    BY <1>1, <2>1 DEF Controllers, SameButton
  <2> QED BY <1>3, <2>2
<1>6. CASE AverageMode(in)
  <2>1. \/ fc' = [f EXCEPT !.motors = FALSE, !.offset = @ + 1]
        \/ fc' = [f EXCEPT !.motors = FALSE, !.mode = "PARKING"]
    BY <1>6 DEF AverageMode, AverageTurn, f
  <2>2. SameButton(f, fc')
    BY <1>1, <2>1 DEF Controllers, SameButton
  <2> QED BY <1>3, <2>2
<1>7. CASE Flight(in)
  <2> DEFINE l == LeaveFlight(f, in, LinkDown')
             t == GetCommand(l, in)
  <2>0. LinkDown' \in BOOLEAN
    BY DEF LinkDown
  <2>1. fc' = Controlled(t, in)
    BY <1>7 DEF Flight, FlightTurn, f
  <2>2. l \in Controllers /\ ButtonStep(f, l, in.arm)
    BY <1>1, <1>2, <2>0, LeaveFlightFacts, LeaveFlightStepsButton
  <2> HIDE DEF l
  <2>3. t \in Controllers /\ SameButton(l, t)
    BY <2>2, GetCommandFacts, GetCommandKeepsButton
  <2> HIDE DEF t
  <2>4. SameButton(t, fc')
    BY <2>1, <2>3, ControlledKeepsButton
  <2>5. SameButton(l, fc')
    BY <2>3, <2>4 DEF SameButton
  <2> QED BY <1>4, <2>2, <2>5
<1>8. CASE Flip(in)
  <2> DEFINE l == LeaveFlight(f, in, LinkDown')
  <2>0. LinkDown' \in BOOLEAN
    BY DEF LinkDown
  <2>1. fc' = FlipTurn(f, in, LinkDown')
    BY <1>8 DEF Flip, f
  <2>2. l \in Controllers /\ ButtonStep(f, l, in.arm)
    BY <1>1, <1>2, <2>0, LeaveFlightFacts, LeaveFlightStepsButton
  <2>3. FlipTurn(f, in, LinkDown') =
          CASE l.flipCounter < RecoverEnd -> Rotate(l, in)
            [] l.flipCounter >= RecoverEnd /\ l.flipCounter < FlipEnd -> Settle(l, in)
            [] OTHER -> EndFlip(l)
    BY DEF FlipTurn
  <2> HIDE DEF l
  <2>4. \/ l.flipCounter < RecoverEnd /\ fc' = Rotate(l, in)
        \/ l.flipCounter < FlipEnd /\ fc' = Settle(l, in)
        \/ fc' = EndFlip(l)
    BY <2>1, <2>3
  <2>5. SameButton(l, fc')
    BY <2>2, <2>4, FlipStagesKeepButton
  <2> QED BY <1>4, <2>2, <2>5
<1>9. CASE Parking(in)
  <2> DEFINE j == JudgeModeChange(f, in)
  <2>1. j \in Controllers /\ ButtonStep(f, j, in.arm)
    BY <1>1, <1>2, JudgeFacts, JudgeStepsButton
  <2>2. fc' = ParkingTurn(f, in)
    BY <1>9 DEF Parking, f
  <2>3. \E m : fc' = [j EXCEPT !.mode = m,
                               !.motors = FALSE, !.overG = FALSE, !.alt = FALSE, !.takeoff = 0,
                               !.flipFlag = 0, !.flipCounter = 0, !.ahrsReset = FALSE]
    BY <2>2, Zenon DEF ParkingTurn
  <2> HIDE DEF j
  <2>4. SameButton(j, fc')
    BY <2>1, <2>3 DEF Controllers, SameButton
  <2> QED BY <1>4, <2>1, <2>4
<1>10. CASE Landing(in)
  <2> DEFINE a == AutoLanding(f)
             j == JudgeModeChange(a, in)
             m == IF in.ground \/ Judged(a, j) THEN "PARKING" ELSE j.mode
             p == [j EXCEPT !.mode = m]
  <2>1. a \in Controllers /\ SameButton(f, a)
    BY <1>1 DEF AutoLanding, Controllers, SameButton
  <2>2. Awaited(a)
    BY <1>2, <2>1 DEF Awaited, SameButton
  <2>3. fc' = LandingTurn(f, in)
    BY <1>10 DEF Landing, f
  <2>4. Judged(f, j) = Judged(a, j)
    BY <2>1 DEF Judged, SameButton
  <2>5. fc' = Controlled([j EXCEPT !.mode = IF in.ground \/ Judged(f, j) THEN "PARKING" ELSE @], in)
    BY <2>3, Zenon DEF LandingTurn
  <2> HIDE DEF a
  <2>6. j \in Controllers /\ ButtonStep(a, j, in.arm)
    BY <2>1, <2>2, JudgeFacts, JudgeStepsButton
  <2> HIDE DEF j
  <2>7. fc' = Controlled(p, in)
    BY <2>4, <2>5
  <2>8. j.mode \in Modes
    BY <2>6 DEF Controllers
  <2>9. m = "PARKING" \/ m = j.mode
    BY Zenon
  <2> HIDE DEF m
  <2>10. m \in Modes
    BY <2>8, <2>9 DEF Modes
  <2>11. p \in Controllers /\ SameButton(j, p)
    BY <2>6, <2>10 DEF Controllers, SameButton
  <2> HIDE DEF p
  <2>12. SameButton(p, fc')
    BY <2>7, <2>11, ControlledKeepsButton
  <2> QED
    BY <1>4, <2>1, <2>6, <2>11, <2>12 DEF SameButton, ButtonStep
<1> QED
  BY <1>5, <1>6, <1>7, <1>8, <1>9, <1>10 DEF TurnOn

-----------------------------------------------------------------------------
(* The composition implements FlightMode. *)

\* A step of the composition is a turn, a reset of the link or nothing to FlightMode.
LEMMA StepImplements == [FlyNext]_flyVars => [Next]_vars
<1> SUFFICES ASSUME [FlyNext]_flyVars PROVE [Next]_vars
  OBVIOUS
<1>1. CASE FlyTurn
  <2>1. Sticks \subseteq Inputs
    BY DEF Sticks
  <2> QED BY <1>1, <2>1 DEF FlyTurn, Next, Turn
<1>2. CASE Loop
  BY <1>2 DEF Loop, KeepAlive, Next, LinkAlive, vars
<1>3. CASE On \/ Escape \/ SetSeq \/ SetStop \/ SetArm \/ Wait \/ WaitEnds
  BY <1>3 DEF On, Escape, SetSeq, SetStop, SetArm, Wait, WaitEnds, Typed, vars
<1>4. CASE UNCHANGED flyVars
  BY <1>4 DEF flyVars, vars
<1> QED
  BY <1>1, <1>2, <1>3, <1>4 DEF FlyNext, Console

\* Under the console of ctrl.c the flight modes do only what FlightMode says they do
\* under any sticks (ctrl.c:45-87).
THEOREM FlyImplementsFlightMode == FlySpec => Spec
<1>1. FlyInit => Init
  BY DEF FlyInit
<1> QED
  BY <1>1, StepImplements, PTL DEF FlySpec, Spec

\* Hence what is proved of the flight modes holds of the vehicle as it is built.
THEOREM FlyKeepsModes ==
    FlySpec => []TypeOK /\ []FlightStartsClean /\ OverGCutsMotors /\ FlightEndsWhenTold
  BY FlyImplementsFlightMode, TypeCorrect, FlightIsClean, OverGStops, FlightEnds

-----------------------------------------------------------------------------
(* A change of mode answers a press. *)

\* The stick and the count of the pulse, and the history.
Ctls == [stop : BOOLEAN, onCount : Nat, seq : 0 .. 5, arm : BOOLEAN, auto : BOOLEAN]

PulseOK ==
    /\ ctl \in Ctls
    /\ hist.presses \in Nat /\ hist.toggles \in Nat
    /\ hist = [presses |-> hist.presses, toggles |-> hist.toggles,
               purpose |-> hist.purpose, disturbed |-> hist.disturbed]

\* A press seen by judge_mode_change and one that the debouncing has yet to see are
\* not answered.
PressesAhead ==
    hist.toggles + (IF fc.chatter # 0 THEN 1 ELSE 0)
                 + (IF ctl.arm /\ ~fc.armed THEN 1 ELSE 0) <= hist.presses

FlyIInv == PulseOK /\ Awaited(fc) /\ PressesAhead

\* The updates of the console's statics keep their types, and all but one the stick.
LEMMA CtlUpdates ==
    ASSUME NEW c \in Ctls
    PROVE  /\ \A q \in 0 .. 5 : [c EXCEPT !.seq = q] \in Ctls /\ [c EXCEPT !.seq = q].arm = c.arm
           /\ \A n \in Nat : [c EXCEPT !.onCount = n] \in Ctls /\ [c EXCEPT !.onCount = n].arm = c.arm
           /\ \A b \in BOOLEAN : [c EXCEPT !.stop = b] \in Ctls /\ [c EXCEPT !.stop = b].arm = c.arm
           /\ \A b \in BOOLEAN : [c EXCEPT !.auto = b] \in Ctls /\ [c EXCEPT !.auto = b].arm = c.arm
           /\ \A b \in BOOLEAN : [c EXCEPT !.arm = b] \in Ctls
<1>1. \A q \in 0 .. 5 : [c EXCEPT !.seq = q] \in Ctls /\ [c EXCEPT !.seq = q].arm = c.arm
  BY DEF Ctls
<1>2. \A n \in Nat : [c EXCEPT !.onCount = n] \in Ctls /\ [c EXCEPT !.onCount = n].arm = c.arm
  BY DEF Ctls
<1>3. \A b \in BOOLEAN : [c EXCEPT !.stop = b] \in Ctls /\ [c EXCEPT !.stop = b].arm = c.arm
  BY DEF Ctls
<1>4. \A b \in BOOLEAN : [c EXCEPT !.auto = b] \in Ctls /\ [c EXCEPT !.auto = b].arm = c.arm
  BY DEF Ctls
<1>5. \A b \in BOOLEAN : [c EXCEPT !.arm = b] \in Ctls
  BY DEF Ctls
<1> QED
  BY Zenon, <1>1, <1>2, <1>3, <1>4, <1>5

\* A call of _loop presses the stick at most once, and counts it.
LEMMA LoopInv ==
    ASSUME FlyIInv, fc \in Controllers, Loop
    PROVE  FlyIInv'
<1> DEFINE c == CountPulse(ctl)
           s == Sequence(c)
           p == IF s.arm /\ ~ctl.arm THEN hist.presses + 1 ELSE hist.presses
<1>0. ctl \in Ctls
  BY DEF FlyIInv, PulseOK
<1>1. c \in Ctls
  <2> DEFINE last == ctl.onCount > 1
  <2>1. last \in BOOLEAN
    OBVIOUS
  <2>2. c = IF ctl.onCount > 0 THEN [ctl EXCEPT !.onCount = @ - 1, !.arm = last] ELSE ctl
    BY DEF CountPulse
  <2>3. ctl.onCount > 0 => ctl.onCount - 1 \in Nat
    BY <1>0 DEF Ctls
  <2> DEFINE d == [ctl EXCEPT !.onCount = @ - 1]
  <2>4. c = IF ctl.onCount > 0 THEN [d EXCEPT !.arm = last] ELSE ctl
    BY <2>2
  <2> HIDE DEF c, last
  <2>5. ctl.onCount > 0 => d \in Ctls
    BY <1>0, <2>3, CtlUpdates
  <2> HIDE DEF d
  <2>6. ctl.onCount > 0 => [d EXCEPT !.arm = last] \in Ctls
    BY <2>1, <2>5, CtlUpdates
  <2> QED BY <1>0, <2>4, <2>6
<1>2. ctl' = s /\ fc' = fc
  BY DEF Loop
<1>3. hist' = [hist EXCEPT !.presses = IF ctl'.arm /\ ~ctl.arm THEN @ + 1 ELSE @,
                           !.purpose = PurposeOf(ctl, ctl')]
  BY DEF Loop
<1> HIDE DEF c
<1>4. s \in Ctls
  <2>1. /\ [c EXCEPT !.seq = 0] \in Ctls
        /\ [c EXCEPT !.seq = 2] \in Ctls
        /\ [c EXCEPT !.seq = 0, !.onCount = PulseLen] \in Ctls
        /\ [c EXCEPT !.seq = 4, !.auto = TRUE, !.onCount = PulseLen] \in Ctls
    <3> DEFINE l == [c EXCEPT !.seq = 0]
               u == [c EXCEPT !.seq = 4]
               v == [u EXCEPT !.auto = TRUE]
    <3>0. PulseLen \in Nat
      BY ConsoleAssumption
    <3>1. l \in Ctls /\ u \in Ctls /\ [c EXCEPT !.seq = 2] \in Ctls
      <4>1. 0 \in 0 .. 5 /\ 2 \in 0 .. 5 /\ 4 \in 0 .. 5
        OBVIOUS
      <4> QED BY Zenon, <1>1, <4>1, CtlUpdates
    <3>2. [c EXCEPT !.seq = 0, !.onCount = PulseLen] = [l EXCEPT !.onCount = PulseLen]
      OBVIOUS
    <3>3. [c EXCEPT !.seq = 4, !.auto = TRUE, !.onCount = PulseLen] = [v EXCEPT !.onCount = PulseLen]
      OBVIOUS
    <3> HIDE DEF u, v
    <3>4. v \in Ctls
      BY <3>1, CtlUpdates DEF v
    <3> HIDE DEF l
    <3>5. [l EXCEPT !.onCount = PulseLen] \in Ctls /\ [v EXCEPT !.onCount = PulseLen] \in Ctls
      BY <3>0, <3>1, <3>4, CtlUpdates
    <3> QED BY <3>1, <3>2, <3>3, <3>5 DEF l
  <2> QED BY <1>1, <2>1 DEF Sequence
<1> HIDE DEF s
<1>5. /\ hist'.presses = p /\ hist'.toggles = hist.toggles
      /\ hist' = [presses |-> hist'.presses, toggles |-> hist'.toggles,
                  purpose |-> hist'.purpose, disturbed |-> hist'.disturbed]
  BY <1>2, <1>3 DEF FlyIInv, PulseOK
<1>6. PulseOK'
  BY <1>2, <1>4, <1>5 DEF FlyIInv, PulseOK
<1>7. Awaited(fc)'
  BY <1>2 DEF FlyIInv, Awaited
<1>8. PressesAhead'
  BY <1>0, <1>2, <1>4, <1>5 DEF FlyIInv, PulseOK, PressesAhead
<1> QED
  BY <1>6, <1>7, <1>8 DEF FlyIInv

\* What the user types moves no stick, `arm=` apart.
LEMMA TypedInv ==
    ASSUME FlyIInv, On \/ Escape \/ SetSeq \/ SetStop \/ Wait \/ WaitEnds
    PROVE  FlyIInv'
<1>0. ctl \in Ctls /\ fc' = fc
  BY DEF FlyIInv, PulseOK, On, Escape, SetSeq, SetStop, Wait, WaitEnds, Typed
<1>1. \/ ctl' = [ctl EXCEPT !.stop = FALSE, !.onCount = PulseLen]
      \/ ctl' = [ctl EXCEPT !.stop = TRUE, !.onCount = 0]
      \/ \E q \in 0 .. 5 : ctl' = [ctl EXCEPT !.seq = q]
      \/ \E b \in BOOLEAN : ctl' = [ctl EXCEPT !.stop = b]
      \/ ctl' = ctl
  <2>1. CASE SetSeq
    BY <2>1, ConsoleAssumption DEF SetSeq
  <2>2. CASE SetStop
    BY <2>2 DEF SetStop
  <2> QED BY <2>1, <2>2 DEF On, Escape, Wait, WaitEnds
<1>2. ctl'.arm = ctl.arm /\ ctl' \in Ctls
  <2> DEFINE u == [ctl EXCEPT !.stop = FALSE]
             v == [ctl EXCEPT !.stop = TRUE]
  <2>0. PulseLen \in Nat /\ 0 \in Nat
    BY ConsoleAssumption
  <2>1. \/ ctl' = [u EXCEPT !.onCount = PulseLen]
        \/ ctl' = [v EXCEPT !.onCount = 0]
        \/ \E q \in 0 .. 5 : ctl' = [ctl EXCEPT !.seq = q]
        \/ \E b \in BOOLEAN : ctl' = [ctl EXCEPT !.stop = b]
        \/ ctl' = ctl
    BY <1>1
  <2>2. u \in Ctls /\ v \in Ctls /\ u.arm = ctl.arm /\ v.arm = ctl.arm
    BY <1>0, CtlUpdates
  <2> HIDE DEF u, v
  <2>3. /\ [u EXCEPT !.onCount = PulseLen] \in Ctls
        /\ [u EXCEPT !.onCount = PulseLen].arm = ctl.arm
    BY <2>0, <2>2, CtlUpdates
  <2>4. /\ [v EXCEPT !.onCount = 0] \in Ctls
        /\ [v EXCEPT !.onCount = 0].arm = ctl.arm
    BY <2>0, <2>2, CtlUpdates
  <2>5. \A q \in 0 .. 5 : [ctl EXCEPT !.seq = q] \in Ctls /\ [ctl EXCEPT !.seq = q].arm = ctl.arm
    BY <1>0, CtlUpdates
  <2>6. \A b \in BOOLEAN : [ctl EXCEPT !.stop = b] \in Ctls /\ [ctl EXCEPT !.stop = b].arm = ctl.arm
    BY <1>0, CtlUpdates
  <2> QED BY <1>0, <2>1, <2>3, <2>4, <2>5, <2>6
<1>3. /\ hist'.presses = hist.presses /\ hist'.toggles = hist.toggles
      /\ hist' = [presses |-> hist'.presses, toggles |-> hist'.toggles,
                  purpose |-> hist'.purpose, disturbed |-> hist'.disturbed]
  BY DEF FlyIInv, PulseOK, On, Escape, SetSeq, SetStop, Wait, WaitEnds
<1> QED
  BY <1>0, <1>2, <1>3 DEF FlyIInv, PulseOK, Awaited, PressesAhead

\* `arm=` presses the stick or lets go of it.
LEMMA SetArmInv ==
    ASSUME FlyIInv, SetArm
    PROVE  FlyIInv'
<1> DEFINE up == ~ctl.arm
<1>0. ctl \in Ctls /\ fc' = fc
  BY DEF FlyIInv, PulseOK, SetArm, Typed
<1>1. up \in BOOLEAN /\ ctl' = [ctl EXCEPT !.arm = up]
  BY DEF SetArm
<1>2. ctl' \in Ctls /\ ctl'.arm = up
  <2>1. ctl'.arm = up
    BY <1>0, <1>1 DEF Ctls
  <2> HIDE DEF up
  <2> QED BY <1>0, <1>1, <2>1, CtlUpdates
<1>3. /\ hist'.presses = IF ctl.arm THEN hist.presses ELSE hist.presses + 1
      /\ hist'.toggles = hist.toggles
      /\ hist' = [presses |-> hist'.presses, toggles |-> hist'.toggles,
                  purpose |-> hist'.purpose, disturbed |-> hist'.disturbed]
  BY DEF FlyIInv, PulseOK, SetArm
<1>4. PulseOK'
  BY <1>2, <1>3 DEF FlyIInv, PulseOK
<1>5. PressesAhead'
  BY <1>0, <1>2, <1>3 DEF FlyIInv, PulseOK, PressesAhead
<1> QED
  BY <1>0, <1>4, <1>5 DEF FlyIInv, Awaited

\* A turn answers a press it was told of, or keeps it.
LEMMA FlyTurnInv ==
    ASSUME FlyIInv, fc \in Controllers, FlyTurn
    PROVE  FlyIInv'
<1>1. PICK in \in Sticks : TurnOn(in)
  BY DEF FlyTurn
<1>2. in \in Inputs /\ in.arm = ctl.arm
  BY DEF Sticks
<1>3. ButtonStep(fc, fc', ctl.arm)
  BY <1>1, <1>2, TurnStepsButton DEF FlyIInv
<1>4. /\ ctl' = ctl
      /\ hist'.presses = hist.presses
      /\ hist'.toggles = IF Judged(fc, fc') THEN hist.toggles + 1 ELSE hist.toggles
      /\ hist' = [presses |-> hist'.presses, toggles |-> hist'.toggles,
                  purpose |-> hist'.purpose, disturbed |-> hist'.disturbed]
  BY DEF FlyTurn, FlyIInv, PulseOK
<1>5. PulseOK'
  BY <1>4 DEF FlyIInv, PulseOK
<1>6. Awaited(fc)'
  BY <1>3 DEF ButtonStep, Awaited
<1>7. PressesAhead'
  <2>1. hist.presses \in Nat /\ hist.toggles \in Nat /\ PressesAhead /\ Awaited(fc)
    BY DEF FlyIInv, PulseOK
  <2> QED BY <1>3, <1>4, <2>1 DEF ButtonStep, Awaited, PressesAhead, Judged
<1> QED
  BY <1>5, <1>6, <1>7 DEF FlyIInv

\* The types, the button waited for and the presses not yet answered are inductive
\* together, for every length of pulse and delay.
THEOREM FlyInductive == FlySpec => []FlyIInv
<1>1. FlyInit => FlyIInv
  <2> SUFFICES ASSUME FlyInit PROVE FlyIInv
    OBVIOUS
  <2>1. /\ ctl = [stop |-> FALSE, onCount |-> 0, seq |-> 1, arm |-> FALSE, auto |-> FALSE]
        /\ hist = [presses |-> 0, toggles |-> 0, purpose |-> "none", disturbed |-> FALSE]
        /\ fc.chatter = 0 /\ fc.armed = FALSE
    BY DEF FlyInit, Init
  <2>2. ctl \in Ctls /\ ctl.arm = FALSE
    BY <2>1 DEF Ctls
  <2>3. PulseOK
    BY <2>1, <2>2 DEF PulseOK
  <2>4. Awaited(fc) /\ PressesAhead
    BY <2>1, <2>2 DEF Awaited, PressesAhead
  <2> QED BY <2>3, <2>4 DEF FlyIInv
<1>2. TypeOK /\ FlyIInv /\ [FlyNext]_flyVars => FlyIInv'
  <2> SUFFICES ASSUME TypeOK, FlyIInv, [FlyNext]_flyVars PROVE FlyIInv'
    OBVIOUS
  <2>0. fc \in Controllers
    BY DEF TypeOK
  <2>1. CASE FlyTurn
    BY <2>0, <2>1, FlyTurnInv
  <2>2. CASE Loop
    BY <2>0, <2>2, LoopInv
  <2>3. CASE On \/ Escape \/ SetSeq \/ SetStop \/ Wait \/ WaitEnds
    BY <2>3, TypedInv
  <2>4. CASE SetArm
    BY <2>4, SetArmInv
  <2>5. CASE UNCHANGED flyVars
    BY <2>5 DEF flyVars, vars, consoleVars, FlyIInv, PulseOK, Awaited, PressesAhead
  <2> QED BY <2>1, <2>2, <2>3, <2>4, <2>5 DEF FlyNext, Console
<1> QED
  BY <1>1, <1>2, FlyKeepsModes, PTL DEF FlySpec

\* One press of the stick is at most one change of mode, however the pulses overlap,
\* are cut short or are lost in the debouncing (flight_control.cpp:531-550, 1044-1061).
THEOREM PressAnsweredOnce == FlySpec => []PressTogglesOnce
<1>1. FlyIInv => PressTogglesOnce
  BY DEF FlyIInv, PulseOK, PressesAhead, PressTogglesOnce
<1> QED
  BY <1>1, FlyInductive, PTL

-----------------------------------------------------------------------------
(* The emergency stop.                                                     *)

\* The turns the escape key leaves a vehicle in flight: those until the link is
\* given up, and three more.
StopTurns == IF LinkDown THEN TurnsLeft(fc) ELSE LinkLimit - link + 3

\* Once the key is read, each turn in flight brings its end nearer, and no
\* cycle or command of the console puts it off while the stop stands.
StopBound ==
    /\ [](fc.mode \in Flying => StopTurns \in 1 .. LinkLimit + 3)
    /\ [][ fc.mode \in Flying /\ ctl.stop =>
              IF FlyTurn THEN fc'.mode \notin Flying \/ StopTurns' < StopTurns
                         ELSE StopTurns' = StopTurns ]_flyVars

\* A turn in flight counts the link, which nobody resets meanwhile.
LEMMA FlyTurnCounts ==
    ASSUME IInv, fc.mode \in Flying, FlyTurn
    PROVE  Turn /\ IInv' /\ link' = IF LinkDown THEN LinkLimit ELSE link + 1
<1>1. PICK in \in Sticks : TurnOn(in)
  BY DEF FlyTurn
<1>2. Turn
  BY <1>1 DEF Sticks, Turn
<1>3. IInv'
  BY <1>2, TurnStep
<1>4. CountLink
  BY <1>1 DEF TurnOn, InitMode, AverageMode, Flight, Flip, Parking, Landing, Flying
<1>5. link \in 0 .. LinkLimit /\ LinkLimit \in Nat
  BY ConstantsAssumption DEF IInv, TypeOK
<1> QED
  BY <1>2, <1>3, <1>4, <1>5 DEF CountLink, LinkDown

\* The escape key ends flight within LinkLimit and three turns of the controller,
\* however the console's cycles fall between them, whatever else the user types
\* that does not undo it and whatever the flip button does (ctrl.c:45-54, 104-109).
THEOREM StopEndsFlightSoon == FlipDebounce # 0 => (FlySpec => StopBound)
<1> SUFFICES ASSUME FlipDebounce # 0 PROVE FlySpec => StopBound
  OBVIOUS
<1>0. LinkLimit \in Nat \ {0}
  BY ConstantsAssumption
<1>1. ASSUME IInv PROVE fc.mode \in Flying => StopTurns \in 1 .. LinkLimit + 3
  <2>1. link \in 0 .. LinkLimit /\ fc \in Controllers
    BY <1>1 DEF IInv, TypeOK
  <2>2. TurnsLeft(fc) \in 0 .. 3 /\ (fc.mode \in Flying <=> TurnsLeft(fc) # 0)
    BY <2>1, TurnsLeftType
  <2> HIDE DEF TurnsLeft
  <2> QED BY <1>0, <2>1, <2>2 DEF StopTurns, LinkDown
<1>2. ASSUME IInv, fc.mode \in Flying, FlyTurn
      PROVE  fc'.mode \notin Flying \/ StopTurns' < StopTurns
  <2>1. /\ Turn /\ IInv'
        /\ link' = IF LinkDown THEN LinkLimit ELSE link + 1
    BY <1>2, FlyTurnCounts
  <2>2. link \in 0 .. LinkLimit
    BY <1>2 DEF IInv, TypeOK
  <2>3. fc' \in Controllers
    BY <2>1 DEF IInv, TypeOK
  <2>4. TurnsLeft(fc') \in 0 .. 3
    BY <2>3, TurnsLeftType
  <2>5. CASE LinkDown
    <3>1. LinkDown' /\ TurnsLeft(fc') < TurnsLeft(fc)
      BY <1>2, <2>1, <2>5, TurnStep
    <3> QED BY <2>5, <3>1 DEF StopTurns
  <2>6. CASE ~LinkDown
    <3>1. link' = link + 1 /\ link < LinkLimit
      BY <1>0, <2>1, <2>2, <2>6 DEF LinkDown
    <3>2. StopTurns = LinkLimit - link + 3
      BY <2>6 DEF StopTurns
    <3>3. StopTurns' = IF LinkDown' THEN TurnsLeft(fc') ELSE LinkLimit - link' + 3
      BY DEF StopTurns
    <3> HIDE DEF TurnsLeft
    <3> QED BY <1>0, <2>2, <2>4, <3>1, <3>2, <3>3
  <2> QED BY <2>5, <2>6
<1>3. ASSUME ctl.stop, [FlyNext]_flyVars, ~FlyTurn PROVE StopTurns' = StopTurns
  <2>1. fc' = fc /\ link' = link
    BY <1>3 DEF FlyNext, Console, Loop, KeepAlive, On, Escape, SetSeq, SetStop, SetArm,
       Wait, WaitEnds, Typed, flyVars, vars
  <2> QED BY <2>1 DEF StopTurns, LinkDown, TurnsLeft
<1>4. IInv /\ [FlyNext]_flyVars =>
        [ fc.mode \in Flying /\ ctl.stop =>
            IF FlyTurn THEN fc'.mode \notin Flying \/ StopTurns' < StopTurns
                       ELSE StopTurns' = StopTurns ]_flyVars
  BY <1>2, <1>3
<1>5. FlySpec => []IInv
  BY FlyImplementsFlightMode, Inductive, PTL
<1> QED
  BY <1>1, <1>4, <1>5, PTL DEF FlySpec, StopBound

-----------------------------------------------------------------------------
(* The sequence, left alone.  Its pulses must be long enough for the         *)
(* debouncing and its landing late enough for the first pulse to have been   *)
(* answered, at whatever pace the console runs.                              *)

\* The flip button is not pressed; the vehicle is parked when it is to take off; the
\* stick is up longer than the debouncing takes from one end to the other; and down,
\* debounced and seen released before it is to land.
DelaysSuffice ==
    /\ FlipStick \subseteq {FALSE}
    /\ AverageNum + 2 <= TakeOffDelay
    /\ 2 * ArmDebounce + 1 <= (PulseLen - 1) * CycleTurns
    /\ PulseLen * MaxPace + 2 * ArmDebounce + ReleaseTurns <= LandDelay

\* The most turns in the cycles of a pulse when n are left to count, and the least
\* with the stick up.
Most(n) == (PulseLen - n) * MaxPace

Least(n) == (PulseLen - 1 - n) * CycleTurns

\* A cycle more is MaxPace turns more at most and CycleTurns at least.
LEMMA Cycles ==
    /\ \A n \in 0 .. PulseLen : Most(n) \in Nat
    /\ \A n \in 0 .. PulseLen - 1 : Least(n) \in Nat
    /\ \A n \in 1 .. PulseLen : Most(n - 1) = Most(n) + MaxPace
    /\ \A n \in 1 .. PulseLen - 1 : Least(n - 1) = Least(n) + CycleTurns
    /\ Most(PulseLen) = 0 /\ Least(PulseLen - 1) = 0
    /\ Most(0) = PulseLen * MaxPace /\ Least(0) = (PulseLen - 1) * CycleTurns
    /\ \A n \in 1 .. PulseLen : Most(n) + MaxPace <= Most(0)
<1>1. PulseLen \in Nat \ {0} /\ MaxPace \in Nat /\ CycleTurns \in Nat
  BY ConsoleAssumption
<1>2. ASSUME NEW a \in Nat, NEW b \in Nat
      PROVE  a * b \in Nat /\ (a + 1) * b = a * b + b /\ 0 * b = 0
  BY <1>2
<1>3. ASSUME NEW n \in 0 .. PulseLen PROVE Most(n) \in Nat
  <2>1. PulseLen - n \in Nat
    BY <1>1
  <2> QED BY <1>1, <1>2, <2>1 DEF Most
<1>4. ASSUME NEW n \in 0 .. PulseLen - 1 PROVE Least(n) \in Nat
  <2>1. PulseLen - 1 - n \in Nat
    BY <1>1
  <2> QED BY <1>1, <1>2, <2>1 DEF Least
<1>5. ASSUME NEW n \in 1 .. PulseLen PROVE Most(n - 1) = Most(n) + MaxPace
  <2>1. PulseLen - n \in Nat /\ PulseLen - (n - 1) = (PulseLen - n) + 1
    BY <1>1
  <2>2. ((PulseLen - n) + 1) * MaxPace = (PulseLen - n) * MaxPace + MaxPace
    BY <1>1, <1>2, <2>1
  <2> QED BY <2>1, <2>2 DEF Most
<1>6. ASSUME NEW n \in 1 .. PulseLen - 1 PROVE Least(n - 1) = Least(n) + CycleTurns
  <2>1. PulseLen - 1 - n \in Nat /\ PulseLen - 1 - (n - 1) = (PulseLen - 1 - n) + 1
    BY <1>1
  <2>2. ((PulseLen - 1 - n) + 1) * CycleTurns = (PulseLen - 1 - n) * CycleTurns + CycleTurns
    BY <1>1, <1>2, <2>1
  <2> QED BY <2>1, <2>2 DEF Least
<1>7. Most(PulseLen) = 0 /\ Least(PulseLen - 1) = 0
  <2>1. PulseLen - PulseLen = 0 /\ PulseLen - 1 - (PulseLen - 1) = 0
    BY <1>1
  <2> QED BY <1>1, <2>1 DEF Most, Least
<1>8. Most(0) = PulseLen * MaxPace /\ Least(0) = (PulseLen - 1) * CycleTurns
  <2>1. PulseLen - 0 = PulseLen /\ PulseLen - 1 - 0 = PulseLen - 1
    BY <1>1
  <2> QED BY <2>1 DEF Most, Least
<1>9. ASSUME NEW n \in 1 .. PulseLen PROVE Most(n) + MaxPace <= Most(0)
  <2>1. n - 1 \in Nat /\ PulseLen - n \in Nat /\ PulseLen = (PulseLen - n) + 1 + (n - 1)
    BY <1>1
  <2>2. ASSUME NEW a \in Nat, NEW b \in Nat, NEW m \in Nat
        PROVE  a * m + m <= (a + 1 + b) * m
    <3>1. b * m \in Nat /\ (a + 1 + b) * m = a * m + m + b * m /\ a * m \in Nat
      BY <2>2
    <3> QED BY <3>1
  <2>3. (PulseLen - n) * MaxPace + MaxPace <= PulseLen * MaxPace
    BY <1>1, <2>1, <2>2
  <2> QED BY <1>8, <2>3 DEF Most
<1> QED
  BY <1>3, <1>4, <1>5, <1>6, <1>7, <1>8, <1>9

Idle(f) == ~f.armed /\ f.chatter = 0

\* The stick while a pulse is counted, and what the button can have seen of it.
PulseShape ==
    /\ ctl.onCount <= PulseLen
    /\ ctl.arm <=> ctl.onCount \in 1 .. PulseLen - 1
    /\ ctl.onCount = PulseLen => Idle(fc)
    /\ ctl.arm => (fc.armed <=> fc.chatter # 0)

\* Until take-off the turns since the start have at most averaged the offsets.
BeforeTakeOff ==
    /\ ctl.onCount = 0 /\ Idle(fc)
    /\ fc.mode \in {"INIT", "AVERAGE", "PARKING"}
    /\ fc.mode = "INIT" => clock = 0
    /\ fc.mode = "AVERAGE" => clock <= fc.offset + 1

\* The take-off press on its way through the debouncing, and the turns it has taken.
TakingOff ==
    /\ fc.mode = "PARKING"
    /\ pace <= MaxPace
    /\ fc.armed => fc.chatter = 1
    /\ ctl.onCount > 0 => clock <= Most(ctl.onCount) + pace
    /\ ctl.arm /\ ~fc.armed => Least(ctl.onCount) + pace <= fc.armChatta + ArmDebounce
    /\ ctl.onCount = 0 => /\ fc.chatter # 0
                          /\ fc.armed => clock <= Most(0) + ArmDebounce - fc.armChatta
                          /\ ~fc.armed => clock <= Most(0) + 2 * ArmDebounce + fc.chatter - 1

TakenOff == fc.mode = "FLIGHT" /\ Idle(fc) /\ ctl.onCount = 0

\* The landing press finds the vehicle in flight; answered, it is the last.
ToLand == fc.mode = "FLIGHT" \/ (Idle(fc) /\ ctl.onCount = 0)

Phases ==
    /\ ~ctl.stop /\ ~waiting
    /\ ctl.seq \in {0, 1, 2, 4}
    /\ PulseShape
    /\ ctl.seq \in {1, 2} => BeforeTakeOff
    /\ ctl.seq = 4 => hist.purpose = "take-off" /\ (TakingOff \/ TakenOff)
    /\ ctl.seq = 0 => hist.purpose = "landing" /\ ToLand

SeqInv ==
    /\ clock \in Nat /\ pace \in Nat
    /\ ~hist.disturbed => Phases

-----------------------------------------------------------------------------
(* The button, turn by turn. *)

Released(n) == IF n = ReleaseTurns THEN 0 ELSE n + 1

\* What judge_mode_change counts in one turn.
CountStep(f, g, arm) ==
    /\ ~arm /\ Idle(f) => Idle(g)
    /\ arm /\ Idle(f) => \/ Idle(g) /\ g.armChatta = f.armChatta + 1
                         \/ g.armed /\ g.chatter = 1
    /\ arm /\ f.armed /\ f.chatter # 0 => g.armed /\ g.chatter = f.chatter
    /\ ~arm /\ f.armed /\ f.chatter # 0 =>
          \/ g.armed /\ g.chatter = f.chatter /\ g.armChatta = f.armChatta - 1
          \/ ~g.armed /\ f.armChatta = -ArmDebounce /\ g.chatter = Released(f.chatter)
    /\ ~arm /\ ~f.armed /\ f.chatter # 0 => ~g.armed /\ g.chatter = Released(f.chatter)

\* judge_mode_change counts the stick up or down, and then the turns of the release.
LEMMA JudgeCounts ==
    ASSUME NEW f \in Controllers, NEW in \in Inputs
    PROVE  CountStep(f, JudgeModeChange(f, in), in.arm)
<1> DEFINE c == IF in.arm THEN f.armChatta + 1 ELSE f.armChatta - 1
           b == GetArmingButton(f, in)
           j == JudgeModeChange(f, in)
<1>0. /\ ArmDebounce \in Nat /\ f.armChatta \in -ArmDebounce .. ArmDebounce
      /\ in.arm \in BOOLEAN /\ f.armed \in BOOLEAN /\ f.chatter \in Nat
  BY ConstantsAssumption DEF Controllers, Inputs
<1>1. /\ b \in Controllers /\ b.chatter = f.chatter
      /\ \/ in.arm /\ b.armed /\ f.armChatta + 1 > ArmDebounce
         \/ ~in.arm /\ ~b.armed /\ f.armChatta = -ArmDebounce
         \/ b.armed = f.armed /\ b.armChatta = c
  <2>1. b \in Controllers /\ b.chatter = f.chatter
    BY ArmingFacts
  <2>2. (c > ArmDebounce => in.arm) /\ (c < -ArmDebounce => ~in.arm /\ f.armChatta = -ArmDebounce)
        /\ c \in Int
    BY <1>0
  <2>c. in.arm => c = f.armChatta + 1
    OBVIOUS
  <2> HIDE DEF c
  <2>3. CASE c > ArmDebounce
    <3>1. b = [f EXCEPT !.armed = TRUE]
      BY <1>0, <2>3 DEF GetArmingButton, c
    <3>2. b.armed = TRUE
      BY <3>1 DEF Controllers
    <3> HIDE DEF b
    <3> QED BY <2>1, <2>2, <2>3, <2>c, <3>2
  <2>4. CASE c < -ArmDebounce
    <3>1. b = [f EXCEPT !.armed = FALSE]
      BY <1>0, <2>2, <2>4 DEF GetArmingButton, c
    <3>2. b.armed = FALSE
      BY <3>1 DEF Controllers
    <3> HIDE DEF b
    <3> QED BY <2>1, <2>2, <2>4, <3>2
  <2>5. CASE ~(c > ArmDebounce) /\ ~(c < -ArmDebounce)
    <3>1. b = [f EXCEPT !.armChatta = c]
      BY <2>5 DEF GetArmingButton, c
    <3>2. b.armed = f.armed /\ b.armChatta = c
      BY <3>1 DEF Controllers
    <3> HIDE DEF b
    <3> QED BY <2>1, <3>2
  <2> QED BY <2>3, <2>4, <2>5
<1> HIDE DEF b
<1>2. j.armed = b.armed /\ j.armChatta = b.armChatta
      /\ j.chatter = IF b.chatter = 0 /\ b.armed THEN 1
                     ELSE IF b.chatter # 0 /\ ~b.armed THEN Released(b.chatter) ELSE b.chatter
  <2>1. CASE b.chatter = 0 /\ b.armed
    <3>1. j = [b EXCEPT !.chatter = 1]
      BY <2>1 DEF JudgeModeChange, b
    <3> QED BY <1>1, <2>1, <3>1 DEF Controllers
  <2>2. CASE b.chatter # 0 /\ ~b.armed
    <3>1. j = [b EXCEPT !.chatter = Released(@)]
      BY <2>2 DEF JudgeModeChange, b, Released
    <3> QED BY <1>1, <2>2, <3>1 DEF Controllers
  <2>3. CASE ~(b.chatter = 0 /\ b.armed) /\ ~(b.chatter # 0 /\ ~b.armed)
    <3>1. j = b
      BY <2>3 DEF JudgeModeChange, b
    <3> QED BY <2>3, <3>1
  <2> QED BY <2>1, <2>2, <2>3
<1> HIDE DEF j
<1>3. /\ f.chatter = 0 /\ b.armed => j.chatter = 1
      /\ f.chatter = 0 /\ ~b.armed => j.chatter = 0
      /\ f.chatter # 0 /\ b.armed => j.chatter = f.chatter
      /\ f.chatter # 0 /\ ~b.armed => j.chatter = Released(f.chatter)
  BY <1>1, <1>2
<1>4. /\ in.arm /\ ~f.armed => b.armed \/ (~b.armed /\ b.armChatta = f.armChatta + 1)
      /\ in.arm /\ f.armed => b.armed
      /\ ~in.arm /\ f.armed =>
            \/ b.armed /\ b.armChatta = f.armChatta - 1
            \/ ~b.armed /\ f.armChatta = -ArmDebounce
      /\ ~in.arm /\ ~f.armed => ~b.armed
  <2>1. (in.arm => c = f.armChatta + 1) /\ (~in.arm => c = f.armChatta - 1)
    OBVIOUS
  <2> HIDE DEF c
  <2> QED BY <1>0, <1>1, <2>1
<1>5. CountStep(f, j, in.arm)
  BY <1>2, <1>3, <1>4 DEF CountStep, Idle
<1> QED BY <1>5 DEF j

\* On the ground the counting decides the mode.
LEMMA ParkingCounts ==
    ASSUME fc \in Controllers, NEW in \in Inputs, Parking(in)
    PROVE  /\ CountStep(fc, fc', in.arm)
           /\ Judged(fc, fc') => fc'.mode = "FLIGHT"
           /\ ~Judged(fc, fc') => fc'.mode = "PARKING"
<1> DEFINE f == SensorRead(fc, in)
           j == JudgeModeChange(f, in)
<1>1. f \in Controllers /\ f.mode = "PARKING" /\ SameButton(fc, f)
  BY SensorFacts, SensorKeepsButton DEF Parking
<1>2. fc' = ParkingTurn(f, in)
  BY DEF Parking
<1> HIDE DEF f
<1>3. j \in Controllers /\ j.mode = "PARKING" /\ CountStep(f, j, in.arm)
  BY <1>1, JudgeFacts, JudgeCounts DEF SameFlight
<1>4. /\ Judged(f, j) => fc'.mode = "FLIGHT"
      /\ ~Judged(f, j) => fc'.mode = "PARKING"
      /\ SameButton(j, fc')
  <2> DEFINE m == IF Judged(f, j) THEN "FLIGHT" ELSE j.mode
  <2>1. fc' = [j EXCEPT !.mode = m,
                        !.motors = FALSE, !.overG = FALSE, !.alt = FALSE, !.takeoff = 0,
                        !.flipFlag = 0, !.flipCounter = 0, !.ahrsReset = FALSE]
    BY <1>2, Zenon DEF ParkingTurn
  <2>2. (Judged(f, j) => m = "FLIGHT") /\ (~Judged(f, j) => m = "PARKING")
    BY <1>3
  <2> HIDE DEF j, m
  <2>3. fc'.mode = m /\ SameButton(j, fc')
    BY <1>3, <2>1 DEF Controllers, SameButton
  <2> QED BY <2>2, <2>3 DEF j
<1> HIDE DEF j
<1> QED
  BY <1>1, <1>3, <1>4 DEF SameButton, CountStep, Idle, Judged

\* Nobody at the flip button, no flip.
LEMMA NoFlipCommanded ==
    ASSUME NEW f \in Controllers, NEW in \in Inputs, ~in.flip
    PROVE  GetCommand(f, in).mode = f.mode
<1> DEFINE t == [f EXCEPT !.low     = IF in.throttle = "auto" THEN f.takeoff < RampLow ELSE in.low,
                          !.takeoff = IF in.throttle = "auto" /\ @ < RampLow THEN @ + 1 ELSE @,
                          !.alt     = @ \/ in.throttle = "auto"]
           b == GetFlipButton(t, in)
<1>1. DOMAIN t = DOMAIN f /\ t.mode = f.mode
  BY DEF Controllers
<1>2. t = [x \in DOMAIN f |-> t[x]]
  BY DEF Controllers
<1>3. DOMAIN f = {"mode", "offset", "motors", "low", "alt", "takeoff", "overG", "armChatta",
                  "armed", "chatter", "flipChatta", "flipFlag", "flipCounter", "ahrsReset"}
  BY DEF Controllers
<1>4. ~FlipPressed(t, in)
  BY DEF FlipPressed
<1>5. GetCommand(f, in) \in {t, b}
  BY <1>4, Zenon DEF GetCommand
<1> HIDE DEF t
<1>6. b.mode = t.mode
  BY <1>1, <1>2, <1>3 DEF GetFlipButton
<1> QED
  BY <1>1, <1>5, <1>6

\* Nothing but over-G stops a flight in its control.
LEMMA ControlledKeepsMode ==
    ASSUME NEW f \in Controllers, NEW in \in Inputs, ~f.overG
    PROVE  Controlled(f, in).mode = f.mode
<1> DEFINE a == AngleControl(f)
<1>1. a \in Controllers /\ a.mode = f.mode /\ ~a.overG
  BY AngleFacts
<1>2. Controlled(f, in) = RateControl(a, in)
  BY DEF Controlled
<1> HIDE DEF a
<1>3. RateControl(a, in).mode = a.mode
  BY <1>1 DEF RateControl, Controllers
<1> QED
  BY <1>1, <1>2, <1>3

\* A flight goes on that nobody ends.
LEMMA StaysInFlight ==
    ASSUME fc \in Controllers, NEW in \in Inputs, ~in.flip, Flight(in),
           ~fc'.overG, ~LinkDown', ~Judged(fc, fc')
    PROVE  fc'.mode = "FLIGHT"
<1> DEFINE f == SensorRead(fc, in)
           j == JudgeModeChange(f, in)
           l == LeaveFlight(f, in, LinkDown')
           t == GetCommand(l, in)
<1>1. f \in Controllers /\ f.mode = "FLIGHT" /\ f.chatter = fc.chatter
  BY SensorFacts DEF Flight
<1>2. fc' = Controlled(t, in)
  BY DEF Flight, FlightTurn
<1>3. LinkDown' = FALSE
  BY DEF LinkDown
<1> HIDE DEF f
<1>4. j \in Controllers /\ j.mode = f.mode /\ j.overG = f.overG
  BY <1>1, JudgeFacts DEF SameFlight
<1>5. l \in Controllers /\ l.overG = f.overG
  BY <1>1, <1>3, LeaveFlightFacts
<1>6. \E m : l = [j EXCEPT !.mode = m]
  BY Zenon DEF LeaveFlight
<1>7. ~j.overG /\ ~Judged(f, j) => l = [j EXCEPT !.mode = @]
  BY <1>3 DEF LeaveFlight
<1> HIDE DEF j, l
<1>8. l.chatter = j.chatter
  BY <1>4, <1>6 DEF Controllers
<1>9. t \in Controllers /\ t.overG = l.overG /\ t.chatter = l.chatter /\ t.mode = l.mode
  BY <1>5, GetCommandFacts, NoFlipCommanded
<1> HIDE DEF t
<1>10. fc'.overG = t.overG /\ fc'.chatter = t.chatter
  BY <1>2, <1>9, ControlledFacts
<1>11. fc'.mode = t.mode
  BY <1>2, <1>9, <1>10, ControlledKeepsMode
<1>12. ~j.overG /\ ~Judged(f, j)
  BY <1>1, <1>4, <1>5, <1>8, <1>9, <1>10 DEF Judged
<1>13. l.mode = j.mode
  BY <1>4, <1>7, <1>12 DEF Controllers
<1> QED
  BY <1>1, <1>4, <1>9, <1>11, <1>13

-----------------------------------------------------------------------------
(* The phases of the sequence, turn by turn and call by call. *)

\* What a turn does to a stick and a button that fit.
LEMMA TurnKeepsShape ==
    ASSUME ctl \in Ctls, PulseShape, ctl' = ctl, ButtonStep(fc, fc', ctl.arm)
    PROVE  /\ PulseShape'
           /\ Idle(fc) /\ ~ctl.arm => Idle(fc') /\ ~Judged(fc, fc')
           /\ Judged(fc, fc') => Idle(fc') /\ ctl.onCount = 0
<1>1. Idle(fc) /\ ~ctl.arm => Idle(fc') /\ ~Judged(fc, fc')
  BY DEF ButtonStep, Idle, Judged
<1>2. ctl.onCount \in Nat /\ PulseLen \in Nat \ {0}
  BY ConsoleAssumption DEF Ctls
<1>3. PulseShape'
  <2>1. ctl.onCount = PulseLen => Idle(fc')
    BY <1>1, <1>2 DEF PulseShape
  <2>2. ctl.arm => (fc'.armed <=> fc'.chatter # 0)
    BY DEF PulseShape, ButtonStep
  <2> QED BY <2>1, <2>2 DEF PulseShape, Idle
<1>4. Judged(fc, fc') => Idle(fc') /\ ctl.onCount = 0
  BY <1>2 DEF PulseShape, ButtonStep, Idle, Judged
<1> QED
  BY <1>1, <1>3, <1>4

\* The take-off press goes on through the debouncing, or is answered in flight.
LEMMA TakingOffGoesOn ==
    ASSUME DelaysSuffice, fc \in Controllers, ctl \in Ctls, clock \in Nat, pace \in Nat,
           PulseShape, TakingOff, pace < MaxPace,
           ctl' = ctl, pace' = pace + 1, clock' \in Nat, clock' <= clock + 1,
           fc' \in Controllers, CountStep(fc, fc', ctl.arm),
           Judged(fc, fc') => fc'.mode = "FLIGHT",
           ~Judged(fc, fc') => fc'.mode = "PARKING"
    PROVE  TakingOff' \/ TakenOff'
<1>0. /\ PulseLen \in Nat \ {0} /\ MaxPace \in Nat /\ ctl.onCount \in Nat
      /\ ctl.onCount <= PulseLen
      /\ ArmDebounce \in Nat /\ ReleaseTurns \in Nat \ {0}
      /\ fc.armChatta \in -ArmDebounce .. ArmDebounce
      /\ fc'.armChatta \in -ArmDebounce .. ArmDebounce
      /\ fc.chatter \in Nat /\ fc'.chatter \in Nat
  BY ConsoleAssumption, ConstantsAssumption DEF Ctls, Controllers, PulseShape
<1>m. /\ Most(0) \in Nat /\ Most(ctl.onCount) \in Nat
      /\ ctl.arm => Least(ctl.onCount) \in Nat
  BY <1>0, Cycles DEF PulseShape
<1>1. CASE ctl.onCount = PulseLen
  <2>1. Idle(fc) /\ ~ctl.arm /\ ctl.onCount > 0
    BY <1>0, <1>1 DEF PulseShape
  <2>2. Idle(fc') /\ fc'.mode = "PARKING"
    BY <2>1 DEF CountStep, Judged, Idle
  <2> QED BY <1>0, <1>m, <2>1, <2>2 DEF TakingOff, Idle
<1>2. CASE ctl.arm
  <2>1. ctl.onCount > 0 /\ (fc.armed <=> fc.chatter # 0)
    BY <1>0, <1>2 DEF PulseShape
  <2>2. CASE fc.armed
    <3>1. fc'.armed /\ fc'.chatter = 1 /\ fc'.mode = "PARKING"
      BY <1>2, <2>1, <2>2 DEF CountStep, Judged, TakingOff
    <3> QED BY <1>0, <1>m, <2>1, <3>1 DEF TakingOff
  <2>3. CASE ~fc.armed
    <3>1. Idle(fc) /\ ~Judged(fc, fc')
      BY <2>1, <2>3 DEF Idle, Judged
    <3>2. CASE Idle(fc') /\ fc'.armChatta = fc.armChatta + 1
      BY <1>0, <1>m, <1>2, <2>1, <2>3, <3>1, <3>2 DEF TakingOff, Idle
    <3>3. CASE fc'.armed /\ fc'.chatter = 1
      BY <1>0, <1>m, <1>2, <2>1, <3>1, <3>3 DEF TakingOff
    <3> QED BY <1>2, <3>1, <3>2, <3>3 DEF CountStep
  <2> QED BY <2>2, <2>3
<1>3. CASE ctl.onCount = 0
  <2>1. ~ctl.arm /\ fc.chatter # 0
    BY <1>0, <1>3 DEF PulseShape, TakingOff
  <2>2. CASE fc'.armed
    <3>1. fc.armed /\ fc'.chatter = 1 /\ fc'.armChatta = fc.armChatta - 1
      BY <2>1, <2>2 DEF CountStep, TakingOff
    <3> QED BY <1>0, <1>m, <1>3, <2>2, <3>1 DEF TakingOff, Judged
  <2>3. CASE ~fc'.armed
    <3>1. fc'.chatter = Released(fc.chatter)
      BY <2>1, <2>3 DEF CountStep
    <3>2. clock <= Most(0) + 2 * ArmDebounce + fc.chatter - 1
      BY <1>0, <1>m, <1>3, <2>1, <2>3 DEF CountStep, TakingOff
    <3>3. CASE fc'.chatter = 0
      BY <1>3, <2>1, <2>3, <3>3 DEF TakenOff, Idle, Judged
    <3>4. CASE fc'.chatter # 0
      <4>1. fc'.chatter = fc.chatter + 1
        BY <3>1, <3>4 DEF Released
      <4>2. fc'.mode = "PARKING" /\ pace' <= MaxPace /\ ctl'.onCount = 0
        BY <1>0, <1>3, <3>4 DEF Judged
      <4>3. clock' <= Most(0) + 2 * ArmDebounce + fc'.chatter - 1
        BY <1>0, <1>m, <3>2, <4>1
      <4>4. ~ctl'.arm
        BY <2>1
      <4> QED BY <2>3, <3>4, <4>2, <4>3, <4>4 DEF TakingOff
    <3> QED BY <3>3, <3>4
  <2> QED BY <2>2, <2>3
<1> QED
  BY <1>0, <1>1, <1>2, <1>3 DEF PulseShape

\* A turn keeps to the phase, or ends it with the mode it is for.
LEMMA TurnKeepsSeq ==
    ASSUME DelaysSuffice, TypeOK, TypeOK', FlyIInv, SeqInv, FlyTurn
    PROVE  SeqInv'
<1>0. /\ fc \in Controllers /\ fc' \in Controllers /\ ctl \in Ctls
      /\ clock \in Nat /\ pace \in Nat /\ Longest \in Nat /\ AverageNum \in Nat
  BY ConsoleAssumption, ConstantsAssumption DEF TypeOK, FlyIInv, PulseOK, SeqInv, Longest
<1>1. /\ clock' \in Nat /\ clock' <= clock + 1
      /\ pace' = pace + 1 /\ pace' \in Nat /\ pace < MaxPace
      /\ ctl' = ctl /\ waiting' = waiting
  BY <1>0 DEF FlyTurn
<1> SUFFICES ASSUME ~hist'.disturbed PROVE Phases'
  BY <1>1 DEF SeqInv
<1>2. /\ ~hist.disturbed /\ ~fc'.overG /\ ~LinkDown'
      /\ hist'.purpose = hist.purpose
  BY DEF FlyTurn, FlyIInv, PulseOK
<1>3. Phases
  BY <1>2 DEF SeqInv
<1>4. PICK in \in Sticks : TurnOn(in)
  BY DEF FlyTurn
<1>5. in \in Inputs /\ in.arm = ctl.arm /\ ~in.flip
  BY DEF Sticks, DelaysSuffice
<1>6. ButtonStep(fc, fc', ctl.arm)
  BY <1>0, <1>4, <1>5, TurnStepsButton DEF FlyIInv
<1>7. /\ PulseShape'
      /\ Idle(fc) /\ ~ctl.arm => Idle(fc') /\ ~Judged(fc, fc')
      /\ Judged(fc, fc') => Idle(fc') /\ ctl.onCount = 0
  BY <1>0, <1>1, <1>3, <1>6, TurnKeepsShape DEF Phases
<1>8. fc.mode = "PARKING" => /\ CountStep(fc, fc', ctl.arm)
                             /\ Judged(fc, fc') => fc'.mode = "FLIGHT"
                             /\ ~Judged(fc, fc') => fc'.mode = "PARKING"
  <2>1. fc.mode = "PARKING" => Parking(in)
    BY <1>4 DEF TurnOn, InitMode, AverageMode, Flight, Flip, Landing
  <2> QED BY <1>0, <1>5, <2>1, ParkingCounts
<1>9. fc.mode = "FLIGHT" /\ ~Judged(fc, fc') => fc'.mode = "FLIGHT"
  <2>1. fc.mode = "FLIGHT" => Flight(in)
    BY <1>4 DEF TurnOn, InitMode, AverageMode, Parking, Flip, Landing
  <2> QED BY <1>0, <1>2, <1>5, <2>1, StaysInFlight
<1>10. ctl.seq \in {1, 2} => BeforeTakeOff'
  <2> SUFFICES ASSUME ctl.seq \in {1, 2} PROVE BeforeTakeOff'
    OBVIOUS
  <2>1. BeforeTakeOff /\ ~ctl.arm
    BY <1>0, <1>3, ConsoleAssumption DEF Phases, BeforeTakeOff, PulseShape
  <2>2. Idle(fc') /\ ~Judged(fc, fc') /\ ctl.onCount = 0
    BY <1>7, <2>1 DEF BeforeTakeOff
  <2>3. CASE InitMode(in)
    <3>1. fc.mode = "INIT" /\ fc'.mode = "AVERAGE"
      BY <1>0, <2>3 DEF InitMode, InitTurn, SensorRead, Controllers
    <3>2. fc'.offset \in Nat
      BY <1>0 DEF Controllers
    <3> QED BY <1>0, <1>1, <2>1, <2>2, <3>1, <3>2 DEF BeforeTakeOff
  <2>4. CASE AverageMode(in)
    <3> DEFINE f == SensorRead(fc, in)
    <3>1. f \in Controllers /\ f.mode = "AVERAGE" /\ f.offset = fc.offset /\ fc.mode = "AVERAGE"
      BY <1>0, <1>5, <2>4, SensorFacts DEF AverageMode, SensorRead, Controllers
    <3>2. fc' = AverageTurn(f, in)
      BY <2>4 DEF AverageMode
    <3> HIDE DEF f
    <3>3. \/ fc'.mode = "AVERAGE" /\ fc'.offset = fc.offset + 1
          \/ fc'.mode = "PARKING"
      BY <3>1, <3>2 DEF AverageTurn, Controllers
    <3>4. fc.offset \in Nat /\ clock <= fc.offset + 1
      BY <1>0, <2>1, <3>1 DEF BeforeTakeOff, Controllers
    <3> QED BY <1>0, <1>1, <2>2, <3>3, <3>4 DEF BeforeTakeOff
  <2>5. CASE fc.mode = "PARKING"
    BY <1>1, <1>8, <2>2, <2>5 DEF BeforeTakeOff
  <2> QED
    BY <1>4, <2>1, <2>3, <2>4, <2>5
       DEF TurnOn, Flight, Flip, Landing, Parking, BeforeTakeOff
<1>11. ctl.seq = 4 => TakingOff' \/ TakenOff'
  <2> SUFFICES ASSUME ctl.seq = 4 PROVE TakingOff' \/ TakenOff'
    OBVIOUS
  <2>1. CASE TakingOff
    <3>1. fc.mode = "PARKING"
      BY <2>1 DEF TakingOff
    <3> QED BY <1>0, <1>1, <1>3, <1>8, <2>1, <3>1, TakingOffGoesOn DEF Phases
  <2>2. CASE TakenOff
    <3>1. ~ctl.arm
      BY <1>0, <1>3, <2>2, ConsoleAssumption DEF Phases, TakenOff, PulseShape
    <3> QED BY <1>1, <1>7, <1>9, <2>2, <3>1 DEF TakenOff
  <2> QED BY <1>3, <2>1, <2>2 DEF Phases
<1>12. ctl.seq = 0 => ToLand'
  <2> SUFFICES ASSUME ctl.seq = 0 PROVE ToLand'
    OBVIOUS
  <2>1. CASE fc.mode = "FLIGHT"
    BY <1>1, <1>7, <1>9, <2>1 DEF ToLand
  <2>2. CASE Idle(fc) /\ ctl.onCount = 0
    <3>1. ~ctl.arm
      BY <1>0, <1>3, <2>2, ConsoleAssumption DEF Phases, PulseShape
    <3> QED BY <1>1, <1>7, <2>2, <3>1 DEF ToLand
  <2> QED BY <1>3, <2>1, <2>2 DEF Phases, ToLand
<1> QED
  BY <1>1, <1>2, <1>3, <1>7, <1>10, <1>11, <1>12 DEF Phases

\* A call counts the pulse down and lets go of the stick at its end.
Counted ==
    /\ ctl.onCount > 0 => /\ ctl'.onCount = ctl.onCount - 1
                          /\ ctl'.arm <=> ctl.onCount > 1
    /\ ctl.onCount = 0 => ctl'.onCount = 0 /\ ctl'.arm = ctl.arm

\* What a call of _loop does to the sequence.
LEMMA LoopFields ==
    ASSUME ctl \in Ctls, ~ctl.stop, ctl.seq \in {0, 1, 2, 4}, Loop
    PROVE  /\ ~ctl'.stop
           /\ \/ ctl.seq = 1 /\ ctl'.seq = 2 /\ Counted
              \/ /\ ctl.seq = 2 /\ clock >= TakeOffDelay
                 /\ ctl'.seq = 4 /\ ctl'.onCount = PulseLen
                 /\ ctl.onCount = 0 => ctl'.arm = ctl.arm
              \/ /\ ctl.seq = 4 /\ clock >= LandDelay
                 /\ ctl'.seq = 0 /\ ctl'.onCount = PulseLen
                 /\ ctl.onCount = 0 => ctl'.arm = ctl.arm
              \/ /\ ctl'.seq = ctl.seq /\ ctl.seq # 1 /\ Counted
                 /\ ctl.seq = 4 => ~(clock >= LandDelay)
<1> DEFINE c == CountPulse(ctl)
<1>1. DOMAIN c = {"stop", "onCount", "seq", "arm", "auto"}
  BY DEF CountPulse, Ctls
<1>2. /\ c.stop = ctl.stop /\ c.seq = ctl.seq
      /\ ctl.onCount > 0 => c.onCount = ctl.onCount - 1 /\ (c.arm <=> ctl.onCount > 1)
      /\ ctl.onCount = 0 => c = ctl
  <2>1. ctl.onCount \in Nat
    BY DEF Ctls
  <2>2. CASE ctl.onCount > 0
    <3> DEFINE last == ctl.onCount > 1
    <3>1. c = [ctl EXCEPT !.onCount = @ - 1, !.arm = last]
      BY <2>2 DEF CountPulse
    <3> HIDE DEF c, last
    <3>2. c.stop = ctl.stop /\ c.seq = ctl.seq /\ c.onCount = ctl.onCount - 1 /\ c.arm = last
      BY <3>1 DEF Ctls
    <3>3. c.arm <=> last
      BY <3>2
    <3> QED BY <2>1, <2>2, <3>2, <3>3 DEF last
  <2>3. CASE ~(ctl.onCount > 0)
    BY <2>1, <2>3 DEF CountPulse
  <2> QED BY <2>2, <2>3
<1>3. ctl' = Sequence(c)
  BY DEF Loop
<1> HIDE DEF c
<1>4. CASE ctl.seq = 1
  <2>1. ctl' = [c EXCEPT !.seq = 2]
    BY <1>2, <1>3, <1>4 DEF Sequence
  <2>2. ctl'.seq = 2 /\ ctl'.stop = c.stop /\ ctl'.onCount = c.onCount /\ ctl'.arm = c.arm
    BY <1>1, <2>1
  <2> QED BY <1>2, <1>4, <2>2 DEF Counted
<1>5. CASE ctl.seq = 2 /\ clock >= TakeOffDelay
  <2>1. ctl' = [c EXCEPT !.seq = 4, !.auto = TRUE, !.onCount = PulseLen]
    BY <1>2, <1>3, <1>5 DEF Sequence
  <2>2. ctl'.seq = 4 /\ ctl'.stop = c.stop /\ ctl'.onCount = PulseLen /\ ctl'.arm = c.arm
    BY <1>1, <2>1
  <2> QED BY <1>2, <1>5, <2>2
<1>6. CASE ctl.seq = 4 /\ clock >= LandDelay
  <2>1. ctl' = [c EXCEPT !.seq = 0, !.onCount = PulseLen]
    BY <1>2, <1>3, <1>6 DEF Sequence
  <2>2. ctl'.seq = 0 /\ ctl'.stop = c.stop /\ ctl'.onCount = PulseLen /\ ctl'.arm = c.arm
    BY <1>1, <2>1
  <2> QED BY <1>2, <1>6, <2>2
<1>7. CASE /\ ctl.seq # 1
           /\ ~(ctl.seq = 2 /\ clock >= TakeOffDelay)
           /\ ~(ctl.seq = 4 /\ clock >= LandDelay)
  <2>1. ctl' = c
    BY <1>2, <1>3, <1>7 DEF Sequence
  <2> QED BY <1>2, <1>7, <2>1 DEF Counted
<1> QED
  BY <1>4, <1>5, <1>6, <1>7

\* Counting keeps the stick and the button fitting.
LEMMA CountedKeepsShape ==
    ASSUME ctl \in Ctls, PulseShape, Counted, fc' = fc
    PROVE  PulseShape'
<1>1. ctl.onCount \in Nat /\ PulseLen \in Nat \ {0}
  BY ConsoleAssumption DEF Ctls
<1>2. CASE ctl.onCount > 0
  <2>1. ctl'.onCount = ctl.onCount - 1 /\ (ctl'.arm <=> ctl.onCount > 1)
    BY <1>2 DEF Counted
  <2>2. fc.armed <=> fc.chatter # 0
    BY <1>1, <1>2 DEF PulseShape, Idle
  <2> QED BY <1>1, <1>2, <2>1, <2>2 DEF PulseShape
<1>3. CASE ctl.onCount = 0
  BY <1>1, <1>3 DEF PulseShape, Counted
<1> QED
  BY <1>1, <1>2, <1>3

\* A pulse begins with the button idle.
LEMMA PulseBegins ==
    ASSUME ctl \in Ctls, PulseShape, Idle(fc), ctl.onCount = 0, fc' = fc,
           ctl'.onCount = PulseLen, ctl'.arm = ctl.arm
    PROVE  PulseShape' /\ ~ctl'.arm
<1>1. PulseLen \in Nat \ {0} /\ ~ctl.arm
  BY ConsoleAssumption DEF PulseShape
<1> QED
  BY <1>1 DEF PulseShape, Idle

\* While the take-off press is on its way the landing is not due.
LEMMA NotYetDue ==
    ASSUME DelaysSuffice, fc \in Controllers, ctl \in Ctls, clock \in Nat, pace \in Nat,
           PulseShape, TakingOff
    PROVE  clock < LandDelay
<1>0. /\ PulseLen \in Nat \ {0} /\ MaxPace \in Nat /\ ctl.onCount \in Nat
      /\ ctl.onCount <= PulseLen /\ LandDelay \in Nat
      /\ ArmDebounce \in Nat /\ ReleaseTurns \in Nat \ {0}
      /\ fc.armChatta \in -ArmDebounce .. ArmDebounce
      /\ fc.chatter \in 0 .. ReleaseTurns
  BY ConsoleAssumption, ConstantsAssumption DEF Ctls, Controllers, PulseShape
<1>1. Most(0) \in Nat /\ Most(0) + 2 * ArmDebounce + ReleaseTurns <= LandDelay
  BY <1>0, Cycles DEF DelaysSuffice
<1>2. CASE ctl.onCount > 0
  <2>1. Most(ctl.onCount) \in Nat /\ Most(ctl.onCount) + MaxPace <= Most(0)
    BY <1>0, <1>2, Cycles
  <2> QED BY <1>0, <1>1, <1>2, <2>1 DEF TakingOff
<1>3. CASE ctl.onCount = 0
  BY <1>0, <1>1, <1>3 DEF TakingOff
<1> QED
  BY <1>0, <1>2, <1>3

\* A call of _loop in the middle of the take-off pulse.
LEMMA TakingOffCounted ==
    ASSUME DelaysSuffice, fc \in Controllers, ctl \in Ctls, clock \in Nat, pace \in Nat,
           PulseShape, TakingOff, Counted, pace >= CycleTurns,
           fc' = fc, clock' = clock, pace' = 0
    PROVE  TakingOff'
<1>0. /\ PulseLen \in Nat \ {0} /\ MaxPace \in Nat /\ CycleTurns \in Nat
      /\ ctl.onCount \in Nat /\ ctl.onCount <= PulseLen
      /\ ArmDebounce \in Nat
      /\ fc.armChatta \in -ArmDebounce .. ArmDebounce
  BY ConsoleAssumption, ConstantsAssumption DEF Ctls, Controllers, PulseShape
<1>1. CASE ctl.onCount > 0
  <2>1. ctl'.onCount = ctl.onCount - 1 /\ (ctl'.arm <=> ctl.onCount > 1)
    BY <1>1 DEF Counted
  <2>2. /\ Most(ctl.onCount) \in Nat /\ Most(ctl.onCount - 1) \in Nat
        /\ Most(ctl.onCount - 1) = Most(ctl.onCount) + MaxPace
        /\ Most(0) \in Nat
    BY <1>0, <1>1, Cycles
  <2>3. clock <= Most(ctl'.onCount)
    BY <1>0, <1>1, <2>1, <2>2 DEF TakingOff
  <2>4. ctl'.arm /\ ~fc.armed => Least(ctl'.onCount) <= fc.armChatta + ArmDebounce
    <3> SUFFICES ASSUME ctl'.arm, ~fc.armed PROVE Least(ctl'.onCount) <= fc.armChatta + ArmDebounce
      OBVIOUS
    <3>1. CASE ctl.onCount = PulseLen
      BY <1>0, <2>1, <3>1, Cycles
    <3>2. CASE ctl.onCount # PulseLen
      <4>1. ctl.arm /\ Least(ctl.onCount) + pace <= fc.armChatta + ArmDebounce
        BY <1>0, <1>1, <3>2 DEF PulseShape, TakingOff
      <4>2. /\ Least(ctl.onCount) \in Nat
            /\ Least(ctl.onCount - 1) = Least(ctl.onCount) + CycleTurns
        BY <1>0, <1>1, <3>2, Cycles
      <4> QED BY <1>0, <2>1, <4>1, <4>2
    <3> QED BY <3>1, <3>2
  <2>5. ctl'.onCount = 0 => fc.armed /\ fc.chatter = 1
    <3> SUFFICES ASSUME ctl.onCount = 1 PROVE fc.armed /\ fc.chatter = 1
      BY <1>0, <2>1
    <3>1. PulseLen # 1
      <4>1. (1 - 1) * CycleTurns = 0
        BY <1>0
      <4> QED BY <1>0, <4>1 DEF DelaysSuffice
    <3>2. ctl.arm
      BY <1>0, <3>1 DEF PulseShape
    <3>3. fc.armed
      <4>1. /\ Least(1) \in Nat /\ Least(0) = Least(1) + CycleTurns
            /\ Least(0) = (PulseLen - 1) * CycleTurns /\ Least(0) \in Nat
        <5>1. 1 \in 1 .. PulseLen - 1 /\ 1 \in 0 .. PulseLen - 1 /\ 0 \in 0 .. PulseLen - 1 /\ 1 - 1 = 0
          BY <1>0, <3>1
        <5> QED BY <5>1, Cycles
      <4>2. 2 * ArmDebounce + 1 <= Least(0)
        BY <4>1 DEF DelaysSuffice
      <4>3. ~fc.armed => Least(1) + pace <= fc.armChatta + ArmDebounce
        BY <3>2 DEF TakingOff
      <4> QED BY <1>0, <4>1, <4>2, <4>3
    <3> QED BY <3>3 DEF TakingOff
  <2>6. ctl'.onCount = 0 => clock <= Most(0) + ArmDebounce - fc.armChatta
    BY <1>0, <2>2, <2>3
  <2>7. clock' <= Most(ctl'.onCount) + pace'
    BY <2>1, <2>2, <2>3
  <2>8. ctl'.arm /\ ~fc.armed => Least(ctl'.onCount) + pace' <= fc.armChatta + ArmDebounce
    <3>1. ctl'.arm => Least(ctl'.onCount) \in Nat
      BY <1>0, <1>1, <2>1, Cycles
    <3> QED BY <2>4, <3>1
  <2>9. fc'.mode = "PARKING" /\ pace' <= MaxPace /\ (fc'.armed => fc'.chatter = 1)
    BY <1>0 DEF TakingOff
  <2> QED BY <2>5, <2>6, <2>7, <2>8, <2>9 DEF TakingOff
<1>2. CASE ctl.onCount = 0
  <2>1. ctl'.onCount = 0 /\ ctl'.arm = ctl.arm /\ ~ctl.arm
    BY <1>0, <1>2 DEF Counted, PulseShape
  <2> QED BY <1>0, <1>2, <2>1 DEF TakingOff
<1> QED
  BY <1>0, <1>1, <1>2

\* A call of _loop keeps to the phase or begins the next.
LEMMA LoopKeepsSeq ==
    ASSUME DelaysSuffice, TypeOK, FlyIInv, SeqInv, Loop
    PROVE  SeqInv'
<1>0. /\ fc \in Controllers /\ ctl \in Ctls /\ clock \in Nat /\ pace \in Nat
      /\ PulseLen \in Nat \ {0} /\ CycleTurns \in Nat /\ AverageNum \in Nat
      /\ ArmDebounce \in Nat /\ fc.armChatta \in -ArmDebounce .. ArmDebounce
  BY ConsoleAssumption, ConstantsAssumption DEF TypeOK, Controllers, FlyIInv, PulseOK, SeqInv
<1>1. /\ fc' = fc /\ waiting' = waiting /\ pace' = 0
      /\ clock' = IF Timed(ctl, ctl') THEN 0 ELSE clock
      /\ hist'.disturbed = hist.disturbed
      /\ hist'.purpose = PurposeOf(ctl, ctl')
  BY DEF Loop, FlyIInv, PulseOK
<1>2. clock' \in Nat /\ pace' \in Nat
  BY <1>0, <1>1
<1> SUFFICES ASSUME ~hist'.disturbed PROVE Phases'
  BY <1>2 DEF SeqInv
<1>3. Phases /\ ~ctl.stop /\ ~waiting /\ pace >= CycleTurns
  BY <1>1 DEF SeqInv, Phases, Loop
<1>4. PulseShape /\ ctl.seq \in {0, 1, 2, 4}
  BY <1>3 DEF Phases
<1>5. ~ctl'.stop
  BY <1>0, <1>3, <1>4, LoopFields
<1>6. CASE ctl.seq = 1 /\ ctl'.seq = 2 /\ Counted
  <2>1. BeforeTakeOff
    BY <1>3, <1>6 DEF Phases
  <2>2. PulseShape' /\ ctl'.onCount = 0 /\ clock' = 0
    BY <1>0, <1>1, <1>4, <1>6, <2>1, CountedKeepsShape DEF Counted, BeforeTakeOff, Timed
  <2>3. BeforeTakeOff'
    <3>1. fc.offset \in Nat
      BY <1>0 DEF Controllers
    <3> QED BY <1>1, <2>1, <2>2, <3>1 DEF BeforeTakeOff
  <2> QED BY <1>1, <1>3, <1>5, <1>6, <2>2, <2>3 DEF Phases
<1>7. CASE /\ ctl.seq = 2 /\ clock >= TakeOffDelay
           /\ ctl'.seq = 4 /\ ctl'.onCount = PulseLen
           /\ ctl.onCount = 0 => ctl'.arm = ctl.arm
  <2>1. BeforeTakeOff
    BY <1>3, <1>7 DEF Phases
  <2>2. PulseShape' /\ ~ctl'.arm
    BY <1>0, <1>1, <1>4, <1>7, <2>1, PulseBegins DEF BeforeTakeOff
  <2>3. fc.mode = "PARKING"
    <3>1. fc.offset \in 0 .. AverageNum /\ TakeOffDelay \in Nat /\ AverageNum + 2 <= TakeOffDelay
      BY <1>0, ConsoleAssumption DEF Controllers, DelaysSuffice
    <3> QED BY <1>0, <1>7, <2>1, <3>1 DEF BeforeTakeOff
  <2>4. clock' = 0 /\ hist'.purpose = "take-off"
    BY <1>1, <1>7 DEF Timed, PurposeOf
  <2>5. TakingOff'
    <3>1. MaxPace \in Nat /\ Most(PulseLen) = 0
      BY ConsoleAssumption, Cycles
    <3> QED BY <1>0, <1>1, <1>7, <2>1, <2>2, <2>3, <2>4, <3>1 DEF TakingOff, BeforeTakeOff, Idle
  <2> QED BY <1>1, <1>3, <1>5, <1>7, <2>2, <2>4, <2>5 DEF Phases
<1>8. CASE /\ ctl.seq = 4 /\ clock >= LandDelay
           /\ ctl'.seq = 0 /\ ctl'.onCount = PulseLen
           /\ ctl.onCount = 0 => ctl'.arm = ctl.arm
  <2>1. ~TakingOff
    BY <1>0, <1>4, <1>8, NotYetDue, ConsoleAssumption
  <2>2. TakenOff
    BY <1>3, <1>8, <2>1 DEF Phases
  <2>3. PulseShape'
    BY <1>0, <1>1, <1>4, <1>8, <2>2, PulseBegins DEF TakenOff
  <2>4. hist'.purpose = "landing"
    BY <1>1, <1>3, <1>8 DEF PurposeOf
  <2> QED BY <1>1, <1>3, <1>5, <1>8, <2>2, <2>3, <2>4 DEF Phases, TakenOff, ToLand
<1>9. CASE ctl'.seq = ctl.seq /\ ctl.seq # 1 /\ Counted
  <2>1. PulseShape' /\ clock' = clock /\ hist'.purpose = hist.purpose
    <3>1. PulseShape'
      BY <1>0, <1>1, <1>4, <1>9, CountedKeepsShape
    <3>2. clock' = clock
      BY <1>1, <1>9 DEF Timed
    <3>3. hist'.purpose = hist.purpose
      BY <1>1, <1>4, <1>9 DEF PurposeOf
    <3> QED BY <3>1, <3>2, <3>3
  <2>2. ctl.onCount = 0 => ctl'.onCount = 0
    BY <1>9 DEF Counted
  <2>3. ctl.seq = 2 => BeforeTakeOff'
    BY <1>1, <1>3, <2>1, <2>2 DEF Phases, BeforeTakeOff
  <2>4. ctl.seq = 4 => TakingOff' \/ TakenOff'
    <3>1. CASE TakingOff
      BY <1>0, <1>1, <1>3, <1>4, <1>9, <2>1, <3>1, TakingOffCounted
    <3>2. CASE TakenOff
      BY <1>1, <2>2, <3>2 DEF TakenOff
    <3> QED BY <1>3, <3>1, <3>2 DEF Phases
  <2>5. ctl.seq = 0 => ToLand'
    BY <1>1, <1>3, <2>2 DEF Phases, ToLand
  <2> QED BY <1>1, <1>3, <1>4, <1>5, <1>9, <2>1, <2>3, <2>4, <2>5 DEF Phases
<1> QED
  BY <1>0, <1>3, <1>4, <1>6, <1>7, <1>8, <1>9, LoopFields

\* What the user types is a disturbance, and a `wait` is over only for one who
\* typed it.
LEMMA TypedKeepsSeq ==
    ASSUME FlyIInv, SeqInv,
           On \/ Escape \/ SetSeq \/ SetStop \/ SetArm \/ Wait \/ WaitEnds
    PROVE  SeqInv'
<1>1. clock' = clock /\ pace' = pace
  BY DEF On, Escape, SetSeq, SetStop, SetArm, Wait, WaitEnds, Typed
<1>2. hist'.disturbed
  <2>1. CASE WaitEnds
    BY <2>1 DEF WaitEnds, SeqInv, Phases
  <2>2. CASE On \/ Escape \/ SetSeq \/ SetStop \/ SetArm \/ Wait
    BY <2>2 DEF On, Escape, SetSeq, SetStop, SetArm, Wait, FlyIInv, PulseOK
  <2> QED BY <2>1, <2>2
<1> QED
  BY <1>1, <1>2 DEF SeqInv

\* A change of mode in the sequence is the one its pulse is for.
LEMMA SeqJudged ==
    ASSUME FlyIInv, SeqInv, [FlyNext]_flyVars, Judged(fc, fc'), ~hist'.disturbed
    PROVE  \/ hist.purpose = "take-off" /\ fc.mode = "PARKING"
           \/ hist.purpose = "landing" /\ fc.mode = "FLIGHT"
<1>1. FlyTurn
  <2>1. fc' # fc
    BY DEF Judged
  <2> QED
    BY <2>1 DEF FlyNext, Console, Loop, On, Escape, SetSeq, SetStop, SetArm, Wait, WaitEnds,
                Typed, flyVars, vars
<1>2. ~hist.disturbed
  BY <1>1 DEF FlyTurn, FlyIInv, PulseOK
<1> QED
  BY <1>2 DEF SeqInv, Phases, BeforeTakeOff, TakingOff, TakenOff, ToLand, Idle, Judged

\* ctrl.c:69, 83: with delays that suffice, the sequence nobody comes into takes off
\* a parked vehicle and lands a flying one.
THEOREM SequenceLands ==
    ASSUME DelaysSuffice
    PROVE  FlySpec => UndisturbedSequenceLands
<1>1. FlyInit => SeqInv
  <2> SUFFICES ASSUME FlyInit PROVE SeqInv
    OBVIOUS
  <2>1. /\ ctl.stop = FALSE /\ ctl.onCount = 0 /\ ctl.seq = 1 /\ ctl.arm = FALSE
        /\ fc.mode = "INIT" /\ fc.armed = FALSE /\ fc.chatter = 0
        /\ clock = 0 /\ pace = CycleTurns /\ waiting = FALSE
    BY DEF FlyInit, Init
  <2>2. PulseLen \in Nat \ {0} /\ CycleTurns \in Nat
    BY ConsoleAssumption
  <2>3. Idle(fc) /\ PulseShape /\ BeforeTakeOff
    BY <2>1, <2>2 DEF Idle, PulseShape, BeforeTakeOff
  <2> QED BY <2>1, <2>2, <2>3 DEF SeqInv, Phases
<1>2. TypeOK /\ TypeOK' /\ FlyIInv /\ SeqInv /\ [FlyNext]_flyVars => SeqInv'
  <2> SUFFICES ASSUME TypeOK, TypeOK', FlyIInv, SeqInv, [FlyNext]_flyVars PROVE SeqInv'
    OBVIOUS
  <2>1. CASE FlyTurn
    BY <2>1, TurnKeepsSeq
  <2>2. CASE Loop
    BY <2>2, LoopKeepsSeq
  <2>3. CASE On \/ Escape \/ SetSeq \/ SetStop \/ SetArm \/ Wait \/ WaitEnds
    BY <2>3, TypedKeepsSeq
  <2>4. CASE UNCHANGED flyVars
    BY <2>4 DEF flyVars, vars, consoleVars, SeqInv, Phases, PulseShape, BeforeTakeOff,
                TakingOff, TakenOff, ToLand, Idle
  <2> QED BY <2>1, <2>2, <2>3, <2>4 DEF FlyNext, Console
<1>3. FlyIInv /\ SeqInv /\ [FlyNext]_flyVars
      => [ Judged(fc, fc') /\ ~hist'.disturbed
           => \/ hist.purpose = "take-off" /\ fc.mode = "PARKING"
              \/ hist.purpose = "landing" /\ fc.mode = "FLIGHT" ]_<<fc, hist>>
  BY SeqJudged
<1> QED
  BY <1>1, <1>2, <1>3, FlyKeepsModes, FlyInductive, PTL DEF FlySpec, UndisturbedSequenceLands
=============================================================================
