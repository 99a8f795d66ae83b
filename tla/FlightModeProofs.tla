-------------------------- MODULE FlightModeProofs --------------------------
(***************************************************************************)
(* Proofs about FlightMode, for every debouncing, flip and ramp length.    *)
(* One lemma per function of a turn says that it keeps the controller's    *)
(* type and which fields it leaves alone; the turns follow from them, and  *)
(* the properties from the turns.                                          *)
(***************************************************************************)
EXTENDS FlightMode, TLAPS

USE DEF Modes, Flying

\* What no button touches.
SameFlight(f, g) ==
    /\ g.mode = f.mode /\ g.offset = f.offset /\ g.motors = f.motors
    /\ g.low = f.low /\ g.alt = f.alt /\ g.takeoff = f.takeoff /\ g.overG = f.overG
    /\ g.flipFlag = f.flipFlag /\ g.flipCounter = f.flipCounter
    /\ g.ahrsReset = f.ahrsReset

-----------------------------------------------------------------------------
(* The functions of a turn. *)

\* The arming button keeps its counter between its bounds.
LEMMA ArmingFacts ==
    ASSUME NEW f \in Controllers, NEW in \in Inputs
    PROVE  /\ GetArmingButton(f, in) \in Controllers
           /\ SameFlight(f, GetArmingButton(f, in))
           /\ GetArmingButton(f, in).chatter = f.chatter
           /\ GetArmingButton(f, in).flipChatta = f.flipChatta
<1> DEFINE c == IF in.arm THEN f.armChatta + 1 ELSE f.armChatta - 1
<1>0. /\ ArmDebounce \in Nat /\ c \in Int
      /\ f.armChatta \in -ArmDebounce .. ArmDebounce
  BY ConstantsAssumption DEF Controllers, Inputs
<1> HIDE DEF c
<1>1. CASE c > ArmDebounce
  <2>1. GetArmingButton(f, in) = [f EXCEPT !.armed = TRUE]
    BY <1>0, <1>1 DEF GetArmingButton, c
  <2> QED BY <2>1 DEF Controllers, SameFlight
<1>2. CASE c < -ArmDebounce
  <2>1. GetArmingButton(f, in) = [f EXCEPT !.armed = FALSE]
    BY <1>0, <1>2 DEF GetArmingButton, c
  <2> QED BY <2>1 DEF Controllers, SameFlight
<1>3. CASE ~(c > ArmDebounce) /\ ~(c < -ArmDebounce)
  <2>1. GetArmingButton(f, in) = [f EXCEPT !.armChatta = c]
    BY <1>3 DEF GetArmingButton, c
  <2>2. c \in -ArmDebounce .. ArmDebounce
    BY <1>0, <1>3
  <2> QED BY <2>1, <2>2 DEF Controllers, SameFlight
<1> QED
  BY <1>1, <1>2, <1>3

\* A press and a release seen by judge_mode_change leave the flight as it is.
LEMMA JudgeFacts ==
    ASSUME NEW f \in Controllers, NEW in \in Inputs
    PROVE  /\ JudgeModeChange(f, in) \in Controllers
           /\ SameFlight(f, JudgeModeChange(f, in))
           /\ JudgeModeChange(f, in).flipChatta = f.flipChatta
<1> DEFINE b == GetArmingButton(f, in)
           j == JudgeModeChange(f, in)
<1>0. b \in Controllers /\ SameFlight(f, b) /\ b.flipChatta = f.flipChatta
  BY ArmingFacts
<1> HIDE DEF b
<1>1. CASE b.chatter = 0 /\ b.armed
  <2>1. j = [b EXCEPT !.chatter = 1]
    BY <1>1 DEF JudgeModeChange, b
  <2> QED BY <1>0, <2>1, ConstantsAssumption DEF Controllers, SameFlight
<1>2. CASE b.chatter # 0 /\ ~b.armed
  <2>1. j = [b EXCEPT !.chatter = IF @ = ReleaseTurns THEN 0 ELSE @ + 1]
    BY <1>2 DEF JudgeModeChange, b
  <2> QED BY <1>0, <2>1, ConstantsAssumption DEF Controllers, SameFlight
<1>3. CASE ~(b.chatter = 0 /\ b.armed) /\ ~(b.chatter # 0 /\ ~b.armed)
  <2>1. j = b
    BY <1>3 DEF JudgeModeChange, b
  <2> QED BY <1>0, <2>1
<1> QED
  BY <1>1, <1>2, <1>3

\* The flip button counts; it touches nothing else.
LEMMA FlipButtonFacts ==
    ASSUME NEW f \in Controllers, NEW in \in Inputs
    PROVE  /\ GetFlipButton(f, in) \in Controllers
           /\ SameFlight(f, GetFlipButton(f, in))
           /\ GetFlipButton(f, in).chatter = f.chatter
  BY ConstantsAssumption DEF GetFlipButton, Controllers, SameFlight, Inputs

\* Reading the sensors raises the over-G flag and nothing else.
LEMMA SensorFacts ==
    ASSUME NEW f \in Controllers, NEW in \in Inputs
    PROVE  /\ SensorRead(f, in) \in Controllers
           /\ SensorRead(f, in).mode = f.mode
           /\ SensorRead(f, in).flipFlag = f.flipFlag
           /\ SensorRead(f, in).flipCounter = f.flipCounter
           /\ SensorRead(f, in).ahrsReset = f.ahrsReset
           /\ SensorRead(f, in).chatter = f.chatter
           /\ SensorRead(f, in).flipChatta = f.flipChatta
  BY DEF SensorRead, Controllers, Inputs

\* The three decisions change the mode only, and end flight when told.
LEMMA LeaveFlightFacts ==
    ASSUME NEW f \in Controllers, NEW in \in Inputs, NEW lost \in BOOLEAN
    PROVE  LET l == LeaveFlight(f, in, lost) IN
           /\ l \in Controllers
           /\ l.flipFlag = f.flipFlag /\ l.flipCounter = f.flipCounter
           /\ l.ahrsReset = f.ahrsReset /\ l.overG = f.overG
           /\ l.flipChatta = f.flipChatta
           /\ l.mode \in {f.mode, "AUTO_LANDING", "PARKING"}
           /\ f.overG \/ Judged(f, l) \/ lost => l.mode \in {"AUTO_LANDING", "PARKING"}
<1> DEFINE j == JudgeModeChange(f, in)
           l == LeaveFlight(f, in, lost)
<1>1. j \in Controllers /\ SameFlight(f, j) /\ j.flipChatta = f.flipChatta
  BY JudgeFacts
<1>2. j.overG \in BOOLEAN /\ f.overG \in BOOLEAN
  BY <1>1 DEF Controllers
<1> HIDE DEF j
<1>3. CASE j.overG
  <2>1. l = [j EXCEPT !.mode = "PARKING"]
    BY <1>3 DEF LeaveFlight, j
  <2> QED BY <1>1, <2>1 DEF Controllers, SameFlight
<1>4. CASE ~j.overG /\ (Judged(f, j) \/ lost)
  <2>1. l = [j EXCEPT !.mode = "AUTO_LANDING"]
    BY <1>4 DEF LeaveFlight, j
  <2> QED BY <1>1, <2>1 DEF Controllers, SameFlight
<1>5. CASE ~j.overG /\ ~(Judged(f, j) \/ lost)
  <2>1. l = [j EXCEPT !.mode = j.mode]
    BY <1>5 DEF LeaveFlight, j
  <2>2. l \in Controllers /\ l.mode = f.mode /\ l.chatter = j.chatter
    BY <1>1, <2>1 DEF Controllers, SameFlight
  <2>3. ~Judged(f, l) /\ ~f.overG
    BY <1>1, <1>5, <2>2 DEF Judged, SameFlight
  <2> QED BY <1>1, <1>5, <2>1, <2>2, <2>3 DEF Controllers, SameFlight
<1> QED
  BY <1>2, <1>3, <1>4, <1>5

\* get_command may start a flip, when the flip button has counted to its limit.
LEMMA GetCommandFacts ==
    ASSUME NEW f \in Controllers, NEW in \in Inputs
    PROVE  LET g == GetCommand(f, in) IN
           /\ g \in Controllers
           /\ g.flipCounter = f.flipCounter /\ g.ahrsReset = f.ahrsReset
           /\ g.overG = f.overG /\ g.chatter = f.chatter
           /\ \/ g.mode = f.mode /\ g.flipFlag = f.flipFlag
              \/ g.mode = "FLIP" /\ f.flipChatta = FlipDebounce /\ g.flipChatta = 0
<1> DEFINE t == [f EXCEPT !.low     = IF in.throttle = "auto" THEN f.takeoff < RampLow ELSE in.low,
                          !.takeoff = IF in.throttle = "auto" /\ @ < RampLow THEN @ + 1 ELSE @,
                          !.alt     = @ \/ in.throttle = "auto"]
           b == GetFlipButton(t, in)
           g == GetCommand(f, in)
<1>1. /\ t \in Controllers
      /\ t.mode = f.mode /\ t.flipFlag = f.flipFlag /\ t.flipCounter = f.flipCounter
      /\ t.ahrsReset = f.ahrsReset /\ t.overG = f.overG /\ t.chatter = f.chatter
      /\ t.flipChatta = f.flipChatta
  <2>1. /\ (IF in.throttle = "auto" THEN f.takeoff < RampLow ELSE in.low) \in BOOLEAN
        /\ (f.alt \/ in.throttle = "auto") \in BOOLEAN
    <3>1. in.low \in BOOLEAN
      BY DEF Inputs
    <3>2. (f.takeoff < RampLow) \in BOOLEAN
      OBVIOUS
    <3>3. (f.alt \/ in.throttle = "auto") \in BOOLEAN
      OBVIOUS
    <3> QED BY <3>1, <3>2, <3>3, Zenon
  <2>2. (IF in.throttle = "auto" /\ f.takeoff < RampLow THEN f.takeoff + 1 ELSE f.takeoff)
          \in 0 .. RampLow
    BY ConstantsAssumption DEF Controllers
  <2> QED BY <2>1, <2>2 DEF Controllers
<1> HIDE DEF t
<1>2. b \in Controllers /\ SameFlight(t, b) /\ b.chatter = t.chatter
  BY <1>1, FlipButtonFacts
<1> HIDE DEF b
<1>3. CASE t.flipFlag # 0
  <2>1. g = t
    BY <1>3 DEF GetCommand, t
  <2> QED BY <1>1, <2>1
<1>4. CASE t.flipFlag = 0 /\ FlipPressed(t, in)
  <2>1. g = [[b EXCEPT !.flipFlag = 1] EXCEPT !.mode = "FLIP"]
    BY <1>4 DEF GetCommand, t, b
  <2>2. f.flipChatta = FlipDebounce
    BY <1>1, <1>4 DEF FlipPressed
  <2>3. g \in Controllers /\ g.mode = "FLIP"
    <3> DEFINE h == [b EXCEPT !.flipFlag = 1]
    <3>1. h \in Controllers
      BY <1>2 DEF Controllers
    <3>2. g = [h EXCEPT !.mode = "FLIP"]
      BY <2>1
    <3> HIDE DEF h, g
    <3> QED BY <3>1, <3>2 DEF Controllers
  <2>4. /\ g.flipCounter = b.flipCounter /\ g.ahrsReset = b.ahrsReset
        /\ g.overG = b.overG /\ g.chatter = b.chatter
    BY <1>2, <2>1 DEF Controllers
  <2>5. g.flipChatta = 0
    <3>1. b.flipChatta = 0
      BY <1>1, <1>4, ConstantsAssumption DEF b, GetFlipButton, FlipPressed, Controllers
    <3> QED BY <1>2, <2>1, <3>1 DEF Controllers
  <2> QED BY <1>1, <1>2, <2>2, <2>3, <2>4, <2>5 DEF SameFlight
<1>5. CASE t.flipFlag = 0 /\ ~FlipPressed(t, in)
  <2>1. g = b
    BY <1>5 DEF GetCommand, t, b
  <2> QED BY <1>1, <1>2, <2>1 DEF SameFlight
<1> QED
  BY <1>3, <1>4, <1>5

\* angle_control can only forget a flip.
LEMMA AngleFacts ==
    ASSUME NEW f \in Controllers
    PROVE  LET a == AngleControl(f) IN
           /\ a \in Controllers
           /\ a.mode = f.mode /\ a.overG = f.overG /\ a.chatter = f.chatter /\ a.flipChatta = f.flipChatta
           /\ a.ahrsReset = f.ahrsReset
           /\ a.flipFlag \in {0, f.flipFlag} /\ a.flipCounter \in {0, f.flipCounter}
<1>1. FlipEnd \in Nat
  BY ConstantsAssumption DEF FlipEnd, RotateEnd
<1>2. CASE f.low
  <2> DEFINE g == [f EXCEPT !.flipFlag = 0]
  <2>1. g \in Controllers /\ g.flipFlag = 0
        /\ g.mode = f.mode /\ g.overG = f.overG /\ g.chatter = f.chatter /\ g.flipChatta = f.flipChatta
        /\ g.ahrsReset = f.ahrsReset
    BY DEF Controllers
  <2>2. AngleControl(f) = [g EXCEPT !.flipCounter = 0]
    BY <1>2 DEF AngleControl
  <2> HIDE DEF g
  <2> QED BY <1>1, <2>1, <2>2 DEF Controllers
<1>3. CASE ~f.low
  BY <1>3 DEF AngleControl, Controllers
<1> QED
  BY <1>2, <1>3

\* rate_control leaves the motors stopped on over-G, and no mode but PARKING
\* instead of the one it found.
LEMMA RateFacts ==
    ASSUME NEW f \in Controllers, NEW in \in Inputs
    PROVE  LET r == RateControl(f, in) IN
           /\ r \in Controllers
           /\ r.overG = f.overG /\ r.chatter = f.chatter /\ r.flipChatta = f.flipChatta
           /\ r.ahrsReset = f.ahrsReset /\ r.flipFlag = f.flipFlag
           /\ r.flipCounter \in {0, f.flipCounter}
           /\ r.mode \in {f.mode, "PARKING"}
           /\ ~(r.overG /\ r.motors)
<1> DEFINE own == IF (f.alt /\ f.flipFlag = 0) \/ f.mode = "AUTO_LANDING"
                  THEN in.low ELSE f.low
           r == RateControl(f, in)
<1>1. FlipEnd \in Nat /\ in.low \in BOOLEAN /\ own \in BOOLEAN /\ f.overG \in BOOLEAN
  BY ConstantsAssumption DEF FlipEnd, RotateEnd, Inputs, Controllers
<1>2. CASE f.low /\ f.flipFlag = 0
  <2> DEFINE g == [f EXCEPT !.flipCounter = 0]
  <2>1. /\ g \in Controllers /\ g.flipCounter = 0 /\ g.mode = f.mode
        /\ g.overG = f.overG /\ g.chatter = f.chatter /\ g.flipChatta = f.flipChatta
        /\ g.ahrsReset = f.ahrsReset /\ g.flipFlag = f.flipFlag
    BY <1>1 DEF Controllers
  <2>2. r = [g EXCEPT !.motors = FALSE]
    BY <1>2 DEF RateControl
  <2> HIDE DEF g
  <2> QED BY <2>1, <2>2 DEF Controllers
<1>3. CASE ~(f.low /\ f.flipFlag = 0)
  <2>1. r = [f EXCEPT !.low = own, !.motors = ~f.overG,
                      !.mode = IF f.overG THEN "PARKING" ELSE @]
    BY <1>3, Zenon DEF RateControl
  <2> DEFINE g == [f EXCEPT !.low = own]
             h == [g EXCEPT !.motors = ~f.overG]
  <2>2. /\ g \in Controllers /\ g.flipCounter = f.flipCounter /\ g.mode = f.mode
        /\ g.overG = f.overG /\ g.chatter = f.chatter /\ g.flipChatta = f.flipChatta
        /\ g.ahrsReset = f.ahrsReset /\ g.flipFlag = f.flipFlag
    <3> HIDE DEF own
    <3> QED BY <1>1 DEF Controllers
  <2>3. r = [h EXCEPT !.mode = IF f.overG THEN "PARKING" ELSE f.mode]
    BY <2>1
  <2> HIDE DEF g, own
  <2>4. CASE f.overG
    <3>1. h = [g EXCEPT !.motors = FALSE]
      BY <2>4
    <3> HIDE DEF h
    <3>2. h \in Controllers /\ h.flipCounter = f.flipCounter /\ h.motors = FALSE
          /\ h.overG = f.overG /\ h.chatter = f.chatter /\ h.flipChatta = f.flipChatta
          /\ h.ahrsReset = f.ahrsReset /\ h.flipFlag = f.flipFlag
      BY <2>2, <3>1 DEF Controllers
    <3>3. r = [h EXCEPT !.mode = "PARKING"]
      BY <2>3, <2>4
    <3>4. r \in Controllers /\ r.mode = "PARKING" /\ r.motors = FALSE
      BY <3>2, <3>3 DEF Controllers
    <3>5. r.overG = h.overG /\ r.chatter = h.chatter /\ r.flipChatta = h.flipChatta /\ r.ahrsReset = h.ahrsReset
          /\ r.flipFlag = h.flipFlag /\ r.flipCounter = h.flipCounter
      BY <3>2, <3>3 DEF Controllers
    <3> QED BY <3>2, <3>4, <3>5
  <2>5. CASE ~f.overG
    <3>1. h = [g EXCEPT !.motors = TRUE]
      BY <2>5
    <3> HIDE DEF h
    <3>2. h \in Controllers /\ h.flipCounter = f.flipCounter
          /\ h.mode = f.mode
          /\ h.overG = f.overG /\ h.chatter = f.chatter /\ h.flipChatta = f.flipChatta
          /\ h.ahrsReset = f.ahrsReset /\ h.flipFlag = f.flipFlag
      BY <2>2, <3>1 DEF Controllers
    <3>3. r = [h EXCEPT !.mode = h.mode]
      BY <2>3, <2>5, <3>2
    <3>4. r = h
      BY <3>2, <3>3 DEF Controllers
    <3> QED BY <2>5, <3>2, <3>4
  <2> QED BY <2>4, <2>5
<1> QED
  BY <1>2, <1>3

\* The control of a turn, one after the other.
LEMMA ControlledFacts ==
    ASSUME NEW f \in Controllers, NEW in \in Inputs
    PROVE  LET c == Controlled(f, in) IN
           /\ c \in Controllers
           /\ c.overG = f.overG /\ c.chatter = f.chatter /\ c.flipChatta = f.flipChatta /\ c.ahrsReset = f.ahrsReset
           /\ c.flipFlag \in {0, f.flipFlag} /\ c.flipCounter \in {0, f.flipCounter}
           /\ c.mode \in {f.mode, "PARKING"}
           /\ ~(c.overG /\ c.motors)
<1> DEFINE a == AngleControl(f)
<1>1. /\ a \in Controllers
      /\ a.mode = f.mode /\ a.overG = f.overG /\ a.chatter = f.chatter /\ a.flipChatta = f.flipChatta
      /\ a.ahrsReset = f.ahrsReset
      /\ a.flipFlag \in {0, f.flipFlag} /\ a.flipCounter \in {0, f.flipCounter}
  BY AngleFacts
<1>2. LET c == RateControl(a, in) IN
      /\ c \in Controllers
      /\ c.overG = a.overG /\ c.chatter = a.chatter /\ c.flipChatta = a.flipChatta
      /\ c.ahrsReset = a.ahrsReset /\ c.flipFlag = a.flipFlag
      /\ c.flipCounter \in {0, a.flipCounter}
      /\ c.mode \in {a.mode, "PARKING"}
      /\ ~(c.overG /\ c.motors)
  BY <1>1, RateFacts
<1> QED
  BY <1>1, <1>2 DEF Controlled

-----------------------------------------------------------------------------
(* The turns. *)

\* What every turn keeps.
Clean(g) == g.mode = "FLIGHT" => g.flipFlag = 0 /\ g.flipCounter = 0 /\ ~g.ahrsReset

Stopped(g) == ~(g.overG /\ g.motors)

\* Told to end flight, a turn from f does.
Obeys(f, g, lost) ==
    g.overG \/ Judged(f, g) \/ lost =>
        \/ g.mode \in {"AUTO_LANDING", "PARKING"}
        \/ g.mode = "FLIP" /\ f.flipChatta = FlipDebounce

\* With the link lost, only the flip button keeps a turn from f in flight, and it
\* has to be counted again.
Restarts(f, g, lost) ==
    lost => \/ g.mode \in {"AUTO_LANDING", "PARKING"}
            \/ g.mode = "FLIP" /\ f.flipChatta = FlipDebounce /\ g.flipChatta = 0

\* The turns before PARKING stop the motors.
LEMMA GroundTurns ==
    ASSUME NEW f \in Controllers, NEW in \in Inputs
    PROVE  /\ f.mode = "INIT" => /\ InitTurn(f, in) \in Controllers
                                 /\ Clean(InitTurn(f, in)) /\ Stopped(InitTurn(f, in))
           /\ f.mode = "AVERAGE" => /\ AverageTurn(f, in) \in Controllers
                                    /\ Clean(AverageTurn(f, in)) /\ Stopped(AverageTurn(f, in))
<1>1. /\ InitTurn(f, in) \in Controllers
      /\ Clean(InitTurn(f, in)) /\ Stopped(InitTurn(f, in))
  <2> DEFINE g == [f EXCEPT !.motors = FALSE]
  <2>1. g \in Controllers /\ g.motors = FALSE
    BY DEF Controllers
  <2>2. InitTurn(f, in) = [g EXCEPT !.mode = "AVERAGE"]
    BY DEF InitTurn
  <2> HIDE DEF g
  <2> QED BY <2>1, <2>2 DEF Controllers, Clean, Stopped
<1>2. ASSUME f.mode = "AVERAGE"
      PROVE  /\ AverageTurn(f, in) \in Controllers
             /\ Clean(AverageTurn(f, in)) /\ Stopped(AverageTurn(f, in))
  <2> DEFINE g == [f EXCEPT !.motors = FALSE]
  <2>1. g \in Controllers /\ g.motors = FALSE /\ g.mode = "AVERAGE" /\ g.offset = f.offset
    BY <1>2 DEF Controllers
  <2> HIDE DEF g
  <2>2. CASE f.offset < AverageNum
    <3>1. AverageTurn(f, in) = [g EXCEPT !.offset = f.offset + 1]
      BY <2>2 DEF AverageTurn, g
    <3>2. f.offset + 1 \in 0 .. AverageNum
      BY <2>2, ConstantsAssumption DEF Controllers
    <3> QED BY <2>1, <3>1, <3>2 DEF Controllers, Clean, Stopped
  <2>3. CASE ~(f.offset < AverageNum)
    <3>1. AverageTurn(f, in) = [g EXCEPT !.mode = "PARKING"]
      BY <2>3 DEF AverageTurn, g
    <3> QED BY <2>1, <3>1 DEF Controllers, Clean, Stopped
  <2> QED BY <2>2, <2>3
<1> QED
  BY <1>1, <1>2

\* A turn in FLIGHT: what it decides last still obeys what it was told first.
LEMMA FlightTurnFacts ==
    ASSUME NEW f \in Controllers, NEW in \in Inputs, NEW lost \in BOOLEAN,
           f.mode = "FLIGHT", Clean(f)
    PROVE  LET g == FlightTurn(f, in, lost) IN
           g \in Controllers /\ Clean(g) /\ Stopped(g) /\ Obeys(f, g, lost)
           /\ Restarts(f, g, lost) /\ (g.mode = "FLIP" => g.flipCounter = 0)
<1> DEFINE l == LeaveFlight(f, in, lost)
           t == GetCommand(l, in)
           g == Controlled(t, in)
<1>1. /\ l \in Controllers
      /\ l.flipFlag = f.flipFlag /\ l.flipCounter = f.flipCounter
      /\ l.ahrsReset = f.ahrsReset /\ l.overG = f.overG
      /\ l.flipChatta = f.flipChatta
      /\ l.mode \in {f.mode, "AUTO_LANDING", "PARKING"}
      /\ f.overG \/ Judged(f, l) \/ lost => l.mode \in {"AUTO_LANDING", "PARKING"}
  BY LeaveFlightFacts
<1> HIDE DEF l
<1>2. /\ t \in Controllers
      /\ t.flipCounter = l.flipCounter /\ t.ahrsReset = l.ahrsReset
      /\ t.overG = l.overG /\ t.chatter = l.chatter
      /\ \/ t.mode = l.mode /\ t.flipFlag = l.flipFlag
         \/ t.mode = "FLIP" /\ l.flipChatta = FlipDebounce /\ t.flipChatta = 0
  BY <1>1, GetCommandFacts
<1> HIDE DEF t
<1>3. /\ g \in Controllers
      /\ g.overG = t.overG /\ g.chatter = t.chatter /\ g.flipChatta = t.flipChatta /\ g.ahrsReset = t.ahrsReset
      /\ g.flipFlag \in {0, t.flipFlag} /\ g.flipCounter \in {0, t.flipCounter}
      /\ g.mode \in {t.mode, "PARKING"}
      /\ ~(g.overG /\ g.motors)
  BY <1>2, ControlledFacts
<1> HIDE DEF g
<1>4. FlightTurn(f, in, lost) = g
  BY DEF FlightTurn, g, t, l
<1>5. Clean(g)
  BY <1>1, <1>2, <1>3 DEF Clean
<1>6. Obeys(f, g, lost)
  BY <1>1, <1>2, <1>3 DEF Obeys, Judged
<1>7. Restarts(f, g, lost) /\ (g.mode = "FLIP" => g.flipCounter = 0)
  BY <1>1, <1>2, <1>3 DEF Restarts, Clean
<1> QED
  BY <1>3, <1>4, <1>5, <1>6, <1>7 DEF Stopped

\* The rotation is flown to its end whatever the mode, which no control in it sets
\* to anything but PARKING.
LEMMA RotateFacts ==
    ASSUME NEW f \in Controllers, NEW in \in Inputs, f.flipCounter < RecoverEnd
    PROVE  LET g == Rotate(f, in) IN
           /\ g \in Controllers
           /\ g.overG = f.overG /\ g.chatter = f.chatter
           /\ g.mode \in {f.mode, "PARKING"}
           /\ ~(g.overG /\ g.motors)
<1> DEFINE stage == Stage(f.flipCounter)
           a == [f EXCEPT !.flipFlag = stage]
           b == [a EXCEPT !.low = stage \in {3, 4} /\ in.low]
           c == [b EXCEPT !.ahrsReset = @ \/ stage = 6]
           r == RateControl(c, in)
           g == Rotate(f, in)
<1>1. stage \in 1 .. 6
  BY DEF Stage
<1>2. (stage \in {3, 4} /\ in.low) \in BOOLEAN /\ (f.ahrsReset \/ stage = 6) \in BOOLEAN
  OBVIOUS
<1>3. FlipEnd \in Nat /\ RecoverEnd \in Nat /\ RecoverEnd < FlipEnd
  BY ConstantsAssumption DEF FlipEnd, RecoverEnd, RotateEnd
<1> HIDE DEF stage
<1>4. /\ a \in Controllers /\ a.overG = f.overG /\ a.chatter = f.chatter /\ a.mode = f.mode
      /\ a.flipCounter = f.flipCounter /\ a.ahrsReset = f.ahrsReset
  BY <1>1 DEF Controllers
<1> HIDE DEF a
<1>5. /\ b \in Controllers /\ b.overG = f.overG /\ b.chatter = f.chatter /\ b.mode = f.mode
      /\ b.flipCounter = f.flipCounter /\ b.ahrsReset = f.ahrsReset
  BY <1>2, <1>4 DEF Controllers
<1> HIDE DEF b
<1>6. /\ c \in Controllers /\ c.overG = f.overG /\ c.chatter = f.chatter /\ c.mode = f.mode
      /\ c.flipCounter = f.flipCounter
  BY <1>2, <1>5 DEF Controllers
<1>7. g = Step(r)
  BY Zenon DEF Rotate, stage, a, b, c
<1> HIDE DEF c
<1>8. /\ r \in Controllers
      /\ r.overG = c.overG /\ r.chatter = c.chatter
      /\ r.flipCounter \in {0, c.flipCounter}
      /\ r.mode \in {c.mode, "PARKING"}
      /\ ~(r.overG /\ r.motors)
  BY <1>6, RateFacts
<1> HIDE DEF r, g
<1>9. r.flipCounter + 1 \in 0 .. FlipEnd
  BY <1>3, <1>6, <1>8 DEF Controllers
<1>10. /\ g \in Controllers /\ g.overG = r.overG /\ g.chatter = r.chatter
       /\ g.mode = r.mode /\ g.motors = r.motors
  BY <1>7, <1>8, <1>9 DEF Step, Controllers
<1>11. g = Rotate(f, in)
  BY DEF g
<1> QED
  BY <1>6, <1>8, <1>10, <1>11

\* The last stage of a flip is under normal control, which may start a flip.
LEMMA SettleFacts ==
    ASSUME NEW f \in Controllers, NEW in \in Inputs, f.flipCounter < FlipEnd
    PROVE  LET g == Settle(f, in) IN
           /\ g \in Controllers
           /\ g.overG = f.overG /\ g.chatter = f.chatter
           /\ \/ g.mode \in {f.mode, "PARKING"}
              \/ g.mode = "FLIP" /\ f.flipChatta = FlipDebounce /\ g.flipChatta = 0
           /\ ~(g.overG /\ g.motors)
<1> DEFINE a == [f EXCEPT !.flipFlag = 0]
           t == GetCommand(a, in)
           c == Controlled(t, in)
           g == Settle(f, in)
<1>1. FlipEnd \in Nat
  BY ConstantsAssumption DEF FlipEnd, RotateEnd
<1>2. /\ a \in Controllers /\ a.overG = f.overG /\ a.chatter = f.chatter /\ a.mode = f.mode
      /\ a.flipCounter = f.flipCounter /\ a.flipChatta = f.flipChatta
  BY DEF Controllers
<1>3. g = Step(c)
  BY Zenon DEF Settle
<1> HIDE DEF a, g
<1>4. /\ t \in Controllers /\ t.flipCounter = a.flipCounter
      /\ t.overG = a.overG /\ t.chatter = a.chatter
      /\ \/ t.mode = a.mode
         \/ t.mode = "FLIP" /\ a.flipChatta = FlipDebounce /\ t.flipChatta = 0
  BY <1>2, GetCommandFacts
<1> HIDE DEF t
<1>5. /\ c \in Controllers
      /\ c.overG = t.overG /\ c.chatter = t.chatter /\ c.flipChatta = t.flipChatta
      /\ c.flipCounter \in {0, t.flipCounter}
      /\ c.mode \in {t.mode, "PARKING"}
      /\ ~(c.overG /\ c.motors)
  BY <1>4, ControlledFacts
<1> HIDE DEF c
<1>6. c.flipCounter + 1 \in 0 .. FlipEnd
  BY <1>1, <1>2, <1>4, <1>5 DEF Controllers
<1>7. /\ g \in Controllers /\ g.overG = c.overG /\ g.chatter = c.chatter /\ g.flipChatta = c.flipChatta
      /\ g.mode = c.mode /\ g.motors = c.motors
  BY <1>3, <1>5, <1>6 DEF Step, Controllers
<1>8. g = Settle(f, in)
  BY DEF g
<1> QED
  BY <1>2, <1>4, <1>5, <1>7, <1>8

\* The end of a flip: FLIGHT, with nothing left of it.
LEMMA EndFlipFacts ==
    ASSUME NEW f \in Controllers
    PROVE  /\ EndFlip(f) \in Controllers /\ Clean(EndFlip(f))
           /\ EndFlip(f).mode = "FLIGHT" /\ EndFlip(f).flipChatta = f.flipChatta
<1> DEFINE a == [f EXCEPT !.flipFlag = 0]
           b == [a EXCEPT !.ahrsReset = FALSE]
           c == [b EXCEPT !.flipCounter = 0]
<1>1. FlipEnd \in Nat
  BY ConstantsAssumption DEF FlipEnd, RotateEnd
<1>2. EndFlip(f) = [c EXCEPT !.mode = "FLIGHT"]
  BY DEF EndFlip
<1>3. a \in Controllers /\ a.flipChatta = f.flipChatta /\ a.flipFlag = 0
  BY DEF Controllers
<1> HIDE DEF a
<1>4. b \in Controllers /\ b.flipChatta = f.flipChatta /\ b.flipFlag = 0 /\ b.ahrsReset = FALSE
  BY <1>3 DEF Controllers
<1> HIDE DEF b
<1>5. c \in Controllers /\ c.flipChatta = f.flipChatta /\ c.flipFlag = 0 /\ c.ahrsReset = FALSE /\ c.flipCounter = 0
  BY <1>1, <1>4 DEF Controllers
<1> HIDE DEF c
<1> QED
  BY <1>2, <1>5 DEF Controllers, Clean

\* A turn in FLIP: only the one that ends the flip forgets what it was told.
LEMMA FlipTurnFacts ==
    ASSUME NEW f \in Controllers, NEW in \in Inputs, NEW lost \in BOOLEAN, f.mode = "FLIP"
    PROVE  LET g == FlipTurn(f, in, lost) IN
           /\ g \in Controllers /\ Clean(g)
           /\ \/ f.flipCounter = FlipEnd
              \/ Stopped(g) /\ Obeys(f, g, lost) /\ Restarts(f, g, lost)
           /\ f.flipCounter = FlipEnd => g.mode = "FLIGHT" /\ g.flipChatta = f.flipChatta
<1> DEFINE l == LeaveFlight(f, in, lost)
           g == FlipTurn(f, in, lost)
<1>1. /\ l \in Controllers
      /\ l.flipCounter = f.flipCounter /\ l.overG = f.overG
      /\ l.flipChatta = f.flipChatta
      /\ l.mode \in {f.mode, "AUTO_LANDING", "PARKING"}
      /\ f.overG \/ Judged(f, l) \/ lost => l.mode \in {"AUTO_LANDING", "PARKING"}
  BY LeaveFlightFacts
<1>2. /\ RecoverEnd \in Nat /\ FlipEnd \in Nat /\ RecoverEnd < FlipEnd
      /\ l.flipCounter \in 0 .. FlipEnd
  BY <1>1, ConstantsAssumption DEF FlipEnd, RecoverEnd, RotateEnd, Controllers
<1> HIDE DEF l
<1>3. CASE l.flipCounter < RecoverEnd
  <2>1. g = Rotate(l, in)
    BY <1>2, <1>3 DEF FlipTurn, l
  <2>2. /\ g \in Controllers
        /\ g.overG = l.overG /\ g.chatter = l.chatter
        /\ g.mode \in {l.mode, "PARKING"}
        /\ ~(g.overG /\ g.motors)
    BY <1>1, <1>3, <2>1, RotateFacts
  <2> QED BY <1>1, <1>2, <1>3, <2>2 DEF Clean, Stopped, Obeys, Restarts, Judged
<1>4. CASE l.flipCounter >= RecoverEnd /\ l.flipCounter < FlipEnd
  <2>1. g = Settle(l, in)
    BY <1>2, <1>4 DEF FlipTurn, l
  <2>2. /\ g \in Controllers
        /\ g.overG = l.overG /\ g.chatter = l.chatter
        /\ \/ g.mode \in {l.mode, "PARKING"}
           \/ g.mode = "FLIP" /\ l.flipChatta = FlipDebounce /\ g.flipChatta = 0
        /\ ~(g.overG /\ g.motors)
    BY <1>1, <1>4, <2>1, SettleFacts
  <2> QED BY <1>1, <1>2, <1>4, <2>2 DEF Clean, Stopped, Obeys, Restarts, Judged
<1>5. CASE ~(l.flipCounter < FlipEnd)
  <2>1. g = EndFlip(l)
    BY <1>2, <1>5 DEF FlipTurn, l
  <2>2. f.flipCounter = FlipEnd
    BY <1>1, <1>2, <1>5
  <2> QED BY <1>1, <2>1, <2>2, EndFlipFacts
<1> QED
  BY <1>2, <1>3, <1>4, <1>5

\* PARKING forgets the flip: the only way to FLIGHT from the ground.
LEMMA ParkingTurnFacts ==
    ASSUME NEW f \in Controllers, NEW in \in Inputs, f.mode = "PARKING"
    PROVE  LET g == ParkingTurn(f, in) IN
           g \in Controllers /\ Clean(g) /\ Stopped(g)
<1> DEFINE j == JudgeModeChange(f, in)
           a == [j EXCEPT !.mode = IF Judged(f, j) THEN "FLIGHT" ELSE @]
           b == [a EXCEPT !.motors = FALSE]
           c == [b EXCEPT !.overG = FALSE]
           d == [c EXCEPT !.alt = FALSE]
           e == [d EXCEPT !.takeoff = 0]
           k == [e EXCEPT !.flipFlag = 0]
           n == [k EXCEPT !.flipCounter = 0]
<1>1. j \in Controllers
  BY JudgeFacts
<1>2. ParkingTurn(f, in) = [n EXCEPT !.ahrsReset = FALSE]
  BY Zenon DEF ParkingTurn
<1>3. FlipEnd \in Nat /\ RampLow \in Nat
  BY ConstantsAssumption DEF FlipEnd, RotateEnd
<1> HIDE DEF j
<1>4. a \in Controllers
  BY <1>1 DEF Controllers
<1> HIDE DEF a
<1>5. b \in Controllers /\ b.motors = FALSE
  BY <1>4 DEF Controllers
<1> HIDE DEF b
<1>6. c \in Controllers /\ c.motors = FALSE
  BY <1>5 DEF Controllers
<1> HIDE DEF c
<1>7. d \in Controllers /\ d.motors = FALSE
  BY <1>6 DEF Controllers
<1> HIDE DEF d
<1>8. e \in Controllers /\ e.motors = FALSE
  BY <1>3, <1>7 DEF Controllers
<1> HIDE DEF e
<1>9. k \in Controllers /\ k.motors = FALSE /\ k.flipFlag = 0
  BY <1>8 DEF Controllers
<1> HIDE DEF k
<1>10. n \in Controllers /\ n.motors = FALSE /\ n.flipFlag = 0 /\ n.flipCounter = 0
  BY <1>3, <1>9 DEF Controllers
<1> HIDE DEF n
<1> QED
  BY <1>2, <1>10 DEF Controllers, Clean, Stopped

\* A turn in AUTO_LANDING stays in it or parks.
LEMMA LandingTurnFacts ==
    ASSUME NEW f \in Controllers, NEW in \in Inputs, f.mode = "AUTO_LANDING"
    PROVE  LET g == LandingTurn(f, in) IN
           g \in Controllers /\ Clean(g) /\ Stopped(g)
<1> DEFINE a == AutoLanding(f)
           j == JudgeModeChange(a, in)
           p == [j EXCEPT !.mode = IF in.ground \/ Judged(f, j) THEN "PARKING" ELSE @]
           c == Controlled(p, in)
<1>1. LandingTurn(f, in) = c
  BY Zenon DEF LandingTurn
<1>2. a \in Controllers /\ a.mode = "AUTO_LANDING"
  BY DEF AutoLanding, Controllers
<1> HIDE DEF a
<1>3. j \in Controllers /\ j.mode = "AUTO_LANDING"
  BY <1>2, JudgeFacts DEF SameFlight
<1> HIDE DEF j
<1>4. p \in Controllers /\ p.mode \in {"AUTO_LANDING", "PARKING"}
  BY <1>3 DEF Controllers
<1> HIDE DEF p
<1>5. c \in Controllers /\ c.mode \in {p.mode, "PARKING"} /\ ~(c.overG /\ c.motors)
  BY <1>4, ControlledFacts
<1> QED
  BY <1>1, <1>4, <1>5 DEF Clean, Stopped

-----------------------------------------------------------------------------
(* The specification. *)

IInv == TypeOK /\ FlightStartsClean

\* The turns that a lost link leaves a controller in flight: one, unless the flip
\* button is about to fire or the turn ends a flip, and so at most three.
TurnsLeft(f) ==
    CASE f.mode \notin Flying -> 0
      [] f.mode = "FLIGHT" -> IF f.flipChatta = FlipDebounce THEN 2 ELSE 1
      [] f.mode = "FLIP" /\ f.flipCounter # FlipEnd ->
            IF f.flipChatta = FlipDebounce THEN 3 ELSE 1
      [] f.mode = "FLIP" /\ f.flipCounter = FlipEnd ->
            IF f.flipChatta = FlipDebounce THEN 3 ELSE 2

\* A turn from a clean controller, whichever mode it starts in.
LEMMA TurnStep ==
    ASSUME IInv, Turn
    PROVE  /\ IInv'
           /\ FlipEnds \/ Stopped(fc')
           /\ fc.mode \in Flying => FlipEnds \/ Obeys(fc, fc', LinkDown')
           /\ fc.mode \in Flying /\ LinkDown /\ FlipDebounce # 0 =>
                LinkDown' /\ TurnsLeft(fc') < TurnsLeft(fc)
<1> DEFINE f(in) == SensorRead(fc, in)
<1>0. PICK now \in Inputs : TurnOn(now)
  BY DEF Turn
<1>1. fc \in Controllers /\ link \in 0 .. LinkLimit /\ Clean(fc)
  BY DEF IInv, TypeOK, FlightStartsClean, Clean
<1>2. \A in \in Inputs :
        /\ f(in) \in Controllers /\ Clean(f(in))
        /\ f(in).mode = fc.mode /\ f(in).flipCounter = fc.flipCounter
        /\ f(in).chatter = fc.chatter /\ f(in).flipChatta = fc.flipChatta
  BY <1>1, SensorFacts DEF Clean
<1> HIDE DEF f
<1>3. \A in \in Inputs : \A g, lost :
        Obeys(f(in), g, lost) => Obeys(fc, g, lost)
  BY <1>2 DEF Obeys, Judged
<1>4. ASSUME fc' \in Controllers, Clean(fc'), link' \in 0 .. LinkLimit
      PROVE  IInv'
  BY <1>4 DEF IInv, TypeOK, FlightStartsClean, Clean
<1>5. CountLink => link' \in 0 .. LinkLimit
  BY <1>1, ConstantsAssumption DEF CountLink
<1>6. LinkDown' \in BOOLEAN
  BY DEF LinkDown
<1>6a. CountLink /\ LinkDown => LinkDown'
  BY <1>1, ConstantsAssumption DEF CountLink, LinkDown
<1>6b. FlipEnd \in Nat /\ FlipEnd # 0
  BY ConstantsAssumption DEF FlipEnd, RotateEnd
<1>6c. fc.mode \in Modes /\ fc.flipChatta \in Int
  BY <1>1 DEF Controllers
<1>7. CASE InitMode(now)
  <2>1. fc' = InitTurn(f(now), now)
    BY <1>7 DEF InitMode, f
  <2>2. fc.mode = "INIT" /\ link' = link
    BY <1>7 DEF InitMode
  <2>3. fc' \in Controllers /\ Clean(fc') /\ Stopped(fc')
    BY <1>2, <2>1, <2>2, GroundTurns
  <2> QED BY <1>1, <1>4, <2>2, <2>3
<1>8. CASE AverageMode(now)
  <2>1. fc' = AverageTurn(f(now), now)
    BY <1>8 DEF AverageMode, f
  <2>2. fc.mode = "AVERAGE" /\ link' = link
    BY <1>8 DEF AverageMode
  <2>3. fc' \in Controllers /\ Clean(fc') /\ Stopped(fc')
    BY <1>2, <2>1, <2>2, GroundTurns
  <2> QED BY <1>1, <1>4, <2>2, <2>3
<1>9. CASE Flight(now)
  <2>1. fc' = FlightTurn(f(now), now, LinkDown')
    BY <1>9 DEF Flight, f
  <2>2. fc.mode = "FLIGHT" /\ link' \in 0 .. LinkLimit
    BY <1>5, <1>9 DEF Flight
  <2>3. /\ fc' \in Controllers /\ Clean(fc') /\ Stopped(fc')
        /\ Obeys(f(now), fc', LinkDown')
        /\ Restarts(f(now), fc', LinkDown') /\ (fc'.mode = "FLIP" => fc'.flipCounter = 0)
    BY <1>2, <1>6, <2>1, <2>2, FlightTurnFacts
  <2>4. LinkDown /\ FlipDebounce # 0 => LinkDown' /\ TurnsLeft(fc') < TurnsLeft(fc)
    <3> SUFFICES ASSUME LinkDown, FlipDebounce # 0
                 PROVE  LinkDown' /\ TurnsLeft(fc') < TurnsLeft(fc)
      OBVIOUS
    <3>1. LinkDown'
      BY <1>6a, <1>9 DEF Flight
    <3>2. \/ fc'.mode \in {"AUTO_LANDING", "PARKING"}
          \/ /\ fc'.mode = "FLIP" /\ fc.flipChatta = FlipDebounce
             /\ fc'.flipChatta = 0 /\ fc'.flipCounter = 0
      BY <1>2, <2>3, <3>1 DEF Restarts
    <3>3. TurnsLeft(fc) = IF fc.flipChatta = FlipDebounce THEN 2 ELSE 1
      BY <2>2 DEF TurnsLeft
    <3>4. CASE fc'.mode \in {"AUTO_LANDING", "PARKING"}
      <4>1. TurnsLeft(fc') = 0
        BY <3>4 DEF TurnsLeft
      <4> QED BY <3>1, <3>3, <4>1
    <3>5. CASE fc'.mode \notin {"AUTO_LANDING", "PARKING"}
      <4>1. TurnsLeft(fc') = 1
        BY <1>6b, <3>2, <3>5 DEF TurnsLeft
      <4> QED BY <3>1, <3>2, <3>3, <3>5, <4>1
    <3> QED BY <3>4, <3>5
  <2> QED BY <1>3, <1>4, <2>2, <2>3, <2>4
<1>10. CASE Flip(now)
  <2>1. fc' = FlipTurn(f(now), now, LinkDown')
    BY <1>10 DEF Flip, f
  <2>2. fc.mode = "FLIP" /\ link' \in 0 .. LinkLimit
    BY <1>5, <1>10 DEF Flip
  <2>3. /\ fc' \in Controllers /\ Clean(fc')
        /\ \/ fc.flipCounter = FlipEnd
           \/ /\ Stopped(fc') /\ Obeys(f(now), fc', LinkDown')
              /\ Restarts(f(now), fc', LinkDown')
        /\ fc.flipCounter = FlipEnd =>
             fc'.mode = "FLIGHT" /\ fc'.flipChatta = fc.flipChatta
    BY <1>2, <1>6, <2>1, <2>2, FlipTurnFacts
  <2>4. LinkDown /\ FlipDebounce # 0 => LinkDown' /\ TurnsLeft(fc') < TurnsLeft(fc)
    <3> SUFFICES ASSUME LinkDown, FlipDebounce # 0
                 PROVE  LinkDown' /\ TurnsLeft(fc') < TurnsLeft(fc)
      OBVIOUS
    <3>1. LinkDown'
      BY <1>6a, <1>10 DEF Flip
    <3>2. CASE fc.flipCounter = FlipEnd
      <4>1. TurnsLeft(fc) = IF fc.flipChatta = FlipDebounce THEN 3 ELSE 2
        BY <2>2, <3>2 DEF TurnsLeft
      <4>2. TurnsLeft(fc') = IF fc.flipChatta = FlipDebounce THEN 2 ELSE 1
        BY <2>3, <3>2 DEF TurnsLeft
      <4> QED BY <3>1, <4>1, <4>2
    <3>3. CASE fc.flipCounter # FlipEnd
      <4>1. TurnsLeft(fc) = IF fc.flipChatta = FlipDebounce THEN 3 ELSE 1
        BY <2>2, <3>3 DEF TurnsLeft
      <4>2. \/ fc'.mode \in {"AUTO_LANDING", "PARKING"}
            \/ /\ fc'.mode = "FLIP" /\ fc.flipChatta = FlipDebounce
               /\ fc'.flipChatta = 0
        BY <1>2, <2>3, <3>1, <3>3 DEF Restarts
      <4>3. CASE fc'.mode \in {"AUTO_LANDING", "PARKING"}
        <5>1. TurnsLeft(fc') = 0
          BY <4>3 DEF TurnsLeft
        <5> QED BY <3>1, <4>1, <5>1
      <4>4. CASE fc'.mode \notin {"AUTO_LANDING", "PARKING"}
        <5>1. TurnsLeft(fc') \in {1, 2}
          BY <4>2, <4>4 DEF TurnsLeft
        <5> QED BY <3>1, <4>1, <4>2, <4>4, <5>1
      <4> QED BY <4>3, <4>4
    <3> QED BY <3>2, <3>3
  <2> QED BY <1>3, <1>4, <2>2, <2>3, <2>4 DEF FlipEnds
<1>11. CASE Parking(now)
  <2>1. fc' = ParkingTurn(f(now), now)
    BY <1>11 DEF Parking, f
  <2>2. fc.mode = "PARKING" /\ link' = link
    BY <1>11 DEF Parking
  <2>3. fc' \in Controllers /\ Clean(fc') /\ Stopped(fc')
    BY <1>2, <2>1, <2>2, ParkingTurnFacts
  <2> QED BY <1>1, <1>4, <2>2, <2>3
<1>12. CASE Landing(now)
  <2>1. fc' = LandingTurn(f(now), now)
    BY <1>12 DEF Landing, f
  <2>2. fc.mode = "AUTO_LANDING" /\ link' = link
    BY <1>12 DEF Landing
  <2>3. fc' \in Controllers /\ Clean(fc') /\ Stopped(fc')
    BY <1>2, <2>1, <2>2, LandingTurnFacts
  <2> QED BY <1>1, <1>4, <2>2, <2>3
<1> QED
  BY <1>0, <1>7, <1>8, <1>9, <1>10, <1>11, <1>12 DEF TurnOn

\* The controller starts clean.
LEMMA InitInv == Init => IInv
<1> SUFFICES ASSUME Init PROVE IInv
  OBVIOUS
<1>1. FlipEnd \in Nat
  BY ConstantsAssumption DEF FlipEnd, RotateEnd
<1>2. fc \in Controllers
  BY <1>1, ConstantsAssumption DEF Init, Controllers
<1> QED
  BY <1>2, ConstantsAssumption DEF Init, IInv, TypeOK, FlightStartsClean

\* Types and the clean start are inductive together, for every length of
\* debouncing, flip and take-off ramp and every limit of the link.
THEOREM Inductive == Spec => []IInv
<1>1. IInv /\ [Next]_vars => IInv'
  <2> SUFFICES ASSUME IInv, [Next]_vars PROVE IInv'
    OBVIOUS
  <2>1. CASE Turn
    BY <2>1, TurnStep
  <2>2. CASE LinkAlive
    BY <2>2, ConstantsAssumption DEF LinkAlive, IInv, TypeOK, FlightStartsClean
  <2>3. CASE UNCHANGED vars
    BY <2>3 DEF vars, IInv, TypeOK, FlightStartsClean
  <2> QED BY <2>1, <2>2, <2>3 DEF Next
<1> QED
  BY InitInv, <1>1, PTL DEF Spec

\* Every counter of the controller stays within its limit.
THEOREM TypeCorrect == Spec => []TypeOK
  BY Inductive, PTL DEF IInv

\* Normal flight never starts with the rest of a flip, however it was abandoned
\* (flight_control.cpp:377-381, 524-526).
THEOREM FlightIsClean == Spec => []FlightStartsClean
  BY Inductive, PTL DEF IInv

\* Over-G keeps the motors stopped in the turn that sees it, whatever that turn
\* decides afterwards (flight_control.cpp:915-928).
THEOREM OverGStops == Spec => OverGCutsMotors
<1>1. IInv /\ [Next]_vars => [fc'.overG /\ fc'.motors => FlipEnds]_fc
  <2> SUFFICES ASSUME IInv, Turn PROVE fc'.overG /\ fc'.motors => FlipEnds
    BY DEF Next, vars, LinkAlive
  <2> QED BY TurnStep DEF Stopped
<1> QED
  BY Inductive, <1>1, PTL DEF Spec, OverGCutsMotors

\* Told by the button, the link or over-G, flight ends in that turn, unless a flip
\* starts or ends in it (flight_control.cpp:340-347, 424-426, 527, 694).
THEOREM FlightEnds == Spec => FlightEndsWhenTold
<1>1. IInv /\ [Next]_vars =>
        [ fc.mode \in Flying /\ (fc'.overG \/ Judged(fc, fc') \/ LinkDown')
          => \/ fc'.mode \in {"AUTO_LANDING", "PARKING"}
             \/ fc'.mode = "FLIP" /\ fc.flipChatta = FlipDebounce
             \/ FlipEnds ]_fc
  <2> SUFFICES ASSUME IInv, Turn
               PROVE  fc.mode \in Flying /\ (fc'.overG \/ Judged(fc, fc') \/ LinkDown')
                      => \/ fc'.mode \in {"AUTO_LANDING", "PARKING"}
                         \/ fc'.mode = "FLIP" /\ fc.flipChatta = FlipDebounce
                         \/ FlipEnds
    BY DEF Next, vars, LinkAlive
  <2> QED BY TurnStep DEF Obeys
<1> QED
  BY Inductive, <1>1, PTL DEF Spec, FlightEndsWhenTold

-----------------------------------------------------------------------------
(* Flight ends when the link is lost. *)

\* Every turn flown without the link brings the end of flight nearer, if the flip
\* button is debounced at all: from any state, three turns end it.
ThreeTurnsEndFlight ==
    /\ [](TurnsLeft(fc) \in 0 .. 3 /\ (fc.mode \in Flying <=> TurnsLeft(fc) # 0))
    /\ [][fc.mode \in Flying /\ LinkDown => TurnsLeft(fc') < TurnsLeft(fc)]_fc

\* What is left is a number of turns, none of them outside flight.
LEMMA TurnsLeftType ==
    ASSUME NEW f \in Controllers
    PROVE  TurnsLeft(f) \in 0 .. 3 /\ (f.mode \in Flying <=> TurnsLeft(f) # 0)
<1>1. f.mode \in Modes
  BY DEF Controllers
<1>2. CASE f.mode \notin Flying
  BY <1>2 DEF TurnsLeft
<1>3. CASE f.mode = "FLIGHT"
  BY <1>3 DEF TurnsLeft
<1>4. CASE f.mode = "FLIP"
  BY <1>4 DEF TurnsLeft
<1> QED
  BY <1>2, <1>3, <1>4

\* However the flip button is held and wherever a flip stands, three turns without
\* the link end flight (flight_control.cpp:340-347, 424-426, 527, 694).
THEOREM LinkLossBound == FlipDebounce # 0 => (Spec => ThreeTurnsEndFlight)
<1> SUFFICES ASSUME FlipDebounce # 0 PROVE Spec => ThreeTurnsEndFlight
  OBVIOUS
<1>1. TypeOK => TurnsLeft(fc) \in 0 .. 3 /\ (fc.mode \in Flying <=> TurnsLeft(fc) # 0)
  BY TurnsLeftType DEF TypeOK
<1>2. IInv /\ [Next]_vars =>
        [fc.mode \in Flying /\ LinkDown => TurnsLeft(fc') < TurnsLeft(fc)]_fc
  <2> SUFFICES ASSUME IInv, Turn
               PROVE  fc.mode \in Flying /\ LinkDown => TurnsLeft(fc') < TurnsLeft(fc)
    BY DEF Next, vars, LinkAlive
  <2> QED BY TurnStep
<1> QED
  BY Inductive, <1>1, <1>2, PTL DEF Spec, IInv, ThreeTurnsEndFlight

\* In flight without the link, with n turns left at most.
Falling(n) == IInv /\ LinkDown /\ fc.mode \in Flying /\ TurnsLeft(fc) <= n

\* A turn brings the end nearer; until there is one, the link may come back.
LEMMA FallingStep ==
    ASSUME NEW n \in Nat, FlipDebounce # 0, Falling(n + 1)
    PROVE  /\ [Next]_vars => \/ Falling(n + 1)' \/ (fc.mode \notin Flying \/ ~LinkDown)'
           /\ <<Turn>>_vars => \/ Falling(n)' \/ (fc.mode \notin Flying \/ ~LinkDown)'
<1>1. IInv /\ LinkDown /\ fc.mode \in Flying /\ TurnsLeft(fc) <= n + 1
  BY DEF Falling
<1>2. TurnsLeft(fc) \in 0 .. 3
  BY <1>1, TurnsLeftType DEF IInv, TypeOK
<1>3. IInv' => TurnsLeft(fc') \in 0 .. 3
  <2>1. IInv' => fc' \in Controllers
    BY DEF IInv, TypeOK
  <2> QED BY <2>1, TurnsLeftType
<1>4. ASSUME Turn PROVE Falling(n)' \/ (fc.mode \notin Flying \/ ~LinkDown)'
  <2>1. IInv' /\ LinkDown' /\ TurnsLeft(fc') < TurnsLeft(fc)
    BY <1>1, <1>4, TurnStep
  <2> QED BY <1>1, <1>2, <1>3, <2>1 DEF Falling
<1>5. Falling(n)' => Falling(n + 1)'
  BY <1>3 DEF Falling
<1>6. LinkAlive => ~LinkDown'
  BY ConstantsAssumption DEF LinkAlive, LinkDown
<1>7. UNCHANGED vars => Falling(n + 1)'
  BY <1>1 DEF Falling, vars, IInv, TypeOK, FlightStartsClean, LinkDown
<1> QED
  BY <1>4, <1>5, <1>6, <1>7 DEF Next

\* A link that stays down ends flight, whatever the flip button does, as long as
\* the loop turns.
THEOREM LinkLossEnds ==
    FlipDebounce # 0 => (FairSpec /\ []TurnEnabled => LinkLossEndsFlight)
<1> SUFFICES ASSUME FlipDebounce # 0
             PROVE  FairSpec /\ []TurnEnabled => LinkLossEndsFlight
  OBVIOUS
<1> DEFINE Ended == fc.mode \notin Flying \/ ~LinkDown
           F1 == Falling(1)
           F2 == Falling(2)
           F3 == Falling(3)
<1>1. IInv /\ fc.mode \in Flying /\ LinkDown => F3
  BY TurnsLeftType DEF IInv, TypeOK, Falling
<1>2. F3 /\ [Next]_vars => F3' \/ Ended'
  BY FallingStep
<1>3. F3 /\ <<Turn>>_vars => F2' \/ Ended'
  BY FallingStep
<1>4. F2 /\ [Next]_vars => F2' \/ Ended'
  BY FallingStep
<1>5. F2 /\ <<Turn>>_vars => F1' \/ Ended'
  BY FallingStep
<1>6. F1 /\ [Next]_vars => F1' \/ Ended'
  BY FallingStep
<1>7. F1 /\ <<Turn>>_vars => Ended'
  <2>1. F1 /\ <<Turn>>_vars => Falling(0)' \/ Ended'
    BY FallingStep
  <2>2. Falling(0)' => Ended'
    <3>1. Falling(0) => Ended
      BY TurnsLeftType DEF Falling, IInv, TypeOK
    <3> QED BY <3>1, PTL
  <2> QED BY <2>1, <2>2
<1>8. F1 \/ F2 \/ F3 => fc.mode \in Flying /\ LinkDown
  BY DEF Falling
<1> HIDE DEF F1, F2, F3
<1> QED
  BY Inductive, <1>1, <1>2, <1>3, <1>4, <1>5, <1>6, <1>7, <1>8, PTL
  DEF FairSpec, Spec, TurnEnabled, LinkLossEndsFlight
=============================================================================
