SPECIFICATION FairSpec
CONSTANTS
    AverageNum = 1
    ArmDebounce = 1
    ReleaseTurns = 2
    FlipDebounce = 1
    LinkLimit = 2
    RiseLen = 1
    QuarterLen = 1
    RecoverLen = 1
    SettleLen = 3
    RampLow = 2
    ThrottleModes = {"auto", "manual"}
INVARIANTS
    TypeOK
    FlightStartsClean
PROPERTIES
    OverGCutsMotors
    FlightEndsWhenTold
    LinkLossEndsFlight
