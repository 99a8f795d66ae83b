SPECIFICATION Spec
CONSTANTS
    AverageNum = 1
    ArmDebounce = 1
    ReleaseTurns = 2
    FlipDebounce = 1
    LinkLimit = 2
    RiseLen = 1
    QuarterLen = 1
    RecoverLen = 1
    SettleLen = 3
    RampLow = 3
    ThrottleModes = {"auto"}
PROPERTIES
    ConsecutiveFlipsSuppressed
