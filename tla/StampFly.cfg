SPECIFICATION FlyFairSpec
CONSTANTS
    AverageNum = 0
    ArmDebounce = 1
    ReleaseTurns = 1
    FlipDebounce = 1
    LinkLimit = 3
    RiseLen = 1
    QuarterLen = 1
    RecoverLen = 1
    SettleLen = 2
    RampLow = 0
    ThrottleModes = {"auto", "manual"}
    PulseLen = 3
    TakeOffDelay = 2
    LandDelay = 9
    CycleTurns = 2
    MaxPace = 2
    FlipStick = {FALSE}
    Steps = {1, 3, 5}
    MaxCmds = 2
INVARIANTS
    PressTogglesOnce
PROPERTIES
    StopEndsFlight
    UndisturbedSequenceLands
