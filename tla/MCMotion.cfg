SPECIFICATION FairSpec
CONSTANTS
    FullyUp = 2
    Targets = {2}
    NoGoal = NoGoal
    LegSize = 1
    StepTime = 2
    Latency = 1
    WriteDelay = 1
    Poll = 2
    Threshold = 4
    Delay = 5
    TimingThreshold = 4
    MaxCommands = 3
INVARIANTS
    MotionInv
    MovementShown
PROPERTIES
    WaitsCoverMovement
    WaitsReturn
