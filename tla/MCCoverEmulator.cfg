SPECIFICATION FairSpec
CONSTANTS
    Requests = {r1, r2, r3}
    PresetNames = {p1}
    FullyUp = 3
    StepSize = 1
    StepsPerNotification = 2
    NoPos = NoPos
    NoOwner = NoOwner
    ObserversRaise = TRUE
    r1 = r1
    r2 = r2
    r3 = r3
    p1 = p1
INVARIANTS
    TypeOK
    OneMover
    OnTrack
    StopEventOwned
    StopsWithinALeg
    LastRequestWins
PROPERTIES
    MovesAsAMotor
    EveryRequestEnds
