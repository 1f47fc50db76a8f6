SPECIFICATION ObserversSpec
CONSTANTS
    Notifiers = {n1, n2}
    Loggers = {l1}
    Watchers = {w1, w2}
    FullyUp = 2
    ScreenUnit = 12
    MaskUnit = 6
    ImageDefs <- MCImageDefs
    Ratios = {2, 3, 4, 6, 10, 12, 16, 30, 32, 35, 36}
    MaxMoves = 3
    MaxChanges = 2
SYMMETRY MCSymmetry
INVARIANTS
    ObserverInv
    LogIsCurrent
    ImpliedIsShown
