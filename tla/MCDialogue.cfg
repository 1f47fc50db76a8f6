SPECIFICATION MCSpec
CONSTANTS
    Devices <- EveryWidth
    Commands <- WordsOrTalk
    Preset = 250
    StepSize = 40
    LegSize = 400
    Starts = {0, 400}
    MaxCommands <- OneWordOrTalk
    NoPos = NoPos
    cr = cr
    lf = lf
    x = x
    Bytes = {cr, lf, x}
    Eol <- CrLf
    MaxInput = 7
    MaxBytes = 4
INVARIANTS
    LinesUnderstood
    HexPosSticks
    DialogueInv
    NeverWrongWay
    BufferInv
