SPECIFICATION Spec
CONSTANTS
    Chars = {32, 163}
    Styles = {"plain", "bright"}
    Plain = "plain"
    NoStyle = "none"
    MoveBytes = 2
    StyleBytes = 2
    BufferBytes = 6
    COLUMNS = 1
    ROWS = 1
    MaxSide = 3
    Messages <- MCMessages
    MaxWire = 2
    Inks <- MCInks
    MaxDraws = 1
    MaxLosses = 1
INVARIANTS
    TypeOK
    FlushesAreComplete
    ForcedFlushRepairs
    EveryFlushAdvances
    CodePointsSurvive
PROPERTIES
    PacketsAreUnderstood
    BuffersPaintTheirCells
