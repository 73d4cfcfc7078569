SPECIFICATION Spec
CONSTANTS
    Levels <- GappedLevels
    PageSize = 2
    ClassicLevel = 2
    MAX_SCREENS = 16
    DbOutcomes = {TRUE}
    MaxKeys = 1
PROPERTY
    WinningPlaysAreCounted
