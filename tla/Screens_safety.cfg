SPECIFICATION Spec
CONSTANTS
    Levels <- GappedLevels
    PageSize = 3
    ClassicLevel = 2
    MAX_SCREENS = 16
    DbOutcomes = {TRUE, FALSE}
    MaxKeys = 2
INVARIANTS
    TypeOK
    StackShape
    SelectionShown
    LastStateIsHonest
PROPERTIES
    KeysConsumed
    AttemptsAreTruthful
    PitWalksLevels
