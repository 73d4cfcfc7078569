SPECIFICATION FairSpec
CONSTANTS
    Levels = {0}
    PageSize = 2
    ClassicLevel = 0
    MAX_SCREENS = 16
    DbOutcomes = {TRUE, FALSE}
    MaxKeys = 2
PROPERTY
    TickEnds
