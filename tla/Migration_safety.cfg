SPECIFICATION FairSpec
CONSTANTS
    Attempts = {a1, a2, a3}
    LevelIds = {0, 1, 2}
    Oversized = {a3}
    Files = {"1.txt", "01.txt", "2.txt", "x.txt"}
    Unreadable = {"x.txt"}
    FileId <- Ids
    Paths = {"none", "missing", "folder"}
    InitialVersions = {0, 1, 2, 3, 4}
    Faults = {"keep", "abort"}
    Crashes = TRUE
INVARIANTS
    TypeOK
    SchemaMatchesVersion
    LogsMatchVersion
PROPERTIES
    OpenIsUsable
    FileSpec
    OpeningEnds
