SPECIFICATION FairSpec
CONSTANTS
    Sessions = {s1, s2}
    NULL = NULL
    MaxSends = 2
PROPERTIES
    ListedIsServed
    LeaverIsReaped
    ShutdownCompletes
