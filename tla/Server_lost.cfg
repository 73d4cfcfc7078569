SPECIFICATION Spec
CONSTANTS
    Sessions = {s1, s2}
    NULL = NULL
    MaxSends = 0
INVARIANT
    ExistingSessionsAreListed
