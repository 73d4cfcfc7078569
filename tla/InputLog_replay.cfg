SPECIFICATION Spec
CONSTANTS
    Limit = 6
    Base = 3
    MaxDigits = 3
    Idle = I
    Moves = {L, R}
    MaxTicks = 9
    OldLogs <- MCOldLogs
INVARIANT
    ReplayRepeatsThePlay
