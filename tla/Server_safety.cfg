SPECIFICATION Spec
CONSTANTS
    Sessions = {s1, s2, s3, s4}
    NULL = NULL
    MaxSends = 0
SYMMETRY Symmetry
INVARIANTS
    TypeOK
    MemorySafe
    DoublyLinked
    NewestFirst
    CountIsOpenSessions
PROPERTY
    ListSpec
