SPECIFICATION Spec
CONSTANTS
  ROWS = 4
  COLUMNS = 5
  Levels <- MCLevels
  Holds <- MCHolds
INVARIANTS TypeOK ExitNeedsMoney
PROPERTIES CopiesHaveMakers WallsStand FieldIsLeftAtItsEdges
