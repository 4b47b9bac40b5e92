CONSTANTS
  Sources = {"", "x"}
  NoSource = ""
  Rules = {"none", "r", "q"}
  NoRules = "none"
  Normal <- MCNormal
  Capacity = 2
  MaxSessions = 5
  MaxMoves = 3
  None = None
  Blank = Blank
  Bad = Bad
SPECIFICATION AllSpec
CHECK_DEADLOCK FALSE
INVARIANTS
  TypeOK
  ShownIsCurrent
  ResultsAreOfTheRules
PROPERTIES
  LastChangeIsAnswered
