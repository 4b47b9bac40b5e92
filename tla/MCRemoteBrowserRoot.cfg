CONSTANTS
  Sources = {1, 2}
  Paths = {"", "/", "home"}
  NoPath = ""
  Root = "/"
  Login <- MCLogin
  DefaultPath <- MCDefaultPath
  MaxMoves = 3
  MaxEvents = 0
  None = None
SPECIFICATION BrowserSpec
CHECK_DEADLOCK FALSE
INVARIANT
  AskedIsReached
