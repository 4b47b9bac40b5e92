\* The remote file browser, the image lists, the task centre, the settings, the logs
\* of services and the network tests.
CONSTANTS
  None = None
  Sources = {1, 2}
  Paths = {"", "/", "home"}
  NoPath = ""
  Login <- MCLogin
  DefaultPath <- MCDefaultPath
  Root = "/"
  MaxMoves = 2
  MaxEvents = 2
  ImageSources = {docker, registry}
  Images = {a}
  Registries = {registry}
  First = registry
  MaxClients = 2
  MaxRounds = 1
  MaxWatchMoves = 1
  MaxWatchEvents = 1
  MaxWire = 2
  Tasks = {t1, t2}
  MaxRevision = 4
  MaxRuns = 2
  MaxSubscriptions = 2
  Values = {0, 1}
  Default = 0
  Stored = 1
  MaxEdits = 2
  Resources = {r1, r2}
  MaxActive = 1
  BufferLines = 1
  TotalLines = 1
  MaxStarts = 3
  MaxLines = 2
  MaxLogMoves = 3
  Nil = Nil
  Absent = Absent
  TestRequests <- MCRequests
  MaxRedirects = 1
  MaxTestWire = 1
  docker = docker
  registry = registry
  a = a
  t1 = t1
  t2 = t2
  r1 = r1
  r2 = r2
SPECIFICATION AllSpec
SYMMETRY MCSymmetry
\* The bounds are reached, and windows rest.
CHECK_DEADLOCK FALSE
INVARIANTS
  WindowsOK
  ViewIsOfPath
  ChangesAreShown
  LoadingHasCause
  ListIsServed
  TasksAreShown
  ChoicesAreSaved
  LogsAreFollowed
  StagesAreSettled
