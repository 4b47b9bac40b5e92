------------------------------- MODULE Windows -------------------------------
(***************************************************************************)
(* The windows of the remote files, of the image lists, of the task        *)
(* centre, of the service logs and of the network tests, and the settings  *)
(* behind all of them.  As they are modelled they share no state and send  *)
(* each other nothing, so TLC may visit their states side by side instead  *)
(* of multiplying them: in each behaviour one is used, and the others stay *)
(* as they begin, or have no state (the image lists and the tests).        *)
(***************************************************************************)
EXTENDS SettingsStore, RemoteBrowser, LogMonitors, TaskCenter

CONSTANTS
  \* ImageWatch.
  ImageSources, Images, Registries, First, MaxClients, MaxRounds, MaxWatchMoves, MaxWatchEvents, MaxWire,
  \* NetworkTests.
  TestRequests, MaxRedirects, MaxTestWire

VARIABLES
  used,  \* the window in use
  \* ImageWatch.
  remote, version, rounds, watchMoves, watchEvents, snapshots, worker, generations, starting, deletion, watchCalls,
  callSource, canceling, canceledClients, watchWire, watchSettings, source, watching, client, clientRef, due, map,
  maxRevision, generation, restarting, images, pendingImages, connectionPending, watchCanceled, loadError,
  isUpdating, hasSnapshot, leftover, overtaken,
  \* NetworkTests.
  request, route, secure, credentials, hop, base, testEnded, todo, held, stages, seen, outcome, result, testWire,
  stageMap, testShown, late, misnamed

Watch == INSTANCE ImageWatch WITH
  Sources <- ImageSources, MaxMoves <- MaxWatchMoves, MaxEvents <- MaxWatchEvents,
  moves <- watchMoves, events <- watchEvents, calls <- watchCalls, canceled <- canceledClients,
  wire <- watchWire, active <- watching, settings <- watchSettings
Tests == INSTANCE NetworkTests WITH
  Requests <- TestRequests, MaxWire <- MaxTestWire, ended <- testEnded, wire <- testWire, shown <- testShown

\* The assumptions of the two on their constants.
WindowsAssumption ==
  /\ Watch!SourcesAssumption /\ Watch!BoundAssumption
  /\ Tests!BoundAssumption /\ Tests!RequestsAssumption

watch ==
  <<remote, version, rounds, watchMoves, watchEvents, snapshots, worker, generations, starting, deletion, watchCalls,
    callSource, canceling, canceledClients, watchWire, watchSettings, source, watching, client, clientRef, due, map,
    maxRevision, generation, restarting, images, pendingImages, connectionPending, watchCanceled, loadError,
    isUpdating, hasSnapshot, leftover, overtaken>>
tests ==
  <<request, route, secure, credentials, hop, base, testEnded, todo, held, stages, seen, outcome, result, testWire,
    stageMap, testShown, late, misnamed>>
allVars == <<used, vars, browserVars, logVars, centerVars, watch, tests>>

\* What is not used has no state.
NoWatch ==
  /\ remote = None /\ version = None /\ rounds = None /\ watchMoves = None /\ watchEvents = None
  /\ snapshots = None /\ worker = None /\ generations = None /\ starting = None /\ deletion = None
  /\ watchCalls = None /\ callSource = None /\ canceling = None /\ canceledClients = None
  /\ watchWire = None /\ watchSettings = None /\ source = None /\ watching = None /\ client = None
  /\ clientRef = None /\ due = None /\ map = None /\ maxRevision = None /\ generation = None
  /\ restarting = None /\ images = None /\ pendingImages = None /\ connectionPending = None
  /\ watchCanceled = None /\ loadError = None /\ isUpdating = None /\ hasSnapshot = None
  /\ leftover = None /\ overtaken = None
NoTests ==
  /\ request = None /\ route = None /\ secure = None /\ credentials = None /\ hop = None /\ base = None /\ testEnded = None
  /\ todo = None /\ held = None /\ stages = None /\ seen = None /\ outcome = None /\ result = None
  /\ testWire = None /\ stageMap = None /\ testShown = None /\ late = None /\ misnamed = None

AllInit ==
  /\ Init /\ BrowserInit /\ LogInit /\ CenterInit
  /\ \/ used \in {"settings", "files", "logs", "tasks"} /\ NoWatch /\ NoTests
     \/ used = "images" /\ Watch!Init /\ NoTests
     \/ used = "tests" /\ Tests!Init /\ NoWatch

AllNext ==
  \/ used = "settings" /\ Next /\ UNCHANGED <<used, browserVars, logVars, centerVars, watch, tests>>
  \/ used = "files" /\ BrowserNext /\ UNCHANGED <<used, vars, logVars, centerVars, watch, tests>>
  \/ used = "logs" /\ LogNext /\ UNCHANGED <<used, vars, browserVars, centerVars, watch, tests>>
  \/ used = "images" /\ Watch!Next /\ UNCHANGED <<used, vars, browserVars, logVars, centerVars, tests>>
  \/ used = "tasks" /\ CenterNext /\ UNCHANGED <<used, vars, browserVars, logVars, watch, tests>>
  \/ used = "tests" /\ Tests!Next /\ UNCHANGED <<used, vars, browserVars, logVars, centerVars, watch>>

AllSpec == AllInit /\ [][AllNext]_allVars

\* The variables of the six have the values the code gives them.
WindowsOK ==
  /\ used = "settings" => TypeOK
  /\ used = "files" => BrowserOK
  /\ used = "images" => Watch!TypeOK
  /\ used = "tasks" => CenterOK
  /\ used = "logs" => LogsOK
  /\ used = "tests" => Tests!TypeOK

\* useImageManagerWatch.ts, imagesync.go: at rest the list is the one the
\* service has, and the window that waits is the one the service works for; no
\* row of another source is ever in the list.
ListIsServed ==
  used = "images" => Watch!ListIsIndex /\ Watch!WindowIsServed /\ Watch!NoForeignRows
\* networktest*.go, NetworkTestTool.tsx: when a test is over its stages are, and
\* the window shows them.
StagesAreSettled == used = "tests" => Tests!StagesAreSettled
==============================================================================
