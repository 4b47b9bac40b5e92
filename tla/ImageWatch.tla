----------------------------- MODULE ImageWatch -----------------------------
(***************************************************************************)
(* The list of images: imagesync.go, the worker that scans a source round  *)
(* after round and sends what has changed, useImageManagerWatch.ts, the    *)
(* hook that applies what arrives, and the deletion of images, which cuts  *)
(* a round off (imageoperations.go, ImageManagerTool.tsx).                 *)
(*                                                                         *)
(* Every subscription of the hook is a client, with a long call that runs  *)
(* a worker.  Calls and their cancellations are handled by goroutines of   *)
(* the framework, and so are events: both may overtake each other.         *)
(*                                                                         *)
(* An image is listed at the level base (its name) or full (inspected).    *)
(* Progress, selection and missing SSH profiles are left out.              *)
(***************************************************************************)
EXTENDS Integers, FiniteSets, FiniteSetsExt, Sequences, SequencesExt

CONSTANTS Sources, Images,
          Registries,  \* the sources that are registries, the others are Docker
          First,       \* the source shown first
          MaxClients,  \* bounds the subscriptions
          MaxRounds,   \* bounds the rounds
          MaxMoves,    \* bounds what the user does
          MaxEvents,   \* bounds what sources, settings and the framework do
          MaxWire,     \* a worker sends if fewer of its events are on their way
          None

SourcesAssumption == Registries \subseteq Sources /\ First \in Sources
BoundAssumption == {MaxClients, MaxRounds, MaxMoves, MaxEvents, MaxWire} \subseteq Nat

VARIABLES
  \* Sources, and the bounded steps.
  remote,      \* the images each source has
  version,     \* of the settings of each source: its fingerprint
  rounds, moves, events,
  \* The service.
  snapshots,   \* watchSnapshots: the last complete list of each source
  worker,      \* watchWorker
  generations, \* watchGeneration
  starting,    \* the call that holds watchStartMu
  deletion,    \* DeleteDockerImages in progress
  \* Between the service and the window.
  calls,       \* the state of each client's call of WatchDockerImages
  callSource, canceling, canceled,
  wire,        \* events
  \* The hook.
  settings,    \* the version of each source's settings the window knows
  source, active,
  client,      \* of the subscription in place
  clientRef,   \* watchClientID: None once the user has canceled
  due,         \* the subscription is to be replaced
  map, maxRevision, generation, restarting,
  images,      \* as they are shown
  pendingImages, connectionPending, watchCanceled, loadError, isUpdating, hasSnapshot,
  \* What the properties remember.
  leftover,    \* images listed by a first round that was cut off
  overtaken    \* clients replaced by the late call of an earlier one

bounded == <<rounds, moves, events>>
service == <<snapshots, worker, generations, starting, deletion>>
callVars == <<calls, callSource, canceling, canceled>>
place == <<settings, source, active, client, clientRef, due>>
list == <<map, maxRevision, generation, restarting>>
flags == <<images, pendingImages, connectionPending, watchCanceled, loadError, isUpdating, hasSnapshot>>
history == <<leftover, overtaken>>
vars == <<remote, version, bounded, service, callVars, wire, place, list, flags, history>>

Clients == 1..MaxClients
Level == {None, "base", "full"}
Nothing == [i \in Images |-> None]
Listed(index) == {i \in Images : index[i] # None}
IsRegistry(s) == s \in Registries

\* The worker of a client, before its first round.
Fresh(c, s, g) ==
  [client |-> c, source |-> s, generation |-> g, revision |-> 0, fingerprint |-> None, live |-> TRUE,
   pc |-> "new", cut |-> FALSE, changed |-> FALSE, previous |-> None,
   todo |-> {}, index |-> Nothing, outcome |-> "none"]
Resting == {"new", "idle", "done"}
\* What belongs to one round.
Forgetting(w) == [w EXCEPT !.cut = FALSE, !.changed = FALSE, !.previous = None, !.todo = {}, !.index = Nothing]

\* The first subscription has just been made.
Init ==
  /\ remote = [s \in Sources |-> Images] /\ version = [s \in Sources |-> 0]
  /\ rounds = 0 /\ moves = 0 /\ events = 0
  /\ snapshots = [s \in Sources |-> None] /\ worker = None /\ generations = 0
  /\ starting = None /\ deletion = None
  /\ calls = [c \in Clients |-> IF c = 1 THEN "sent" ELSE "none"]
  /\ callSource = [c \in Clients |-> First] /\ canceling = {} /\ canceled = {}
  /\ wire = {}
  /\ settings = version /\ source = First /\ active = TRUE /\ client = 1 /\ clientRef = 1 /\ due = FALSE
  /\ map = Nothing /\ maxRevision = -1 /\ generation = -1 /\ restarting = FALSE
  /\ images = Nothing /\ pendingImages = FALSE /\ connectionPending = TRUE
  /\ watchCanceled = FALSE /\ loadError = FALSE /\ isUpdating = FALSE /\ hasSnapshot = FALSE
  /\ leftover = {} /\ overtaken = {}

(***************************************************************************)
(* Events of a worker.  They are numbered and sent under one mutex, and    *)
(* dropped once the round is cut off or the settings have changed.         *)
(***************************************************************************)
SnapshotOf(index, cached) == [kind |-> "snapshot", images |-> index, cached |-> cached]
CreateOf(i, index) == [kind |-> "create", image |-> i, level |-> index[i]]
UpdateOf(i, index) == [kind |-> "update", image |-> i, level |-> index[i]]
DeleteOf(i) == [kind |-> "delete", image |-> i]
StateOf(stage) == [kind |-> "state", stage |-> stage]

Each(ids, Event(_, _), index) == [n \in 1..Cardinality(ids) |-> Event(SetToSeq(ids)[n], index)]

EventAllowed(w) ==
  /\ w.live /\ ~w.cut
  /\ w.fingerprint = None \/ w.fingerprint = version[w.source]

\* The worker becomes w and sends bodies.  A snapshot replaces what was listed.
Send(w, bodies) ==
  IF EventAllowed(w)
  THEN /\ Cardinality(wire) < MaxWire /\ ~(active /\ pendingImages)
       /\ worker' = [w EXCEPT !.revision = @ + Len(bodies)]
       /\ wire' = wire \cup
            {[client |-> w.client, source |-> w.source, generation |-> w.generation,
              revision |-> w.revision + n, body |-> bodies[n]] : n \in DOMAIN bodies}
       /\ leftover' = IF w.client = client /\ \E n \in DOMAIN bodies : bodies[n].kind = "snapshot"
                      THEN {} ELSE leftover
  ELSE worker' = w /\ UNCHANGED <<wire, leftover>>

(***************************************************************************)
(* Calls.  A call waits for the worker in place to end, then runs its own. *)
(***************************************************************************)
Stopped(w) == IF w = None THEN None ELSE [w EXCEPT !.live = FALSE]

\* startWatchRun up to the end of old.stop(): a call canceled by now gives up.
Overtaken(c) == {d \in Clients : worker # None /\ d = worker.client /\ d > c /\ c \notin canceled}
TakeOver(c) ==
  /\ calls' = [calls EXCEPT ![c] = "entered"] /\ starting' = c
  /\ worker' = Stopped(worker)
  /\ overtaken' = overtaken \cup Overtaken(c)
Admitted(c) ==
  IF c \in canceled
  THEN calls' = [calls EXCEPT ![c] = "over"] /\ UNCHANGED <<worker, starting, overtaken>>
  ELSE TakeOver(c)
CallEnters(c) ==
  /\ calls[c] = "sent" /\ starting = None
  /\ Admitted(c)
  /\ UNCHANGED <<remote, version, bounded, snapshots, generations, deletion, callSource, canceling, canceled, wire, place, list, flags, leftover>>

\* The rest of it, and the start of watchLoop.
CallPublishes(c) ==
  /\ calls[c] = "entered" /\ (worker # None => worker.pc = "done")
  /\ starting' = None
  /\ IF c \in canceled
     THEN calls' = [calls EXCEPT ![c] = "over"] /\ UNCHANGED <<worker, generations>>
     ELSE /\ calls' = [calls EXCEPT ![c] = "serving"]
          /\ generations' = generations + 1
          /\ worker' = Fresh(c, callSource[c], generations + 1)
  /\ UNCHANGED <<remote, version, bounded, snapshots, deletion, callSource, canceling, canceled, wire, place, list, flags, history>>

\* The context of a call ends, and that of its worker with it.
CancelArrives(c) ==
  /\ c \in canceling
  /\ canceling' = canceling \ {c} /\ canceled' = canceled \cup {c}
  /\ worker' = IF worker # None /\ worker.client = c THEN Stopped(worker) ELSE worker
  /\ UNCHANGED <<remote, version, bounded, snapshots, generations, starting, deletion, calls, callSource, wire, place, list, flags, history>>

\* watchLoop returns.
LoopEnds ==
  /\ worker # None /\ ~worker.live /\ worker.pc \in {"new", "idle"}
  /\ worker' = Forgetting([worker EXCEPT !.pc = "done", !.outcome = "none"])
  /\ UNCHANGED <<remote, version, bounded, snapshots, generations, starting, deletion, callVars, wire, place, list, flags, history>>

(***************************************************************************)
(* A round: restore the list, connect, list the images, inspect them one   *)
(* by one, and send what has changed.                                      *)
(***************************************************************************)
WorkerStep(pc) == worker # None /\ worker.pc = pc
RoundIsOn == worker # None /\ worker.pc \notin Resting
OutsideRound == <<remote, version, moves, events, generations, starting, deletion, callVars, place, list, flags, overtaken>>
Abandoned == worker.cut \/ ~worker.live

\* The first round, the timer's, or one that was asked for: the timer may have
\* run down whenever one is asked for.
BeginRound ==
  /\ WorkerStep("new") \/ (WorkerStep("idle") /\ rounds < MaxRounds)
  /\ worker.live
  /\ rounds' = IF worker.pc = "idle" THEN rounds + 1 ELSE rounds
  /\ worker' = Forgetting([worker EXCEPT !.pc = "enter", !.outcome = "none"])
  /\ UNCHANGED <<OutsideRound, snapshots, wire, leftover>>

\* The round has its read lock, and the list of an earlier round is sent.
SnapshotFor(s) ==
  IF snapshots[s] # None /\ snapshots[s].fingerprint = version[s] THEN snapshots[s].index ELSE None
EnterRound ==
  LET s == worker.source
      new == worker.fingerprint # version[s]
      renewed == new /\ worker.fingerprint # None
      previous == SnapshotFor(s)
      entered == [worker EXCEPT !.pc = "status", !.changed = new, !.previous = previous,
                                !.fingerprint = version[s],
                                !.generation = IF renewed THEN @ + 1 ELSE @,
                                !.revision = IF renewed THEN 0 ELSE @]
  IN /\ WorkerStep("enter")
     /\ deletion # None => deletion.source # s /\ deletion.phase = "marked"
     /\ ~Abandoned
     /\ snapshots' = IF previous = None THEN [snapshots EXCEPT ![s] = None] ELSE snapshots
     /\ Send(entered, IF previous = None THEN <<>> ELSE <<SnapshotOf(previous, TRUE)>>)
     /\ UNCHANGED <<OutsideRound, rounds>>

\* The round notices that it was cut off: whatever it would send is dropped.
RoundIsCut ==
  /\ RoundIsOn
  /\ Abandoned \/ (WorkerStep("enter") /\ deletion # None /\ deletion.phase = "marked" /\ deletion.source = worker.source)
  /\ worker' = Forgetting([worker EXCEPT !.pc = "idle", !.outcome = "cut"])
  /\ leftover' = IF worker.pc \in {"inspect", "store"} /\ worker.previous = None /\ worker.client = client
                 THEN leftover \cup Listed(worker.index) ELSE leftover
  /\ UNCHANGED <<OutsideRound, rounds, snapshots, wire>>

\* The source answers, or does not.
Connected ==
  LET s == worker.source
      index == IF worker.previous = None THEN Nothing ELSE worker.previous
  IN /\ WorkerStep("status") /\ ~Abandoned
     /\ Send([worker EXCEPT !.pc = "scan"],
             <<StateOf("scanning")>> \o
             (IF worker.changed /\ ~IsRegistry(s) THEN <<SnapshotOf(index, FALSE)>> ELSE <<>>))
     /\ UNCHANGED <<OutsideRound, rounds, snapshots>>

NotConnected ==
  /\ WorkerStep("status") /\ ~Abandoned
  /\ Send([worker EXCEPT !.pc = "idle", !.outcome = "failed"], <<StateOf("scanning"), StateOf("failed")>>)
  /\ UNCHANGED <<OutsideRound, rounds, snapshots>>

\* The names of the images.  Those the window does not know yet are sent.
ScanLists ==
  LET s == worker.source
      index == [i \in Images |-> IF i \in remote[s] THEN "base" ELSE None]
      new == CASE worker.previous = None -> remote[s]
               [] worker.previous # None /\ IsRegistry(s) -> remote[s] \ Listed(worker.previous)
               [] OTHER -> {}
  IN /\ WorkerStep("scan") /\ ~Abandoned
     /\ Send([worker EXCEPT !.pc = "inspect", !.todo = remote[s], !.index = index], Each(new, CreateOf, index))
     /\ UNCHANGED <<OutsideRound, rounds, snapshots>>

\* One image inspected, or not: a failure leaves it as it was listed.
Inspect(i, found) ==
  LET index == IF found THEN [worker.index EXCEPT ![i] = "full"] ELSE worker.index
      known == IsRegistry(worker.source) /\ worker.previous # None /\ worker.previous[i] = "full"
  IN /\ WorkerStep("inspect") /\ ~Abandoned /\ i \in worker.todo
     /\ Send([worker EXCEPT !.todo = @ \ {i}, !.index = index], IF found /\ ~known THEN <<UpdateOf(i, index)>> ELSE <<>>)
     /\ UNCHANGED <<OutsideRound, rounds, snapshots>>

\* The scan fails: the window gets back the list it had.
ScanFails ==
  LET index == IF worker.previous = None THEN Nothing ELSE worker.previous
  IN /\ WorkerStep("scan") \/ (WorkerStep("inspect") /\ IsRegistry(worker.source))
     /\ ~Abandoned
     /\ Send([worker EXCEPT !.pc = "idle", !.outcome = "failed"], <<StateOf("failed"), SnapshotOf(index, worker.previous # None)>>)
     /\ UNCHANGED <<OutsideRound, rounds, snapshots>>

\* diffWatchRound, or the end of scanRegistryFlow: a registry's image that
\* could not be inspected keeps what was known of it.
Settled(w) ==
  [i \in Images |-> IF IsRegistry(w.source) /\ w.index[i] = "base" /\ w.previous # None /\ w.previous[i] # None
                    THEN w.previous[i] ELSE w.index[i]]
Differences(w) ==
  LET index == Settled(w)
      gone == Listed(w.previous) \ Listed(index)
      changed == {i \in Listed(w.previous) \cap Listed(index) : w.previous[i] # index[i]}
  IN IF w.previous = None
     THEN IF IsRegistry(w.source) THEN <<>> ELSE <<SnapshotOf(index, FALSE)>>
     ELSE Each(gone, LAMBDA i, ix : DeleteOf(i), index) \o
          (IF IsRegistry(w.source) THEN <<>>
           ELSE Each(changed, UpdateOf, index) \o Each(Listed(index) \ Listed(w.previous), CreateOf, index))

\* The images that changed are sent in one step.
RoundDiffers ==
  /\ WorkerStep("inspect") /\ ~Abandoned /\ worker.todo = {}
  /\ Send([worker EXCEPT !.pc = "store", !.index = Settled(worker)], Differences(worker))
  /\ UNCHANGED <<OutsideRound, rounds, snapshots>>

\* The list is kept, if it was read with the settings as they are now.
RoundStores ==
  LET s == worker.source
      current == worker.fingerprint = version[s]
  IN /\ WorkerStep("store") /\ ~Abandoned
     /\ IF current
        THEN /\ snapshots' = [snapshots EXCEPT ![s] = [fingerprint |-> version[s], index |-> worker.index]]
             /\ worker' = [worker EXCEPT !.pc = "announce"]
        ELSE worker' = Forgetting([worker EXCEPT !.pc = "idle", !.outcome = "cut"]) /\ UNCHANGED snapshots
     /\ UNCHANGED <<OutsideRound, rounds, wire, leftover>>

RoundEnds ==
  /\ WorkerStep("announce") /\ ~Abandoned
  /\ Send([worker EXCEPT !.pc = "idle", !.outcome = "done"], <<StateOf("done")>>)
  /\ UNCHANGED <<OutsideRound, rounds, snapshots>>

(***************************************************************************)
(* Deletion.                                                               *)
(***************************************************************************)
\* DeleteDockerImages cuts the round off and asks for the write lock.  How the
\* source names the image decides whether the list of the service follows.
DeletionCuts(i, named) ==
  /\ deletion' = [phase |-> "marked", source |-> source, image |-> i, named |-> named, level |-> images[i][1]]
  /\ worker' = IF RoundIsOn /\ worker.source = source THEN [worker EXCEPT !.cut = TRUE] ELSE worker

\* It has the lock: the image goes, unless the registry does not know its digest.
DeletionLocks ==
  LET s == deletion.source
      i == deletion.image
      gone == ~(IsRegistry(s) /\ deletion.level = "base")
      shrinks == gone /\ SnapshotFor(s) # None /\ (IsRegistry(s) \/ ~deletion.named)
  IN /\ deletion # None /\ deletion.phase = "marked"
     /\ worker # None => worker.pc \in Resting \cup {"enter"}
     /\ remote' = IF gone THEN [remote EXCEPT ![s] = @ \ {i}] ELSE remote
     /\ snapshots' = IF shrinks THEN [snapshots EXCEPT ![s].index[i] = None] ELSE snapshots
     /\ deletion' = [deletion EXCEPT !.phase = "answered"]
     /\ UNCHANGED <<version, bounded, worker, generations, starting, callVars, wire, place, list, flags, history>>

(***************************************************************************)
(* The window.                                                             *)
(***************************************************************************)
Move == ~due /\ moves < MaxMoves /\ moves' = moves + 1 /\ UNCHANGED <<rounds, events>>
Event == events < MaxEvents /\ events' = events + 1 /\ UNCHANGED <<rounds, moves>>
OutsideWindow == <<remote, version, service>>
SpareClient == client < MaxClients

Rows(index, s) == [i \in Images |-> IF index[i] = None THEN None ELSE <<index[i], s>>]

\* The effect of the subscription: the old call is canceled, a new one is made.
Resubscribe ==
  /\ due /\ due' = FALSE
  /\ client' = client + 1 /\ clientRef' = client + 1
  /\ calls' = [calls EXCEPT ![client + 1] = "sent"] /\ callSource' = [callSource EXCEPT ![client + 1] = source]
  /\ canceling' = canceling \cup ({client} \ canceled) /\ UNCHANGED canceled
  /\ map' = Nothing /\ maxRevision' = -1 /\ generation' = -1 /\ restarting' = FALSE
  /\ images' = Nothing /\ connectionPending' = TRUE /\ watchCanceled' = FALSE /\ loadError' = FALSE
  /\ isUpdating' = FALSE /\ hasSnapshot' = FALSE
  /\ leftover' = {}
  /\ UNCHANGED <<OutsideWindow, bounded, wire, settings, source, active, pendingImages, overtaken>>

\* restartWatch.
Restart ==
  /\ SpareClient
  /\ due' = TRUE /\ watchCanceled' = FALSE /\ connectionPending' = TRUE /\ loadError' = FALSE

\* What an event that counts says of the state.
Told(body, had) ==
  /\ hasSnapshot' = (had \/ (body.kind = "snapshot" /\ body.cached) \/ (body.kind = "state" /\ body.stage = "done"))
  /\ IF body.kind = "state"
     THEN connectionPending' = FALSE /\ isUpdating' = (body.stage = "scanning") /\ loadError' = (body.stage = "failed")
     ELSE UNCHANGED <<connectionPending, isUpdating, loadError>>

Applied(body, base, s) ==
  CASE body.kind = "snapshot" -> Rows(body.images, s)
    [] body.kind \in {"create", "update"} -> [base EXCEPT ![body.image] = <<body.level, s>>]
    [] body.kind = "delete" -> [base EXCEPT ![body.image] = None]
    [] OTHER -> base

\* An event that overtakes another one, a bounded step, makes the hook subscribe anew.
InOrder(e) ==
  \A f \in wire : f.client = e.client =>
    f.generation > e.generation \/ (f.generation = e.generation /\ f.revision >= e.revision)

CountsByGeneration(e) == e.generation >= generation
Counts(e) == e.client = client /\ e.generation >= generation
GapIgnored(last, revision) == FALSE
Gap(last, revision) == last >= 0 /\ revision # last + 1

EventArrives(e) ==
  LET renews == e.generation > generation
      base == IF renews THEN Nothing ELSE map
      last == IF renews THEN -1 ELSE maxRevision
      gap == Gap(last, e.revision)
  IN /\ e \in wire /\ wire' = wire \ {e}
     /\ IF InOrder(e) THEN UNCHANGED bounded ELSE e.client = client /\ SpareClient /\ Event
     /\ CASE ~Counts(e) ->
               UNCHANGED <<list, flags, due>>
          [] Counts(e) /\ gap ->
               /\ IF restarting THEN UNCHANGED <<due, watchCanceled, connectionPending, loadError>> ELSE Restart
               /\ restarting' = TRUE
               /\ UNCHANGED <<map, maxRevision, generation, images, pendingImages, isUpdating, hasSnapshot>>
          [] Counts(e) /\ ~gap ->
               /\ generation' = e.generation /\ maxRevision' = e.revision
               /\ map' = Applied(e.body, base, e.source)
               /\ pendingImages' = (pendingImages \/ renews \/ e.body.kind # "state")
               /\ Told(e.body, hasSnapshot /\ ~renews)
               /\ UNCHANGED <<restarting, due, images, watchCanceled>>
     /\ UNCHANGED <<OutsideWindow, callVars, settings, source, active, client, clientRef, history>>

\* Once per frame, and only while the tool is shown.
Flush ==
  /\ active /\ pendingImages
  /\ images' = map /\ pendingImages' = FALSE
  /\ UNCHANGED <<OutsideWindow, bounded, callVars, wire, place, list, connectionPending, watchCanceled, loadError, isUpdating, hasSnapshot, history>>

\* Showing the tool again catches up at once.
SwitchTool ==
  /\ Move /\ active' = ~active
  /\ IF ~active /\ pendingImages THEN images' = map /\ pendingImages' = FALSE ELSE UNCHANGED <<images, pendingImages>>
  /\ UNCHANGED <<OutsideWindow, callVars, wire, settings, source, client, clientRef, due, list, connectionPending, watchCanceled, loadError, isUpdating, hasSnapshot, history>>

SelectSource(s) ==
  /\ Move /\ active /\ SpareClient /\ s # source
  /\ source' = s /\ due' = TRUE
  /\ UNCHANGED <<OutsideWindow, callVars, wire, settings, active, client, clientRef, list, flags, history>>

\* requestWatchReload, as it was when the source s was shown.  A worker that is
\* there scans again, which it may do at any time.
Reload(s) ==
  IF clientRef # None /\ source = s
  THEN /\ watchCanceled' = FALSE
       /\ loadError' = (loadError \/ worker = None \/ worker.client # clientRef)
       /\ UNCHANGED <<due, connectionPending>>
  ELSE Restart

\* The button, and the one that tries again after canceling: there is no client then.
Refresh ==
  /\ Move /\ active /\ ~connectionPending /\ deletion = None
  /\ Reload(source)
  /\ UNCHANGED <<OutsideWindow, callVars, wire, settings, source, active, client, clientRef, list, images, pendingImages, isUpdating, hasSnapshot, history>>

CancelWatch ==
  /\ Move /\ active /\ clientRef # None
  /\ connectionPending \/ (isUpdating /\ ~hasSnapshot /\ Listed(images) = {})
  /\ clientRef' = None /\ canceling' = canceling \cup {client}
  /\ connectionPending' = FALSE /\ watchCanceled' = TRUE /\ loadError' = FALSE
  /\ UNCHANGED <<OutsideWindow, calls, callSource, canceled, wire, settings, source, active, client, due, list, images, pendingImages, isUpdating, hasSnapshot, history>>

Delete(i, named) ==
  /\ Move /\ active /\ ~connectionPending /\ ~loadError /\ ~watchCanceled
  /\ deletion = None /\ images[i] # None
  /\ DeletionCuts(i, named)
  /\ UNCHANGED <<remote, version, snapshots, generations, starting, callVars, wire, place, list, flags, history>>

\* The end of runDelete.
DeletionAnswered ==
  /\ deletion # None /\ deletion.phase = "answered" /\ ~due
  /\ deletion' = None /\ Reload(deletion.source)
  /\ UNCHANGED <<remote, version, bounded, snapshots, worker, generations, starting, callVars, wire, settings, source, active, client, clientRef, list, images, pendingImages, isUpdating, hasSnapshot, history>>

\* Settings are saved, and then known to the window.
SettingsChange(s) ==
  /\ Event /\ SpareClient /\ settings = version
  /\ version' = [version EXCEPT ![s] = @ + 1]
  /\ UNCHANGED <<remote, service, callVars, wire, place, list, flags, history>>

SettingsArrive ==
  /\ settings # version /\ settings' = version
  /\ settings[source] # version[source] => SpareClient
  /\ due' = (due \/ settings[source] # version[source])
  /\ UNCHANGED <<OutsideWindow, bounded, callVars, wire, source, active, client, clientRef, list, flags, history>>

\* Something else adds or removes an image: seen only by a scan, so just before one.
RemoteChanges(s, i) ==
  /\ Event /\ WorkerStep("scan") /\ worker.source = s
  /\ remote' = [remote EXCEPT ![s] = IF i \in @ THEN @ \ {i} ELSE @ \cup {i}]
  /\ UNCHANGED <<version, service, callVars, wire, place, list, flags, history>>

Next ==
  \/ \E c \in Clients : CallEnters(c) \/ CallPublishes(c) \/ CancelArrives(c)
  \/ LoopEnds \/ BeginRound \/ EnterRound \/ RoundIsCut \/ Connected \/ NotConnected
  \/ ScanLists \/ ScanFails \/ RoundDiffers \/ RoundStores \/ RoundEnds \/ DeletionLocks \/ DeletionAnswered
  \/ \E i \in Images : \E yes \in BOOLEAN : Inspect(i, yes) \/ Delete(i, yes)
  \/ Resubscribe \/ Flush \/ SwitchTool \/ Refresh \/ CancelWatch
  \/ \E e \in wire : EventArrives(e)
  \/ \E s \in Sources : SelectSource(s) \/ SettingsChange(s)
  \/ SettingsArrive
  \/ \E s \in Sources, i \in Images : RemoteChanges(s, i)

Spec == Init /\ [][Next]_vars

(***************************************************************************)
(* Properties.                                                             *)
(***************************************************************************)
\* The variables have the values the code gives them.
TypeOK ==
  /\ remote \in [Sources -> SUBSET Images] /\ version \in [Sources -> 0..MaxEvents] /\ settings \in [Sources -> 0..MaxEvents]
  /\ \A s \in Sources : snapshots[s] # None => snapshots[s].index \in [Images -> Level]
  /\ worker # None =>
       /\ worker.client \in Clients /\ worker.source = callSource[worker.client]
       /\ worker.pc \in Resting \cup {"enter", "status", "scan", "inspect", "store", "announce"}
       /\ worker.index \in [Images -> Level] /\ worker.todo \subseteq remote[worker.source] \cup Images
  /\ calls \in [Clients -> {"none", "sent", "entered", "serving", "over"}]
  /\ starting \in Clients \cup {None}
  /\ client \in Clients /\ clientRef \in {client, None}
  /\ map \in [Images -> {None} \cup ({"base", "full"} \X Sources)]
  /\ images \in [Images -> {None} \cup ({"base", "full"} \X Sources)]
  /\ generation <= generations + MaxEvents

\* Once a round is over and its events have arrived, the window shows the list
\* the round has found, or after a failure the list there was before; except
\* for what a first round had listed before it was cut off: those images stay,
\* even when they were deleted, until a whole list is sent
\* (useImageManagerWatch.ts, imagesync.go).
AtRest ==
  /\ worker # None /\ worker.client = client /\ worker.pc = "idle" /\ ~due /\ ~pendingImages
  /\ \A e \in wire : e.client # client
  /\ settings = version
Expected ==
  CASE worker.outcome = "done" -> worker.index
    [] worker.outcome = "failed" /\ worker.previous # None -> worker.previous
    [] OTHER -> Nothing
ListIsIndex ==
  AtRest /\ worker.outcome \in {"done", "failed"} =>
    \A i \in Images \ leftover : images[i] = Rows(Expected, worker.source)[i]

\* The window never shows an image of another source than the one selected
\* (useImageManagerWatch.ts: the client of an event, the emptied list).
NoForeignRows ==
  ~due => \A i \in Images : images[i] # None => images[i][2] = source

\* While the window waits for its source, or says that it is updating, there is
\* a call on its way or a worker that answers, unless the call of an earlier
\* client came late and put an end to it (startWatchRun, the cleanup of the hook).
WindowIsServed ==
  clientRef # None /\ ~due /\ (connectionPending \/ isUpdating) =>
    \/ calls[client] \in {"sent", "entered"}
    \/ worker # None /\ worker.client = client /\ worker.live
    \/ client \in overtaken
=============================================================================
