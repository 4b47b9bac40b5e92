# TinkerKit: a formal model of the concurrent core

TinkerKit is a desktop application: a Go backend (the `*.go` files of the
repository's root) whose services are called by React windows
(`frontend/src`) through Wails bindings, and which answers with return values
and events. Every call runs in a goroutine of its own, so any two calls of
any two services may overlap; background work runs in further goroutines.

This directory holds TLA+ modules that model the parts of that backend, and of
the windows in front of it, whose correctness depends on the order of steps,
the TLC runs that check them on small instances, and TLAPS proofs about some
of the components for every size. Line numbers below refer to the files of the repository.

## 1. Inventory

| Component | State | Operations | Talks to | What is hard |
|---|---|---|---|---|
| Task scheduler (`taskscheduler.go`) | `active`, `limit`, the channel `changed` | `Acquire(ctx)`, `Release`, `SetLimit` | called by every background task; `SetLimit` by the observer of the configuration (`main.go` 100) | wake-ups, cancellation while asleep, a limit that changes under load |
| File tasks (`sshfiletasks.go`) | table of tasks under `taskMu`; one goroutine per running task | start, retry, cancel, resolve, clear; updates by the runners | scheduler, remote operations, windows (snapshots) | a context looked at before, not inside, the section that publishes; conflicts answered by a second runner; 30-minute deadline |
| Remote copy and move (`sshfileoperations.go`) | none of its own: the remote tree | batch copy, move, with ask / overwrite / keep-both; rename, delete, mkdir, archives | SFTP client, remote commands | remove before replace; existence read early and used late; batches that stop halfway |
| Uploads, downloads (`sshfileupload.go`, `sshfiledownload.go`) | temporary files, segments, workers | transfer in segments, commit, clean-up | SFTP clients, scheduler | commit on the last segment, publication after cancellation, partial publication |
| SSH dialling (`sshauth.go`, `sshchain.go`, `sshknownhosts.go`) | handshake gate (4 places), `known_hosts` under `store.mu`, open questions | dial with up to three attempts per hop, ask, accept, refuse; edit and delete records | file manager, windows (question, answer), settings page | a mutex held while a person is asked; ownership of the jump hosts' clients; stale snapshots of `known_hosts` |
| SFTP sessions (`sshfilesession.go`) | one session per source, reference counts, `retired` | acquire, release, invalidate, shutdown | dialling, file manager calls | two calls dial at once; settings change between; last user closes |
| File manager calls (`sshfileservice.go`, `sshfiletext.go`) | sources in the configuration | listing, reading, editing, creating | sessions | retry after a broken session, or none |
| Port forwards (`portservice.go`) | definitions in the configuration; map of tunnels; a goroutine per tunnel | add, update, delete, start, stop, reorder; sync, shutdown | configuration (writes it, observes it), SSH chain | dialling without a lock; reconnection against stop; late observers |
| Configuration (`configservice.go`, `sshprofileservice.go`) | `cfg` under `mu`, a file, a chain of observers | save, targeted updates, import, reset | everybody | observers called after unlocking; snapshots of windows that overwrite newer values |
| Settings in the window (`App.tsx`, `SettingsPage.tsx`, part of `TaskCenter.tsx`) | all settings, a loop that saves them, requests of the image manager, those who wait before quitting | change, change with a view transition, save, replace, quit | configuration | the window saves everything it has, next to targeted calls; settings computed early and put in place late |
| Image tasks (`imageexport.go`, `imageimport.go`, `imageregistrytransfer.go`, `imageoperations.go`) | a second table of tasks under `taskMu`; temporary files; what each import has published; `exportQueueMu`, `importMutationSem` | export, import, pull, push, copy and rename tags, delete, retry, cancel, clear, prune, shutdown | scheduler, Docker, registries, SSH, the file system | names chosen early and used late; a registry that deletes a tag only with its manifest; retry after a lost answer; retry under the same identity |
| JSON pipeline sessions (`jsonpipelineservice.go`, `useBackendPipelineEvaluation.ts`) | up to 24 sessions, numbered documents and pipelines; in the window what was sent and what is shown | open, update, close, read results | windows (events), engine | late results, cancellation, eviction of a session in use, answers of an earlier session |
| JSON pipeline engine (`jsonpipelineengine.go`, `jsonpipelinestage.go`, `jsonvalue.go`) | the run of a session: its document, its steps, a stage for each step | run the steps, taking over stages of the run before | sessions | stages taken over that are no longer right; names that occur twice; errors of steps |
| Image lists (`imagesync.go`, `useImageManagerWatch.ts`, `imageoperations.go`) | one worker that scans a source in rounds; in the window a list, its revision and generation | watch, refresh, switch source, delete images | Docker, registries; windows (numbered events) | calls and events that overtake each other; a first round that is cut off |
| Remote file browser (`useRemoteFileBrowser.ts`, `SshFilesTool.tsx`) | the entries shown, a cache of listings, three kinds of requests with a number each | load sources, a directory, a search; cancel; navigate; follow the tasks | file manager calls, file tasks | late answers, spinners, listings kept although a task has changed the directory |
| Service manager (`servicemanagerservice.go`, `servicemetrics.go`) | log monitors, buffers, metric samples | start, stop, remove, clear; sampling loop | remote commands, windows | restarted followers, buffers at their limit |
| Service manager window (`ServiceManagerTool.tsx`) | a copy of the monitors, which are picked, which were looked at, lines shown | select, pick, unpick, clear, evict | service manager (calls, events) | answers and reloads that overtake each other, choices made on an old list |
| Network tests (`networktest*.go`, `NetworkTestTool.tsx`) | the stages of each run under `mu`, a cancel function per run; in the window a map of stages | run, cancel, shut down | the network, windows (an event for each change of a stage, the result) | callbacks of `net/http` that run late; which stage to blame for an error; redirects |
| Updates (`updateservice.go`), small services, shell (`main.go`) | a timer, one value each | — | framework | little |
| Task centre (`TaskCenter.tsx`) | last revision, statuses, buffer | subscribe, take snapshots | events of both task tables | first snapshot against early events |

What makes each correct is stated as properties of the modules below where a
module exists; for the others section 8 names them. The hazards
behind the properties are listed with their lines in `PROJECT.json`.

## 2. Modules

| Module | Models | Kind |
|---|---|---|
| `SlotPool` | what a limiter promises: at most *limit* are admitted, whoever leaves frees one place | abstract |
| `TaskScheduler` | `taskscheduler.go` with mutex, counter and broadcast channel | component |
| `TaskSchedulerProofs` | theorems about it | proofs |
| `TaskLifecycle` | the life of a task as the windows see it | abstract |
| `FileTasks` | `sshfiletasks.go`, composed with `TaskScheduler` by `INSTANCE` | component, composition |
| `FileTasksProofs` | theorems about it, using those about the scheduler | proofs |
| `SshDial` | gate, attempts, chain and host-key question | component |
| `SshDialProofs` | theorems about it | proofs |
| `SshSessions` | the pool of SFTP sessions and its callers | component |
| `RemoteTransfer` | batch copy and move on a small file tree | component |
| `FileTransfer` | uploads and downloads: pieces, temporary files, commit, publication | component |
| `FileTransferProofs` | theorems about it | proofs |
| `PortForwards` | forwards, tunnels, and the observer of the configuration | component |
| `PortForwardsProofs` | theorems about it | proofs |
| `PipelineSessions` | sessions of the JSON pipeline, and the hook of the window | component, composition |
| `PipelineSessionsProofs` | theorems about it | proofs |
| `PipelineSteps` | what the steps of a pipeline do to a value | operators |
| `PipelineEngine` | runs of a pipeline that take over stages of earlier runs | component |
| `RemoteBrowser` | the file browser, its requests and its cache | component |
| `ImageWatch` | the worker that scans a source, the window's list, deletion | component, composition |
| `TaskCenter` | a table of tasks with revisions, and the window that follows it | component, composition |
| `SettingsStore` | the configuration, and the window that saves it | component, composition |
| `LogMonitors` | the followers of service logs, and the window that keeps them | component, composition |
| `NetworkTests` | the stages of a network test, and the window that shows them | component, composition |
| `ImageExports` | tasks that write images to files, and their retries | component |
| `RegistryTags` | imports, copies, renames and deletions of tags in a registry | component |
| `Transfers` | `SshSessions`, `RemoteTransfer`, `FileTransfer`, `ImageExports` and `RegistryTags` side by side | composition |
| `TransfersProofs` | theorems about it and about `SshSessions`, using those about `FileTransfer` | proofs |
| `Windows` | `SettingsStore`, `RemoteBrowser`, `ImageWatch`, `TaskCenter`, `LogMonitors` and `NetworkTests` side by side | composition |
| `WindowsProofs` | theorems about `SettingsStore`, `RemoteBrowser`, `LogMonitors` and `TaskCenter` | proofs |
| `MC...` | small instances of the above for TLC | model checking |

Next to some actions stands a second form under a telling name
(`SetLimitSilently`, `DropAttemptOwning`, `MatchesById`...). No specification
uses these: they are what a plausible slip in the code would amount to, and
`PROJECT.json` lists for each property one that violates it.

### TaskScheduler

Each caller is a goroutine: `idle`, `trying` (about to lock), `waiting` (in
the `select`), `held`, `refused`. The critical section of `Acquire` is one
action (`TakeSlot` or `Sleep`), and so is each case of the `select`. A closed
channel is the set `signalled` of the sleepers who read it; `Broadcast` closes
it and makes the next one. Contexts end at any time. `TakeSlot` takes a free
slot even with a context that is done, as the code does.

### FileTasks

`status`, `policy`, `ctx`, `attached` are the entry of a task; `step` is where
a runner is in `runRemoteFileOperationTask`, `runFileUpload`,
`runFileDownload` or `runSizeTask`, which differ in four respects only
(`NeedsSlot`, `MayConflict`, `HasDeadline`, `ChecksContext`). Each critical
section under `taskMu` is one action. The scheduler's variables are those of
an instance of `TaskScheduler` whose callers are the runners. What an
operation does is reduced to what it returns: `Return` chooses success,
failure, conflict, or the context's error when the context is done.

### SshDial

One process per call of `dialSFTPWithOptions`. A key is its type; `known` is
for each host and type *none*, *good* (the key the host has) or *stale*. The
three attempts of `dialSSHClientVia` are `attempt` 1 to 3; `mutex` is
`store.mu` while a question is open (shorter critical sections are single
actions). `clients` and `owned` are what exists of the chain. `snapshot` is what
the host-key callbacks read of `known_hosts`: `first` is that of the callback of
all hops; `again` differs from it only during the last attempt at a hop, for
which `retrySSHClientAfterHostKeyPrompt` makes a callback of its own. Connection
failures are possible at each attempt. The system `ssh` client (mode *local*)
has no question and no chain and is left out, as is the non-interactive
`KeyError` branch of `dialSSHClientVia`, which this callback never returns.

### SshSessions

The critical sections of `acquirePersistentSFTP`, `releasePersistentSFTP`,
`invalidatePersistentSFTP` and `shutdown` are single actions; dialling and
closing happen between them. A call reads its source's settings once. A
source's settings may change at any time. The second dialling of a call that
failed with a broken session is `Again`.

### RemoteTransfer

The host is a function from paths to nodes. `prepareRemoteTransfers` is two
actions (validation, then existence), and each item is a removal, if needed,
and a command. What `cp -a`, `mv` and `RemoveAll` do is modelled from how the
code calls them, with every partial effect of a failure that leaves a tree. A
guest may create entries at any time.

### FileTransfer

A plan is one or two tasks, with their files, the number of full segments of
each, and the connections they got. `pc` is where `runFileUpload` or
`runFileDownload` is; `worker` and `alive` are its workers and their
connections; no two files of a task have the same place, since they are the
files below one path. A temporary file is the set of the pieces written to it,
and of each file the number of pieces that have not been handed to a worker is
kept (they are handed out in their order). What is
at a place is nothing, the old file, a whole new one (of which task), or a
mixture, which is what a rename of an incomplete temporary file makes. The
steps of `commitRemoteUpload` (the atomic rename, the look, the removal, the
plain rename) are actions; each may be refused, and each may be carried out
without its answer arriving. A worker looks at the context where the code
does. Contexts end, connections break and the application quits at any time.
The two kinds differ in their order at the end: an upload cleans up and then
announces its end, a download the other way round.

### ImageExports

`StartBatch` holds `exportQueueMu` while it chooses the names and makes the
tasks, so it is one action; `StartSingle` takes the name the dialog gave it.
A run opens its temporary file, streams into it, commits (`Rename` for a
single export, `Link` and `Remove` for one of a batch) and cleans up; anything
may fail, and other programs put files at free names. Tasks are retried under
their own identity, canceled, cleared. `Shutdown` cancels all of them and
waits (`imageprewarm.go` 127-148); `Killed` is the process stopped by force.
The path a task has is kept when it is retried, and no longer reserved while
it is not active.

### RegistryTags

The registry is `tags`, the manifest of each tag, and `manifests`. Putting a
tag and deleting a manifest are what the code asks of it; either may be
carried out although the answer is an error. Imports and copies from other
registries check their targets when they are asked for and again under
`importMutationSem` (`mutation`), then write entry by entry; `published` is
`importPublished`, which a retry takes over. A rename, or the deletion of a
tag, reads the manifest, lists the other tags (`survivors`), deletes the
manifest, and puts tags back. The variables of `history` guard nothing: they
record who wrote a tag last, and which tags others have changed since a
request looked, since without that no property could tell a tag that was lost
from one that somebody else removed afterwards.

### PortForwards

Calls come in three lanes, as `PortTool.tsx` issues them (one modal dialog,
one start or stop at a time, and the settings); nothing in the backend keeps
two lanes off the same forward. A call proceeds through `check`/`stop`,
`open` (dial and listen), `persist`, `notify` (the observer's comparison with
the configuration it saw last), `sync` or `shutdown` (choose the stale
tunnels), `clean` (stop them by identity, one by one) and `publish`. A tunnel
is `open`, in `retry`, or `failed`. Reordering the list is left out: it makes
the observer compare, and stop nothing a later change would not stop.

### PipelineSessions

The service is a sequence of known sessions, least recently seen first, with
the numbers of document and pipeline, and the goroutines in `compute`. The
hook has one update in flight, a timer, and what it sent last. Calls, answers
and events are separate, so an event may arrive before the answer to the
update that caused it. Rules have a normal form (`normalizePipelineItems`);
two lists of rules may differ and have the same.

### PipelineSteps and PipelineEngine

`PipelineSessions` takes the result of a document and rules as given. These
two say what it is. A JSON value is its kind and what it holds; an object is
the sequence of its members, as in `jsonvalue.go`, and may have a name twice.
Paths are sequences of tokens, texts are short sequences of letters, and what
is typed as the value of a filter is what it reads as. `executePipelineItem`
gives a value or the code of an error, in the order in which the code looks
for errors. `PipelineEngine` is one session: `Update` starts a computation
from the run there is at that moment, and `ComputeEnds` stores its run if the
document and the steps are still the same, so computations of three updates
may be under way and end in any order.

### RemoteBrowser

Calls are a set of records; `live` says that the number of a call is the last
of its kind. A directory has a version, which tasks raise; a listing is a
version, and the cache maps source and path to one. The effect that loads a
directory is an action of its own, `effect` says that it is due. Tasks end
while any window and any directory is shown.

### ImageWatch

The worker goes through `startWatchRun`, a first snapshot, rounds of listing
and inspecting, and the end of the round, each step able to be cancelled by a
newer call or by a deletion. A round ends in three steps, as `runWatchRound`
looks at its context between them: the differences are sent (`RoundDiffers`, all
in one step), the list is stored if the settings have not changed
(`RoundStores`), and the end is announced (`RoundEnds`). Its events are numbered and lie on a wire from which they
are taken in any order. The hook keeps `maxRevision` and `generation`, and
restarts after a gap. A worker sends while fewer than `MaxWire` of its events
are on their way and the window has no batch to show: a frame passes between
two of its sends, which bounds how far it runs ahead.

### TaskCenter

`table` and `revision` are the service; each change puts a snapshot on the
wire, from which snapshots arrive in any order. The window subscribes, asks
for the first snapshot, buffers events until it has come, and drops what is
older than what it has. What was buffered is taken in by revision (`Taken`, a
fold that always takes the newest last). Clearing is a call whose answer carries
a table as well.

### SettingsStore

One field of each kind stands for its like: `theme` is put in place by a view
transition, `mode` at once, `tasks` also by a call of the task centre, `images`
after the service has accepted them, `sources` belongs to a service. The loop
`persistLatest` is `pump`; what it does between two calls is `Continue`. A
call is sent, lands in the critical section of the service, and is answered.
Settings are objects to the window, which compares identities: `saved` and
`target` say whether the object that is saved, or must be before the program
quits, is still the one shown. A state update is rendered, and its effects
run, before the next event.

### LogMonitors

A monitor of the map has the number of the command that runs for it (the
`ctx` the code compares), its lines, and whether lines wait for the next
flush. `StartLogMonitors` takes the mutex once for each resource of a call, so
a call is a record with the resources still to do (`todo`); the state of a
monitor that was there is read after the unlock (`Reuse`, `ReadState`). If the
map holds another monitor by then, or none, the code answers the last state of
the one it had, which the model does not keep: it answers any (`LastStates`). A
command prints lines, ends by itself or is cancelled, and settles its monitor
if it is still its own. In the window, `flows` are the runs of
`ensureSelectionMonitors` and of the effect on the picks, which keep what was
listed and picked when they began; `query` is the question for lines, with the
`dirty` of the code; `buffersClearing` and `unpicking` are the two functions that
wait in the middle. The variables of `logHistory` guard nothing.

### NetworkTests

One run, for any combination of protocol and route. A goroutine has a list of
things to do (`todo`), which the operators from `Resolve` to `Plan` put
together as the functions of the same names call each other: begin a stage,
end it, try something without a stage. What it fails at makes it give up the
list and fail the stages it has begun (`Break`, `Unwound`), as the code does
with an error it hands up. A change of a stage is written under the lock of the
run and sent after it (`Write`, `Emit`), so two goroutines may send in the
other order. Whether the target of RTSP has credentials is a variable, as a
redirect may drop them (to another host) or name some. For HTTP and WebSocket the goroutines of `net/http` are the
`Helpers`: one that dials, one that writes, one that reads; `Do` waits for
none of them once the context has ended. `Target` is what the callbacks read
from `requestTrace`, which the next request changes under them. `seen` holds
the two flags of a request. The window keeps a map that the events change
(`stageMap`) and what it shows, which the result replaces.

## 3. Runs

| Run | Question | Properties | Bounds |
|---|---|---|---|
| `task_scheduler` | does the limiter limit, wake and let go? | `NoLostWakeup`, `ImplementsSlotPool`, `SlotNotWithheld`, `CanceledCallerLeaves` | 3 callers; requested limits 0, 2, 99 (clamped to 1, 2, 16) |
| `file_tasks` | do table, runners and slots agree? | `BusyIffOneRunner`, `ConflictIsAnswerable`, `NoSlotLeak`, `ImplementsLifecycle` | 2 tasks of all 5 kinds, limits 1 and 2, 3 runners per task (2 are ever used) |
| `file_tasks_live` | does a task whose context is done settle? | `DoneContextSettles` | 2 tasks, kinds copy and upload, limit 1, no symmetry |
| `ssh_dial` | questions, attempts, ownership, cancellation, with a user who answers | `AskedOnlyWhenNeeded`, `JumpSurvivesRetries`, `CloseReleasesAll`, `CancelInterrupts` | 2 dialers of one target, one through a jump host; 2 key types; gate of 2; 4 initial `known_hosts`; records may be deleted |
| `ssh_dial_unattended` | the same when nobody answers | `CancelInterrupts` is violated | as above |
| `ssh_dial_chain` | two jump hosts | `CloseReleasesAll` is violated | 1 dialer, 3 hosts, 1 key type |
| `transfers` | when is a shared session closed; what can be lost or half there, and what does success mean? | `NotClosedUnderUse`, `RightConnection`, `NoSessionLeak`; `TransfersOK`, `LossIsAnnounced`, `DeliveredWhenDone` | sessions: 3 calls, 1 source, 2 connections, 3 sessions; on the host: 3 trees, 5 targets, up to 2 items, a guest with 2 paths; files: 2 files with up to 2 segments and 2 workers, or 2 tasks with the same target; exports: 4 pairs of tasks, 2 names (`MaxPath`), 2 runs each; tags: 3 tags, 2 manifests, 8 plans of 2 or 3 requests |
| `registry_rename` | two renames of tags of one manifest | `OnlySourceIsRemoved` is violated | 4 tags, 1 manifest |
| `pipeline_sessions` | is what is shown the result of what is written, and is the last change answered? | `ShownIsCurrent`, `LastChangeIsAnswered`; `ResultsAreOfTheRules` | hook: 2 documents, 3 lists of rules with 2 normal forms, room for 2 sessions, 5 opened (`MaxSessions`), 3 edits, switches, failures and other windows together (`MaxMoves`); engine: 5 documents, 16 steps, alone and after those that extract, sort or filter, 9 lists of up to 3 steps that are changed twice (`MaxEdits`) |
| `windows` | do the windows show what the services have, and do the services have what was chosen? | `ViewIsOfPath`, `ChangesAreShown`, `LoadingHasCause`; `ListIsServed`; `TasksAreShown`; `ChoicesAreSaved`; `LogsAreFollowed`; `StagesAreSettled` | browser: 2 sources, 2 directories, 2 moves, 2 events; image lists: a registry and a Docker source, 1 image, 2 clients, 1 round, 2 events on the wire; task centre: 2 tasks, 4 changes, 2 runs, 2 subscriptions; settings: 2 values, 2 changes; logs: 2 resources, 1 followed at a time, 1 line kept, 3 starts, 2 lines, 3 moves; network tests: requests by every protocol and route, with one redirect or a large body, 1 event on the wire |
| `browser_root` | can the root be reached? | `AskedIsReached` is violated | as the browser |
| `port_forwards` | do tunnels, list and definitions agree at rest? | `MapIsLive`, `OrphansOnlyByRace`, `DeletedForwardCloses` | 2 forwards, 2 addresses, 2 tunnels, 1 reconnection attempt, 3 calls |

Every run but the four that show a violation, and the liveness run, also
checks its module's `TypeOK` (`WindowsOK` for the windows).

`Windows`, of which `MCWindows` is an instance, puts six modules side by side,
`Transfers`, of which `MCTransfers` is an instance, five (`SshSessions`, `RemoteTransfer`, `FileTransfer`,
`ImageExports`, `RegistryTags`), and `MCPipelineSessions` two (`PipelineSessions` and
`PipelineEngine`): in each behaviour one of them moves and the others stay as
they are, or have no state at all. They share no state, so a product of their states would show nothing
a sum does not. Each property is that of the module that moves; `TransfersOK`
and `WindowsOK` are their `TypeOK`, and the three about sessions are those of `SshSessions`.
`ListIsServed` is `ListIsIndex`, `WindowIsServed` and `NoForeignRows` of
`ImageWatch`; `TasksAreShown` is `ShownIsTheTable` and `EndsAreAnnouncedOnce`
of `TaskCenter`; `ResultsAreOfTheRules` is the property of that name and
`StepsKeepTheirPromise` of `PipelineEngine`;
`LogsAreFollowed` is `FollowersAreKnown`, `ListIsCurrent`, `NoLineIsMissing`
and `LinesAreOfSelection` of `LogMonitors`.

Why the bounds are enough. Three callers are a holder, a sleeper and one who
overtakes. Two tasks suffice for one to hold the slot while the other queues,
waits for an answer or is retried; sources share no state but the scheduler.
Two dialers are one who asks and one who waits; two key types reach each of
the three attempts. Three calls are two that dial at once while a third uses
the session they replace. Two items are one that disturbs the other, on trees
with a name that is taken, a file where a directory is needed, and a link.
Two pieces of one file are one that is still being written when the last one
has been handed out; two tasks for one target are one that finds, removes or
replaces what the other has put there. The documents of the engine have
entries without the key, with null, and with text where others have numbers;
two changes are one to a list that is being computed and one back.
Two exports for one name are a batch that chose it and whatever comes there
before it commits; two runs are a retry that finds its name taken. Three
requests on three tags are an import, its retry and a change that crosses
either, or two changes of one manifest that must leave a third tag alone.
Two tunnels and three calls are a tunnel, the call that replaces it, and two
calls that get in between. A window needs an answer that comes late and the
request that made it late: two sources, two sessions, two clients or two
subscriptions, and as many moves as take the user away and back. Two events
on the wire are one that overtakes another. Two changes of the settings are
one on its way and one that overlaps it, or replaces the whole. What the
settings, the remote files and the logs promise is proved for every bound (§5),
so their bounds here are the smallest at which the hazards happen.
Two resources and one follower are one that is followed and one that takes its
place; three starts are a third that comes while the first command still ends.
`MaxRetries`, `MaxCalls`, `MaxItems`, `MaxPath`, `MaxRuns`, `MaxMoves`, `MaxLogMoves`, `MaxEvents`,
`MaxRounds`, `MaxRevision`, `MaxSubscriptions`, `MaxSessions`, `MaxEdits`,
`MaxStarts` and `MaxLines` bound counters in the guards and are named in the modules; the `MaxRuns` of
`FileTasks` never bites, as `ConflictIsAnswerable` shows (`runs <= 2`).

`CHECK_DEADLOCK FALSE` is set where the system really stops: a dialer, a
transfer or a bounded number of calls ends.

### What the four violations show

* `ssh_dial_unattended`: a listing is said to be interruptible
  (`sshfileservice.go` 357). While another call's host-key question is
  unanswered its dialling waits for `store.mu`, which ignores contexts
  (`sshknownhosts.go` 369, 417).
* `ssh_dial_chain`: closing the last client is said to close all the jump
  hosts (`sshchain.go` 38). Only the last hop's connection owns the client it
  came through, so with two jump hosts the first stays open.
* `browser_root`: the default path of a source is said to be an entry point,
  not a boundary (`locales/en-US.json` 1828). The effect that loads a
  directory replaces `/` by the default path and finds that loaded already
  (`useRemoteFileBrowser.ts` 432-445), so from the default path the root is
  not reached, and the spinner that `navigate` turned on never stops.

* `registry_rename`: a rename is said to remove only the source tag
  (`imageoperations.go` 171-172). It lists the tags that share the manifest
  before it deletes it, and each change is a task of its own
  (`imageexport.go` 1208), with no lock among them: when two cross, the later
  deletion takes with it the target the first has put since it was listed.
  Both report success. One change at a time keeps the promise, as
  `LossIsAnnounced` and `DeliveredWhenDone` show in `transfers`.

## 4. Fairness

* Scheduler: goroutines that can run do run (weak fairness). A `select` whose
  `ctx.Done()` stays ready is not passed over for ever (strong fairness of
  `GiveUp`), as Go chooses among ready cases at random. Holders owe nothing:
  a task may run for ever, and `SlotNotWithheld` is stated so that it may.
* File tasks: the same for the runners, and an operation whose context is
  done returns. That holds if host-key questions are answered and
  `sftp.NewClient`, which takes no context, returns; `SshDial` shows how it
  fails otherwise. No fairness for the user, for clearing or for operations
  with a live context.
* Dialling: who waits for the mutex, the gate or a ready case gets it (strong
  fairness; Go's mutex is starvation-free). Handshakes end when the context
  does. `UserAnswers` is a separate assumption: `AttendedSpec` has it, `Spec`
  does not.
* Port forwards: the goroutine of a stopped tunnel runs to its end. The calls
  owe nothing, as dialling has no deadline.
* Pipeline: calls are served and answered, goroutines run, events arrive and
  the timer fires (weak fairness). Evaluation is bounded work in memory.
  `LastChangeIsAnswered` speaks of the time after the last edit; the user and
  the failures owe nothing.
* The engine and the other windows are checked for safety only: what holds when nothing is
  under way any more, and what holds all the time.

## 5. Proofs

`tlapm` checks all of these from nothing, for every value of the constants
that satisfies the modules' assumptions.

**TaskSchedulerProofs.** The inductive invariant `IInv` is `TypeOK`,
`SlotAccounting`, `NoLostWakeup` and the finiteness of the set of holders
(nothing is assumed of the number of callers; finiteness is what lets one
reason about a cardinality that grows and shrinks by one). `NoLostWakeup` alone
is not inductive: that whoever frees a slot has woken every sleeper must be
tied to the counter, and that the counter is the number of holders is also
what makes the guard `active > 0` in `Release` redundant. Theorems:
`TypeCorrect`, `SlotsAccounted`, `WakeupsNotLost` and `Refinement`: each
action maps to a step of `SlotPool` or a stutter, by the set of holders.

**FileTasksProofs.** `BusyIffOneRunner` and `ConflictIsAnswerable` are not
inductive: a runner writes a status without looking at the old one, so one
has to know which statuses are possible at each step of the last runner of a
task, that earlier runners are past their updates, and that an answered
policy is never *ask*. `TaskInv(t)` says this of one task and its runners;
a step touches one task, and a frame lemma keeps it for the others. `SlotOK`
ties a runner's step to its state in the scheduler. The rest of `IInv` is the
invariant of the scheduler itself, reused through an instance of
`TaskSchedulerProofs` with the runners as callers: every step of `FileTasks`
is a step of the scheduler or leaves it alone. Theorems: `TypeCorrect`,
`OneRunner`, `ConflictsAnswerable`, `NoSlotLeaks`, and `LifecycleRefinement`:
every step maps to a step of `TaskLifecycle` or a stutter.

**SshDialProofs.** The invariant has two halves. What dialers share: the mutex
of the store is held exactly by the dialer that has a question open
(`MutexIsAsking`), so nobody writes `known_hosts` while the user is asked, and a
question in the list is about a key that is not trusted (`QuestionIsOpen`). What
each has for itself: the clients of the hops behind it are open, the later ones
do not exist yet, and no connection takes over its upstream before the last hop
(`ChainBehind`). Theorems: `TypeCorrect`, `AskedWhenNeeded`, `JumpsSurvive`,
`GateLimits`, `LastHopsReleased`, and `ShortChainsRelease`. The last states
`CloseReleasesAll` under a hypothesis, that no route has more than one jump host:
without it the property is false, which is what the run `ssh_dial_chain` shows.
`LastHopsReleased` says what is left of it for every chain: only the clients of
the jump hosts before the last can stay open.

**PortForwardsProofs.** `OrphansOnlyByRace` speaks of states in which no call is
under way; the invariant has to say of each call, wherever it is, what it has in
hand (`InOrder`, `OwnIsNew`), that it has emptied the place of its forward in the
map before it opens a tunnel (`OpensUnmapped`), that it opens it for the
definition in force or the one it is about to put there (`OpensDefined`), and
that a tunnel that does something else than its definition says has a lane about
to stop it (`StaleIsPending`: the one place where it matters that the observer is
told of the configurations in their order). All of these are claimed of
forwards on which no two calls have raced. Theorems: `TypeCorrect`, `MapLive`,
`OrphansByRaceOnly`.

**PipelineSessionsProofs.** `ShownIsCurrent` relates what is shown to what is on
the screen; in between are what the hook believes to have sent, the update under
way, which leaves out what has not changed, what the session holds, the
computations, and the events. `IInv` says that they agree as far as each can
know: if the hook knows the pair of its session, the session holds what was sent
(`BaseFits`, `AnswerFits`); results of the last mutation, computed, on the way or
shown, are of what was sent with it (`ResultsFit`, `ShownFits`); a hook at rest
has sent what is on the screen (`Settled`). `Given`, `Waiting` and `Canonical`
are needed for one case: an answer taken for another session than the one it is
from. That session has been handed out and not used, so both hold what a session
begins with, or the numbers of the pair tell them apart. Theorems:
`TypeCorrect`, `ShownCurrent`.

**FileTransferProofs.** What a place holds depends on a count: the worker whose
piece makes `completedChunks` complete commits the file. `IInv` says that the
count is the number of pieces in the temporary file (`Counted`), that each piece
handed out has been written or is in the hands of one worker (`InHand`,
`NothingLost`), and that a file is committed by one worker, when it is complete
(`Committing`); so no other worker can write to, or commit, a file that is being
renamed. `Committed` and `Outcome` follow the phases of a task up to what it
reports. In `NothingLost`, the first
worker stands for all of them: it always exists and, unless the work is over, it
leaves only when everything has been handed out. `PlacesInv` speaks of the places:
who has removed something from one owes it an upload, and will report a failure
unless it is just about to rename (`Owes`); a file that was put at its place is
still there unless another task has the same place (`Shared`). Theorems:
`TypeCorrect`, `LossAnnounced`, `Delivery`.

**TransfersProofs, sessions.** None of the three safety properties is inductive: they
speak of who uses a session, the code only of a counter and of flags. `IInv`
says that as long as a session is open its counter is the number of calls that
keep it (`Keepers`, a finite set), that a session being installed belongs to
one call and is nowhere else, that a borrowed one is in the map or has been
retired, that the map holds open sessions, each for one source, and that a
session is closed by one call. Together these are why it is safe to close a
session that was found unused: who finds the counter at its last user knows
that no call and no map entry refers to it any more. Theorems:
`TypeCorrect`, `ClosedAfterUse`, `ConnectionIsRight`, `SessionsNotLeaked`.

**TransfersProofs, the rest.** The invariants that the run `transfers` checks under the
names `TransfersOK`, `LossIsAnnounced` and `DeliveredWhenDone` have one part for
each module that `Transfers` puts side by side. `AllInv` is the inductive
invariant of the part that is used, and each of the four has a section:

* *Host.* `HostIInv` follows a batch of copies or moves: in each phase, what the
  checks have found and which items have been begun (`Phases`); the places of
  the items begun are different entries of the target (`HostPlaces`); and, path
  by path, where the content of every file there was is now (`Kept`): in its
  old place or below the place of an item, never below the place of the item at
  work, unless it was to be overwritten. The last condition is what makes a
  step that fails halfway harmless. The tree stays a tree, with a directory
  above every entry (`Rooted`). That *keep both* finds a free name is a fact of
  its own: a tree is finite, the candidates are infinitely many and differ
  (pigeonhole), so there is a first free one (the least element of a set of
  numbers, by `WFMin`). `DeliveredWhenDone` speaks of requests that are
  `Independent` and on which nobody else works; `QInv` says of these that the
  items done are complete at their places with nothing added (`Settled`), that
  the others are still as they were (`Pending`), and that where one of them will
  go is free or known to be taken (`Vacant`).
* *Files.* The invariant of `FileTransferProofs`, by an instance of it.
* *Exports.* `ExportIInv` follows the phases of each task. That the exports of
  a batch never share a path (`Apart`) rests on the n-th of them taking the n-th
  free path. A task that has put its image at its path finds it there until a
  task that came later replaces it.
* *Tags.* A registry has no transactions: a request looks, and acts on what it
  saw. So everything the invariant says of a tag holds *unless the tag is in
  `disturbed`*, the tags that others have changed since the request looked:
  what lies ahead of an import (`Ahead`) and behind it (`Behind`), what a change
  found and leaves (`Changed`), and what a retry relies on (`Resumable`).
  `Removed` says which tags may be missing at each step of a rename or deletion.

Theorems: `Invariance`, and from it `Types`, `LossAnnounced` and `Delivery`,
which state the three invariants of the run.

**WindowsProofs, settings.** `ChoicesAreSaved` speaks of rest and of quitting, and
says nothing of the time before; so `IInv` says where each choice is meanwhile.
An uncontested field of the window has what was chosen, or what will be put in
place next has it: a view transition, or the answer of a replacement
(`IsComing`; for the image lists, what the loop has saved and will read back).
What the window shows and the file does not have is going to be saved: a save is
queued, under way, or other settings are expected (`IsStored`); a save under way
carries the settings shown unless they have been replaced since (`IsSaved`); and
who waits in order to quit waits for settings that have every choice
(`Quitting`). Behind these is that the loop has exactly one call on its way
(`Loop`), that no two calls of a kind overlap but those of the task centre, and
that a field over which calls and the window have raced is contested
(`Steady`). Theorems: `TypeCorrect`, `ChoicesSaved`.

**WindowsProofs, remote files.** The three properties speak of what is shown at
rest or while a spinner turns; what they rest on is what the hook believes in
between. `directoryLoadKeyRef` is either empty or names the directory whose
listing is shown or asked for, and every request that counts is for it
(`KeyFits`); if no effect is due, that is also the directory named above the
entries (`PlaceFits`). At most one directory or search is asked for at a time,
each spinner has its request (`Spinners`), a canceled directory is forgotten by
the key, so that it can be asked for again (`Searches`), and before the sources
have been loaded nothing else has (`Sourced`). A spinner without a request is
the subject of `Stuck`: either the user has asked for the root where there is a
default path, or the effect is due *and will find the key to be another one*, so
that it will ask; without the second half the invariant is not inductive. For
`ChangesAreShown`, a listing in the cache, on its way or shown is of the present
version, or a change to it is in `missed` or belongs to a task still to be
handled (`ListingsFresh`); that a reload forgets every key under which the
directory is cached needs that the empty path is cached only together with the
login directory (`CacheOK`). A new task is not among those handled because
their numbers are smaller (`Numbered`). Theorems: `BrowserTypes`,
`EntriesOfPath`, `ChangesShown`, `LoadingEnds`.

**WindowsProofs, logs.** Of the four parts of `LogsAreFollowed` two speak of
rest only. `LogIInv` says on which way what the window lacks comes to it in the
meantime. Of a monitor whose state is not the one on the list, an event is on
its way (`Told`), an answer of `StartLogMonitors` that will be merged has it
(`Pending`), or `GetLogMonitors` is under way and its answer is right or has yet
to be made (`ListFits`); what that answer holds is right, or an event or an
answer comes after it (`LoadFits`). Of a line that is not shown, the
announcement waits to be flushed or is on its way (`Announced`), or the question
under way has found it, has yet to look, or will be put again (`LinesFit`,
`QueryFits`). A question is always about what is selected, which is why no answer
shows a line of anything else. `Commands` is what the service relies on without a
lock around a command: a number belongs to one command, a cancelled command is
never the one of its monitor, every other is, and the monitors listed as
monitoring are finitely many, at most `MaxActive`; without the first two a
command that settles late could stop the monitor of its successor. Theorem:
`LogsFollowed`.

**WindowsProofs, task centre.** The snapshots on their way form a history
(`History`): of two, the one with the greater revision shows each task in a later
run, or in the same run with the same end if it had one, and equal revisions are
equal snapshots. What the window remembers of a task fits into that history:
there is a row with the status it remembers that every snapshot still to be taken
in comes after, and that every end it has announced comes before (`ViewFits`).
Then no snapshot announces an end a second time, though the window remembers
statuses and not runs; the status alone would not be inductive, since a retry
makes a task active again. For rest, `NewsComes` says that the newest table is the
one taken in last, or is on its way or buffered; and `EndsAreDue` that an end that
must be announced has been, or that the window still takes the task for active,
no answer is on its way that would take it in silently, and *every* snapshot on
its way tells of it (`Due`). That several buffered snapshots keep what each of
them keeps is `TakenIs`: the fold is a recursive function over finite sets, and
what it computes is shown by a least counterexample in their size. Theorems:
`CenterTypes`, `TasksShown`.

The assumptions are the ones named in the modules: requested limits are
integers, kinds are kinds, the bound on runners is positive, routes lead from
host to host, rules have a normal form that is its own, capacities are positive,
a task has at least one file and one connection and its files have different
places, trees are finite and what is above an entry of one is a directory, names
and paths are sequences, an export has either a batch or a path, an import puts
no tag twice (`checkImportTargets`) and is retried with what it had, a copy or
rename leads to another tag, and *no session*, *no tunnel*, *no call*, *no
error*, *no tag*, *no manifest*, *no source* and *no listing* are none of the things
they are the absence of (`Nil` is no state, monitor, answer or question of the logs); the sources of the browser are finitely many numbers,
login directories and default paths are paths, the bound on changes of the
settings is positive, the limits of the logs are natural numbers, a task centre
has at least one run per task and one subscription, and its `Absent` is no task,
status, table or answer. Sets of callers, of tasks, of calls, dialers, hosts, forwards,
tunnels and sessions, documents, rules and followed resources may be infinite.

**Only model-checked.** Liveness (`SlotNotWithheld`, `CanceledCallerLeaves`,
`DoneContextSettles`, `CancelInterrupts`, `DeletedForwardCloses`,
`LastChangeIsAnswered`): liveness under fairness and `ENABLED` are beyond the
prover. Of the invariants of `MCWindows` those of the image lists and the network
tests, `ListIsServed` and `StagesAreSettled`, and their parts of `WindowsOK`:
their models are large, and nothing has been proved about them so far. Of the logs, that
the buffers keep their limits (`LogsOK`, a part of `WindowsOK`): the total is a
fold over the monitors. `OnlySourceIsRemoved`, which the
code violates. What `PipelineSteps` computes, and with it
`ResultsAreOfTheRules`: what a recursive definition computes for every input
needs induction over data, and that, like `RECURSIVE` operators, is beyond the
prover. (An induction over numbers can at times be replaced by a least
counterexample, as in the host section of `TransfersProofs`.) For the same reason `PipelineSessions` removes a
session from its table by position (`Without`) and not with the community
modules' `Remove`, whose result is a fold.

## 6. What the properties leave open

* `DeliveredWhenDone` is about requests that are `Independent` (no
  destination above or at another item's source, no moved source above
  another) and undisturbed. Otherwise success may be reported although an
  item took, or was merged with, another one's place: with *overwrite*,
  removing one destination removes the source of the next item. The
  interface cannot easily produce such a selection, the code does not refuse
  it.
* `FileTransfer`: with two tasks for one target `DeliveredWhenDone` says only
  that each has put its file there once, since the later one replaces it. An
  upload that lost its first connection leaves temporary files on the host: only that
  connection removes them (`sshfileupload.go` 208-214), also when it is lost
  because the task was canceled (a source in local mode). And where the atomic
  rename fails, an upload removes the target before the plain rename: what was
  there is gone if it then stops, even if it stops by a cancellation and is
  shown as *canceled*; a canceled download has touched nothing. A source that
  changes while it is read is not modelled: the code does not look for it.
* `ImageExports`: two tasks of batches may have one path when one of them is
  tried again, as its path was not reserved in between; the second to commit
  then fails. A batch export whose `Link` succeeded and whose `Remove` failed
  reports a failure although its file is in place, and cannot succeed when it
  is tried again, because that file is in its way. A temporary file is taken
  to be removed by the second attempt (`imageexport.go` 703) at the latest; one
  that is left by a process that was killed stays.
* A canceled export from a registry, or change of tags in one, is shown as
  *failed*: `redactRegistryError` (`imageregistry.go` 452-463) makes a new error
  of the words, which is no longer `context.Canceled`.
* `RegistryTags`: a change of tags that fails, or is canceled, between the
  deletion of the manifest and the last tag it puts back leaves those tags
  gone; it is shown as failed, which is all `LossIsAnnounced` asks. That
  property and `DeliveredWhenDone` except tags that others have changed since
  the request looked (`disturbed`): changes of tags that cross undo one
  another, and one may come between the check of an import and its writing,
  so that the import replaces what the change has put there. A retry is
  refused because of the tag its first attempt has put when that attempt got
  no answer (`unsure`): only what was answered is published.
* A session that has broken is replaced by the calls that invalidate it; the
  text and create calls do not, and fail until a listing does
  (`sshfileservice.go` 455).
* `OrphansOnlyByRace` excepts forwards on which two calls overlapped, one of
  them opening a tunnel, and runs in which observers were told of two
  configurations out of order. Both exceptions are needed: TLC finds a start
  that overlaps a deletion and leaves a tunnel that no list shows, and an
  import that is not noticed because the observer last heard of an older
  configuration equal to it.
* An accepted host key need not lead to a connection (`KeyRefusedAgain`): the
  last attempt offers all key types again, and a host with several keys may
  present another one.
* `LastChangeIsAnswered` excepts three cases, which TLC finds. The hook counts
  the path `""` and the path `$` as different rules, the service as the same:
  it accepts the update without computing (`jsonpipelineservice.go` 269-275)
  and no result follows, so the window goes on loading until the next edit. An
  answer is taken for another session when the pipeline was turned off and on
  during an update. And a session that is dropped while it computes, or cannot
  be opened, gives no answer.
* `ResultsAreOfTheRules` holds for lists with a template last, as the window
  keeps them (`EngineAssumption`). `runPipeline` itself does not look again
  whether a template whose stage it takes over is still the last step
  (`jsonpipelinestage.go` 39-53, 80-85): for other lists it would give a result
  where a run from the beginning reports `templateNotLast`.
* `StepsKeepTheirPromise` excepts values in which an object has a name twice,
  which the parser lets through: reading takes the first, sorting by name puts
  the last under each (`jsonpipelineengine.go` 418-424), and a step on an
  array inside writes to all of them (`jsonvalue.go` 83-98).
* `ChangesAreShown` excepts what a task changed in a directory that was not
  shown when it ended: the effect that follows the tasks refreshes only what
  is shown, and marks the task as handled (`SshFilesTool.tsx` 400-423).
  The listing of the other directory stays in the cache for up to a day.
* `LoadingHasCause` excepts the case of `browser_root`.
* `ListIsIndex` excepts rows of a first round that a deletion cut off
  (`leftover`): they stay until the next snapshot. `WindowIsServed` excepts
  clients whose worker was stopped by the late call of an earlier client
  (`overtaken`): such a window waits for ever, as refreshing it only fails.
* `ListIsCurrent` excepts two cases. A monitor the window removes itself
  (unpicking, `ServiceManagerTool.tsx` 805, or eviction, 684) is announced by
  no event and stays on the window's list: looked at again it counts as
  monitored (702) and is not started, although browsing is meant to start
  collecting by itself (the comment at 726), until the list is loaded again
  for another reason. And an answer of `StartLogMonitors` that is overtaken by
  a change of state, or discards a reload (617), leaves an old state behind.
  Eviction goes by the picks of an older rendering, so what has just been
  picked may be evicted. `NoLineIsMissing` excepts lines that came in while
  their buffer was being cleared (763): the window empties itself once more.
* `ShownIsTheTable` excepts a window whose first snapshot failed and that holds
  buffered events newer than what it shows (`CenterAtRest`): they are not
  processed until it subscribes again.
  `EndsAreAnnouncedOnce` claims no announcement for ends that happened before
  the first snapshot, or that an overtaking snapshot hid (`quiet`).
* `ChoicesAreSaved` excepts fields on which two updates overlapped
  (`contested`). Each exception is needed. A change made while a view
  transition is pending is overwritten, and a transition that is skipped takes
  its change along (`App.tsx` 265-310). The answer of `SetTaskSettings` is
  shown although the user has chosen again, and carries the notification mode
  of the moment it was sent. Image lists saved before the configuration has
  been loaded are followed by saving the window's defaults. And `ResetConfig`
  and `ImportConfig` read their answer after they released the mutex
  (`configservice.go` 994, 1001): a `Save` that waited for it undoes the
  replacement, and the window takes the old settings for the new.
* `Save` keeps the lists that other services own, but not
  `PortColumnWidths`, which `SaveColumnWidths` (`portservice.go` 629) writes
  on its own: the next change of any setting puts back the widths that the
  window read when it started. The model leaves the widths out.
* `StagesAreSettled` excepts stages that stay `running` when the run is over,
  which a test of one case (`networktestservice_test.go` 2301) says must not
  be. `LeftRunning` is what TLC finds. A redirect of WebSocket begins the next
  `websocket-handshake` and ends the earlier one never
  (`networktestwebsocket.go` 54-59); when the proxy fails at a redirect, only
  `proxy-tunnel` is blamed (145), and the handshake of the redirect stays as
  well. An error of HTTP whose text contains *tls*, which the address in it
  may be the cause of, is blamed on `tls` whatever was under way
  (`networktesthttp.go` 313). An answer that comes before a large body has
  been sent: `WroteRequest` (279) may then set `http-response` to running
  after it has ended, and after a redirect it takes the next request's stage
  for its own. And callbacks that run when `Do` has returned with the context
  write stages of a run that is over; the window then shows its map again,
  in which the result is not.
* A stage may have failed in a run that succeeds. `rtsp-auth` reports rejected
  credentials if the authenticated request is answered by a redirect
  (`networktestrtsp.go` 249), and `DESCRIBE` counts its redirects from 0, so
  its stages overwrite those of the redirects of `OPTIONS`.

## 7. Not modelled

Next in line and still to do: the observers of the configuration. Of the
service manager, the inventory, the actions on services, the metrics sampler
and `StopLogMonitor`, which no window calls, are left out. Of the image tasks, the imports, pulls, pushes and tags of
Docker are left out, which are one or two commands of its own each, the reading
and rewriting of archives, progress, and the slots, which `FileTasks` has. Of
uploads and downloads, directories, links, the scan, the progress and the
choice of the target are left out, of the host's operations all but copy and
move. Within the modelled windows these are left out:

* browser: the directory tree, creation times, hidden files, favourites,
  missing SSH profiles, the refreshes the dialogs make themselves, and that a
  replaced configuration is only heard of while the window is active;
* image lists: progress, selection, tags, platforms, missing SSH profiles,
  the detail page, pushing and renaming;
* service logs: several hosts, groups, filters, highlighting, and the limit on
  the lines shown;
* task centre: progress, filters, system notifications, and pruning of tasks
  after a day;
* network tests: what the stages say, which kind of failure it was, the stage
  `tunnel-route` (a note that a connection left through a VPN), several runs
  at once, which share nothing, saved sources, and the parsing of targets;
* settings: validation and normalisation, export, observers, autostart,
  theme and language themselves, a failing `Get` at the start.

Not planned: reading and writing JSON texts and paths, the completion and the
result table of the JSON pipeline, and the converters of the other JSON tools
(pure functions, covered by unit tests), parsing of SSH and `known_hosts` files, Docker, registry and network
protocol clients (external I/O), the window shell, the other views (rendering
around one or two calls each), resources and build scripts. Most of the
front end's lines are such views, tables of data and components of the user
interface.

## 8. Plan

Done: `TaskScheduler`, `FileTasks`, `SshDial`, `SshSessions`,
`RemoteTransfer` and `PortForwards`, since the first two carry every
background task and the others are what those tasks and the calls next to
them work on; then `PipelineSessions`, `RemoteBrowser`, `ImageWatch`,
`TaskCenter`, `SettingsStore`, `LogMonitors` and `NetworkTests`, where what a
person sees depends on the order of answers and events; then `FileTransfer`, the proofs about
`SshSessions`, and `ImageExports` and `RegistryTags`, the runners behind the
second table of tasks; then `PipelineSteps` and `PipelineEngine`; last the
proofs about `SshDial`, `PortForwards`, `PipelineSessions`, `FileTransfer`, the
rest of `Transfers`, `SettingsStore`, `RemoteBrowser`, `LogMonitors` and `TaskCenter`.

Next modules, most important first:

1. The observers of the configuration, shared by `SettingsStore`,
   `PortForwards` and `TaskScheduler`: which limit is in force.
2. The rest of `operateRemoteFilesWithConnection`: rename, delete, mkdir and
   archives next to copy and move, and a second request on the tree that the
   first one left.

Next theorems: the other windows, beginning with `NoForeignRows` of `ImageWatch`.
